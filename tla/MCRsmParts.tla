------------------------------ MODULE MCRsmParts ------------------------------
(***************************************************************************)
(* The components that share nothing with another: the native binding's    *)
(* object, one alarm, one route, one historian, one supervised controller, *)
(* the node's command queue, the link's stream decoder, one connection of  *)
(* its client and the C runtime's arena.  A behaviour explores one of them *)
(* with the others at rest, so that one run covers each of them and none   *)
(* of their products.                                                      *)
(***************************************************************************)
EXTENDS RsmBinding, RsmAlarm, RsmRouting, RsmHistorian, RsmSupervisor,
        RsmNodeQueue, RsmLinkStream, RsmLinkClient, RsmLayout, TLC

-----------------------------------------------------------------------------
(* Seven valid images in four sizes, the second within the allowance for   *)
(* alignment of the first; and one image that the validator refuses.       *)

CONSTANTS small, small2, fitting, fitting2, large, large2, huge, bad

SomeValid == {small, small2, fitting, fitting2, large, large2, huge}
SomeImages == SomeValid \cup {bad}
SomeNeed == small :> 16 @@ small2 :> 16 @@ fitting :> 24 @@ fitting2 :> 24 @@
            large :> 40 @@ large2 :> 40 @@ huge :> 64 @@ bad :> 8

(* Every kind of condition, with and without delays and hysteresis.        *)

HighAlarm(on, off, slack, needed) ==
  [condition |-> "HIGH", threshold |-> 2, hysteresis |-> slack, delayOn |-> on, delayOff |-> off,
   acknowledgementRequired |-> needed, enabled |-> TRUE]

SomeAlarms ==
  {HighAlarm(0, 0, 0, TRUE), HighAlarm(2, 0, 1, TRUE), HighAlarm(1, 2, 1, TRUE),
   HighAlarm(1, 1, 0, FALSE),
   [HighAlarm(0, 1, 0, TRUE) EXCEPT !.condition = "LOW", !.threshold = 0],
   [HighAlarm(1, 0, 0, TRUE) EXCEPT !.condition = "BOOL_TRUE"],
   [HighAlarm(0, 1, 0, TRUE) EXCEPT !.condition = "BOOL_FALSE"],
   [HighAlarm(0, 2, 0, TRUE) EXCEPT !.condition = "BAD_QUALITY"],
   [HighAlarm(0, 0, 0, TRUE) EXCEPT !.condition = "STALE_QUALITY"],
   [HighAlarm(0, 0, 0, TRUE) EXCEPT !.enabled = FALSE]}

AlarmReadings == [value : 0..2, level : {"GOOD"}] \cup [value : {1}, level : {"STALE", "BAD"}]

(* Readings of every quality, and none that equals the substitute.         *)

AllReadings == [value : 1..2, good : BOOLEAN]

(* Two programs that share a tag under different ids, and the first has    *)
(* another one under the id of the second.                                 *)

CONSTANTS programA, programB

SomeManifests == programA :> <<"shared", "only A">> @@ programB :> (2 :> "shared")

(* Reconnecting for ever, and giving up after a second failure.            *)

SomeLimits == {Unlimited, 1}

(* Two good frames in a row, or one that fills the storage, alone and      *)
(* followed by each kind of bad frame: damaged, cut short, or with a       *)
(* length that is too large or wraps around.                               *)

StartOf(s) == LET at[k \in 1..(Len(s) + 1)] == IF k = 1 THEN 0 ELSE at[k - 1] + s[k - 1].bytes IN at
Sending(s) == [frames |-> s, start |-> StartOf(s)]
Damaged(f, field) == [f EXCEPT ![field] = FALSE]
Cut(f, bytes) == [f EXCEPT !.bytes = bytes]

SomeEndings ==
  {<<>>, <<Cut(Encoded(2), 6)>>} \cup {<<Damaged(Encoded(1), field)>> : field \in {"starts", "version", "crc"}}
    \cup {<<Cut(Encoded(n), 6)>> : n \in {4, 12, 14, 15}}
SomeTransmissions ==
  {Sending(s \o e) : s \in {<<Encoded(0), Encoded(2)>>, <<Encoded(3)>>}, e \in SomeEndings}

(* Arenas at every kind of address, from too small to large enough, and    *)
(* images with and without each array, some larger than a size can say.    *)

SomeArenas == [base : {3, 8, 13, 16}, size : {4, 20, 27, 33, 41, 47}]
SomeShapes == [tags : 0..3, slots : {<<>>, <<0>>, <<2, 5>>, <<0, 3, 4>>}, rungs : 0..2]

(* Files of two sections, with ranges of every kind: empty, overlapping    *)
(* the directory or each other, beyond the file, and wrapping around.      *)

SomeDescriptors == [kind : 0..2, offset : 2..7, length : 0..7]
SomeFiles == [size : {4, 7}, directory : {<<c, d>> : c, d \in SomeDescriptors}]

-----------------------------------------------------------------------------
VARIABLE part

cParts == {"queue", "stream", "client", "layout"}
cPartVars == <<queueVars, streamVars, linkVars, layoutVars>>

Parts == {"binding", "alarm", "route", "historian", "broker", "queue", "stream", "client", "layout"}

PartsInit ==
  /\ part \in Parts
  /\ Init /\ RoutingInit /\ HistorianInit /\ NodeQueueInit /\ ClientInit
  /\ BrokerInit /\ (part # "broker" => controller.program = programA /\ limit = 1)
  /\ AlarmInit /\ (part # "alarm" => definition = HighAlarm(0, 0, 0, TRUE))
  /\ StreamInit /\ (part # "stream" => streamCapacity = 7 /\ sent = Sending(<<Encoded(3)>>))
  /\ LayoutInit /\ (part # "layout" => memory = [base |-> 8, size |-> 20])

PartsNext ==
  /\ part' = part
  /\ IF part \in cParts
     THEN UNCHANGED <<vars, alarmVars, routeVars, historyVars, brokerVars>> ELSE UNCHANGED cPartVars
  /\ \/ part = "binding" /\ Next /\ UNCHANGED <<alarmVars, routeVars, historyVars, brokerVars>>
     \/ part = "alarm" /\ AlarmNext /\ UNCHANGED <<vars, routeVars, historyVars, brokerVars>>
     \/ part = "route" /\ RoutingNext /\ UNCHANGED <<vars, alarmVars, historyVars, brokerVars>>
     \/ part = "historian" /\ HistorianNext /\ UNCHANGED <<vars, alarmVars, routeVars, brokerVars>>
     \/ part = "broker" /\ BrokerNext /\ UNCHANGED <<vars, alarmVars, routeVars, historyVars>>
     \/ part = "queue" /\ NodeQueueNext /\ UNCHANGED <<streamVars, linkVars, layoutVars>>
     \/ part = "stream" /\ StreamNext /\ UNCHANGED <<queueVars, linkVars, layoutVars>>
     \/ part = "client" /\ ClientNext /\ UNCHANGED <<queueVars, streamVars, layoutVars>>
     \/ part = "layout" /\ LayoutNext /\ UNCHANGED <<queueVars, streamVars, linkVars>>

PartsSpec ==
  PartsInit /\ [][PartsNext]_<<part, vars, alarmVars, routeVars, historyVars, brokerVars, cPartVars>>
  /\ (part = "historian" => HistorianFair) /\ (part = "broker" => BrokerFair)
===============================================================================
