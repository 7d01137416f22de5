------------------------------ MODULE RsmRouting ------------------------------
(***************************************************************************)
(* One route of RoutingEngine in scada/routing.py and the tags it writes   *)
(* at the destination controller.  source_update and timeout run to their  *)
(* first await in one step and then wait for one write after the other.    *)
(* Nothing keeps the calls of a route apart, so they may interleave        *)
(* between their writes, and a write that raises ends its call.            *)
(*                                                                         *)
(* The route has all three tags beside the value: safe ladder logic needs  *)
(* quality-good and stale, and a tag that is not configured is passed      *)
(* over.                                                                   *)
(***************************************************************************)
EXTENDS Integers, Sequences

CONSTANTS
  RouteCalls,       \* the coroutines that may be under way at once
  RouteReadings,    \* what source_update may be given
  Deadband, MinimumInterval,
  Substitutes,      \* stale_policy is SUBSTITUTE
  SubstituteValue,
  NeverSent,        \* no value or time yet
  RouteMaxTime, RouteMaxCalls   \* bounds of the instances explored

RouteReading == [value : Int, good : BOOLEAN]

ASSUME RoutingAssumption ==
  /\ RouteReadings \subseteq RouteReading
  /\ Deadband \in Nat /\ MinimumInterval \in Nat
  /\ Substitutes \in BOOLEAN /\ SubstituteValue \in Int
  /\ NeverSent \notin Int

VARIABLES
  route,       \* the route's diagnostics and the last value sent
  destination, \* the consumed value and the quality tags beside it
  pendingWrites, \* call by call, the writes it has yet to make
  routeClock,
  calls,       \* history: calls made
  crossed      \* history: the calls that another one started during, or that
               \* started during another one

routeVars == <<route, destination, pendingWrites, routeClock, calls, crossed>>

\* A write, and whether its call has a reading of good or poor quality to
\* write, or the substitute.
Origins == {"good", "poor", "substitute"}
Write(tag, v, from) == [tag |-> tag, v |-> v, from |-> from]
OriginOf(r) == IF r.good THEN "good" ELSE "poor"

RoutingTypeOK ==
  /\ route \in [sequence : Nat, staleCount : Nat, time : Nat \cup {NeverSent},
                value : Int \cup {NeverSent}, quality : {"UNCERTAIN", "GOOD", "POOR", "STALE"}]
  /\ destination \in [value : Int, good : BOOLEAN, stale : BOOLEAN, bad : BOOLEAN, from : Origins]
  /\ \A c \in RouteCalls : Len(pendingWrites[c]) <= 4
  /\ routeClock \in Nat /\ calls \in Nat /\ crossed \subseteq RouteCalls

\* The destination's tags start without a good value.
RoutingInit ==
  /\ route = [sequence |-> 0, staleCount |-> 0, time |-> NeverSent, value |-> NeverSent,
              quality |-> "UNCERTAIN"]
  /\ destination = [value |-> SubstituteValue, good |-> FALSE, stale |-> FALSE, bad |-> FALSE,
                    from |-> "substitute"]
  /\ pendingWrites = [c \in RouteCalls |-> <<>>]
  /\ routeClock = 0 /\ calls = 0 /\ crossed = {}

UnderWay == {c \in RouteCalls : pendingWrites[c] # <<>>}

CallStarts(c) ==
  /\ c \notin UnderWay /\ calls < RouteMaxCalls
  /\ calls' = calls + 1
  /\ crossed' = IF UnderWay = {} THEN crossed \ {c} ELSE crossed \cup UnderWay \cup {c}

Distance(a, b) == IF a < b THEN b - a ELSE a - b

\* source_update leaves out a value too near the last one, or too soon.
WithinDeadband(v) == IF route.value = NeverSent THEN FALSE ELSE Distance(v, route.value) < Deadband
TooSoon == IF route.time = NeverSent THEN FALSE ELSE routeClock - route.time < MinimumInterval

EnergizingStillStale(r) ==
  <<Write("value", r.value, OriginOf(r)), Write("good", r.good, OriginOf(r))>>

EnergizingQualityFirst(r) ==
  <<Write("stale", FALSE, OriginOf(r)), Write("good", r.good, OriginOf(r)),
    Write("value", r.value, OriginOf(r))>>

\* The energizing order, whatever the quality of the reading.
Energizing(r) ==
  <<Write("value", r.value, OriginOf(r)), Write("stale", FALSE, OriginOf(r)),
    Write("good", r.good, OriginOf(r))>>

SourceUpdate(c, r) ==
  /\ CallStarts(c)
  /\ ~WithinDeadband(r.value) /\ ~TooSoon
  /\ route' = [route EXCEPT !.sequence = @ + 1, !.time = routeClock, !.value = r.value,
                            !.quality = IF r.good THEN "GOOD" ELSE "POOR"]
  /\ pendingWrites' = [pendingWrites EXCEPT ![c] = Energizing(r)]
  /\ UNCHANGED <<destination, routeClock>>

DeEnergizingValueFirst ==
  <<Write("value", SubstituteValue, "substitute"), Write("good", FALSE, "substitute"),
    Write("stale", TRUE, "substitute"), Write("bad", FALSE, "substitute")>>

\* The interlocks drop before the value changes.
DeEnergizing ==
  <<Write("good", FALSE, "substitute"), Write("stale", TRUE, "substitute"),
    Write("bad", FALSE, "substitute"), Write("value", SubstituteValue, "substitute")>>

Timeout(c) ==
  /\ CallStarts(c)
  /\ route' = [route EXCEPT !.staleCount = @ + 1, !.quality = "STALE"]
  /\ pendingWrites' = [pendingWrites EXCEPT ![c] = IF Substitutes THEN DeEnergizing ELSE <<>>]
  /\ UNCHANGED <<destination, routeClock>>

Written(w) ==
  CASE w.tag = "value" -> [destination EXCEPT !.value = w.v, !.from = w.from]
    [] w.tag = "good" -> [destination EXCEPT !.good = w.v]
    [] w.tag = "stale" -> [destination EXCEPT !.stale = w.v]
    [] w.tag = "bad" -> [destination EXCEPT !.bad = w.v]

WriteSucceeds(c) ==
  /\ pendingWrites[c] # <<>>
  /\ destination' = Written(Head(pendingWrites[c]))
  /\ pendingWrites' = [pendingWrites EXCEPT ![c] = Tail(@)]
  /\ UNCHANGED <<route, routeClock, calls, crossed>>

WriteFails(c) ==
  /\ pendingWrites[c] # <<>>
  /\ pendingWrites' = [pendingWrites EXCEPT ![c] = <<>>]
  /\ UNCHANGED <<route, destination, routeClock, calls, crossed>>

RouteTick ==
  /\ routeClock < RouteMaxTime /\ routeClock' = routeClock + 1
  /\ UNCHANGED <<route, destination, pendingWrites, calls, crossed>>

RoutingNext ==
  \/ \E c \in RouteCalls :
       \/ \E r \in RouteReadings : SourceUpdate(c, r)
       \/ Timeout(c) \/ WriteSucceeds(c) \/ WriteFails(c)
  \/ RouteTick

RoutingSpec == RoutingInit /\ [][RoutingNext]_routeVars

-----------------------------------------------------------------------------
\* What safe ladder logic at the destination asks for beside the value.
Permits == destination.good /\ ~destination.stale

\* Whenever they permit, the consumed value is a reading of good quality.
InterlocksSafe == Permits => destination.from = "good"

\* What the route's diagnostics say of the destination.
DiagnosticsTrue ==
  /\ route.quality = "GOOD" => Permits /\ destination.value = route.value
  /\ route.quality = "POOR" => ~Permits /\ destination.value = route.value
  /\ route.quality = "STALE" => ~Permits /\ destination.value = SubstituteValue

\* Of the steps between two awaits only two kinds can make the destination's
\* interlocks permit what is no good reading: those of a call that crosses
\* another, and those of an update with a poor reading.  Every other update,
\* recovery and time-out passes through safe states alone, whatever the calls
\* before it left behind, also where they crossed or failed half-way.
UncrossedStaySafe ==
  [][\A c \in RouteCalls \ crossed :
       InterlocksSafe /\ WriteSucceeds(c) /\ Head(pendingWrites[c]).from # "poor" =>
         InterlocksSafe']_routeVars

\* A call that crosses no other and gets through its writes repairs whatever
\* failed and crossed calls, poor readings among them, have left: the interlocks
\* are safe then, and the route's diagnostics are those of the destination.
UncrossedEndTrue ==
  [][\A c \in RouteCalls \ crossed :
       WriteSucceeds(c) /\ pendingWrites'[c] = <<>> => InterlocksSafe' /\ DiagnosticsTrue']_routeVars
===============================================================================
