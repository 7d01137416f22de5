------------------------------- MODULE RsmAlarm -------------------------------
(***************************************************************************)
(* One alarm of AlarmEngine in scada/alarms.py: its lifecycle over the     *)
(* delays, the hysteresis and the acknowledgements.  The engine keeps no   *)
(* state between alarms, so one alarm stands for each.  Both calls run to  *)
(* their end on the event loop and are one step each; the clock moves      *)
(* between them.  Calls that raise change nothing and are no steps.        *)
(***************************************************************************)
EXTENDS Integers

CONSTANTS
  AlarmDefinitions,  \* the definitions explored, one for a behaviour
  Readings,          \* tag values and quality levels evaluate may be given
  Absent,            \* a deadline or version that is not there
  AlarmMaxTime, AlarmMaxVersion   \* bounds of the instances explored

HighConditions == {"HIGH", "HIGH_HIGH"}
LowConditions == {"LOW", "LOW_LOW"}
AlarmConditions ==
  {"BOOL_TRUE", "BOOL_FALSE", "BAD_QUALITY", "STALE_QUALITY"} \cup HighConditions \cup LowConditions

\* A BOOL tag's values are 0 and 1.  (evaluate raises for a level alarm on a
\* tag without a value.)
Reading == [value : Int, level : {"GOOD", "UNCERTAIN", "STALE", "BAD"}]

AlarmDefinition ==
  [condition : AlarmConditions, threshold : Int, hysteresis : Int, delayOn : Int,
   delayOff : Int, acknowledgementRequired : BOOLEAN, enabled : BOOLEAN]

ASSUME AlarmAssumption ==
  /\ AlarmDefinitions \subseteq AlarmDefinition
  /\ Readings \subseteq Reading
  /\ Absent \notin Int

AlarmStates ==
  {"NORMAL", "PENDING_ACTIVE", "ACTIVE_UNACKNOWLEDGED", "ACTIVE_ACKNOWLEDGED",
   "PENDING_RETURN", "RETURNED_UNACKNOWLEDGED", "DISABLED"}
ActiveStates == {"ACTIVE_UNACKNOWLEDGED", "ACTIVE_ACKNOWLEDGED"}

VARIABLES
  definition,  \* the AlarmDefinition, which never changes
  alarm,       \* the AlarmRuntime: state, version, deadline, acknowledged
  alarmClock,  \* the engine's clock
  seen,        \* the state and version an operator was last shown
  held,        \* history: what the last evaluation found, and since when
  owed         \* history: an activation awaits its acknowledgement

alarmVars == <<definition, alarm, alarmClock, seen, held, owed>>

AlarmTypeOK ==
  /\ definition \in AlarmDefinitions
  /\ alarm \in [state : AlarmStates, version : Nat, deadline : Int \cup {Absent},
                acknowledged : BOOLEAN]
  /\ alarmClock \in Nat
  /\ seen \in [state : AlarmStates, version : Nat]
  /\ held \in [condition : BOOLEAN, since : Nat]
  /\ owed \in BOOLEAN

AlarmInit ==
  /\ definition \in AlarmDefinitions
  /\ alarm = [state |-> IF definition.enabled THEN "NORMAL" ELSE "DISABLED", version |-> 0,
              deadline |-> Absent, acknowledged |-> FALSE]
  /\ alarmClock = 0
  /\ seen = [state |-> alarm.state, version |-> 0]
  /\ held = [condition |-> FALSE, since |-> 0] /\ owed = FALSE

-----------------------------------------------------------------------------
\* _condition: hysteresis widens the range of an alarm that is already raised.
Slack == IF alarm.state \in {"NORMAL", "PENDING_ACTIVE", "DISABLED"} THEN 0 ELSE definition.hysteresis

Condition(r) ==
  \/ definition.condition = "BOOL_TRUE" /\ r.value = 1
  \/ definition.condition = "BOOL_FALSE" /\ r.value = 0
  \/ definition.condition = "BAD_QUALITY" /\ r.level = "BAD"
  \/ definition.condition = "STALE_QUALITY" /\ r.level = "STALE"
  \/ definition.condition \in HighConditions /\ r.value >= definition.threshold - Slack
  \/ definition.condition \in LowConditions /\ r.value <= definition.threshold + Slack

Deadline(delay) == IF delay = 0 THEN Absent ELSE alarmClock + delay

\* _move: the state it is in already is no move.  A delay of zero is none.
MoveUnnumbered(a, state, delay) ==
  IF a.state = state THEN a
  ELSE [state |-> state, version |-> IF state = "PENDING_RETURN" THEN a.version ELSE a.version + 1,
        deadline |-> Deadline(delay), acknowledged |-> a.acknowledged]

Move(a, state, delay) ==
  IF a.state = state THEN a
  ELSE [state |-> state, version |-> a.version + 1, deadline |-> Deadline(delay),
        acknowledged |-> a.acknowledged]

Due(a) == IF a.deadline = Absent THEN TRUE ELSE alarmClock >= a.deadline

\* Where an alarm comes to rest whose condition has gone.
RestingUnowed(a) == "NORMAL"
Resting(a) ==
  IF a.acknowledged \/ ~definition.acknowledgementRequired THEN "NORMAL"
  ELSE "RETURNED_UNACKNOWLEDGED"

\* An alarm whose condition holds.  One without a delay passes through
\* PENDING_ACTIVE within the call.
Relapsed(a) == IF a.acknowledged THEN "ACTIVE_ACKNOWLEDGED" ELSE "ACTIVE_UNACKNOWLEDGED"
Raised(a) ==
  LET pending == IF a.state = "NORMAL" THEN Move(a, "PENDING_ACTIVE", definition.delayOn) ELSE a
  IN IF pending.state = "PENDING_ACTIVE" /\ Due(pending) THEN Move(pending, "ACTIVE_UNACKNOWLEDGED", 0)
     ELSE IF pending.state = "PENDING_RETURN" THEN Move(pending, Relapsed(pending), 0)
     ELSE pending

\* An alarm whose condition does not hold.
Returning(a) ==
  LET pending == Move(a, "PENDING_RETURN", definition.delayOff)
  IN IF definition.delayOff = 0 THEN Move(pending, Resting(a), 0) ELSE pending

ClearedUnlessPending(a) ==
  IF a.state \in ActiveStates THEN Returning(a)
  ELSE IF a.state = "PENDING_RETURN" /\ Due(a) THEN Move(a, Resting(a), 0)
  ELSE a

Cleared(a) ==
  IF a.state = "PENDING_ACTIVE" THEN Move(a, "NORMAL", 0)
  ELSE IF a.state \in ActiveStates THEN Returning(a)
  ELSE IF a.state = "PENDING_RETURN" /\ Due(a) THEN Move(a, Resting(a), 0)
  ELSE a

Activates(before, after) ==
  before.state \in {"NORMAL", "PENDING_ACTIVE"} /\ after.state = "ACTIVE_UNACKNOWLEDGED"

Evaluate(r) ==
  /\ alarm.version < AlarmMaxVersion
  /\ alarm' = IF Condition(r) THEN Raised(alarm) ELSE Cleared(alarm)
  /\ held' = IF Condition(r) = held.condition THEN held
             ELSE [condition |-> Condition(r), since |-> alarmClock]
  /\ owed' = (owed \/ (definition.acknowledgementRequired /\ Activates(alarm, alarm')))
  /\ UNCHANGED <<definition, alarmClock, seen>>

\* The remembered acknowledgement is never taken back.
Acknowledged(a) == Move([a EXCEPT !.acknowledged = TRUE], "ACTIVE_ACKNOWLEDGED", 0)

\* In ACTIVE_ACKNOWLEDGED and NORMAL the call succeeds and does nothing; in
\* the other states it raises, as it does for a version that is out of date.
Acknowledge(version) ==
  /\ version \in {Absent, alarm.version}
  /\ alarm' = IF alarm.state = "ACTIVE_UNACKNOWLEDGED" THEN Acknowledged(alarm)
              ELSE IF alarm.state = "RETURNED_UNACKNOWLEDGED" THEN Move(alarm, "NORMAL", 0)
              ELSE alarm
  /\ owed' = (owed /\ alarm' = alarm)
  /\ UNCHANGED <<definition, alarmClock, seen, held>>

Look ==
  /\ seen' = [state |-> alarm.state, version |-> alarm.version]
  /\ UNCHANGED <<definition, alarm, alarmClock, held, owed>>

AlarmTick ==
  /\ alarmClock < AlarmMaxTime /\ alarmClock' = alarmClock + 1
  /\ UNCHANGED <<definition, alarm, seen, held, owed>>

AlarmNext ==
  \/ \E r \in Readings : Evaluate(r)
  \/ Acknowledge(Absent) \/ Acknowledge(seen.version)
  \/ Look \/ AlarmTick

AlarmSpec == AlarmInit /\ [][AlarmNext]_alarmVars

-----------------------------------------------------------------------------
\* An operator who acknowledges with the version he was shown acknowledges the
\* state he was shown, however many moves one evaluation made.
VersionNamesState == seen.version = alarm.version => seen.state = alarm.state

\* No alarm is raised, and none returns, before the evaluations have found its
\* condition so for the whole delay; a relapse starts the delay again.
DelaysKept ==
  [][/\ Activates(alarm, alarm') => held'.condition /\ alarmClock - held'.since >= definition.delayOn
     /\ (alarm.state \in ActiveStates \cup {"PENDING_RETURN"}
           /\ alarm'.state \in {"NORMAL", "RETURNED_UNACKNOWLEDGED"})
        => ~held'.condition /\ alarmClock - held'.since >= definition.delayOff]_alarmVars

\* An alarm shown as unacknowledged awaits an acknowledgement, and one that
\* awaits it stays on show, through returns and relapses, until the alarm has
\* been acknowledged once.
ObligationShown ==
  /\ (alarm.state \in {"ACTIVE_UNACKNOWLEDGED", "RETURNED_UNACKNOWLEDGED"}
        /\ definition.acknowledgementRequired) => owed
  /\ owed /\ ~alarm.acknowledged =>
       alarm.state \in {"ACTIVE_UNACKNOWLEDGED", "PENDING_RETURN", "RETURNED_UNACKNOWLEDGED"}

\* docs/alarms.md: PENDING_RETURN and RETURNED_UNACKNOWLEDGED preserve
\* acknowledgement obligations.  The acknowledgement of an earlier activation
\* is taken for that of a later one.
ObligationPreserved == owed => alarm.state # "NORMAL"
===============================================================================
