---------------------------- MODULE RsmAlarmProofs ----------------------------
(***************************************************************************)
(* What holds of every alarm, for all definitions, readings and bounds.    *)
(* The delays need an invariant of their own: a pending alarm's deadline   *)
(* lies a whole delay after the evaluation that first found its condition. *)
(***************************************************************************)
EXTENDS RsmAlarm, TLAPS

\* The deadline of a pending alarm, against what the evaluations have found.
WaitsFor(condition, delay) ==
  /\ held.condition = condition
  /\ IF alarm.deadline = Absent THEN delay = 0 ELSE alarm.deadline >= held.since + delay

Pending ==
  /\ held.since <= alarmClock
  /\ alarm.state = "PENDING_ACTIVE" => WaitsFor(TRUE, definition.delayOn)
  /\ alarm.state = "PENDING_RETURN" => WaitsFor(FALSE, definition.delayOff)

Versions == seen.version <= alarm.version /\ VersionNamesState

\* Nothing but an acknowledgement relieves an alarm that is about to return.
Owing ==
  /\ owed => definition.acknowledgementRequired
  /\ alarm.state = "ACTIVE_ACKNOWLEDGED" => alarm.acknowledged
  /\ (alarm.state = "PENDING_RETURN" /\ definition.acknowledgementRequired) =>
       (owed \/ alarm.acknowledged)

AlarmInvariant == AlarmTypeOK /\ Versions /\ ObligationShown /\ Owing /\ Pending

Alarms ==
  [state : AlarmStates, version : Nat, deadline : Int \cup {Absent}, acknowledged : BOOLEAN]

-----------------------------------------------------------------------------
\* What a move makes of an alarm that is not in the state asked for.
Moved(a, b, s, d) ==
  /\ b \in Alarms
  /\ b.state = s /\ b.version = a.version + 1
  /\ b.deadline = Deadline(d) /\ b.acknowledged = a.acknowledged

LEMMA MoveMoves ==
  ASSUME NEW a \in Alarms, NEW s \in AlarmStates, NEW d \in Int, alarmClock \in Nat, a.state # s
  PROVE  Moved(a, Move(a, s, d), s, d)
<1>. DEFINE after == [state |-> s, version |-> a.version + 1, deadline |-> Deadline(d),
                      acknowledged |-> a.acknowledged]
<1>1. Deadline(d) \in Int \cup {Absent}
  BY DEF Deadline
<1>2. a.version + 1 \in Nat /\ a.acknowledged \in BOOLEAN
  BY DEF Alarms
<1>3. Move(a, s, d) = after
  BY DEF Move
<1>4. after \in Alarms
  BY <1>1, <1>2 DEF Alarms
<1>5. /\ after.state = s /\ after.version = a.version + 1
      /\ after.deadline = Deadline(d) /\ after.acknowledged = a.acknowledged
  OBVIOUS
<1>. QED BY <1>3, <1>4, <1>5 DEF Moved

-----------------------------------------------------------------------------
LEMMA InitHolds == ASSUME AlarmInit PROVE AlarmInvariant
<1>1. definition \in AlarmDefinition BY AlarmAssumption DEF AlarmInit
<1>2. /\ alarm.version = 0 /\ alarm.state \in {"NORMAL", "DISABLED"} /\ seen.state = alarm.state
      /\ held.since = 0 /\ alarmClock = 0 /\ owed = FALSE
  BY DEF AlarmInit
<1>3. AlarmTypeOK
  <2>1. alarm \in Alarms
    BY DEF AlarmInit, Alarms, AlarmStates
  <2>2. seen \in [state : AlarmStates, version : Nat] /\ held \in [condition : BOOLEAN, since : Nat]
    BY <1>2 DEF AlarmInit, AlarmStates
  <2>. QED BY <2>1, <2>2, <1>2 DEF AlarmInit, AlarmTypeOK, Alarms
<1>4. Versions
  BY <1>2 DEF AlarmInit, Versions, VersionNamesState
<1>5. ObligationShown /\ Owing
  BY <1>2 DEF ObligationShown, Owing
<1>6. Pending
  <2>1. alarm.state # "PENDING_ACTIVE" /\ alarm.state # "PENDING_RETURN"
    BY <1>2
  <2>2. held.since <= alarmClock
    BY <1>2
  <2>. QED BY <2>1, <2>2 DEF Pending
<1>. QED BY <1>3, <1>4, <1>5, <1>6 DEF AlarmInvariant

-----------------------------------------------------------------------------
\* What an evaluation may make of an alarm: never another version of itself.
Successor(a, b) ==
  /\ b \in Alarms /\ b.acknowledged = a.acknowledged
  /\ b.version >= a.version
  /\ b.version = a.version => b = a

LEMMA MovesSucceed ==
  ASSUME NEW a \in Alarms, NEW b, NEW s, NEW d, Moved(a, b, s, d)
  PROVE  Successor(a, b) /\ b.version > a.version
<1>1. a.version \in Nat /\ b.version = a.version + 1
  BY DEF Alarms, Moved
<1>. QED BY <1>1 DEF Moved, Successor

LEMMA TwoMovesSucceed ==
  ASSUME NEW a \in Alarms, NEW b, NEW c, NEW s, NEW d, NEW t, NEW e,
         Moved(a, b, s, d), Moved(b, c, t, e)
  PROVE  Successor(a, c)
<1>1. a.version \in Nat /\ b.version = a.version + 1 /\ c.version = b.version + 1
  BY DEF Alarms, Moved
<1>2. c \in Alarms /\ c.acknowledged = a.acknowledged
  BY DEF Moved
<1>. QED BY <1>1, <1>2 DEF Successor

LEMMA RaisedCases ==
  ASSUME AlarmInvariant
  PROVE  /\ Successor(alarm, Raised(alarm))
         /\ \/ Raised(alarm) = alarm /\ alarm.state \notin {"NORMAL", "PENDING_RETURN"}
            \/ /\ alarm.state = "NORMAL" /\ Raised(alarm).state = "PENDING_ACTIVE"
               /\ Raised(alarm).deadline = alarmClock + definition.delayOn
            \/ /\ alarm.state = "NORMAL" /\ Raised(alarm).state = "ACTIVE_UNACKNOWLEDGED"
               /\ definition.delayOn <= 0
            \/ /\ alarm.state = "PENDING_ACTIVE" /\ Raised(alarm).state = "ACTIVE_UNACKNOWLEDGED"
               /\ Due(alarm)
            \/ alarm.state = "PENDING_RETURN" /\ Raised(alarm).state = Relapsed(alarm)
<1>. DEFINE pending == Move(alarm, "PENDING_ACTIVE", definition.delayOn)
<1>1. alarm \in Alarms /\ alarmClock \in Nat /\ definition.delayOn \in Int
  BY AlarmAssumption DEF AlarmInvariant, AlarmTypeOK, Alarms, AlarmDefinition
<1>2. /\ "PENDING_ACTIVE" \in AlarmStates /\ "ACTIVE_UNACKNOWLEDGED" \in AlarmStates
      /\ Relapsed(alarm) \in AlarmStates /\ Relapsed(alarm) # "PENDING_RETURN"
      /\ alarm.version \in Nat
  BY <1>1 DEF AlarmStates, Relapsed, Alarms
<1>3. CASE alarm.state = "NORMAL"
  <2>1. Moved(alarm, pending, "PENDING_ACTIVE", definition.delayOn)
    BY <1>1, <1>2, <1>3, MoveMoves
  <2>2. CASE Due(pending)
    <3>1. Raised(alarm) = Move(pending, "ACTIVE_UNACKNOWLEDGED", 0)
      BY <1>3, <2>1, <2>2 DEF Raised, Moved
    <3>2. definition.delayOn <= 0
      BY <1>1, <2>1, <2>2, AlarmAssumption DEF Due, Deadline, Moved
    <3>. HIDE DEF pending
    <3>3. pending \in Alarms /\ pending.state = "PENDING_ACTIVE"
      BY <2>1 DEF Moved
    <3>4. Moved(pending, Raised(alarm), "ACTIVE_UNACKNOWLEDGED", 0)
      BY <1>1, <1>2, <3>1, <3>3, MoveMoves
    <3>5. Successor(alarm, Raised(alarm))
      BY <1>1, <2>1, <3>4, TwoMovesSucceed
    <3>. QED BY <1>3, <3>2, <3>4, <3>5 DEF Moved
  <2>3. CASE ~Due(pending)
    <3>1. Raised(alarm) = pending
      BY <1>3, <2>1, <2>3 DEF Raised, Moved
    <3>2. pending.deadline = alarmClock + definition.delayOn
      BY <2>1, <2>3 DEF Due, Deadline, Moved
    <3>3. Successor(alarm, pending) /\ pending.state = "PENDING_ACTIVE"
      BY <1>1, <2>1, MovesSucceed DEF Moved
    <3>. HIDE DEF pending
    <3>. QED BY <1>3, <3>1, <3>2, <3>3
  <2>. QED BY <2>2, <2>3
<1>4. CASE alarm.state = "PENDING_ACTIVE"
  <2>1. CASE Due(alarm)
    <3>1. Raised(alarm) = Move(alarm, "ACTIVE_UNACKNOWLEDGED", 0)
      BY <1>4, <2>1 DEF Raised
    <3>2. Moved(alarm, Raised(alarm), "ACTIVE_UNACKNOWLEDGED", 0)
      BY <1>1, <1>2, <1>4, <3>1, MoveMoves
    <3>3. Successor(alarm, Raised(alarm))
      BY <1>1, <3>2, MovesSucceed
    <3>. QED BY <1>4, <2>1, <3>2, <3>3 DEF Moved
  <2>2. CASE ~Due(alarm)
    <3>1. Raised(alarm) = alarm
      BY <1>4, <2>2 DEF Raised
    <3>. QED BY <1>1, <1>2, <1>4, <3>1 DEF Successor
  <2>. QED BY <2>1, <2>2
<1>5. CASE alarm.state = "PENDING_RETURN"
  <2>1. Raised(alarm) = Move(alarm, Relapsed(alarm), 0)
    BY <1>5 DEF Raised
  <2>2. Moved(alarm, Raised(alarm), Relapsed(alarm), 0)
    BY <1>1, <1>2, <1>5, <2>1, MoveMoves
  <2>3. Successor(alarm, Raised(alarm))
    BY <1>1, <2>2, MovesSucceed
  <2>. QED BY <1>5, <2>2, <2>3 DEF Moved
<1>6. CASE alarm.state \notin {"NORMAL", "PENDING_ACTIVE", "PENDING_RETURN"}
  <2>1. Raised(alarm) = alarm
    BY <1>6 DEF Raised
  <2>. QED BY <1>1, <1>2, <1>6, <2>1 DEF Successor
<1>. QED BY <1>3, <1>4, <1>5, <1>6

LEMMA ClearedCases ==
  ASSUME AlarmInvariant
  PROVE  /\ Successor(alarm, Cleared(alarm))
         /\ \/ Cleared(alarm) = alarm /\ alarm.state \notin ActiveStates \cup {"PENDING_ACTIVE"}
            \/ alarm.state = "PENDING_ACTIVE" /\ Cleared(alarm).state = "NORMAL"
            \/ /\ alarm.state \in ActiveStates /\ Cleared(alarm).state = "PENDING_RETURN"
               /\ Cleared(alarm).deadline = alarmClock + definition.delayOff
            \/ /\ Cleared(alarm).state = Resting(alarm)
               /\ \/ alarm.state \in ActiveStates /\ definition.delayOff = 0
                  \/ alarm.state = "PENDING_RETURN" /\ Due(alarm)
<1>. DEFINE pending == Move(alarm, "PENDING_RETURN", definition.delayOff)
<1>1. alarm \in Alarms /\ alarmClock \in Nat /\ definition.delayOff \in Int
  BY AlarmAssumption DEF AlarmInvariant, AlarmTypeOK, Alarms, AlarmDefinition
<1>2. /\ "PENDING_RETURN" \in AlarmStates /\ "NORMAL" \in AlarmStates
      /\ Resting(alarm) \in AlarmStates /\ Resting(alarm) # "PENDING_RETURN"
      /\ alarm.version \in Nat
  BY <1>1 DEF AlarmStates, Resting, Alarms
<1>3. CASE alarm.state \in ActiveStates
  <2>1. Moved(alarm, pending, "PENDING_RETURN", definition.delayOff)
    BY <1>1, <1>2, <1>3, MoveMoves DEF ActiveStates
  <2>2. Cleared(alarm) = IF definition.delayOff = 0 THEN Move(pending, Resting(alarm), 0) ELSE pending
    BY <1>3 DEF Cleared, Returning, ActiveStates
  <2>. HIDE DEF pending
  <2>3. CASE definition.delayOff = 0
    <3>1. pending \in Alarms /\ pending.state = "PENDING_RETURN"
      BY <2>1 DEF Moved
    <3>2. Cleared(alarm) = Move(pending, Resting(alarm), 0)
      BY <2>2, <2>3
    <3>3. Moved(pending, Cleared(alarm), Resting(alarm), 0)
      BY <1>1, <1>2, <3>1, <3>2, MoveMoves
    <3>4. Successor(alarm, Cleared(alarm))
      BY <1>1, <2>1, <3>3, TwoMovesSucceed
    <3>. QED BY <1>3, <2>3, <3>3, <3>4 DEF Moved
  <2>4. CASE definition.delayOff # 0
    <3>1. Cleared(alarm) = pending
      BY <2>2, <2>4
    <3>2. Successor(alarm, pending)
      BY <1>1, <2>1, MovesSucceed
    <3>3. pending.state = "PENDING_RETURN" /\ pending.deadline = alarmClock + definition.delayOff
      BY <2>1, <2>4 DEF Moved, Deadline
    <3>. QED BY <1>3, <3>1, <3>2, <3>3
  <2>. QED BY <2>3, <2>4
<1>4. CASE alarm.state = "PENDING_ACTIVE"
  <2>1. Cleared(alarm) = Move(alarm, "NORMAL", 0)
    BY <1>4 DEF Cleared
  <2>2. Moved(alarm, Cleared(alarm), "NORMAL", 0)
    BY <1>1, <1>2, <1>4, <2>1, MoveMoves
  <2>3. Successor(alarm, Cleared(alarm))
    BY <1>1, <2>2, MovesSucceed
  <2>. QED BY <1>4, <2>2, <2>3 DEF Moved
<1>5. CASE alarm.state = "PENDING_RETURN" /\ Due(alarm)
  <2>1. Cleared(alarm) = Move(alarm, Resting(alarm), 0)
    BY <1>5 DEF Cleared, ActiveStates
  <2>2. Moved(alarm, Cleared(alarm), Resting(alarm), 0)
    BY <1>1, <1>2, <1>5, <2>1, MoveMoves
  <2>3. Successor(alarm, Cleared(alarm))
    BY <1>1, <2>2, MovesSucceed
  <2>. QED BY <1>5, <2>2, <2>3 DEF Moved
<1>6. CASE /\ alarm.state \notin ActiveStates \cup {"PENDING_ACTIVE"}
           /\ ~(alarm.state = "PENDING_RETURN" /\ Due(alarm))
  <2>1. Cleared(alarm) = alarm
    BY <1>6 DEF Cleared
  <2>. QED BY <1>1, <1>2, <1>6, <2>1 DEF Successor
<1>. QED BY <1>3, <1>4, <1>5, <1>6

-----------------------------------------------------------------------------
\* An evaluation keeps the invariant and the delays.
DelaysKeptByStep ==
  /\ Activates(alarm, alarm') => held'.condition /\ alarmClock - held'.since >= definition.delayOn
  /\ (alarm.state \in ActiveStates \cup {"PENDING_RETURN"}
        /\ alarm'.state \in {"NORMAL", "RETURNED_UNACKNOWLEDGED"})
     => ~held'.condition /\ alarmClock - held'.since >= definition.delayOff

\* An evaluation takes no obligation off the list that it has not discharged.
LEMMA EvaluateOwes ==
  ASSUME AlarmInvariant, NEW r \in Readings, Evaluate(r)
  PROVE  ObligationShown' /\ Owing'
<1>1. \/ alarm' = alarm
      \/ alarm.state = "NORMAL" /\ alarm'.state \in {"PENDING_ACTIVE", "ACTIVE_UNACKNOWLEDGED"}
      \/ alarm.state = "PENDING_ACTIVE" /\ alarm'.state \in {"ACTIVE_UNACKNOWLEDGED", "NORMAL"}
      \/ alarm.state = "PENDING_RETURN" /\ alarm'.state = Relapsed(alarm)
      \/ alarm.state \in ActiveStates /\ alarm'.state = "PENDING_RETURN"
      \/ alarm.state \in ActiveStates \cup {"PENDING_RETURN"} /\ alarm'.state = Resting(alarm)
  BY RaisedCases, ClearedCases DEF Evaluate
<1>2. /\ definition' = definition
      /\ owed' = (owed \/ (definition.acknowledgementRequired /\ Activates(alarm, alarm')))
  BY DEF Evaluate
<1>3. alarm'.acknowledged = alarm.acknowledged
  BY RaisedCases, ClearedCases DEF Evaluate, Successor
<1>4. owed => owed'
  BY <1>2
<1>5. ObligationShown /\ Owing
  BY DEF AlarmInvariant
<1>6. CASE alarm' = alarm
  <2>1. ~Activates(alarm, alarm')
    BY <1>6 DEF Activates
  <2>. QED BY <1>2, <1>5, <1>6, <2>1 DEF ObligationShown, Owing
<1>7. CASE alarm.state \in {"NORMAL", "PENDING_ACTIVE"} /\
           alarm'.state \in {"PENDING_ACTIVE", "ACTIVE_UNACKNOWLEDGED", "NORMAL"}
  <2>1. Activates(alarm, alarm') <=> alarm'.state = "ACTIVE_UNACKNOWLEDGED"
    BY <1>7 DEF Activates
  <2>2. owed => alarm.acknowledged
    BY <1>5, <1>7 DEF ObligationShown
  <2>3. owed => definition.acknowledgementRequired
    BY <1>5 DEF Owing
  <2>. QED BY <1>2, <1>3, <1>7, <2>1, <2>2, <2>3 DEF ObligationShown, Owing
<1>8. CASE alarm.state = "PENDING_RETURN" /\ alarm'.state = Relapsed(alarm)
  <2>1. alarm.acknowledged => alarm'.state = "ACTIVE_ACKNOWLEDGED"
    BY <1>8 DEF Relapsed
  <2>2. ~alarm.acknowledged => alarm'.state = "ACTIVE_UNACKNOWLEDGED"
    BY <1>8 DEF Relapsed
  <2>3. ~Activates(alarm, alarm')
    BY <1>8 DEF Activates
  <2>4. owed' => owed
    BY <1>2, <2>3
  <2>5. CASE alarm.acknowledged
    BY <1>2, <1>3, <1>5, <2>1, <2>4, <2>5 DEF ObligationShown, Owing
  <2>6. CASE ~alarm.acknowledged
    <3>1. definition.acknowledgementRequired => owed'
      BY <1>4, <1>5, <1>8, <2>6 DEF Owing
    <3>. QED BY <1>2, <1>5, <2>2, <2>4, <2>6, <3>1 DEF ObligationShown, Owing
  <2>. QED BY <2>5, <2>6
<1>9. CASE alarm.state \in ActiveStates /\ alarm'.state = "PENDING_RETURN"
  BY <1>2, <1>3, <1>4, <1>5, <1>9 DEF ObligationShown, Owing, ActiveStates
<1>10. CASE alarm.state \in ActiveStates \cup {"PENDING_RETURN"} /\ alarm'.state = Resting(alarm)
  <2>1. alarm.acknowledged \/ ~definition.acknowledgementRequired => alarm'.state = "NORMAL"
    BY <1>10 DEF Resting
  <2>2. ~(alarm.acknowledged \/ ~definition.acknowledgementRequired) =>
          alarm'.state = "RETURNED_UNACKNOWLEDGED"
    BY <1>10 DEF Resting
  <2>3. definition.acknowledgementRequired => owed \/ alarm.acknowledged
    BY <1>5, <1>10 DEF ObligationShown, Owing, ActiveStates
  <2>4. ~Activates(alarm, alarm')
    BY <1>10 DEF Activates, ActiveStates
  <2>5. owed => owed'
    BY <1>4
  <2>6. CASE alarm.acknowledged \/ ~definition.acknowledgementRequired
    <3>1. ~definition.acknowledgementRequired => (owed' => owed)
      BY <1>2
    <3>2. alarm'.state = "NORMAL"
      BY <2>1, <2>6
    <3>3. owed /\ ~alarm.acknowledged => definition.acknowledgementRequired
      BY <1>5 DEF Owing
    <3>. QED BY <1>2, <1>5, <1>3, <2>4, <2>6, <3>1, <3>2, <3>3 DEF ObligationShown, Owing
  <2>7. CASE ~(alarm.acknowledged \/ ~definition.acknowledgementRequired)
    <3>1. alarm'.state = "RETURNED_UNACKNOWLEDGED" /\ owed'
      BY <2>2, <2>3, <2>5, <2>7
    <3>. QED BY <1>2, <2>7, <3>1 DEF ObligationShown, Owing
  <2>. QED BY <2>6, <2>7
<1>. QED BY <1>1, <1>6, <1>7, <1>8, <1>9, <1>10

LEMMA EvaluateKeeps ==
  ASSUME AlarmInvariant, NEW r \in Readings, Evaluate(r)
  PROVE  AlarmInvariant' /\ DelaysKeptByStep
<1>. DEFINE found == Condition(r)
<1>1. found \in BOOLEAN
  BY DEF Condition
<1>2. alarm' = IF found THEN Raised(alarm) ELSE Cleared(alarm)
  BY DEF Evaluate
<1>3. held' = IF found = held.condition THEN held ELSE [condition |-> found, since |-> alarmClock]
  BY DEF Evaluate
<1>. HIDE DEF found
<1>4. /\ definition \in AlarmDefinition /\ alarm \in Alarms /\ alarmClock \in Nat /\ owed \in BOOLEAN
      /\ held \in [condition : BOOLEAN, since : Nat] /\ held.since <= alarmClock
  BY AlarmAssumption DEF AlarmInvariant, AlarmTypeOK, Alarms, Pending
<1>5. UNCHANGED <<definition, alarmClock, seen>>
  BY DEF Evaluate
<1>6. /\ held' \in [condition : BOOLEAN, since : Nat]
      /\ held'.condition = found /\ held'.since <= alarmClock
      /\ found = held.condition => held' = held
  BY <1>1, <1>3, <1>4
<1>7. /\ alarm' \in Alarms /\ alarm'.acknowledged = alarm.acknowledged
      /\ alarm'.version >= alarm.version
      /\ alarm'.version = alarm.version => alarm' = alarm
  BY <1>2, RaisedCases, ClearedCases DEF Successor
<1>8. Versions'
  <2>1. seen.version \in Nat /\ alarm.version \in Nat /\ alarm'.version \in Nat
    BY <1>4, <1>7 DEF AlarmInvariant, AlarmTypeOK, Alarms
  <2>2. seen.version <= alarm'.version
    BY <1>7, <2>1 DEF AlarmInvariant, Versions
  <2>3. seen.version = alarm'.version => seen.state = alarm'.state
    BY <1>7, <2>1 DEF AlarmInvariant, Versions, VersionNamesState
  <2>. QED BY <1>5, <2>2, <2>3 DEF Versions, VersionNamesState
<1>9. owed' = (owed \/ (definition.acknowledgementRequired /\ Activates(alarm, alarm')))
  BY DEF Evaluate
<1>10. AlarmTypeOK'
  BY <1>4, <1>5, <1>6, <1>7, <1>9 DEF AlarmInvariant, AlarmTypeOK, Alarms, AlarmDefinition
<1>11. CASE found
  <2>1. alarm' = Raised(alarm)
    BY <1>2, <1>11
  <2>3. Pending'
    <3>1. alarm'.state # "PENDING_RETURN"
      BY <2>1, RaisedCases DEF Relapsed
    <3>2. ASSUME alarm'.state = "PENDING_ACTIVE" PROVE WaitsFor(TRUE, definition.delayOn)'
      <4>1. CASE alarm.state = "NORMAL"
        BY <1>4, <1>5, <1>6, <1>11, <2>1, <3>2, <4>1, RaisedCases, AlarmAssumption DEF WaitsFor, AlarmDefinition
      <4>2. CASE alarm.state # "NORMAL"
        <5>1. alarm' = alarm
          BY <2>1, <3>2, <4>2, RaisedCases DEF Relapsed
        <5>. QED BY <1>5, <1>6, <1>11, <3>2, <5>1 DEF AlarmInvariant, Pending, WaitsFor
      <4>. QED BY <4>1, <4>2
    <3>. QED BY <1>5, <1>6, <3>1, <3>2 DEF Pending
  <2>4. DelaysKeptByStep
    <3>1. alarm'.state \notin {"NORMAL", "RETURNED_UNACKNOWLEDGED"}
            \/ alarm.state \notin ActiveStates \cup {"PENDING_RETURN"}
      BY <2>1, RaisedCases DEF ActiveStates, Relapsed
    <3>2. ASSUME Activates(alarm, alarm')
          PROVE held'.condition /\ alarmClock - held'.since >= definition.delayOn
      <4>1. CASE alarm.state = "NORMAL"
        BY <1>4, <1>6, <1>11, <2>1, <3>2, <4>1, RaisedCases DEF Activates, AlarmDefinition
      <4>2. CASE alarm.state = "PENDING_ACTIVE"
        <5>1. Due(alarm)
          BY <2>1, <3>2, <4>2, RaisedCases DEF Activates
        <5>2. held' = held /\ WaitsFor(TRUE, definition.delayOn)
          BY <1>6, <1>11, <4>2 DEF AlarmInvariant, Pending, WaitsFor
        <5>. QED BY <1>4, <1>6, <1>11, <5>1, <5>2 DEF Due, WaitsFor, Alarms, AlarmDefinition
      <4>. QED BY <3>2, <4>1, <4>2 DEF Activates
    <3>. QED BY <3>1, <3>2 DEF DelaysKeptByStep
  <2>. QED BY <1>8, <1>10, <2>3, <2>4, EvaluateOwes DEF AlarmInvariant
<1>12. CASE ~found
  <2>1. alarm' = Cleared(alarm)
    BY <1>2, <1>12
  <2>3. Pending'
    <3>1. alarm'.state # "PENDING_ACTIVE"
      BY <2>1, ClearedCases DEF Resting
    <3>2. ASSUME alarm'.state = "PENDING_RETURN" PROVE WaitsFor(FALSE, definition.delayOff)'
      <4>1. CASE alarm.state \in ActiveStates
        BY <1>1, <1>4, <1>5, <1>6, <1>12, <2>1, <3>2, <4>1, ClearedCases, AlarmAssumption
           DEF WaitsFor, AlarmDefinition, Resting, ActiveStates
      <4>2. CASE alarm.state \notin ActiveStates
        <5>1. alarm' = alarm
          BY <2>1, <3>2, <4>2, ClearedCases DEF Resting
        <5>. QED BY <1>1, <1>4, <1>5, <1>6, <1>12, <3>2, <5>1 DEF AlarmInvariant, Pending, WaitsFor
      <4>. QED BY <4>1, <4>2
    <3>. QED BY <1>5, <1>6, <3>1, <3>2 DEF Pending
  <2>4. DelaysKeptByStep
    <3>1. ~Activates(alarm, alarm')
      BY <2>1, ClearedCases DEF Activates, Resting, ActiveStates
    <3>2. ASSUME alarm.state \in ActiveStates \cup {"PENDING_RETURN"},
                 alarm'.state \in {"NORMAL", "RETURNED_UNACKNOWLEDGED"}
          PROVE ~held'.condition /\ alarmClock - held'.since >= definition.delayOff
      <4>1. CASE alarm.state \in ActiveStates
        BY <1>1, <1>4, <1>6, <1>12, <2>1, <3>2, <4>1, ClearedCases DEF ActiveStates, AlarmDefinition
      <4>2. CASE alarm.state = "PENDING_RETURN"
        <5>1. Due(alarm)
          BY <2>1, <3>2, <4>2, ClearedCases DEF ActiveStates
        <5>2. held' = held /\ WaitsFor(FALSE, definition.delayOff)
          BY <1>1, <1>4, <1>6, <1>12, <4>2 DEF AlarmInvariant, Pending, WaitsFor
        <5>. QED BY <1>1, <1>4, <1>6, <1>12, <5>1, <5>2 DEF Due, WaitsFor, Alarms, AlarmDefinition
      <4>. QED BY <3>2, <4>1, <4>2
    <3>. QED BY <3>1, <3>2 DEF DelaysKeptByStep
  <2>. QED BY <1>8, <1>10, <2>3, <2>4, EvaluateOwes DEF AlarmInvariant
<1>. QED BY <1>1, <1>11, <1>12

-----------------------------------------------------------------------------
\* Acknowledgements raise no alarm, and end none that is active or pending.
LEMMA AcknowledgeKeeps ==
  ASSUME AlarmInvariant, NEW version, Acknowledge(version)
  PROVE  AlarmInvariant' /\ DelaysKeptByStep
<1>1. /\ definition \in AlarmDefinition /\ alarm \in Alarms /\ alarmClock \in Nat /\ owed \in BOOLEAN
      /\ seen \in [state : AlarmStates, version : Nat]
  BY AlarmAssumption DEF AlarmInvariant, AlarmTypeOK, Alarms
<1>2. UNCHANGED <<definition, alarmClock, seen, held>> /\ owed' = (owed /\ alarm' = alarm)
  BY DEF Acknowledge
<1>6. ASSUME alarm' \in Alarms, alarm'.version = alarm.version + 1,
             alarm'.state \in {"NORMAL", "ACTIVE_ACKNOWLEDGED"},
             alarm'.state = "ACTIVE_ACKNOWLEDGED" => alarm'.acknowledged,
             alarm.state \in {"ACTIVE_UNACKNOWLEDGED", "RETURNED_UNACKNOWLEDGED"},
             alarm'.state = "NORMAL" => alarm.state = "RETURNED_UNACKNOWLEDGED"
      PROVE  AlarmInvariant' /\ DelaysKeptByStep
  <2>1. alarm' # alarm
    BY <1>1, <1>6 DEF Alarms
  <2>2. AlarmTypeOK'
    BY <1>1, <1>2, <1>6, <2>1 DEF AlarmInvariant, AlarmTypeOK, Alarms
  <2>3. Versions'
    BY <1>1, <1>2, <1>6 DEF AlarmInvariant, Versions, VersionNamesState, Alarms
  <2>4. ~owed'
    BY <1>2, <2>1
  <2>5. ObligationShown' /\ Owing'
    BY <1>6, <2>4 DEF ObligationShown, Owing
  <2>6. Pending'
    BY <1>2, <1>6 DEF AlarmInvariant, Pending
  <2>7. DelaysKeptByStep
    BY <1>6 DEF DelaysKeptByStep, Activates, ActiveStates
  <2>. QED BY <2>2, <2>3, <2>5, <2>6, <2>7 DEF AlarmInvariant
<1>7. {"NORMAL", "ACTIVE_ACKNOWLEDGED"} \subseteq AlarmStates
  BY DEF AlarmStates
<1>3. CASE alarm.state = "ACTIVE_UNACKNOWLEDGED"
  <2>. DEFINE told == [alarm EXCEPT !.acknowledged = TRUE]
  <2>1. told \in Alarms /\ told.state = alarm.state /\ told.version = alarm.version /\ told.acknowledged
    BY <1>1 DEF Alarms
  <2>2. alarm' = Move(told, "ACTIVE_ACKNOWLEDGED", 0)
    BY <1>3 DEF Acknowledge, Acknowledged
  <2>. HIDE DEF told
  <2>3. Moved(told, alarm', "ACTIVE_ACKNOWLEDGED", 0)
    BY <1>1, <1>3, <1>7, <2>1, <2>2, MoveMoves
  <2>4. /\ alarm' \in Alarms /\ alarm'.version = alarm.version + 1
        /\ alarm'.state = "ACTIVE_ACKNOWLEDGED" /\ alarm'.acknowledged
    BY <2>1, <2>3 DEF Moved
  <2>. QED BY <1>3, <1>6, <2>4
<1>4. CASE alarm.state = "RETURNED_UNACKNOWLEDGED"
  <2>1. alarm' = Move(alarm, "NORMAL", 0)
    BY <1>4 DEF Acknowledge
  <2>2. Moved(alarm, alarm', "NORMAL", 0)
    BY <1>1, <1>4, <1>7, <2>1, MoveMoves
  <2>. QED BY <1>4, <1>6, <2>2 DEF Moved
<1>5. CASE alarm.state \notin {"ACTIVE_UNACKNOWLEDGED", "RETURNED_UNACKNOWLEDGED"}
  <2>1. alarm' = alarm
    BY <1>5 DEF Acknowledge
  <2>2. DelaysKeptByStep
    BY <2>1 DEF DelaysKeptByStep, Activates, ActiveStates
  <2>3. AlarmInvariant'
    BY <1>1, <1>2, <2>1
       DEF AlarmInvariant, AlarmTypeOK, Versions, VersionNamesState, ObligationShown, Owing, Pending, WaitsFor
  <2>. QED BY <2>2, <2>3
<1>. QED BY <1>3, <1>4, <1>5

LEMMA LookKeeps == ASSUME AlarmInvariant, Look PROVE AlarmInvariant' /\ DelaysKeptByStep
<1>1. seen' \in [state : AlarmStates, version : Nat] /\ seen'.version = alarm.version /\ seen'.state = alarm.state
  BY DEF AlarmInvariant, AlarmTypeOK, Look
<1>2. UNCHANGED <<definition, alarm, alarmClock, held, owed>>
  BY DEF Look
<1>3. alarm.version \in Nat
  BY DEF AlarmInvariant, AlarmTypeOK
<1>. QED BY <1>1, <1>2, <1>3
  DEF AlarmInvariant, AlarmTypeOK, Versions, VersionNamesState, ObligationShown, Owing, Pending, WaitsFor,
      DelaysKeptByStep, Activates, ActiveStates

LEMMA TickKeeps == ASSUME AlarmInvariant, AlarmTick PROVE AlarmInvariant' /\ DelaysKeptByStep
<1>1. alarmClock' = alarmClock + 1 /\ UNCHANGED <<definition, alarm, seen, held, owed>>
  BY DEF AlarmTick
<1>2. alarmClock \in Nat /\ held.since \in Nat
  BY DEF AlarmInvariant, AlarmTypeOK
<1>. QED BY <1>1, <1>2
  DEF AlarmInvariant, AlarmTypeOK, Versions, VersionNamesState, ObligationShown, Owing, Pending, WaitsFor,
      DelaysKeptByStep, Activates, ActiveStates

-----------------------------------------------------------------------------
LEMMA StepKeeps ==
  ASSUME AlarmInvariant, [AlarmNext]_alarmVars
  PROVE  AlarmInvariant' /\ (DelaysKeptByStep \/ UNCHANGED alarmVars)
<1>1. CASE UNCHANGED alarmVars
  BY <1>1 DEF AlarmInvariant, AlarmTypeOK, Versions, VersionNamesState, ObligationShown, Owing, Pending,
              WaitsFor, alarmVars
<1>2. CASE AlarmNext
  BY <1>2, EvaluateKeeps, AcknowledgeKeeps, LookKeeps, TickKeeps DEF AlarmNext
<1>. QED BY <1>1, <1>2

\* Every alarm keeps the invariant.
THEOREM AlarmInvariantHolds == AlarmSpec => []AlarmInvariant
<1>1. AlarmInit => AlarmInvariant BY InitHolds
<1>2. AlarmInvariant /\ [AlarmNext]_alarmVars => AlarmInvariant' BY StepKeeps
<1>. QED BY <1>1, <1>2, PTL DEF AlarmSpec

\* An acknowledgement with the version an operator was shown acknowledges the
\* state the operator was shown.
THEOREM VersionsNameStates == AlarmSpec => []VersionNamesState
<1>1. AlarmInvariant => VersionNamesState BY DEF AlarmInvariant, Versions
<1>. QED BY <1>1, AlarmInvariantHolds, PTL

\* Until an alarm is acknowledged for the first time, its activation stays on
\* show through every return and relapse.
THEOREM ObligationsShown == AlarmSpec => []ObligationShown
<1>1. AlarmInvariant => ObligationShown BY DEF AlarmInvariant
<1>. QED BY <1>1, AlarmInvariantHolds, PTL

\* No alarm is raised and none returns before its condition has been found so
\* for the whole delay.
THEOREM DelaysAreKept == AlarmSpec => DelaysKept
<1>1. AlarmInvariant /\ [AlarmNext]_alarmVars => [DelaysKeptByStep]_alarmVars
  BY StepKeeps
<1>2. [DelaysKeptByStep]_alarmVars =>
        [/\ Activates(alarm, alarm') => held'.condition /\ alarmClock - held'.since >= definition.delayOn
         /\ (alarm.state \in ActiveStates \cup {"PENDING_RETURN"}
               /\ alarm'.state \in {"NORMAL", "RETURNED_UNACKNOWLEDGED"})
            => ~held'.condition /\ alarmClock - held'.since >= definition.delayOff]_alarmVars
  BY DEF DelaysKeptByStep
<1>. QED BY <1>1, <1>2, AlarmInvariantHolds, PTL DEF AlarmSpec, DelaysKept
===============================================================================
