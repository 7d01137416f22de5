-------------------------- MODULE RsmObserverProofs --------------------------
(***************************************************************************)
(* Proofs about what can only be said of the runtime over several scans,   *)
(* with RsmObserver's history variables: no timer is early, and counters   *)
(* and one-shots answer only to rises; and about what a snapshot shows of  *)
(* it, from one step to the next.                                          *)
(***************************************************************************)
EXTENDS RsmObserver, RsmReads, RsmRuntimeProofs

-----------------------------------------------------------------------------
(* The observer adds variables and no behaviour: what holds of the runtime *)
(* holds of the observed one.                                              *)

LEMMA ObservedIsRuntime == ObservedSpec => Spec
<1>1. ObservedInit => Init
  BY DEF ObservedInit
<1>2. [ObservedNext]_hvars => [Next]_vars
  BY DEF ObservedNext, hvars
<1>. QED  BY <1>1, <1>2, PTL DEF ObservedSpec, Spec

-----------------------------------------------------------------------------
(* What a step does to the tags and slots of a program that stays loaded.  *)

Passes(prescan) ==
  /\ phase = "idle" /\ phase' = "idle" /\ LifecycleOutputs(prescan)
  /\ UNCHANGED <<force, codeEnd>>

\* A prescan or a postscan is one, whatever call it is part of.
LEMMA LifecyclePasses ==
  ASSUME Inductive, Next, image # Null, image' = image
  PROVE  /\ Prescanned => Passes(TRUE)
         /\ Postscanned => Passes(FALSE)
<1>1. Prescan => Passes(TRUE)
  BY DEF Prescan, Passes
<1>2. Postscan => Passes(FALSE)
  BY DEF Postscan, Passes
<1>3. \A m : SetMode(m) => m = mode'
  BY DEF SetMode
<1>4. ASSUME Host, mode' # mode
      PROVE  SetMode(mode')
  <2>1. image \in Images /\ Null \notin Images
    BY LoadedTags, RuntimeAssumptions DEF RuntimeAssumption
  <2>2. ~(\E i \in Images : LoadImage(i)) /\ ~UnloadProgram /\ ~Deinit
    BY <1>4, <2>1 DEF LoadImage, UnloadProgram, Deinit, Forget
  <2>3. ~Prescan /\ ~Postscan
    BY <1>4 DEF Prescan, Postscan
  <2>4. /\ \A id \in HostTags : /\ \A v \in HostChoices(id) : ~WriteTag(id, v) /\ ~ForceTag(id, v)
                                /\ ~ClearForce(id)
        /\ ~ClearAllForces /\ ~ClearWriteTrace
    BY <1>4 DEF WriteTag, ForceTag, ClearForce, ClearAllForces, ClearWriteTrace, hostUnchanged
  <2>5. \A gap \in ScanGaps : ~BeginScan(gap)
    BY <1>4 DEF BeginScan
  <2>. QED  BY <1>3, <1>4, <2>2, <2>3, <2>4, <2>5 DEF Host
<1>5. ScanStep => mode' = mode \/ mode' = "FAULTED"
  BY ScanStepShape DEF Fails
<1>6. ASSUME mode = "PROGRAM", mode' \in Active
      PROVE  Passes(TRUE)
  <2>1. SetMode(mode')
    BY <1>4, <1>5, <1>6 DEF Next, Active
  <2>. QED  BY <1>6, <2>1 DEF SetMode, Passes, Active
<1>7. ASSUME mode \in Active, mode' = "PROGRAM"
      PROVE  Passes(FALSE)
  <2>1. SetMode(mode')
    BY <1>4, <1>5, <1>7 DEF Next, Active
  <2>. QED  BY <1>7, <2>1 DEF SetMode, Passes, Active
<1>. QED  BY <1>1, <1>2, <1>6, <1>7 DEF Prescanned, Postscanned

\* A load of the image that is loaded, or the write of a scalar by the host or
\* by the capture of an input.
Reloads == mode' = "PROGRAM" /\ mode = "PROGRAM" /\ phase = "idle" /\ Install(P)

WritesScalar(id, v) ==
  /\ id \in TagIds(P) /\ TypeOf(P, id) \in ScalarTypes
  /\ id \in HostTags \/ IsInput(P, id)
  /\ tag' = [tag EXCEPT ![id] = v] /\ mode' = mode /\ slot' = slot

\* Nothing happens to tags and slots, and no scan becomes possible by it.
Rests == UNCHANGED <<tag, slot>> /\ (mode' \in Active => mode \in Active)

LEMMA StepKinds ==
  ASSUME Inductive, Next, image # Null, image' = image
  PROVE  \/ Prescanned \/ Postscanned
         \/ Reloads
         \/ \E id, v : WritesScalar(id, v)
         \/ Execute
         \/ Rests
<1>1. image \in Images /\ Null \notin Images
  BY LoadedTags, RuntimeAssumptions DEF RuntimeAssumption
<1>2. ASSUME NEW i \in Images, LoadImage(i)  PROVE Reloads
  BY <1>2 DEF LoadImage, Reloads, P
<1>3. ~UnloadProgram /\ ~Deinit
  BY <1>1 DEF UnloadProgram, Deinit, Forget
<1>4. ASSUME NEW m \in Modes, SetMode(m)  PROVE Prescanned \/ Postscanned \/ Rests
  <2>1. /\ mode' = m /\ mode \in Modes /\ (mode = "FAULTED" => m = "PROGRAM")
        /\ \/ m \in Active /\ mode = "PROGRAM"
           \/ m = "PROGRAM" /\ mode \in Active
           \/ /\ UNCHANGED <<tag, slot>>
              /\ ~(m \in Active /\ mode = "PROGRAM")
    BY <1>4 DEF SetMode, ModeAccepted, Inductive, TypeOK
  <2>. QED  BY <2>1 DEF Prescanned, Postscanned, Rests, Modes, Active
<1>5. Prescan \/ Postscan => Prescanned \/ Postscanned
  BY DEF Prescanned, Postscanned
<1>6. ASSUME NEW id \in HostTags, NEW v \in HostChoices(id), WriteTag(id, v)
      PROVE  WritesScalar(id, v)
  <2>1. id \in TagIds(P) /\ TypeOf(P, id) \in ScalarTypes
    BY <1>1 DEF HostChoices
  <2>. QED  BY <1>6, <2>1 DEF WriteTag, Put, hostUnchanged, WritesScalar
<1>7. ASSUME NEW id \in pending, NEW v \in Readings(id), CaptureInput(id, v)
      PROVE  WritesScalar(id, v)
  <2>1. id \in TagIds(P) /\ IsInput(P, id)
    BY <1>7 DEF CaptureInput, Inductive, ScanPlace, InputIds
  <2>2. P.tags[id].storage # "internal" => P.tags[id].type \in ScalarTypes
    BY <1>1, <2>1, Assumptions DEF ImageAssumption, P
  <2>3. TypeOf(P, id) \in ScalarTypes
    BY <2>1, <2>2 DEF IsInput, TypeOf
  <2>. QED  BY <1>7, <2>1, <2>3 DEF CaptureInput, WritesScalar
<1>8. CASE \/ \E id \in HostTags : (\E v \in HostChoices(id) : ForceTag(id, v)) \/ ClearForce(id)
           \/ ClearAllForces \/ ClearWriteTrace
           \/ \E gap \in ScanGaps : BeginScan(gap)
           \/ \E id \in pending : InputFault(id) \/ WriteOutput(id) \/ OutputFault(id)
           \/ InputsDone \/ StartRung \/ EndRung \/ RungsDone
           \/ \E d \in ScanDurations : FinishScan(d)
  <2>1. UNCHANGED <<tag, slot>> /\ (mode' = mode \/ mode' = "FAULTED")
    BY <1>8 DEF ForceTag, ClearForce, ClearAllForces, ClearWriteTrace, BeginScan, InputFault,
                WriteOutput, OutputFault, InputsDone, StartRung, EndRung, RungsDone,
                FinishScan, hostUnchanged, Fail, FailWith
  <2>. QED  BY <2>1 DEF Rests, Active
<1>. QED
  BY <1>2, <1>3, <1>4, <1>5, <1>6, <1>7, <1>8 DEF Next, Host, ScanStep

-----------------------------------------------------------------------------
(* What an instruction does to them.                                       *)

\* An instruction stores a scalar where it says that it does.
StoresScalar(w, v) ==
  /\ w \in Stores(I) /\ w \in TagIds(P) /\ TypeOf(P, w) \in ScalarTypes
  /\ tag' = [tag EXCEPT ![w] = v] /\ slot' = slot /\ mode' = mode

LEMMA ExecuteKinds ==
  ASSUME Inductive, Execute
  PROVE  \/ \E w, v : StoresScalar(w, v)
         \/ Rests
         \/ OnDelay /\ tag[I.a.id].pre >= 0 /\ Continue(power)
         \/ Count
         \/ Reset /\ power
<1>1. /\ image # Null /\ image' = image /\ image \in Images /\ DOMAIN tag = TagIds(P)
      /\ ValidOperands(P, I) /\ I.op = Op
  BY InstructionAt
<1>2. CASE BranchBegin \/ LaneBegin \/ LaneEnd \/ BranchEnd \/ Contact \/ Compare
           \/ (Reset /\ ~power)
  BY <1>2 DEF BranchBegin, LaneBegin, LaneEnd, BranchEnd, Contact, Compare, Reset, Continue,
              stepUnchanged, Rests
<1>3. CASE BranchFault \/ \E m : Abort(m)
  BY <1>3 DEF BranchFault, Abort, Fail, FailWith, Rests, Active
<1>4. CASE Coil \/ OneShot
  <2>1. Op \in CoilOps \cup {"ONS"} /\ Writable(P, I.a, {"BOOL"})
    BY <1>1, <1>4 DEF Coil, OneShot, Executing, ValidOperands
  <2>2. I.a.id \in Stores(I) /\ I.a.id \in TagIds(P) /\ TypeOf(P, I.a.id) \in ScalarTypes
    BY <1>1, <2>1 DEF Stores, CoilOps, Writable, WholeTag, ScalarTypes
  <2>3. /\ slot' = slot /\ mode' = mode
        /\ tag' = tag \/ \E v : tag' = [tag EXCEPT ![I.a.id] = v]
    <3>1. CASE Coil
      BY <3>1 DEF Coil, Put, Continue, stepUnchanged
    <3>2. CASE OneShot
      BY <3>2 DEF OneShot, Put, Continue, stepUnchanged
    <3>. QED  BY <1>4, <3>1, <3>2
  <2>. QED  BY <2>2, <2>3 DEF StoresScalar, Rests
<1>5. CASE OnDelay
  BY <1>3, <1>5 DEF OnDelay
<1>6. CASE Data
  <2>1. CASE ~power
    BY <1>6, <2>1 DEF Data, Continue, stepUnchanged, Rests
  <2>2. CASE /\ DataFault = "NONE" /\ tag' = [tag EXCEPT ![Destination.id] = Result]
             /\ slot' = slot /\ mode' = mode
    <3>1. Op \in DataOps /\ TypeOK
      BY <1>6 DEF Data, Executing, Inductive
    <3>2. Writable(P, Destination, ScalarTypes)
      BY <1>1, <2>2, <3>1, ResultTyped
    <3>3. Destination.id \in Stores(I)
      BY <1>1, <3>1 DEF Stores, Destination, DataOps, ArithOps, UnaryOps, CoilOps
    <3>. QED  BY <2>2, <3>2, <3>3 DEF StoresScalar, Writable, WholeTag
  <2>. QED  BY <1>3, <1>6, <2>1, <2>2 DEF Data, Put, Continue, stepUnchanged
<1>. QED  BY <1>2, <1>3, <1>4, <1>5, <1>6 DEF Execute

-----------------------------------------------------------------------------
(* Slots and tags of an instruction.                                       *)

\* No two instructions share a slot.
LEMMA OneSlotEach ==
  ASSUME Inductive, image # Null, NEW j \in Stateful(P), NEW k \in Stateful(P),
         Code[j].slot = Code[k].slot
  PROVE  j = k
<1>1. ValidSlots(P)
  BY DEF Inductive, TypeOK, Bootable, ValidImage, P
<1>2. /\ P.code[j].slot \in Nat /\ P.code[k].slot \in Nat
      /\ j < k => P.code[j].slot < P.code[k].slot
      /\ k < j => P.code[k].slot < P.code[j].slot
  BY <1>1 DEF ValidSlots
<1>3. j \in Int /\ k \in Int
  BY DEF Stateful
<1>. QED  BY <1>2, <1>3 DEF Code

\* The operand of a stateful instruction has the type its opcode says.
LEMMA StatefulFacts ==
  ASSUME Inductive, image # Null, NEW k \in Stateful(P)
  PROVE  /\ Code[k].slot \in DOMAIN slot /\ slot[Code[k].slot] \in SlotState
         /\ slot[Code[k].slot].time <= clock
         /\ Code[k].a.id \in TagIds(P) /\ Code[k].a.id \in DOMAIN tag
         /\ Code[k].op = "TON" => TypeOf(P, Code[k].a.id) = "TIMER"
         /\ Code[k].op \in CountOps => TypeOf(P, Code[k].a.id) = "COUNTER"
<1>1. /\ k \in 1..Len(Code) /\ Code[k].op \in StatefulOps
      /\ Code[k].slot \in SlotIds(P)
  BY DEF Stateful, SlotIds, Code
<1>2. ValidOperands(P, Code[k])
  BY <1>1 DEF Inductive, TypeOK, Bootable, ValidImage, ValidCode, P, Code
<1>3. /\ DOMAIN slot = SlotIds(P) /\ DOMAIN tag = TagIds(P)
      /\ slot[Code[k].slot] \in SlotState /\ slot[Code[k].slot].time <= clock
  BY <1>1 DEF Inductive, TypeOK, TablesOK
<1>4. CASE Code[k].op = "TON"
  BY <1>1, <1>2, <1>3, <1>4 DEF ValidOperands, WholeTag, CountOps
<1>5. CASE Code[k].op \in CountOps
  BY <1>1, <1>2, <1>3, <1>5 DEF ValidOperands, WholeTag, CountOps
<1>. QED  BY <1>1, <1>4, <1>5 DEF StatefulOps

\* The instruction that executes.
LEMMA ExecutingAt ==
  ASSUME Inductive, Execute
  PROVE  /\ phase = "logic" /\ pc \in Nat /\ codeEnd \in Nat /\ pc < codeEnd
         /\ pc + 1 \in 1..Len(Code) /\ I = Code[pc + 1] /\ Op = Code[pc + 1].op
         /\ Op \in StatefulOps => pc + 1 \in Stateful(P)
         /\ mode \in Active /\ tick = clock
<1>1. pc < codeEnd /\ phase = "logic" /\ image # Null
  BY InstructionAt
  DEF Execute, BranchBegin, LaneBegin, LaneEnd, BranchEnd, BranchFault,
      Contact, Coil, OneShot, OnDelay, Count, Reset, Compare, Data,
      Executing, AtInstruction
<1>2. pc + 1 \in 1..Len(Code)
  BY <1>1, OperandFacts DEF Inductive
<1>. QED
  BY <1>1, <1>2 DEF I, Op, Code, Stateful, Inductive, TypeOK, ScanOK, ScanOnlyWhileActive, ScanPlace

-----------------------------------------------------------------------------
(* Timers.                                                                 *)

LEMMA WholeMilliseconds ==
  ASSUME NEW n \in Nat, NEW u \in Nat \ {0}
  PROVE  n \div u \in Nat /\ (n \div u) * u <= n
OBVIOUS

LEMMA TimesGrows ==
  ASSUME NEW a \in Int, NEW b \in Int, NEW u \in Nat, a <= b
  PROVE  a * u <= b * u
OBVIOUS

LEMMA TimesSum ==
  ASSUME NEW a \in Int, NEW b \in Int, NEW u \in Nat
  PROVE  (a + b) * u = a * u + b * u
OBVIOUS

\* What a TON's slot and timer say of each other and of the time it was enabled.
Timed(k) ==
  LET t == tag[Code[k].a.id]
      s == slot[Code[k].slot]
  IN /\ s.valid => t.en /\ t.acc * UsPerMs <= s.time - onSince[k]
     /\ (mode \in Active /\ ~s.valid) => t.acc <= 0

TimersTrack ==
  image # Null =>
    /\ DOMAIN onSince = Timers
    /\ \A k \in Timers : onSince[k] \in Nat /\ onSince[k] <= clock
    /\ \A k \in Timers : Alone(k) => Timed(k)

\* A TON with power that has counted to time t and counts on to now.
LEMMA TimerCounts ==
  ASSUME NEW t \in TimerValue, Elapsed \in Nat
  PROVE  TimerAcc(t) \in Int /\ TimerAcc(t) <= t.acc + Elapsed
<1>1. t.acc \in Int /\ t.acc <= DintMax /\ DintMax \in Int
  BY Assumptions DEF ImageAssumption, TimerValue, Dint
<1>. QED  BY <1>1 DEF TimerAcc

LEMMA RunTimerFields ==
  ASSUME NEW t \in TimerValue
  PROVE  RunTimer(t).en = TRUE /\ RunTimer(t).acc = TimerAcc(t)
<1>. DEFINE acc == TimerAcc(t)
            done == acc >= t.pre
            timing == ~done
            n == [t EXCEPT !.en = TRUE, !.acc = acc, !.dn = done, !.tt = timing]
<1>1. RunTimer(t) = n
  BY Zenon DEF RunTimer
<1>2. n.en = TRUE /\ n.acc = acc
  <2>. HIDE DEF acc, done, timing
  <2>. QED  BY DEF TimerValue
<1>. HIDE DEF n
<1>. QED  BY <1>1, <1>2, Zenon

\* What a step does to a timer and the slot of its only TON.
TimerStays(k) ==
  /\ tag'[Code[k].a.id] = tag[Code[k].a.id]
  /\ slot'[Code[k].slot] = slot[Code[k].slot]
  /\ mode' \in Active => mode \in Active

TimerClears(k) ==
  /\ ~slot'[Code[k].slot].valid
  /\ mode' \in Active => tag'[Code[k].a.id].acc <= 0

TimerRuns(k) ==
  /\ OnDelay /\ power /\ pc + 1 = k
  /\ tag'[Code[k].a.id] = RunTimer(tag[Code[k].a.id])
  /\ slot'[Code[k].slot].valid /\ slot'[Code[k].slot].time = tick

LEMMA TimerFacts ==
  ASSUME Inductive, image # Null, NEW k \in Timers
  PROVE  /\ k \in 1..Len(Code) /\ k \in Stateful(P) /\ Code[k].op = "TON"
         /\ Code[k].slot \in DOMAIN slot /\ slot[Code[k].slot] \in SlotState
         /\ slot[Code[k].slot].time <= clock
         /\ Code[k].a.id \in TagIds(P) /\ Code[k].a.id \in DOMAIN tag
         /\ TypeOf(P, Code[k].a.id) = "TIMER" /\ tag[Code[k].a.id] \in TimerValue
<1>1. k \in 1..Len(Code) /\ Code[k].op = "TON" /\ k \in Stateful(P)
  BY DEF Timers, Stateful, StatefulOps, Code
<1>2. TypeOf(P, Code[k].a.id) = "TIMER" /\ Code[k].a.id \in TagIds(P)
  BY <1>1, StatefulFacts
<1>3. tag[Code[k].a.id] \in TimerValue
  BY <1>2, TimerTag
<1>. QED  BY <1>1, <1>2, <1>3, StatefulFacts

\* A timer that only its TON runs is cleared by an instruction together with
\* the slot, or not at all.
LEMMA TimerExecute ==
  ASSUME Inductive, RungInside, Execute, NEW k \in Timers, Alone(k)
  PROVE  TimerStays(k) \/ TimerClears(k) \/ TimerRuns(k)
<1>. DEFINE id == Code[k].a.id
            s == Code[k].slot
            j == pc + 1
<1>1. /\ image # Null /\ image' = image /\ ValidOperands(P, I) /\ I.op = Op
      /\ DOMAIN tag = TagIds(P) /\ image \in Images
  BY InstructionAt
<1>2. /\ k \in 1..Len(Code) /\ k \in Stateful(P) /\ Code[k].op = "TON"
      /\ s \in DOMAIN slot /\ slot[s] \in SlotState /\ slot[s].time <= clock
      /\ id \in TagIds(P) /\ id \in DOMAIN tag
      /\ TypeOf(P, id) = "TIMER" /\ tag[id] \in TimerValue
  BY <1>1, TimerFacts
<1>3. /\ phase = "logic" /\ j \in 1..Len(Code) /\ I = Code[j] /\ Op = Code[j].op
      /\ Op \in StatefulOps => j \in Stateful(P)
      /\ mode \in Active /\ pc \in Nat /\ codeEnd \in Nat /\ pc < codeEnd
  BY ExecutingAt
<1>4. CASE \E w, v : StoresScalar(w, v)
  <2>. PICK w, v : StoresScalar(w, v)  BY <1>4
  <2>1. w # id
    BY <1>2 DEF StoresScalar, ScalarTypes
  <2>. QED  BY <1>2, <2>1 DEF StoresScalar, TimerStays
<1>5. CASE Rests
  BY <1>5 DEF Rests, TimerStays
<1>6. CASE OnDelay /\ tag[I.a.id].pre >= 0 /\ Continue(power)
  <2>1. /\ I.op = "TON" /\ I.a.id \in DOMAIN tag /\ I.slot \in DOMAIN slot /\ j \in Stateful(P)
        /\ mode' = mode
    BY <1>1, <1>3, <1>6, StatefulFacts DEF OnDelay, Executing, StatefulOps, Continue, stepUnchanged
  <2>2. tag[I.a.id] \in TimerValue
    BY <1>1, <1>3, <2>1, TimerTag, StatefulFacts
  <2>3. \/ /\ power
           /\ tag' = [tag EXCEPT ![I.a.id] = RunTimer(tag[I.a.id])]
           /\ slot' = [slot EXCEPT ![I.slot].valid = TRUE, ![I.slot].time = tick]
        \/ /\ ~power
           /\ tag' = [tag EXCEPT ![I.a.id] = ClearTimer(tag[I.a.id])]
           /\ slot' = [slot EXCEPT ![I.slot].valid = FALSE]
    <3>1. ~(tag[I.a.id].pre < 0)
      BY <1>6, <2>2, Assumptions DEF TimerValue, Dint, ImageAssumption
    <3>. QED  BY <1>6, <3>1 DEF OnDelay, SlotStopped
  <2>4. CASE j = k
    <3>1. I.a.id = id /\ I.slot = s
      BY <1>3, <2>4
    <3>2. slot[s] \in [edge : BOOLEAN, valid : BOOLEAN, time : Nat]
      BY <1>2 DEF SlotState
    <3>3. CASE power
      <4>1. tag'[id] = RunTimer(tag[id])
        BY <1>2, <2>3, <3>1, <3>3
      <4>2. slot' = [slot EXCEPT ![s].valid = TRUE, ![s].time = tick]
        BY <2>3, <3>1, <3>3
      <4>3. slot'[s].valid /\ slot'[s].time = tick
        BY <1>2, <3>2, <4>2
      <4>4. OnDelay /\ power /\ pc + 1 = k
        BY <1>6, <2>4, <3>3
      <4>. QED  BY <4>1, <4>3, <4>4, Zenon DEF TimerRuns
    <3>4. CASE ~power
      <4>1. tag'[id] = ClearTimer(tag[id])
        BY <1>2, <2>3, <3>1, <3>4
      <4>2. tag'[id].acc = 0
        BY <1>2, <4>1 DEF ClearTimer, TimerValue
      <4>3. slot'[s].valid = FALSE
        BY <1>2, <2>3, <3>1, <3>2, <3>4
      <4>. QED  BY <4>2, <4>3 DEF TimerClears
    <3>. QED  BY <3>3, <3>4
  <2>5. CASE j # k
    <3>1. I.a.id # id
      BY <1>3, <2>1, <2>5 DEF Alone, Timers
    <3>2. I.slot # s
      BY <1>1, <1>2, <1>3, <2>1, <2>5, OneSlotEach
    <3>3. tag'[id] = tag[id] /\ slot'[s] = slot[s]
      BY <1>2, <2>3, <3>1, <3>2
    <3>. QED  BY <1>3, <3>3 DEF TimerStays
  <2>. QED  BY <2>4, <2>5
<1>7. CASE Count
  <2>1. /\ I.op \in CountOps /\ I.slot \in DOMAIN slot /\ j \in Stateful(P)
        /\ TypeOf(P, I.a.id) = "COUNTER" /\ j # k
    BY <1>1, <1>2, <1>3, <1>7, StatefulFacts DEF Count, Executing, StatefulOps, CountOps
  <2>2. I.a.id # id /\ I.slot # s
    BY <1>1, <1>2, <1>3, <2>1, OneSlotEach
  <2>3. tag'[id] = tag[id]
    BY <1>2, <1>7, <2>2 DEF Count
  <2>4. slot'[s] = slot[s]
    BY <1>2, <1>7, <2>2 DEF Count
  <2>. QED  BY <1>3, <2>3, <2>4 DEF TimerStays
<1>8. CASE Reset /\ power
  <2>1. /\ I.op = "RES"
        /\ tag' = [tag EXCEPT ![I.a.id] =
                     IF TypeOf(P, I.a.id) = "TIMER" THEN ClearTimer(@) ELSE ResetCounter(@)]
        /\ slot' = [x \in DOMAIN slot |->
                      IF x \in ResetSlots(I.a.id) THEN ZeroSlot ELSE slot[x]]
        /\ mode' = mode
    BY <1>1, <1>8 DEF Reset, Executing, Continue, stepUnchanged
  <2>2. CASE I.a.id = id
    <3>1. tag'[id] = ClearTimer(tag[id])
      BY <1>2, <2>1, <2>2
    <3>2. tag'[id].acc = 0
      BY <1>2, <3>1 DEF ClearTimer, TimerValue
    <3>3. rung \in 1..Len(P.rungs) /\ RungStart(P, rung) <= pc /\ codeEnd = RungEnd(P, rung)
      BY <1>1, <1>3 DEF Inductive, ScanPlace, RungInside
    <3>4. RungStart(P, rung) \in Nat
      BY <1>1, <3>3, Assumptions DEF ImageAssumption, RungStart, P
    <3>5. j \in (RungStart(P, rung) + 1)..RungEnd(P, rung)
      BY <1>3, <3>3, <3>4
    <3>6. k <= codeEnd
      BY <1>3, <2>1, <2>2, <3>3, <3>5 DEF Alone
    <3>7. s \in ResetSlots(I.a.id)
      <4>1. k \in 1..codeEnd
        BY <1>2, <1>3, <3>6
      <4>. QED  BY <1>2, <2>2, <4>1 DEF ResetSlots, StatefulOps
    <3>8. ~slot'[s].valid
      BY <1>2, <2>1, <3>7 DEF ZeroSlot
    <3>. QED  BY <3>2, <3>8 DEF TimerClears
  <2>3. CASE I.a.id # id
    <3>1. tag'[id] = tag[id]
      BY <1>2, <2>1, <2>3
    <3>2. s \notin ResetSlots(I.a.id)
      <4>1. ASSUME NEW m \in 1..codeEnd, Code[m].op \in StatefulOps, Code[m].a.id = I.a.id,
                   Code[m].slot = s
            PROVE  FALSE
        <5>1. codeEnd \in 0..Len(Code) /\ Len(Code) \in Nat
          BY <1>1, RungFacts DEF Inductive, CutAtRungBoundary, Boundaries
        <5>2. m \in Stateful(P)
          BY <4>1, <5>1 DEF Stateful, Code
        <5>. QED  BY <1>1, <1>2, <2>3, <4>1, <5>2, OneSlotEach
      <4>. QED  BY <4>1 DEF ResetSlots
    <3>3. slot'[s] = slot[s]
      BY <1>2, <2>1, <3>2
    <3>. QED  BY <1>3, <3>1, <3>3 DEF TimerStays
  <2>. QED  BY <2>2, <2>3
<1>. QED  BY <1>4, <1>5, <1>6, <1>7, <1>8, ExecuteKinds

\* Only a load brings another program.
LEMMA ImageChanges ==
  ASSUME Next, image' # image, image' # Null
  PROVE  \E i \in Images : LoadImage(i)
<1>1. ~ScanStep
  BY ScanStepShape DEF Fails
<1>2. Host
  BY <1>1 DEF Next
<1>. QED
  BY <1>2 DEF Host, UnloadProgram, Deinit, Forget, SetMode, Prescan, Postscan, WriteTag, ForceTag,
              ClearForce, ClearAllForces, ClearWriteTrace, BeginScan, hostUnchanged

\* The clock does not go back.
LEMMA ClockAdvances ==
  ASSUME Inductive, [Next]_vars
  PROVE  clock <= clock'
<1>1. clock \in Nat
  BY DEF Inductive, TypeOK, ScanOK
<1>2. ASSUME NEW gap \in ScanGaps, BeginScan(gap)  PROVE clock <= clock'
  BY <1>1, <1>2, RuntimeAssumptions DEF BeginScan, RuntimeAssumption
<1>3. ASSUME NEW d \in ScanDurations, FinishScan(d)  PROVE clock <= clock'
  BY <1>1, <1>3, RuntimeAssumptions DEF FinishScan, RuntimeAssumption
<1>4. CASE Execute
  <2>1. clock' = clock
    BY <1>4 DEF Execute, BranchBegin, LaneBegin, LaneEnd, BranchEnd, BranchFault, Contact, Coil,
                OneShot, OnDelay, Count, Reset, Compare, Data, Continue, Abort, stepUnchanged
  <2>. QED  BY <1>1, <2>1
<1>5. CASE \/ \E i \in Images : LoadImage(i)
           \/ UnloadProgram \/ Deinit
           \/ \E m \in Modes : SetMode(m)
           \/ Prescan \/ Postscan
           \/ \E id \in HostTags : \/ \E v \in HostChoices(id) : WriteTag(id, v) \/ ForceTag(id, v)
                                   \/ ClearForce(id)
           \/ ClearAllForces \/ ClearWriteTrace
  <2>1. clock' = clock
    BY <1>5 DEF LoadImage, UnloadProgram, Deinit, SetMode, Prescan, Postscan, WriteTag, ForceTag,
                ClearForce, ClearAllForces, ClearWriteTrace, hostUnchanged
  <2>. QED  BY <1>1, <2>1
<1>6. CASE \/ \E id \in pending : \/ \E v \in Readings(id) : CaptureInput(id, v)
                                  \/ InputFault(id) \/ WriteOutput(id) \/ OutputFault(id)
           \/ InputsDone \/ StartRung \/ EndRung \/ RungsDone
           \/ UNCHANGED vars
  <2>1. clock' = clock
    BY <1>6 DEF CaptureInput, InputFault, WriteOutput, OutputFault, InputsDone, StartRung,
                EndRung, RungsDone, vars
  <2>. QED  BY <1>1, <2>1
<1>. QED  BY <1>2, <1>3, <1>4, <1>5, <1>6 DEF Next, Host, ScanStep

LEMMA TimerStep ==
  ASSUME Inductive, RungInside, Next, image # Null, image' = image,
         NEW k \in Timers, Alone(k)
  PROVE  TimerStays(k) \/ TimerClears(k) \/ TimerRuns(k)
<1>. DEFINE id == Code[k].a.id
            s == Code[k].slot
<1>1. /\ k \in Stateful(P) /\ s \in DOMAIN slot /\ DOMAIN slot = SlotIds(P)
      /\ id \in TagIds(P) /\ TypeOf(P, id) = "TIMER" /\ DOMAIN tag = TagIds(P)
      /\ tag[id] \in TimerValue /\ slot[s] \in [edge : BOOLEAN, valid : BOOLEAN, time : Nat]
  BY TimerFacts, LoadedTags DEF Inductive, TypeOK, TablesOK, SlotState
<1>2. ASSUME NEW prescan \in BOOLEAN, Passes(prescan)
      PROVE  TimerClears(k)
  <2>1. tag'[id] = LifecycleValue(id, prescan)
    BY <1>1, <1>2 DEF Passes, LifecycleOutputs
  <2>2. LifecycleValue(id, prescan) = ClearTimer(tag[id])
    BY <1>1 DEF LifecycleValue
  <2>3. tag'[id].acc = 0
    BY <1>1, <2>1, <2>2 DEF ClearTimer, TimerValue
  <2>4. slot'[s] = [slot[s] EXCEPT !.valid = FALSE, !.edge = EdgeAfter(prescan)]
    BY <1>1, <1>2 DEF Passes, LifecycleOutputs
  <2>5. slot'[s].valid = FALSE
    BY <1>1, <2>4
  <2>. QED  BY <2>3, <2>5 DEF TimerClears
<1>3. CASE Reloads
  <2>1. slot'[s] = ZeroSlot /\ mode' \notin Active
    BY <1>1, <1>3 DEF Reloads, Install, Active
  <2>. QED  BY <2>1 DEF TimerClears, ZeroSlot
<1>4. CASE \E w, v : WritesScalar(w, v)
  <2>. PICK w, v : WritesScalar(w, v)  BY <1>4
  <2>1. w # id
    BY <1>1 DEF WritesScalar, ScalarTypes
  <2>. QED  BY <1>1, <2>1 DEF WritesScalar, TimerStays
<1>5. CASE Rests
  BY <1>5 DEF Rests, TimerStays
<1>. QED  BY <1>2, <1>3, <1>4, <1>5, StepKinds, LifecyclePasses, TimerExecute

\* The record of when a timer was enabled, after a step.
LEMMA OnSinceAfter ==
  ASSUME ObserveTimers, image # Null, image' = image,
         DOMAIN onSince = Timers, NEW k \in Timers
  PROVE  /\ DOMAIN onSince' = Timers
         /\ \/ onSince'[k] = onSince[k]
            \/ /\ onSince'[k] = tick /\ pc + 1 = k /\ OnDelay
               /\ power /\ ~tag[I.a.id].en
BY DEF ObserveTimers

\* After a step the TON's slot and timer are again in step.
LEMMA TimedStep ==
  ASSUME Inductive, Inductive', RungInside, ObservedNext, TimersTrack,
         image # Null, image' = image, NEW k \in Timers, Alone(k)
  PROVE  Timed(k)'
<1>. DEFINE id == Code[k].a.id
            s == Code[k].slot
            t == tag[id]
<1>1. /\ image # Null /\ DOMAIN onSince = Timers /\ Timed(k)
      /\ onSince[k] \in Nat /\ onSince[k] <= clock
  BY DEF TimersTrack
<1>2. /\ k \in Timers /\ t \in TimerValue /\ id \in TagIds(P)
      /\ slot[s] \in SlotState /\ slot[s].time <= clock
  BY TimerFacts
<1>3. /\ TimerStays(k) \/ TimerClears(k) \/ TimerRuns(k)
      /\ \/ onSince'[k] = onSince[k]
         \/ /\ onSince'[k] = tick /\ pc + 1 = k /\ OnDelay
            /\ power /\ ~tag[I.a.id].en
  BY <1>1, TimerStep, OnSinceAfter DEF ObservedNext
<1>4. Timed(k)' <=>
        /\ slot'[s].valid =>
             tag'[id].en /\ tag'[id].acc * UsPerMs <= slot'[s].time - onSince'[k]
        /\ (mode' \in Active /\ ~slot'[s].valid) => tag'[id].acc <= 0
  BY Zenon DEF Timed, Code, P
<1>5. pc + 1 = k /\ OnDelay => I.a.id = id /\ I.slot = s
  BY DEF I
<1>6. CASE TimerStays(k)
  <2>1. slot[s].valid => onSince'[k] = onSince[k]
    BY <1>1, <1>3, <1>5 DEF Timed
  <2>. QED  BY <1>1, <1>4, <1>6, <2>1 DEF TimerStays, Timed
<1>7. CASE TimerClears(k)
  BY <1>4, <1>7 DEF TimerClears
<1>8. CASE TimerRuns(k)
  <2>1. Execute /\ I.a.id = id /\ I.slot = s
    BY <1>5, <1>8 DEF TimerRuns, Execute
  <2>2. mode \in Active /\ tick = clock /\ clock \in Nat
    BY <2>1, ExecutingAt DEF Inductive, TypeOK, ScanOK
  <2>3. tag'[id].en /\ tag'[id].acc = TimerAcc(t) /\ slot'[s].valid /\ slot'[s].time = tick
    BY <1>2, <1>8, RunTimerFields DEF TimerRuns
  <2>4. onSince'[k] \in Nat /\ onSince'[k] <= tick
    BY <1>1, <1>3, <2>2
  <2>. DEFINE acc == TimerAcc(t)
  <2>5. t.acc \in Int /\ UsPerMs \in Nat /\ UsPerMs \in Nat \ {0}
    BY <1>2, Assumptions, RuntimeAssumptions DEF TimerValue, Dint, ImageAssumption, RuntimeAssumption
  <2>6. acc * UsPerMs <= tick - onSince'[k]
    <3>1. CASE slot[s].valid
      <4>1. onSince'[k] = onSince[k] /\ t.acc * UsPerMs <= slot[s].time - onSince[k]
        BY <1>1, <1>3, <2>1, <3>1 DEF Timed
      <4>. DEFINE n == tick - slot[s].time
      <4>2. slot[s].time \in Nat /\ n \in Nat /\ Elapsed = n \div UsPerMs
        BY <1>2, <2>1, <2>2, <3>1 DEF SlotState, Elapsed
      <4>3. Elapsed \in Nat /\ Elapsed * UsPerMs <= n
        BY <2>5, <4>2, WholeMilliseconds
      <4>4. acc \in Int /\ acc <= t.acc + Elapsed
        BY <1>2, <4>3, TimerCounts
      <4>5. acc * UsPerMs <= (t.acc + Elapsed) * UsPerMs
        BY <2>5, <4>3, <4>4, TimesGrows
      <4>6. (t.acc + Elapsed) * UsPerMs = t.acc * UsPerMs + Elapsed * UsPerMs
        BY <2>5, <4>3, TimesSum
      <4>. DEFINE a == acc * UsPerMs
                  b == t.acc * UsPerMs
                  c == Elapsed * UsPerMs
      <4>7. a \in Int /\ b \in Int /\ c \in Int
        BY <2>5, <4>3, <4>4
      <4>8. a <= b + c /\ c <= n /\ b <= slot[s].time - onSince[k]
        BY <4>1, <4>3, <4>5, <4>6
      <4>. HIDE DEF a, b, c
      <4>9. a <= tick - onSince[k]
        BY <1>1, <2>2, <4>2, <4>7, <4>8
      <4>. QED  BY <4>1, <4>9 DEF a
    <3>2. CASE ~slot[s].valid
      <4>1. t.acc <= 0
        BY <1>1, <2>2, <3>2 DEF Timed
      <4>2. Elapsed = 0
        BY <2>1, <3>2 DEF Elapsed
      <4>3. acc \in Int /\ acc <= 0
        BY <1>2, <2>5, <4>1, <4>2, TimerCounts
      <4>4. acc * UsPerMs <= 0 * UsPerMs
        BY <2>5, <4>3, TimesGrows
      <4>5. acc * UsPerMs \in Int /\ 0 * UsPerMs = 0
        BY <2>5, <4>3
      <4>. HIDE DEF acc
      <4>. DEFINE a == acc * UsPerMs
      <4>6. a \in Int /\ a <= 0
        BY <4>4, <4>5
      <4>. HIDE DEF a
      <4>7. a <= tick - onSince'[k]
        BY <2>2, <2>4, <4>6
      <4>. QED  BY <4>7 DEF a
    <3>. QED  BY <3>1, <3>2
  <2>. QED  BY <1>4, <2>3, <2>6
<1>. QED  BY <1>3, <1>6, <1>7, <1>8

\* Between the scan that enabled a timer and the one that last ran it, the
\* timer counts no more than the time that passed.
THEOREM TimersNeverEarly == ObservedSpec => []TimerNeverEarly
<1>1. ObservedInit => TimersTrack
  BY DEF ObservedInit, Init, TimersTrack
<1>2. Inductive /\ Inductive' /\ RungInside /\ TimersTrack /\ [ObservedNext]_hvars
        => TimersTrack'
  <2>. SUFFICES ASSUME Inductive, Inductive', RungInside, TimersTrack, [ObservedNext]_hvars,
                       image' # Null
                PROVE  /\ DOMAIN onSince' = Timers'
                       /\ \A k \in Timers' : onSince'[k] \in Nat /\ onSince'[k] <= clock'
                       /\ \A k \in Timers' : Alone(k)' => Timed(k)'
    BY DEF TimersTrack
  <2>1. tick \in Nat /\ tick <= clock /\ clock \in Nat /\ clock' \in Nat /\ clock <= clock'
    <3>1. clock \in Nat /\ clock' \in Nat /\ tick \in Nat /\ tick <= clock
      BY DEF Inductive, TypeOK, ScanOK
    <3>2. clock <= clock'
      BY <3>1, ClockAdvances DEF ObservedNext, hvars
    <3>. QED  BY <3>1, <3>2
  <2>2. CASE UNCHANGED hvars
    <3>1. Timers' = Timers /\ \A k : (Alone(k)' <=> Alone(k)) /\ (Timed(k)' <=> Timed(k))
      BY <2>2 DEF hvars, vars, Timers, Alone, Timed, Code, P
    <3>. QED  BY <2>1, <2>2, <3>1 DEF hvars, vars, TimersTrack
  <2>3. CASE ObservedNext /\ image' # image
    <3>1. /\ onSince' = [k \in Timers' |-> tick]
      BY <2>3 DEF ObservedNext, ObserveTimers
    <3>2. ASSUME NEW k \in Timers'  PROVE Timed(k)'
      <4>1. slot'[Code'[k].slot] = ZeroSlot /\ ~(mode' \in Active)
        <5>1. PICK i \in Images : LoadImage(i)
          BY <2>3, ImageChanges DEF ObservedNext
        <5>2. k \in Stateful(P)' /\ mode' = "PROGRAM" /\ slot' = [x \in SlotIds(P') |-> ZeroSlot]
          BY <5>1 DEF LoadImage, Install, P, Timers, Stateful, StatefulOps, Code
        <5>. QED  BY <5>2 DEF SlotIds, Stateful, Code, Active
      <4>2. slot'[Code'[k].slot].valid = FALSE
        BY <4>1 DEF ZeroSlot
      <4>. QED  BY <4>1, <4>2, Zenon DEF Timed
    <3>. QED  BY <2>1, <3>1, <3>2
  <2>4. CASE ObservedNext /\ image' = image
    <3>1. image # Null /\ Timers' = Timers /\ \A k : Alone(k)' <=> Alone(k)
      BY <2>4 DEF Timers, Alone, Code, P
    <3>2. DOMAIN onSince = Timers /\ \A k \in Timers : onSince[k] \in Nat /\ onSince[k] <= clock
      BY <3>1 DEF TimersTrack
    <3>3. \A k \in Timers : /\ DOMAIN onSince' = Timers
                            /\ onSince'[k] = onSince[k] \/ onSince'[k] = tick
      BY <2>4, <3>1, <3>2, OnSinceAfter DEF ObservedNext
    <3>4. DOMAIN onSince' = Timers
      BY <2>4, <3>1, <3>2 DEF ObservedNext, ObserveTimers
    <3>5. \A k \in Timers : onSince'[k] \in Nat /\ onSince'[k] <= clock'
      BY <2>1, <3>2, <3>3
    <3>6. \A k \in Timers : Alone(k) => Timed(k)'
      BY <2>4, <3>1, TimedStep
    <3>. QED  BY <3>1, <3>4, <3>5, <3>6
  <2>. QED  BY <2>2, <2>3, <2>4
<1>3. TimersTrack => TimerNeverEarly
  BY DEF TimersTrack, TimerNeverEarly, Timed
<1>4. ObservedSpec => []Inductive /\ []RungInside
  BY ObservedIsRuntime, InductiveHolds, RungsStayInside, PTL
<1>. QED  BY <1>1, <1>2, <1>3, <1>4, PTL DEF ObservedSpec

-----------------------------------------------------------------------------
(* Rises.                                                                  *)

ForcesAreHosts == DOMAIN force \subseteq HostTags

\* The host forces only the tags it names.
LEMMA OnlyHostsForce == Spec => []ForcesAreHosts
<1>1. Init => ForcesAreHosts
  BY DEF Init, ForcesAreHosts
<1>2. Inductive /\ ForcesAreHosts /\ [Next]_vars => ForcesAreHosts'
  <2>. SUFFICES ASSUME Inductive, ForcesAreHosts, [Next]_vars
                PROVE  DOMAIN force' \subseteq HostTags
    BY DEF ForcesAreHosts
  <2>1. CASE \/ \E i \in Images : LoadImage(i)
             \/ UnloadProgram \/ Deinit \/ ClearAllForces
    BY <2>1 DEF LoadImage, Install, UnloadProgram, Deinit, Forget, ClearAllForces
  <2>2. ASSUME NEW id \in HostTags,
               (\E v \in HostChoices(id) : ForceTag(id, v)) \/ ClearForce(id)
        PROVE  DOMAIN force' \subseteq HostTags
    <3>1. DOMAIN force' \subseteq DOMAIN force \cup {id}
      BY <2>2 DEF ForceTag, ClearForce
    <3>. QED  BY <3>1 DEF ForcesAreHosts
  <2>3. CASE force' = force
    BY <2>3 DEF ForcesAreHosts
  <2>4. CASE \/ \E m \in Modes : SetMode(m)
             \/ Prescan \/ Postscan \/ ClearWriteTrace
             \/ \E id \in HostTags : \E v \in HostChoices(id) : WriteTag(id, v)
             \/ \E gap \in ScanGaps : BeginScan(gap)
    BY <2>3, <2>4 DEF SetMode, Prescan, Postscan, ClearWriteTrace, WriteTag, BeginScan,
                      hostUnchanged
  <2>5. CASE Host
    BY <2>1, <2>2, <2>4, <2>5 DEF Host
  <2>6. CASE ScanStep
    BY <2>3, <2>6, ScanKeepsForces
  <2>7. CASE UNCHANGED vars
    BY <2>3, <2>7 DEF vars
  <2>. QED  BY <2>5, <2>6, <2>7 DEF Next
<1>. QED  BY <1>1, <1>2, InductiveHolds, PTL DEF Spec

\* How far the scans run the code; the end of a rung while that rung runs.
Reach == IF phase = "logic" THEN saved ELSE codeEnd

LEMMA ReachStays ==
  ASSUME Inductive, Next, image # Null, image' = image, mode \in Active, mode' \in Active
  PROVE  Reach' = Reach
<1>1. CASE \/ \E m \in Modes : SetMode(m)
           \/ Prescan \/ Postscan
           \/ \E id \in HostTags : \/ \E v \in HostChoices(id) : WriteTag(id, v) \/ ForceTag(id, v)
                                   \/ ClearForce(id)
           \/ ClearAllForces \/ ClearWriteTrace
           \/ \E gap \in ScanGaps : BeginScan(gap)
  <2>1. codeEnd' = codeEnd /\ phase = "idle" /\ phase' \in {"idle", "input"}
    BY <1>1 DEF SetMode, Prescan, Postscan, WriteTag, ForceTag, ClearForce, ClearAllForces,
                ClearWriteTrace, BeginScan, hostUnchanged
  <2>. QED  BY <2>1 DEF Reach
<1>2. ~(\E i \in Images : LoadImage(i)) /\ ~UnloadProgram /\ ~Deinit
  BY DEF LoadImage, UnloadProgram, Deinit, Active
<1>3. CASE \E id \in pending : \/ \E v \in Readings(id) : CaptureInput(id, v)
                               \/ InputFault(id) \/ WriteOutput(id) \/ OutputFault(id)
  <2>1. codeEnd' = codeEnd /\ phase' = phase /\ phase # "logic"
    BY <1>3 DEF CaptureInput, InputFault, WriteOutput, OutputFault, Fail, FailWith, Active
  <2>. QED  BY <2>1 DEF Reach
<1>4. CASE InputsDone \/ RungsDone \/ \E d \in ScanDurations : FinishScan(d)
  <2>1. codeEnd' = codeEnd /\ phase # "logic" /\ phase' # "logic"
    BY <1>4 DEF InputsDone, RungsDone, FinishScan, FailWith, ScanOver
  <2>. QED  BY <2>1 DEF Reach
<1>5. CASE StartRung
  BY <1>5 DEF StartRung, Reach
<1>6. CASE EndRung
  BY <1>6 DEF EndRung, SizeRestored, Reach
<1>7. CASE Execute
  <2>1. codeEnd' = codeEnd /\ phase' = phase /\ saved' = saved
    BY <1>7 DEF Execute, BranchBegin, LaneBegin, LaneEnd, BranchEnd, BranchFault, Contact, Coil,
                OneShot, OnDelay, Count, Reset, Compare, Data, Continue, Abort, Fail, FailWith,
                stepUnchanged, Active
  <2>. QED  BY <2>1 DEF Reach
<1>. QED  BY <1>1, <1>2, <1>3, <1>4, <1>5, <1>6, <1>7 DEF Next, Host, ScanStep

\* In RUN and TEST a counter whose edge memory is clear, and a one-shot whose
\* storage bit is clear, have run without power or been reset.
CounterLow(k) == slot[Code[k].slot].edge \/ low[k]
BitLow(k) == k <= Reach => tag[Code[k].a.id] \/ low[k]

EdgesTrack ==
  image # Null =>
    /\ low \in [EdgeOps -> BOOLEAN]
    /\ mode \in Active =>
         /\ \A k \in Counters : CounterLow(k)
         /\ \A k \in EdgeOps \ Counters : OwnBit(k) => BitLow(k)

LEMMA EdgeFacts ==
  ASSUME Inductive, image # Null, NEW k \in EdgeOps
  PROVE  /\ k \in 1..Len(Code) /\ Code[k].a.id \in TagIds(P) /\ Code[k].a.id \in DOMAIN tag
         /\ k \in Counters => /\ k \in Stateful(P) /\ TypeOf(P, Code[k].a.id) = "COUNTER"
                              /\ Code[k].slot \in DOMAIN slot
                              /\ slot[Code[k].slot] \in [edge : BOOLEAN, valid : BOOLEAN, time : Nat]
         /\ k \notin Counters => /\ Code[k].op = "ONS" /\ TypeOf(P, Code[k].a.id) = "BOOL"
                                 /\ ~IsInput(P, Code[k].a.id) /\ tag[Code[k].a.id] \in BOOLEAN
                                 /\ Code[k].a.kind = "tag" /\ Code[k].a.member = "none"
<1>1. k \in 1..Len(Code) /\ (k \in Counters <=> Code[k].op \in CountOps)
      /\ (k \notin Counters => Code[k].op = "ONS")
  BY DEF EdgeOps, Counters
<1>2. ValidOperands(P, Code[k])
  BY <1>1 DEF Inductive, TypeOK, Bootable, ValidImage, ValidCode, P, Code
<1>3. CASE k \in Counters
  <2>1. k \in Stateful(P)
    BY <1>1, <1>3 DEF Stateful, StatefulOps, Code
  <2>. QED  BY <1>1, <1>3, <2>1, StatefulFacts DEF SlotState
<1>4. CASE k \notin Counters
  <2>1. Writable(P, Code[k].a, {"BOOL"})
    BY <1>1, <1>2, <1>4 DEF ValidOperands
  <2>2. /\ Code[k].a.id \in TagIds(P) /\ TypeOf(P, Code[k].a.id) = "BOOL"
        /\ ~IsInput(P, Code[k].a.id) /\ Code[k].a.kind = "tag" /\ Code[k].a.member = "none"
    BY <2>1 DEF Writable, WholeTag
  <2>3. tag[Code[k].a.id] \in BOOLEAN
    BY <2>2, LoadedTags DEF ValueSet
  <2>. QED  BY <1>1, <1>4, <2>2, <2>3, LoadedTags
<1>. QED  BY <1>3, <1>4

\* A prescan and a postscan.
LEMMA EdgesPass ==
  ASSUME Inductive, image # Null, NEW prescan \in BOOLEAN, Passes(prescan)
  PROVE  /\ \A k \in Counters : slot'[Code[k].slot].edge = prescan
         /\ \A k \in EdgeOps \ Counters :
              OwnBit(k) => IF prescan THEN k <= codeEnd => tag'[Code[k].a.id]
                           ELSE tag'[Code[k].a.id] = tag[Code[k].a.id]
<1>1. ASSUME NEW k \in Counters  PROVE slot'[Code[k].slot].edge = prescan
  <2>. DEFINE s == Code[k].slot
  <2>1. s \in DOMAIN slot /\ slot[s] \in [edge : BOOLEAN, valid : BOOLEAN, time : Nat]
    BY EdgeFacts DEF Counters
  <2>2. slot'[s] = [slot[s] EXCEPT !.valid = FALSE, !.edge = EdgeAfter(prescan)]
    BY <1>1, <2>1 DEF Passes, LifecycleOutputs
  <2>. QED  BY <2>1, <2>2 DEF EdgeAfter
<1>2. ASSUME NEW k \in EdgeOps \ Counters, OwnBit(k)
      PROVE  IF prescan THEN k <= codeEnd => tag'[Code[k].a.id]
             ELSE tag'[Code[k].a.id] = tag[Code[k].a.id]
  <2>. DEFINE id == Code[k].a.id
              ks == {j \in LifecycleWrites(prescan) : Code[j].a.id = id}
  <2>1. /\ id \in DOMAIN tag /\ TypeOf(P, id) = "BOOL" /\ Code[k].op = "ONS"
        /\ k \in 1..Len(Code)
    BY EdgeFacts
  <2>2. tag'[id] = IF ks = {} THEN tag[id]
                   ELSE \E j \in ks : (\A m \in ks : m <= j) /\ Code[j].op = "ONS"
    BY <2>1 DEF Passes, LifecycleOutputs, LifecycleValue
  <2>3. codeEnd \in Nat /\ Len(Code) \in Nat /\ codeEnd <= Len(Code)
    <3>1. codeEnd \in 0..Len(Code) /\ Len(Code) \in Nat
      BY RungFacts DEF Inductive, CutAtRungBoundary, Boundaries, TypeOK
    <3>. QED  BY <3>1
  <2>4. \A j \in ks : j = k
    <3>1. ASSUME NEW j \in ks, j # k  PROVE FALSE
      <4>1. j \in (1..Len(Code)) \ {k} /\ Code[j].op \in {"OTE", "ONS"} /\ Code[j].a.id = id
        BY <2>3, <3>1 DEF LifecycleWrites, LifecycleOps
      <4>2. id \in Stores(Code[j])
        BY <4>1 DEF Stores, CoilOps
      <4>. QED  BY <1>2, <4>1, <4>2 DEF OwnBit
    <3>. QED  BY <3>1
  <2>5. k \in ks <=> (prescan /\ k <= codeEnd)
    BY <2>1, <2>3 DEF LifecycleWrites, LifecycleOps
  <2>6. CASE prescan /\ k <= codeEnd
    <3>1. ks = {k}
      BY <2>4, <2>5, <2>6
    <3>. HIDE DEF ks
    <3>2. \E j \in ks : (\A m \in ks : m <= j) /\ Code[j].op = "ONS"
      BY <2>1, <3>1
    <3>. QED  BY <2>2, <2>6, <3>1, <3>2
  <2>7. CASE ~(prescan /\ k <= codeEnd)
    <3>1. ks = {}
      BY <2>4, <2>5, <2>7
    <3>. QED  BY <2>2, <2>7, <3>1
  <2>. QED  BY <2>6, <2>7
<1>. QED  BY <1>1, <1>2

\* An ONS executes as such, or nothing happens.
LEMMA OneShotExecutes ==
  ASSUME Inductive, Execute, Op = "ONS"
  PROVE  OneShot \/ Rests
<1>1. CASE BranchFault
  BY <1>1 DEF BranchFault, Fail, FailWith, Rests, Active
<1>2. ~BranchBegin /\ ~LaneBegin /\ ~LaneEnd /\ ~BranchEnd /\ ~Contact /\ ~Coil /\ ~OnDelay
      /\ ~Count /\ ~Reset /\ ~Compare /\ ~Data
  BY DEF BranchBegin, LaneBegin, LaneEnd, BranchEnd, Contact, Coil, OnDelay, Count, Reset,
         Compare, Data, Executing, ContactOps, CoilOps, CountOps, CompareOps, DataOps, ArithOps,
         UnaryOps
<1>. QED  BY <1>1, <1>2 DEF Execute

\* A step that is neither a pass, a reload nor an edge instruction keeps what
\* the edge instructions remember.
LEMMA EdgesKept ==
  ASSUME Inductive, Next, image # Null, image' = image, mode' \in Active,
         ~Prescanned, ~Postscanned, ~OneShot, ~Count, ~(Reset /\ power)
  PROVE  /\ mode \in Active
         /\ \A k \in Counters : slot'[Code[k].slot] = slot[Code[k].slot]
         /\ \A k \in EdgeOps \ Counters :
              OwnBit(k) => tag'[Code[k].a.id] = tag[Code[k].a.id]
<1>. DEFINE Kept == /\ mode \in Active
                    /\ \A k \in Counters : slot'[Code[k].slot] = slot[Code[k].slot]
                    /\ \A k \in EdgeOps \ Counters :
                         OwnBit(k) => tag'[Code[k].a.id] = tag[Code[k].a.id]
<1>1. ~Reloads
  BY DEF Reloads, Active
<1>2. CASE Rests
  BY <1>2 DEF Rests
<1>3. CASE \E id, v : WritesScalar(id, v)
  <2>. PICK id, v : WritesScalar(id, v)  BY <1>3
  <2>1. ASSUME NEW k \in EdgeOps \ Counters, OwnBit(k)
        PROVE  tag'[Code[k].a.id] = tag[Code[k].a.id]
    <3>1. Code[k].a.id # id /\ Code[k].a.id \in DOMAIN tag
      BY <2>1, EdgeFacts DEF WritesScalar, OwnBit
    <3>. QED  BY <3>1 DEF WritesScalar
  <2>. QED  BY <2>1 DEF WritesScalar
<1>4. CASE Execute
  <2>1. /\ mode \in Active /\ pc + 1 \in 1..Len(Code) /\ I = Code[pc + 1]
        /\ Op = Code[pc + 1].op /\ I.op = Op
        /\ Op \in StatefulOps => pc + 1 \in Stateful(P)
    BY <1>4, ExecutingAt, InstructionAt
  <2>2. CASE \E w, v : StoresScalar(w, v)
    <3>. PICK w, v : StoresScalar(w, v)  BY <2>2
    <3>1. ASSUME NEW k \in EdgeOps \ Counters, OwnBit(k)
          PROVE  tag'[Code[k].a.id] = tag[Code[k].a.id]
      <4>1. Code[k].op = "ONS" /\ Code[k].a.id \in DOMAIN tag
        BY EdgeFacts
      <4>2. CASE pc + 1 = k
        <5>1. Rests
          BY <1>4, <2>1, <4>1, <4>2, OneShotExecutes
        <5>. QED  BY <5>1 DEF Rests
      <4>3. CASE pc + 1 # k
        <5>1. Code[k].a.id # w
          BY <2>1, <3>1, <4>3 DEF StoresScalar, OwnBit
        <5>. QED  BY <4>1, <5>1 DEF StoresScalar
      <4>. QED  BY <4>2, <4>3
    <3>. QED  BY <2>1, <3>1 DEF StoresScalar
  <2>3. CASE OnDelay /\ tag[I.a.id].pre >= 0 /\ Continue(power)
    <3>1. /\ Op = "TON" /\ pc + 1 \in Stateful(P)
          /\ TypeOf(P, I.a.id) = "TIMER" /\ I.a.id \in DOMAIN tag
          /\ I.slot \in DOMAIN slot
      <4>1. Op = "TON" /\ pc + 1 \in Stateful(P)
        BY <2>1, <2>3 DEF OnDelay, Executing, StatefulOps
      <4>. QED  BY <2>1, <4>1, StatefulFacts
    <3>2. /\ \A j \in DOMAIN tag \ {I.a.id} : tag'[j] = tag[j]
          /\ \A j \in DOMAIN slot \ {I.slot} : slot'[j] = slot[j]
      BY <2>3, <3>1 DEF OnDelay, SlotStopped, Abort, Fail, FailWith, Active
    <3>3. ASSUME NEW k \in Counters  PROVE slot'[Code[k].slot] = slot[Code[k].slot]
      <4>1. k \in Stateful(P) /\ Code[k].slot \in DOMAIN slot /\ pc + 1 # k
        BY <2>1, <3>1, EdgeFacts DEF Counters, CountOps
      <4>2. Code[k].slot # I.slot
        BY <2>1, <3>1, <4>1, OneSlotEach
      <4>. QED  BY <3>2, <4>1, <4>2
    <3>4. ASSUME NEW k \in EdgeOps \ Counters
          PROVE  tag'[Code[k].a.id] = tag[Code[k].a.id]
      <4>1. Code[k].a.id \in DOMAIN tag /\ Code[k].a.id # I.a.id
        BY <3>1, EdgeFacts
      <4>. QED  BY <3>2, <4>1
    <3>. QED  BY <2>1, <3>3, <3>4
  <2>. QED  BY <1>2, <1>4, <2>2, <2>3, ExecuteKinds
<1>. QED  BY <1>1, <1>2, <1>3, <1>4, StepKinds

\* A counter or a one-shot runs.
LEMMA EdgesRun ==
  ASSUME Inductive, image # Null, image' = image, EdgesTrack, Execute, OneShot \/ Count,
         low' = [low EXCEPT ![pc + 1] = ~power], mode' \in Active
  PROVE  /\ \A k \in Counters : slot'[Code[k].slot].edge \/ low'[k]
         /\ \A k \in EdgeOps \ Counters :
              OwnBit(k) /\ k <= Reach => tag'[Code[k].a.id] \/ low'[k]
<1>. DEFINE j == pc + 1
<1>1. /\ mode \in Active /\ j \in 1..Len(Code) /\ I = Code[j] /\ Op = Code[j].op
      /\ Op \in StatefulOps => j \in Stateful(P)
  BY ExecutingAt
<1>2. power \in BOOLEAN /\ DOMAIN low = EdgeOps
  BY DEF Inductive, TypeOK, ScanOK, EdgesTrack
<1>3. j \in EdgeOps /\ (j \in Counters <=> Count) /\ (j \notin Counters <=> OneShot)
  BY <1>1 DEF OneShot, Count, Executing, EdgeOps, Counters, CountOps
<1>4. /\ \A k \in Counters : CounterLow(k)
      /\ \A k \in EdgeOps \ Counters : OwnBit(k) => BitLow(k)
  BY <1>1 DEF EdgesTrack
<1>5. \A k \in EdgeOps : low'[k] = IF k = j THEN ~power ELSE low[k]
  BY <1>2
<1>6. CASE Count
  <2>1. /\ tag' = [tag EXCEPT ![I.a.id] = IF Op = "CTU" THEN CountUp(@) ELSE CountDown(@)]
        /\ slot' = [slot EXCEPT ![I.slot].edge = power]
    BY <1>6 DEF Count
  <2>2. ASSUME NEW k \in Counters  PROVE slot'[Code[k].slot].edge \/ low'[k]
    <3>. DEFINE s == Code[k].slot
    <3>1. /\ k \in EdgeOps /\ k \in Stateful(P) /\ s \in DOMAIN slot
          /\ slot[s] \in [edge : BOOLEAN, valid : BOOLEAN, time : Nat]
      BY EdgeFacts DEF Counters
    <3>2. CASE k = j
      <4>1. slot'[s] = [slot[s] EXCEPT !.edge = power]
        BY <1>1, <2>1, <3>1, <3>2
      <4>2. slot'[s].edge = power
        BY <3>1, <4>1
      <4>3. low'[k] = ~power
        BY <1>5, <3>1, <3>2
      <4>. QED  BY <1>2, <4>2, <4>3
    <3>3. CASE k # j
      <4>1. j \in Stateful(P)
        BY <1>3, <1>6, EdgeFacts
      <4>2. s # I.slot
        BY <1>1, <3>1, <3>3, <4>1, OneSlotEach
      <4>3. slot'[s] = slot[s]
        BY <2>1, <3>1, <4>2
      <4>4. low'[k] = low[k]
        BY <1>5, <3>1, <3>3
      <4>. QED  BY <1>4, <4>3, <4>4 DEF CounterLow
    <3>. QED  BY <3>2, <3>3
  <2>3. ASSUME NEW k \in EdgeOps \ Counters, OwnBit(k), k <= Reach
        PROVE  tag'[Code[k].a.id] \/ low'[k]
    <3>1. k # j /\ Code[k].a.id # I.a.id /\ Code[k].a.id \in DOMAIN tag
      BY <1>1, <1>3, <1>6, EdgeFacts
    <3>2. tag'[Code[k].a.id] = tag[Code[k].a.id]
      BY <2>1, <3>1
    <3>3. low'[k] = low[k]
      BY <1>5, <3>1
    <3>. QED  BY <1>4, <2>3, <3>2, <3>3 DEF BitLow
  <2>. QED  BY <2>2, <2>3
<1>7. CASE OneShot
  <2>1. tag' = [tag EXCEPT ![I.a.id] = power] /\ slot' = slot
    BY <1>7 DEF OneShot, Put
  <2>2. ASSUME NEW k \in Counters  PROVE slot'[Code[k].slot].edge \/ low'[k]
    <3>1. low'[k] = low[k]
      BY <1>3, <1>5, <1>7 DEF Counters
    <3>. QED  BY <1>4, <2>1, <3>1 DEF CounterLow
  <2>3. ASSUME NEW k \in EdgeOps \ Counters, OwnBit(k), k <= Reach
        PROVE  tag'[Code[k].a.id] \/ low'[k]
    <3>1. Code[k].a.id \in DOMAIN tag
      BY EdgeFacts
    <3>2. CASE k = j
      <4>1. tag'[Code[k].a.id] = power
        BY <1>1, <2>1, <3>1, <3>2
      <4>2. low'[k] = ~power
        BY <1>5, <3>2
      <4>. QED  BY <1>2, <4>1, <4>2
    <3>3. CASE k # j
      <4>1. I.a.id \in Stores(I)
        BY <1>1, <1>7 DEF OneShot, Executing, Stores
      <4>2. Code[k].a.id # I.a.id
        BY <1>1, <2>3, <3>3, <4>1 DEF OwnBit
      <4>3. tag'[Code[k].a.id] = tag[Code[k].a.id]
        BY <2>1, <3>1, <4>2
      <4>4. low'[k] = low[k]
        BY <1>5, <3>3
      <4>. QED  BY <1>4, <2>3, <4>3, <4>4 DEF BitLow
    <3>. QED  BY <3>2, <3>3
  <2>. QED  BY <2>2, <2>3
<1>. QED  BY <1>6, <1>7

\* A counter is reset.
LEMMA EdgesReset ==
  ASSUME Inductive, image # Null, image' = image, EdgesTrack, Reset, power,
         low' = [k \in EdgeOps |-> low[k] \/ (k \in Counters /\ Code[k].a.id = I.a.id)]
  PROVE  /\ \A k \in Counters : slot'[Code[k].slot].edge \/ low'[k]
         /\ \A k \in EdgeOps \ Counters :
              OwnBit(k) /\ k <= Reach => tag'[Code[k].a.id] \/ low'[k]
<1>1. Execute /\ mode \in Active
  BY ExecutingAt DEF Execute
<1>2. I.op = "RES" /\ ValidOperands(P, I)
  BY <1>1, InstructionAt DEF Reset, Executing
<1>3. /\ \A k \in Counters : CounterLow(k)
      /\ \A k \in EdgeOps \ Counters : OwnBit(k) => BitLow(k)
  BY <1>1 DEF EdgesTrack
<1>4. /\ tag' = [tag EXCEPT ![I.a.id] =
                   IF TypeOf(P, I.a.id) = "TIMER" THEN ClearTimer(@) ELSE ResetCounter(@)]
      /\ slot' = [s \in DOMAIN slot |->
                    IF s \in ResetSlots(I.a.id) THEN ZeroSlot ELSE slot[s]]
  BY DEF Reset
<1>5. codeEnd \in Nat /\ Len(Code) \in Nat /\ codeEnd <= Len(Code)
  <2>1. codeEnd \in 0..Len(Code) /\ Len(Code) \in Nat
    BY RungFacts DEF Inductive, CutAtRungBoundary, Boundaries, TypeOK
  <2>. QED  BY <2>1
<1>6. ASSUME NEW k \in Counters  PROVE slot'[Code[k].slot].edge \/ low'[k]
  <2>. DEFINE s == Code[k].slot
  <2>1. k \in EdgeOps /\ k \in Stateful(P) /\ s \in DOMAIN slot
    BY EdgeFacts DEF Counters
  <2>2. CASE Code[k].a.id = I.a.id
    BY <2>1, <2>2
  <2>3. CASE Code[k].a.id # I.a.id
    <3>1. s \notin ResetSlots(I.a.id)
      <4>1. ASSUME NEW m \in 1..codeEnd, Code[m].op \in StatefulOps, Code[m].a.id = I.a.id,
                   Code[m].slot = s
            PROVE  FALSE
        <5>1. m \in Stateful(P)
          BY <1>5, <4>1 DEF Stateful, Code
        <5>. QED  BY <2>1, <2>3, <4>1, <5>1, OneSlotEach
      <4>. QED  BY <4>1 DEF ResetSlots
    <3>2. slot'[s] = slot[s]
      BY <1>4, <2>1, <3>1
    <3>3. low[k] => low'[k]
      BY <2>1
    <3>. QED  BY <1>3, <3>2, <3>3 DEF CounterLow
  <2>. QED  BY <2>2, <2>3
<1>7. ASSUME NEW k \in EdgeOps \ Counters, OwnBit(k), k <= Reach
      PROVE  tag'[Code[k].a.id] \/ low'[k]
  <2>1. Code[k].a.id # I.a.id /\ Code[k].a.id \in DOMAIN tag
    BY <1>2, EdgeFacts DEF ValidOperands, WholeTag
  <2>2. tag'[Code[k].a.id] = tag[Code[k].a.id]
    BY <1>4, <2>1
  <2>3. low[k] => low'[k]
    OBVIOUS
  <2>. QED  BY <1>3, <1>7, <2>2, <2>3 DEF BitLow
<1>. QED  BY <1>6, <1>7

LEMMA LowTyped ==
  ASSUME Inductive, image # Null, image' = image, low \in [EdgeOps -> BOOLEAN], ObserveEdges
  PROVE  low' \in [EdgeOps -> BOOLEAN]
<1>1. power \in BOOLEAN /\ EdgeOps' = EdgeOps
  BY DEF Inductive, TypeOK, ScanOK, EdgeOps, Code, P
<1>2. \/ low' = [k \in EdgeOps |-> FALSE]
      \/ low' = [k \in EdgeOps |-> k \in Counters \/ low[k]]
      \/ low' = [low EXCEPT ![pc + 1] = ~power]
      \/ low' = [k \in EdgeOps |-> low[k] \/ (k \in Counters /\ Code[k].a.id = I.a.id)]
      \/ low' = low
  BY <1>1 DEF ObserveEdges
<1>. QED  BY <1>1, <1>2

\* After a step the edge memories are again in step.
LEMMA EdgesStep ==
  ASSUME Inductive, RungInside, ObservedNext, EdgesTrack, image # Null, image' = image,
         mode' \in Active
  PROVE  /\ \A k \in Counters : slot'[Code[k].slot].edge \/ low'[k]
         /\ \A k \in EdgeOps \ Counters :
              OwnBit(k) /\ k <= Reach' => tag'[Code[k].a.id] \/ low'[k]
<1>1. Next /\ ObserveEdges /\ EdgeOps' = EdgeOps /\ low \in [EdgeOps -> BOOLEAN]
  BY DEF ObservedNext, EdgeOps, Code, P, EdgesTrack
<1>2. /\ Prescanned => Passes(TRUE)
      /\ Postscanned => Passes(FALSE)
  BY <1>1, LifecyclePasses
<1>3. \A prescan \in BOOLEAN : Passes(prescan) => Reach' = codeEnd /\ Reach = codeEnd
  BY DEF Passes, Reach
<1>4. mode \in Active =>
        /\ \A k \in Counters : slot[Code[k].slot].edge \/ low[k]
        /\ \A k \in EdgeOps \ Counters : OwnBit(k) /\ k <= Reach => tag[Code[k].a.id] \/ low[k]
        /\ Reach' = Reach
  BY <1>1, ReachStays DEF EdgesTrack, CounterLow, BitLow
<1>5. CASE Prescanned
  BY <1>2, <1>3, <1>5, EdgesPass
<1>6. CASE Postscanned /\ ~Prescanned
  <2>1. mode \in Active
    BY <1>6 DEF Postscanned, Postscan, Active
  <2>2. low' = [k \in EdgeOps |-> k \in Counters \/ low[k]]
    BY <1>1, <1>6 DEF ObserveEdges
  <2>3. \A k \in EdgeOps \ Counters : OwnBit(k) => tag'[Code[k].a.id] = tag[Code[k].a.id]
    BY <1>2, <1>6, EdgesPass
  <2>4. \A k \in Counters : low'[k]
    BY <2>2 DEF Counters
  <2>5. \A k \in EdgeOps \ Counters : low[k] => low'[k]
    BY <2>2
  <2>. QED  BY <1>4, <2>1, <2>3, <2>4, <2>5
<1>7. CASE (OneShot \/ Count) /\ ~Prescanned /\ ~Postscanned
  <2>1. low' = [low EXCEPT ![pc + 1] = ~power] /\ Execute
    BY <1>1, <1>7 DEF ObserveEdges, Execute
  <2>2. mode \in Active
    BY <2>1, ExecutingAt
  <2>. QED  BY <1>4, <1>7, <2>1, <2>2, EdgesRun
<1>8. CASE (Reset /\ power) /\ ~(OneShot \/ Count) /\ ~Prescanned /\ ~Postscanned
  <2>1. low' = [k \in EdgeOps |-> low[k] \/ (k \in Counters /\ Code[k].a.id = I.a.id)]
    BY <1>1, <1>8 DEF ObserveEdges
  <2>2. mode \in Active
    BY <1>8, ExecutingAt DEF Execute
  <2>. QED  BY <1>4, <1>8, <2>1, <2>2, EdgesReset
<1>9. CASE ~(Reset /\ power) /\ ~OneShot /\ ~Count /\ ~Prescanned /\ ~Postscanned
  <2>1. low' = low
    BY <1>1, <1>9 DEF ObserveEdges
  <2>2. /\ mode \in Active
        /\ \A k \in Counters : slot'[Code[k].slot] = slot[Code[k].slot]
        /\ \A k \in EdgeOps \ Counters : OwnBit(k) => tag'[Code[k].a.id] = tag[Code[k].a.id]
    BY <1>1, <1>9, EdgesKept
  <2>. QED  BY <1>4, <2>1, <2>2
<1>. QED  BY <1>5, <1>6, <1>7, <1>8, <1>9

LEMMA EdgesTracked == ObservedSpec => []EdgesTrack
<1>1. ObservedInit => EdgesTrack
  BY DEF ObservedInit, Init, EdgesTrack
<1>2. Inductive /\ Inductive' /\ RungInside /\ EdgesTrack /\ [ObservedNext]_hvars => EdgesTrack'
  <2>. SUFFICES ASSUME Inductive, RungInside, EdgesTrack, [ObservedNext]_hvars, image' # Null
                PROVE  /\ low' \in [EdgeOps' -> BOOLEAN]
                       /\ mode' \in Active =>
                            /\ \A k \in Counters' : CounterLow(k)'
                            /\ \A k \in (EdgeOps \ Counters)' : OwnBit(k)' => BitLow(k)'
    BY DEF EdgesTrack
  <2>1. CASE UNCHANGED hvars
    <3>1. /\ EdgeOps' = EdgeOps /\ Counters' = Counters
          /\ \A k : /\ OwnBit(k)' <=> OwnBit(k)
                    /\ CounterLow(k)' <=> CounterLow(k)
                    /\ BitLow(k)' <=> BitLow(k)
      BY <2>1 DEF hvars, vars, scanVars, EdgeOps, Counters, OwnBit, CounterLow, BitLow, Reach, Code, P
    <3>. QED  BY <2>1, <3>1 DEF hvars, vars, EdgesTrack
  <2>2. CASE ObservedNext /\ image' # image
    <3>1. low' = [k \in EdgeOps' |-> FALSE]
      BY <2>2 DEF ObservedNext, ObserveEdges
    <3>2. ~(mode' \in Active)
      <4>1. PICK i \in Images : LoadImage(i)
        BY <2>2, ImageChanges DEF ObservedNext
      <4>. QED  BY <4>1 DEF LoadImage, Active
    <3>. QED  BY <3>1, <3>2
  <2>3. CASE ObservedNext /\ image' = image
    <3>1. /\ EdgeOps' = EdgeOps /\ Counters' = Counters
          /\ \A k : /\ OwnBit(k)' <=> OwnBit(k)
                    /\ CounterLow(k)' <=> slot'[Code[k].slot].edge \/ low'[k]
                    /\ BitLow(k)' <=> (k <= Reach' => tag'[Code[k].a.id] \/ low'[k])
      BY <2>3 DEF EdgeOps, Counters, OwnBit, CounterLow, BitLow, Code, P
    <3>2. low' \in [EdgeOps' -> BOOLEAN]
      <4>1. low \in [EdgeOps -> BOOLEAN] /\ ObserveEdges /\ image # Null
        BY <2>3 DEF EdgesTrack, ObservedNext
      <4>. QED  BY <2>3, <3>1, <4>1, LowTyped
    <3>. QED  BY <2>3, <3>1, <3>2, EdgesStep
  <2>. QED  BY <2>1, <2>2, <2>3
<1>3. ObservedSpec => []Inductive /\ []RungInside
  BY ObservedIsRuntime, InductiveHolds, RungsStayInside, PTL
<1>. QED  BY <1>1, <1>2, <1>3, PTL DEF ObservedSpec

\* A counter that sees no rise keeps its accumulator.
LEMMA CountsRises ==
  ASSUME NEW c \in CounterValue, ~Rise
  PROVE  CountUp(c).acc = c.acc /\ CountDown(c).acc = c.acc
<1>1. CountUp(c).acc = c.acc
  <2>. DEFINE wraps == Rise /\ c.acc = DintMax
              acc == IF wraps THEN DintMin ELSE IF Rise THEN c.acc + 1 ELSE c.acc
              ov == c.ov \/ wraps
              dn == acc >= c.pre
              n == [c EXCEPT !.cu = power, !.acc = acc, !.ov = ov, !.dn = dn]
  <2>1. CountUp(c) = n
    BY Zenon DEF CountUp
  <2>2. acc = c.acc
    OBVIOUS
  <2>. HIDE DEF acc, ov, dn
  <2>3. n.acc = acc
    BY DEF CounterValue
  <2>. HIDE DEF n
  <2>. QED  BY <2>1, <2>2, <2>3
<1>2. CountDown(c).acc = c.acc
  <2>. DEFINE wraps == Rise /\ c.acc = DintMin
              acc == IF wraps THEN DintMax ELSE IF Rise THEN c.acc - 1 ELSE c.acc
              un == c.un \/ wraps
              dn == acc >= c.pre
              n == [c EXCEPT !.cd = power, !.acc = acc, !.un = un, !.dn = dn]
  <2>1. CountDown(c) = n
    BY Zenon DEF CountDown
  <2>2. acc = c.acc
    OBVIOUS
  <2>. HIDE DEF acc, un, dn
  <2>3. n.acc = acc
    BY DEF CounterValue
  <2>. HIDE DEF n
  <2>. QED  BY <2>1, <2>2, <2>3
<1>. QED  BY <1>1, <1>2

\* A counter moves, and a one-shot with a storage bit of its own passes power
\* on, only where the instruction has run without power, or been reset, since
\* the prescan: a rung true from the first scan is no rise.
THEOREM RisesAreReal == ObservedSpec => OnlyRisesCount
<1>1. Inductive /\ RungInside /\ EdgesTrack /\ ForcesAreHosts /\ [ObservedNext]_hvars =>
        [/\ (Count /\ tag'[I.a.id].acc # tag[I.a.id].acc) => low[pc + 1]
         /\ (OneShot /\ power' /\ OwnBit(pc + 1)) => low[pc + 1]]_hvars
  <2>. SUFFICES ASSUME Inductive, RungInside, EdgesTrack, ForcesAreHosts
                PROVE  /\ (Count /\ tag'[I.a.id].acc # tag[I.a.id].acc) => low[pc + 1]
                       /\ (OneShot /\ power' /\ OwnBit(pc + 1)) => low[pc + 1]
    OBVIOUS
  <2>. DEFINE k == pc + 1
  <2>1. ASSUME OneShot \/ Count
        PROVE  /\ image # Null /\ mode \in Active /\ I = Code[k] /\ Op = Code[k].op
               /\ k \in EdgeOps /\ (k \in Counters <=> Count) /\ k <= Reach
    <3>1. Execute
      BY <2>1 DEF Execute
    <3>2. /\ mode \in Active /\ k \in 1..Len(Code) /\ I = Code[k] /\ Op = Code[k].op
          /\ phase = "logic" /\ pc < codeEnd /\ pc \in Nat /\ codeEnd \in Nat /\ image # Null
      BY <3>1, ExecutingAt, InstructionAt
    <3>3. k <= Reach
      <4>1. codeEnd <= saved /\ saved \in Int
        BY <3>2 DEF RungInside, Inductive, TypeOK, ScanOK
      <4>. QED  BY <3>2, <4>1 DEF Reach
    <3>4. k \in EdgeOps /\ (k \in Counters <=> Count)
      BY <2>1, <3>2 DEF OneShot, Count, Executing, EdgeOps, Counters, CountOps
    <3>. QED  BY <3>2, <3>3, <3>4
  <2>2. ASSUME Count, tag'[I.a.id].acc # tag[I.a.id].acc  PROVE low[k]
    <3>1. k \in Counters /\ I = Code[k] /\ CounterLow(k)
      BY <2>1, <2>2 DEF EdgesTrack
    <3>2. TypeOf(P, I.a.id) = "COUNTER" /\ I.a.id \in TagIds(P) /\ I.a.id \in DOMAIN tag
      BY <2>1, <2>2, <3>1, EdgeFacts
    <3>3. tag[I.a.id] \in CounterValue
      BY <2>1, <2>2, <3>2, TimerTag
    <3>4. tag'[I.a.id] = IF Op = "CTU" THEN CountUp(tag[I.a.id]) ELSE CountDown(tag[I.a.id])
      BY <2>2, <3>2 DEF Count
    <3>5. Rise
      BY <2>2, <3>3, <3>4, CountsRises
    <3>. QED  BY <3>1, <3>5 DEF Rise, CounterLow
  <2>3. ASSUME OneShot, power', OwnBit(k)  PROVE low[k]
    <3>1. Op = "ONS" /\ power' = (power /\ ~Value(I.a))
      BY <2>3 DEF OneShot, Executing, Continue
    <3>2. k \in EdgeOps \ Counters /\ I = Code[k] /\ k <= Reach /\ Op = Code[k].op
      BY <2>1, <2>3, <3>1 DEF Counters, CountOps
    <3>3. BitLow(k) /\ Code[k].a.id \notin HostTags
      BY <2>1, <2>3, <3>2 DEF EdgesTrack, OwnBit
    <3>4. Value(I.a) = tag[I.a.id]
      BY <2>1, <2>3, <3>2, <3>3, EdgeFacts DEF Value, Effective, ForcesAreHosts
    <3>. QED  BY <2>3, <3>1, <3>2, <3>3, <3>4 DEF BitLow
  <2>. QED  BY <2>2, <2>3
<1>2. ObservedSpec => []Inductive /\ []RungInside /\ []ForcesAreHosts
  BY ObservedIsRuntime, InductiveHolds, RungsStayInside, OnlyHostsForce, PTL
<1>. QED  BY <1>1, <1>2, EdgesTracked, PTL DEF ObservedSpec, OnlyRisesCount

-----------------------------------------------------------------------------
(* What the snapshot shows.                                                *)

IsTable(f) == f = [x \in DOMAIN f |-> f[x]]

Tabular == IsTable(tag) /\ IsTable(force) /\ IsTable(slot) /\ IsTable(rungPower)

LEMMA EmptyTable == IsTable(<<>>)
BY DEF IsTable

LEMMA SameTable ==
  ASSUME NEW f, NEW g, IsTable(f), IsTable(g), DOMAIN f = DOMAIN g,
         \A x \in DOMAIN f : f[x] = g[x]
  PROVE  f = g
BY DEF IsTable

\* The four tables stay functions.
LEMMA TablesTabular == Spec => []Tabular
<1>1. Init => Tabular
  BY EmptyTable DEF Init, Tabular
<1>2. Tabular /\ [Next]_vars => Tabular'
  <2>. SUFFICES ASSUME Tabular, [Next]_vars  PROVE Tabular'
    OBVIOUS
  <2>1. CASE UNCHANGED <<tag, force, slot, rungPower>>
    BY <2>1 DEF Tabular
  <2>2. ASSUME NEW prescan \in BOOLEAN, LifecycleOutputs(prescan), UNCHANGED <<force, rungPower>>
        PROVE  Tabular'
    BY <2>2 DEF LifecycleOutputs, Tabular, IsTable
  <2>3. ASSUME NEW i \in Images, LoadImage(i)  PROVE Tabular'
    <3>1. Install(Program[i])
      BY <2>3 DEF LoadImage
    <3>. QED  BY <3>1, EmptyTable DEF Install, Tabular, IsTable
  <2>4. CASE UnloadProgram \/ Deinit
    BY <2>4, EmptyTable DEF UnloadProgram, Deinit, Forget, Tabular
  <2>5. CASE \E m \in Modes : SetMode(m)
    BY <2>1, <2>2, <2>5 DEF SetMode
  <2>6. CASE Prescan \/ Postscan
    BY <2>2, <2>6 DEF Prescan, Postscan
  <2>7. ASSUME NEW id \in HostTags,
               \/ \E v \in HostChoices(id) : WriteTag(id, v) \/ ForceTag(id, v)
               \/ ClearForce(id)
        PROVE  Tabular'
    <3>1. CASE \E v \in HostChoices(id) : WriteTag(id, v)
      <4>1. IsTable(tag') /\ UNCHANGED <<force, slot, rungPower>>
        BY <3>1 DEF WriteTag, Put, hostUnchanged, IsTable
      <4>. QED  BY <4>1 DEF Tabular
    <3>2. CASE \E v \in HostChoices(id) : ForceTag(id, v)
      BY <3>2 DEF ForceTag, hostUnchanged, Tabular, IsTable
    <3>3. CASE ClearForce(id)
      BY <3>3 DEF ClearForce, hostUnchanged, Tabular, IsTable
    <3>. QED  BY <2>7, <3>1, <3>2, <3>3
  <2>8. CASE ClearAllForces
    BY <2>8, EmptyTable DEF ClearAllForces, hostUnchanged, Tabular
  <2>9. CASE ClearWriteTrace \/ \E gap \in ScanGaps : BeginScan(gap)
    BY <2>1, <2>9 DEF ClearWriteTrace, BeginScan, hostUnchanged
  <2>10. CASE Host
    BY <2>3, <2>4, <2>5, <2>6, <2>7, <2>8, <2>9, <2>10 DEF Host
  <2>11. CASE \E id \in pending : \E v \in Readings(id) : CaptureInput(id, v)
    <3>1. IsTable(tag') /\ UNCHANGED <<force, slot, rungPower>>
      BY <2>11 DEF CaptureInput, IsTable
    <3>. QED  BY <3>1 DEF Tabular
  <2>12. CASE EndRung
    <3>1. IsTable(rungPower') /\ UNCHANGED <<tag, force, slot>>
      BY <2>12 DEF EndRung, IsTable
    <3>. QED  BY <3>1 DEF Tabular
  <2>13. CASE \/ \E id \in pending : InputFault(id) \/ WriteOutput(id) \/ OutputFault(id)
              \/ InputsDone \/ StartRung \/ RungsDone
              \/ \E d \in ScanDurations : FinishScan(d)
    BY <2>1, <2>13 DEF InputFault, WriteOutput, OutputFault, InputsDone, StartRung, RungsDone,
                       FinishScan
  <2>14. CASE Execute
    <3>1. UNCHANGED <<force, rungPower>>
      BY <2>14 DEF Execute, BranchBegin, LaneBegin, LaneEnd, BranchEnd, BranchFault, Contact, Coil,
                   OneShot, OnDelay, Count, Reset, Compare, Data, Continue, Abort, stepUnchanged
    <3>2. IsTable(tag')
      <4>1. tag' = tag \/ \E x, v : tag' = [tag EXCEPT ![x] = v]
        BY <2>14 DEF Execute, BranchBegin, LaneBegin, LaneEnd, BranchEnd, BranchFault, Contact,
             Coil, OneShot, OnDelay, Count, Reset, Compare, Data, Abort, Put
      <4>. QED  BY <4>1 DEF Tabular, IsTable
    <3>3. IsTable(slot')
      <4>1. CASE Reset
        BY <4>1 DEF Reset, Tabular, IsTable
      <4>2. CASE OnDelay
        BY <4>2 DEF OnDelay, SlotStopped, Abort, Tabular, IsTable
      <4>3. CASE Count
        BY <4>3 DEF Count, IsTable
      <4>4. CASE slot' = slot
        BY <4>4 DEF Tabular
      <4>. QED
        BY <2>14, <4>1, <4>2, <4>3, <4>4 DEF Execute, BranchBegin, LaneBegin, LaneEnd, BranchEnd,
             BranchFault, Contact, Coil, OneShot, Compare, Data, Abort
    <3>. QED  BY <3>1, <3>2, <3>3 DEF Tabular
  <2>15. CASE ScanStep
    BY <2>11, <2>12, <2>13, <2>14, <2>15 DEF ScanStep
  <2>16. CASE UNCHANGED vars
    BY <2>1, <2>16 DEF vars
  <2>. QED  BY <2>10, <2>15, <2>16 DEF Next
<1>. QED  BY <1>1, <1>2, PTL DEF Spec

\* Composite values are told apart by their members.
LEMMA SameTimer ==
  ASSUME NEW t \in TimerValue, NEW u \in TimerValue,
         t.pre = u.pre, t.acc = u.acc, t.en = u.en, t.tt = u.tt, t.dn = u.dn
  PROVE  t = u
BY DEF TimerValue

LEMMA SameCounter ==
  ASSUME NEW c \in CounterValue, NEW d \in CounterValue,
         c.pre = d.pre, c.acc = d.acc, c.cu = d.cu, c.cd = d.cd, c.dn = d.dn,
         c.ov = d.ov, c.un = d.un
  PROVE  c = d
BY DEF CounterValue

LEMMA SameSlot ==
  ASSUME NEW s \in SlotState, NEW r \in SlotState,
         s.edge = r.edge, s.valid = r.valid, s.time = r.time
  PROVE  s = r
BY DEF SlotState

\* The members of a composite tag are those of its value.
Shown(type) == IF type = "TIMER" THEN {"pre", "acc", "en", "tt", "dn"}
               ELSE {"pre", "acc", "dn", "cu", "cd", "ov", "un"}

LEMMA MembersShown ==
  ASSUME NEW type \in {"TIMER", "COUNTER"}
  PROVE  /\ \A m \in Shown(type) : \E k \in DOMAIN Members(type) : Members(type)[k] = m
         /\ \A k \in DOMAIN Members(type) :
              Members(type)[k] \in Shown(type) /\ Contains(Members(type), Members(type)[k])
<1>1. CASE type = "TIMER"
  <2>. DEFINE s == <<"pre", "acc", "en", "tt", "dn">>
  <2>1. Members(type) = s /\ Shown(type) = {"pre", "acc", "en", "tt", "dn"}
    BY <1>1 DEF Members, Shown
  <2>2. DOMAIN s = 1..5
    OBVIOUS
  <2>3. \A k \in 1..5 : s[k] \in {"pre", "acc", "en", "tt", "dn"}
    OBVIOUS
  <2>4. s[1] = "pre" /\ s[2] = "acc" /\ s[3] = "en" /\ s[4] = "tt" /\ s[5] = "dn"
    OBVIOUS
  <2>5. \A k \in DOMAIN s : Contains(s, s[k])
    <3>. HIDE DEF s
    <3>. QED  BY DEF Contains
  <2>. HIDE DEF s
  <2>. QED  BY <2>1, <2>2, <2>3, <2>4, <2>5
<1>2. CASE type = "COUNTER"
  <2>. DEFINE s == <<"pre", "acc", "dn", "cu", "cd", "ov", "un">>
  <2>1. Members(type) = s /\ Shown(type) = {"pre", "acc", "dn", "cu", "cd", "ov", "un"}
    BY <1>2 DEF Members, Shown
  <2>2. DOMAIN s = 1..7
    OBVIOUS
  <2>3. \A k \in 1..7 : s[k] \in {"pre", "acc", "dn", "cu", "cd", "ov", "un"}
    OBVIOUS
  <2>4. /\ s[1] = "pre" /\ s[2] = "acc" /\ s[3] = "dn" /\ s[4] = "cu" /\ s[5] = "cd"
        /\ s[6] = "ov" /\ s[7] = "un"
    OBVIOUS
  <2>5. \A k \in DOMAIN s : Contains(s, s[k])
    <3>. HIDE DEF s
    <3>. QED  BY DEF Contains
  <2>. HIDE DEF s
  <2>. QED  BY <2>1, <2>2, <2>3, <2>4, <2>5
<1>. QED  BY <1>1, <1>2

\* The records of a tag show its value, and of a scalar its force.
LEMMA TagShown ==
  ASSUME Inductive, Inductive', image # Null, image' = image,
         NEW id \in TagIds(P), TagRecords(id)' = TagRecords(id)
  PROVE  /\ tag'[id] = tag[id]
         /\ id \in DOMAIN force' <=> id \in DOMAIN force
         /\ id \in DOMAIN force => force'[id] = force[id]
<1>1. /\ P' = P /\ image \in Images /\ TypeOf(P, id) \in {"BOOL", "DINT", "TIMER", "COUNTER"}
      /\ tag[id] \in ValueSet(TypeOf(P, id)) /\ tag'[id] \in ValueSet(TypeOf(P, id))
      /\ TypeOf(P, id) \notin ScalarTypes => id \notin DOMAIN force /\ id \notin DOMAIN force'
  <2>1. P' = P /\ image' # Null
    BY DEF P
  <2>2. TypeOf(P, id) \in {"BOOL", "DINT", "TIMER", "COUNTER"}
    BY DEF Inductive, TypeOK, Bootable, ValidImage, ValidTags, P, TypeOf, ScalarTypes
  <2>3. /\ image \in Images /\ tag[id] \in ValueSet(TypeOf(P, id))
        /\ TypeOf(P, id) \notin ScalarTypes => id \notin DOMAIN force
    BY DEF Inductive, TypeOK, TablesOK
  <2>4. TablesOK'
    BY <2>1 DEF Inductive, TypeOK
  <2>5. /\ tag'[id] \in ValueSet(TypeOf(P, id))
        /\ TypeOf(P, id) \notin ScalarTypes => id \notin DOMAIN force'
    BY <2>1, <2>4 DEF TablesOK
  <2>. QED  BY <2>1, <2>2, <2>3, <2>5
<1>2. CASE TypeOf(P, id) \in ScalarTypes
  <2>. DEFINE r == ValueRecord(id)
              q == ValueRecord(id)'
  <2>1. TagRecords(id) = <<r>> /\ TagRecords(id)' = <<q>>
    BY <1>1, <1>2 DEF TagRecords
  <2>2. r = q
    <3>. HIDE DEF r, q
    <3>. QED  BY <2>1
  <2>3. r.logical = q.logical /\ r.forced = q.forced /\ r.effective = q.effective
    BY <2>2
  <2>4. /\ r.logical = tag[id] /\ r.forced = (id \in DOMAIN force)
        /\ id \in DOMAIN force => r.effective = force[id]
    BY DEF ValueRecord
  <2>5. /\ q.logical = tag'[id] /\ q.forced = (id \in DOMAIN force')
        /\ id \in DOMAIN force' => q.effective = force'[id]
    BY DEF ValueRecord
  <2>. HIDE DEF r, q
  <2>. QED  BY <2>3, <2>4, <2>5
<1>3. CASE TypeOf(P, id) \in {"TIMER", "COUNTER"}
  <2>. DEFINE type == TypeOf(P, id)
              ms == Members(type)
  <2>1. /\ type \notin ScalarTypes
        /\ TagRecords(id) = [k \in DOMAIN ms |-> MemberRecord(id, ms[k])]
        /\ TagRecords(id)' = [k \in DOMAIN ms |-> MemberRecord(id, ms[k])']
    BY <1>1, <1>3 DEF TagRecords, ScalarTypes
  <2>2. ASSUME NEW k \in DOMAIN ms  PROVE tag'[id][ms[k]] = tag[id][ms[k]]
    <3>1. Contains(ms, ms[k])
      BY <1>3, <2>2, MembersShown
    <3>2. ReadMember(id, ms[k]) = Answered(tag[id][ms[k]])
      BY <1>1, <2>1, <3>1 DEF ReadMember
    <3>3. ReadMember(id, ms[k])' = Answered(tag'[id][ms[k]])
      BY <1>1, <2>1, <3>1 DEF ReadMember
    <3>4. MemberRecord(id, ms[k]).value = tag[id][ms[k]]
      BY <3>2 DEF MemberRecord, Answered
    <3>5. (MemberRecord(id, ms[k])').value = tag'[id][ms[k]]
      BY <3>3 DEF MemberRecord, Answered
    <3>6. MemberRecord(id, ms[k])' = MemberRecord(id, ms[k])
      BY <2>1, <2>2
    <3>. QED  BY <3>4, <3>5, <3>6
  <2>3. \A m \in Shown(type) : tag'[id][m] = tag[id][m]
    BY <1>3, <2>2, MembersShown
  <2>4. CASE type = "TIMER"
    <3>1. tag[id] \in TimerValue /\ tag'[id] \in TimerValue
      BY <1>1, <2>4 DEF ValueSet
    <3>2. /\ tag'[id].pre = tag[id].pre /\ tag'[id].acc = tag[id].acc /\ tag'[id].en = tag[id].en
          /\ tag'[id].tt = tag[id].tt /\ tag'[id].dn = tag[id].dn
      BY <2>3, <2>4 DEF Shown
    <3>. QED  BY <1>1, <2>1, <3>1, <3>2, SameTimer
  <2>5. CASE type = "COUNTER"
    <3>1. tag[id] \in CounterValue /\ tag'[id] \in CounterValue
      BY <1>1, <2>5 DEF ValueSet
    <3>2. /\ tag'[id].pre = tag[id].pre /\ tag'[id].acc = tag[id].acc /\ tag'[id].cu = tag[id].cu
          /\ tag'[id].cd = tag[id].cd /\ tag'[id].dn = tag[id].dn /\ tag'[id].ov = tag[id].ov
          /\ tag'[id].un = tag[id].un
      BY <2>3, <2>5 DEF Shown
    <3>. QED  BY <1>1, <2>1, <3>1, <3>2, SameCounter
  <2>. QED  BY <1>3, <2>4, <2>5
<1>. QED  BY <1>1, <1>2, <1>3 DEF ScalarTypes

\* The records of a slot show it, and the mode, the diagnostics and the fault
\* with it.
LEMMA StatesShown ==
  ASSUME Inductive, Inductive', image # Null, image' = image, StateRecords' = StateRecords
  PROVE  /\ \A s \in SlotIds(P) : slot'[s] = slot[s]
         /\ mode' = mode /\ diag' = diag /\ fault' = fault
<1>1. P' = P /\ image' # Null
  BY DEF P
<1>2. \A s \in SlotIds(P) : slot[s] \in SlotState /\ slot'[s] \in SlotState
  <2>1. TablesOK /\ TablesOK'
    BY <1>1 DEF Inductive, TypeOK
  <2>. QED  BY <1>1, <2>1 DEF TablesOK
<1>. DEFINE Same == /\ \A s \in SlotIds(P) : slot'[s] = slot[s]
                    /\ mode' = mode /\ diag' = diag /\ fault' = fault
<1>3. CASE SlotIds(P) = {}
  <2>. DEFINE r == StateRecord(NoSlot, ZeroSlot)
              q == StateRecord(NoSlot, ZeroSlot)'
  <2>1. StateRecords[NoSlot] = r /\ StateRecords'[NoSlot] = q
    BY <1>1, <1>3 DEF StateRecords
  <2>2. r = q
    BY <2>1
  <2>3. r.mode = mode /\ r.diag = diag /\ r.fault = fault
        /\ q.mode = mode' /\ q.diag = diag' /\ q.fault = fault'
    BY DEF StateRecord, GetMode
  <2>. HIDE DEF r, q
  <2>. QED  BY <1>3, <2>2, <2>3
<1>4. CASE SlotIds(P) # {}
  <2>1. ASSUME NEW s \in SlotIds(P)
        PROVE  slot'[s] = slot[s] /\ mode' = mode /\ diag' = diag /\ fault' = fault
    <3>. DEFINE r == StateRecord(s, slot[s])
                q == StateRecord(s, slot[s])'
    <3>1. StateRecords[s] = r /\ StateRecords'[s] = q
      BY <1>1, <1>4 DEF StateRecords
    <3>2. r = q
      BY <3>1
    <3>3. /\ r.mode = mode /\ r.diag = diag /\ r.fault = fault
          /\ r.edge = slot[s].edge /\ r.valid = slot[s].valid /\ r.time = slot[s].time
          /\ q.mode = mode' /\ q.diag = diag' /\ q.fault = fault'
          /\ q.edge = slot'[s].edge /\ q.valid = slot'[s].valid /\ q.time = slot'[s].time
      BY DEF StateRecord, GetMode
    <3>. HIDE DEF r, q
    <3>4. slot'[s] = slot[s]
      BY <1>2, <3>2, <3>3, SameSlot
    <3>. QED  BY <3>2, <3>3, <3>4
  <2>. QED  BY <1>4, <2>1
<1>. QED  BY <1>3, <1>4

LEMMA PowersShown ==
  ASSUME Inductive, Inductive', image # Null, image' = image, PowerRecords' = PowerRecords
  PROVE  \A r \in 1..Len(P.rungs) : rungPower'[r] = rungPower[r]
<1>1. P' = P
  BY DEF P
<1>2. ASSUME NEW r \in 1..Len(P.rungs)  PROVE rungPower'[r] = rungPower[r]
  <2>1. PowerRecords[r].power = rungPower[r] /\ PowerRecords'[r].power = rungPower'[r]
    BY <1>1 DEF PowerRecords
  <2>. QED  BY <2>1
<1>. QED  BY <1>2

\* No step hides a change of what later scans depend on, or of the answer to
\* another query, from the snapshot; a scalar is shown as it is read; the write
\* trace is refused to nobody with room for all that it may hold.
THEOREM SnapshotsShowState == Spec => SnapshotShowsState
<1>1. Inductive /\ Inductive' /\ Tabular /\ Tabular' /\ [Next]_vars =>
        [image # Null =>
           /\ \A id \in TagIds(P) :
                TypeOf(P, id) \in ScalarTypes => TagRecords(id)[1].effective = ReadTag(id).value
           /\ (image' = image /\ Snapshot' = Snapshot) =>
                UNCHANGED <<tag, force, slot, rungPower, Queries>>
           /\ GetWriteTrace(TraceCapacity).status = "OK"]_vars
  <2>. SUFFICES ASSUME Inductive, Inductive', Tabular, Tabular', image # Null
                PROVE  /\ \A id \in TagIds(P) :
                            TypeOf(P, id) \in ScalarTypes =>
                              TagRecords(id)[1].effective = ReadTag(id).value
                       /\ (image' = image /\ Snapshot' = Snapshot) =>
                            UNCHANGED <<tag, force, slot, rungPower, Queries>>
                       /\ GetWriteTrace(TraceCapacity).status = "OK"
    OBVIOUS
  <2>1. ASSUME NEW id \in TagIds(P), TypeOf(P, id) \in ScalarTypes
        PROVE  TagRecords(id)[1].effective = ReadTag(id).value
    <3>1. TagRecords(id)[1].effective = Effective(id)
      BY <2>1 DEF TagRecords, ValueRecord, Effective
    <3>2. ReadTag(id) = Answered(Effective(id))
      BY <2>1 DEF ReadTag
    <3>. QED  BY <3>1, <3>2 DEF Answered
  <2>2. ASSUME image' = image, Snapshot' = Snapshot
        PROVE  UNCHANGED <<tag, force, slot, rungPower, Queries>>
    <3>1. P' = P /\ image' # Null
      BY <2>2 DEF P
    <3>. DEFINE tags == [id \in TagIds(P) |-> TagRecords(id)]
                tagsAfter == [id \in TagIds(P) |-> TagRecords(id)']
                r == [tags |-> tags, states |-> StateRecords, powers |-> PowerRecords]
                q == [tags |-> tagsAfter, states |-> StateRecords', powers |-> PowerRecords']
    <3>2. Snapshot = [status |-> "OK", value |-> r] /\ Snapshot' = [status |-> "OK", value |-> q]
      BY <3>1, Zenon DEF Snapshot, Answered
    <3>3. tags = tagsAfter /\ StateRecords' = StateRecords /\ PowerRecords' = PowerRecords
      <4>. HIDE DEF tags, tagsAfter
      <4>1. r = q
        BY <2>2, <3>2
      <4>2. r.tags = q.tags /\ r.states = q.states /\ r.powers = q.powers
        BY <4>1
      <4>. QED  BY <4>2
    <3>4. \A id \in TagIds(P) : TagRecords(id)' = TagRecords(id)
      BY <3>3
    <3>5. \A id \in TagIds(P) : /\ tag'[id] = tag[id]
                                /\ id \in DOMAIN force' <=> id \in DOMAIN force
                                /\ id \in DOMAIN force => force'[id] = force[id]
      BY <2>2, <3>4, TagShown
    <3>6. /\ \A s \in SlotIds(P) : slot'[s] = slot[s]
          /\ mode' = mode /\ diag' = diag /\ fault' = fault
      BY <2>2, <3>3, StatesShown
    <3>7. \A x \in 1..Len(P.rungs) : rungPower'[x] = rungPower[x]
      BY <2>2, <3>3, PowersShown
    <3>8. TablesOK /\ TablesOK'
      BY <3>1 DEF Inductive, TypeOK
    <3>9. tag' = tag /\ slot' = slot /\ rungPower' = rungPower
      BY <3>1, <3>5, <3>6, <3>7, <3>8, SameTable DEF TablesOK, Tabular
    <3>10. force' = force
      BY <3>1, <3>5, <3>8, SameTable DEF TablesOK, Tabular
    <3>11. GetMode' = GetMode /\ GetDiagnostics' = GetDiagnostics /\ LastFault' = LastFault
      BY <2>2, <3>6 DEF GetMode, GetDiagnostics, LastFault, Answered, Refused
    <3>12. SnapshotMembers' = SnapshotMembers
      <4>. DEFINE ids == {d \in TagIds(P) : TypeOf(P, d) \notin ScalarTypes}
      <4>1. /\ SnapshotMembers = Answered([id \in ids |-> TagRecords(id)])
            /\ SnapshotMembers' = Answered([id \in ids |-> TagRecords(id)'])
        BY <3>1, Zenon DEF SnapshotMembers, Answered
      <4>2. [id \in ids |-> TagRecords(id)] = [id \in ids |-> TagRecords(id)']
        BY <3>4
      <4>. QED  BY <4>1, <4>2
    <3>. QED  BY <3>9, <3>10, <3>11, <3>12 DEF Queries
  <2>3. GetWriteTrace(TraceCapacity).status = "OK"
    <3>1. ~(TraceCapacity < traceCount)
      BY RuntimeAssumptions DEF Inductive, TypeOK, ScanOK, TablesOK, RuntimeAssumption
    <3>. QED  BY <3>1 DEF GetWriteTrace
  <2>. QED  BY <2>1, <2>2, <2>3
<1>. QED  BY <1>1, InductiveHolds, TablesTabular, PTL DEF Spec, SnapshotShowsState
==============================================================================
