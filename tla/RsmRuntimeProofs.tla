-------------------------- MODULE RsmRuntimeProofs --------------------------
(***************************************************************************)
(* Theorems about RsmRuntime for every image, every host and every device. *)
(***************************************************************************)
EXTENDS RsmRuntime, SequenceTheorems, FiniteSetTheorems, TLAPS

-----------------------------------------------------------------------------
(* The shape of a step, as far as mode, image, phase and output go.  Every *)
(* instruction either goes on, and leaves them alone, or fails.            *)

Fails == mode' = "FAULTED" /\ phase' = "idle" /\ UNCHANGED <<image, output>>

Keeps == UNCHANGED <<mode, image, phase, output>>

LEMMA ExecuteShape ==
  ASSUME Execute
  PROVE  phase = "logic" /\ (Keeps \/ Fails)
<1>1. CASE BranchBegin \/ LaneBegin \/ LaneEnd \/ BranchEnd
  BY <1>1 DEF BranchBegin, LaneBegin, LaneEnd, BranchEnd, Executing,
              AtInstruction, stepUnchanged, Keeps
<1>2. CASE BranchFault
  BY <1>2 DEF BranchFault, AtInstruction, Fail, FailWith, ScanOver, Fails
<1>3. CASE Contact \/ Coil \/ OneShot \/ Count \/ Reset \/ Compare
  BY <1>3 DEF Contact, Coil, OneShot, Count, Reset, Compare, Executing,
              AtInstruction, Continue, stepUnchanged, Keeps
<1>4. CASE OnDelay
  BY <1>4 DEF OnDelay, Executing, AtInstruction, Continue, stepUnchanged, Abort,
              Fail, FailWith, ScanOver, Keeps, Fails
<1>5. CASE Data
  BY <1>5 DEF Data, Executing, AtInstruction, Continue, stepUnchanged, Abort,
              Fail, FailWith, ScanOver, Keeps, Fails
<1>. QED  BY <1>1, <1>2, <1>3, <1>4, <1>5 DEF Execute

LEMMA ScanStepShape ==
  ASSUME ScanStep
  PROVE  /\ phase # "idle"
         /\ \/ UNCHANGED <<mode, image>> /\ phase' # "idle"
            \/ UNCHANGED <<mode, image, output>> /\ phase' = "idle"
            \/ Fails
         /\ output' # output => phase = "output"
<1>1. CASE \E id \in pending : \E v \in Readings(id) : CaptureInput(id, v)
  BY <1>1 DEF CaptureInput
<1>2. CASE \E id \in pending : InputFault(id) \/ OutputFault(id)
  BY <1>2 DEF InputFault, OutputFault, Fail, FailWith, ScanOver, Fails
<1>3. CASE \E id \in pending : WriteOutput(id)
  BY <1>3 DEF WriteOutput
<1>4. CASE InputsDone \/ StartRung \/ EndRung \/ RungsDone
  BY <1>4 DEF InputsDone, StartRung, EndRung, RungsDone
<1>5. CASE Execute
  BY <1>5, ExecuteShape DEF Keeps, Fails
<1>6. CASE \E d \in ScanDurations : FinishScan(d)
  BY <1>6 DEF FinishScan, FailWith, ScanOver, Fails
<1>. QED  BY <1>1, <1>2, <1>3, <1>4, <1>5, <1>6 DEF ScanStep

\* Only the write of an endpoint still due changes an output.
LEMMA OutputNeedsPending ==
  ASSUME ScanStep, output' # output
  PROVE  pending # {}
<1>1. CASE Execute
  BY <1>1, ExecuteShape DEF Keeps, Fails
<1>2. CASE InputsDone \/ StartRung \/ EndRung \/ RungsDone
  BY <1>2 DEF InputsDone, StartRung, EndRung, RungsDone
<1>3. CASE \E d \in ScanDurations : FinishScan(d)
  BY <1>3 DEF FinishScan
<1>. QED  BY <1>1, <1>2, <1>3 DEF ScanStep

\* A host's call finds no scan in progress, and only a scan begins one.
LEMMA HostShape ==
  ASSUME Host
  PROVE  /\ phase = "idle" /\ output' = output
         /\ \/ /\ mode = "PROGRAM" /\ phase' = phase /\ mode' = mode
               /\ image' = Null \/ image' \in Images
            \/ phase' = phase /\ mode' = "PROGRAM" /\ image' = Null
            \/ \E m \in Modes : /\ ModeAccepted(m) /\ mode' = m
                                /\ UNCHANGED <<phase, image>>
            \/ UNCHANGED <<phase, mode, image>>
            \/ /\ image # Null /\ mode \in Active /\ phase' = "input"
               /\ UNCHANGED <<mode, image>>
<1>1. CASE \E i \in Images : LoadImage(i)
  BY <1>1 DEF LoadImage
<1>2. CASE UnloadProgram \/ Deinit
  BY <1>2 DEF UnloadProgram, Deinit, Forget
<1>3. CASE \E m \in Modes : SetMode(m)
  <2>. PICK m \in Modes : SetMode(m)  BY <1>3
  <2>. ModeAccepted(m) /\ mode' = m /\ UNCHANGED <<phase, image, output>> /\ phase = "idle"
    BY DEF SetMode
  <2>. QED  OBVIOUS
<1>4. CASE Prescan \/ Postscan
  BY <1>4 DEF Prescan, Postscan
<1>5. CASE \E id \in HostTags : \/ \E v \in HostChoices(id) : WriteTag(id, v) \/ ForceTag(id, v)
                                \/ ClearForce(id)
  BY <1>5 DEF WriteTag, ForceTag, ClearForce, hostUnchanged
<1>6. CASE ClearAllForces \/ ClearWriteTrace
  BY <1>6 DEF ClearAllForces, ClearWriteTrace, hostUnchanged
<1>7. CASE \E gap \in ScanGaps : BeginScan(gap)
  BY <1>7 DEF BeginScan
<1>. QED  BY <1>1, <1>2, <1>3, <1>4, <1>5, <1>6, <1>7 DEF Host

-----------------------------------------------------------------------------
(* Scans and modes *)

LEMMA ScanOnlyWhileActiveStep ==
  ScanOnlyWhileActive /\ [Next]_vars => ScanOnlyWhileActive'
<1>. SUFFICES ASSUME ScanOnlyWhileActive, [Next]_vars  PROVE ScanOnlyWhileActive'
  OBVIOUS
<1>1. CASE Host
  BY <1>1, HostShape DEF ScanOnlyWhileActive, ModeAccepted, Active, Modes
<1>2. CASE ScanStep
  BY <1>2, ScanStepShape DEF ScanOnlyWhileActive, Fails, Active
<1>3. CASE UNCHANGED vars
  BY <1>3 DEF ScanOnlyWhileActive, vars
<1>. QED  BY <1>1, <1>2, <1>3 DEF Next

\* A scan in progress always has a program and runs in RUN or TEST; no step
\* of a scan follows the fault that ends it.
THEOREM ScansRunOnlyWhileActive == Spec => []ScanOnlyWhileActive
<1>1. Init => ScanOnlyWhileActive
  BY DEF Init, ScanOnlyWhileActive, Active
<1>. QED  BY <1>1, ScanOnlyWhileActiveStep, PTL DEF Spec

\* FAULTED latches: only PROGRAM follows it, without a scan and without a
\* change at the outputs.
THEOREM FaultsLatch == Spec => FaultLatched
<1>1. ScanOnlyWhileActive /\ [Next]_vars
        => [mode = "FAULTED" => /\ mode' \in {"FAULTED", "PROGRAM"}
                                /\ phase' = "idle"
                                /\ output' = output]_vars
  <2>. SUFFICES ASSUME ScanOnlyWhileActive, Next, mode = "FAULTED"
                PROVE  /\ mode' \in {"FAULTED", "PROGRAM"}
                       /\ phase' = "idle" /\ output' = output
    OBVIOUS
  <2>1. CASE Host
    BY <2>1, HostShape DEF ModeAccepted, Active
  <2>2. CASE ScanStep
    BY <2>2, ScanStepShape DEF ScanOnlyWhileActive, Active
  <2>. QED  BY <2>1, <2>2 DEF Next
<1>. QED
  BY <1>1, ScansRunOnlyWhileActive, PTL DEF Spec, FaultLatched

-----------------------------------------------------------------------------
(* Refinement *)

\* Every step of the runtime is a step of the lifecycle it promises, or none
\* that a host can see; the liveness of ImplementsLifecycle is left to TLC.
THEOREM RuntimeRefinesLifecycle == Spec => Lifecycle!Spec
<1>1. Init => Lifecycle!Init
  BY DEF Init, Lifecycle!Init
<1>2. ScanOnlyWhileActive /\ [Next]_vars => [Lifecycle!Next]_(Lifecycle!vars)
  <2>. SUFFICES ASSUME ScanOnlyWhileActive, [Next]_vars
                PROVE  [Lifecycle!Next]_(Lifecycle!vars)
    OBVIOUS
  <2>. USE DEF Lifecycle!vars, Lifecycle!Next
  <2>1. CASE Host
    BY <2>1, HostShape, RuntimeAssumptions
    DEF ModeAccepted, Active, Modes, RuntimeAssumption, Lifecycle!Load, Lifecycle!Unload,
        Lifecycle!Discard, Lifecycle!Select, Lifecycle!Call
  <2>2. CASE ScanStep
    BY <2>2, ScanStepShape DEF Fails, Lifecycle!Return
  <2>3. CASE UNCHANGED vars
    BY <2>3 DEF vars
  <2>. QED  BY <2>1, <2>2, <2>3 DEF Next
<1>. QED
  BY <1>1, <1>2, ScansRunOnlyWhileActive, PTL DEF Spec, Lifecycle!Spec
-----------------------------------------------------------------------------
(* What validation and the arena give of a loaded image *)

\* The end of a rung lies in the stream, and the last one at its end.
LEMMA RungEnds ==
  ASSUME NEW i \in Images, Bootable(i), NEW p, p = Program[i]
  PROVE  /\ Len(p.code) \in Nat /\ Len(p.rungs) \in Nat
         /\ \A r \in 1..Len(p.rungs) : RungEnd(p, r) \in 0..Len(p.code)
         /\ Len(p.code) = IF Len(p.rungs) = 0 THEN 0 ELSE RungEnd(p, Len(p.rungs))
<1>1. ValidRungs(p)
  BY DEF Bootable, ValidImage
<1>2. /\ Len(p.code) \in Nat /\ Len(p.rungs) \in Nat
      /\ \A r \in 1..Len(p.rungs) : p.rungs[r].start \in Nat
  BY Assumptions DEF ImageAssumption
<1>3. ASSUME NEW r \in 1..Len(p.rungs)
      PROVE  RungEnd(p, r) \in 0..Len(p.code)
  <2>1. p.rungs[r].count \in Nat /\ p.rungs[r].start + p.rungs[r].count <= Len(p.code)
    BY <1>1, ZenonT(30) DEF ValidRungs
  <2>. QED  BY <1>2, <2>1 DEF RungEnd
<1>4. Len(p.code) = IF Len(p.rungs) = 0 THEN 0 ELSE RungEnd(p, Len(p.rungs))
  BY <1>1, ZenonT(30) DEF ValidRungs, RungEnd
<1>. QED  BY <1>2, <1>3, <1>4

LEMMA RungFacts ==
  ASSUME TypeOK, image # Null
  PROVE  /\ image \in Images
         /\ Len(Code) \in Nat /\ Len(P.rungs) \in Nat
         /\ \A r \in 1..Len(P.rungs) : RungEnd(P, r) \in 0..Len(Code)
         /\ Len(Code) = IF Len(P.rungs) = 0 THEN 0 ELSE RungEnd(P, Len(P.rungs))
<1>1. image \in Images /\ Bootable(image)
  BY DEF TypeOK
<1>. QED  BY <1>1, RungEnds DEF P, Code

\* Every instruction's operands have the types its opcode asks for.
LEMMA OperandFacts ==
  ASSUME TypeOK, image # Null, pc < codeEnd, CutAtRungBoundary
  PROVE  /\ codeEnd \in 0..Len(Code) /\ pc + 1 \in 1..Len(Code)
         /\ Op \in Opcodes /\ ValidOperands(P, I)
<1>1. ValidCode(P)
  BY DEF TypeOK, Bootable, ValidImage, P
<1>3. codeEnd \in 0..Len(Code)
  BY RungFacts DEF CutAtRungBoundary, Boundaries
<1>4. pc + 1 \in 1..Len(Code)
  BY <1>3, RungFacts DEF TypeOK, ScanOK
<1>. QED  BY <1>1, <1>3, <1>4 DEF ValidCode, Code, Op, I

\* The value of a readable operand has the operand's type.
LEMMA ValueTyped ==
  ASSUME TypeOK, image # Null, NEW o, Readable(P, o, ScalarTypes)
  PROVE  Value(o) \in ValueSet(OperandType(P, o))
<1>. USE DEF ScalarTypes
<1>1. CASE o.kind = "literal"
  BY <1>1 DEF Readable, Value, OperandType
<1>2. CASE o.kind = "tag" /\ o.id \in TagIds(P)
  <2>1. tag[o.id] \in ValueSet(TypeOf(P, o.id))
    BY <1>2 DEF TypeOK, TablesOK
  <2>2. CASE o.member = "none"
    BY <1>2, <2>1, <2>2 DEF TypeOK, TablesOK, Value, OperandType, Effective
  <2>3. CASE o.member # "none"
    <3>1. MemberType(TypeOf(P, o.id), o.member) \in ScalarTypes
      BY <1>2, <2>3 DEF Readable, OperandType
    <3>2. Value(o) = tag[o.id][o.member]
      BY <1>2, <2>3 DEF Value
    <3>3. OperandType(P, o) = MemberType(TypeOf(P, o.id), o.member)
      BY <1>2, <2>3 DEF OperandType
    <3>4. CASE TypeOf(P, o.id) = "TIMER"
      BY <2>1, <3>1, <3>2, <3>3, <3>4 DEF MemberType, ValueSet, TimerValue
    <3>5. CASE TypeOf(P, o.id) = "COUNTER"
      BY <2>1, <3>1, <3>2, <3>3, <3>5 DEF MemberType, ValueSet, CounterValue
    <3>6. CASE TypeOf(P, o.id) \notin {"TIMER", "COUNTER"}
      BY <3>1, <3>6 DEF MemberType
    <3>. QED  BY <3>4, <3>5, <3>6
  <2>. QED  BY <2>2, <2>3
<1>. QED  BY <1>1, <1>2 DEF Readable

LEMMA ZeroFits == 0 \in Dint
BY Assumptions DEF ImageAssumption, Dint

LEMMA TraceBounded ==
  ASSUME NEW n \in Nat, traceCount \in 0..TraceCapacity
  PROVE  TraceAfter(n) \in 0..TraceCapacity
BY RuntimeAssumptions DEF RuntimeAssumption, TraceAfter

\* A write of one tag with a value of its type keeps the tables in shape.
LEMMA TagWritten ==
  ASSUME TablesOK, UNCHANGED <<image, force, rungPower, clock>>,
         NEW id \in TagIds(P), NEW v \in ValueSet(TypeOf(P, id)),
         tag' = [tag EXCEPT ![id] = v],
         DOMAIN slot' = DOMAIN slot,
         \A s \in DOMAIN slot : slot'[s] \in SlotState /\ slot'[s].time <= clock
  PROVE  TablesOK'
BY DEF TablesOK, P
-----------------------------------------------------------------------------
(* Types: the tables of the image.  Each lemma takes the actions that may  *)
(* disturb them, one kind at a time.                                       *)

Tables == image # Null => Bootable(image) /\ TablesOK

\* The steps that leave the tables and the clock's past alone.
LEMMA TablesKept ==
  ASSUME TypeOK, UNCHANGED <<image, tag, force, slot>>,
         clock' \in Nat, clock <= clock',
         image # Null => /\ DOMAIN rungPower' = DOMAIN rungPower
                         /\ \A r \in DOMAIN rungPower : rungPower'[r] \in BOOLEAN
  PROVE  Tables'
<1>. SUFFICES ASSUME image # Null  PROVE Bootable(image) /\ TablesOK'
  BY DEF Tables
<1>1. \A s \in SlotIds(P) : slot[s] \in SlotState /\ slot[s].time <= clock'
  BY DEF TypeOK, TablesOK, SlotState, ScanOK
<1>. QED  BY <1>1 DEF TypeOK, TablesOK, P

\* A pass of lifecycle_outputs.
LEMMA TablesLifecycle ==
  ASSUME Inductive, image # Null, NEW prescan \in BOOLEAN,
         LifecycleOutputs(prescan), UNCHANGED <<image, force, rungPower, clock>>
  PROVE  Tables'
<1>. USE DEF Inductive, TypeOK
<1>1. codeEnd \in 0..Len(Code) /\ Len(Code) \in Nat
  BY RungFacts DEF CutAtRungBoundary, Boundaries
<1>2. \A s \in SlotIds(P) : slot'[s] \in SlotState /\ slot'[s].time <= clock
  BY DEF LifecycleOutputs, EdgeAfter, TablesOK, SlotState
<1>3. ASSUME NEW id \in TagIds(P)
      PROVE  LifecycleValue(id, prescan) \in ValueSet(TypeOf(P, id))
  <2>1. tag[id] \in ValueSet(TypeOf(P, id))
    BY DEF TablesOK
  <2>2. CASE TypeOf(P, id) = "TIMER"
    <3>1. tag[id] \in TimerValue /\ LifecycleValue(id, prescan) = ClearTimer(tag[id])
      BY <2>1, <2>2 DEF LifecycleValue, ValueSet
    <3>2. ClearTimer(tag[id]) \in TimerValue
      BY <3>1, ZeroFits DEF ClearTimer, TimerValue
    <3>. QED  BY <2>2, <3>1, <3>2 DEF ValueSet
  <2>3. CASE TypeOf(P, id) = "COUNTER"
    <3>1. tag[id] \in CounterValue /\ LifecycleValue(id, prescan) = StopCounter(tag[id])
      BY <2>1, <2>3 DEF LifecycleValue, ValueSet
    <3>2. StopCounter(tag[id]) \in CounterValue
      BY <3>1 DEF StopCounter, CounterValue
    <3>. QED  BY <2>3, <3>1, <3>2 DEF ValueSet
  <2>4. CASE TypeOf(P, id) \notin {"TIMER", "COUNTER"}
    <3>. DEFINE ks == {k \in LifecycleWrites(prescan) : Code[k].a.id = id}
    <3>1. CASE ks = {}
      BY <2>1, <2>4, <3>1 DEF LifecycleValue
    <3>2. CASE ks # {}
      <4>. PICK k \in ks : TRUE  BY <3>2
      <4>1. k \in 1..Len(Code) /\ Code[k].op \in {"OTE", "ONS"} /\ Code[k].a.id = id
        BY <1>1 DEF LifecycleWrites, LifecycleOps
      <4>2. ValidOperands(P, Code[k])
        BY <4>1 DEF Bootable, ValidImage, ValidCode, P, Code
      <4>3. TypeOf(P, id) = "BOOL"
        BY <4>1, <4>2 DEF ValidOperands, CoilOps, Writable, WholeTag
      <4>4. LifecycleValue(id, prescan) \in BOOLEAN
        BY <3>2, <4>3, ZenonT(30) DEF LifecycleValue
      <4>. QED  BY <4>3, <4>4 DEF ValueSet
    <3>. QED  BY <3>1, <3>2
  <2>. QED  BY <2>2, <2>3, <2>4
<1>4. DOMAIN tag' = TagIds(P) /\ \A id \in TagIds(P) : tag'[id] \in ValueSet(TypeOf(P, id))
  BY <1>3 DEF LifecycleOutputs, TablesOK
<1>. QED  BY <1>2, <1>4 DEF Tables, TablesOK, LifecycleOutputs, P

\* The arena rebuilt from an image that fits it.
LEMMA TablesInstalled ==
  ASSUME Inductive, NEW i \in Images, LoadImage(i)
  PROVE  Tables'
<1>1. Bootable(image') /\ image' = i /\ Install(Program[i]) /\ P' = Program[i]
  BY DEF LoadImage, P
<1>2. \A id \in TagIds(Program[i]) :
        Program[i].tags[id].init \in ValueSet(TypeOf(Program[i], id))
  BY Assumptions DEF ImageAssumption, TypeOf
<1>3. ZeroSlot \in SlotState /\ 0 <= clock'
  BY DEF ZeroSlot, SlotState, LoadImage, Inductive, TypeOK, ScanOK
<1>4. DOMAIN force' = {} /\ rungPower' = [r \in 1..Len(Program[i].rungs) |-> FALSE]
  BY <1>1 DEF Install
<1>5. /\ tag' = [id \in TagIds(Program[i]) |-> Program[i].tags[id].init]
      /\ slot' = [s \in SlotIds(Program[i]) |-> ZeroSlot]
  BY <1>1 DEF Install
<1>6. ZeroSlot.time = 0
  BY DEF ZeroSlot
<1>7. TablesOK'
  BY <1>1, <1>2, <1>3, <1>4, <1>5, <1>6 DEF TablesOK
<1>. QED  BY <1>1, <1>7 DEF Tables

\* A host writes and forces values of the tag's type only.
LEMMA HostChoicesTyped ==
  ASSUME NEW id, NEW v \in HostChoices(id)
  PROVE  /\ id \in TagIds(P) /\ TypeOf(P, id) \in ScalarTypes
         /\ v \in ValueSet(TypeOf(P, id))
BY RuntimeAssumptions DEF HostChoices, RuntimeAssumption, ScalarTypes

LEMMA TablesHost ==
  ASSUME Inductive, Host
  PROVE  Tables'
<1>. USE DEF Inductive
<1>0. Tables /\ clock \in Nat /\ (image # Null => DOMAIN slot = SlotIds(P))
  BY DEF TypeOK, Tables, ScanOK, TablesOK
<1>1. CASE \E i \in Images : LoadImage(i)
  BY <1>1, TablesInstalled
<1>2. CASE UnloadProgram \/ Deinit
  BY <1>2 DEF UnloadProgram, Deinit, Forget, Tables
<1>3. ASSUME NEW m \in Modes, SetMode(m)
      PROVE  Tables'
  <2>1. UNCHANGED <<image, force, rungPower, clock>>
    BY <1>3 DEF SetMode
  <2>2. \/ image # Null /\ LifecycleOutputs(TRUE)
        \/ image # Null /\ LifecycleOutputs(FALSE)
        \/ UNCHANGED <<tag, slot>>
    BY <1>3 DEF SetMode, ModeAccepted, ScanOnlyWhileActive
  <2>3. CASE image # Null /\ (LifecycleOutputs(TRUE) \/ LifecycleOutputs(FALSE))
    BY <2>1, <2>3, TablesLifecycle
  <2>4. CASE UNCHANGED <<tag, slot>>
    BY <2>1, <2>4, <1>0, TablesKept DEF TablesOK, TypeOK
  <2>. QED  BY <2>2, <2>3, <2>4
<1>4. CASE Prescan
  BY <1>4, TablesLifecycle DEF Prescan
<1>5. CASE Postscan
  BY <1>5, TablesLifecycle DEF Postscan
<1>6. ASSUME NEW id \in HostTags, NEW v \in HostChoices(id), WriteTag(id, v)
      PROVE  Tables'
  <2>1. /\ UNCHANGED <<image, force, rungPower, clock, slot>> /\ image # Null
        /\ tag' = [tag EXCEPT ![id] = v]
    BY <1>6 DEF WriteTag, Put, hostUnchanged
  <2>2. TablesOK /\ \A s \in DOMAIN slot : slot[s] \in SlotState /\ slot[s].time <= clock
    BY <2>1 DEF TypeOK, TablesOK
  <2>3. TablesOK'
    BY <2>1, <2>2, HostChoicesTyped, TagWritten
  <2>. QED  BY <2>1, <2>3, <1>0 DEF Tables
<1>7. ASSUME NEW id \in HostTags, NEW v \in HostChoices(id), ForceTag(id, v)
      PROVE  Tables'
  <2>1. /\ UNCHANGED <<image, tag, rungPower, clock, slot>> /\ image # Null
        /\ force' = [j \in DOMAIN force \cup {id} |-> IF j = id THEN v ELSE force[j]]
    BY <1>7 DEF ForceTag, hostUnchanged
  <2>. QED  BY <2>1, <1>0, HostChoicesTyped DEF Tables, TablesOK, P
<1>8. ASSUME NEW id \in HostTags, ClearForce(id)
      PROVE  Tables'
  <2>1. /\ UNCHANGED <<image, tag, rungPower, clock, slot>> /\ image # Null
        /\ force' = [j \in DOMAIN force \ {id} |-> force[j]]
    BY <1>8 DEF ClearForce, hostUnchanged
  <2>. QED  BY <2>1, <1>0 DEF Tables, TablesOK, P
<1>9. CASE ClearAllForces
  <2>1. /\ UNCHANGED <<image, tag, rungPower, clock, slot>> /\ image # Null
        /\ DOMAIN force' = {}
    BY <1>9 DEF ClearAllForces, hostUnchanged
  <2>. QED  BY <2>1, <1>0 DEF Tables, TablesOK, P
<1>10. CASE ClearWriteTrace
  BY <1>10, <1>0 DEF ClearWriteTrace, hostUnchanged, Tables, TablesOK, P
<1>11. ASSUME NEW gap \in ScanGaps, BeginScan(gap)
       PROVE  Tables'
  <2>1. /\ UNCHANGED <<image, tag, force, slot, rungPower>> /\ gap \in Nat
        /\ clock' = clock + gap
    BY <1>11, RuntimeAssumptions DEF BeginScan, RuntimeAssumption
  <2>2. clock' \in Nat /\ clock <= clock'
    BY <2>1, <1>0
  <2>. QED  BY <2>1, <2>2, TablesKept DEF TablesOK, TypeOK
<1>. QED
  BY <1>1, <1>2, <1>3, <1>4, <1>5, <1>6, <1>7, <1>8, <1>9, <1>10, <1>11 DEF Host

\* Timers and counters stay timers and counters.
LEMMA RunTimerTyped ==
  ASSUME NEW t \in TimerValue, TimerAcc(t) \in Dint
  PROVE  RunTimer(t) \in TimerValue
<1>. DEFINE done == TimerAcc(t) >= t.pre
<1>1. done \in BOOLEAN /\ (~done) \in BOOLEAN
  OBVIOUS
<1>2. RunTimer(t) = [t EXCEPT !.en = TRUE, !.acc = TimerAcc(t), !.dn = done, !.tt = ~done]
  BY Zenon DEF RunTimer
<1>. HIDE DEF done
<1>3. ASSUME NEW b1 \in BOOLEAN, NEW b2 \in BOOLEAN, NEW a \in Dint
      PROVE  [t EXCEPT !.en = TRUE, !.acc = a, !.dn = b1, !.tt = b2] \in TimerValue
  BY DEF TimerValue
<1>. QED  BY <1>1, <1>2, <1>3, ZenonT(30)

LEMMA CountTyped ==
  ASSUME NEW c \in CounterValue, power \in BOOLEAN
  PROVE  CountUp(c) \in CounterValue /\ CountDown(c) \in CounterValue
<1>1. DintMin \in Int /\ DintMax \in Int /\ DintMin < DintMax
  BY Assumptions DEF ImageAssumption
<1>0. power \in BOOLEAN
  OBVIOUS
<1>3. CountUp(c) \in CounterValue
  <2>. DEFINE wraps == Rise /\ c.acc = DintMax
              acc == IF wraps THEN DintMin ELSE IF Rise THEN c.acc + 1 ELSE c.acc
              done == acc >= c.pre
              over == c.ov \/ wraps
  <2>1. acc \in Dint
    BY <1>1 DEF Dint, CounterValue
  <2>2. over \in BOOLEAN /\ done \in BOOLEAN
    OBVIOUS
  <2>3. CountUp(c) = [c EXCEPT !.cu = power, !.acc = acc, !.ov = over, !.dn = done]
    BY Zenon DEF CountUp
  <2>. HIDE DEF wraps, acc, done, over
  <2>4. [c EXCEPT !.cu = power, !.acc = acc, !.ov = over, !.dn = done] \in CounterValue
    BY <1>0, <2>1, <2>2 DEF CounterValue
  <2>. QED  BY <2>3, <2>4, Zenon
<1>4. CountDown(c) \in CounterValue
  <2>. DEFINE wraps == Rise /\ c.acc = DintMin
              acc == IF wraps THEN DintMax ELSE IF Rise THEN c.acc - 1 ELSE c.acc
              done == acc >= c.pre
              over == c.un \/ wraps
  <2>1. acc \in Dint
    BY <1>1 DEF Dint, CounterValue
  <2>2. over \in BOOLEAN /\ done \in BOOLEAN
    OBVIOUS
  <2>3. CountDown(c) = [c EXCEPT !.cd = power, !.acc = acc, !.un = over, !.dn = done]
    BY Zenon DEF CountDown
  <2>. HIDE DEF wraps, acc, done, over
  <2>4. [c EXCEPT !.cd = power, !.acc = acc, !.un = over, !.dn = done] \in CounterValue
    BY <1>0, <2>1, <2>2 DEF CounterValue
  <2>. QED  BY <2>3, <2>4, Zenon
<1>. QED  BY <1>3, <1>4

\* What a data instruction that does not fault stores.
LEMMA ResultTyped ==
  ASSUME TypeOK, image # Null, Op \in DataOps, I.op = Op, ValidOperands(P, I),
         DataFault = "NONE"
  PROVE  /\ Writable(P, Destination, ScalarTypes)
         /\ Destination.id \in TagIds(P)
         /\ Result \in ValueSet(TypeOf(P, Destination.id))
<1>. USE DEF DataOps, ArithOps, UnaryOps, Writable, WholeTag, ScalarTypes
<1>1. CASE Op = "CLR"
  <2>1. Destination = I.a /\ Result = IF TypeOf(P, I.a.id) = "BOOL" THEN FALSE ELSE 0
    BY <1>1 DEF Destination, Result
  <2>2. Writable(P, I.a, ScalarTypes)
    BY <1>1 DEF ValidOperands
  <2>. QED  BY <2>1, <2>2, ZeroFits DEF ValueSet
<1>2. CASE Op = "MOV"
  <2>1. Destination = I.b /\ Result = Value(I.a)
    BY <1>2 DEF Destination, Result
  <2>2. Writable(P, I.b, ScalarTypes) /\ Readable(P, I.a, ScalarTypes)
    BY <1>2 DEF ValidOperands
  <2>3. OperandType(P, I.a) = TypeOf(P, I.b.id)
    BY <1>2 DEF DataFault
  <2>. QED  BY <2>1, <2>2, <2>3, ValueTyped
<1>3. CASE Op \in ArithOps \cup UnaryOps
  <2>1. Writable(P, Destination, {"DINT"})
    BY <1>3 DEF ValidOperands, Destination
  <2>2. Result \in Dint
    BY <1>3 DEF DataFault
  <2>. QED  BY <2>1, <2>2 DEF ValueSet
<1>. QED  BY <1>1, <1>2, <1>3

\* The instructions: what each writes has the type of what it writes to.
LEMMA TablesExecute ==
  ASSUME Inductive, Execute
  PROVE  Tables'
<1>. USE DEF Inductive
<1>1. image # Null /\ pc < codeEnd /\ phase = "logic"
  <2>1. phase = "logic" /\ pc < codeEnd
    BY DEF Execute, BranchBegin, LaneBegin, LaneEnd, BranchEnd, BranchFault,
           Contact, Coil, OneShot, OnDelay, Count, Reset, Compare, Data,
           Executing, AtInstruction
  <2>. QED  BY <2>1 DEF ScanOnlyWhileActive
<1>2. Op \in Opcodes /\ ValidOperands(P, I) /\ pc + 1 \in 1..Len(Code) /\ I.op = Op
  BY <1>1, OperandFacts DEF I, Op
<1>3. /\ TablesOK /\ Bootable(image) /\ clock \in Nat
      /\ \A s \in DOMAIN slot : slot[s] \in SlotState /\ slot[s].time <= clock
  BY <1>1 DEF TypeOK, TablesOK, ScanOK
<1>4. CASE UNCHANGED <<image, tag, force, slot, rungPower, clock>>
  BY <1>1, <1>3, <1>4, TablesKept DEF TablesOK
<1>5. CASE Coil \/ OneShot
  <2>. DEFINE v == IF Op = "ONS" \/ Op = "OTE" THEN power ELSE Op = "OTL"
  <2>1. I.a.id \in TagIds(P) /\ TypeOf(P, I.a.id) = "BOOL"
    BY <1>2, <1>5 DEF Coil, OneShot, Executing, ValidOperands, CoilOps, Writable, WholeTag
  <2>2. v \in ValueSet("BOOL")
    BY DEF ValueSet, TypeOK, ScanOK
  <2>3. UNCHANGED <<image, force, rungPower, clock, slot>>
    BY <1>5 DEF Coil, OneShot, Continue, stepUnchanged
  <2>4. tag' = [tag EXCEPT ![I.a.id] = v] \/ UNCHANGED tag
    <3>1. CASE Coil
      BY <3>1 DEF Coil, Put, Executing, CoilOps
    <3>2. CASE OneShot
      BY <3>2 DEF OneShot, Put, Executing
    <3>. QED  BY <1>5, <3>1, <3>2
  <2>. HIDE DEF v
  <2>5. CASE tag' = [tag EXCEPT ![I.a.id] = v]
    <3>1. TablesOK'
      BY <1>3, <2>1, <2>2, <2>3, <2>5, TagWritten
    <3>. QED  BY <1>3, <2>3, <3>1 DEF Tables
  <2>. QED  BY <1>4, <2>3, <2>4, <2>5
<1>6. CASE OnDelay
  <2>. DEFINE t == tag[I.a.id]
  <2>1. I.a.id \in TagIds(P) /\ TypeOf(P, I.a.id) = "TIMER" /\ t \in TimerValue
    BY <1>2, <1>3, <1>6
    DEF OnDelay, Executing, ValidOperands, WholeTag, TablesOK, ValueSet
  <2>2. I.slot \in SlotIds(P) /\ SlotIds(P) = DOMAIN slot
    BY <1>2, <1>3, <1>6
    DEF OnDelay, Executing, SlotIds, Stateful, StatefulOps, I, Op, Code, TablesOK
  <2>3. CASE t.pre < 0
    BY <1>4, <1>6, <2>1, <2>3 DEF OnDelay, Abort, TimerValue, Dint
  <2>4. CASE t.pre >= 0 /\ power
    <3>0. ~(t.pre < 0)
      BY <2>1, <2>4 DEF TimerValue, Dint
    <3>1. /\ tag' = [tag EXCEPT ![I.a.id] = RunTimer(t)]
          /\ slot' = [slot EXCEPT ![I.slot].valid = TRUE, ![I.slot].time = tick]
          /\ UNCHANGED <<image, force, rungPower, clock>>
      BY <1>6, <2>4, <3>0, ZenonT(30) DEF OnDelay, Continue, stepUnchanged
    <3>2. Elapsed \in Nat
      <4>1. slot[I.slot].time \in Nat /\ slot[I.slot].time <= tick /\ tick \in Nat
        BY <1>1, <1>3, <2>2 DEF SlotState, ScanPlace, TypeOK, ScanOK
      <4>. QED  BY <4>1, RuntimeAssumptions DEF Elapsed, RuntimeAssumption
    <3>3. TimerAcc(t) \in Dint
      BY <2>1, <3>2, Assumptions DEF TimerAcc, TimerValue, Dint, ImageAssumption
    <3>4. RunTimer(t) \in TimerValue
      BY <2>1, <3>3, RunTimerTyped
    <3>5. RunTimer(t) \in ValueSet(TypeOf(P, I.a.id))
      BY <2>1, <3>4 DEF ValueSet
    <3>6. \A s \in DOMAIN slot : slot'[s] \in SlotState /\ slot'[s].time <= clock
      BY <1>3, <3>1, <2>2 DEF SlotState, TypeOK, ScanOK
    <3>7. DOMAIN slot' = DOMAIN slot
      BY <3>1
    <3>. HIDE DEF t
    <3>8. TablesOK'
      BY <1>3, <2>1, <3>1, <3>5, <3>6, <3>7, TagWritten
    <3>. QED  BY <1>3, <3>1, <3>8 DEF Tables
  <2>5. CASE t.pre >= 0 /\ ~power
    <3>1. /\ tag' = [tag EXCEPT ![I.a.id] = ClearTimer(t)]
          /\ slot' = [slot EXCEPT ![I.slot].valid = FALSE]
          /\ UNCHANGED <<image, force, rungPower, clock>>
      BY <1>6, <2>1, <2>5 DEF OnDelay, Continue, stepUnchanged, TimerValue, Dint, SlotStopped
    <3>2. ClearTimer(t) \in ValueSet(TypeOf(P, I.a.id))
      <4>1. ClearTimer(t) \in TimerValue
        BY <2>1, ZeroFits DEF ClearTimer, TimerValue
      <4>. QED  BY <2>1, <4>1 DEF ValueSet
    <3>3. \A s \in DOMAIN slot : slot'[s] \in SlotState /\ slot'[s].time <= clock
      BY <1>3, <3>1, <2>2 DEF SlotState
    <3>4. DOMAIN slot' = DOMAIN slot
      BY <3>1
    <3>. HIDE DEF t
    <3>5. TablesOK'
      BY <1>3, <2>1, <3>1, <3>2, <3>3, <3>4, TagWritten
    <3>. QED  BY <1>3, <3>1, <3>5 DEF Tables
  <2>. QED  BY <2>1, <2>3, <2>4, <2>5 DEF TimerValue, Dint
<1>7. CASE Count
  <2>. DEFINE c == tag[I.a.id]
              v == IF Op = "CTU" THEN CountUp(c) ELSE CountDown(c)
  <2>1. I.a.id \in TagIds(P) /\ TypeOf(P, I.a.id) = "COUNTER" /\ c \in CounterValue
    BY <1>2, <1>3, <1>7
    DEF Count, Executing, ValidOperands, WholeTag, TablesOK, ValueSet
  <2>2. I.slot \in SlotIds(P) /\ SlotIds(P) = DOMAIN slot
    BY <1>2, <1>3, <1>7
    DEF Count, Executing, SlotIds, Stateful, StatefulOps, I, Op, Code, TablesOK
  <2>3. /\ tag' = [tag EXCEPT ![I.a.id] = v]
        /\ slot' = [slot EXCEPT ![I.slot].edge = power]
        /\ UNCHANGED <<image, force, rungPower, clock>>
    BY <1>7 DEF Count, Continue, stepUnchanged
  <2>4. power \in BOOLEAN /\ DintMin \in Int /\ DintMax \in Int /\ DintMin < DintMax
    BY Assumptions DEF TypeOK, ScanOK, ImageAssumption
  <2>5. CountUp(c) \in CounterValue
    BY <2>1, <2>4, CountTyped
  <2>6. CountDown(c) \in CounterValue
    BY <2>1, <2>4, CountTyped
  <2>7. v \in ValueSet(TypeOf(P, I.a.id))
    BY <2>1, <2>5, <2>6 DEF ValueSet
  <2>8. \A s \in DOMAIN slot : slot'[s] \in SlotState /\ slot'[s].time <= clock
    BY <1>3, <2>2, <2>3, <2>4 DEF SlotState
  <2>9. DOMAIN slot' = DOMAIN slot
    BY <2>3
  <2>. HIDE DEF c, v
  <2>10. TablesOK'
    BY <1>3, <2>1, <2>3, <2>7, <2>8, <2>9, TagWritten
  <2>. QED  BY <1>3, <2>3, <2>10 DEF Tables
<1>8. CASE Reset /\ power
  <2>. DEFINE v == IF TypeOf(P, I.a.id) = "TIMER" THEN ClearTimer(tag[I.a.id])
                                                  ELSE ResetCounter(tag[I.a.id])
  <2>1. I.a.id \in TagIds(P) /\ TypeOf(P, I.a.id) \in {"TIMER", "COUNTER"}
    BY <1>2, <1>8 DEF Reset, Executing, ValidOperands, WholeTag
  <2>2. /\ tag' = [tag EXCEPT ![I.a.id] = v]
        /\ slot' = [s \in DOMAIN slot |->
                      IF s \in ResetSlots(I.a.id) THEN ZeroSlot ELSE slot[s]]
        /\ UNCHANGED <<image, force, rungPower, clock>>
    BY <1>8 DEF Reset, Continue, stepUnchanged
  <2>3. tag[I.a.id] \in ValueSet(TypeOf(P, I.a.id))
    BY <1>3, <2>1 DEF TablesOK
  <2>4. v \in ValueSet(TypeOf(P, I.a.id))
    <3>1. CASE TypeOf(P, I.a.id) = "TIMER"
      BY <2>3, <3>1, ZeroFits DEF ClearTimer, ValueSet, TimerValue
    <3>2. CASE TypeOf(P, I.a.id) = "COUNTER"
      BY <2>3, <3>2, ZeroFits DEF ResetCounter, ValueSet, CounterValue
    <3>. QED  BY <2>1, <3>1, <3>2
  <2>5. ZeroSlot \in SlotState /\ ZeroSlot.time <= clock
    BY <1>3 DEF ZeroSlot, SlotState
  <2>6. \A s \in DOMAIN slot : slot'[s] \in SlotState /\ slot'[s].time <= clock
    BY <1>3, <2>2, <2>5
  <2>7. DOMAIN slot' = DOMAIN slot
    BY <2>2
  <2>. HIDE DEF v
  <2>8. TablesOK'
    BY <1>3, <2>1, <2>2, <2>4, <2>6, <2>7, TagWritten
  <2>. QED  BY <1>3, <2>2, <2>8 DEF Tables
<1>9. CASE Data /\ power /\ DataFault = "NONE"
  <2>1. /\ tag' = [tag EXCEPT ![Destination.id] = Result]
        /\ UNCHANGED <<image, force, rungPower, clock, slot>>
    BY <1>9 DEF Data, Put, Continue, stepUnchanged
  <2>2. Destination.id \in TagIds(P) /\ Result \in ValueSet(TypeOf(P, Destination.id))
    BY <1>1, <1>2, <1>9, ResultTyped DEF Data, Executing
  <2>3. TablesOK'
    BY <1>3, <2>1, <2>2, TagWritten
  <2>. QED  BY <1>3, <2>1, <2>3 DEF Tables
<1>10. CASE \/ BranchBegin \/ LaneBegin \/ LaneEnd \/ BranchEnd \/ BranchFault
            \/ Contact \/ Compare \/ (Reset /\ ~power)
            \/ (Data /\ ~(power /\ DataFault = "NONE"))
  <2>1. UNCHANGED <<image, tag, force, slot, rungPower, clock>>
    BY <1>10 DEF BranchBegin, LaneBegin, LaneEnd, BranchEnd, BranchFault, Contact,
                 Compare, Reset, Data, Continue, Abort, stepUnchanged
  <2>. QED  BY <1>4, <2>1
<1>. QED  BY <1>5, <1>6, <1>7, <1>8, <1>9, <1>10 DEF Execute

\* The steps of a scan, and with them every step.
LEMMA TablesStep ==
  ASSUME Inductive, [Next]_vars
  PROVE  Tables'
<1>. USE DEF Inductive
<1>0. /\ clock \in Nat /\ clock <= clock
      /\ image # Null => /\ TablesOK /\ rungPower = rungPower
                         /\ \A r \in DOMAIN rungPower : rungPower[r] \in BOOLEAN
  BY DEF TypeOK, ScanOK, TablesOK
<1>1. CASE UNCHANGED <<image, tag, force, slot, rungPower, clock>>
  BY <1>0, <1>1, TablesKept
<1>2. CASE Host
  BY <1>2, TablesHost
<1>3. CASE Execute
  BY <1>3, TablesExecute
<1>4. ASSUME NEW id \in pending, NEW v \in Readings(id), CaptureInput(id, v)
      PROVE  Tables'
  <2>1. /\ UNCHANGED <<image, force, rungPower, clock, slot>> /\ phase = "input"
        /\ tag' = [tag EXCEPT ![id] = v]
    BY <1>4 DEF CaptureInput
  <2>2. image # Null
    BY <2>1 DEF ScanOnlyWhileActive
  <2>3. id \in TagIds(P) /\ P.tags[id].storage = "input" /\ image \in Images
    BY <2>1, <2>2 DEF ScanPlace, InputIds, IsInput, TypeOK
  <2>4. TypeOf(P, id) \in ScalarTypes
    BY <2>3, Assumptions DEF ImageAssumption, TypeOf, P
  <2>5. TablesOK /\ \A s \in DOMAIN slot : slot[s] \in SlotState /\ slot[s].time <= clock
    BY <2>2 DEF TypeOK, TablesOK
  <2>6. v \in ValueSet(TypeOf(P, id))
    <3>1. Effective(id) \in ValueSet(TypeOf(P, id))
      BY <2>3, <2>5 DEF Effective, TablesOK
    <3>2. InputValues[TypeOf(P, id)] \subseteq ValueSet(TypeOf(P, id))
      BY <2>4, RuntimeAssumptions DEF RuntimeAssumption
    <3>. QED  BY <3>1, <3>2 DEF Readings
  <2>7. TablesOK'
    BY <2>1, <2>3, <2>5, <2>6, TagWritten
  <2>. QED  BY <2>1, <2>7 DEF Tables, TypeOK
<1>5. CASE EndRung
  <2>1. /\ UNCHANGED <<image, tag, force, slot, clock>>
        /\ rungPower' = [rungPower EXCEPT ![rung] = power]
    BY <1>5 DEF EndRung
  <2>2. power \in BOOLEAN
    BY DEF TypeOK, ScanOK
  <2>3. image # Null => /\ DOMAIN rungPower' = DOMAIN rungPower
                        /\ \A r \in DOMAIN rungPower : rungPower'[r] \in BOOLEAN
    BY <1>0, <2>1, <2>2
  <2>. QED  BY <1>0, <2>1, <2>3, TablesKept
<1>6. ASSUME NEW d \in ScanDurations, FinishScan(d)
      PROVE  Tables'
  <2>1. UNCHANGED <<image, tag, force, slot, rungPower>> /\ clock' = clock + d /\ d \in Nat
    BY <1>6, RuntimeAssumptions DEF FinishScan, RuntimeAssumption
  <2>2. clock' \in Nat /\ clock <= clock'
    BY <1>0, <2>1
  <2>. QED  BY <1>0, <2>1, <2>2, TablesKept
<1>7. CASE \/ \E id \in pending : InputFault(id) \/ WriteOutput(id) \/ OutputFault(id)
           \/ InputsDone \/ StartRung \/ RungsDone
  BY <1>1, <1>7 DEF InputFault, WriteOutput, OutputFault, InputsDone, StartRung, RungsDone
<1>8. CASE UNCHANGED vars
  BY <1>1, <1>8 DEF vars
<1>. QED  BY <1>2, <1>3, <1>4, <1>5, <1>6, <1>7, <1>8 DEF Next, ScanStep

-----------------------------------------------------------------------------
(* Types: the counters, and where the scan stands *)

\* A fault recorded over well-typed diagnostics ends the scan well-typed.
LEMMA FailTyped ==
  ASSUME NEW message \in Faults, NEW d \in Diag, FailWith(message, d),
         clock' \in Nat, codeEnd' \in Nat
  PROVE  /\ mode' \in Modes /\ diag' \in Diag
         /\ fault' \in [message : Faults \cup {"NONE"}, scan : Nat]
         /\ ScanOK'
<1>1. diag' \in Diag /\ fault' \in [message : Faults \cup {"NONE"}, scan : Nat]
  BY DEF FailWith, Diag
<1>2. lanes' \in Seq(Frame)
  BY DEF FailWith, ScanOver
<1>. QED  BY <1>1, <1>2 DEF FailWith, ScanOver, ScanOK, Modes, Phases

\* The types of the diagnostics after a scan.
LEMMA ScanDiagTyped ==
  ASSUME diag \in Diag, NEW d \in Nat
  PROVE  ScanDiag(d) \in Diag
<1>1. CounterMod \in Nat \ {0}
  BY RuntimeAssumptions DEF RuntimeAssumption
<1>2. diag.avg \in Nat /\ diag.scans + 1 \in Nat \ {0}
  BY DEF Diag
<1>3. ((d - diag.avg) % CounterMod) \in Nat
  BY <1>1, <1>2
<1>4. (((d - diag.avg) % CounterMod) \div (diag.scans + 1)) \in Nat
  BY <1>2, <1>3
<1>5. Average(diag.avg, d, diag.scans + 1) \in Nat
  BY <1>1, <1>2, <1>4 DEF Average
<1>7. ASSUME NEW a \in Nat, NEW m \in Nat, NEW n \in Nat
      PROVE  [diag EXCEPT !.scans = n, !.last = d, !.max = m, !.avg = a] \in Diag
  BY DEF Diag
<1>8. (IF d > diag.max THEN d ELSE diag.max) \in Nat
  BY DEF Diag
<1>. QED  BY <1>2, <1>5, <1>7, <1>8 DEF ScanDiag

\* The types other than the tables'.
Scalars ==
  /\ mode \in Modes
  /\ image \in Images \cup {Null}
  /\ traceCount \in 0..TraceCapacity
  /\ diag \in Diag
  /\ fault \in [message : Faults \cup {"NONE"}, scan : Nat]
  /\ ScanOK

LEMMA TypeSplit == TypeOK <=> Scalars /\ Tables
BY DEF TypeOK, Scalars, Tables

LEMMA LifecycleTrace ==
  ASSUME Inductive, image # Null, NEW prescan \in BOOLEAN, LifecycleOutputs(prescan)
  PROVE  traceCount' \in 0..TraceCapacity
<1>1. codeEnd \in 0..Len(Code) /\ traceCount \in 0..TraceCapacity /\ Len(Code) \in Nat
  BY RungFacts DEF Inductive, CutAtRungBoundary, Boundaries, TypeOK
<1>2. LifecycleWrites(prescan) \subseteq 1..codeEnd
  BY DEF LifecycleWrites
<1>3. IsFiniteSet(1..codeEnd)
  BY <1>1, FS_Interval
<1>4. IsFiniteSet(LifecycleWrites(prescan))
  BY <1>2, <1>3, FS_Subset
<1>5. Cardinality(LifecycleWrites(prescan)) \in Nat
  BY <1>4, FS_CardinalityType
<1>. QED  BY <1>1, <1>5, TraceBounded DEF LifecycleOutputs

LEMMA ScalarsHost ==
  ASSUME Inductive, Host
  PROVE  Scalars'
<1>. USE DEF Inductive
<1>0. Scalars
  BY TypeSplit
<1>1. NoDiag \in Diag /\ NoFault \in [message : Faults \cup {"NONE"}, scan : Nat]
  BY DEF NoDiag, NoFault, Diag
<1>2. 0 \in 0..TraceCapacity
  BY RuntimeAssumptions DEF RuntimeAssumption
<1>3. ASSUME NEW i \in Images, LoadImage(i)
      PROVE  Scalars'
  <2>1. Len(Program[i].code) \in Nat
    BY Assumptions DEF ImageAssumption
  <2>. QED  BY <1>0, <1>1, <1>2, <1>3, <2>1 DEF LoadImage, Install, Scalars, ScanOK, scanVars
<1>4. CASE UnloadProgram \/ Deinit
  <2>1. /\ UNCHANGED <<phase, pending, scanVars, clock>> /\ codeEnd' = 0
        /\ mode' \in Modes /\ image' = Null /\ traceCount' = 0
        /\ diag' = NoDiag /\ fault' = NoFault
    BY <1>0, <1>4 DEF UnloadProgram, Deinit, Forget, Scalars, Modes
  <2>2. ScanOK'
    BY <1>0, <2>1 DEF Scalars, ScanOK, scanVars
  <2>. QED  BY <1>1, <1>2, <2>1, <2>2 DEF Scalars
<1>5. ASSUME NEW m \in Modes, SetMode(m)
      PROVE  Scalars'
  <2>1. (image # Null /\ (LifecycleOutputs(TRUE) \/ LifecycleOutputs(FALSE))) \/ UNCHANGED traceCount
    BY <1>5 DEF SetMode, ModeAccepted, ScanOnlyWhileActive
  <2>2. traceCount' \in 0..TraceCapacity
    BY <1>0, <2>1, LifecycleTrace DEF Scalars
  <2>. QED  BY <1>0, <1>5, <2>2 DEF SetMode, Scalars, ScanOK, scanVars
<1>6. CASE Prescan \/ Postscan
  <2>1. traceCount' \in 0..TraceCapacity
    BY <1>6, LifecycleTrace DEF Prescan, Postscan
  <2>. QED  BY <1>0, <1>6, <2>1 DEF Prescan, Postscan, Scalars, ScanOK, scanVars
<1>7. ASSUME NEW id \in HostTags, NEW v \in HostChoices(id), WriteTag(id, v)
      PROVE  Scalars'
  <2>1. traceCount' \in 0..TraceCapacity
    BY <1>0, <1>7, TraceBounded DEF WriteTag, Put, Scalars
  <2>. QED  BY <1>0, <1>7, <2>1 DEF WriteTag, hostUnchanged, Scalars, ScanOK, scanVars
<1>8. CASE \/ \E id \in HostTags :
                \/ \E v \in HostChoices(id) : ForceTag(id, v)
                \/ ClearForce(id)
           \/ ClearAllForces \/ ClearWriteTrace
  <2>1. diag' \in Diag
    <3>1. ASSUME NEW n \in Int  PROVE [diag EXCEPT !.forces = n] \in Diag
      BY <1>0 DEF Scalars, Diag
    <3>2. diag \in Diag /\ diag.forces \in Int
      BY <1>0 DEF Scalars, Diag
    <3>3. \/ diag' = diag
          \/ \E n \in Int : diag' = [diag EXCEPT !.forces = n]
      <4>1. ASSUME NEW id \in HostTags, NEW v \in HostChoices(id), ForceTag(id, v)
            PROVE  ForcesWith(id) \in Int /\ diag' = [diag EXCEPT !.forces = ForcesWith(id)]
        BY <3>2, <4>1 DEF ForceTag, ForcesWith
      <4>2. ASSUME NEW id \in HostTags, ClearForce(id)
            PROVE  diag.forces - 1 \in Int /\ diag' = [diag EXCEPT !.forces = diag.forces - 1]
        BY <3>2, <4>2 DEF ClearForce
      <4>3. CASE ClearAllForces
        <5>1. diag' = [diag EXCEPT !.forces = 0] /\ 0 \in Int
          BY <4>3 DEF ClearAllForces
        <5>. QED  BY <5>1
      <4>4. CASE ClearWriteTrace
        BY <4>4 DEF ClearWriteTrace
      <4>5. CASE \E id \in HostTags : \E v \in HostChoices(id) : ForceTag(id, v)
        BY <4>1, <4>5
      <4>6. CASE \E id \in HostTags : ClearForce(id)
        BY <4>2, <4>6
      <4>. QED  BY <1>8, <4>3, <4>4, <4>5, <4>6
    <3>. QED  BY <3>1, <3>2, <3>3
  <2>2. /\ traceCount' \in {traceCount, 0}
        /\ hostUnchanged' = hostUnchanged
    BY <1>8 DEF ForceTag, ClearForce, ClearAllForces, ClearWriteTrace
  <2>. QED  BY <1>0, <1>2, <2>1, <2>2 DEF hostUnchanged, Scalars, ScanOK, scanVars
<1>9. ASSUME NEW gap \in ScanGaps, BeginScan(gap)
      PROVE  Scalars'
  <2>1. gap \in Nat /\ P.tags = P.tags /\ Len(P.tags) \in Nat
    BY <1>9, <1>0, RuntimeAssumptions, Assumptions
    DEF RuntimeAssumption, ImageAssumption, BeginScan, Scalars, P
  <2>2. InputIds(P) \subseteq Nat
    BY <2>1 DEF InputIds, TagIds
  <2>3. lanes' \in Seq(Frame)
    BY <1>9 DEF BeginScan
  <2>. QED  BY <1>0, <1>9, <2>1, <2>2, <2>3 DEF BeginScan, Scalars, ScanOK, Phases
<1>. QED  BY <1>3, <1>4, <1>5, <1>6, <1>7, <1>8, <1>9 DEF Host

LEMMA ScalarsExecute ==
  ASSUME Inductive, Execute
  PROVE  Scalars'
<1>. USE DEF Inductive
<1>0. Scalars /\ ScanOK /\ power \in BOOLEAN /\ lanes \in Seq(Frame) /\ pc \in Nat
  BY TypeSplit DEF Scalars, ScanOK
<1>1. image # Null /\ pc < codeEnd
  <2>1. phase = "logic" /\ pc < codeEnd
    BY DEF Execute, BranchBegin, LaneBegin, LaneEnd, BranchEnd, BranchFault,
           Contact, Coil, OneShot, OnDelay, Count, Reset, Compare, Data,
           Executing, AtInstruction
  <2>. QED  BY <2>1 DEF ScanOnlyWhileActive
<1>2. ASSUME UNCHANGED <<diag, stepUnchanged>>, pc' = pc + 1, power' \in BOOLEAN,
             lanes' \in Seq(Frame), traceCount' \in 0..TraceCapacity
      PROVE  Scalars'
  BY <1>0, <1>2 DEF stepUnchanged, Scalars, ScanOK
<1>3. ASSUME NEW message \in Faults, Abort(message)
      PROVE  Scalars'
  <2>1. FailWith(message, diag) /\ UNCHANGED <<image, codeEnd, traceCount, clock>>
    BY <1>3 DEF Abort, Fail
  <2>2. clock' \in Nat /\ codeEnd' \in Nat /\ diag \in Diag
    BY <1>0, <2>1 DEF Scalars, ScanOK
  <2>. QED  BY <1>0, <2>1, <2>2, FailTyped DEF Scalars
<1>4. lanes # <<>> => Top \in Frame
  BY <1>0 DEF Top
<1>5. ASSUME lanes # <<>>, NEW f \in Frame  PROVE SetTop(f) \in Seq(Frame)
  <2>1. Len(lanes) \in 1..Len(lanes)
    BY <1>0, <1>5, EmptySeq
  <2>. QED  BY <1>0, <2>1, ExceptSeq DEF SetTop
<1>6. CASE BranchBegin
  <2>1. [input |-> power, merged |-> FALSE, open |-> FALSE] \in Frame
    BY <1>0 DEF Frame
  <2>. QED  BY <1>0, <1>2, <1>6, <2>1 DEF BranchBegin, Scalars
<1>7. CASE LaneBegin
  <2>1. lanes # <<>> /\ Top.input \in BOOLEAN /\ [Top EXCEPT !.open = TRUE] \in Frame
    BY <1>4, <1>7 DEF LaneBegin, BetweenLanes, Frame
  <2>. QED  BY <1>0, <1>2, <1>5, <1>7, <2>1 DEF LaneBegin, LanePower, Scalars
<1>8. CASE LaneEnd
  <2>1. CASE lanes = <<>>
    <3>1. lanes' = [lanes EXCEPT ![0] = [Top EXCEPT !.merged = @ \/ power, !.open = FALSE]]
      BY <1>8, <2>1 DEF LaneEnd, SetTop
    <3>2. lanes' = <<>>
      BY <2>1, <3>1
    <3>. QED  BY <1>0, <1>2, <1>8, <2>1, <3>2 DEF LaneEnd, Scalars
  <2>2. CASE lanes # <<>>
    <3>1. [Top EXCEPT !.merged = @ \/ power, !.open = FALSE] \in Frame
      BY <1>0, <1>4, <2>2 DEF Frame
    <3>. QED  BY <1>0, <1>2, <1>5, <1>8, <2>2, <3>1 DEF LaneEnd, Scalars
  <2>. QED  BY <2>1, <2>2
<1>9. CASE BranchEnd
  <2>1. lanes # <<>> /\ Top.merged \in BOOLEAN
    BY <1>4, <1>9 DEF BranchEnd, BetweenLanes, Frame
  <2>2. SubSeq(lanes, 1, Len(lanes) - 1) \in Seq(Frame)
    BY <1>0, <2>1
  <2>. QED  BY <1>0, <1>2, <1>9, <2>1, <2>2 DEF BranchEnd, Scalars
<1>10. CASE BranchFault
  <2>1. FailWith("BRANCH", diag) /\ UNCHANGED <<image, codeEnd, traceCount, clock>>
    BY <1>10 DEF BranchFault, Fail
  <2>2. clock' \in Nat /\ codeEnd' \in Nat /\ diag \in Diag
    BY <1>0, <2>1 DEF Scalars, ScanOK
  <2>. QED  BY <1>0, <2>1, <2>2, FailTyped DEF Scalars, Faults
<1>11. TraceAfter(1) \in 0..TraceCapacity
  BY <1>0, TraceBounded DEF Scalars
<1>12. ASSUME NEW pow \in BOOLEAN, Continue(pow),
              traceCount' \in {traceCount, TraceAfter(1)}
       PROVE  Scalars'
  BY <1>0, <1>2, <1>11, <1>12 DEF Continue, Scalars
<1>13. CASE Contact
  <2>1. (power /\ (Value(I.a) = (Op = "XIC"))) \in BOOLEAN
    OBVIOUS
  <2>. QED  BY <1>12, <1>13, <2>1 DEF Contact
<1>14. CASE Coil
  BY <1>0, <1>12, <1>14 DEF Coil, Put
<1>15. CASE OneShot
  <2>1. (power /\ ~Value(I.a)) \in BOOLEAN
    OBVIOUS
  <2>. QED  BY <1>12, <1>15, <2>1 DEF OneShot, Put
<1>16. CASE OnDelay
  BY <1>0, <1>3, <1>12, <1>16 DEF OnDelay, Faults
<1>17. CASE Count \/ Reset
  BY <1>0, <1>12, <1>17 DEF Count, Reset
<1>18. CASE Compare
  <2>1. (power /\ Holds(Op, Value(I.a), Value(I.b))) \in BOOLEAN
    OBVIOUS
  <2>. QED  BY <1>12, <1>18, <2>1 DEF Compare
<1>19. CASE Data
  BY <1>0, <1>3, <1>12, <1>19 DEF Data, Put, DataFault, Faults
<1>. QED
  BY <1>6, <1>7, <1>8, <1>9, <1>10, <1>13, <1>14, <1>15, <1>16, <1>17, <1>18, <1>19
  DEF Execute

\* Where a rung starts another follows: pc has not reached the end of a size
\* that is never more than the image's, and the last rung ends there.
LEMMA NextRung ==
  ASSUME Inductive, StartRung
  PROVE  /\ image # Null /\ rung \in 0..Len(P.rungs) /\ rung' \in 1..Len(P.rungs)
         /\ codeEnd' = RungEnd(P, rung') /\ codeEnd' \in Nat
         /\ pc <= codeEnd'
<1>. USE DEF Inductive
<1>1. /\ image # Null /\ phase = "rung" /\ pc < codeEnd /\ rung' = rung + 1
      /\ codeEnd' = pc + P.rungs[rung + 1].count
  BY DEF StartRung, NextRungEnd, ScanOnlyWhileActive
<1>2. rung \in 0..Len(P.rungs) /\ pc = IF rung = 0 THEN 0 ELSE RungEnd(P, rung)
  BY <1>1 DEF ScanPlace
<1>3. codeEnd \in 0..Len(Code) /\ pc \in Nat /\ Len(P.rungs) \in Nat
  BY <1>1, RungFacts DEF CutAtRungBoundary, Boundaries, TypeOK, ScanOK
<1>4. rung # Len(P.rungs)
  BY <1>1, <1>2, <1>3, RungFacts
<1>5. rung + 1 \in 1..Len(P.rungs)
  BY <1>2, <1>3, <1>4
<1>6. ValidRungs(P)
  BY <1>1 DEF TypeOK, Bootable, ValidImage, P
<1>7. /\ P.rungs[rung + 1].count \in Nat
      /\ P.rungs[rung + 1].start =
            IF rung + 1 = 1 THEN 0
            ELSE P.rungs[(rung + 1) - 1].start + P.rungs[(rung + 1) - 1].count
  BY <1>5, <1>6, ZenonT(30) DEF ValidRungs
<1>8. (rung + 1) - 1 = rung /\ (rung + 1 = 1 <=> rung = 0)
  BY <1>2, <1>3
<1>9. P.rungs[rung + 1].start = pc
  BY <1>2, <1>7, <1>8 DEF RungEnd
<1>. QED  BY <1>1, <1>2, <1>3, <1>5, <1>7, <1>9 DEF RungEnd

LEMMA ScalarsStep ==
  ASSUME Inductive, [Next]_vars
  PROVE  Scalars'
<1>. USE DEF Inductive
<1>0. Scalars /\ ScanOK
  BY TypeSplit DEF Scalars
<1>1. CASE Host
  BY <1>1, ScalarsHost
<1>2. CASE Execute
  BY <1>2, ScalarsExecute
<1>3. ASSUME NEW message \in Faults, Fail(message),
             UNCHANGED <<image, codeEnd, traceCount, clock>>
      PROVE  Scalars'
  <2>1. clock' \in Nat /\ codeEnd' \in Nat /\ diag \in Diag
    BY <1>0, <1>3 DEF Scalars, ScanOK
  <2>. QED  BY <1>0, <1>3, <2>1, FailTyped DEF Scalars, Fail
<1>4. CASE \E id \in pending : InputFault(id)
  BY <1>3, <1>4 DEF InputFault, Faults
<1>5. CASE \E id \in pending : OutputFault(id)
  BY <1>3, <1>5 DEF OutputFault, Faults
<1>6. CASE \E id \in pending :
             (\E v \in Readings(id) : CaptureInput(id, v)) \/ WriteOutput(id)
  BY <1>0, <1>6 DEF CaptureInput, WriteOutput, StillDue, Scalars, ScanOK, scanVars
<1>7. CASE InputsDone \/ EndRung
  BY <1>0, <1>7 DEF InputsDone, EndRung, SizeRestored, Scalars, ScanOK, scanVars, Phases
<1>8. CASE RungsDone
  <2>1. image # Null
    BY <1>8 DEF RungsDone, ScanOnlyWhileActive
  <2>2. Len(P.tags) \in Nat
    BY <1>0, <2>1, Assumptions DEF ImageAssumption, Scalars, P
  <2>3. pending' \subseteq Nat
    BY <1>8, <2>2 DEF RungsDone, OutputsDue, OutputIds, TagIds
  <2>. QED  BY <1>0, <1>8, <2>3 DEF RungsDone, Scalars, ScanOK, scanVars, Phases
<1>9. CASE StartRung
  <2>1. image # Null /\ rung \in 0..Len(P.rungs)
    BY <1>9 DEF StartRung, ScanOnlyWhileActive, ScanPlace
  <2>2. codeEnd' \in Nat
    BY <1>9, <2>1, NextRung DEF StartRung
  <2>. QED  BY <1>0, <1>9, <2>2 DEF StartRung, Scalars, ScanOK, Phases
<1>10. ASSUME NEW d \in ScanDurations, FinishScan(d)
       PROVE  Scalars'
  <2>1. d \in Nat /\ clock' = clock + d /\ UNCHANGED <<image, codeEnd, traceCount>>
    BY <1>10, RuntimeAssumptions DEF RuntimeAssumption, FinishScan
  <2>2. clock' \in Nat /\ codeEnd' \in Nat /\ ScanDiag(d) \in Diag
    BY <1>0, <2>1, ScanDiagTyped DEF Scalars, ScanOK
  <2>3. CASE FailWith("WATCHDOG", ScanDiag(d))
    BY <1>0, <2>1, <2>2, <2>3, FailTyped DEF Scalars, Faults
  <2>4. CASE diag' = ScanDiag(d) /\ ScanOver /\ UNCHANGED <<mode, fault>>
    <3>1. lanes' \in Seq(Frame)
      BY <2>4 DEF ScanOver
    <3>. QED  BY <1>0, <2>1, <2>2, <2>4, <3>1 DEF ScanOver, Scalars, ScanOK, Phases
  <2>. QED  BY <1>10, <2>3, <2>4 DEF FinishScan
<1>11. CASE UNCHANGED vars
  BY <1>0, <1>11 DEF vars, Scalars, ScanOK
<1>. QED
  BY <1>1, <1>2, <1>4, <1>5, <1>6, <1>7, <1>8, <1>9, <1>10, <1>11 DEF Next, ScanStep

-----------------------------------------------------------------------------
(* Where the scan stands, and the size it leaves behind *)

Place == CutAtRungBoundary /\ (image # Null => ScanPlace)

\* A fault leaves the size as it stands, and the scan is over.
LEMMA PlaceFail ==
  ASSUME Inductive, NEW message \in Faults, NEW d \in Diag, FailWith(message, d),
         image # Null, UNCHANGED <<image, codeEnd>>
  PROVE  Place'
<1>1. phase' = "idle" /\ saved' = 0 /\ diag'.faults # 0
  BY DEF FailWith, ScanOver, Diag
<1>. QED
  BY <1>1 DEF Inductive, Place, CutAtRungBoundary, Boundaries, ScanPlace, P

\* No scan, no size but the image's or the one a fault left.
LEMMA PlaceHost ==
  ASSUME Inductive, Host
  PROVE  Place'
<1>. USE DEF Inductive
<1>0. phase = "idle" /\ saved = 0
  BY HostShape
<1>1. ASSUME NEW i \in Images, LoadImage(i)
      PROVE  Place'
  <2>1. /\ image' = i /\ P' = Program[i] /\ phase' = "idle" /\ saved' = 0
        /\ Bootable(i) /\ codeEnd' = Len(P'.code) /\ Code' = P'.code
    BY <1>0, <1>1 DEF LoadImage, Install, P, Code, scanVars
  <2>2. codeEnd' \in Boundaries'
    <3>1. Len(P'.code) = IF Len(P'.rungs) = 0 THEN 0 ELSE RungEnd(P', Len(P'.rungs))
      BY <2>1, RungEnds
    <3>2. Len(P'.rungs) \in Nat
      BY <2>1, RungEnds
    <3>. QED  BY <2>1, <3>1, <3>2 DEF Boundaries
  <2>. QED  BY <2>1, <2>2 DEF Place, CutAtRungBoundary, Boundaries, ScanPlace
<1>2. CASE UnloadProgram \/ Deinit
  BY <1>2 DEF UnloadProgram, Deinit, Forget, Place, CutAtRungBoundary
<1>3. ASSUME UNCHANGED <<image, codeEnd, saved, phase>>,
             diag'.faults = diag.faults
      PROVE  Place'
  BY <1>0, <1>3 DEF Place, CutAtRungBoundary, Boundaries, ScanPlace, P, Code
<1>4. CASE \/ \E m \in Modes : SetMode(m)
           \/ Prescan \/ Postscan
           \/ \E id \in HostTags : \E v \in HostChoices(id) : WriteTag(id, v)
           \/ ClearWriteTrace
  BY <1>3, <1>4 DEF SetMode, Prescan, Postscan, WriteTag, ClearWriteTrace,
                    hostUnchanged, scanVars
<1>5. CASE \/ \E id \in HostTags :
                \/ \E v \in HostChoices(id) : ForceTag(id, v)
                \/ ClearForce(id)
           \/ ClearAllForces
  <2>1. diag'.faults = diag.faults
    BY <1>5 DEF ForceTag, ClearForce, ClearAllForces, TypeOK, Diag
  <2>2. UNCHANGED <<image, codeEnd, saved, phase>>
    BY <1>5 DEF ForceTag, ClearForce, ClearAllForces, hostUnchanged, scanVars
  <2>. QED  BY <1>3, <2>1, <2>2
<1>6. CASE \E gap \in ScanGaps : BeginScan(gap)
  BY <1>0, <1>6 DEF BeginScan, Place, CutAtRungBoundary, Boundaries, ScanPlace, P, Code
<1>. QED  BY <1>1, <1>2, <1>4, <1>5, <1>6 DEF Host

LEMMA PlaceExecute ==
  ASSUME Inductive, Execute
  PROVE  Place'
<1>. USE DEF Inductive
<1>1. phase = "logic" /\ pc < codeEnd /\ image # Null
  <2>1. phase = "logic" /\ pc < codeEnd
    BY DEF Execute, BranchBegin, LaneBegin, LaneEnd, BranchEnd, BranchFault,
           Contact, Coil, OneShot, OnDelay, Count, Reset, Compare, Data,
           Executing, AtInstruction
  <2>. QED  BY <2>1 DEF ScanOnlyWhileActive
<1>2. CASE pc' = pc + 1 /\ UNCHANGED <<diag, stepUnchanged>>
  BY <1>1, <1>2 DEF stepUnchanged, Place, CutAtRungBoundary, Boundaries, ScanPlace,
                    P, Code, TypeOK, ScanOK
<1>3. CASE (\E m \in Faults : Abort(m)) \/ BranchFault
  <2>1. PICK m \in Faults : FailWith(m, diag)
    BY <1>3 DEF Abort, BranchFault, Fail, Faults
  <2>2. UNCHANGED <<image, codeEnd>> /\ diag \in Diag
    BY <1>3 DEF Abort, BranchFault, TypeOK
  <2>. QED  BY <1>1, <2>1, <2>2, PlaceFail
<1>4. CASE BranchBegin \/ LaneBegin \/ LaneEnd \/ BranchEnd
  BY <1>2, <1>4 DEF BranchBegin, LaneBegin, LaneEnd, BranchEnd
<1>5. CASE Contact \/ Coil \/ OneShot \/ Count \/ Reset \/ Compare
  BY <1>2, <1>5 DEF Contact, Coil, OneShot, Count, Reset, Compare, Continue
<1>6. CASE OnDelay
  BY <1>2, <1>3, <1>6 DEF OnDelay, Continue, Faults
<1>7. CASE Data
  BY <1>2, <1>3, <1>7 DEF Data, Continue, DataFault, Faults
<1>. QED  BY <1>3, <1>4, <1>5, <1>6, <1>7 DEF Execute

LEMMA PlaceStep ==
  ASSUME Inductive, [Next]_vars
  PROVE  Place'
<1>. USE DEF Inductive
<1>0. Place
  BY DEF Place
<1>1. CASE Host
  BY <1>1, PlaceHost
<1>2. CASE Execute
  BY <1>2, PlaceExecute
<1>3. CASE \E id \in pending : InputFault(id) \/ OutputFault(id)
  <2>1. PICK m \in Faults : FailWith(m, diag)
    BY <1>3 DEF InputFault, OutputFault, Fail, Faults
  <2>2. UNCHANGED <<image, codeEnd>> /\ diag \in Diag /\ image # Null
    BY <1>3 DEF InputFault, OutputFault, TypeOK, ScanOnlyWhileActive
  <2>. QED  BY <2>1, <2>2, PlaceFail
<1>4. CASE \E id \in pending :
             (\E v \in Readings(id) : CaptureInput(id, v)) \/ WriteOutput(id)
  <2>1. /\ UNCHANGED <<mode, image, codeEnd, diag, phase, scanVars, clock>>
        /\ pending' \subseteq pending
    BY <1>4 DEF CaptureInput, WriteOutput, StillDue
  <2>. QED
    BY <1>0, <2>1 DEF scanVars, Place, CutAtRungBoundary, Boundaries, ScanPlace, P, Code
<1>5. CASE InputsDone
  BY <1>0, <1>5, RungFacts
  DEF InputsDone, scanVars, Place, CutAtRungBoundary, Boundaries, ScanPlace, P, Code,
      ScanOnlyWhileActive
<1>6. CASE StartRung
  <2>1. /\ phase = "rung" /\ phase' = "logic" /\ saved' = codeEnd
        /\ UNCHANGED <<mode, image, diag, pending, pc, tick, clock>>
    BY <1>6 DEF StartRung
  <2>2. /\ image # Null /\ rung' \in 1..Len(P.rungs) /\ codeEnd' = RungEnd(P, rung')
        /\ pc <= codeEnd'
    BY <1>6, NextRung
  <2>. QED
    BY <1>0, <2>1, <2>2 DEF Place, CutAtRungBoundary, Boundaries, ScanPlace, P, Code
<1>7. CASE EndRung
  <2>1. /\ phase = "logic" /\ phase' = "rung" /\ pc >= codeEnd /\ codeEnd' = saved
        /\ UNCHANGED <<mode, image, diag, pending, clock, scanVars>>
    BY <1>7 DEF EndRung, SizeRestored
  <2>2. image # Null /\ pc \in Nat /\ codeEnd \in Nat
    BY <2>1 DEF ScanOnlyWhileActive, TypeOK, ScanOK
  <2>3. rung \in 1..Len(P.rungs) /\ pc = RungEnd(P, rung) /\ Len(P.rungs) \in Nat
    BY <2>1, <2>2, RungFacts DEF ScanPlace
  <2>. QED
    BY <1>0, <2>1, <2>2, <2>3
    DEF scanVars, Place, CutAtRungBoundary, Boundaries, ScanPlace, P, Code
<1>8. CASE RungsDone
  <2>1. /\ phase = "rung" /\ phase' = "output" /\ pc >= codeEnd
        /\ pending' = OutputsDue
        /\ UNCHANGED <<mode, image, diag, codeEnd, clock, scanVars>>
    BY <1>8 DEF RungsDone
  <2>2. image # Null /\ pc \in Nat /\ codeEnd \in Nat
    BY <2>1 DEF ScanOnlyWhileActive, TypeOK, ScanOK
  <2>3. pc <= Len(Code)
    BY <2>1, <2>2, RungFacts DEF ScanPlace
  <2>. QED
    BY <1>0, <2>1, <2>2, <2>3
    DEF OutputsDue, scanVars, Place, CutAtRungBoundary, Boundaries, ScanPlace, P, Code
<1>9. ASSUME NEW d \in ScanDurations, FinishScan(d)
      PROVE  Place'
  <2>1. /\ UNCHANGED <<image, codeEnd>> /\ image # Null /\ d \in Nat /\ diag \in Diag
        /\ phase = "output"
    BY <1>9, RuntimeAssumptions
    DEF RuntimeAssumption, FinishScan, ScanOnlyWhileActive, TypeOK
  <2>2. CASE FailWith("WATCHDOG", ScanDiag(d))
    BY <2>1, <2>2, PlaceFail, ScanDiagTyped DEF Faults
  <2>3. CASE diag' = ScanDiag(d) /\ ScanOver
    <3>1. diag'.faults = diag.faults
      BY <2>1, <2>3 DEF ScanDiag, Diag
    <3>. QED
      BY <1>0, <2>1, <2>3, <3>1
      DEF ScanOver, Place, CutAtRungBoundary, Boundaries, ScanPlace, P, Code
  <2>. QED  BY <1>9, <2>2, <2>3 DEF FinishScan
<1>10. CASE UNCHANGED vars
  BY <1>0, <1>10 DEF vars, Place, CutAtRungBoundary, Boundaries, ScanPlace, P, Code
<1>. QED
  BY <1>1, <1>2, <1>3, <1>4, <1>5, <1>6, <1>7, <1>8, <1>9, <1>10 DEF Next, ScanStep

\* A scan that is over has no size saved.
LEMMA IdleStep ==
  ASSUME Inductive, [Next]_vars, phase' = "idle"
  PROVE  saved' = 0
<1>1. CASE Host
  <2>1. phase = "idle" /\ saved = 0
    BY <1>1, HostShape DEF Inductive
  <2>2. UNCHANGED saved
    BY <1>1 DEF Host, LoadImage, UnloadProgram, Deinit, SetMode, Prescan, Postscan,
                WriteTag, ForceTag, ClearForce, ClearAllForces, ClearWriteTrace,
                BeginScan, hostUnchanged, scanVars
  <2>. QED  BY <2>1, <2>2
<1>2. CASE ScanStep
  <2>1. CASE Execute
    <3>1. CASE phase' = phase
      BY <2>1, <3>1, ExecuteShape
    <3>2. CASE ScanOver
      BY <3>2 DEF ScanOver
    <3>. QED
      BY <2>1, <3>1, <3>2
      DEF Execute, BranchBegin, LaneBegin, LaneEnd, BranchEnd, BranchFault, Contact,
          Coil, OneShot, OnDelay, Count, Reset, Compare, Data, Continue, Abort, Fail,
          FailWith, stepUnchanged
  <2>2. CASE \E id \in pending : InputFault(id) \/ OutputFault(id)
    BY <2>2 DEF InputFault, OutputFault, Fail, FailWith, ScanOver
  <2>3. CASE \E d \in ScanDurations : FinishScan(d)
    BY <2>3 DEF FinishScan, FailWith, ScanOver
  <2>4. CASE \/ \E id \in pending :
                  (\E v \in Readings(id) : CaptureInput(id, v))
                  \/ WriteOutput(id)
             \/ InputsDone \/ StartRung \/ EndRung \/ RungsDone
    BY <2>4 DEF CaptureInput, WriteOutput, InputsDone, StartRung, EndRung, RungsDone
  <2>. QED  BY <1>2, <2>1, <2>2, <2>3, <2>4 DEF ScanStep
<1>3. CASE UNCHANGED vars
  BY <1>3 DEF vars, Inductive
<1>. QED  BY <1>1, <1>2, <1>3 DEF Next

-----------------------------------------------------------------------------
(* The theorems *)

LEMMA InductiveStep == Inductive /\ [Next]_vars => Inductive'
<1>. SUFFICES ASSUME Inductive, [Next]_vars  PROVE Inductive'
  OBVIOUS
<1>1. Scalars' /\ Tables'
  BY ScalarsStep, TablesStep
<1>2. TypeOK'
  BY <1>1 DEF TypeOK, Scalars, Tables
<1>3. ScanOnlyWhileActive'
  BY ScanOnlyWhileActiveStep DEF Inductive
<1>4. CutAtRungBoundary' /\ (image' # Null => ScanPlace')
  BY PlaceStep DEF Place
<1>5. phase' = "idle" => saved' = 0
  BY IdleStep
<1>. QED  BY <1>2, <1>3, <1>4, <1>5 DEF Inductive

LEMMA InductiveInit == Init => Inductive
<1>. SUFFICES ASSUME Init  PROVE Inductive
  OBVIOUS
<1>. USE DEF Init
<1>1. NoDiag \in Diag /\ NoFault \in [message : Faults \cup {"NONE"}, scan : Nat]
  BY DEF NoDiag, NoFault, Diag
<1>2. ScanOK
  BY DEF ScanOK, Phases
<1>3. 0 \in 0..TraceCapacity
  BY RuntimeAssumptions DEF RuntimeAssumption
<1>4. TypeOK
  BY <1>1, <1>2, <1>3 DEF TypeOK, Modes
<1>. QED  BY <1>4 DEF Inductive, ScanOnlyWhileActive, CutAtRungBoundary, Active

\* The invariant the other theorems rest on.
THEOREM InductiveHolds == Spec => []Inductive
BY InductiveInit, InductiveStep, PTL DEF Spec

\* Every variable has its type in every state: no instruction, forced value,
\* captured input, reset or fault leaves a tag outside its type's range.
THEOREM TypesHold == Spec => []TypeOK
<1>1. Inductive => TypeOK
  BY DEF Inductive
<1>. QED  BY <1>1, InductiveHolds, PTL

\* A fault leaves the code cut at the end of a rung, never inside one.
THEOREM CutsAreRungEnds == Spec => []CutAtRungBoundary
<1>1. Inductive => CutAtRungBoundary
  BY DEF Inductive
<1>. QED  BY <1>1, InductiveHolds, PTL

\* Without a fault since the load, a scan that reaches its outputs has run the
\* whole instruction stream.
THEOREM WholeImageRuns == Spec => []FaultFreeScanRunsAll
<1>1. Inductive => FaultFreeScanRunsAll
  <2>. SUFFICES ASSUME Inductive, phase = "output", diag.faults = 0
                PROVE  pc = Len(Code)
    BY DEF FaultFreeScanRunsAll
  <2>1. image # Null /\ pc <= Len(Code) /\ Len(Code) <= pc
    BY DEF Inductive, ScanOnlyWhileActive, ScanPlace
  <2>2. pc \in Nat /\ Len(Code) \in Nat
    BY <2>1, RungFacts DEF Inductive, TypeOK, ScanOK
  <2>. QED  BY <2>1, <2>2
<1>. QED  BY <1>1, InductiveHolds, PTL

\* A physical output changes only while a scan in RUN writes its outputs.
THEOREM OutputsChangeOnlyInRun == Spec => OutputsOnlyInRun
<1>1. Inductive /\ [Next]_vars
        => [output' # output => mode = "RUN" /\ phase = "output"]_vars
  <2>. SUFFICES ASSUME Inductive, Next, output' # output
                PROVE  mode = "RUN" /\ phase = "output"
    OBVIOUS
  <2>1. CASE Host
    BY <2>1, HostShape
  <2>2. CASE ScanStep
    <3>1. phase = "output" /\ image # Null
      BY <2>2, ScanStepShape DEF Inductive, ScanOnlyWhileActive
    <3>2. pending # {}
      BY <2>2, <3>1, OutputNeedsPending
    <3>. QED  BY <3>1, <3>2 DEF Inductive, ScanPlace
  <2>. QED  BY <2>1, <2>2 DEF Next
<1>. QED  BY <1>1, InductiveHolds, PTL DEF Spec, OutputsOnlyInRun

-----------------------------------------------------------------------------
(* The forces and their count.                                             *)

LEMMA FailKeepsForces ==
  ASSUME NEW m, NEW d \in Diag, FailWith(m, d)
  PROVE  diag'.forces = d.forces
BY DEF FailWith, Diag

\* No step of a scan touches a force.
LEMMA ScanKeepsForces ==
  ASSUME Inductive, ScanStep
  PROVE  UNCHANGED <<image, force>> /\ diag'.forces = diag.forces
<1>1. diag \in Diag
  BY DEF Inductive, TypeOK
<1>2. CASE \E id \in pending : InputFault(id) \/ OutputFault(id)
  BY <1>1, <1>2, FailKeepsForces DEF InputFault, OutputFault, Fail
<1>3. CASE \/ \E id \in pending :
                (\E v \in Readings(id) : CaptureInput(id, v)) \/ WriteOutput(id)
           \/ InputsDone \/ StartRung \/ EndRung \/ RungsDone
  BY <1>3 DEF CaptureInput, WriteOutput, InputsDone, StartRung, EndRung, RungsDone
<1>4. CASE Execute
  <2>1. ASSUME NEW m, Abort(m)
        PROVE  UNCHANGED <<image, force>> /\ diag'.forces = diag.forces
    BY <1>1, <2>1, FailKeepsForces DEF Abort, Fail
  <2>2. CASE BranchFault
    BY <1>1, <2>2, FailKeepsForces DEF BranchFault, Fail
  <2>3. CASE BranchBegin \/ LaneBegin \/ LaneEnd \/ BranchEnd
    BY <2>3 DEF BranchBegin, LaneBegin, LaneEnd, BranchEnd, stepUnchanged
  <2>4. CASE Contact \/ Coil \/ OneShot \/ Count \/ Reset \/ Compare
    BY <2>4 DEF Contact, Coil, OneShot, Count, Reset, Compare, Continue, stepUnchanged
  <2>5. CASE OnDelay
    BY <2>1, <2>5 DEF OnDelay, Continue, stepUnchanged
  <2>6. CASE Data
    BY <2>1, <2>6 DEF Data, Continue, stepUnchanged
  <2>. QED  BY <1>4, <2>2, <2>3, <2>4, <2>5, <2>6 DEF Execute
<1>5. ASSUME NEW d \in ScanDurations, FinishScan(d)
      PROVE  UNCHANGED <<image, force>> /\ diag'.forces = diag.forces
  <2>1. d \in Nat
    BY RuntimeAssumptions DEF RuntimeAssumption
  <2>2. ScanDiag(d) \in Diag
    BY <1>1, <2>1, ScanDiagTyped
  <2>3. ScanDiag(d).forces = diag.forces
    BY <1>1 DEF ScanDiag, Diag
  <2>. QED  BY <1>5, <2>2, <2>3, FailKeepsForces DEF FinishScan
<1>. QED  BY <1>2, <1>3, <1>4, <1>5 DEF ScanStep

LEMMA ForcedIsFinite ==
  ASSUME Inductive, image # Null
  PROVE  IsFiniteSet(DOMAIN force)
<1>1. image \in Images /\ DOMAIN force \subseteq TagIds(P)
  BY DEF Inductive, TypeOK, TablesOK
<1>2. Len(P.tags) \in Nat
  BY <1>1, Assumptions DEF ImageAssumption, P
<1>3. IsFiniteSet(TagIds(P))
  BY <1>2, FS_Interval DEF TagIds
<1>. QED  BY <1>1, <1>3, FS_Subset

LEMMA HostCountsForces ==
  ASSUME Inductive, ForceCountExact, Host
  PROVE  ForceCountExact'
<1>1. diag \in Diag /\ NoDiag.forces = 0 /\ Cardinality({}) = 0
  BY FS_EmptySet DEF Inductive, TypeOK, NoDiag
<1>2. ASSUME DOMAIN force' = {}, diag'.forces = 0  PROVE ForceCountExact'
  BY <1>1, <1>2 DEF ForceCountExact
<1>3. CASE \E i \in Images : LoadImage(i)
  <2>1. force' = <<>> /\ diag' = NoDiag
    BY <1>3 DEF LoadImage, Install
  <2>. QED  BY <1>1, <1>2, <2>1
<1>4. CASE UnloadProgram \/ Deinit
  <2>1. force' = <<>> /\ diag' = NoDiag
    BY <1>4 DEF UnloadProgram, Deinit, Forget
  <2>. QED  BY <1>1, <1>2, <2>1
<1>5. CASE ClearAllForces
  <2>1. force' = <<>> /\ diag' = [diag EXCEPT !.forces = 0]
    BY <1>5 DEF ClearAllForces
  <2>2. diag'.forces = 0
    BY <1>1, <2>1 DEF Diag
  <2>. QED  BY <1>2, <2>1, <2>2
<1>6. ASSUME NEW id \in HostTags, NEW v \in HostChoices(id), ForceTag(id, v)
      PROVE  ForceCountExact'
  <2>1. /\ DOMAIN force' = DOMAIN force \cup {id} /\ image' = image /\ image # Null
        /\ diag' = [diag EXCEPT !.forces = ForcesWith(id)]
    BY <1>6 DEF ForceTag, hostUnchanged
  <2>2. diag'.forces = ForcesWith(id) /\ diag.forces = Cardinality(DOMAIN force)
    BY <1>1, <2>1 DEF Diag, ForceCountExact
  <2>3. Cardinality(DOMAIN force \cup {id}) =
          IF id \in DOMAIN force THEN Cardinality(DOMAIN force)
                                 ELSE Cardinality(DOMAIN force) + 1
    BY <2>1, ForcedIsFinite, FS_AddElement
  <2>. QED  BY <2>1, <2>2, <2>3 DEF ForcesWith, ForceCountExact
<1>7. ASSUME NEW id \in HostTags, ClearForce(id)
      PROVE  ForceCountExact'
  <2>1. /\ DOMAIN force' = DOMAIN force \ {id} /\ image' = image /\ image # Null
        /\ id \in DOMAIN force /\ diag' = [diag EXCEPT !.forces = @ - 1]
    BY <1>7 DEF ClearForce, hostUnchanged
  <2>2. diag'.forces = diag.forces - 1 /\ diag.forces = Cardinality(DOMAIN force)
    BY <1>1, <2>1 DEF Diag, ForceCountExact
  <2>3. Cardinality(DOMAIN force \ {id}) = Cardinality(DOMAIN force) - 1
    BY <2>1, ForcedIsFinite, FS_RemoveElement
  <2>. QED  BY <2>1, <2>2, <2>3 DEF ForceCountExact
<1>8. CASE \/ \E m \in Modes : SetMode(m)
           \/ Prescan \/ Postscan
           \/ \E id \in HostTags : \E v \in HostChoices(id) : WriteTag(id, v)
           \/ ClearWriteTrace
           \/ \E gap \in ScanGaps : BeginScan(gap)
  <2>1. UNCHANGED <<image, force, diag>>
    BY <1>8 DEF SetMode, Prescan, Postscan, WriteTag, ClearWriteTrace, BeginScan,
                hostUnchanged
  <2>. QED  BY <2>1 DEF ForceCountExact
<1>. QED  BY <1>3, <1>4, <1>5, <1>6, <1>7, <1>8 DEF Host

\* The count of active forces, kept by increments and decrements, is the
\* number of forced tags after any sequence of forces, clears and loads.
THEOREM ForceCountHolds == Spec => []ForceCountExact
<1>1. Init => ForceCountExact
  BY DEF Init, ForceCountExact
<1>2. Inductive /\ ForceCountExact /\ [Next]_vars => ForceCountExact'
  <2>. SUFFICES ASSUME Inductive, ForceCountExact, [Next]_vars
                PROVE  ForceCountExact'
    OBVIOUS
  <2>1. CASE Host
    BY <2>1, HostCountsForces
  <2>2. CASE ScanStep
    BY <2>2, ScanKeepsForces DEF ForceCountExact
  <2>3. CASE UNCHANGED vars
    BY <2>3 DEF vars, ForceCountExact
  <2>. QED  BY <2>1, <2>2, <2>3 DEF Next
<1>. QED  BY <1>1, <1>2, InductiveHolds, PTL DEF Spec

-----------------------------------------------------------------------------
(* What the outputs show.                                                  *)

\* Only the end of the rungs leads to the phase that writes the outputs, and
\* only the write of an endpoint continues it.
LEMMA IntoOutput ==
  ASSUME Inductive, ScanStep, phase' = "output"
  PROVE  \/ RungsDone
         \/ \E id \in pending : WriteOutput(id)
<1>1. CASE \E id \in pending :
             (\E v \in Readings(id) : CaptureInput(id, v)) \/ InputFault(id) \/ OutputFault(id)
  BY <1>1 DEF CaptureInput, InputFault, OutputFault, Fail, FailWith, ScanOver
<1>2. CASE InputsDone \/ StartRung \/ EndRung
  BY <1>2 DEF InputsDone, StartRung, EndRung
<1>3. CASE Execute
  BY <1>3, ExecuteShape DEF Keeps, Fails
<1>4. CASE \E d \in ScanDurations : FinishScan(d)
  BY <1>4 DEF FinishScan, FailWith, ScanOver
<1>. QED  BY <1>1, <1>2, <1>3, <1>4 DEF ScanStep

\* While a scan in RUN writes its outputs, every endpoint already written
\* shows its tag's effective value: no host, force or instruction comes in
\* between.
THEOREM OutputsShowTags == Spec => []OutputsPublished
<1>1. Init => OutputsPublished
  BY DEF Init, OutputsPublished
<1>2. Inductive /\ OutputsPublished /\ [Next]_vars => OutputsPublished'
  <2>. SUFFICES ASSUME Inductive, OutputsPublished, [Next]_vars,
                       phase' = "output", mode' = "RUN",
                       NEW k \in OutputIds(P') \ pending'
                PROVE  k \in DOMAIN output' /\ output'[k] = Effective(k)'
    BY DEF OutputsPublished
  <2>1. CASE Host
    BY <2>1, HostShape
  <2>2. CASE RungsDone
    BY <2>2 DEF RungsDone, OutputsDue, P
  <2>3. ASSUME NEW id \in pending, WriteOutput(id)
        PROVE  k \in DOMAIN output' /\ output'[k] = Effective(k)'
    <3>1. /\ phase = "output" /\ UNCHANGED <<mode, image, tag, force>>
          /\ pending' = pending \ {id}
          /\ output' = [j \in DOMAIN output \cup {id} |->
                          IF j = id THEN Effective(id) ELSE output[j]]
      BY <2>3 DEF WriteOutput, StillDue, Published
    <3>2. P' = P /\ Effective(k)' = Effective(k)
      BY <3>1 DEF P, Effective
    <3>3. CASE k = id
      BY <3>1, <3>2, <3>3
    <3>4. CASE k # id
      <4>1. k \in DOMAIN output /\ output[k] = Effective(k)
        BY <3>1, <3>2, <3>4 DEF OutputsPublished
      <4>. QED  BY <3>1, <3>2, <3>4, <4>1
    <3>. QED  BY <3>3, <3>4
  <2>4. CASE UNCHANGED vars
    BY <2>4 DEF vars, OutputsPublished, P, Effective
  <2>. QED  BY <2>1, <2>2, <2>3, <2>4, IntoOutput DEF Next
<1>. QED  BY <1>1, <1>2, InductiveHolds, PTL DEF Spec

-----------------------------------------------------------------------------
(* What an instruction does to the tags: it may write one that is not an   *)
(* input, and leaves the others as they are.                               *)

\* What an instruction's operands say of the tag it writes to.
Target(id) ==
  /\ id \in TagIds(P) /\ ~IsInput(P, id)
  /\ \A j \in TagIds(P) \ {id} : tag'[j] = tag[j]

LEMMA InstructionAt ==
  ASSUME Inductive, Execute
  PROVE  /\ image # Null /\ image' = image /\ phase = "logic"
         /\ image \in Images /\ ValidTags(P) /\ DOMAIN tag = TagIds(P)
         /\ Op \in Opcodes /\ ValidOperands(P, I) /\ I.op = Op
<1>1. phase = "logic" /\ pc < codeEnd
  BY DEF Execute, BranchBegin, LaneBegin, LaneEnd, BranchEnd, BranchFault,
         Contact, Coil, OneShot, OnDelay, Count, Reset, Compare, Data,
         Executing, AtInstruction
<1>2. image # Null
  BY <1>1 DEF Inductive, ScanOnlyWhileActive
<1>3. image \in Images /\ ValidTags(P) /\ DOMAIN tag = TagIds(P)
  BY <1>2 DEF Inductive, TypeOK, TablesOK, Bootable, ValidImage, P
<1>4. Op \in Opcodes /\ ValidOperands(P, I)
  BY <1>1, <1>2, OperandFacts DEF Inductive
<1>5. I.op = Op /\ image' = image
  BY ExecuteShape DEF I, Op, Keeps, Fails
<1>. QED  BY <1>1, <1>2, <1>3, <1>4, <1>5

\* Only scalar tags are inputs.
LEMMA NoInputTimer ==
  ASSUME image \in Images, NEW id \in TagIds(P), TypeOf(P, id) \in {"TIMER", "COUNTER"}
  PROVE  ~IsInput(P, id)
<1>1. P.tags[id].storage # "internal" => P.tags[id].type \in ScalarTypes
  BY Assumptions DEF ImageAssumption, P
<1>2. ScalarTypes \cap {"TIMER", "COUNTER"} = {}
  BY DEF ScalarTypes
<1>. QED  BY <1>1, <1>2 DEF IsInput, TypeOf

LEMMA ExecuteWrites ==
  ASSUME Inductive, Execute
  PROVE  tag' = tag \/ \E id \in TagIds(P) : Target(id)
<1>1. /\ image \in Images /\ DOMAIN tag = TagIds(P)
      /\ ValidOperands(P, I) /\ I.op = Op
  BY InstructionAt
<1>2. ASSUME NEW id, NEW v, tag' = [tag EXCEPT ![id] = v], id \in TagIds(P), ~IsInput(P, id)
      PROVE  Target(id)
  BY <1>1, <1>2 DEF Target
<1>3. CASE BranchBegin \/ LaneBegin \/ LaneEnd \/ BranchEnd \/ BranchFault \/ Contact \/ Compare
  BY <1>3 DEF BranchBegin, LaneBegin, LaneEnd, BranchEnd, BranchFault, Contact, Compare
<1>4. CASE Coil
  <2>1. Writable(P, I.a, {"BOOL"})
    BY <1>1, <1>4 DEF Coil, Executing, ValidOperands
  <2>. QED  BY <1>2, <1>4, <2>1 DEF Coil, Put, Writable, WholeTag
<1>5. CASE OneShot
  <2>1. Writable(P, I.a, {"BOOL"})
    BY <1>1, <1>5 DEF OneShot, Executing, ValidOperands
  <2>. QED  BY <1>2, <1>5, <2>1 DEF OneShot, Put, Writable, WholeTag
<1>6. CASE OnDelay \/ Count \/ Reset
  <2>1. WholeTag(P, I.a, {"TIMER", "COUNTER"})
    BY <1>1, <1>6 DEF OnDelay, Count, Reset, Executing, ValidOperands, WholeTag
  <2>2. I.a.id \in TagIds(P) /\ ~IsInput(P, I.a.id)
    BY <1>1, <2>1, NoInputTimer DEF WholeTag
  <2>3. tag' = tag \/ \E v : tag' = [tag EXCEPT ![I.a.id] = v]
    <3>1. CASE OnDelay
      BY <3>1 DEF OnDelay, Abort
    <3>2. CASE Count
      BY <3>2 DEF Count
    <3>3. CASE Reset
      BY <3>3 DEF Reset
    <3>. QED  BY <1>6, <3>1, <3>2, <3>3
  <2>. QED  BY <1>2, <2>2, <2>3
<1>7. CASE Data
  <2>1. CASE tag' = tag
    BY <2>1
  <2>2. CASE DataFault = "NONE" /\ tag' = [tag EXCEPT ![Destination.id] = Result]
    <3>1. Op \in DataOps /\ image # Null /\ TypeOK
      BY <1>7, InstructionAt DEF Data, Executing, Inductive
    <3>2. Writable(P, Destination, ScalarTypes)
      BY <1>1, <2>2, <3>1, ResultTyped
    <3>. QED  BY <1>2, <2>2, <3>2 DEF Writable, WholeTag
  <2>. QED  BY <1>7, <2>1, <2>2 DEF Data, Abort, Put
<1>. QED  BY <1>3, <1>4, <1>5, <1>6, <1>7 DEF Execute

\* After its capture an input keeps its value to the end of the scan: no
\* instruction of any valid image writes to it.
THEOREM InputsAreHeld == Spec => InputsHeld
<1>1. Inductive /\ [Next]_vars
        => [(phase \in {"rung", "logic", "output"}) =>
              \A id \in InputIds(P) : tag'[id] = tag[id]]_vars
  <2>. SUFFICES ASSUME Inductive, Next, phase \in {"rung", "logic", "output"},
                       NEW k \in InputIds(P)
                PROVE  tag'[k] = tag[k]
    OBVIOUS
  <2>1. CASE Host
    BY <2>1, HostShape
  <2>2. CASE Execute
    <3>1. k \in TagIds(P) /\ IsInput(P, k)
      BY DEF InputIds
    <3>. QED  BY <2>2, <3>1, ExecuteWrites DEF Target
  <2>3. CASE \/ \E id \in pending :
                  \/ \E v \in Readings(id) : CaptureInput(id, v)
                  \/ InputFault(id) \/ WriteOutput(id) \/ OutputFault(id)
             \/ InputsDone \/ StartRung \/ EndRung \/ RungsDone
             \/ \E d \in ScanDurations : FinishScan(d)
    BY <2>3 DEF CaptureInput, InputFault, WriteOutput, OutputFault, InputsDone, StartRung,
                EndRung, RungsDone, FinishScan
  <2>. QED  BY <2>1, <2>2, <2>3 DEF Next, ScanStep
<1>. QED  BY <1>1, InductiveHolds, PTL DEF Spec, InputsHeld

-----------------------------------------------------------------------------
(* Timers and counters.                                                    *)

CoherentTimer(t) == IF t.en THEN t.dn = (t.acc >= t.pre) /\ t.tt = ~t.dn
                            ELSE ~t.tt /\ ~t.dn

CoherentCounter(c) == c.dn => c.acc >= c.pre

Coherent(type, v) ==
  /\ type = "TIMER" => CoherentTimer(v)
  /\ type = "COUNTER" => CoherentCounter(v)

\* InstructionsCoherent, one tag at a time.
AllCoherent == image # Null => \A id \in TagIds(P) : Coherent(TypeOf(P, id), tag[id])

LEMMA CoherentIsAll == InstructionsCoherent <=> AllCoherent
<1>1. TimerCoherent <=>
        (image # Null => \A id \in TagIds(P) : TypeOf(P, id) = "TIMER" => CoherentTimer(tag[id]))
  BY Zenon DEF TimerCoherent, CoherentTimer
<1>2. CounterCoherent <=>
        (image # Null => \A id \in TagIds(P) : TypeOf(P, id) = "COUNTER" => CoherentCounter(tag[id]))
  BY Zenon DEF CounterCoherent, CoherentCounter
<1>. QED  BY <1>1, <1>2, Zenon DEF InstructionsCoherent, AllCoherent, Coherent

LEMMA ClearedCoherent ==
  ASSUME NEW t \in TimerValue
  PROVE  CoherentTimer(ClearTimer(t))
BY DEF TimerValue, ClearTimer, CoherentTimer

LEMMA StoppedCoherent ==
  ASSUME NEW c \in CounterValue, CoherentCounter(c)
  PROVE  CoherentCounter(StopCounter(c)) /\ CoherentCounter(ResetCounter(c))
BY DEF CounterValue, StopCounter, ResetCounter, CoherentCounter

LEMMA RunCoherent ==
  ASSUME NEW t \in TimerValue
  PROVE  CoherentTimer(RunTimer(t))
<1>. DEFINE acc == TimerAcc(t)
            done == acc >= t.pre
            timing == ~done
<1>1. RunTimer(t) = [t EXCEPT !.en = TRUE, !.acc = acc, !.dn = done, !.tt = timing]
  BY Zenon DEF RunTimer
<1>3. /\ RunTimer(t).en = TRUE /\ RunTimer(t).acc = acc /\ RunTimer(t).dn = done
      /\ RunTimer(t).tt = timing /\ RunTimer(t).pre = t.pre
  <2>. HIDE DEF acc, done, timing
  <2>. DEFINE n == [t EXCEPT !.en = TRUE, !.acc = acc, !.dn = done, !.tt = timing]
  <2>1. n.en = TRUE /\ n.acc = acc /\ n.dn = done /\ n.tt = timing /\ n.pre = t.pre
    BY DEF TimerValue
  <2>. HIDE DEF n
  <2>2. RunTimer(t) = n
    BY <1>1, Zenon DEF n
  <2>. QED  BY <2>1, <2>2, Zenon
<1>4. RunTimer(t).dn = (RunTimer(t).acc >= RunTimer(t).pre)
  BY <1>3, Zenon
<1>5. RunTimer(t).tt = ~RunTimer(t).dn
  <2>. HIDE DEF done
  <2>. QED  BY <1>3, Zenon
<1>6. RunTimer(t).en
  BY <1>3, Zenon
<1>. QED  BY <1>4, <1>5, <1>6, Zenon DEF CoherentTimer

LEMMA CountCoherent ==
  ASSUME NEW c \in CounterValue
  PROVE  CoherentCounter(CountUp(c)) /\ CoherentCounter(CountDown(c))
<1>1. ASSUME NEW n, n.dn = (n.acc >= n.pre)
      PROVE  CoherentCounter(n)
  BY <1>1, Zenon DEF CoherentCounter
<1>3. CoherentCounter(CountUp(c))
  <2>. DEFINE wraps == Rise /\ c.acc = DintMax
              acc == IF wraps THEN DintMin ELSE IF Rise THEN c.acc + 1 ELSE c.acc
              done == acc >= c.pre
              over == c.ov \/ wraps
  <2>1. CountUp(c) = [c EXCEPT !.cu = power, !.acc = acc, !.ov = over, !.dn = done]
    BY Zenon DEF CountUp
  <2>2. CountUp(c).acc = acc /\ CountUp(c).dn = done /\ CountUp(c).pre = c.pre
    <3>. HIDE DEF wraps, acc, done, over
    <3>. DEFINE n == [c EXCEPT !.cu = power, !.acc = acc, !.ov = over, !.dn = done]
    <3>1. n.acc = acc /\ n.dn = done /\ n.pre = c.pre
      BY DEF CounterValue
    <3>. HIDE DEF n
    <3>2. CountUp(c) = n
      BY <2>1, Zenon DEF n
    <3>. QED  BY <3>1, <3>2, Zenon
  <2>3. CountUp(c).dn = (CountUp(c).acc >= CountUp(c).pre)
    BY <2>2, Zenon
  <2>. QED  BY <1>1, <2>3, Zenon
<1>4. CoherentCounter(CountDown(c))
  <2>. DEFINE wraps == Rise /\ c.acc = DintMin
              acc == IF wraps THEN DintMax ELSE IF Rise THEN c.acc - 1 ELSE c.acc
              done == acc >= c.pre
              under == c.un \/ wraps
  <2>1. CountDown(c) = [c EXCEPT !.cd = power, !.acc = acc, !.un = under, !.dn = done]
    BY Zenon DEF CountDown
  <2>2. CountDown(c).acc = acc /\ CountDown(c).dn = done /\ CountDown(c).pre = c.pre
    <3>. HIDE DEF wraps, acc, done, under
    <3>. DEFINE n == [c EXCEPT !.cd = power, !.acc = acc, !.un = under, !.dn = done]
    <3>1. n.acc = acc /\ n.dn = done /\ n.pre = c.pre
      BY DEF CounterValue
    <3>. HIDE DEF n
    <3>2. CountDown(c) = n
      BY <2>1, Zenon DEF n
    <3>. QED  BY <3>1, <3>2, Zenon
  <2>3. CountDown(c).dn = (CountDown(c).acc >= CountDown(c).pre)
    BY <2>2, Zenon
  <2>. QED  BY <1>1, <2>3, Zenon
<1>. QED  BY <1>3, <1>4

\* What a loaded image says of its tags.
LEMMA LoadedTags ==
  ASSUME Inductive, image # Null
  PROVE  /\ image \in Images /\ DOMAIN tag = TagIds(P)
         /\ \A id \in TagIds(P) : tag[id] \in ValueSet(TypeOf(P, id))
BY DEF Inductive, TypeOK, TablesOK

LEMMA TimerTag ==
  ASSUME Inductive, image # Null, NEW id \in TagIds(P)
  PROVE  /\ TypeOf(P, id) = "TIMER" => tag[id] \in TimerValue
         /\ TypeOf(P, id) = "COUNTER" => tag[id] \in CounterValue
BY LoadedTags DEF ValueSet

\* A write to one tag with a coherent value.
LEMMA WroteCoherent ==
  ASSUME AllCoherent, image # Null, image' = image, NEW k \in TagIds(P),
         DOMAIN tag = TagIds(P), NEW v, tag' = [tag EXCEPT ![k] = v],
         Coherent(TypeOf(P, k), v)
  PROVE  AllCoherent'
<1>1. ASSUME NEW id \in TagIds(P)  PROVE Coherent(TypeOf(P, id), tag'[id])
  <2>1. CASE id = k
    BY <2>1
  <2>2. CASE id # k
    BY <2>2 DEF AllCoherent
  <2>. QED  BY <2>1, <2>2
<1>. QED  BY <1>1 DEF AllCoherent, P

\* A scalar tag has nothing to be coherent about.
LEMMA ScalarCoherent ==
  ASSUME NEW type \in ScalarTypes, NEW v
  PROVE  Coherent(type, v)
BY DEF ScalarTypes, Coherent

LEMMA LifecycleCoherent ==
  ASSUME Inductive, AllCoherent, image # Null, image' = image,
         NEW prescan \in BOOLEAN, LifecycleOutputs(prescan)
  PROVE  AllCoherent'
<1>1. ASSUME NEW id \in TagIds(P)
      PROVE  Coherent(TypeOf(P, id), tag'[id])
  <2>1. tag'[id] = LifecycleValue(id, prescan) /\ Coherent(TypeOf(P, id), tag[id])
    BY LoadedTags DEF LifecycleOutputs, AllCoherent
  <2>2. CASE TypeOf(P, id) = "TIMER"
    <3>1. tag'[id] = ClearTimer(tag[id])
      BY <2>1, <2>2 DEF LifecycleValue
    <3>2. CoherentTimer(tag'[id])
      BY <2>2, <3>1, TimerTag, ClearedCoherent
    <3>. QED  BY <2>2, <3>2 DEF Coherent
  <2>3. CASE TypeOf(P, id) = "COUNTER"
    <3>1. tag'[id] = StopCounter(tag[id])
      BY <2>1, <2>3 DEF LifecycleValue
    <3>2. CoherentCounter(tag[id])
      BY <2>1, <2>3 DEF Coherent
    <3>3. CoherentCounter(tag'[id])
      BY <2>3, <3>1, <3>2, TimerTag, StoppedCoherent
    <3>. QED  BY <2>3, <3>3 DEF Coherent
  <2>. QED  BY <2>2, <2>3 DEF Coherent
<1>. QED  BY <1>1 DEF AllCoherent, P

LEMMA HostCoherent ==
  ASSUME Inductive, AllCoherent, Host
  PROVE  AllCoherent'
<1>1. ASSUME UNCHANGED <<image, tag>>  PROVE AllCoherent'
  BY <1>1 DEF AllCoherent, P
<1>2. ASSUME NEW i \in Images, LoadImage(i)  PROVE AllCoherent'
  <2>1. /\ P' = Program[i]
        /\ tag' = [id \in TagIds(Program[i]) |-> Program[i].tags[id].init]
    BY <1>2 DEF LoadImage, Install, P
  <2>2. ASSUME NEW id \in TagIds(Program[i])
        PROVE  Coherent(TypeOf(Program[i], id), Program[i].tags[id].init)
    <3>. DEFINE init == Program[i].tags[id].init
    <3>1. /\ TypeOf(Program[i], id) = "TIMER" => ~init.en /\ ~init.tt /\ ~init.dn
          /\ TypeOf(Program[i], id) = "COUNTER" => ~init.dn
      BY Assumptions DEF ImageAssumption, TypeOf
    <3>. QED  BY <3>1 DEF Coherent, CoherentTimer, CoherentCounter
  <2>. QED  BY <2>1, <2>2 DEF AllCoherent
<1>3. CASE UnloadProgram \/ Deinit
  BY <1>3 DEF UnloadProgram, Deinit, Forget, AllCoherent
<1>4. ASSUME NEW m \in Modes, SetMode(m)  PROVE AllCoherent'
  <2>1. image' = image
    BY <1>4 DEF SetMode
  <2>2. \/ image # Null /\ LifecycleOutputs(TRUE)
        \/ image # Null /\ LifecycleOutputs(FALSE)
        \/ UNCHANGED tag
    BY <1>4 DEF SetMode, ModeAccepted, ScanOnlyWhileActive, Inductive
  <2>3. CASE image # Null /\ (LifecycleOutputs(TRUE) \/ LifecycleOutputs(FALSE))
    BY <2>1, <2>3, LifecycleCoherent
  <2>. QED  BY <1>1, <2>1, <2>2, <2>3
<1>5. CASE Prescan
  BY <1>5, LifecycleCoherent DEF Prescan
<1>6. CASE Postscan
  BY <1>6, LifecycleCoherent DEF Postscan
<1>7. ASSUME NEW id \in HostTags, NEW v \in HostChoices(id), WriteTag(id, v)
      PROVE  AllCoherent'
  <2>1. image # Null /\ image' = image /\ tag' = [tag EXCEPT ![id] = v]
    BY <1>7 DEF WriteTag, Put, hostUnchanged
  <2>2. id \in TagIds(P) /\ Coherent(TypeOf(P, id), v)
    BY HostChoicesTyped, ScalarCoherent
  <2>. QED  BY <2>1, <2>2, LoadedTags, WroteCoherent
<1>8. CASE \/ \E id \in HostTags :
                (\E v \in HostChoices(id) : ForceTag(id, v)) \/ ClearForce(id)
           \/ ClearAllForces \/ ClearWriteTrace
           \/ \E gap \in ScanGaps : BeginScan(gap)
  BY <1>1, <1>8 DEF ForceTag, ClearForce, ClearAllForces, ClearWriteTrace, BeginScan,
                    hostUnchanged
<1>. QED  BY <1>2, <1>3, <1>4, <1>5, <1>6, <1>7, <1>8 DEF Host

LEMMA ExecuteCoherent ==
  ASSUME Inductive, AllCoherent, Execute
  PROVE  AllCoherent'
<1>1. /\ image # Null /\ image' = image
      /\ DOMAIN tag = TagIds(P) /\ ValidOperands(P, I) /\ I.op = Op
  BY InstructionAt
<1>2. CASE UNCHANGED tag
  BY <1>1, <1>2 DEF AllCoherent, P
<1>3. ASSUME NEW id \in TagIds(P), NEW v, tag' = [tag EXCEPT ![id] = v],
             TypeOf(P, id) \in ScalarTypes
      PROVE  AllCoherent'
  BY <1>1, <1>3, ScalarCoherent, WroteCoherent
<1>4. CASE BranchBegin \/ LaneBegin \/ LaneEnd \/ BranchEnd \/ BranchFault \/ Contact \/ Compare
  BY <1>2, <1>4 DEF BranchBegin, LaneBegin, LaneEnd, BranchEnd, BranchFault, Contact, Compare
<1>5. CASE Coil \/ OneShot
  <2>1. I.a.id \in TagIds(P) /\ TypeOf(P, I.a.id) \in ScalarTypes
    BY <1>1, <1>5 DEF Coil, OneShot, Executing, ValidOperands, Writable, WholeTag, ScalarTypes
  <2>2. tag' = tag \/ \E v : tag' = [tag EXCEPT ![I.a.id] = v]
    <3>1. CASE Coil
      BY <3>1 DEF Coil, Put
    <3>2. CASE OneShot
      BY <3>2 DEF OneShot, Put
    <3>. QED  BY <1>5, <3>1, <3>2
  <2>. QED  BY <1>2, <1>3, <2>1, <2>2
<1>6. CASE OnDelay
  <2>1. I.a.id \in TagIds(P) /\ TypeOf(P, I.a.id) = "TIMER"
    BY <1>1, <1>6 DEF OnDelay, Executing, ValidOperands, WholeTag
  <2>2. tag[I.a.id] \in TimerValue
    BY <1>1, <2>1, TimerTag
  <2>3. \/ tag' = tag
        \/ tag' = [tag EXCEPT ![I.a.id] = RunTimer(tag[I.a.id])]
        \/ tag' = [tag EXCEPT ![I.a.id] = ClearTimer(tag[I.a.id])]
    BY <1>6 DEF OnDelay, Abort
  <2>4. ASSUME NEW v, CoherentTimer(v)  PROVE Coherent(TypeOf(P, I.a.id), v)
    BY <2>1, <2>4 DEF Coherent
  <2>. QED  BY <1>1, <1>2, <2>1, <2>2, <2>3, <2>4, RunCoherent, ClearedCoherent, WroteCoherent
<1>7. CASE Count
  <2>1. I.a.id \in TagIds(P) /\ TypeOf(P, I.a.id) = "COUNTER"
    BY <1>1, <1>7 DEF Count, Executing, ValidOperands, WholeTag
  <2>2. tag[I.a.id] \in CounterValue
    BY <1>1, <2>1, TimerTag
  <2>3. \/ tag' = [tag EXCEPT ![I.a.id] = CountUp(tag[I.a.id])]
        \/ tag' = [tag EXCEPT ![I.a.id] = CountDown(tag[I.a.id])]
    BY <1>1, <1>7, <2>1 DEF Count
  <2>4. ASSUME NEW v, CoherentCounter(v)  PROVE Coherent(TypeOf(P, I.a.id), v)
    BY <2>1, <2>4 DEF Coherent
  <2>. QED  BY <1>1, <2>1, <2>2, <2>3, <2>4, CountCoherent, WroteCoherent
<1>8. CASE Reset
  <2>1. I.a.id \in TagIds(P) /\ TypeOf(P, I.a.id) \in {"TIMER", "COUNTER"}
    BY <1>1, <1>8 DEF Reset, Executing, ValidOperands, WholeTag
  <2>2. \/ tag' = tag
        \/ /\ TypeOf(P, I.a.id) = "TIMER"
           /\ tag' = [tag EXCEPT ![I.a.id] = ClearTimer(tag[I.a.id])]
        \/ /\ TypeOf(P, I.a.id) = "COUNTER"
           /\ tag' = [tag EXCEPT ![I.a.id] = ResetCounter(tag[I.a.id])]
    BY <1>1, <1>8, <2>1 DEF Reset
  <2>3. CASE /\ TypeOf(P, I.a.id) = "TIMER"
             /\ tag' = [tag EXCEPT ![I.a.id] = ClearTimer(tag[I.a.id])]
    <3>1. tag[I.a.id] \in TimerValue
      BY <1>1, <2>1, <2>3, TimerTag
    <3>2. Coherent(TypeOf(P, I.a.id), ClearTimer(tag[I.a.id]))
      BY <2>3, <3>1, ClearedCoherent DEF Coherent
    <3>. QED  BY <1>1, <2>1, <2>3, <3>2, WroteCoherent
  <2>4. CASE /\ TypeOf(P, I.a.id) = "COUNTER"
             /\ tag' = [tag EXCEPT ![I.a.id] = ResetCounter(tag[I.a.id])]
    <3>1. tag[I.a.id] \in CounterValue
      BY <1>1, <2>1, <2>4, TimerTag
    <3>2. CoherentCounter(tag[I.a.id])
      BY <1>1, <2>1, <2>4 DEF AllCoherent, Coherent
    <3>3. Coherent(TypeOf(P, I.a.id), ResetCounter(tag[I.a.id]))
      BY <2>4, <3>1, <3>2, StoppedCoherent DEF Coherent
    <3>. QED  BY <1>1, <2>1, <2>4, <3>3, WroteCoherent
  <2>. QED  BY <1>2, <2>2, <2>3, <2>4
<1>9. CASE Data
  <2>1. CASE tag' = tag
    BY <1>2, <2>1
  <2>2. CASE DataFault = "NONE" /\ tag' = [tag EXCEPT ![Destination.id] = Result]
    <3>1. Op \in DataOps /\ TypeOK
      BY <1>9 DEF Data, Executing, Inductive
    <3>2. Writable(P, Destination, ScalarTypes)
      BY <1>1, <2>2, <3>1, ResultTyped
    <3>. QED  BY <1>3, <2>2, <3>2 DEF Writable, WholeTag
  <2>. QED  BY <1>9, <2>1, <2>2 DEF Data, Abort, Put
<1>. QED  BY <1>4, <1>5, <1>6, <1>7, <1>8, <1>9 DEF Execute

\* What is captured goes to a scalar tag.
LEMMA CaptureCoherent ==
  ASSUME Inductive, AllCoherent, image # Null, NEW id \in pending,
         NEW v \in Readings(id), CaptureInput(id, v)
  PROVE  AllCoherent'
<1>1. phase = "input" /\ image' = image /\ tag' = [tag EXCEPT ![id] = v]
  BY DEF CaptureInput
<1>2. id \in TagIds(P) /\ IsInput(P, id)
  BY <1>1 DEF Inductive, ScanPlace, InputIds
<1>3. image \in Images /\ DOMAIN tag = TagIds(P)
  BY LoadedTags
<1>4. TypeOf(P, id) \in ScalarTypes
  <2>1. P.tags[id].storage # "internal" => P.tags[id].type \in ScalarTypes
    BY <1>2, <1>3, Assumptions DEF ImageAssumption, P
  <2>. QED  BY <1>2, <2>1 DEF IsInput, TypeOf
<1>. QED  BY <1>1, <1>2, <1>3, <1>4, ScalarCoherent, WroteCoherent

\* Whatever instructions, resets, faults and lifecycle passes write to them,
\* timers and counters say of themselves what their accumulators show.
THEOREM TimersAndCountersCohere == Spec => []InstructionsCoherent
<1>1. Init => AllCoherent
  BY DEF Init, AllCoherent
<1>2. Inductive /\ AllCoherent /\ [Next]_vars => AllCoherent'
  <2>. SUFFICES ASSUME Inductive, AllCoherent, [Next]_vars
                PROVE  AllCoherent'
    OBVIOUS
  <2>1. CASE Host
    BY <2>1, HostCoherent
  <2>2. CASE Execute
    BY <2>2, ExecuteCoherent
  <2>3. ASSUME NEW id \in pending, NEW v \in Readings(id), CaptureInput(id, v)
        PROVE  AllCoherent'
    <3>1. image # Null
      BY <2>3 DEF CaptureInput, Inductive, ScanOnlyWhileActive
    <3>. QED  BY <2>3, <3>1, CaptureCoherent
  <2>4. CASE \/ \E id \in pending : InputFault(id) \/ WriteOutput(id) \/ OutputFault(id)
             \/ InputsDone \/ StartRung \/ EndRung \/ RungsDone
             \/ \E d \in ScanDurations : FinishScan(d)
    <3>1. UNCHANGED <<image, tag>>
      BY <2>4 DEF InputFault, WriteOutput, OutputFault, InputsDone, StartRung, EndRung,
                  RungsDone, FinishScan
    <3>. QED  BY <3>1 DEF AllCoherent, P
  <2>5. CASE UNCHANGED vars
    BY <2>5 DEF vars, AllCoherent, P
  <2>. QED  BY <2>1, <2>2, <2>3, <2>4, <2>5 DEF Next, ScanStep
<1>. QED  BY <1>1, <1>2, CoherentIsAll, InductiveHolds, PTL DEF Spec
-----------------------------------------------------------------------------
(* Stopping.                                                               *)

\* A postscan of the whole image leaves no coil on and no timer running.
LEMMA PostscanDeEnergizes ==
  ASSUME Inductive, image # Null, image' = image, codeEnd = Len(Code),
         LifecycleOutputs(FALSE)
  PROVE  DeEnergized'
<1>1. /\ Code' = Code /\ P' = P /\ Len(Code) \in Nat
      /\ \A id \in TagIds(P) : tag'[id] = LifecycleValue(id, FALSE)
  BY LoadedTags, RungFacts DEF LifecycleOutputs, P, Code, Inductive
<1>2. ASSUME NEW k \in 1..Len(Code), Code[k].op = "OTE"
      PROVE  ~tag'[Code[k].a.id]
  <2>. DEFINE id == Code[k].a.id
              ks == {j \in LifecycleWrites(FALSE) : Code[j].a.id = id}
  <2>1. id \in TagIds(P) /\ TypeOf(P, id) = "BOOL"
    <3>1. ValidOperands(P, Code[k])
      BY <1>2, LoadedTags DEF Inductive, TypeOK, Bootable, ValidImage, ValidCode, P, Code
    <3>. QED  BY <1>2, <3>1 DEF ValidOperands, CoilOps, Writable, WholeTag
  <2>2. k \in ks
    BY <1>2 DEF LifecycleWrites, LifecycleOps
  <2>3. \A j \in ks : Code[j].op # "ONS"
    BY DEF LifecycleWrites, LifecycleOps
  <2>4. LifecycleValue(id, FALSE)
          = \E m \in ks : (\A j \in ks : j <= m) /\ Code[m].op = "ONS"
    BY <2>1, <2>2, ZenonT(30) DEF LifecycleValue
  <2>. HIDE DEF ks
  <2>5. ~LifecycleValue(id, FALSE)
    BY <2>3, <2>4, Zenon
  <2>. QED  BY <1>1, <2>1, <2>5
<1>3. ASSUME NEW id \in TagIds(P), TypeOf(P, id) = "TIMER"
      PROVE  tag'[id].acc = 0 /\ ~tag'[id].en
  <2>1. tag'[id] = ClearTimer(tag[id]) /\ tag[id] \in TimerValue
    BY <1>1, <1>3, TimerTag DEF LifecycleValue
  <2>. QED  BY <2>1 DEF ClearTimer, TimerValue
<1>. QED  BY <1>1, <1>2, <1>3, Zenon DEF DeEnergized

LEMMA StopStep ==
  ASSUME Inductive, Next, image # Null, image' = image, diag.faults = 0,
         mode \in Active, mode' = "PROGRAM"
  PROVE  DeEnergized'
<1>1. \A m : SetMode(m) => m = mode'
  BY DEF SetMode
<1>2. CASE Host
  <2>1. image \in Images /\ Null \notin Images /\ mode # mode'
    BY LoadedTags, RuntimeAssumptions DEF RuntimeAssumption, Active
  <2>2. ~(\E i \in Images : LoadImage(i)) /\ ~UnloadProgram /\ ~Deinit
    BY <2>1 DEF LoadImage, UnloadProgram, Deinit, Forget, Active
  <2>3. ~Prescan /\ ~Postscan
    BY <2>1 DEF Prescan, Postscan
  <2>4. /\ \A id \in HostTags : /\ \A v \in HostChoices(id) : ~WriteTag(id, v) /\ ~ForceTag(id, v)
                                /\ ~ClearForce(id)
        /\ ~ClearAllForces /\ ~ClearWriteTrace
    BY <2>1 DEF WriteTag, ForceTag, ClearForce, ClearAllForces, ClearWriteTrace, hostUnchanged
  <2>5. \A gap \in ScanGaps : ~BeginScan(gap)
    BY <2>1 DEF BeginScan
  <2>6. SetMode("PROGRAM")
    BY <1>1, <1>2, <2>2, <2>3, <2>4, <2>5 DEF Host
  <2>7. LifecycleOutputs(FALSE) /\ phase = "idle"
    BY <2>6 DEF SetMode, Active
  <2>8. codeEnd = Len(Code)
    BY <2>7 DEF Inductive, ScanPlace
  <2>. QED  BY <2>7, <2>8, PostscanDeEnergizes
<1>3. CASE ScanStep
  BY <1>3, ScanStepShape DEF Fails, Active
<1>. QED  BY <1>2, <1>3 DEF Next

\* A program that has not faulted is stopped with every OTE destination off
\* and every timer cleared.
THEOREM StoppingDeEnergizes == Spec => StopDeEnergizes
<1>1. Inductive /\ [Next]_vars
        => [image # Null /\ image' = image /\ diag.faults = 0
              /\ mode \in Active /\ mode' = "PROGRAM" => DeEnergized']_vars
  BY StopStep
<1>. QED  BY <1>1, InductiveHolds, PTL DEF Spec, StopDeEnergizes

-----------------------------------------------------------------------------
(* The branch pass of validation, as a recursive function of the position. *)

\* Every set of numbers that has a member has a least one.
LEMMA LeastOf ==
  ASSUME NEW T \in SUBSET Nat, T # {}
  PROVE  \E x \in T : \A y \in T : x <= y
<1>. DEFINE R == {ss \in Nat \X Nat : ss[1] < ss[2]}
<1>1. OpToRel(<, Nat) = R  BY DEF OpToRel
<1>2. IsWellFoundedOn(R, Nat)  BY <1>1, NatLessThanWellFounded
<1>. HIDE DEF R
<1>3. PICK x \in T : \A y \in T : <<y, x>> \notin R  BY <1>2, WFMin
<1>4. ASSUME NEW y \in T PROVE x <= y
  <2>1. <<y, x>> \notin R  BY <1>3, <1>4
  <2>2. <<y, x>> \in Nat \X Nat  OBVIOUS
  <2>3. <<y, x>>[1] = y /\ <<y, x>>[2] = x  OBVIOUS
  <2>4. ~(y < x)  BY <2>1, <2>2, <2>3 DEF R
  <2>. QED  BY <2>4
<1>. QED  BY <1>4

\* The pass as far as n: what BranchScan's equation says of a function on 0..n.
PassOf(code, n, f) ==
  f = [k \in 0..n |-> IF k = 0 THEN NoBranches ELSE BranchStep(f[k - 1], code[k].op)]

\* The pass can always be made: the shortest stream without one would have one
\* a step shorter.
LEMMA PassExists ==
  ASSUME NEW code, NEW n \in Nat
  PROVE  \E f : PassOf(code, n, f)
<1>. DEFINE Bad == {m \in Nat : \A f : ~PassOf(code, m, f)}
<1>1. SUFFICES ASSUME Bad # {}  PROVE FALSE
  OBVIOUS
<1>2. PICK m \in Bad : \A y \in Bad : m <= y
  BY <1>1, LeastOf
<1>3. CASE m = 0
  <2>. DEFINE f == [k \in 0..0 |-> NoBranches]
  <2>1. f = [k \in 0..0 |-> IF k = 0 THEN NoBranches ELSE BranchStep(f[k - 1], code[k].op)]
    OBVIOUS
  <2>2. PassOf(code, 0, f)
    BY <2>1 DEF PassOf
  <2>. QED  BY <1>3, <2>2
<1>4. CASE m # 0
  <2>1. m - 1 \in Nat /\ m - 1 \notin Bad
    BY <1>2, <1>4
  <2>2. PICK f : PassOf(code, m - 1, f)
    BY <2>1
  <2>. DEFINE g == [k \in 0..m |-> IF k = m THEN BranchStep(f[m - 1], code[m].op) ELSE f[k]]
  <2>3. ASSUME NEW k \in 0..m
        PROVE  g[k] = IF k = 0 THEN NoBranches ELSE BranchStep(g[k - 1], code[k].op)
    <3>1. CASE k = m
      <4>1. m - 1 \in 0..m /\ m - 1 # m
        BY <2>1
      <4>. QED  BY <1>4, <3>1, <4>1
    <3>2. CASE k # m
      <4>1. k \in 0..(m - 1) /\ (k # 0 => k - 1 \in 0..m /\ k - 1 # m)
        BY <2>1, <3>2
      <4>2. f[k] = IF k = 0 THEN NoBranches ELSE BranchStep(f[k - 1], code[k].op)
        BY <2>2, <4>1 DEF PassOf
      <4>3. g[k] = f[k] /\ (k # 0 => g[k - 1] = f[k - 1])
        BY <3>2, <4>1
      <4>. QED  BY <4>2, <4>3
    <3>. QED  BY <3>1, <3>2
  <2>4. g = [k \in 0..m |-> g[k]]
    OBVIOUS
  <2>. HIDE DEF g
  <2>5. PassOf(code, m, g)
    BY <2>3, <2>4 DEF PassOf
  <2>. QED  BY <2>5
<1>. QED  BY <1>3, <1>4

\* What BranchScan computes, one instruction after the other.
LEMMA BranchPass ==
  ASSUME NEW code, Len(code) \in Nat
  PROVE  /\ BranchScan(code)[0] = NoBranches
         /\ \A k \in 1..Len(code) :
              BranchScan(code)[k] = BranchStep(BranchScan(code)[k - 1], code[k].op)
<1>. DEFINE scan == CHOOSE f : PassOf(code, Len(code), f)
<1>1. BranchScan(code) = scan
  BY Zenon DEF BranchScan, PassOf
<1>2. PassOf(code, Len(code), scan)
  BY PassExists
<1>. HIDE DEF scan
<1>3. \A k \in 0..Len(code) :
        scan[k] = IF k = 0 THEN NoBranches ELSE BranchStep(scan[k - 1], code[k].op)
  BY <1>2 DEF PassOf
<1>. QED  BY <1>1, <1>3

\* What an instruction makes of the branches open before it.
LEMMA BranchStepFacts ==
  ASSUME NEW s, NEW op, BranchStep(s, op).ok
  PROVE  /\ s.ok /\ BranchStep(s, op).lane = LaneAfter(s.lane, op)
         /\ op = "LANE_END" => LaneOpen(s.lane)
BY DEF BranchStep, BranchAccepted

\* Once validation has refused a branch it accepts no further instruction, so
\* in an accepted image it has refused none.
LEMMA NoneRefused ==
  ASSUME NEW code, Len(code) \in Nat, BranchScan(code)[Len(code)].ok,
         NEW k \in 0..Len(code)
  PROVE  BranchScan(code)[k].ok
<1>. DEFINE n == Len(code)
            scan == BranchScan(code)
            Fine == {m \in Nat : m <= n /\ scan[n - m].ok}
            Bad == {m \in Nat : m <= n /\ ~scan[n - m].ok}
<1>0. \A j \in 1..n : scan[j] = BranchStep(scan[j - 1], code[j].op)
  BY BranchPass
<1>. HIDE DEF scan
<1>1. SUFFICES ASSUME Bad # {}  PROVE FALSE
  <2>1. n - k \in Nat /\ n - k <= n /\ n - (n - k) = k
    OBVIOUS
  <2>2. n - k \notin Bad
    BY <1>1
  <2>. QED  BY <2>1, <2>2 DEF scan
<1>2. PICK m \in Bad : \A y \in Bad : m <= y
  BY <1>1, LeastOf
<1>3. m # 0
  <2>1. n - 0 = n
    OBVIOUS
  <2>. QED  BY <2>1 DEF scan
<1>4. /\ m - 1 \in Nat /\ m - 1 <= n /\ ~(m <= m - 1)
      /\ n - (m - 1) \in 1..n /\ (n - (m - 1)) - 1 = n - m
  BY <1>3
<1>5. scan[n - (m - 1)].ok
  BY <1>2, <1>4
<1>6. scan[n - (m - 1)] = BranchStep(scan[n - m], code[n - (m - 1)].op)
  BY <1>0, <1>4
<1>. HIDE DEF n
<1>. QED  BY <1>5, <1>6, BranchStepFacts

\* The branches validation has open are those the scan has open.
SameBranches(lane, ls) ==
  /\ lane \in Seq(BOOLEAN) /\ Len(lane) = Len(ls)
  /\ \A k \in 1..Len(ls) : lane[k] = ls[k].open

LEMMA SameTop ==
  ASSUME NEW lane, NEW ls \in Seq(Frame), SameBranches(lane, ls)
  PROVE  /\ lane = <<>> <=> ls = <<>>
         /\ LaneOpen(lane) <=> ls # <<>> /\ ls[Len(ls)].open
<1>1. lane = <<>> <=> ls = <<>>
  BY EmptySeq DEF SameBranches
<1>2. Len(ls) \in Nat /\ (ls # <<>> => Len(ls) \in 1..Len(ls))
  BY EmptySeq
<1>3. Len(lane) = Len(ls) /\ (ls # <<>> => lane[Len(ls)] = ls[Len(ls)].open)
  BY <1>2 DEF SameBranches
<1>. QED  BY <1>1, <1>3 DEF LaneOpen

LEMMA SameAppend ==
  ASSUME NEW lane, NEW ls \in Seq(Frame), SameBranches(lane, ls), NEW f \in Frame
  PROVE  SameBranches(Append(lane, f.open), Append(ls, f))
<1>1. f.open \in BOOLEAN /\ lane \in Seq(BOOLEAN) /\ Len(lane) = Len(ls) /\ Len(ls) \in Nat
  BY DEF Frame, SameBranches
<1>2. /\ Append(lane, f.open) \in Seq(BOOLEAN)
      /\ Len(Append(lane, f.open)) = Len(ls) + 1 /\ Len(Append(ls, f)) = Len(ls) + 1
  BY <1>1, AppendProperties
<1>3. ASSUME NEW k \in 1..(Len(ls) + 1)
      PROVE  Append(lane, f.open)[k] = Append(ls, f)[k].open
  <2>1. CASE k \in 1..Len(ls)
    <3>1. Append(lane, f.open)[k] = lane[k] /\ Append(ls, f)[k] = ls[k]
      BY <1>1, <2>1, AppendProperties
    <3>. QED  BY <2>1, <3>1 DEF SameBranches
  <2>2. CASE k = Len(ls) + 1
    BY <1>1, <2>2, AppendProperties
  <2>. QED  BY <1>1, <2>1, <2>2
<1>. QED  BY <1>2, <1>3 DEF SameBranches

LEMMA SameTopSet ==
  ASSUME NEW lane, NEW ls \in Seq(Frame), SameBranches(lane, ls), NEW f \in Frame, ls # <<>>
  PROVE  SameBranches([lane EXCEPT ![Len(lane)] = f.open], [ls EXCEPT ![Len(ls)] = f])
<1>. DEFINE n == Len(ls)
            l == [lane EXCEPT ![n] = f.open]
            m == [ls EXCEPT ![n] = f]
<1>1. f.open \in BOOLEAN /\ lane \in Seq(BOOLEAN) /\ Len(lane) = n /\ n \in 1..n
  BY EmptySeq DEF Frame, SameBranches
<1>2. /\ l \in Seq(BOOLEAN) /\ Len(l) = n
      /\ \A k \in 1..n : l[k] = IF k = n THEN f.open ELSE lane[k]
  BY <1>1, ExceptSeq
<1>3. Len(m) = n /\ \A k \in 1..n : m[k] = IF k = n THEN f ELSE ls[k]
  BY <1>1, ExceptSeq
<1>. HIDE DEF l, m
<1>4. SameBranches(l, m)
  BY <1>2, <1>3 DEF SameBranches
<1>. QED  BY <1>1, <1>4 DEF l, m

LEMMA SameOuter ==
  ASSUME NEW lane, NEW ls \in Seq(Frame), SameBranches(lane, ls), ls # <<>>
  PROVE  SameBranches(SubSeq(lane, 1, Len(lane) - 1), SubSeq(ls, 1, Len(ls) - 1))
<1>. DEFINE n == Len(ls) - 1
            l == SubSeq(lane, 1, n)
            m == SubSeq(ls, 1, n)
<1>1. n \in Nat /\ n + 1 = Len(ls) /\ Len(lane) = Len(ls) /\ lane \in Seq(BOOLEAN)
  BY EmptySeq DEF SameBranches
<1>2. \A k \in 1..n : ls[k] \in Frame /\ lane[k] \in BOOLEAN
  BY <1>1, ElementOfSeq
<1>3. Len(l) = n /\ l \in Seq(BOOLEAN) /\ \A k \in 1..n : l[k] = lane[k]
  BY <1>1, <1>2, SubSeqProperties
<1>4. Len(m) = n /\ \A k \in 1..n : m[k] = ls[k]
  BY <1>1, <1>2, SubSeqProperties
<1>. HIDE DEF l, m
<1>5. SameBranches(l, m)
  BY <1>1, <1>3, <1>4 DEF SameBranches
<1>. QED  BY <1>1, <1>5 DEF l, m

-----------------------------------------------------------------------------
(* Branches in a scan.                                                     *)

\* Validation refuses none of the branches of a loaded image, and finds none
\* open where a rung ends.
LEMMA LoadedBranches ==
  ASSUME Inductive, image # Null
  PROVE  /\ Len(Code) \in Nat /\ Len(P.rungs) \in Nat
         /\ BranchScan(Code)[0].lane = <<>>
         /\ \A k \in 1..Len(Code) :
              /\ BranchScan(Code)[k].lane = LaneAfter(BranchScan(Code)[k - 1].lane, Code[k].op)
              /\ Code[k].op = "LANE_END" => LaneOpen(BranchScan(Code)[k - 1].lane)
         /\ \A r \in 1..Len(P.rungs) : BranchScan(Code)[RungEnd(P, r)].lane = <<>>
<1>1. Len(Code) \in Nat /\ Len(P.rungs) \in Nat
  BY RungFacts DEF Inductive
<1>2. ValidBranches(P) /\ ValidRungs(P)
  BY DEF Inductive, TypeOK, Bootable, ValidImage, P
<1>3. BranchScan(Code)[Len(Code)].ok
  BY <1>2 DEF ValidBranches, Code
<1>4. BranchScan(Code)[0].lane = <<>>
  BY <1>1, BranchPass DEF NoBranches
<1>5. ASSUME NEW k \in 1..Len(Code)
      PROVE  /\ BranchScan(Code)[k].lane = LaneAfter(BranchScan(Code)[k - 1].lane, Code[k].op)
             /\ Code[k].op = "LANE_END" => LaneOpen(BranchScan(Code)[k - 1].lane)
  <2>1. BranchScan(Code)[k] = BranchStep(BranchScan(Code)[k - 1], Code[k].op)
    BY <1>1, BranchPass
  <2>2. BranchScan(Code)[k].ok
    BY <1>1, <1>3, NoneRefused
  <2>. QED  BY <2>1, <2>2, BranchStepFacts
<1>6. ASSUME NEW r \in 1..Len(P.rungs)
      PROVE  BranchScan(Code)[RungEnd(P, r)].lane = <<>>
  BY <1>2, ZenonT(30) DEF ValidRungs, RungEnd, Code
<1>. QED  BY <1>1, <1>4, <1>5, <1>6

\* The branches a scan has open are those validation counted as far as pc; no
\* rung begins or ends with one open.
BranchesAgree ==
  /\ phase # "logic" => lanes = <<>>
  /\ phase = "logic" => SameBranches(BranchScan(Code)[pc].lane, lanes)

\* An instruction moves the branches of the scan as it moved validation's.
LEMMA BranchesExecute ==
  ASSUME Inductive, BranchesAgree, Execute
  PROVE  BranchesAgree'
<1>. DEFINE scan == BranchScan(Code)
            lane == scan[pc].lane
<1>1. /\ phase = "logic" /\ image # Null /\ image' = image /\ Code' = Code
      /\ lanes \in Seq(Frame) /\ power \in BOOLEAN
      /\ pc + 1 \in 1..Len(Code) /\ pc \in Nat
  <2>1. /\ pc < codeEnd
    BY DEF Execute, BranchBegin, LaneBegin, LaneEnd, BranchEnd, BranchFault,
           Contact, Coil, OneShot, OnDelay, Count, Reset, Compare, Data,
           Executing, AtInstruction
  <2>. QED  BY <2>1, InstructionAt, OperandFacts DEF Inductive, TypeOK, ScanOK, P, Code
<1>2. /\ SameBranches(lane, lanes)
      /\ scan[pc + 1].lane = LaneAfter(lane, Op) /\ (Op = "LANE_END" => LaneOpen(lane))
  <2>1. (pc + 1) - 1 = pc
    BY <1>1
  <2>. QED  BY <1>1, <2>1, LoadedBranches DEF BranchesAgree, Op
<1>. HIDE DEF scan, lane
<1>3. ASSUME pc' = pc + 1, phase' = phase, SameBranches(LaneAfter(lane, Op), lanes')
      PROVE  BranchesAgree'
  <2>1. scan' = scan
    BY <1>1 DEF scan
  <2>2. BranchScan(Code)[pc + 1].lane = LaneAfter(lane, Op)
    BY <1>2 DEF scan
  <2>. QED  BY <1>1, <1>3, <2>2 DEF BranchesAgree
<1>4. CASE BranchBegin
  <2>. DEFINE f == [input |-> power, merged |-> FALSE, open |-> FALSE]
  <2>1. /\ lanes' = Append(lanes, f) /\ pc' = pc + 1 /\ phase' = phase /\ Op = "BRANCH_BEGIN"
    BY <1>4 DEF BranchBegin, Executing, stepUnchanged
  <2>2. f \in Frame /\ f.open = FALSE
    BY <1>1 DEF Frame
  <2>3. LaneAfter(lane, Op) = Append(lane, FALSE)
    BY <2>1 DEF LaneAfter
  <2>. QED  BY <1>1, <1>2, <1>3, <2>1, <2>2, <2>3, SameAppend
<1>5. CASE LaneBegin
  <2>. DEFINE f == [Top EXCEPT !.open = TRUE]
  <2>1. /\ lanes # <<>> /\ lanes' = [lanes EXCEPT ![Len(lanes)] = f]
        /\ pc' = pc + 1 /\ phase' = phase /\ Op = "LANE_BEGIN"
    BY <1>5 DEF LaneBegin, BetweenLanes, SetTop, stepUnchanged
  <2>2. Top \in Frame
    BY <1>1, <2>1, EmptySeq, ElementOfSeq DEF Top
  <2>3. f \in Frame /\ f.open = TRUE
    BY <2>2 DEF Frame
  <2>4. LaneAfter(lane, Op) = [lane EXCEPT ![Len(lane)] = TRUE]
    BY <2>1 DEF LaneAfter
  <2>. HIDE DEF f
  <2>5. SameBranches([lane EXCEPT ![Len(lane)] = f.open], [lanes EXCEPT ![Len(lanes)] = f])
    BY <1>1, <1>2, <2>1, <2>3, SameTopSet
  <2>. QED  BY <1>3, <2>1, <2>3, <2>4, <2>5
<1>6. CASE LaneEnd
  <2>. DEFINE merged == Top.merged \/ power
              f == [Top EXCEPT !.merged = merged, !.open = FALSE]
  <2>1. /\ lanes' = [lanes EXCEPT ![Len(lanes)] = f]
        /\ pc' = pc + 1 /\ phase' = phase /\ Op = "LANE_END"
    BY <1>6, Zenon DEF LaneEnd, Executing, SetTop, stepUnchanged
  <2>2. lanes # <<>>
    BY <1>1, <1>2, <2>1, SameTop
  <2>3. Top \in Frame
    BY <1>1, <2>2, EmptySeq, ElementOfSeq DEF Top
  <2>4. f \in Frame /\ f.open = FALSE
    BY <1>1, <2>3 DEF Frame
  <2>5. LaneAfter(lane, Op) = [lane EXCEPT ![Len(lane)] = FALSE]
    BY <2>1 DEF LaneAfter
  <2>. HIDE DEF f
  <2>6. SameBranches([lane EXCEPT ![Len(lane)] = f.open], [lanes EXCEPT ![Len(lanes)] = f])
    BY <1>1, <1>2, <2>2, <2>4, SameTopSet
  <2>. QED  BY <1>3, <2>1, <2>4, <2>5, <2>6
<1>7. CASE BranchEnd
  <2>1. /\ lanes # <<>> /\ lanes' = SubSeq(lanes, 1, Len(lanes) - 1)
        /\ pc' = pc + 1 /\ phase' = phase /\ Op = "BRANCH_END"
    BY <1>7 DEF BranchEnd, BetweenLanes, stepUnchanged
  <2>2. LaneAfter(lane, Op) = SubSeq(lane, 1, Len(lane) - 1)
    BY <2>1 DEF LaneAfter
  <2>. QED  BY <1>1, <1>2, <1>3, <2>1, <2>2, SameOuter
<1>8. CASE BranchFault \/ (OnDelay /\ ~(\E p : Continue(p))) \/ (Data /\ ~(\E p : Continue(p)))
  BY <1>8 DEF BranchFault, OnDelay, Data, Abort, Fail, FailWith, ScanOver, BranchesAgree
<1>9. ASSUME \E p : Continue(p), Op \notin BranchOps
      PROVE  BranchesAgree'
  <2>1. lanes' = lanes /\ pc' = pc + 1 /\ phase' = phase
    BY <1>9 DEF Continue, stepUnchanged
  <2>2. LaneAfter(lane, Op) = lane
    BY <1>9, Zenon DEF LaneAfter, BranchOps
  <2>. QED  BY <1>2, <1>3, <2>1, <2>2
<1>10. CASE Contact \/ Coil \/ OneShot \/ OnDelay \/ Count \/ Reset \/ Compare \/ Data
  <2>1. Op \notin BranchOps
    BY <1>10 DEF Contact, Coil, OneShot, OnDelay, Count, Reset, Compare, Data, Executing,
                 ContactOps, CoilOps, CountOps, CompareOps, DataOps, ArithOps, UnaryOps,
                 BranchOps
  <2>2. Contact \/ Coil \/ OneShot \/ Count \/ Reset \/ Compare => \E p : Continue(p)
    BY Zenon DEF Contact, Coil, OneShot, Count, Reset, Compare
  <2>. QED  BY <1>8, <1>9, <1>10, <2>1, <2>2
<1>. QED  BY <1>4, <1>5, <1>6, <1>7, <1>8, <1>10 DEF Execute

LEMMA BranchesStep ==
  ASSUME Inductive, BranchesAgree, [Next]_vars
  PROVE  BranchesAgree'
<1>1. CASE Execute
  BY <1>1, BranchesExecute
<1>2. ASSUME phase # "logic", phase' # "logic", lanes' = lanes \/ lanes' = <<>>
      PROVE  BranchesAgree'
  BY <1>2 DEF BranchesAgree
<1>3. CASE Host
  <2>1. phase = "idle" /\ phase' # "logic"
    BY <1>3, HostShape
  <2>2. lanes' = lanes \/ lanes' = <<>>
    BY <1>3 DEF Host, LoadImage, UnloadProgram, Deinit, SetMode, Prescan, Postscan, WriteTag,
                ForceTag, ClearForce, ClearAllForces, ClearWriteTrace, BeginScan,
                hostUnchanged, scanVars
  <2>. QED  BY <1>2, <2>1, <2>2
<1>4. CASE \/ \E id \in pending : \/ \E v \in Readings(id) : CaptureInput(id, v)
                                  \/ InputFault(id) \/ WriteOutput(id) \/ OutputFault(id)
           \/ InputsDone \/ RungsDone
           \/ \E d \in ScanDurations : FinishScan(d)
  <2>1. /\ phase # "logic" /\ phase' # "logic" /\ (lanes' = lanes \/ lanes' = <<>>)
    BY <1>4 DEF CaptureInput, InputFault, WriteOutput, OutputFault, InputsDone, RungsDone,
                FinishScan, Fail, FailWith, ScanOver, scanVars
  <2>. QED  BY <1>2, <2>1
<1>5. CASE StartRung
  <2>1. phase = "rung" /\ lanes = <<>> /\ UNCHANGED <<image, pc, lanes>> /\ image # Null
    BY <1>5, NextRung DEF StartRung, BranchesAgree
  <2>2. rung \in 0..Len(P.rungs) /\ pc = IF rung = 0 THEN 0 ELSE RungEnd(P, rung)
    BY <2>1 DEF Inductive, ScanPlace
  <2>3. BranchScan(Code)[pc].lane = <<>>
    <3>1. Len(P.rungs) \in Nat /\ (rung # 0 => rung \in 1..Len(P.rungs))
      BY <2>1, <2>2, LoadedBranches
    <3>. QED  BY <2>1, <2>2, <3>1, LoadedBranches
  <2>4. SameBranches(<<>>, <<>>)
    BY EmptySeq DEF SameBranches
  <2>5. Code' = Code
    BY <2>1 DEF P, Code
  <2>. QED  BY <1>5, <2>1, <2>3, <2>4, <2>5 DEF BranchesAgree, StartRung
<1>6. CASE EndRung
  <2>1. phase = "logic" /\ phase' = "rung" /\ UNCHANGED lanes /\ image # Null /\ pc >= codeEnd
    BY <1>6 DEF EndRung, scanVars, Inductive, ScanOnlyWhileActive
  <2>2. rung \in 1..Len(P.rungs) /\ pc = RungEnd(P, rung)
    <3>1. /\ rung \in 1..Len(P.rungs) /\ codeEnd = RungEnd(P, rung) /\ pc <= codeEnd
          /\ pc \in Nat /\ codeEnd \in Nat
      BY <2>1 DEF Inductive, ScanPlace, TypeOK, ScanOK
    <3>. QED  BY <2>1, <3>1
  <2>3. SameBranches(<<>>, lanes) /\ lanes \in Seq(Frame)
    BY <2>1, <2>2, LoadedBranches DEF BranchesAgree, Inductive, TypeOK, ScanOK
  <2>4. lanes = <<>>
    BY <2>3, SameTop
  <2>. QED  BY <2>1, <2>4 DEF BranchesAgree
<1>7. CASE UNCHANGED vars
  BY <1>7 DEF vars, BranchesAgree, P, Code
<1>. QED  BY <1>1, <1>3, <1>4, <1>5, <1>6, <1>7 DEF Next, ScanStep

\* A scan has open just the branches that validation counted: no rung begins
\* or ends with a branch open, and no lane ends that has not begun.
THEOREM ScansFollowValidation == Spec => []BranchesAgree
<1>1. Init => BranchesAgree
  BY DEF Init, BranchesAgree
<1>. QED  BY <1>1, BranchesStep, InductiveHolds, PTL DEF Spec

-----------------------------------------------------------------------------
(* Power.                                                                  *)

\* PowerFlow in its two parts: within the open branches, and at the innermost.
LanesFlow(ls) ==
  \A k \in 1..Len(ls) :
    /\ ls[k].merged => ls[k].input
    /\ k < Len(ls) => ls[k].open
    /\ (k < Len(ls) /\ ls[k + 1].input) => ls[k].input

TopFlows(ls, pow) == ls # <<>> /\ ls[Len(ls)].open /\ pow => ls[Len(ls)].input

LEMMA FlowIsBoth == PowerFlow <=> LanesFlow(lanes) /\ TopFlows(lanes, power)
BY Zenon DEF PowerFlow, LanesFlow, TopFlows, Top

LEMMA FlowsEmpty == \A pow : LanesFlow(<<>>) /\ TopFlows(<<>>, pow)
BY EmptySeq DEF LanesFlow, TopFlows

\* A branch opened inside an open lane gets no more power than that lane.
LEMMA FlowsAppend ==
  ASSUME NEW ls \in Seq(Frame), NEW pow \in BOOLEAN, LanesFlow(ls), TopFlows(ls, pow),
         ls # <<>> => ls[Len(ls)].open,
         NEW f \in Frame, f.input => pow, ~f.merged, ~f.open
  PROVE  LanesFlow(Append(ls, f)) /\ TopFlows(Append(ls, f), pow)
<1>. DEFINE n == Len(ls)
            m == Append(ls, f)
<1>1. /\ n \in Nat /\ Len(m) = n + 1 /\ m[n + 1] = f /\ \A k \in 1..n : m[k] = ls[k]
      /\ n # 0 => n \in 1..n /\ ls # <<>>
  BY AppendProperties, EmptySeq
<1>. HIDE DEF m
<1>2. ASSUME NEW k \in 1..(n + 1)
      PROVE  /\ m[k].merged => m[k].input
             /\ k < n + 1 => m[k].open
             /\ (k < n + 1 /\ m[k + 1].input) => m[k].input
  <2>1. CASE k = n + 1
    BY <1>1, <2>1
  <2>2. CASE k = n
    <3>1. m[k] = ls[n] /\ m[k + 1] = f /\ ls # <<>> /\ n \in 1..n
      BY <1>1, <2>2
    <3>. QED  BY <1>1, <2>2, <3>1 DEF LanesFlow, TopFlows
  <2>3. CASE k < n
    <3>1. k \in 1..n /\ k + 1 \in 1..n
      BY <1>1, <2>3
    <3>2. m[k] = ls[k] /\ m[k + 1] = ls[k + 1]
      BY <1>1, <3>1
    <3>. QED  BY <1>1, <2>3, <3>1, <3>2 DEF LanesFlow
  <2>. QED  BY <1>1, <2>1, <2>2, <2>3
<1>3. LanesFlow(m)
  BY <1>1, <1>2 DEF LanesFlow
<1>4. TopFlows(m, pow)
  BY <1>1 DEF TopFlows
<1>. QED  BY <1>3, <1>4 DEF m

\* The innermost branch changes, but for the power that entered it.
LEMMA FlowsTop ==
  ASSUME NEW ls \in Seq(Frame), ls # <<>>, LanesFlow(ls), NEW f \in Frame,
         f.input = ls[Len(ls)].input, f.merged => f.input
  PROVE  LanesFlow([ls EXCEPT ![Len(ls)] = f])
<1>. DEFINE n == Len(ls)
            m == [ls EXCEPT ![n] = f]
<1>1. n \in Nat /\ n \in 1..n
  BY EmptySeq
<1>2. Len(m) = n /\ \A k \in 1..n : m[k] = IF k = n THEN f ELSE ls[k]
  BY <1>1, ExceptSeq
<1>. HIDE DEF m
<1>3. ASSUME NEW k \in 1..n
      PROVE  /\ m[k].merged => m[k].input
             /\ k < n => m[k].open
             /\ (k < n /\ m[k + 1].input) => m[k].input
  <2>1. CASE k = n
    BY <1>1, <1>2, <2>1
  <2>2. CASE k < n
    <3>1. k + 1 \in 1..n /\ m[k] = ls[k] /\ m[k + 1].input = ls[k + 1].input
      BY <1>1, <1>2, <2>2
    <3>. QED  BY <2>2, <3>1 DEF LanesFlow
  <2>. QED  BY <1>1, <2>1, <2>2
<1>4. LanesFlow(m)
  BY <1>2, <1>3 DEF LanesFlow
<1>. QED  BY <1>4 DEF m

\* The innermost branch ends and leaves its merged power to the lane around it.
LEMMA FlowsOuter ==
  ASSUME NEW ls \in Seq(Frame), ls # <<>>, LanesFlow(ls)
  PROVE  LET m == SubSeq(ls, 1, Len(ls) - 1)
         IN LanesFlow(m) /\ TopFlows(m, ls[Len(ls)].merged)
<1>. DEFINE n == Len(ls) - 1
            m == SubSeq(ls, 1, n)
<1>1. n \in Nat /\ n + 1 = Len(ls) /\ n + 1 \in 1..Len(ls)
  BY EmptySeq
<1>2. \A k \in 1..n : ls[k] \in Frame
  BY <1>1, ElementOfSeq
<1>3. Len(m) = n /\ \A k \in 1..n : m[k] = ls[k]
  BY <1>1, <1>2, SubSeqProperties
<1>4. m # <<>> => n \in 1..n
  BY <1>1, SubSeqEmpty
<1>. HIDE DEF m
<1>5. \A k \in 1..n : /\ k \in 1..Len(ls) /\ k < Len(ls)
                      /\ k < n => k + 1 \in 1..n
  BY <1>1
<1>6. LanesFlow(m)
  BY <1>3, <1>5 DEF LanesFlow
<1>7. TopFlows(m, ls[Len(ls)].merged)
  <2>1. ls[Len(ls)].merged => ls[Len(ls)].input
    BY <1>1 DEF LanesFlow
  <2>2. m # <<>> => (ls[n + 1].input => ls[n].input) /\ m[Len(m)] = ls[n]
    BY <1>1, <1>3, <1>4, <1>5 DEF LanesFlow
  <2>. QED  BY <1>1, <2>1, <2>2 DEF TopFlows
<1>. QED  BY <1>6, <1>7 DEF m

LEMMA PowerExecute ==
  ASSUME Inductive, BranchesAgree, PowerFlow, Execute
  PROVE  PowerFlow'
<1>1. lanes \in Seq(Frame) /\ power \in BOOLEAN /\ LanesFlow(lanes) /\ TopFlows(lanes, power)
  BY FlowIsBoth DEF Inductive, TypeOK, ScanOK
<1>2. PowerFlow' <=> LanesFlow(lanes') /\ TopFlows(lanes', power')
  BY Zenon DEF PowerFlow, LanesFlow, TopFlows, Top
<1>3. CASE BranchBegin
  <2>. DEFINE f == [input |-> power, merged |-> FALSE, open |-> FALSE]
  <2>1. lanes' = Append(lanes, f) /\ power' = power /\ (lanes # <<>> => lanes[Len(lanes)].open)
    BY <1>3 DEF BranchBegin, Executing, BetweenLanes, Top
  <2>2. f \in Frame /\ f.input = power /\ ~f.merged /\ ~f.open
    BY <1>1 DEF Frame
  <2>. HIDE DEF f
  <2>. QED  BY <1>1, <1>2, <2>1, <2>2, FlowsAppend
<1>4. CASE LaneBegin
  <2>. DEFINE f == [Top EXCEPT !.open = TRUE]
  <2>1. /\ lanes # <<>> /\ lanes' = [lanes EXCEPT ![Len(lanes)] = f] /\ power' = Top.input
    BY <1>4 DEF LaneBegin, BetweenLanes, SetTop, LanePower
  <2>2. Top \in Frame /\ Top = lanes[Len(lanes)] /\ Len(lanes) \in 1..Len(lanes)
    BY <1>1, <2>1, EmptySeq, ElementOfSeq DEF Top
  <2>3. f \in Frame /\ f.input = Top.input /\ f.merged = Top.merged
    BY <2>2 DEF Frame
  <2>4. f.merged => f.input
    BY <1>1, <2>2, <2>3 DEF LanesFlow
  <2>. HIDE DEF f
  <2>5. LanesFlow(lanes')
    BY <1>1, <2>1, <2>2, <2>3, <2>4, FlowsTop
  <2>6. lanes'[Len(lanes')] = f
    BY <1>1, <2>1, <2>2, <2>3, ExceptSeq
  <2>7. TopFlows(lanes', power')
    BY <2>1, <2>3, <2>6 DEF TopFlows
  <2>. QED  BY <1>2, <2>5, <2>7
<1>5. CASE LaneEnd
  <2>. DEFINE merged == Top.merged \/ power
              f == [Top EXCEPT !.merged = merged, !.open = FALSE]
  <2>1. /\ lanes' = [lanes EXCEPT ![Len(lanes)] = f] /\ power' = power
        /\ lanes # <<>> => Top.open
    BY <1>5, Zenon DEF LaneEnd, Executing, SetTop, BetweenLanes
  <2>2. CASE lanes # <<>>
    <3>1. Top \in Frame /\ Top = lanes[Len(lanes)] /\ Len(lanes) \in 1..Len(lanes)
      BY <1>1, <2>2, EmptySeq, ElementOfSeq DEF Top
    <3>2. f \in Frame /\ f.input = Top.input /\ f.merged = merged /\ f.open = FALSE
      BY <1>1, <3>1 DEF Frame
    <3>3. merged => Top.input
      BY <1>1, <2>1, <2>2, <3>1 DEF LanesFlow, TopFlows
    <3>. HIDE DEF f, merged
    <3>4. LanesFlow(lanes')
      BY <1>1, <2>1, <2>2, <3>1, <3>2, <3>3, FlowsTop
    <3>5. lanes'[Len(lanes')] = f
      BY <1>1, <2>1, <3>1, <3>2, ExceptSeq
    <3>6. TopFlows(lanes', power')
      BY <3>2, <3>5 DEF TopFlows
    <3>. QED  BY <1>2, <3>4, <3>6
  <2>3. CASE lanes = <<>>
    <3>1. lanes' = lanes
      <4>. HIDE DEF f
      <4>. QED  BY <2>1, <2>3
    <3>. QED  BY <1>2, <2>3, <3>1, FlowsEmpty
  <2>. QED  BY <2>2, <2>3
<1>6. CASE BranchEnd
  <2>1. /\ lanes # <<>> /\ lanes' = SubSeq(lanes, 1, Len(lanes) - 1)
        /\ power' = lanes[Len(lanes)].merged
    BY <1>6 DEF BranchEnd, BetweenLanes, Top
  <2>. QED  BY <1>1, <1>2, <2>1, FlowsOuter
<1>7. ASSUME lanes' = <<>>  PROVE PowerFlow'
  BY <1>2, <1>7, FlowsEmpty
<1>8. CASE BranchFault
  BY <1>7, <1>8 DEF BranchFault, Fail, FailWith, ScanOver
<1>9. ASSUME NEW p, Continue(p), p => power  PROVE PowerFlow'
  <2>1. lanes' = lanes /\ (power' => power)
    BY <1>9 DEF Continue
  <2>. QED  BY <1>1, <1>2, <2>1 DEF TopFlows
<1>10. CASE Contact \/ OneShot \/ Compare
  <2>1. \E p : Continue(p) /\ (p => power)
    BY <1>10, Zenon DEF Contact, OneShot, Compare
  <2>. QED  BY <1>9, <2>1
<1>11. CASE Coil \/ Count \/ Reset
  BY <1>9, <1>11 DEF Coil, Count, Reset
<1>12. CASE OnDelay
  BY <1>7, <1>9, <1>12 DEF OnDelay, Abort, Fail, FailWith, ScanOver
<1>13. CASE Data
  BY <1>7, <1>9, <1>13 DEF Data, Abort, Fail, FailWith, ScanOver
<1>. QED
  BY <1>3, <1>4, <1>5, <1>6, <1>8, <1>10, <1>11, <1>12, <1>13 DEF Execute

\* Power only flows from the left: no lane or branch gives out power that it
\* was not given, however branches, contacts and comparisons are nested.
THEOREM PowerFlowsRight == Spec => []PowerFlow
<1>1. Init => PowerFlow
  BY EmptySeq DEF Init, PowerFlow
<1>2. Inductive /\ BranchesAgree /\ PowerFlow /\ BranchesAgree' /\ [Next]_vars => PowerFlow'
  <2>. SUFFICES ASSUME Inductive, BranchesAgree, BranchesAgree', PowerFlow, [Next]_vars
                PROVE  PowerFlow'
    OBVIOUS
  <2>0. PowerFlow' <=> LanesFlow(lanes') /\ TopFlows(lanes', power')
    BY Zenon DEF PowerFlow, LanesFlow, TopFlows, Top
  <2>1. CASE Execute
    BY <2>1, PowerExecute
  <2>2. ASSUME lanes' = <<>>  PROVE PowerFlow'
    BY <2>0, <2>2, FlowsEmpty
  <2>3. CASE UNCHANGED vars
    BY <2>3 DEF vars, PowerFlow, Top
  <2>4. CASE Host
    BY <2>2, <2>4, HostShape DEF BranchesAgree
  <2>5. CASE \/ \E id \in pending : \/ \E v \in Readings(id) : CaptureInput(id, v)
                                    \/ InputFault(id) \/ WriteOutput(id) \/ OutputFault(id)
             \/ InputsDone \/ RungsDone \/ EndRung
             \/ \E d \in ScanDurations : FinishScan(d)
    <3>1. phase' # "logic"
      BY <2>5 DEF CaptureInput, InputFault, WriteOutput, OutputFault, InputsDone, RungsDone,
                  EndRung, FinishScan, Fail, FailWith, ScanOver
    <3>. QED  BY <2>2, <3>1 DEF BranchesAgree
  <2>6. CASE StartRung
    BY <2>2, <2>6 DEF StartRung, BranchesAgree
  <2>. QED  BY <2>1, <2>3, <2>4, <2>5, <2>6 DEF Next, ScanStep
<1>. QED  BY <1>1, <1>2, ScansFollowValidation, InductiveHolds, PTL DEF Spec

-----------------------------------------------------------------------------
(* Rungs in their order.                                                   *)

\* Each rung starts where the one before it ends.
LEMMA RungStarts ==
  ASSUME TypeOK, image # Null
  PROVE  \A r \in 1..Len(P.rungs) :
           /\ P.rungs[r].count \in Nat
           /\ RungStart(P, r) = IF r = 1 THEN 0 ELSE RungEnd(P, r - 1)
<1>1. ValidRungs(P)
  BY DEF TypeOK, Bootable, ValidImage, P
<1>. QED  BY <1>1, ZenonT(30) DEF ValidRungs, RungStart, RungEnd

\* The end of a rung is not before that of an earlier one.
LEMMA RungEndsGrow ==
  ASSUME TypeOK, image # Null, NEW q \in 1..Len(P.rungs), NEW r \in 1..q
  PROVE  RungEnd(P, r) <= RungEnd(P, q)
<1>. DEFINE N == Len(P.rungs)
            Bad == {n \in Nat : r <= n /\ n <= N /\ ~(RungEnd(P, r) <= RungEnd(P, n))}
<1>1. N \in Nat /\ \A n \in 1..N : RungEnd(P, n) \in Nat
  BY RungFacts
<1>2. SUFFICES ASSUME Bad # {}  PROVE FALSE
  <2>1. q \notin Bad /\ q \in Nat /\ r <= q /\ q <= N
    BY <1>1, <1>2
  <2>. QED  BY <2>1
<1>3. PICK m \in Bad : \A y \in Bad : m <= y
  BY <1>2, LeastOf
<1>4. m # r /\ m \in Nat /\ r <= m /\ m <= N /\ r \in 1..N
  BY <1>1, <1>3
<1>5. m - 1 \in Nat /\ r <= m - 1 /\ m - 1 <= N /\ ~(m <= m - 1) /\ m - 1 \in 1..N /\ m \in 1..N
  BY <1>1, <1>4
<1>6. RungEnd(P, r) <= RungEnd(P, m - 1)
  BY <1>3, <1>5
<1>8. P.rungs[m].count \in Nat /\ RungStart(P, m) = RungEnd(P, m - 1)
  BY <1>4, <1>5, RungStarts
<1>9. RungEnd(P, m) = RungEnd(P, m - 1) + P.rungs[m].count
  BY <1>8 DEF RungStart, RungEnd
<1>10. /\ ~(RungEnd(P, r) <= RungEnd(P, m))
       /\ RungEnd(P, r) \in Nat /\ RungEnd(P, m - 1) \in Nat /\ RungEnd(P, m) \in Nat
  BY <1>1, <1>3, <1>4, <1>5
<1>. HIDE DEF Bad, N
<1>. QED  BY <1>6, <1>8, <1>9, <1>10

\* A rung that runs is being run from its start, and ends within the code that
\* the scan began with.
RungInside ==
  phase = "logic" => RungStart(P, rung) <= pc /\ codeEnd <= saved

LEMMA RungBegins ==
  ASSUME Inductive, StartRung
  PROVE  RungStart(P, rung') = pc /\ codeEnd' <= codeEnd
<1>. USE DEF Inductive
<1>1. /\ image # Null /\ phase = "rung" /\ pc < codeEnd /\ rung' = rung + 1
  BY DEF StartRung, NextRungEnd, ScanOnlyWhileActive
<1>2. /\ rung \in 0..Len(P.rungs) /\ pc = IF rung = 0 THEN 0 ELSE RungEnd(P, rung)
      /\ pc \in Nat /\ Len(P.rungs) \in Nat /\ codeEnd \in Boundaries
  BY <1>1, RungFacts DEF ScanPlace, TypeOK, ScanOK, CutAtRungBoundary
<1>3. rung' \in 1..Len(P.rungs) /\ codeEnd' = RungEnd(P, rung')
  BY NextRung
<1>5. RungStart(P, rung') = IF rung' = 1 THEN 0 ELSE RungEnd(P, rung' - 1)
  BY <1>1, <1>3, RungStarts
<1>6. rung' - 1 = rung /\ (rung' = 1 <=> rung = 0)
  BY <1>1, <1>2
<1>7. RungStart(P, rung') = pc
  BY <1>2, <1>5, <1>6
<1>8. PICK q \in 1..Len(P.rungs) : codeEnd = RungEnd(P, q)
  BY <1>1, <1>2 DEF Boundaries
<1>9. ~(q <= rung)
  <2>1. ASSUME q <= rung  PROVE FALSE
    <3>1. rung \in 1..Len(P.rungs) /\ q \in 1..rung
      BY <1>2, <2>1
    <3>2. codeEnd <= pc
      BY <1>1, <1>2, <1>8, <3>1, RungEndsGrow
    <3>3. codeEnd \in Nat
      BY DEF TypeOK, ScanOK
    <3>. QED  BY <1>1, <1>2, <3>2, <3>3
  <2>. QED  BY <2>1
<1>10. rung' \in 1..q
  BY <1>1, <1>2, <1>9
<1>11. RungEnd(P, rung') <= RungEnd(P, q)
  BY <1>1, <1>10, RungEndsGrow
<1>. QED  BY <1>3, <1>7, <1>8, <1>11

\* While a rung runs, the scan stands between its start and its end, and the
\* end is not beyond the code size that the scan will restore.
THEOREM RungsStayInside == Spec => []RungInside
<1>1. Init => RungInside
  BY DEF Init, RungInside
<1>2. Inductive /\ RungInside /\ [Next]_vars => RungInside'
  <2>. SUFFICES ASSUME Inductive, RungInside, [Next]_vars, phase' = "logic"
                PROVE  RungStart(P, rung)' <= pc' /\ codeEnd' <= saved'
    BY DEF RungInside
  <2>1. CASE StartRung
    <3>1. UNCHANGED <<image, pc>> /\ saved' = codeEnd /\ pc \in Nat
      BY <2>1 DEF StartRung, Inductive, TypeOK, ScanOK
    <3>2. RungStart(P, rung)' = RungStart(P, rung')
      BY <3>1 DEF P, RungStart
    <3>. QED  BY <2>1, <3>1, <3>2, RungBegins
  <2>2. ASSUME phase = "logic", UNCHANGED <<image, rung, codeEnd, saved>>, pc' = pc \/ pc' = pc + 1
        PROVE  RungStart(P, rung)' <= pc' /\ codeEnd' <= saved'
    <3>1. RungStart(P, rung) <= pc /\ codeEnd <= saved /\ pc \in Nat /\ image \in Images
      BY <2>2 DEF RungInside, Inductive, TypeOK, ScanOK, ScanOnlyWhileActive
    <3>2. RungStart(P, rung)' = RungStart(P, rung) /\ RungStart(P, rung) \in Nat
      <4>1. rung \in 1..Len(P.rungs)
        BY <2>2 DEF Inductive, ScanPlace, ScanOnlyWhileActive
      <4>2. P.rungs[rung].start \in Nat
        BY <3>1, <4>1, Assumptions DEF ImageAssumption, P
      <4>. QED  BY <2>2, <4>2 DEF P, RungStart
    <3>. QED  BY <2>2, <3>1, <3>2
  <2>3. CASE Execute
    <3>1. phase = "logic" /\ phase' = phase
      BY <2>3, ExecuteShape DEF Keeps, Fails
    <3>2. UNCHANGED <<image, rung, codeEnd, saved>> /\ pc' = pc + 1
      BY <2>3 DEF Execute, BranchBegin, LaneBegin, LaneEnd, BranchEnd, BranchFault, Contact,
                  Coil, OneShot, OnDelay, Count, Reset, Compare, Data, Continue, Abort, Fail,
                  FailWith, ScanOver, stepUnchanged
    <3>. QED  BY <2>2, <3>1, <3>2
  <2>4. CASE UNCHANGED vars
    BY <2>2, <2>4 DEF vars
  <2>5. CASE Host
    BY <2>5, HostShape
  <2>6. CASE \/ \E id \in pending : \/ \E v \in Readings(id) : CaptureInput(id, v)
                                    \/ InputFault(id) \/ WriteOutput(id) \/ OutputFault(id)
             \/ InputsDone \/ EndRung \/ RungsDone
             \/ \E d \in ScanDurations : FinishScan(d)
    BY <2>6 DEF CaptureInput, InputFault, WriteOutput, OutputFault, InputsDone, EndRung,
                RungsDone, FinishScan, Fail, FailWith, ScanOver
  <2>. QED  BY <2>1, <2>3, <2>4, <2>5, <2>6 DEF Next, ScanStep
<1>. QED  BY <1>1, <1>2, InductiveHolds, PTL DEF Spec
=============================================================================
