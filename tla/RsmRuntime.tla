----------------------------- MODULE RsmRuntime -----------------------------
(***************************************************************************)
(* The portable C runtime of runtime/core/src/rsm_runtime.c: the program   *)
(* loaded, the lifecycle modes, the host's writes and forces, and the      *)
(* scan.                                                                   *)
(*                                                                         *)
(* A host calls one function at a time (the Python binding holds a lock),  *)
(* so a host's action waits for phase "idle".  rsm_runtime_scan is cut     *)
(* where the environment can interfere or a fault can end it: the capture  *)
(* of each input, each instruction, the write of each output, and the      *)
(* closing diagnostics and watchdog.  A call that the code refuses leaves  *)
(* every variable alone; its refusal is the guard of the action.           *)
(***************************************************************************)
EXTENDS RsmImage

CONSTANTS
  Null,           \* no image loaded (impl == NULL)
  UsPerMs,        \* clock units per millisecond (1000 in the code)
  CounterMod,     \* 2^64 in the code: the width of the diagnostic counters
  TraceCapacity,  \* RSM_RUNTIME_WRITE_TRACE_CAPACITY
  HostValues,     \* what a host writes or forces into each type
  InputValues,    \* what an input endpoint may read as, by type
  HostTags,       \* the tags the host of an instance writes and forces
  ScanGaps,       \* time between scans in the instances explored
  ScanDurations,  \* time a scan takes
  FaultsOf,       \* the device calls that may fail: a subset of HalCalls
  MaxScans, MaxFaults, MaxClock   \* bounds of the instances explored

HalCalls == {"INPUT", "OUTPUT", "WATCHDOG"}

RuntimeAssumption ==
  /\ UsPerMs \in Nat \ {0}
  /\ CounterMod \in Nat \ {0}
  /\ TraceCapacity \in Nat
  /\ \A t \in ScalarTypes : /\ HostValues[t] \subseteq ValueSet(t)
                            /\ InputValues[t] \subseteq ValueSet(t)
  /\ ScanGaps \subseteq Nat /\ ScanDurations \subseteq Nat
  /\ FaultsOf \subseteq HalCalls
  /\ MaxScans \in Nat /\ MaxFaults \in Nat /\ MaxClock \in Nat
  /\ Null \notin Images

ASSUME RuntimeAssumptions == RuntimeAssumption

VARIABLES
  mode,       \* r->mode
  image,      \* the image loaded, or Null
  tag,        \* the backing value of every tag
  force,      \* forced tags and the values they show
  slot,       \* the execution state of every stateful instruction
  codeEnd,    \* m->code_size, as a number of instructions
  rungPower,  \* the power every rung ended with
  traceCount, \* entries in the bounded write trace
  diag,       \* the diagnostic counters
  fault,      \* the last fault recorded
  phase,      \* where the scan in progress stands, or "idle"
  pending,    \* endpoints the scan has still to read or write
  pc, rung, power, lanes, saved, tick,  \* the scan's locals
  clock,      \* the monotonic time of the HAL
  output      \* the last value written to each output endpoint

program == <<image, force, mode>>
scanVars == <<pc, rung, power, lanes, saved, tick>>
vars == <<mode, image, tag, force, slot, codeEnd, rungPower, traceCount,
          diag, fault, phase, pending, pc, rung, power, lanes, saved, tick,
          clock, output>>

Modes == {"PROGRAM", "RUN", "TEST", "FAULTED"}
Active == {"RUN", "TEST"}
Faults == {"NEGATIVE_PRE", "DIV_ZERO", "OVERFLOW", "CONVERSION", "BRANCH",
           "INPUT", "OUTPUT", "WATCHDOG"}
NoFault == [message |-> "NONE", scan |-> 0]

P == Program[image]
Code == P.code
Op == Code[pc + 1].op
I == Code[pc + 1]

NoDiag == [scans |-> 0, last |-> 0, avg |-> 0, max |-> 0, faults |-> 0,
           forces |-> 0]

ZeroSlot == [edge |-> FALSE, valid |-> FALSE, time |-> 0]

-----------------------------------------------------------------------------
(* Values *)

\* value: a forced tag shows the forced value.
Effective(id) == IF id \in DOMAIN force THEN force[id] ELSE tag[id]

\* operand: a literal, a member's backing value, or a tag's effective value.
Value(o) ==
  IF o.kind = "literal" THEN o.value
  ELSE IF o.member = "none" THEN Effective(o.id)
  ELSE tag[o.id][o.member]

\* Mutant: the trace has no bound.
TraceAfterUnbounded(n) == traceCount + n

\* The trace keeps the first TraceCapacity entries.
TraceAfter(n) == IF traceCount + n < TraceCapacity THEN traceCount + n
                                                   ELSE TraceCapacity

\* put: store the backing value and record it while the trace has room.
Put(id, v) ==
  /\ tag' = [tag EXCEPT ![id] = v]
  /\ traceCount' = TraceAfter(1)

\* The scan's locals are gone; the sizes the scan changed are not.
ScanOver ==
  /\ phase' = "idle"
  /\ pending' = {}
  /\ pc' = 0 /\ rung' = 0 /\ power' = TRUE /\ lanes' = <<>>
  /\ saved' = 0 /\ tick' = 0

\* Mutant: the scan goes on after the fault.
FailAndGoOn(message, d) ==
  /\ fault' = [message |-> message, scan |-> d.scans]
  /\ diag' = [d EXCEPT !.faults = @ + 1]
  /\ mode' = "FAULTED"
  /\ UNCHANGED <<phase, pending, scanVars>>

\* fail: record the fault and latch FAULTED; the scan's caller returns at
\* once, leaving everything else as it stands.
FailWith(message, d) ==
  /\ fault' = [message |-> message, scan |-> d.scans]
  /\ diag' = [d EXCEPT !.faults = @ + 1]
  /\ mode' = "FAULTED"
  /\ ScanOver

Fail(message) == FailWith(message, diag)

-----------------------------------------------------------------------------
(* Lifecycle *)

ClearTimer(t) == [t EXCEPT !.acc = 0, !.en = FALSE, !.tt = FALSE, !.dn = FALSE]
StopCounter(c) == [c EXCEPT !.cu = FALSE, !.cd = FALSE]

\* Mutant: a reset counter stays done.
ResetAccumulator(c) == [c EXCEPT !.acc = 0]

ResetCounter(c) == [c EXCEPT !.acc = 0, !.cu = FALSE, !.cd = FALSE,
                             !.dn = FALSE, !.ov = FALSE, !.un = FALSE]

\* Mutants: the postscan writes nothing; the prescan forgets the one-shots.
LifecycleOpsOfPrescan(prescan) == IF prescan THEN {"OTE", "ONS"} ELSE {}
LifecycleOpsOfCoils(prescan) == {"OTE"}

\* The instructions lifecycle_outputs writes through: every OTE, and in a
\* prescan every ONS, of the code up to codeEnd.
LifecycleOps(prescan) == IF prescan THEN {"OTE", "ONS"} ELSE {"OTE"}

LifecycleWrites(prescan) ==
  {k \in 1..codeEnd : Code[k].op \in LifecycleOps(prescan)}

\* The value the last such instruction leaves in the tag.
LifecycleValue(id, prescan) ==
  LET ks == {k \in LifecycleWrites(prescan) : Code[k].a.id = id}
  IN CASE TypeOf(P, id) = "TIMER"   -> ClearTimer(tag[id])
       [] TypeOf(P, id) = "COUNTER" -> StopCounter(tag[id])
       [] OTHER -> IF ks = {} THEN tag[id]
                   ELSE \E k \in ks : /\ \A j \in ks : j <= k
                                      /\ Code[k].op = "ONS"

\* The edge memory a lifecycle pass leaves in every slot: a prescan takes the
\* power for present, so a rung true from the start makes no edge.  The
\* mutant takes it for absent.
EdgeArmed(prescan) == FALSE
EdgeAfter(prescan) == prescan

\* lifecycle_outputs.
LifecycleOutputs(prescan) ==
  /\ slot' = [s \in DOMAIN slot |->
                [slot[s] EXCEPT !.valid = FALSE, !.edge = EdgeAfter(prescan)]]
  /\ tag' = [id \in DOMAIN tag |-> LifecycleValue(id, prescan)]
  /\ traceCount' = TraceAfter(Cardinality(LifecycleWrites(prescan)))

\* rsm_runtime_prescan and rsm_runtime_postscan, called directly by a host.
Prescan ==
  /\ phase = "idle" /\ image # Null
  /\ LifecycleOutputs(TRUE)
  /\ UNCHANGED <<mode, image, force, codeEnd, rungPower, diag, fault, phase,
                 pending, scanVars, clock, output>>

Postscan ==
  /\ phase = "idle" /\ image # Null
  /\ LifecycleOutputs(FALSE)
  /\ UNCHANGED <<mode, image, force, codeEnd, rungPower, diag, fault, phase,
                 pending, scanVars, clock, output>>

\* Mutant: FAULTED is left for any mode.
ModeAcceptedFaulted(m) == m \in Active => image # Null

\* The checks of rsm_runtime_set_mode.
ModeAccepted(m) ==
  /\ m \in Active => image # Null
  /\ mode = "FAULTED" => m = "PROGRAM"

SetMode(m) ==
  /\ phase = "idle"
  /\ ModeAccepted(m)
  /\ mode' = m
  /\ IF m \in Active /\ mode = "PROGRAM" THEN LifecycleOutputs(TRUE)
     ELSE IF m = "PROGRAM" /\ mode \in Active THEN LifecycleOutputs(FALSE)
     ELSE UNCHANGED <<tag, slot, traceCount>>
  /\ UNCHANGED <<image, force, codeEnd, rungPower, diag, fault, phase,
                 pending, scanVars, clock, output>>

\* The arena is zeroed and rebuilt from the image.
Install(p) ==
  /\ tag' = [id \in TagIds(p) |-> p.tags[id].init]
  /\ force' = <<>>
  /\ slot' = [s \in SlotIds(p) |-> ZeroSlot]
  /\ codeEnd' = Len(p.code)
  /\ rungPower' = [r \in 1..Len(p.rungs) |-> FALSE]
  /\ traceCount' = 0
  /\ diag' = NoDiag
  /\ fault' = NoFault

\* rsm_runtime_load_image.
LoadImage(i) ==
  /\ phase = "idle" /\ mode = "PROGRAM"
  /\ Bootable(i)
  /\ image' = i
  /\ Install(Program[i])
  /\ UNCHANGED <<mode, phase, pending, scanVars, clock, output>>

\* What is left when impl is NULL.
Forget ==
  /\ image' = Null
  /\ tag' = <<>> /\ force' = <<>> /\ slot' = <<>> /\ rungPower' = <<>>
  /\ codeEnd' = 0 /\ traceCount' = 0
  /\ diag' = NoDiag /\ fault' = NoFault

\* Mutant: the program is unloaded in any mode.
UnloadAnytime ==
  /\ phase = "idle" /\ image # Null
  /\ Forget
  /\ UNCHANGED <<mode, phase, pending, scanVars, clock, output>>

\* rsm_runtime_unload_program.
UnloadProgram ==
  /\ phase = "idle" /\ mode = "PROGRAM" /\ image # Null
  /\ Forget
  /\ UNCHANGED <<mode, phase, pending, scanVars, clock, output>>

\* rsm_runtime_deinit, in any mode.
Deinit ==
  /\ phase = "idle"
  /\ Forget
  /\ mode' = "PROGRAM"
  /\ UNCHANGED <<phase, pending, scanVars, clock, output>>

-----------------------------------------------------------------------------
(* The host's reads change nothing; these are its writes and forces. *)

hostUnchanged == <<mode, image, slot, codeEnd, rungPower, fault, phase,
                   pending, scanVars, clock, output>>

\* A value of another type is refused with TYPE_MISMATCH.
HostChoices(id) ==
  IF image # Null /\ id \in TagIds(P) /\ TypeOf(P, id) \in ScalarTypes
  THEN HostValues[TypeOf(P, id)] ELSE {}

\* rsm_runtime_write_tag: an input is not writable, a type must match.
WriteTag(id, v) ==
  /\ phase = "idle" /\ image # Null
  /\ v \in HostChoices(id) /\ ~IsInput(P, id)
  /\ Put(id, v)
  /\ UNCHANGED <<force, diag, hostUnchanged>>

\* active_force_count after a force of id; the mutant counts every call.
ForceCalls(id) == diag.forces + 1
ForcesWith(id) == IF id \in DOMAIN force THEN diag.forces ELSE diag.forces + 1

\* rsm_runtime_force_tag: any scalar, inputs too, in any mode.
ForceTag(id, v) ==
  /\ phase = "idle" /\ image # Null
  /\ v \in HostChoices(id)
  /\ force' = [j \in DOMAIN force \cup {id} |-> IF j = id THEN v ELSE force[j]]
  /\ diag' = [diag EXCEPT !.forces = ForcesWith(id)]
  /\ UNCHANGED <<tag, traceCount, hostUnchanged>>

\* rsm_runtime_clear_force.
ClearForce(id) ==
  /\ phase = "idle" /\ image # Null
  /\ id \in DOMAIN force
  /\ force' = [j \in DOMAIN force \ {id} |-> force[j]]
  /\ diag' = [diag EXCEPT !.forces = @ - 1]
  /\ UNCHANGED <<tag, traceCount, hostUnchanged>>

\* rsm_runtime_clear_all_forces.
ClearAllForces ==
  /\ phase = "idle" /\ image # Null
  /\ force' = <<>>
  /\ diag' = [diag EXCEPT !.forces = 0]
  /\ UNCHANGED <<tag, traceCount, hostUnchanged>>

\* rsm_runtime_clear_write_trace.
ClearWriteTrace ==
  /\ phase = "idle" /\ image # Null
  /\ traceCount' = 0
  /\ UNCHANGED <<tag, force, diag, hostUnchanged>>

-----------------------------------------------------------------------------
(* rsm_runtime_scan: capture the inputs *)

\* The endpoint the loops over tag ids reach next.
Turn(id) == id \in pending /\ \A j \in pending : id <= j

BeginScan(gap) ==
  /\ phase = "idle" /\ image # Null /\ mode \in Active
  /\ diag.scans < MaxScans /\ diag.faults < MaxFaults
  /\ clock + gap <= MaxClock
  /\ clock' = clock + gap
  /\ tick' = clock + gap
  /\ phase' = "input"
  /\ pending' = InputIds(P)
  /\ pc' = 0 /\ rung' = 0 /\ power' = TRUE /\ lanes' = <<>> /\ saved' = codeEnd
  /\ UNCHANGED <<mode, image, tag, force, slot, codeEnd, rungPower,
                 traceCount, diag, fault, output>>

\* The endpoints still due once id is done; the mutant's loop never advances.
StillAll(id) == pending
StillDue(id) == pending \ {id}

\* read_input is handed the tag's effective value, and leaves it there where
\* the endpoint has no reading (the test port); others refuse (InputFault).
Readings(id) == InputValues[TypeOf(P, id)] \cup {Effective(id)}

\* What read_input answers becomes the backing value.
CaptureInput(id, v) ==
  /\ phase = "input" /\ Turn(id)
  /\ v \in Readings(id)
  /\ tag' = [tag EXCEPT ![id] = v]
  /\ pending' = StillDue(id)
  /\ UNCHANGED <<mode, image, force, slot, codeEnd, rungPower, traceCount,
                 diag, fault, phase, scanVars, clock, output>>

\* The read fails, or answers with another type.
InputFault(id) ==
  /\ phase = "input" /\ Turn(id)
  /\ "INPUT" \in FaultsOf
  /\ Fail("INPUT")
  /\ UNCHANGED <<image, tag, force, slot, codeEnd, rungPower, traceCount,
                 clock, output>>

InputsDone ==
  /\ phase = "input" /\ pending = {}
  /\ phase' = "rung"
  /\ UNCHANGED <<mode, image, tag, force, slot, codeEnd, rungPower,
                 traceCount, diag, fault, pending, scanVars, clock, output>>

-----------------------------------------------------------------------------
(* rsm_runtime_scan: the rungs.  While a rung runs, code_size is cut to    *)
(* the rung's end and the whole size kept in a local of the scan.          *)

\* The end of the rung that starts at pc; the mutant's is one short.
RungEndShort == pc + P.rungs[rung + 1].count - 1
NextRungEnd == pc + P.rungs[rung + 1].count

StartRung ==
  /\ phase = "rung" /\ pc < codeEnd
  /\ rung' = rung + 1
  /\ saved' = codeEnd
  /\ codeEnd' = NextRungEnd
  /\ power' = TRUE
  /\ phase' = "logic"
  /\ UNCHANGED <<mode, image, tag, force, slot, rungPower, traceCount, diag,
                 fault, pending, pc, lanes, tick, clock, output>>

\* What EndRung leaves as the code size; the mutant does not restore it.
SizeLeftCut == codeEnd
SizeRestored == saved

EndRung ==
  /\ phase = "logic" /\ pc >= codeEnd
  /\ codeEnd' = SizeRestored
  /\ rungPower' = [rungPower EXCEPT ![rung] = power]
  /\ phase' = "rung"
  /\ UNCHANGED <<mode, image, tag, force, slot, traceCount, diag, fault,
                 pending, scanVars, clock, output>>

\* Outputs are written only in RUN; the mutant's also in TEST.
OutputsAlways == OutputIds(P)
OutputsDue == IF mode = "RUN" THEN OutputIds(P) ELSE {}

RungsDone ==
  /\ phase = "rung" /\ pc >= codeEnd
  /\ phase' = "output"
  /\ pending' = OutputsDue
  /\ UNCHANGED <<mode, image, tag, force, slot, codeEnd, rungPower,
                 traceCount, diag, fault, scanVars, clock, output>>

-----------------------------------------------------------------------------
(* run_until: branches.  A frame holds the power that entered the branch,  *)
(* what its finished lanes merged to, and whether a lane is being run.     *)

Top == lanes[Len(lanes)]
BetweenLanes == lanes # <<>> /\ ~Top.open
SetTop(frame) == [lanes EXCEPT ![Len(lanes)] = frame]

AtInstruction == phase = "logic" /\ pc < codeEnd

\* The instruction at pc is one of ops and run_until's loop has reached it.
Executing(ops) == AtInstruction /\ ~BetweenLanes /\ Op \in ops

stepUnchanged == <<mode, image, force, codeEnd, rungPower, fault, phase,
                   pending, rung, saved, tick, clock, output>>

BranchBegin ==
  /\ Executing({"BRANCH_BEGIN"})
  /\ lanes' = Append(lanes, [input |-> power, merged |-> FALSE, open |-> FALSE])
  /\ pc' = pc + 1
  /\ UNCHANGED <<power, tag, slot, traceCount, diag, stepUnchanged>>

\* The power a lane begins with; the mutant's lanes start powered.
LanePowered == TRUE
LanePower == Top.input

LaneBegin ==
  /\ AtInstruction /\ BetweenLanes /\ Op = "LANE_BEGIN"
  /\ power' = LanePower
  /\ lanes' = SetTop([Top EXCEPT !.open = TRUE])
  /\ pc' = pc + 1
  /\ UNCHANGED <<tag, slot, traceCount, diag, stepUnchanged>>

LaneEnd ==
  /\ Executing({"LANE_END"})
  /\ lanes' = SetTop([Top EXCEPT !.merged = @ \/ power, !.open = FALSE])
  /\ pc' = pc + 1
  /\ UNCHANGED <<power, tag, slot, traceCount, diag, stepUnchanged>>

BranchEnd ==
  /\ AtInstruction /\ BetweenLanes /\ Op = "BRANCH_END"
  /\ power' = Top.merged
  /\ lanes' = SubSeq(lanes, 1, Len(lanes) - 1)
  /\ pc' = pc + 1
  /\ UNCHANGED <<tag, slot, traceCount, diag, stepUnchanged>>

\* Between lanes only a lane or the end of the branch may follow.
BranchFault ==
  /\ AtInstruction /\ BetweenLanes /\ Op \notin {"LANE_BEGIN", "BRANCH_END"}
  /\ Fail("BRANCH")
  /\ UNCHANGED <<image, tag, force, slot, codeEnd, rungPower, traceCount,
                 clock, output>>

-----------------------------------------------------------------------------
(* execute: one action per group of opcodes *)

\* The instruction ends well and hands on the power.
Continue(pow) ==
  /\ pc' = pc + 1
  /\ power' = pow
  /\ UNCHANGED <<lanes, diag, stepUnchanged>>

\* The instruction faults; what it has stored so far stays.
Abort(message) ==
  /\ Fail(message)
  /\ UNCHANGED <<image, tag, force, slot, codeEnd, rungPower, traceCount,
                 clock, output>>

Contact ==
  /\ Executing(ContactOps)
  /\ Continue(power /\ (Value(I.a) = (Op = "XIC")))
  /\ UNCHANGED <<tag, slot, traceCount>>

\* OTE follows the power; OTL and OTU write only with power.
Coil ==
  /\ Executing(CoilOps)
  /\ IF Op = "OTE" \/ power
     THEN Put(I.a.id, IF Op = "OTE" THEN power ELSE Op = "OTL")
     ELSE UNCHANGED <<tag, traceCount>>
  /\ Continue(power)
  /\ UNCHANGED slot

\* The storage bit is read through the forces and written behind them.
OneShot ==
  /\ Executing({"ONS"})
  /\ Put(I.a.id, power)
  /\ Continue(power /\ ~Value(I.a))
  /\ UNCHANGED slot

Elapsed == IF slot[I.slot].valid THEN (tick - slot[I.slot].time) \div UsPerMs
                                 ELSE 0

\* Mutants: no cap; a slot that keeps its time.
TimerAccUncapped(t) == t.acc + Elapsed
SlotKept(s) == slot

\* The accumulator is capped at the largest DINT.
TimerAcc(t) == IF Elapsed > DintMax - t.acc THEN DintMax ELSE t.acc + Elapsed

\* Mutant: the timer goes on timing when it is done.
RunTimerTiming(t) ==
  LET acc == TimerAcc(t)
  IN [t EXCEPT !.en = TRUE, !.acc = acc, !.dn = acc >= t.pre, !.tt = TRUE]

RunTimer(t) ==
  LET acc == TimerAcc(t)
  IN [t EXCEPT !.en = TRUE, !.acc = acc, !.dn = acc >= t.pre,
               !.tt = ~(acc >= t.pre)]

\* The state of a timer without power: no time to count from.
SlotStopped(s) == [slot EXCEPT ![s].valid = FALSE]

OnDelay ==
  /\ Executing({"TON"})
  /\ LET id == I.a.id
     IN \/ /\ tag[id].pre < 0
           /\ Abort("NEGATIVE_PRE")
        \/ /\ tag[id].pre >= 0
           /\ IF power
              THEN /\ tag' = [tag EXCEPT ![id] = RunTimer(tag[id])]
                   /\ slot' = [slot EXCEPT ![I.slot].valid = TRUE,
                                           ![I.slot].time = tick]
              ELSE /\ tag' = [tag EXCEPT ![id] = ClearTimer(tag[id])]
                   /\ slot' = SlotStopped(I.slot)
           /\ Continue(power)
           /\ UNCHANGED traceCount

Rise == power /\ ~slot[I.slot].edge

\* Mutant: the accumulator does not wrap around.
CountUpFurther(c) ==
  LET acc == IF Rise THEN c.acc + 1 ELSE c.acc
  IN [c EXCEPT !.cu = power, !.acc = acc, !.dn = acc >= c.pre]

\* Counters wrap around at the ends of DINT and say so.
CountUp(c) ==
  LET wraps == Rise /\ c.acc = DintMax
      acc == IF wraps THEN DintMin ELSE IF Rise THEN c.acc + 1 ELSE c.acc
  IN [c EXCEPT !.cu = power, !.acc = acc, !.ov = @ \/ wraps, !.dn = acc >= c.pre]

CountDown(c) ==
  LET wraps == Rise /\ c.acc = DintMin
      acc == IF wraps THEN DintMax ELSE IF Rise THEN c.acc - 1 ELSE c.acc
  IN [c EXCEPT !.cd = power, !.acc = acc, !.un = @ \/ wraps, !.dn = acc >= c.pre]

Count ==
  /\ Executing(CountOps)
  /\ tag' = [tag EXCEPT ![I.a.id] =
               IF Op = "CTU" THEN CountUp(@) ELSE CountDown(@)]
  /\ slot' = [slot EXCEPT ![I.slot].edge = power]
  /\ Continue(power)
  /\ UNCHANGED traceCount

\* The slots RES clears: those of the instructions on its tag, as far as
\* codeEnd, which is the end of the rung being run.
ResetSlots(id) ==
  {Code[k].slot : k \in {j \in 1..codeEnd : /\ Code[j].op \in StatefulOps
                                            /\ Code[j].a.id = id}}

Reset ==
  /\ Executing({"RES"})
  /\ IF power
     THEN /\ tag' = [tag EXCEPT ![I.a.id] =
                       IF TypeOf(P, I.a.id) = "TIMER" THEN ClearTimer(@)
                                                      ELSE ResetCounter(@)]
          /\ slot' = [s \in DOMAIN slot |->
                        IF s \in ResetSlots(I.a.id) THEN ZeroSlot ELSE slot[s]]
     ELSE UNCHANGED <<tag, slot>>
  /\ Continue(power)
  /\ UNCHANGED traceCount

Holds(op, x, y) ==
  CASE op = "EQ" -> x = y
    [] op = "NE" -> x # y
    [] op = "GT" -> x > y
    [] op = "GE" -> x >= y
    [] op = "LT" -> x < y
    [] op = "LE" -> x <= y

Compare ==
  /\ Executing(CompareOps)
  /\ Continue(power /\ Holds(Op, Value(I.a), Value(I.b)))
  /\ UNCHANGED <<tag, slot, traceCount>>

\* C division: towards zero.
TruncDiv(x, y) ==
  LET Abs(n) == IF n < 0 THEN -n ELSE n
      q == Abs(x) \div Abs(y)
  IN IF (x < 0) = (y < 0) THEN q ELSE -q

Destination == IF Op = "CLR" THEN I.a
               ELSE IF Op \in ArithOps THEN I.d ELSE I.b

Arithmetic(op, x, y) ==
  CASE op = "ADD" -> x + y
    [] op = "SUB" -> x - y
    [] op = "MUL" -> x * y
    [] op = "DIV" -> TruncDiv(x, y)

Unary(op, x) == IF op = "NEG" \/ x < 0 THEN -x ELSE x

Result ==
  CASE Op = "CLR"       -> IF TypeOf(P, I.a.id) = "BOOL" THEN FALSE ELSE 0
    [] Op = "MOV"       -> Value(I.a)
    [] Op \in UnaryOps  -> Unary(Op, Value(I.a))
    [] Op \in ArithOps  -> Arithmetic(Op, Value(I.a), Value(I.b))

\* Mutant: the result is not checked against the range of a DINT.
DataFaultUnchecked ==
  IF Op = "MOV" /\ OperandType(P, I.a) # TypeOf(P, I.b.id) THEN "CONVERSION"
  ELSE IF Op = "DIV" /\ Value(I.b) = 0 THEN "DIV_ZERO"
  ELSE "NONE"

DataFault ==
  IF Op = "MOV" /\ OperandType(P, I.a) # TypeOf(P, I.b.id) THEN "CONVERSION"
  ELSE IF Op = "DIV" /\ Value(I.b) = 0 THEN "DIV_ZERO"
  ELSE IF Op \in ArithOps \cup UnaryOps /\ Result \notin Dint THEN "OVERFLOW"
  ELSE "NONE"

\* MOV, CLR and the arithmetic do nothing without power; a fault leaves the
\* destination alone.
Data ==
  /\ Executing(DataOps)
  /\ \/ /\ ~power
        /\ Continue(power)
        /\ UNCHANGED <<tag, slot, traceCount>>
     \/ /\ power /\ DataFault # "NONE"
        /\ Abort(DataFault)
     \/ /\ power /\ DataFault = "NONE"
        /\ Put(Destination.id, Result)
        /\ Continue(power)
        /\ UNCHANGED slot

-----------------------------------------------------------------------------
(* rsm_runtime_scan: write the outputs, close the books, kick the watchdog *)

\* What an output endpoint is given; the mutant ignores the forces.
Unforced(id) == tag[id]
Published(id) == Effective(id)

WriteOutput(id) ==
  /\ phase = "output" /\ Turn(id)
  /\ output' = [j \in DOMAIN output \cup {id} |->
                  IF j = id THEN Published(id) ELSE output[j]]
  /\ pending' = StillDue(id)
  /\ UNCHANGED <<mode, image, tag, force, slot, codeEnd, rungPower,
                 traceCount, diag, fault, phase, scanVars, clock>>

\* The device refuses the value; the outputs before it are written.
OutputFault(id) ==
  /\ phase = "output" /\ Turn(id)
  /\ "OUTPUT" \in FaultsOf
  /\ Fail("OUTPUT")
  /\ UNCHANGED <<image, tag, force, slot, codeEnd, rungPower, traceCount,
                 clock, output>>

\* Unsigned arithmetic modulo the width of the counter.
Average(avg, last, n) == (avg + ((last - avg) % CounterMod) \div n) % CounterMod

ScanDiag(d) ==
  [diag EXCEPT !.scans = @ + 1,
               !.last = d,
               !.max = IF d > @ THEN d ELSE @,
               !.avg = Average(@, d, diag.scans + 1)]

FinishScan(d) ==
  /\ phase = "output" /\ pending = {}
  /\ clock' = clock + d
  /\ \/ /\ diag' = ScanDiag(d)
        /\ ScanOver
        /\ UNCHANGED <<mode, fault>>
     \/ /\ "WATCHDOG" \in FaultsOf
        /\ FailWith("WATCHDOG", ScanDiag(d))
  /\ UNCHANGED <<image, tag, force, slot, codeEnd, rungPower, traceCount,
                 output>>

-----------------------------------------------------------------------------
(* The specification *)

Init ==
  /\ mode = "PROGRAM" /\ image = Null
  /\ tag = <<>> /\ force = <<>> /\ slot = <<>> /\ rungPower = <<>>
  /\ codeEnd = 0 /\ traceCount = 0
  /\ diag = NoDiag /\ fault = NoFault
  /\ phase = "idle" /\ pending = {}
  /\ pc = 0 /\ rung = 0 /\ power = TRUE /\ lanes = <<>>
  /\ saved = 0 /\ tick = 0
  /\ clock = 0 /\ output = <<>>

Execute ==
  \/ BranchBegin \/ LaneBegin \/ LaneEnd \/ BranchEnd \/ BranchFault
  \/ Contact \/ Coil \/ OneShot \/ OnDelay \/ Count \/ Reset \/ Compare \/ Data

\* The steps of a scan once begun: one thread runs them to the end.
ScanStep ==
  \/ \E id \in pending :
       \/ \E v \in Readings(id) : CaptureInput(id, v)
       \/ InputFault(id) \/ WriteOutput(id) \/ OutputFault(id)
  \/ InputsDone \/ StartRung \/ EndRung \/ RungsDone
  \/ Execute
  \/ \E d \in ScanDurations : FinishScan(d)

Host ==
  \/ \E i \in Images : LoadImage(i)
  \/ UnloadProgram \/ Deinit
  \/ \E m \in Modes : SetMode(m)
  \/ Prescan \/ Postscan
  \/ \E id \in HostTags :
       \/ \E v \in HostChoices(id) : WriteTag(id, v) \/ ForceTag(id, v)
       \/ ClearForce(id)
  \/ ClearAllForces \/ ClearWriteTrace
  \/ \E gap \in ScanGaps : BeginScan(gap)

Next == Host \/ ScanStep

Spec == Init /\ [][Next]_vars

\* A call of rsm_runtime_scan runs to its return; nothing makes a host call.
FairSpec == Spec /\ WF_vars(ScanStep)

-----------------------------------------------------------------------------
(* Types *)

SlotState == [edge : BOOLEAN, valid : BOOLEAN, time : Nat]
Frame == [input : BOOLEAN, merged : BOOLEAN, open : BOOLEAN]
Phases == {"idle", "input", "rung", "logic", "output"}
Diag == [scans : Nat, last : Nat, avg : Nat, max : Nat, faults : Nat,
         forces : Int]

\* The tables of a loaded image have the image's shape.
TablesOK ==
  /\ DOMAIN tag = TagIds(P)
  /\ \A id \in TagIds(P) : tag[id] \in ValueSet(TypeOf(P, id))
  /\ DOMAIN force \subseteq TagIds(P)
  /\ \A id \in DOMAIN force : /\ TypeOf(P, id) \in ScalarTypes
                              /\ force[id] \in ValueSet(TypeOf(P, id))
  /\ DOMAIN slot = SlotIds(P)
  /\ \A s \in SlotIds(P) : slot[s] \in SlotState /\ slot[s].time <= clock
  /\ DOMAIN rungPower = 1..Len(P.rungs)
  /\ \A r \in 1..Len(P.rungs) : rungPower[r] \in BOOLEAN

ScanOK ==
  /\ phase \in Phases
  /\ pc \in Nat /\ rung \in Nat /\ power \in BOOLEAN /\ lanes \in Seq(Frame)
  /\ codeEnd \in Nat /\ saved \in Nat
  /\ clock \in Nat /\ tick \in Nat /\ tick <= clock
  /\ pending \subseteq Nat

\* Every variable has its type, and the tables fit the loaded image.
TypeOK ==
  /\ mode \in Modes
  /\ image \in Images \cup {Null}
  /\ image # Null => Bootable(image) /\ TablesOK
  /\ traceCount \in 0..TraceCapacity
  /\ diag \in Diag
  /\ fault \in [message : Faults \cup {"NONE"}, scan : Nat]
  /\ ScanOK

-----------------------------------------------------------------------------
(* Safety *)

\* A scan in progress has a program, and runs in RUN or TEST: once a fault has
\* latched FAULTED, no further instruction, output or diagnostic step follows.
ScanOnlyWhileActive ==
  /\ phase # "idle" => mode \in Active
  /\ mode \in Active => image # Null

\* The code size a scan leaves behind, even where a fault cut it, is the end
\* of a rung: a later scan never starts to run half a rung, so the fault
\* RUNG_RANGE of the rung loop stays unreachable.
Boundaries == {0} \cup {RungEnd(P, r) : r \in 1..Len(P.rungs)}

CutAtRungBoundary == image # Null => codeEnd \in Boundaries /\ saved \in Boundaries

\* While the program has not faulted since it was loaded, a scan that gets to
\* its outputs has run every instruction of the image.
FaultFreeScanRunsAll == phase = "output" /\ diag.faults = 0 => pc = Len(Code)

\* active_force_count, kept by increments and decrements, counts the forces.
ForceCountExact == image # Null => diag.forces = Cardinality(DOMAIN force)

\* A timer that is not enabled is neither timing nor done; an enabled one is
\* exactly one of the two, done when its accumulator has reached the preset.
\* Several instructions, resets, faults and mode changes touch these members.
TimerCoherent ==
  image # Null =>
    \A id \in {j \in TagIds(P) : TypeOf(P, j) = "TIMER"} :
      LET t == tag[id] IN
        IF t.en THEN t.dn = (t.acc >= t.pre) /\ t.tt = ~t.dn
                ELSE ~t.tt /\ ~t.dn

\* A counter never claims to be done below its preset, whatever wrapped,
\* reset or stopped it.
CounterCoherent ==
  image # Null =>
    \A id \in TagIds(P) :
      TypeOf(P, id) = "COUNTER" /\ tag[id].dn => tag[id].acc >= tag[id].pre

\* Timers and counters say of themselves what their accumulators show.
InstructionsCoherent == TimerCoherent /\ CounterCoherent

\* Power only flows from the left: a lane is powered only if its branch was,
\* a branch merges to power only if it was entered with power, and so on
\* outwards through every enclosing lane.
PowerFlow ==
  /\ \A k \in 1..Len(lanes) :
       /\ lanes[k].merged => lanes[k].input
       /\ k < Len(lanes) => lanes[k].open
       /\ (k < Len(lanes) /\ lanes[k + 1].input) => lanes[k].input
  /\ lanes # <<>> /\ Top.open /\ power => Top.input

\* While a RUN scan writes its outputs, every endpoint already written shows
\* the tag's effective value: the forced one if there is a force.
OutputsPublished ==
  phase = "output" /\ mode = "RUN" =>
    \A id \in OutputIds(P) \ pending :
      id \in DOMAIN output /\ output[id] = Effective(id)

\* Where a scan stands between its phases: the rung that ended last ends at
\* pc; the rung that runs ends at codeEnd, the size of the whole image being
\* kept in saved; the endpoints pending are those of the phase; time stands
\* still; and nothing but a fault leaves a size that is not the image's.
ScanPlace ==
  /\ phase = "input" => pending \subseteq InputIds(P) /\ rung = 0 /\ pc = 0
  /\ phase = "output" => pending \subseteq OutputIds(P)
  /\ phase = "output" /\ mode # "RUN" => pending = {}
  /\ phase = "rung" => /\ rung \in 0..Len(P.rungs)
                       /\ pc = IF rung = 0 THEN 0 ELSE RungEnd(P, rung)
  /\ phase = "logic" => /\ rung \in 1..Len(P.rungs)
                        /\ codeEnd = RungEnd(P, rung) /\ pc <= codeEnd
  /\ phase # "idle" => tick = clock
  /\ diag.faults = 0 =>
       Len(Code) = IF phase = "logic" THEN saved ELSE codeEnd
  /\ phase = "output" => pc <= Len(Code) /\ codeEnd <= pc

\* The invariant that every step preserves and the theorems rest on.
Inductive ==
  /\ TypeOK
  /\ ScanOnlyWhileActive
  /\ CutAtRungBoundary
  /\ image # Null => ScanPlace
  /\ phase = "idle" => saved = 0

-----------------------------------------------------------------------------
(* What a step may never do *)

\* FAULTED is left only for PROGRAM, and while it lasts no scan starts and no
\* physical output changes, whatever the host writes or forces.
FaultLatched ==
  [][mode = "FAULTED" => /\ mode' \in {"FAULTED", "PROGRAM"}
                         /\ phase' = "idle"
                         /\ output' = output]_vars

\* Inputs are captured once: no instruction, output or fault of the rest of
\* the scan changes the captured value of an input.
InputsHeld ==
  [][(phase \in {"rung", "logic", "output"}) =>
       \A id \in InputIds(P) : tag'[id] = tag[id]]_vars

\* TEST, faults, mode changes and host calls never touch a physical output.
OutputsOnlyInRun == [][output' # output => mode = "RUN" /\ phase = "output"]_vars

\* The coils of a program are off and its timers cleared.
DeEnergized ==
  /\ \A k \in 1..Len(Code) : Code[k].op = "OTE" => ~tag[Code[k].a.id]
  /\ \A id \in TagIds(P) :
       TypeOf(P, id) = "TIMER" => tag[id].acc = 0 /\ ~tag[id].en

\* Leaving RUN or TEST for PROGRAM turns every OTE destination off and clears
\* every timer, while the program has not faulted since it was loaded.
StopDeEnergizes ==
  [][image # Null /\ image' = image /\ diag.faults = 0
       /\ mode \in Active /\ mode' = "PROGRAM" => DeEnergized']_vars

-----------------------------------------------------------------------------
(* Liveness *)

\* A scan that has begun returns, by its end or by a fault.
ScanReturns == phase # "idle" ~> phase = "idle"

-----------------------------------------------------------------------------
(* Refinement *)

Lifecycle == INSTANCE RsmLifecycle
               WITH loaded <- (image # Null), scanning <- (phase # "idle")

\* The runtime implements the lifecycle its documents promise: a host sees
\* only modes and transitions of RsmLifecycle, and every scan returns.
ImplementsLifecycle == Lifecycle!FairSpec
=============================================================================
