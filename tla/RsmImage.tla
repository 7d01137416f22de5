------------------------------ MODULE RsmImage ------------------------------
(***************************************************************************)
(* The program images of the portable C runtime                            *)
(* (runtime/core/src/rsm_runtime.c) as constants: the typed tags, the      *)
(* instruction stream and the rung table of every image a host may offer,  *)
(* and the checks rsm_runtime_validate_image applies to them.  An image is *)
(* a record                                                                *)
(*   tags  : a sequence of [type, storage, init], the dense tag table      *)
(*   code  : a sequence of [op, a, b, d, slot], the instruction stream     *)
(*   rungs : a sequence of [start, count], the RUNTIME_RUNGS section       *)
(*   bad   : the header, descriptor or CRC error found, or "OK"            *)
(* Tag ids count from 1 here and from 0 in the image.  REAL tags are left  *)
(* out: every other scalar type, TIMER and COUNTER are here.               *)
(***************************************************************************)
EXTENDS Integers, Sequences, FiniteSets

CONSTANTS
  Images,      \* the images a host may offer
  Program,     \* the contents of each image
  ArenaSize,   \* records the caller's arena has room for
  DintMin, DintMax   \* the range of a DINT (int32_t in the code)

NoOperand == [kind |-> "none"]
TagRef(id) == [kind |-> "tag", id |-> id, member |-> "none"]
MemberRef(id, m) == [kind |-> "tag", id |-> id, member |-> m]
Lit(t, v) == [kind |-> "literal", type |-> t, value |-> v]

Dint == DintMin..DintMax

TimerValue == [pre : Dint, acc : Dint, en : BOOLEAN, tt : BOOLEAN, dn : BOOLEAN]

CounterValue == [pre : Dint, acc : Dint, cu : BOOLEAN, cd : BOOLEAN,
                 dn : BOOLEAN, ov : BOOLEAN, un : BOOLEAN]

ScalarTypes == {"BOOL", "DINT"}

ValueSet(type) ==
  CASE type = "BOOL"    -> BOOLEAN
    [] type = "DINT"    -> Dint
    [] type = "TIMER"   -> TimerValue
    [] type = "COUNTER" -> CounterValue

TagIds(p) == 1..Len(p.tags)
TypeOf(p, id) == p.tags[id].type
IsInput(p, id) == p.tags[id].storage = "input"
InputIds(p) == {id \in TagIds(p) : IsInput(p, id)}
OutputIds(p) == {id \in TagIds(p) : p.tags[id].storage = "output"}

ContactOps == {"XIC", "XIO"}
CoilOps == {"OTE", "OTL", "OTU"}
CountOps == {"CTU", "CTD"}
StatefulOps == CountOps \cup {"TON"}
CompareOps == {"EQ", "NE", "GT", "GE", "LT", "LE"}
ArithOps == {"ADD", "SUB", "MUL", "DIV"}
UnaryOps == {"NEG", "ABS"}
DataOps == ArithOps \cup UnaryOps \cup {"MOV", "CLR"}
BranchOps == {"BRANCH_BEGIN", "LANE_BEGIN", "LANE_END", "BRANCH_END"}
Opcodes == ContactOps \cup CoilOps \cup StatefulOps \cup CompareOps
             \cup DataOps \cup BranchOps \cup {"ONS", "RES"}

(***************************************************************************)
(* member_type, tag_operand, scalar_operand and validate_operands.         *)
(***************************************************************************)
MemberType(type, m) ==
  CASE m \in {"pre", "acc"} /\ type \in {"TIMER", "COUNTER"} -> "DINT"
    [] m \in {"en", "tt"} /\ type = "TIMER"                  -> "BOOL"
    [] m = "dn" /\ type \in {"TIMER", "COUNTER"}             -> "BOOL"
    [] m \in {"cu", "cd", "ov", "un"} /\ type = "COUNTER"    -> "BOOL"
    [] OTHER                                                 -> "none"

OperandType(p, o) ==
  IF o.kind = "literal" THEN o.type
  ELSE IF o.member = "none" THEN TypeOf(p, o.id)
  ELSE MemberType(TypeOf(p, o.id), o.member)

\* An operand naming a whole tag of one of the types.
WholeTag(p, o, types) ==
  /\ o.kind = "tag"
  /\ o.id \in TagIds(p)
  /\ o.member = "none"
  /\ TypeOf(p, o.id) \in types

\* Mutant: an input may be a destination.
WritableToo(p, o, types) == WholeTag(p, o, types)

\* A destination: a whole tag that is not an input.
Writable(p, o, types) == WholeTag(p, o, types) /\ ~IsInput(p, o.id)

Readable(p, o, types) ==
  /\ \/ o.kind = "literal" /\ o.value \in ValueSet(o.type)
     \/ o.kind = "tag" /\ o.id \in TagIds(p)
  /\ OperandType(p, o) \in types

ValidOperands(p, i) ==
  /\ i.op \in ContactOps => WholeTag(p, i.a, {"BOOL"})
  /\ i.op \in CoilOps \cup {"ONS"} => Writable(p, i.a, {"BOOL"})
  /\ i.op = "TON" => WholeTag(p, i.a, {"TIMER"})
  /\ i.op \in CountOps => WholeTag(p, i.a, {"COUNTER"})
  /\ i.op = "RES" => WholeTag(p, i.a, {"TIMER", "COUNTER"})
  /\ i.op \in CompareOps =>
       Readable(p, i.a, {"DINT"}) /\ Readable(p, i.b, {"DINT"})
  /\ i.op = "CLR" => Writable(p, i.a, ScalarTypes)
  /\ i.op = "MOV" =>
       Readable(p, i.a, ScalarTypes) /\ Writable(p, i.b, ScalarTypes)
  /\ i.op \in ArithOps => /\ Readable(p, i.a, {"DINT"})
                          /\ Readable(p, i.b, {"DINT"})
                          /\ Writable(p, i.d, {"DINT"})
  /\ i.op \in UnaryOps =>
       Readable(p, i.a, {"DINT"}) /\ Writable(p, i.b, {"DINT"})

Stateful(p) == {k \in 1..Len(p.code) : p.code[k].op \in StatefulOps}

\* Slot ids may be sparse but grow strictly along the stream.
ValidSlots(p) ==
  /\ \A k \in Stateful(p) : p.code[k].slot \in Nat
  /\ \A j, k \in Stateful(p) : j < k => p.code[j].slot < p.code[k].slot

SlotIds(p) == {p.code[k].slot : k \in Stateful(p)}

(***************************************************************************)
(* The branch pass of validate_image keeps, per open branch, whether a     *)
(* lane is open and how many lanes it has had, in a byte: a branch with    *)
(* LaneMod lanes passes for one with none.  It accepts any other           *)
(* instruction wherever it stands, also between two lanes.                 *)
(***************************************************************************)
MaxBranchDepth == 32
LaneMod == 256

\* The open branches: whether all is well so far, per open branch whether a
\* lane of it is open, and its count of lanes.
NoBranches == [ok |-> TRUE, lane |-> <<>>, count |-> <<>>]

LaneOpen(lane) == lane # <<>> /\ lane[Len(lane)]

BranchAccepted(s, op) ==
  /\ op = "BRANCH_BEGIN" => Len(s.lane) < MaxBranchDepth
  /\ op = "LANE_END" => LaneOpen(s.lane)
  /\ op \in {"LANE_BEGIN", "BRANCH_END"} => s.lane # <<>> /\ ~LaneOpen(s.lane)
  /\ op = "BRANCH_END" => s.count[Len(s.count)] # 0

LaneAfter(lane, op) ==
  CASE op = "BRANCH_BEGIN" -> Append(lane, FALSE)
    [] op = "BRANCH_END"   -> SubSeq(lane, 1, Len(lane) - 1)
    [] op \in {"LANE_BEGIN", "LANE_END"} ->
         [lane EXCEPT ![Len(lane)] = op = "LANE_BEGIN"]
    [] OTHER -> lane

CountAfter(count, op) ==
  CASE op = "BRANCH_BEGIN" -> Append(count, 0)
    [] op = "BRANCH_END"   -> SubSeq(count, 1, Len(count) - 1)
    [] op = "LANE_BEGIN"   -> [count EXCEPT ![Len(count)] = (@ + 1) % LaneMod]
    [] OTHER -> count

BranchStep(s, op) ==
  IF s.ok /\ BranchAccepted(s, op)
  THEN [ok |-> TRUE, lane |-> LaneAfter(s.lane, op), count |-> CountAfter(s.count, op)]
  ELSE [ok |-> FALSE, lane |-> s.lane, count |-> s.count]

BranchScan(code) ==
  LET scan[k \in 0..Len(code)] ==
        IF k = 0 THEN NoBranches ELSE BranchStep(scan[k - 1], code[k].op)
  IN scan

ValidBranches(p) ==
  LET last == BranchScan(p.code)[Len(p.code)] IN last.ok /\ last.lane = <<>>

\* Rungs follow one another, are not empty, cover the stream exactly, and
\* no branch crosses a rung's end (rung_boundaries_ok).
ValidRungs(p) ==
  /\ \A r \in 1..Len(p.rungs) :
       /\ p.rungs[r].count \in Nat \ {0}
       /\ p.rungs[r].start =
            IF r = 1 THEN 0 ELSE p.rungs[r - 1].start + p.rungs[r - 1].count
       /\ p.rungs[r].start + p.rungs[r].count <= Len(p.code)
       /\ BranchScan(p.code)[p.rungs[r].start + p.rungs[r].count].lane = <<>>
  /\ IF Len(p.rungs) = 0 THEN Len(p.code) = 0
     ELSE LET last == p.rungs[Len(p.rungs)]
          IN last.start + last.count = Len(p.code)

RungStart(p, r) == p.rungs[r].start
RungEnd(p, r) == p.rungs[r].start + p.rungs[r].count

ValidTags(p) ==
  \A id \in TagIds(p) :
    /\ p.tags[id].type \in ScalarTypes \cup {"TIMER", "COUNTER"}
    /\ p.tags[id].storage \in {"internal", "input", "output"}

ValidCode(p) ==
  \A k \in 1..Len(p.code) :
    p.code[k].op \in Opcodes /\ ValidOperands(p, p.code[k])

\* rsm_runtime_validate_image.
ValidImage(p) ==
  /\ p.bad = "OK"
  /\ ValidTags(p)
  /\ ValidCode(p)
  /\ ValidSlots(p)
  /\ ValidBranches(p)
  /\ ValidRungs(p)

\* required_layout: one record per tag and per force, one per state slot, and
\* one cell per rung; the fixed header and the alignment are not counted.
RequiredMemory(p) ==
  2 * Len(p.tags) + Cardinality(SlotIds(p)) + Len(p.rungs)

Fits(p) == RequiredMemory(p) <= ArenaSize

Bootable(i) == ValidImage(Program[i]) /\ Fits(Program[i])

\* Each image has a tag table, code and rungs, with initial values of the
\* tags' types: what decoding its sections yields.  A timer's or counter's
\* preset and accumulator come from the image and its flags from the zeroed
\* arena.  That only scalar tags are bound to endpoints is assumed: neither
\* the compiler nor the C validator looks at the type of a bound tag.
ImageAssumption ==
  /\ DintMin \in Int /\ DintMax \in Int /\ DintMin < 0 /\ 0 < DintMax
  /\ ArenaSize \in Nat
  /\ \A i \in Images :
       /\ Len(Program[i].tags) \in Nat
       /\ Len(Program[i].code) \in Nat
       /\ Len(Program[i].rungs) \in Nat
       /\ \A id \in TagIds(Program[i]) :
            /\ Program[i].tags[id].init \in ValueSet(Program[i].tags[id].type)
            /\ Program[i].tags[id].storage # "internal" =>
                 Program[i].tags[id].type \in ScalarTypes
            /\ LET init == Program[i].tags[id].init IN
                 /\ Program[i].tags[id].type = "TIMER" =>
                      ~init.en /\ ~init.tt /\ ~init.dn
                 /\ Program[i].tags[id].type = "COUNTER" => ~init.dn
       /\ \A r \in 1..Len(Program[i].rungs) : Program[i].rungs[r].start \in Nat

ASSUME Assumptions == ImageAssumption
=============================================================================
