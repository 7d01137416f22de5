---------------------------- MODULE MCRsmRuntime ----------------------------
(***************************************************************************)
(* The images the runs of RsmRuntime load, and the values their hosts and  *)
(* devices use.  Every opcode group, both kinds of endpoint, a sealed-in   *)
(* branch, a one-shot, a timer, two counters, and every fault are here.    *)
(***************************************************************************)
EXTENDS RsmReads

Bool(storage) == [type |-> "BOOL", storage |-> storage, init |-> FALSE]
Number(storage, v) == [type |-> "DINT", storage |-> storage, init |-> v]
Timer(preset) ==
  [type |-> "TIMER", storage |-> "internal",
   init |-> [pre |-> preset, acc |-> 0, en |-> FALSE, tt |-> FALSE, dn |-> FALSE]]
Counter(preset, acc) ==
  [type |-> "COUNTER", storage |-> "internal",
   init |-> [pre |-> preset, acc |-> acc, cu |-> FALSE, cd |-> FALSE,
             dn |-> FALSE, ov |-> FALSE, un |-> FALSE]]

Ins(op, a, b, d) == [op |-> op, a |-> a, b |-> b, d |-> d, slot |-> -1]
On(op, id) == Ins(op, TagRef(id), NoOperand, NoOperand)
With(op, id, s) == [On(op, id) EXCEPT !.slot = s]
Ctl(op) == Ins(op, NoOperand, NoOperand, NoOperand)
Rung(s, n) == [start |-> s, count |-> n]

\* A motor sealed in by its own contact, and a one-shot on its start.
Latch ==
  [bad |-> "OK",
   tags |-> <<Bool("input"), Bool("output"), Bool("internal"), Bool("output")>>,
   code |-> <<Ctl("BRANCH_BEGIN"),
                Ctl("LANE_BEGIN"), On("XIC", 1), Ctl("LANE_END"),
                Ctl("LANE_BEGIN"), On("XIC", 2), Ctl("LANE_END"),
              Ctl("BRANCH_END"), On("OTE", 2),
              On("XIC", 2), On("ONS", 3), On("OTE", 4)>>,
   rungs |-> <<Rung(0, 9), Rung(9, 3)>>]

\* A branch within a lane of a branch that a false rung may enter.
Nested ==
  [bad |-> "OK",
   tags |-> <<Bool("input"), Bool("output")>>,
   code |-> <<On("XIC", 1), Ctl("BRANCH_BEGIN"),
                Ctl("LANE_BEGIN"), On("XIO", 2), Ctl("BRANCH_BEGIN"),
                  Ctl("LANE_BEGIN"), On("XIO", 1), Ctl("LANE_END"),
                  Ctl("LANE_BEGIN"), On("XIC", 1), Ctl("LANE_END"),
                Ctl("BRANCH_END"), Ctl("LANE_END"),
                Ctl("LANE_BEGIN"), On("XIC", 2), Ctl("LANE_END"),
              Ctl("BRANCH_END"), On("OTE", 2)>>,
   rungs |-> <<Rung(0, 18)>>]

\* An instruction stands between the start of a branch and its first lane.
Torn ==
  [bad |-> "OK",
   tags |-> <<Bool("input"), Bool("output")>>,
   code |-> <<Ctl("BRANCH_BEGIN"), On("XIC", 1), Ctl("LANE_BEGIN"),
              Ctl("LANE_END"), Ctl("BRANCH_END"), On("OTE", 2)>>,
   rungs |-> <<Rung(0, 6)>>]

\* An on-delay timer and the output it switches.
Timing ==
  [bad |-> "OK",
   tags |-> <<Bool("input"), Timer(1), Bool("output")>>,
   code |-> <<On("XIC", 1), With("TON", 2, 3),
              Ins("GE", MemberRef(2, "acc"), MemberRef(2, "pre"), NoOperand),
              On("OTE", 3)>>,
   rungs |-> <<Rung(0, 2), Rung(2, 2)>>]

\* The same timer, reset by the rung behind it.
TimedReset ==
  [Timing EXCEPT !.code = @ \o <<On("XIO", 1), On("RES", 2)>>,
                 !.rungs = @ \o <<Rung(4, 2)>>]

\* A timer whose preset is negative faults when it is reached.
BadPreset == [Timing EXCEPT !.tags[2] = Timer(-1)]

\* Up and down counting of one counter, and its reset in the last rung.
Counting ==
  [bad |-> "OK",
   tags |-> <<Bool("input"), Counter(1, 0), Bool("input")>>,
   code |-> <<On("XIC", 1), With("CTU", 2, 0),
              On("XIO", 1), With("CTD", 2, 5),
              On("XIC", 3), On("RES", 2)>>,
   rungs |-> <<Rung(0, 2), Rung(2, 2), Rung(4, 2)>>]

\* The reset stands in a rung before the counter's.
ResetFirst ==
  [bad |-> "OK",
   tags |-> <<Bool("input"), Counter(1, 0), Bool("input")>>,
   code |-> <<On("XIC", 3), On("RES", 2), On("XIC", 1), With("CTU", 2, 0)>>,
   rungs |-> <<Rung(0, 2), Rung(2, 2)>>]

\* A counter that the absence of what it counts resets.
Tally ==
  [bad |-> "OK",
   tags |-> <<Bool("input"), Counter(1, 0)>>,
   code |-> <<On("XIC", 1), With("CTU", 2, 0), On("XIO", 1), On("RES", 2)>>,
   rungs |-> <<Rung(0, 2), Rung(2, 2)>>]

\* A division by an input, with a coil before it and an output after it.
Dividing ==
  [bad |-> "OK",
   tags |-> <<Number("input", 1), Bool("internal"), Number("internal", 1),
              Bool("internal"), Bool("output")>>,
   code |-> <<On("XIC", 2), On("OTE", 4),
              Ins("DIV", Lit("DINT", 1), TagRef(1), TagRef(3)),
              On("XIC", 2), On("OTE", 5)>>,
   rungs |-> <<Rung(0, 2), Rung(2, 1), Rung(3, 2)>>]

\* The other data instructions.
Maths ==
  [bad |-> "OK",
   tags |-> <<Number("input", 0), Number("internal", 0), Bool("internal")>>,
   code |-> <<Ins("LT", TagRef(2), TagRef(1), NoOperand),
              Ins("ADD", TagRef(2), TagRef(1), TagRef(2)), On("OTL", 3),
              Ins("GT", TagRef(2), TagRef(1), NoOperand),
              Ins("NEG", TagRef(1), TagRef(2), NoOperand), On("OTU", 3),
              On("XIC", 3),
              Ins("MOV", TagRef(3), TagRef(2), NoOperand),
              Ins("EQ", TagRef(2), TagRef(1), NoOperand),
              Ins("MOV", TagRef(1), TagRef(2), NoOperand), On("CLR", 3)>>,
   rungs |-> <<Rung(0, 3), Rung(3, 3), Rung(6, 2), Rung(8, 3)>>]

\* Refused: it would overwrite the value captured for an input.
WritesInput ==
  [Maths EXCEPT !.code[10] = Ins("MOV", Lit("DINT", 1), TagRef(1), NoOperand)]

\* Refused: a bad checksum, a slot that repeats, an arena too small.
Garbled == [Latch EXCEPT !.bad = "BAD_CRC"]
SlotTwice == [Counting EXCEPT !.code[4].slot = 0]
Huge == [Latch EXCEPT !.tags = @ \o @ \o @ \o @]

MCProgram ==
  [latch |-> Latch, nested |-> Nested, torn |-> Torn, timing |-> Timing,
   timedReset |-> TimedReset, badPreset |-> BadPreset,
   counting |-> Counting, resetFirst |-> ResetFirst, tally |-> Tally, dividing |-> Dividing,
   maths |-> Maths,
   writesInput |-> WritesInput, garbled |-> Garbled, slotTwice |-> SlotTwice, huge |-> Huge]

MCDintMin == -(DintMax + 1)   \* two's complement

MCHostValues == [BOOL |-> BOOLEAN, DINT |-> {0}]
MCInputValues == [BOOL |-> BOOLEAN, DINT |-> {DintMin, 0, 1}]

\* A device whose inputs are all off.
MCOffInputs == [BOOL |-> {FALSE}, DINT |-> {0}]
=============================================================================
