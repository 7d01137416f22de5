---------------------------- MODULE RsmLifecycle ----------------------------
(***************************************************************************)
(* What the runtime promises its host about modes, whatever the program    *)
(* computes: the lifecycle of docs/runtime-scan.md and                     *)
(* docs/runtime-faults.md, seen from outside.  RsmRuntime implements it.   *)
(***************************************************************************)
VARIABLES
  mode,      \* the mode a host reads
  loaded,    \* a program is loaded
  scanning   \* a scan has been called and has not returned

vars == <<mode, loaded, scanning>>

TypeOK ==
  /\ mode \in {"PROGRAM", "RUN", "TEST", "FAULTED"}
  /\ loaded \in BOOLEAN /\ scanning \in BOOLEAN

Init == mode = "PROGRAM" /\ ~loaded /\ ~scanning

\* A program is replaced or removed only in PROGRAM.
Load == mode = "PROGRAM" /\ ~scanning /\ loaded' = TRUE /\ UNCHANGED <<mode, scanning>>
Unload == mode = "PROGRAM" /\ ~scanning /\ loaded' = FALSE /\ UNCHANGED <<mode, scanning>>

\* Discarding the runtime ends in PROGRAM from anywhere.
Discard == ~scanning /\ mode' = "PROGRAM" /\ loaded' = FALSE /\ UNCHANGED scanning

\* RUN and TEST need a program; FAULTED is left only for PROGRAM.
Select(m) ==
  /\ ~scanning
  /\ m \in {"RUN", "TEST"} => loaded
  /\ mode = "FAULTED" => m = "PROGRAM"
  /\ mode' = m
  /\ UNCHANGED <<loaded, scanning>>

Call ==
  /\ ~scanning /\ loaded /\ mode \in {"RUN", "TEST"}
  /\ scanning' = TRUE
  /\ UNCHANGED <<mode, loaded>>

\* A scan returns in the mode it was called in, or FAULTED.
Return ==
  /\ scanning
  /\ scanning' = FALSE
  /\ mode' \in {mode, "FAULTED"}
  /\ UNCHANGED loaded

Next ==
  \/ Load \/ Unload \/ Discard
  \/ \E m \in {"PROGRAM", "RUN", "TEST", "FAULTED"} : Select(m)
  \/ Call \/ Return

Spec == Init /\ [][Next]_vars

FairSpec == Spec /\ WF_vars(Return)
=============================================================================
