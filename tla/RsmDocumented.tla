--------------------------- MODULE RsmDocumented ---------------------------
(***************************************************************************)
(* Statements the repository's documents and instruction profiles make of  *)
(* the C runtime and that its code does not keep.  Each is checked by a    *)
(* run of its own, whose counterexample shows how.                         *)
(***************************************************************************)
EXTENDS MCRsmObserver

\* docs/runtime-scan.md: a scan executes the validated rungs and instructions
\* in image order.  After a fault the code size stays cut at the faulting
\* rung, and later scans stop there and still write every output.
EveryRungRuns == phase = "output" => pc = Len(Code)

\* res.yaml: a powered RES clears the execution state of the TON, CTU and CTD
\* instructions on its tag.  The search for them ends with RES's own rung.
ResetClearsState ==
  [][Reset /\ power =>
       \A k \in Stateful(P) :
         Code[k].a.id = I.a.id => slot'[Code[k].slot] = ZeroSlot]_hvars

\* docs/adr/0008: forces change effective reads without replacing underlying
\* values.  read_input is handed the forced value of an input, and an endpoint
\* without a reading leaves it there: the force becomes the underlying value,
\* and outlives its clearing.
UnderlyingKept ==
  image # Null =>
    \A id \in InputIds(P) :
      tag[id] \in {P.tags[id].init} \cup InputValues[TypeOf(P, id)]
=============================================================================
