----------------------------- MODULE RsmDirectory -----------------------------
(***************************************************************************)
(* The directory of a program image: the descriptors behind its header,    *)
(* each giving a kind of section a place in the file.                      *)
(* rsm_runtime_validate_image checks it whole, and whoever reads a section *)
(* then looks it up.  Offsets and lengths are uint32_t.                    *)
(***************************************************************************)
EXTENDS Integers, Sequences

CONSTANTS
  HeaderBytes,      \* HS
  DescriptorBytes,  \* DS
  KindCount,        \* the sections an image has, and their kinds
  WordLimit,        \* UINT32_MAX + 1
  Files             \* [size |-> ..., directory |-> <<[kind, offset, length], ...>>]

ASSUME DirectoryAssumption ==
  /\ HeaderBytes \in Nat /\ DescriptorBytes \in Nat /\ KindCount \in Nat /\ WordLimit \in Nat
  /\ \A f \in Files :
       /\ f.size \in Nat /\ f.size < WordLimit
       /\ f.directory \in Seq([kind : Nat, offset : 0..(WordLimit - 1), length : 0..(WordLimit - 1)])

Missing == [kind |-> 0, offset |-> 0, length |-> 0]

DirectoryEnd(f) == HeaderBytes + Len(f.directory) * DescriptorBytes

\* Mutant: the sum wraps around.
WithinSum(f, d) == (d.offset + d.length) % WordLimit <= f.size
Within(f, d) == d.offset <= f.size /\ d.length <= f.size - d.offset

Overlap(c, d) ==
  /\ d.offset < (c.offset + c.length) % WordLimit
  /\ c.offset < (d.offset + d.length) % WordLimit

\* rsm_runtime_validate_image
ValidDirectory(f) ==
  /\ HeaderBytes <= f.size
  /\ Len(f.directory) = KindCount /\ DirectoryEnd(f) <= f.size
  /\ \A k \in DOMAIN f.directory :
       /\ f.directory[k].kind \in 1..KindCount
       /\ DirectoryEnd(f) <= f.directory[k].offset /\ Within(f, f.directory[k])
       /\ \A j \in 1..(k - 1) :
            f.directory[j].kind # f.directory[k].kind /\ ~Overlap(f.directory[j], f.directory[k])

\* sections: the first descriptor of the kind, if all up to it are in bounds.
Section(f, wanted) ==
  LET first == {k \in DOMAIN f.directory :
                  /\ f.directory[k].kind = wanted
                  /\ \A j \in 1..(k - 1) : f.directory[j].kind # wanted
                  /\ \A j \in 1..k : Within(f, f.directory[j])}
  IN IF HeaderBytes <= f.size /\ DirectoryEnd(f) <= f.size /\ first # {}
     THEN f.directory[CHOOSE k \in first : TRUE] ELSE Missing

-----------------------------------------------------------------------------
Bytes(d) == d.offset..(d.offset + d.length - 1)

\* No section that is found reaches beyond its file, whatever the file; and a
\* directory that the validator accepts has a section of every kind, each behind
\* the directory and apart from the others.
SectionsFound ==
  \A f \in Files :
    /\ \A kind \in 1..KindCount : Bytes(Section(f, kind)) \subseteq 0..(f.size - 1)
    /\ ValidDirectory(f) =>
         \A kind \in 1..KindCount :
           /\ Section(f, kind).kind = kind /\ Section(f, kind).offset >= DirectoryEnd(f)
           /\ \A other \in (1..KindCount) \ {kind} :
                Bytes(Section(f, kind)) \cap Bytes(Section(f, other)) = {}
================================================================================
