------------------------------ MODULE RsmLayout ------------------------------
(***************************************************************************)
(* Memory of the C runtime: what rsm_runtime_required_memory asks for, and *)
(* where rsm_runtime_load_image puts its five arrays in the arena that the *)
(* caller provides, at an address of any alignment.  Sizes are size_t and  *)
(* addresses uintptr_t, both of a width of SizeMod.  And how an            *)
(* instruction's state record is found by the slot its image gives it.     *)
(***************************************************************************)
EXTENDS RsmDirectory

CONSTANTS
  SizeMod,    \* SIZE_MAX + 1
  ImplSize, TagSize, ForceSize, StateSize, PowerSize,  \* sizeof impl_t, tag_t, ...
  Arenas,     \* the memory a caller may provide: [base |-> ..., size |-> ...]
  Shapes,     \* what counts of an image: [tags |-> ..., slots |-> ..., rungs |-> ...]
  NoShape     \* nothing is loaded

\* Memory has addresses that are not 0, and one behind its last; the validator
\* has slot ids grow along the code.
ASSUME LayoutAssumption ==
  /\ SizeMod \in Nat /\ SizeMod > 0 /\ SizeMod % 8 = 0
  /\ ImplSize \in Nat /\ TagSize \in Nat /\ ForceSize \in Nat /\ StateSize \in Nat
  /\ PowerSize \in Nat
  /\ \A a \in Arenas : a.base \in Nat /\ a.size \in Nat /\ 0 < a.base /\ a.base + a.size < SizeMod
  /\ NoShape \notin Shapes
  /\ \A s \in Shapes :
       /\ s.tags \in Nat /\ s.rungs \in Nat /\ s.slots \in Seq(Nat)
       /\ \A j, k \in DOMAIN s.slots : j < k => s.slots[j] < s.slots[k]

VARIABLES
  memory,    \* arena and arena_size
  shape,     \* of the image that is loaded
  places,    \* where its arrays are
  outcome    \* what the last load returned

layoutVars == <<memory, shape, places, outcome>>

-----------------------------------------------------------------------------
(* Sizes.  What size_add and size_mul refuse to compute is TooLarge.       *)

TooLarge == SizeMod
Size(n) == IF n < SizeMod THEN n ELSE TooLarge
Add(a, b) == Size(a + b)
Align8(a) == IF Add(a, 7) = TooLarge THEN TooLarge ELSE (a + 7) - ((a + 7) % 8)
With(a, n, each) == Align8(Add(a, Size(n * each)))

\* required_layout: each array begins where the one before it ends, aligned.
UpToTags == Align8(ImplSize)
UpToForces(s) == With(UpToTags, s.tags, TagSize)
UpToStates(s) == With(UpToForces(s), s.tags, ForceSize)
UpToPower(s) == With(UpToStates(s), Len(s.slots), StateSize)
Layout(s) == With(UpToPower(s), s.rungs, PowerSize)

\* rsm_runtime_required_memory; the mutant makes no allowance for an arena that
\* is not aligned.
RequiredAligned(s) == Layout(s)
Required(s) == Add(Layout(s), 7)

-----------------------------------------------------------------------------
(* Places.                                                                 *)

SlackOf(base) == (8 - (base % 8)) % 8

\* Mutant: the bytes skipped at the start are not counted.
HasRoomUnaligned(a, s) == Layout(s) <= a.size
HasRoom(a, s) ==
  /\ SlackOf(a.base) <= a.size /\ Layout(s) <= a.size - SlackOf(a.base)
  /\ a.base + SlackOf(a.base) + Layout(s) < SizeMod

Up8(q) == LET n == (q + 7) % SizeMod IN n - (n % 8)
Placed(a, s) ==
  LET impl == a.base + SlackOf(a.base)
      tags == Up8(impl + ImplSize)
      forces == Up8(tags + s.tags * TagSize)
      states == Up8(forces + s.tags * ForceSize)
  IN [impl |-> impl, tags |-> tags, forces |-> forces, states |-> states,
      power |-> Up8(states + Len(s.slots) * StateSize)]

\* A turn of state_for_slot's loop: half of the records are left to search.
Halved(slots, wanted, r) ==
  LET middle == r.low + (r.high - r.low) \div 2
  IN IF slots[middle] < wanted THEN [r EXCEPT !.low = middle + 1] ELSE [r EXCEPT !.high = middle]

\* state_for_slot: the position of a slot's record, 0 when there is none.
Spans(slots) == [low : 1..(Len(slots) + 1), high : 1..(Len(slots) + 1)]
StateFor(slots, wanted) ==
  LET search[r \in Spans(slots)] ==
        IF r.low >= r.high THEN r.low ELSE search[Halved(slots, wanted, r)]
      found == search[[low |-> 1, high |-> Len(slots) + 1]]
  IN IF found <= Len(slots) /\ slots[found] = wanted THEN found ELSE 0

-----------------------------------------------------------------------------
LayoutInit ==
  /\ memory \in Arenas /\ shape = NoShape /\ places = <<>> /\ outcome = "NONE"

PlaceImage(s) ==
  /\ Layout(s) # TooLarge /\ HasRoom(memory, s)
  /\ shape' = s /\ places' = Placed(memory, s) /\ outcome' = "OK"
  /\ UNCHANGED memory

\* A load that is refused leaves what was loaded before.
RefuseImage(s) ==
  /\ \/ Layout(s) = TooLarge /\ outcome' = "BAD_IMAGE"
     \/ Layout(s) # TooLarge /\ ~HasRoom(memory, s) /\ outcome' = "BUFFER_TOO_SMALL"
  /\ UNCHANGED <<memory, shape, places>>

LayoutNext == \E s \in Shapes : PlaceImage(s) \/ RefuseImage(s)

LayoutSpec == LayoutInit /\ [][LayoutNext]_layoutVars

-----------------------------------------------------------------------------
End == memory.base + memory.size

\* The arrays are aligned, apart from each other and within the arena, whatever
\* its address: no scan writes outside the caller's memory.
ArraysApart ==
  shape # NoShape =>
    /\ \A f \in DOMAIN places : places[f] % 8 = 0
    /\ memory.base <= places.impl
    /\ places.impl + ImplSize <= places.tags
    /\ places.tags + shape.tags * TagSize <= places.forces
    /\ places.forces + shape.tags * ForceSize <= places.states
    /\ places.states + Len(shape.slots) * StateSize <= places.power
    /\ places.power + shape.rungs * PowerSize <= End

\* docs/runtime-memory.md: an arena of at least rsm_runtime_required_memory is
\* enough, wherever it lies.
RequiredSuffices ==
  \A s \in Shapes : Required(s) # TooLarge /\ Required(s) <= memory.size => HasRoom(memory, s)

\* Every slot of the image finds its own record, and no other slot finds one.
SlotsFound ==
  shape # NoShape =>
    \A k \in DOMAIN shape.slots : \A wanted \in 0..(shape.slots[Len(shape.slots)] + 1) :
      (StateFor(shape.slots, wanted) = k) <=> (shape.slots[k] = wanted)

\* All of it, of an arena that has been offered an image.
LayoutSafe ==
  outcome # "NONE" => ArraysApart /\ RequiredSuffices /\ SlotsFound /\ SectionsFound
==============================================================================
