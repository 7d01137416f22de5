--------------------------- MODULE RsmLayoutProofs ---------------------------
(***************************************************************************)
(* Proofs about RsmLayout: a load that is accepted keeps its arrays apart  *)
(* and within the arena, and the memory asked for is enough, for every     *)
(* image, every size of the C types and every width of size_t; and about   *)
(* RsmDirectory: in every file it accepts every section is found; and of   *)
(* the search for a state slot's record.                                   *)
(***************************************************************************)
EXTENDS RsmLayout, FiniteSetTheorems, TLAPS

-----------------------------------------------------------------------------
(* Multiples of eight.                                                     *)

Rounded(n) == (n + 7) - ((n + 7) % 8)

LEMMA RoundedUp ==
  ASSUME NEW n \in Nat
  PROVE Rounded(n) \in Nat /\ Rounded(n) % 8 = 0 /\ n <= Rounded(n) /\ Rounded(n) <= n + 7
  BY DEF Rounded

LEMMA RoundedShift ==
  ASSUME NEW h \in Nat, h % 8 = 0, NEW n \in Nat
  PROVE Rounded(h + n) = h + Rounded(n)
  BY DEF Rounded

\* Below a multiple of eight there is room to round up.
LEMMA RoundedBelow ==
  ASSUME NEW m \in Nat, m % 8 = 0, NEW n \in Nat, Rounded(n) < m
  PROVE n + 7 < m
  BY DEF Rounded

LEMMA SlackAligns ==
  ASSUME NEW base \in Nat
  PROVE SlackOf(base) \in 0..7 /\ (base + SlackOf(base)) % 8 = 0
  BY DEF SlackOf

-----------------------------------------------------------------------------
(* Sizes that have been computed are the exact ones.                       *)

LEMMA ProductIsNat ==
  ASSUME NEW n \in Nat, NEW each \in Nat
  PROVE n * each \in Nat
  OBVIOUS

LEMMA Align8Exact ==
  ASSUME NEW a \in Nat, Align8(a) # TooLarge
  PROVE Align8(a) = Rounded(a) /\ Rounded(a) < SizeMod
<1>1. a + 7 < SizeMod
  BY LayoutAssumption DEF Align8, Add, Size, TooLarge
<1>2. Align8(a) = Rounded(a)
  BY <1>1, LayoutAssumption DEF Align8, Add, Size, TooLarge, Rounded
<1>3. Rounded(a) <= a + 7
  BY RoundedUp
<1>4. Rounded(a) \in Nat /\ SizeMod \in Nat
  BY RoundedUp, LayoutAssumption
<1> QED BY <1>1, <1>2, <1>3, <1>4

LEMMA Align8IsNat ==
  ASSUME NEW a \in Nat
  PROVE Align8(a) \in Nat
<1>1. CASE Add(a, 7) = TooLarge
  BY <1>1, LayoutAssumption DEF Align8, TooLarge
<1>2. CASE Add(a, 7) # TooLarge
  BY <1>2, RoundedUp DEF Align8, Rounded
<1> QED BY <1>1, <1>2

LEMMA SizeIsNat ==
  ASSUME NEW n \in Nat
  PROVE Size(n) \in Nat
  BY LayoutAssumption DEF Size, TooLarge

LEMMA WithIsNat ==
  ASSUME NEW a \in Nat, NEW n \in Nat, NEW each \in Nat
  PROVE With(a, n, each) \in Nat
<1>1. Size(n * each) \in Nat
  BY ProductIsNat, SizeIsNat
<1>2. a + Size(n * each) \in Nat
  BY <1>1
<1>3. Add(a, Size(n * each)) \in Nat
  BY <1>2, SizeIsNat DEF Add
<1> QED BY <1>3, Align8IsNat DEF With

LEMMA WithExact ==
  ASSUME NEW a \in Nat, NEW n \in Nat, NEW each \in Nat, With(a, n, each) # TooLarge
  PROVE /\ With(a, n, each) = Rounded(a + n * each)
        /\ Rounded(a + n * each) < SizeMod
        /\ With(a, n, each) \in Nat
        /\ a < SizeMod
<1> DEFINE product == n * each
<1>0. product \in Nat
  BY ProductIsNat
<1> HIDE DEF product
<1>1. CASE a + product < SizeMod
  <2>1. Size(product) = product
    BY <1>0, <1>1, LayoutAssumption DEF Size
  <2>2. Add(a, product) = a + product
    BY <1>1 DEF Add, Size
  <2>3. Align8(a + product) # TooLarge /\ With(a, n, each) = Align8(a + product)
    BY <2>1, <2>2 DEF With, product
  <2>4. a + product \in Nat
    BY <1>0
  <2>5. With(a, n, each) = Rounded(a + product) /\ Rounded(a + product) < SizeMod
    BY <2>3, <2>4, Align8Exact
  <2>6. Rounded(a + product) \in Nat
    BY <2>4, RoundedUp
  <2>7. a < SizeMod
    BY <1>0, <1>1, LayoutAssumption
  <2> QED BY <2>5, <2>6, <2>7 DEF product
<1>2. CASE ~(a + product < SizeMod)
  <2>1. Add(a, Size(product)) = SizeMod
    BY <1>0, <1>2, LayoutAssumption DEF Add, Size, TooLarge
  <2>2. Add(SizeMod, 7) = TooLarge
    BY LayoutAssumption DEF Add, Size, TooLarge
  <2>3. With(a, n, each) = TooLarge
    BY <2>1, <2>2 DEF With, Align8, product
  <2> QED BY <2>3
<1> QED BY <1>1, <1>2

-----------------------------------------------------------------------------
(* One array after another: from an aligned address, adding a size that    *)
(* has been computed gives the next aligned address, without wrapping.     *)

LEMMA Up8Follows ==
  ASSUME NEW base \in Nat, base % 8 = 0, NEW a \in Nat, base + Rounded(a) < SizeMod
  PROVE /\ Up8(base + a) = base + Rounded(a)
        /\ base + a <= Up8(base + a)
        /\ (base + Rounded(a)) % 8 = 0
<1>1. Rounded(base + a) = base + Rounded(a)
  BY RoundedShift
<1>2. base + a + 7 < SizeMod
  BY <1>1, RoundedBelow, LayoutAssumption
<1>3. (base + a + 7) % SizeMod = base + a + 7
  BY <1>2, LayoutAssumption
<1>4. Up8(base + a) = Rounded(base + a)
  BY <1>3 DEF Up8, Rounded
<1>5. base + a \in Nat
  OBVIOUS
<1>6. base + a <= Rounded(base + a) /\ Rounded(base + a) % 8 = 0
  BY <1>5, RoundedUp
<1> QED BY <1>1, <1>4, <1>6

\* The sizes up to each array, when the whole layout has been computed.
LEMMA LayoutSteps ==
  ASSUME NEW s \in Shapes, Layout(s) # TooLarge
  PROVE /\ UpToTags = Rounded(ImplSize)
        /\ UpToForces(s) = Rounded(UpToTags + s.tags * TagSize)
        /\ UpToStates(s) = Rounded(UpToForces(s) + s.tags * ForceSize)
        /\ UpToPower(s) = Rounded(UpToStates(s) + Len(s.slots) * StateSize)
        /\ Layout(s) = Rounded(UpToPower(s) + s.rungs * PowerSize)
        /\ UpToTags \in Nat /\ UpToForces(s) \in Nat /\ UpToStates(s) \in Nat
        /\ UpToPower(s) \in Nat /\ Layout(s) \in Nat
<1>0. /\ s.tags \in Nat /\ s.rungs \in Nat /\ Len(s.slots) \in Nat
      /\ ImplSize \in Nat /\ TagSize \in Nat /\ ForceSize \in Nat /\ StateSize \in Nat
      /\ PowerSize \in Nat /\ SizeMod \in Nat
  BY LayoutAssumption
<1>1. UpToTags \in Nat
  BY <1>0, Align8IsNat DEF UpToTags
<1>2. UpToForces(s) \in Nat
  BY <1>0, <1>1, WithIsNat DEF UpToForces
<1>3. UpToStates(s) \in Nat
  BY <1>0, <1>2, WithIsNat DEF UpToStates
<1>4. UpToPower(s) \in Nat
  BY <1>0, <1>3, WithIsNat DEF UpToPower
<1>5. /\ Layout(s) = Rounded(UpToPower(s) + s.rungs * PowerSize)
      /\ Layout(s) \in Nat /\ UpToPower(s) < SizeMod
  BY <1>0, <1>4, WithExact DEF Layout
<1>6. UpToPower(s) # TooLarge
  BY <1>0, <1>4, <1>5 DEF TooLarge
<1>7. /\ UpToPower(s) = Rounded(UpToStates(s) + Len(s.slots) * StateSize)
      /\ UpToStates(s) < SizeMod
  BY <1>0, <1>3, <1>6, WithExact DEF UpToPower
<1>8. UpToStates(s) # TooLarge
  BY <1>0, <1>3, <1>7 DEF TooLarge
<1>9. /\ UpToStates(s) = Rounded(UpToForces(s) + s.tags * ForceSize)
      /\ UpToForces(s) < SizeMod
  BY <1>0, <1>2, <1>8, WithExact DEF UpToStates
<1>10. UpToForces(s) # TooLarge
  BY <1>0, <1>2, <1>9 DEF TooLarge
<1>11. UpToForces(s) = Rounded(UpToTags + s.tags * TagSize) /\ UpToTags < SizeMod
  BY <1>0, <1>1, <1>10, WithExact DEF UpToForces
<1>12. UpToTags # TooLarge
  BY <1>0, <1>1, <1>11 DEF TooLarge
<1>13. UpToTags = Rounded(ImplSize)
  BY <1>0, <1>12, Align8Exact DEF UpToTags
<1> QED BY <1>1, <1>2, <1>3, <1>4, <1>5, <1>7, <1>9, <1>11, <1>13

-----------------------------------------------------------------------------
(* The arrays of an image that an arena has room for.                      *)

Apart(a, s, p) ==
  /\ \A f \in DOMAIN p : p[f] % 8 = 0
  /\ a.base <= p.impl
  /\ p.impl + ImplSize <= p.tags
  /\ p.tags + s.tags * TagSize <= p.forces
  /\ p.forces + s.tags * ForceSize <= p.states
  /\ p.states + Len(s.slots) * StateSize <= p.power
  /\ p.power + s.rungs * PowerSize <= a.base + a.size

\* The step from one array to the next: q is the place of an array whose
\* offset in the layout is u, and n its size.
LEMMA NextPlace ==
  ASSUME NEW impl \in Nat, impl % 8 = 0, NEW u \in Nat, NEW n \in Nat,
         impl + Rounded(u + n) < SizeMod
  PROVE /\ Up8((impl + u) + n) = impl + Rounded(u + n)
        /\ (impl + u) + n <= impl + Rounded(u + n)
        /\ (impl + Rounded(u + n)) % 8 = 0
<1>1. u + n \in Nat
  OBVIOUS
<1>2. (impl + u) + n = impl + (u + n)
  OBVIOUS
<1> QED BY <1>1, <1>2, Up8Follows

LEMMA RoomInside ==
  ASSUME NEW b \in Nat, NEW size \in Nat, NEW skipped \in Nat, NEW n \in Nat, NEW m \in Nat,
         n <= size - skipped, b + skipped + n < m
  PROVE (b + skipped) + n < m /\ (b + skipped) + n <= b + size
  OBVIOUS

LEMMA PlacedApart ==
  ASSUME NEW a \in Arenas, NEW s \in Shapes, Layout(s) # TooLarge, HasRoom(a, s)
  PROVE Apart(a, s, Placed(a, s))
<1> DEFINE impl == a.base + SlackOf(a.base)
           tagBytes == s.tags * TagSize
           forceBytes == s.tags * ForceSize
           stateBytes == Len(s.slots) * StateSize
           powerBytes == s.rungs * PowerSize
           p == Placed(a, s)
<1>a. a.base \in Nat /\ a.size \in Nat /\ SizeMod \in Nat /\ ImplSize \in Nat
  BY LayoutAssumption
<1>b. /\ s.tags \in Nat /\ s.rungs \in Nat /\ Len(s.slots) \in Nat /\ TagSize \in Nat
      /\ ForceSize \in Nat /\ StateSize \in Nat /\ PowerSize \in Nat
  BY LayoutAssumption
<1>c. tagBytes \in Nat /\ forceBytes \in Nat /\ stateBytes \in Nat /\ powerBytes \in Nat
  <2>1. tagBytes \in Nat
    BY <1>b, ProductIsNat
  <2>2. forceBytes \in Nat
    BY <1>b, ProductIsNat
  <2>3. stateBytes \in Nat
    BY <1>b, ProductIsNat
  <2>4. powerBytes \in Nat
    BY <1>b, ProductIsNat
  <2> QED BY <2>1, <2>2, <2>3, <2>4
<1>1. SlackOf(a.base) \in 0..7 /\ impl \in Nat /\ impl % 8 = 0
  <2>1. SlackOf(a.base) \in 0..7 /\ (a.base + SlackOf(a.base)) % 8 = 0
    BY <1>a, SlackAligns
  <2> QED BY <1>a, <2>1
<1>2. /\ UpToTags = Rounded(ImplSize)
      /\ UpToForces(s) = Rounded(UpToTags + tagBytes)
      /\ UpToStates(s) = Rounded(UpToForces(s) + forceBytes)
      /\ UpToPower(s) = Rounded(UpToStates(s) + stateBytes)
      /\ Layout(s) = Rounded(UpToPower(s) + powerBytes)
      /\ UpToTags \in Nat /\ UpToForces(s) \in Nat /\ UpToStates(s) \in Nat
      /\ UpToPower(s) \in Nat /\ Layout(s) \in Nat
  BY LayoutSteps
<1>3. impl + Layout(s) < SizeMod /\ impl + Layout(s) <= a.base + a.size
  <2>1. /\ Layout(s) <= a.size - SlackOf(a.base)
        /\ a.base + SlackOf(a.base) + Layout(s) < SizeMod
    BY DEF HasRoom
  <2>2. Layout(s) \in Nat
    BY <1>2
  <2>3. SlackOf(a.base) \in Nat
    BY <1>1
  <2> QED BY <2>1, <2>2, <2>3, <1>a, RoomInside
<1> HIDE DEF tagBytes, forceBytes, stateBytes, powerBytes, impl
<1>4. /\ UpToPower(s) + powerBytes <= Layout(s)
      /\ UpToStates(s) + stateBytes <= UpToPower(s)
      /\ UpToForces(s) + forceBytes <= UpToStates(s)
      /\ UpToTags + tagBytes <= UpToForces(s)
  <2>1. /\ UpToPower(s) + powerBytes \in Nat /\ UpToStates(s) + stateBytes \in Nat
        /\ UpToForces(s) + forceBytes \in Nat /\ UpToTags + tagBytes \in Nat
    BY <1>a, <1>c, <1>2
  <2> QED BY <1>2, <2>1, RoundedUp
<1>5. /\ impl + UpToTags < SizeMod /\ impl + UpToForces(s) < SizeMod
      /\ impl + UpToStates(s) < SizeMod /\ impl + UpToPower(s) < SizeMod
  <2>1. /\ UpToTags \in Nat /\ UpToForces(s) \in Nat /\ UpToStates(s) \in Nat
        /\ UpToPower(s) \in Nat /\ Layout(s) \in Nat
    BY <1>2
  <2> QED BY <2>1, <1>a, <1>c, <1>1, <1>3, <1>4
<1>6. /\ Up8(impl + ImplSize) = impl + UpToTags
      /\ impl + ImplSize <= impl + UpToTags
      /\ (impl + UpToTags) % 8 = 0
  BY <1>a, <1>1, <1>2, <1>5, Up8Follows
<1>7. /\ Up8((impl + UpToTags) + tagBytes) = impl + UpToForces(s)
      /\ (impl + UpToTags) + tagBytes <= impl + UpToForces(s)
      /\ (impl + UpToForces(s)) % 8 = 0
  <2>1. UpToTags \in Nat /\ tagBytes \in Nat /\ impl \in Nat /\ impl % 8 = 0
    BY <1>c, <1>1, <1>2
  <2>2. UpToForces(s) = Rounded(UpToTags + tagBytes) /\ impl + Rounded(UpToTags + tagBytes) < SizeMod
    BY <1>2, <1>5
  <2> QED BY <2>1, <2>2, NextPlace
<1>8. /\ Up8((impl + UpToForces(s)) + forceBytes) = impl + UpToStates(s)
      /\ (impl + UpToForces(s)) + forceBytes <= impl + UpToStates(s)
      /\ (impl + UpToStates(s)) % 8 = 0
  <2>1. UpToForces(s) \in Nat /\ forceBytes \in Nat /\ impl \in Nat /\ impl % 8 = 0
    BY <1>c, <1>1, <1>2
  <2>2. UpToStates(s) = Rounded(UpToForces(s) + forceBytes) /\ impl + Rounded(UpToForces(s) + forceBytes) < SizeMod
    BY <1>2, <1>5
  <2> QED BY <2>1, <2>2, NextPlace
<1>9. /\ Up8((impl + UpToStates(s)) + stateBytes) = impl + UpToPower(s)
      /\ (impl + UpToStates(s)) + stateBytes <= impl + UpToPower(s)
      /\ (impl + UpToPower(s)) % 8 = 0
  <2>1. UpToStates(s) \in Nat /\ stateBytes \in Nat /\ impl \in Nat /\ impl % 8 = 0
    BY <1>c, <1>1, <1>2
  <2>2. UpToPower(s) = Rounded(UpToStates(s) + stateBytes) /\ impl + Rounded(UpToStates(s) + stateBytes) < SizeMod
    BY <1>2, <1>5
  <2> QED BY <2>1, <2>2, NextPlace
<1>10. p = [impl |-> impl, tags |-> impl + UpToTags, forces |-> impl + UpToForces(s),
            states |-> impl + UpToStates(s), power |-> impl + UpToPower(s)]
  BY <1>6, <1>7, <1>8, <1>9 DEF Placed, impl, tagBytes, forceBytes, stateBytes
<1>11. \A f \in DOMAIN p : p[f] % 8 = 0
  BY <1>1, <1>6, <1>7, <1>8, <1>9, <1>10
<1>12. a.base <= p.impl
  BY <1>a, <1>c, <1>1, <1>10 DEF impl
<1>13. p.power + powerBytes <= a.base + a.size
  BY <1>a, <1>c, <1>1, <1>2, <1>3, <1>4, <1>10
<1>14. /\ p.impl + ImplSize <= p.tags /\ p.tags + tagBytes <= p.forces
       /\ p.forces + forceBytes <= p.states /\ p.states + stateBytes <= p.power
  BY <1>6, <1>7, <1>8, <1>9, <1>10
<1> QED BY <1>11, <1>12, <1>13, <1>14 DEF Apart, tagBytes, forceBytes, stateBytes, powerBytes

\* What is asked for has the room for the bytes skipped at the start.
LEMMA RequiredHasRoom ==
  ASSUME NEW a \in Arenas, NEW s \in Shapes, Required(s) # TooLarge, Required(s) <= a.size
  PROVE HasRoom(a, s)
<1>0. a.base \in Nat /\ a.size \in Nat /\ a.base + a.size < SizeMod /\ SizeMod \in Nat
  BY LayoutAssumption
<1>1. Layout(s) \in Nat
  <2>1. /\ s.tags \in Nat /\ s.rungs \in Nat /\ Len(s.slots) \in Nat /\ TagSize \in Nat
        /\ ForceSize \in Nat /\ StateSize \in Nat /\ PowerSize \in Nat
    BY LayoutAssumption
  <2>2. UpToTags \in Nat
    BY LayoutAssumption, Align8IsNat DEF UpToTags
  <2>3. UpToForces(s) \in Nat
    BY <2>1, <2>2, WithIsNat DEF UpToForces
  <2>4. UpToStates(s) \in Nat
    BY <2>1, <2>3, WithIsNat DEF UpToStates
  <2>5. UpToPower(s) \in Nat
    BY <2>1, <2>4, WithIsNat DEF UpToPower
  <2> QED BY <2>1, <2>5, WithIsNat DEF Layout
<1>2. Layout(s) + 7 <= a.size
  BY <1>0, <1>1 DEF Required, Add, Size, TooLarge
<1>3. SlackOf(a.base) \in 0..7
  BY <1>0, SlackAligns
<1> QED BY <1>0, <1>1, <1>2, <1>3 DEF HasRoom

-----------------------------------------------------------------------------
(* The invariant: an image that is loaded was placed, with room.           *)

PlacedInv ==
  /\ memory \in Arenas
  /\ shape # NoShape =>
       /\ shape \in Shapes /\ Layout(shape) # TooLarge /\ HasRoom(memory, shape)
       /\ places = Placed(memory, shape)

LEMMA PlacedInitially == LayoutInit => PlacedInv
  BY DEF LayoutInit, PlacedInv

LEMMA PlacedKept == PlacedInv /\ [LayoutNext]_layoutVars => PlacedInv'
<1> SUFFICES ASSUME PlacedInv, [LayoutNext]_layoutVars PROVE PlacedInv'
  OBVIOUS
<1>1. ASSUME NEW s \in Shapes, PlaceImage(s) PROVE PlacedInv'
  BY <1>1 DEF PlacedInv, PlaceImage
<1>2. ASSUME NEW s \in Shapes, RefuseImage(s) PROVE PlacedInv'
  BY <1>2 DEF PlacedInv, RefuseImage
<1>3. CASE UNCHANGED layoutVars
  BY <1>3 DEF PlacedInv, layoutVars
<1> QED BY <1>1, <1>2, <1>3 DEF LayoutNext

THEOREM LayoutSpecPlaces == LayoutSpec => []PlacedInv
  BY PlacedInitially, PlacedKept, PTL DEF LayoutSpec

\* For every image, arena and width of size_t, an accepted load leaves its
\* five arrays aligned, apart and within the caller's memory.
THEOREM ArraysStayApart == LayoutSpec => []ArraysApart
<1>1. PlacedInv => ArraysApart
  <2> SUFFICES ASSUME PlacedInv, shape # NoShape PROVE Apart(memory, shape, places)
    BY DEF ArraysApart, Apart, End
  <2> QED BY PlacedApart DEF PlacedInv
<1> QED BY <1>1, LayoutSpecPlaces, PTL

\* An arena of the size asked for has room for the image at any address.
THEOREM RequiredIsEnough == LayoutSpec => []RequiredSuffices
<1>1. PlacedInv => RequiredSuffices
  BY RequiredHasRoom DEF PlacedInv, RequiredSuffices
<1> QED BY <1>1, LayoutSpecPlaces, PTL

-----------------------------------------------------------------------------
(* The directory.                                                          *)

\* What is known of a file.
Descriptor == [kind : Nat, offset : 0..(WordLimit - 1), length : 0..(WordLimit - 1)]

LEMMA FileTypes ==
  ASSUME NEW f \in Files
  PROVE  /\ f.size \in Nat /\ f.size < WordLimit /\ WordLimit \in Nat /\ KindCount \in Nat
         /\ Len(f.directory) \in Nat /\ DOMAIN f.directory = 1..Len(f.directory)
         /\ \A k \in 1..Len(f.directory) :
              /\ f.directory[k].kind \in Nat
              /\ f.directory[k].offset \in Nat /\ f.directory[k].length \in Nat
<1>1. f.directory \in Seq(Descriptor) /\ f.size \in Nat /\ f.size < WordLimit /\ WordLimit \in Nat
      /\ KindCount \in Nat
  BY DirectoryAssumption DEF Descriptor
<1>2. \A k \in 1..Len(f.directory) : f.directory[k] \in Descriptor  BY <1>1
<1>3. \A d \in Descriptor : d.kind \in Nat /\ d.offset \in Nat /\ d.length \in Nat
  BY <1>1 DEF Descriptor
<1>4. Len(f.directory) \in Nat /\ DOMAIN f.directory = 1..Len(f.directory)  BY <1>1
<1> QED  BY <1>1, <1>2, <1>3, <1>4

LEMMA FoundWithin ==
  ASSUME NEW f \in Files, NEW wanted
  PROVE  \/ Section(f, wanted) = Missing
         \/ \E k \in DOMAIN f.directory :
              /\ Section(f, wanted) = f.directory[k]
              /\ f.directory[k].kind = wanted /\ Within(f, f.directory[k])
<1> DEFINE first == {k \in DOMAIN f.directory :
                       /\ f.directory[k].kind = wanted
                       /\ \A j \in 1..(k - 1) : f.directory[j].kind # wanted
                       /\ \A j \in 1..k : Within(f, f.directory[j])}
           chosen == CHOOSE k \in first : TRUE
<1>1. CASE HeaderBytes <= f.size /\ DirectoryEnd(f) <= f.size /\ first # {}
  <2>1. Section(f, wanted) = f.directory[chosen]  BY <1>1 DEF Section
  <2>2. chosen \in first  BY <1>1
  <2> HIDE DEF chosen
  <2>3. chosen \in DOMAIN f.directory /\ f.directory[chosen].kind = wanted
        /\ \A j \in 1..chosen : Within(f, f.directory[j])
    BY <2>2
  <2>4. chosen \in 1..chosen  BY <2>3, FileTypes
  <2> QED  BY <2>1, <2>3, <2>4
<1>2. CASE ~(HeaderBytes <= f.size /\ DirectoryEnd(f) <= f.size /\ first # {})
  BY <1>2 DEF Section
<1> QED  BY <1>1, <1>2

\* As many descriptors as kinds, and no kind twice: every kind is there.
LEMMA EveryKindThere ==
  ASSUME NEW f \in Files, ValidDirectory(f), NEW wanted \in 1..KindCount
  PROVE  \E k \in 1..KindCount : f.directory[k].kind = wanted
<1> DEFINE kinds == [k \in 1..KindCount |-> f.directory[k].kind]
<1>1. KindCount \in Nat /\ DOMAIN f.directory = 1..KindCount
  BY FileTypes DEF ValidDirectory
<1>2. \A k \in 1..KindCount : f.directory[k].kind \in 1..KindCount
  BY <1>1 DEF ValidDirectory
<1>3. ASSUME NEW j \in 1..KindCount, NEW k \in 1..KindCount, j # k
      PROVE  f.directory[j].kind # f.directory[k].kind
  <2>1. CASE j < k
    <3>1. j \in 1..(k - 1)  BY <1>1, <2>1
    <3> QED  BY <1>1, <3>1 DEF ValidDirectory
  <2>2. CASE k < j
    <3>1. k \in 1..(j - 1)  BY <1>1, <2>2
    <3> QED  BY <1>1, <3>1 DEF ValidDirectory
  <2>3. j < k \/ k < j  BY <1>1, <1>3
  <2> QED  BY <2>1, <2>2, <2>3
<1>4. kinds \in Injection(1..KindCount, 1..KindCount)
  BY <1>2, <1>3 DEF Injection, IsInjective
<1>5. IsFiniteSet(1..KindCount)
  <2>1. PICK n \in Int : n = KindCount  BY <1>1
  <2>2. IsFiniteSet(1..n)  BY FS_Interval
  <2> QED  BY <2>1, <2>2
<1>6. kinds \in Surjection(1..KindCount, 1..KindCount)
  BY <1>4, <1>5, FS_Injection
<1> QED  BY <1>6 DEF Surjection

LEMMA ValidIsFound ==
  ASSUME NEW f \in Files, ValidDirectory(f), NEW wanted \in 1..KindCount
  PROVE  \E k \in 1..KindCount :
           Section(f, wanted) = f.directory[k] /\ f.directory[k].kind = wanted
<1>1. /\ KindCount \in Nat /\ DOMAIN f.directory = 1..KindCount
      /\ HeaderBytes <= f.size /\ DirectoryEnd(f) <= f.size
      /\ \A k \in 1..KindCount : Within(f, f.directory[k])
      /\ \A k \in 1..KindCount : \A j \in 1..(k - 1) : f.directory[j].kind # f.directory[k].kind
  BY FileTypes DEF ValidDirectory
<1> DEFINE first == {k \in DOMAIN f.directory :
                       /\ f.directory[k].kind = wanted
                       /\ \A j \in 1..(k - 1) : f.directory[j].kind # wanted
                       /\ \A j \in 1..k : Within(f, f.directory[j])}
           chosen == CHOOSE k \in first : TRUE
<1>2. PICK k \in 1..KindCount : f.directory[k].kind = wanted  BY EveryKindThere
<1>3. k \in first
  <2>1. \A j \in 1..k : j \in 1..KindCount  BY <1>1
  <2> QED  BY <1>1, <1>2, <2>1
<1>4. Section(f, wanted) = f.directory[chosen]  BY <1>1, <1>3 DEF Section
<1>5. chosen \in first  BY <1>3
<1> HIDE DEF chosen
<1> QED  BY <1>1, <1>4, <1>5

LEMMA Remains == ASSUME NEW W \in Nat, NEW n \in Nat, n < W PROVE n % W = n
  OBVIOUS

LEMMA SeparateBytes ==
  ASSUME NEW f \in Files, ValidDirectory(f),
         NEW j \in 1..KindCount, NEW k \in 1..KindCount, j < k
  PROVE  Bytes(f.directory[j]) \cap Bytes(f.directory[k]) = {}
<1> DEFINE c == f.directory[j] d == f.directory[k]
<1>1. /\ KindCount \in Nat /\ DOMAIN f.directory = 1..KindCount /\ Len(f.directory) = KindCount
      /\ f.size \in Nat /\ f.size < WordLimit /\ WordLimit \in Nat
  BY FileTypes DEF ValidDirectory
<1>2. c.offset \in Nat /\ c.length \in Nat /\ d.offset \in Nat /\ d.length \in Nat
  <2>1. j \in 1..Len(f.directory) /\ k \in 1..Len(f.directory)  BY <1>1
  <2> QED  BY <2>1, FileTypes
<1>3. j \in 1..(k - 1)  BY <1>1
<1>4. ~Overlap(c, d) /\ Within(f, c) /\ Within(f, d)
  <2>1. \A m \in 1..KindCount : Within(f, f.directory[m])
    BY <1>1 DEF ValidDirectory
  <2>2. \A m \in 1..KindCount : \A l \in 1..(m - 1) : ~Overlap(f.directory[l], f.directory[m])
    BY <1>1 DEF ValidDirectory
  <2>3. ~Overlap(c, d)  BY <1>3, <2>2
  <2> QED  BY <2>1, <2>3
<1> HIDE DEF c, d
<1>5. c.offset + c.length < WordLimit /\ d.offset + d.length < WordLimit
  <2>1. c.length <= f.size - c.offset /\ d.length <= f.size - d.offset  BY <1>4 DEF Within
  <2> QED  BY <1>1, <1>2, <2>1
<1>6. /\ (c.offset + c.length) % WordLimit = c.offset + c.length
      /\ (d.offset + d.length) % WordLimit = d.offset + d.length
  <2>1. c.offset + c.length \in Nat /\ d.offset + d.length \in Nat  BY <1>2
  <2>2. (c.offset + c.length) % WordLimit = c.offset + c.length  BY <1>1, <1>5, <2>1, Remains
  <2>3. (d.offset + d.length) % WordLimit = d.offset + d.length  BY <1>1, <1>5, <2>1, Remains
  <2> QED  BY <2>2, <2>3
<1>7. ~(d.offset < c.offset + c.length /\ c.offset < d.offset + d.length)
  BY <1>4, <1>6 DEF Overlap
<1>8. ASSUME NEW x \in Bytes(c), x \in Bytes(d) PROVE FALSE
  BY <1>2, <1>7, <1>8 DEF Bytes
<1> QED  BY <1>8 DEF c, d

\* For every file, and every width of its words: no section that is found
\* reaches beyond the file, and a directory that rsm_runtime_validate_image
\* accepts has a section of every kind, behind the directory and apart from
\* the others.
THEOREM EverySectionFound == SectionsFound
<1> SUFFICES ASSUME NEW f \in Files, NEW wanted \in 1..KindCount
             PROVE  /\ Bytes(Section(f, wanted)) \subseteq 0..(f.size - 1)
                    /\ ValidDirectory(f) =>
                         /\ Section(f, wanted).kind = wanted
                         /\ Section(f, wanted).offset >= DirectoryEnd(f)
                         /\ \A other \in (1..KindCount) \ {wanted} :
                              Bytes(Section(f, wanted)) \cap Bytes(Section(f, other)) = {}
  BY DEF SectionsFound
<1>1. f.size \in Nat /\ DOMAIN f.directory = 1..Len(f.directory) /\ KindCount \in Nat  BY FileTypes
<1>2. Bytes(Section(f, wanted)) \subseteq 0..(f.size - 1)
  <2>1. CASE Section(f, wanted) = Missing
    <3>1. Bytes(Missing) = {}  BY DEF Bytes, Missing
    <3> QED  BY <2>1, <3>1
  <2>2. CASE Section(f, wanted) # Missing
    <3>1. PICK k \in DOMAIN f.directory : Section(f, wanted) = f.directory[k] /\ Within(f, f.directory[k])
      BY <2>2, FoundWithin
    <3> DEFINE d == f.directory[k]
    <3>2. d.offset \in Nat /\ d.length \in Nat  BY <1>1, FileTypes
    <3>3. Within(f, d)  BY <3>1
    <3> HIDE DEF d
    <3>4. Bytes(d) \subseteq 0..(f.size - 1)  BY <1>1, <3>2, <3>3 DEF Within, Bytes
    <3> QED  BY <3>1, <3>4 DEF d
  <2> QED  BY <2>1, <2>2
<1>3. ASSUME ValidDirectory(f)
      PROVE  /\ Section(f, wanted).kind = wanted
             /\ Section(f, wanted).offset >= DirectoryEnd(f)
             /\ \A other \in (1..KindCount) \ {wanted} :
                  Bytes(Section(f, wanted)) \cap Bytes(Section(f, other)) = {}
  <2>1. PICK k \in 1..KindCount : Section(f, wanted) = f.directory[k] /\ f.directory[k].kind = wanted
    BY <1>3, ValidIsFound
  <2>2. DirectoryEnd(f) <= f.directory[k].offset
    BY <1>1, <1>3, <2>1 DEF ValidDirectory
  <2>3. f.directory[k].offset >= DirectoryEnd(f)
    <3>1. f.directory[k].offset \in Nat  BY <1>1, <1>3, FileTypes DEF ValidDirectory
    <3>2. DirectoryEnd(f) \in Int
      <4>1. HeaderBytes \in Nat /\ DescriptorBytes \in Nat /\ Len(f.directory) \in Nat
        BY DirectoryAssumption, FileTypes
      <4> QED  BY <4>1 DEF DirectoryEnd
    <3> QED  BY <2>2, <3>1, <3>2
  <2>4. ASSUME NEW other \in (1..KindCount) \ {wanted}
        PROVE  Bytes(Section(f, wanted)) \cap Bytes(Section(f, other)) = {}
    <3>1. PICK j \in 1..KindCount : Section(f, other) = f.directory[j] /\ f.directory[j].kind = other
      BY <1>3, ValidIsFound
    <3>2. j # k  BY <2>1, <3>1
    <3>3. j < k \/ k < j  BY <1>1, <3>2
    <3> QED  BY <1>3, <2>1, <3>1, <3>3, SeparateBytes
  <2> QED  BY <2>1, <2>3, <2>4
<1> QED  BY <1>2, <1>3

-----------------------------------------------------------------------------
(* The search for a slot's record, a recursive function of what is left to  *)
(* search.                                                                  *)

\* Every set of numbers that has a member has a least one.
LEMMA LeastOf ==
  ASSUME NEW T \in SUBSET Nat, T # {}
  PROVE  \E x \in T : \A y \in T : x <= y
<1>. DEFINE R == {ss \in Nat \X Nat : ss[1] < ss[2]}
<1>1. OpToRel(<, Nat) = R  BY DEF OpToRel
<1>2. IsWellFoundedOn(R, Nat)  BY <1>1, NatLessThanWellFounded
<1>. HIDE DEF R
<1>3. PICK x \in T : \A y \in T : <<y, x>> \notin R  BY <1>2, WFMin
<1>4. ASSUME NEW y \in T PROVE x <= y
  <2>1. <<y, x>> \notin R  BY <1>3, <1>4
  <2>2. <<y, x>> \in Nat \X Nat  OBVIOUS
  <2>3. <<y, x>>[1] = y /\ <<y, x>>[2] = x  OBVIOUS
  <2>4. ~(y < x)  BY <2>1, <2>2, <2>3 DEF R
  <2>. QED  BY <2>4
<1>. QED  BY <1>4

Slots(slots) == slots \in Seq(Nat) /\ \A j, k \in DOMAIN slots : j < k => slots[j] < slots[k]

\* Where the records of r that come before wanted end.
EndsAt(slots, wanted, r, i) ==
  /\ i \in r.low..r.high
  /\ \A j \in r.low..(i - 1) : slots[j] < wanted
  /\ i < r.high => wanted <= slots[i]

LEMMA SpanFacts ==
  ASSUME NEW slots, Slots(slots), NEW r \in Spans(slots)
  PROVE  /\ r.low \in 1..(Len(slots) + 1) /\ r.high \in 1..(Len(slots) + 1)
         /\ Len(slots) \in Nat
         /\ \A j \in r.low..(r.high - 1) : j \in DOMAIN slots /\ slots[j] \in Nat
<1>1. Len(slots) \in Nat /\ DOMAIN slots = 1..Len(slots) /\ slots \in Seq(Nat)
  BY DEF Slots
<1>2. r.low \in 1..(Len(slots) + 1) /\ r.high \in 1..(Len(slots) + 1)
  BY DEF Spans
<1>3. ASSUME NEW j \in r.low..(r.high - 1)  PROVE j \in DOMAIN slots
  BY <1>1, <1>2
<1>. QED  BY <1>1, <1>2, <1>3

LEMMA Half ==
  ASSUME NEW d \in Nat, d # 0
  PROVE  d \div 2 \in Nat /\ d \div 2 < d
OBVIOUS

\* The records half of which are left have their end where it was.
LEMMA HalvedFacts ==
  ASSUME NEW slots, Slots(slots), NEW wanted \in Nat, NEW r \in Spans(slots), r.low < r.high
  PROVE  LET h == Halved(slots, wanted, r)
         IN /\ h \in Spans(slots) /\ h.low <= h.high /\ h.high - h.low < r.high - r.low
            /\ \A i : EndsAt(slots, wanted, h, i) => EndsAt(slots, wanted, r, i)
<1>. DEFINE d == r.high - r.low
            middle == r.low + d \div 2
            left == [r EXCEPT !.low = middle + 1]
            right == [r EXCEPT !.high = middle]
<1>1. /\ r.low \in Nat /\ r.high \in Nat /\ 1 <= r.low /\ r.high <= Len(slots) + 1
      /\ Len(slots) \in Nat
      /\ \A j \in r.low..(r.high - 1) : j \in DOMAIN slots /\ slots[j] \in Nat
  BY SpanFacts
<1>2. d \in Nat /\ d # 0 /\ d \div 2 \in Nat /\ d \div 2 < d
  <2>1. d \in Nat /\ d # 0
    BY <1>1
  <2>. HIDE DEF d
  <2>. QED  BY <2>1, Half
<1>3. middle \in Nat /\ r.low <= middle /\ middle < r.high
  BY <1>1, <1>2
<1>. HIDE DEF middle
<1>4. middle \in DOMAIN slots /\ slots[middle] \in Nat
  <2>1. middle \in r.low..(r.high - 1)
    BY <1>1, <1>3
  <2>. QED  BY <1>1, <2>1
<1>5. \A j, k \in DOMAIN slots : j < k => slots[j] < slots[k]
  BY DEF Slots
<1>6. CASE slots[middle] < wanted
  <2>1. Halved(slots, wanted, r) = left
    BY <1>6 DEF Halved, middle
  <2>2. left.low = middle + 1 /\ left.high = r.high /\ left \in Spans(slots)
    BY <1>1, <1>3 DEF Spans
  <2>. HIDE DEF left
  <2>3. ASSUME NEW i, EndsAt(slots, wanted, left, i)  PROVE EndsAt(slots, wanted, r, i)
    <3>1. /\ i \in (middle + 1)..r.high
          /\ \A j \in (middle + 1)..(i - 1) : slots[j] < wanted
          /\ i < r.high => wanted <= slots[i]
      BY <2>2, <2>3 DEF EndsAt
    <3>2. ASSUME NEW j \in r.low..(i - 1)  PROVE slots[j] < wanted
      <4>1. j \in DOMAIN slots /\ slots[j] \in Nat
        BY <1>1, <1>3, <3>1
      <4>2. CASE j < middle
        BY <1>4, <1>5, <1>6, <4>1, <4>2
      <4>3. CASE j = middle
        BY <1>6, <4>3
      <4>4. CASE j > middle
        BY <1>1, <1>3, <3>1, <4>4
      <4>. QED  BY <1>1, <1>3, <4>2, <4>3, <4>4
    <3>3. i \in r.low..r.high
      BY <1>1, <1>3, <3>1
    <3>. QED  BY <3>1, <3>2, <3>3 DEF EndsAt
  <2>. QED  BY <1>1, <1>3, <2>1, <2>2, <2>3
<1>7. CASE ~(slots[middle] < wanted)
  <2>1. Halved(slots, wanted, r) = right
    BY <1>7 DEF Halved, middle
  <2>2. right.low = r.low /\ right.high = middle /\ right \in Spans(slots)
    BY <1>1, <1>3 DEF Spans
  <2>. HIDE DEF right
  <2>3. ASSUME NEW i, EndsAt(slots, wanted, right, i)  PROVE EndsAt(slots, wanted, r, i)
    <3>1. /\ i \in r.low..middle
          /\ \A j \in r.low..(i - 1) : slots[j] < wanted
          /\ i < middle => wanted <= slots[i]
      BY <2>2, <2>3 DEF EndsAt
    <3>2. wanted <= slots[i]
      BY <1>1, <1>3, <1>4, <1>7, <3>1
    <3>3. i \in r.low..r.high
      BY <1>1, <1>3, <3>1
    <3>. QED  BY <3>1, <3>2, <3>3 DEF EndsAt
  <2>. QED  BY <1>1, <1>3, <2>1, <2>2, <2>3
<1>. QED  BY <1>6, <1>7

LEMMA EndExists ==
  ASSUME NEW slots, Slots(slots), NEW wanted \in Nat, NEW r \in Spans(slots), r.low <= r.high
  PROVE  \E i : EndsAt(slots, wanted, r, i)
<1>. DEFINE T == {i \in r.low..r.high : i = r.high \/ wanted <= slots[i]}
<1>1. /\ r.low \in Nat /\ r.high \in Nat
      /\ \A j \in r.low..(r.high - 1) : slots[j] \in Nat
  BY SpanFacts
<1>2. T \in SUBSET Nat /\ r.high \in T
  BY <1>1
<1>3. PICK i \in T : \A y \in T : i <= y
  <2>1. T # {}
    BY <1>2
  <2>. HIDE DEF T
  <2>. QED  BY <1>2, <2>1, LeastOf
<1>4. ASSUME NEW j \in r.low..(i - 1)  PROVE slots[j] < wanted
  <2>1. j \in r.low..(r.high - 1) /\ j \notin T /\ j \in r.low..r.high
    BY <1>1, <1>3
  <2>. QED  BY <1>1, <2>1
<1>. QED  BY <1>1, <1>3, <1>4 DEF EndsAt

LEMMA EndUnique ==
  ASSUME NEW slots, Slots(slots), NEW wanted \in Nat, NEW r \in Spans(slots),
         NEW i, NEW j, EndsAt(slots, wanted, r, i), EndsAt(slots, wanted, r, j)
  PROVE  i = j
<1>1. /\ r.low \in Nat /\ r.high \in Nat
      /\ \A k \in r.low..(r.high - 1) : slots[k] \in Nat
  BY SpanFacts
<1>2. i \in r.low..r.high /\ j \in r.low..r.high
  BY DEF EndsAt
<1>3. ~(i < j)
  <2>. SUFFICES ASSUME i < j  PROVE FALSE
    OBVIOUS
  <2>1. i \in r.low..(j - 1) /\ i < r.high /\ i \in r.low..(r.high - 1)
    BY <1>1, <1>2
  <2>. QED  BY <1>1, <2>1 DEF EndsAt
<1>4. ~(j < i)
  <2>. SUFFICES ASSUME j < i  PROVE FALSE
    OBVIOUS
  <2>1. j \in r.low..(i - 1) /\ j < r.high /\ j \in r.low..(r.high - 1)
    BY <1>1, <1>2
  <2>. QED  BY <1>1, <2>1 DEF EndsAt
<1>. QED  BY <1>1, <1>2, <1>3, <1>4

\* The equation of the search.
SearchOf(slots, wanted, f) ==
  f = [r \in Spans(slots) |->
         IF r.low >= r.high THEN r.low ELSE f[Halved(slots, wanted, r)]]

\* There is such a function: the one that gives the end.
LEMMA SearchExists ==
  ASSUME NEW slots, Slots(slots), NEW wanted \in Nat
  PROVE  \E f : SearchOf(slots, wanted, f)
<1>. DEFINE f == [r \in Spans(slots) |->
                    IF r.low >= r.high THEN r.low ELSE CHOOSE i : EndsAt(slots, wanted, r, i)]
<1>1. ASSUME NEW r \in Spans(slots), r.low <= r.high  PROVE EndsAt(slots, wanted, r, f[r])
  <2>1. r.low \in Nat /\ r.high \in Nat
    BY SpanFacts
  <2>2. CASE r.low = r.high
    <3>1. f[r] = r.low
      BY <2>1, <2>2
    <3>. HIDE DEF f
    <3>. QED  BY <2>1, <2>2, <3>1 DEF EndsAt
  <2>3. CASE r.low < r.high
    <3>1. f[r] = CHOOSE i : EndsAt(slots, wanted, r, i)
      BY <2>1, <2>3
    <3>. QED  BY <1>1, <3>1, EndExists
  <2>. QED  BY <1>1, <2>1, <2>2, <2>3
<1>2. ASSUME NEW r \in Spans(slots)
      PROVE  f[r] = IF r.low >= r.high THEN r.low ELSE f[Halved(slots, wanted, r)]
  <2>1. r.low \in Nat /\ r.high \in Nat
    BY SpanFacts
  <2>2. CASE r.low >= r.high
    BY <2>2
  <2>3. CASE r.low < r.high
    <3>. DEFINE h == Halved(slots, wanted, r)
    <3>1. /\ h \in Spans(slots) /\ h.low <= h.high
          /\ \A i : EndsAt(slots, wanted, h, i) => EndsAt(slots, wanted, r, i)
      BY <2>3, HalvedFacts
    <3>. HIDE DEF h, f
    <3>2. EndsAt(slots, wanted, r, f[h]) /\ EndsAt(slots, wanted, r, f[r])
      BY <1>1, <2>1, <2>3, <3>1
    <3>3. f[r] = f[h]
      BY <3>2, EndUnique
    <3>. QED  BY <2>1, <2>3, <3>3 DEF h
  <2>. QED  BY <2>1, <2>2, <2>3
<1>3. f = [r \in Spans(slots) |-> f[r]]
  OBVIOUS
<1>. HIDE DEF f
<1>4. SearchOf(slots, wanted, f)
  BY <1>2, <1>3 DEF SearchOf
<1>. QED  BY <1>4

\* And every such function gives the end.
LEMMA SearchEnds ==
  ASSUME NEW slots, Slots(slots), NEW wanted \in Nat, NEW f, SearchOf(slots, wanted, f)
  PROVE  \A r \in Spans(slots) : r.low <= r.high => EndsAt(slots, wanted, r, f[r])
<1>. DEFINE Bad == {d \in Nat : \E r \in Spans(slots) : /\ r.low <= r.high /\ r.high - r.low = d
                                                        /\ ~EndsAt(slots, wanted, r, f[r])}
<1>1. \A r \in Spans(slots) : f[r] = IF r.low >= r.high THEN r.low
                                     ELSE f[Halved(slots, wanted, r)]
  BY DEF SearchOf
<1>2. Bad = {}
  <2>. SUFFICES ASSUME Bad # {}  PROVE FALSE
    OBVIOUS
  <2>1. PICK d \in Bad : \A y \in Bad : d <= y
    BY LeastOf
  <2>2. PICK r \in Spans(slots) : /\ r.low <= r.high /\ r.high - r.low = d
                                  /\ ~EndsAt(slots, wanted, r, f[r])
    BY <2>1
  <2>3. r.low \in Nat /\ r.high \in Nat
    BY SpanFacts
  <2>4. CASE r.low = r.high
    <3>1. f[r] = r.low
      BY <1>1, <2>3, <2>4
    <3>2. EndsAt(slots, wanted, r, r.low)
      BY <2>3, <2>4 DEF EndsAt
    <3>. QED  BY <2>2, <3>1, <3>2
  <2>5. CASE r.low < r.high
    <3>. DEFINE h == Halved(slots, wanted, r)
    <3>1. /\ h \in Spans(slots) /\ h.low <= h.high /\ h.high - h.low < r.high - r.low
          /\ \A i : EndsAt(slots, wanted, h, i) => EndsAt(slots, wanted, r, i)
      BY <2>5, HalvedFacts
    <3>2. f[r] = f[h]
      BY <1>1, <2>3, <2>5
    <3>. HIDE DEF h
    <3>3. h.low \in Nat /\ h.high \in Nat
      <4>1. h \in Spans(slots) /\ Len(slots) \in Nat
        BY <3>1 DEF Slots
      <4>. QED  BY <4>1 DEF Spans
    <3>4. h.high - h.low \in Nat /\ ~(d <= h.high - h.low)
      BY <2>2, <2>3, <3>1, <3>3
    <3>5. EndsAt(slots, wanted, h, f[h])
      BY <2>1, <3>1, <3>4
    <3>. QED  BY <2>2, <3>1, <3>2, <3>5
  <2>. QED  BY <2>2, <2>3, <2>4, <2>5
<1>3. ASSUME NEW r \in Spans(slots), r.low <= r.high  PROVE EndsAt(slots, wanted, r, f[r])
  <2>1. r.high - r.low \in Nat
    BY <1>3, SpanFacts
  <2>. QED  BY <1>2, <1>3, <2>1
<1>. QED  BY <1>3

\* The search finds the slot wanted, or none.
LEMMA StateForFinds ==
  ASSUME NEW slots, Slots(slots), NEW wanted \in Nat, NEW k \in DOMAIN slots
  PROVE  StateFor(slots, wanted) = k <=> slots[k] = wanted
<1>. DEFINE search == CHOOSE f : SearchOf(slots, wanted, f)
            whole == [low |-> 1, high |-> Len(slots) + 1]
            found == search[whole]
<1>1. StateFor(slots, wanted) = IF found <= Len(slots) /\ slots[found] = wanted THEN found ELSE 0
  BY Zenon DEF StateFor, SearchOf
<1>2. SearchOf(slots, wanted, search)
  BY SearchExists
<1>. HIDE DEF search
<1>3. /\ slots \in Seq(Nat) /\ Len(slots) \in Nat /\ DOMAIN slots = 1..Len(slots)
      /\ \A j \in DOMAIN slots : slots[j] \in Nat
      /\ \A i, j \in DOMAIN slots : i < j => slots[i] < slots[j]
  BY DEF Slots
<1>4. whole \in Spans(slots) /\ whole.low = 1 /\ whole.high = Len(slots) + 1
  BY <1>3 DEF Spans
<1>. HIDE DEF whole
<1>5. EndsAt(slots, wanted, whole, found)
  <2>1. whole.low <= whole.high
    BY <1>3, <1>4
  <2>. QED  BY <1>2, <1>4, <2>1, SearchEnds
<1>. HIDE DEF found
<1>6. /\ found \in 1..(Len(slots) + 1)
      /\ \A j \in 1..(found - 1) : slots[j] < wanted
      /\ found < Len(slots) + 1 => wanted <= slots[found]
  BY <1>4, <1>5 DEF EndsAt
<1>7. ASSUME slots[k] = wanted  PROVE found = k
  <2>1. ~(k < found)
    BY <1>3, <1>6, <1>7
  <2>2. ~(found < k)
    <3>. SUFFICES ASSUME found < k  PROVE FALSE
      OBVIOUS
    <3>1. found \in DOMAIN slots /\ wanted <= slots[found] /\ slots[found] < slots[k]
      BY <1>3, <1>6
    <3>. QED  BY <1>3, <1>7, <3>1
  <2>. QED  BY <1>3, <1>6, <2>1, <2>2
<1>. QED  BY <1>1, <1>3, <1>6, <1>7

\* Every slot of the image finds its own record, and no other slot finds one.
LEMMA OwnRecordsFound == PlacedInv => SlotsFound
<1>. SUFFICES ASSUME PlacedInv, shape # NoShape, NEW k \in DOMAIN shape.slots,
                     NEW wanted \in 0..(shape.slots[Len(shape.slots)] + 1)
              PROVE  (StateFor(shape.slots, wanted) = k) <=> (shape.slots[k] = wanted)
  BY DEF SlotsFound
<1>1. Slots(shape.slots)
  BY LayoutAssumption DEF PlacedInv, Slots
<1>2. wanted \in Nat
  OBVIOUS
<1>. QED  BY <1>1, <1>2, StateForFinds

\* All of it: for every image and arena, the arrays of a load that is accepted
\* lie apart within the arena, the memory asked for is enough, every state slot
\* and every section of the file is found.
THEOREM LayoutIsSafe == LayoutSpec => []LayoutSafe
<1>1. PlacedInv /\ ArraysApart /\ RequiredSuffices => LayoutSafe
  BY OwnRecordsFound, EverySectionFound DEF LayoutSafe
<1>. QED  BY <1>1, LayoutSpecPlaces, ArraysStayApart, RequiredIsEnough, PTL
=============================================================================
