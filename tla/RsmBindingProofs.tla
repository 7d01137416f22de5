--------------------------- MODULE RsmBindingProofs ---------------------------
(***************************************************************************)
(* For every set of images and every size: what Python believes of the     *)
(* native object is true of it, and the object is used as its lifecycle    *)
(* demands.                                                                *)
(***************************************************************************)
EXTENDS RsmBinding, TLAPS

LEMMA InitOwned == BindingAssumption /\ Init => Owned
<1> SUFFICES ASSUME BindingAssumption, Init PROVE Owned  OBVIOUS
<1>1. TypeOK  BY DEF Init, TypeOK, Modes
<1>2. Agreement  BY DEF Init, Agreement
<1>3. RestsInProgram  BY DEF Init, RestsInProgram
<1> QED  BY <1>1, <1>2, <1>3 DEF Owned

LEMMA StepOwned ==
  ASSUME BindingAssumption, Owned, [Next]_vars
  PROVE  Owned'
<1> USE DEF Owned, TypeOK, Agreement, RestsInProgram, Modes, Free, owner, core
<1>1. ASSUME NEW i \in Images, LoadInPlace(i) PROVE Owned'
  BY <1>1, BindingAssumption DEF LoadInPlace, CoreAccepts, BindingAssumption
<1>2. ASSUME NEW i \in Images, LoadResized(i) PROVE Owned'
  <2>1. Need[i] \in Nat /\ Need[i] <= Need[i] + Alignment  BY BindingAssumption DEF BindingAssumption, Alignment
  <2> QED  BY <1>2, <2>1, BindingAssumption DEF LoadResized, CoreAccepts, BindingAssumption, Alignment
<1>3. CASE Unload  BY <1>3, BindingAssumption DEF Unload, BindingAssumption
<1>4. CASE Close  BY <1>4, BindingAssumption DEF Close, BindingAssumption
<1>5. ASSUME NEW m \in Modes, SetMode(m) PROVE Owned'  BY <1>5 DEF SetMode
<1>6. CASE BeginScan  BY <1>6 DEF BeginScan
<1>7. CASE EndScan  BY <1>7 DEF EndScan
<1>8. CASE UNCHANGED vars  BY <1>8 DEF vars
<1> QED  BY <1>1, <1>2, <1>3, <1>4, <1>5, <1>6, <1>7, <1>8 DEF Next

\* Flag, image buffer and arena agree with the core after every call, whatever
\* was refused before it.
THEOREM OwnedHolds == Spec => []Owned
<1>1. Init => Owned  BY InitOwned, BindingAssumption
<1>2. Owned /\ [Next]_vars => Owned'  BY StepOwned, BindingAssumption
<1> QED  BY <1>1, <1>2, PTL DEF Spec

LEMMA StepKeepsLifecycle ==
  ASSUME BindingAssumption, Owned, [Next]_vars
  PROVE  [Lifecycle!Next]_(Lifecycle!vars)
<1> USE DEF Owned, Agreement, RestsInProgram, Free, owner, core
<1>1. ASSUME NEW i \in Images, LoadInPlace(i) PROVE Lifecycle!Load
  BY <1>1, BindingAssumption DEF LoadInPlace, CoreAccepts, BindingAssumption, Lifecycle!Load
<1>2. ASSUME NEW i \in Images, LoadResized(i) PROVE Lifecycle!Load
  BY <1>2, BindingAssumption DEF LoadResized, CoreAccepts, BindingAssumption, Lifecycle!Load
<1>3. CASE Unload  BY <1>3 DEF Unload, Lifecycle!Unload, Lifecycle!Next
<1>4. CASE Close
  <2>1. mode' = "PROGRAM" /\ attached' = None  BY <1>4 DEF Close
  <2> QED  BY <1>4, <2>1 DEF Close, Lifecycle!Discard, Lifecycle!Next
<1>5. ASSUME NEW m \in Modes, SetMode(m) PROVE Lifecycle!Select(m)
  BY <1>5 DEF SetMode, Lifecycle!Select
<1>6. CASE BeginScan  BY <1>6 DEF BeginScan, Lifecycle!Call, Lifecycle!Next
<1>7. CASE EndScan  BY <1>7 DEF EndScan, Lifecycle!Return, Lifecycle!Next
<1>8. CASE UNCHANGED vars  BY <1>8 DEF vars, Lifecycle!vars
<1> QED  BY <1>1, <1>2, <1>3, <1>4, <1>5, <1>6, <1>7, <1>8 DEF Next, Modes, Lifecycle!Next

\* NativeRuntime implements the lifecycle that the C core promises its host.
THEOREM BindingRefinesLifecycle == Spec => KeepsLifecycle
<1>1. Init => Lifecycle!Init  BY DEF Init, Lifecycle!Init
<1>2. Owned /\ [Next]_vars => [Lifecycle!Next]_(Lifecycle!vars)  BY StepKeepsLifecycle, BindingAssumption
<1> QED  BY <1>1, <1>2, OwnedHolds, PTL DEF Spec, KeepsLifecycle, Lifecycle!Spec
===============================================================================
