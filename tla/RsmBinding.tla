------------------------------ MODULE RsmBinding ------------------------------
(***************************************************************************)
(* NativeRuntime of native/runtime.py: the owner of one native runtime     *)
(* object, of the arena the object works in and of the image buffer the    *)
(* object points into.  Every method holds the object's lock from its      *)
(* first test to its return, so a method is one step; scan is two, for     *)
(* the mode it leaves behind is decided while the core runs.               *)
(*                                                                         *)
(* The core's side is what rsm_runtime.c does of it: the image it points   *)
(* at, the arena it was given and the mode.                                *)
(***************************************************************************)
EXTENDS Integers

CONSTANTS
  Images,      \* what a caller may pass as an image
  ValidImages, \* those of them that the core's validator accepts
  Need,        \* bytes the core asks for, image by image
  None         \* no image

ASSUME BindingAssumption ==
  /\ ValidImages \subseteq Images /\ None \notin Images
  /\ Need \in [Images -> Nat \ {0}]

VARIABLES
  closed,       \* _closed
  initialized,  \* _initialized
  capacity,     \* _arena_capacity
  loaded,       \* _program_loaded
  image,        \* _image, with its hash, manifest and debug map
  attached,     \* the image the core points at
  arena,        \* bytes the core believes it owns
  mode,         \* the core's mode
  scanning      \* rsm_runtime_scan is running

owner == <<closed, initialized, capacity, loaded, image>>
core == <<attached, arena, mode, scanning>>
vars == <<owner, core>>

Modes == {"PROGRAM", "RUN", "TEST", "FAULTED"}
Alignment == 8   \* the allowance load_image adds to what the core asks for

TypeOK ==
  /\ closed \in BOOLEAN /\ initialized \in BOOLEAN /\ loaded \in BOOLEAN
  /\ capacity \in Nat /\ arena \in Nat
  /\ image \in Images \cup {None} /\ attached \in Images \cup {None}
  /\ mode \in Modes /\ scanning \in BOOLEAN

Init ==
  /\ closed = FALSE /\ initialized = FALSE /\ capacity = 0 /\ loaded = FALSE /\ image = None
  /\ attached = None /\ arena = 0 /\ mode = "PROGRAM" /\ scanning = FALSE

\* The object's lock is free, and the object is open.
Free == ~scanning /\ ~closed

\* The core takes a valid image in PROGRAM only.  Room is never what it lacks:
\* Need counts the bytes that an unaligned arena loses at its start.
CoreAccepts(i, m) == m = "PROGRAM" /\ i \in ValidImages

\* An image the arena has room for goes to the core as it is; what the core
\* refuses leaves the old program, and what Python knows of it, in place.
LoadInPlace(i) ==
  /\ Free /\ initialized /\ Need[i] <= capacity
  /\ CoreAccepts(i, mode)
  /\ attached' = i /\ image' = i /\ loaded' = TRUE
  /\ UNCHANGED <<closed, initialized, capacity, arena, mode, scanning>>

\* A larger one, or the first, needs a new arena, which an active program
\* forbids: the core's object is made anew, in PROGRAM, around it.
LoadResized(i) ==
  /\ Free /\ (~initialized \/ Need[i] > capacity) /\ ~loaded
  /\ CoreAccepts(i, "PROGRAM")
  /\ initialized' = TRUE /\ capacity' = Need[i] + Alignment /\ arena' = Need[i] + Alignment
  /\ attached' = i /\ image' = i /\ loaded' = TRUE /\ mode' = "PROGRAM"
  /\ UNCHANGED <<closed, scanning>>

UnloadKeepsImage ==
  /\ Free /\ mode = "PROGRAM"
  /\ attached' = None /\ loaded' = FALSE
  /\ UNCHANGED <<closed, initialized, capacity, image, arena, mode, scanning>>

Unload ==
  /\ Free /\ mode = "PROGRAM"
  /\ attached' = None /\ image' = None /\ loaded' = FALSE
  /\ UNCHANGED <<closed, initialized, capacity, arena, mode, scanning>>

Close ==
  /\ ~scanning /\ ~closed
  /\ closed' = TRUE /\ initialized' = FALSE /\ capacity' = 0 /\ loaded' = FALSE /\ image' = None
  /\ IF initialized THEN attached' = None /\ mode' = "PROGRAM" ELSE UNCHANGED <<attached, mode>>
  /\ UNCHANGED <<arena, scanning>>

SetAnyMode(m) ==
  /\ Free /\ loaded /\ mode' = m
  /\ UNCHANGED <<owner, attached, arena, scanning>>

\* The binding asks for a program even where the core does not.
SetMode(m) ==
  /\ Free /\ loaded
  /\ mode = "FAULTED" => m = "PROGRAM"
  /\ m \in {"RUN", "TEST"} => attached # None
  /\ mode' = m
  /\ UNCHANGED <<owner, attached, arena, scanning>>

BeginScan ==
  /\ Free /\ loaded /\ attached # None /\ mode \in {"RUN", "TEST"}
  /\ scanning' = TRUE
  /\ UNCHANGED <<owner, attached, arena, mode>>

EndScan ==
  /\ scanning /\ scanning' = FALSE
  /\ mode' \in {mode, "FAULTED"}
  /\ UNCHANGED <<owner, attached, arena>>

Next ==
  \/ \E i \in Images : LoadInPlace(i) \/ LoadResized(i)
  \/ Unload \/ Close
  \/ \E m \in Modes : SetMode(m)
  \/ BeginScan \/ EndScan

Spec == Init /\ [][Next]_vars

-----------------------------------------------------------------------------
\* What Python says of the program is true of the core: the flag is set exactly
\* while an image is attached, the buffer the core points into is the one that
\* Python keeps alive, and the image fits the arena that Python keeps alive.
Agreement ==
  /\ loaded <=> attached # None
  /\ image = attached
  /\ attached # None => initialized /\ arena = capacity /\ Need[attached] <= arena
  /\ initialized => arena = capacity

\* With no program the core is in PROGRAM, so a new arena never interrupts one.
RestsInProgram == ~loaded => mode = "PROGRAM" /\ ~scanning

Owned == TypeOK /\ Agreement /\ RestsInProgram

\* The binding's methods are the calls the lifecycle lets a host make.
Lifecycle == INSTANCE RsmLifecycle WITH
  mode <- mode, loaded <- attached # None, scanning <- scanning
KeepsLifecycle == Lifecycle!Spec
==============================================================================
