---------------------------- MODULE RsmObserver ----------------------------
(***************************************************************************)
(* RsmRuntime with two history variables, for what can only be said about  *)
(* the runtime's state over several scans: when each on-delay timer was    *)
(* last enabled, and whether each edge-sensitive instruction has seen the  *)
(* absence of power since it was last initialised.  A third bounds the     *)
(* host: it stays with the first image it loads, which it may unload and   *)
(* load again.  (RsmRuntime alone has hosts that change the program.)      *)
(***************************************************************************)
EXTENDS RsmRuntime

VARIABLES
  onSince,  \* per timer instruction: when its present enablement began
  low,      \* per ONS, CTU and CTD: ran without power since initialised
  session   \* the image this host works with

hvars == <<vars, onSince, low, session>>

Timers == {k \in 1..Len(Code) : Code[k].op = "TON"}
EdgeOps == {k \in 1..Len(Code) : Code[k].op \in CountOps \cup {"ONS"}}
Counters == {k \in EdgeOps : Code[k].op \in CountOps}

Prescanned == Prescan \/ (mode = "PROGRAM" /\ mode' \in Active)
Postscanned == Postscan \/ (mode \in Active /\ mode' = "PROGRAM")

ObserveTimers ==
  onSince' =
    IF image' = Null THEN <<>>
    ELSE IF image' # image THEN [k \in Timers' |-> tick]
    ELSE IF OnDelay /\ power /\ ~tag[I.a.id].en
    THEN [onSince EXCEPT ![pc + 1] = tick]
    ELSE onSince

ObserveEdges ==
  low' =
    IF image' = Null THEN <<>>
    ELSE IF image' # image \/ Prescanned THEN [k \in EdgeOps' |-> FALSE]
    ELSE IF Postscanned THEN [k \in EdgeOps |-> k \in Counters \/ low[k]]
    ELSE IF OneShot \/ Count THEN [low EXCEPT ![pc + 1] = ~power]
    ELSE IF Reset /\ power
    THEN [k \in EdgeOps |-> low[k] \/ (k \in Counters /\ Code[k].a.id = I.a.id)]
    ELSE low

ObserveSession ==
  /\ image' \in Images => session \in {Null, image'}
  /\ session' = IF session = Null THEN image' ELSE session

ObservedInit == Init /\ onSince = <<>> /\ low = <<>> /\ session = Null
ObservedNext == Next /\ ObserveTimers /\ ObserveEdges /\ ObserveSession
ObservedSpec == ObservedInit /\ [][ObservedNext]_hvars

-----------------------------------------------------------------------------
\* A timer that one TON runs, and that no RES resets in a rung before it: such
\* a reset leaves the TON counting from where it was (ResetClearsState).
Alone(k) ==
  LET id == Code[k].a.id IN
  /\ \A j \in Timers \ {k} : Code[j].a.id # id
  /\ \A j \in 1..Len(Code) : \A r \in 1..Len(P.rungs) :
       (Code[j].op = "RES" /\ Code[j].a.id = id /\ j \in (RungStart(P, r) + 1)..RungEnd(P, r))
         => k <= RungEnd(P, r)

\* A timer never claims more milliseconds than have passed between the scan
\* that enabled it and the scan that last ran it, through resets, forces,
\* faults and restarts.
TimerNeverEarly ==
  image # Null =>
    \A k \in Timers :
      (Alone(k) /\ slot[Code[k].slot].valid) =>
        tag[Code[k].a.id].acc * UsPerMs <= slot[Code[k].slot].time - onSince[k]

\* The tags an instruction stores a scalar in.
Stores(i) ==
  IF i.op \in CoilOps \cup {"ONS", "CLR"} THEN {i.a.id}
  ELSE IF i.op \in ArithOps THEN {i.d.id}
  ELSE IF i.op \in UnaryOps \cup {"MOV"} THEN {i.b.id}
  ELSE {}

\* A one-shot whose storage bit is its own: nobody else writes or forces it.
OwnBit(k) ==
  /\ Code[k].a.id \notin HostTags
  /\ \A j \in (1..Len(Code)) \ {k} : Code[k].a.id \notin Stores(Code[j])

\* A counter moves, and a one-shot passes power on, only on a rise: the
\* instruction has run without power, or been reset, since the prescan.  A rung
\* that is true when RUN begins, after a fault too, is no rise.
OnlyRisesCount ==
  [][/\ (Count /\ tag'[I.a.id].acc # tag[I.a.id].acc) => low[pc + 1]
     /\ (OneShot /\ power' /\ OwnBit(pc + 1)) => low[pc + 1]]_hvars
=============================================================================
