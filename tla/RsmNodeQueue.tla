----------------------------- MODULE RsmNodeQueue -----------------------------
(***************************************************************************)
(* The node's bounded queue of commands, runtime/node/src/command_queue.c: *)
(* a ring of slots with the place of the oldest command, the number of     *)
(* commands and the largest number there has been.  The code has no lock:  *)
(* whoever shares the queue calls one function at a time.                  *)
(***************************************************************************)
EXTENDS Naturals

CONSTANTS
  Commands,       \* an rsm_node_command_t: type, request, tag and value
  ZeroCommand,    \* the one of zeros
  QueueCapacity   \* RSM_NODE_QUEUE_CAPACITY, 64 in the code

ASSUME NodeQueueAssumption == QueueCapacity \in Nat \ {0}

VARIABLES
  items, head, count, highWater,  \* rsm_node_queue_t
  reply                           \* what the last call returned and gave

queueVars == <<items, head, count, highWater, reply>>

Slots == 0..(QueueCapacity - 1)
Refused == [ok |-> FALSE]
Accepted == [ok |-> TRUE]
Given(c) == [ok |-> TRUE, item |-> c]

NodeQueueInit ==
  /\ items = [s \in Slots |-> ZeroCommand]
  /\ head = 0 /\ count = 0 /\ highWater = 0
  /\ reply = Refused

\* rsm_node_queue_init, on a queue in use.
Reinitialize ==
  /\ items' = [s \in Slots |-> ZeroCommand]
  /\ head' = 0 /\ count' = 0 /\ highWater' = 0
  /\ reply' = Refused

\* Mutant: the tail is where the commands are counted from slot 0.
TailFromZero == count % QueueCapacity
TailSlot == (head + count) % QueueCapacity
After(s) == (s + 1) % QueueCapacity

PushFull ==
  /\ count = QueueCapacity
  /\ reply' = Refused
  /\ UNCHANGED <<items, head, count, highWater>>

Push(c) ==
  /\ count # QueueCapacity
  /\ items' = [items EXCEPT ![TailSlot] = c]
  /\ count' = count + 1
  /\ highWater' = IF count + 1 > highWater THEN count + 1 ELSE highWater
  /\ reply' = Accepted
  /\ UNCHANGED head

PopEmpty ==
  /\ count = 0
  /\ reply' = Refused
  /\ UNCHANGED <<items, head, count, highWater>>

Pop ==
  /\ count # 0
  /\ reply' = Given(items[head])
  /\ head' = After(head)
  /\ count' = count - 1
  /\ UNCHANGED <<items, highWater>>

NodeQueueNext ==
  \/ Reinitialize
  \/ \E c \in Commands : Push(c)
  \/ PushFull \/ Pop \/ PopEmpty

NodeQueueSpec == NodeQueueInit /\ [][NodeQueueNext]_queueVars

-----------------------------------------------------------------------------
NodeQueueTypeOK ==
  /\ items \in [Slots -> Commands \cup {ZeroCommand}]
  /\ head \in Slots /\ count \in 0..QueueCapacity /\ highWater \in count..QueueCapacity

\* The commands that wait, oldest first, however often the ring has been round.
Waiting == [i \in 1..count |-> items[(head + i - 1) % QueueCapacity]]

Fifo == INSTANCE RsmFifo WITH
  Elements <- Commands, Bound <- QueueCapacity,
  contents <- Waiting, peak <- highWater, returned <- reply

\* The ring is a first-in first-out queue: no wrap of its indices, refusal or
\* initialisation loses, repeats or reorders a command, and the high-water mark
\* is the most that has waited at once.
ImplementsFifo == Fifo!Spec
===============================================================================
