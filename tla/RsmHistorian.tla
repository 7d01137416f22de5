----------------------------- MODULE RsmHistorian -----------------------------
(***************************************************************************)
(* Historian of scada/historian.py after start: the bounded queue that     *)
(* registry updates are put into, the writer task that stores batches of   *)
(* it, and close, which joins the queue and then sends the writer a        *)
(* sentinel.  All run on one event loop: a writer that finds items stores  *)
(* batch after batch without giving way until the queue is empty.          *)
(***************************************************************************)
EXTENDS Integers, Sequences, FiniteSets, Functions

CONSTANTS
  QueueSize, BatchSize,
  Sentinel,            \* the None that ends the writer
  HistoryMaxSamples    \* bound of the instances explored: samples 1, 2, ... are offered

ASSUME HistorianAssumption ==
  /\ QueueSize \in Nat \ {0} /\ BatchSize \in Nat \ {0}
  /\ HistoryMaxSamples \in Nat /\ Sentinel \notin Nat

VARIABLES
  historyQueue,  \* queue
  unfinished,    \* the queue's count of items without a task_done
  writer,        \* waiting in get, running, or ended
  stored,        \* the samples in the database, in their order
  lost,          \* the samples of batches that failed
  offered,       \* how many samples enqueue has been given
  dropped,       \* how many it dropped
  closing,       \* open, joining, putting, awaiting, closed
  early, late    \* history: samples accepted before close began, and since

historyVars == <<historyQueue, unfinished, writer, stored, lost, offered, dropped, closing, early, late>>

Samples == 1..HistoryMaxSamples
Queued == Range(historyQueue) \ {Sentinel}
Settled == Range(stored) \cup lost

HistorianTypeOK ==
  /\ historyQueue \in Seq(Samples \cup {Sentinel}) /\ Len(historyQueue) <= QueueSize
  /\ unfinished \in Nat /\ offered \in Nat /\ dropped \in Nat
  /\ writer \in {"waiting", "running", "ended"}
  /\ stored \in Seq(Samples) /\ lost \subseteq Samples
  /\ closing \in {"open", "joining", "putting", "awaiting", "closed"}
  /\ early \subseteq Samples /\ late \subseteq Samples

HistorianInit ==
  /\ historyQueue = <<>> /\ unfinished = 0 /\ writer = "waiting"
  /\ stored = <<>> /\ lost = {} /\ offered = 0 /\ dropped = 0 /\ closing = "open"
  /\ early = {} /\ late = {}

\* The other tasks run only while the writer waits or has ended.
LoopFree == writer # "running"
Room == Len(historyQueue) < QueueSize

Enqueue ==
  /\ LoopFree /\ offered < HistoryMaxSamples
  /\ offered' = offered + 1
  /\ IF Room
     THEN /\ historyQueue' = Append(historyQueue, offered + 1) /\ unfinished' = unfinished + 1
          /\ IF closing = "open" THEN early' = early \cup {offered + 1} /\ UNCHANGED late
             ELSE late' = late \cup {offered + 1} /\ UNCHANGED early
          /\ UNCHANGED dropped
     ELSE dropped' = dropped + 1 /\ UNCHANGED <<historyQueue, unfinished, early, late>>
  /\ UNCHANGED <<writer, stored, lost, closing>>

\* The batch: samples up to its size or to a sentinel, which is taken with it
\* if it is reached, and which then ends the batch only.
BatchLength ==
  CHOOSE n \in 1..BatchSize :
    /\ n <= Len(historyQueue) /\ \A k \in 1..n : historyQueue[k] # Sentinel
    /\ n = BatchSize \/ n = Len(historyQueue) \/ historyQueue[n + 1] = Sentinel
Taken(n) == IF n < BatchSize /\ n < Len(historyQueue) THEN n + 1 ELSE n

\* task_done is called for every item taken, the sentinel too.
DoneForSamples(samples, items) == samples
DoneFor(samples, items) == items

\* The join of close is woken when the count reaches zero.
Woken(n) == IF closing = "joining" /\ n = 0 THEN "putting" ELSE closing

StoreBatch ==
  /\ writer # "ended" /\ historyQueue # <<>> /\ Head(historyQueue) # Sentinel
  /\ LET n == BatchLength
         batch == SubSeq(historyQueue, 1, n)
     IN /\ \/ stored' = stored \o batch /\ UNCHANGED lost
           \/ lost' = lost \cup Range(batch) /\ UNCHANGED stored
        /\ historyQueue' = SubSeq(historyQueue, Taken(n) + 1, Len(historyQueue))
        /\ unfinished' = unfinished - DoneFor(n, Taken(n))
        /\ closing' = Woken(unfinished')
  /\ writer' = "running"
  /\ UNCHANGED <<offered, dropped, early, late>>

WriterRests ==
  /\ writer = "running" /\ historyQueue = <<>> /\ writer' = "waiting"
  /\ UNCHANGED <<historyQueue, unfinished, stored, lost, offered, dropped, closing, early, late>>

WriterGoesOn ==
  /\ writer # "ended" /\ historyQueue # <<>> /\ Head(historyQueue) = Sentinel
  /\ historyQueue' = Tail(historyQueue) /\ unfinished' = unfinished - DoneFor(0, 1)
  /\ writer' = "running"
  /\ closing' = Woken(unfinished')
  /\ UNCHANGED <<stored, lost, offered, dropped, early, late>>

WriterEnds ==
  /\ writer # "ended" /\ historyQueue # <<>> /\ Head(historyQueue) = Sentinel
  /\ historyQueue' = Tail(historyQueue) /\ unfinished' = unfinished - DoneFor(0, 1)
  /\ writer' = "ended"
  /\ closing' = Woken(unfinished')
  /\ UNCHANGED <<stored, lost, offered, dropped, early, late>>

SendSentinel ==
  /\ historyQueue' = Append(historyQueue, Sentinel) /\ unfinished' = unfinished + 1
  /\ closing' = "awaiting"

CloseWithoutJoin ==
  /\ LoopFree /\ closing = "open" /\ Room /\ SendSentinel
  /\ UNCHANGED <<writer, stored, lost, offered, dropped, early, late>>

\* With nothing unfinished close goes on to the sentinel without a wait.
CloseHistorian ==
  /\ LoopFree /\ closing = "open"
  /\ IF unfinished = 0 THEN SendSentinel
     ELSE closing' = "joining" /\ UNCHANGED <<historyQueue, unfinished>>
  /\ UNCHANGED <<writer, stored, lost, offered, dropped, early, late>>

\* A close that was woken runs when the loop comes to it, other tasks perhaps
\* before it, and waits for room.
PutSentinel ==
  /\ LoopFree /\ closing = "putting" /\ Room /\ SendSentinel
  /\ UNCHANGED <<writer, stored, lost, offered, dropped, early, late>>

CloseReturnsToCaller ==
  /\ closing = "awaiting" /\ writer = "ended" /\ closing' = "closed"
  /\ UNCHANGED <<historyQueue, unfinished, writer, stored, lost, offered, dropped, early, late>>

WriterSteps == StoreBatch \/ WriterRests \/ WriterEnds
CloseSteps == PutSentinel \/ CloseReturnsToCaller
HistorianNext == Enqueue \/ WriterSteps \/ CloseHistorian \/ CloseSteps

HistorianSpec == HistorianInit /\ [][HistorianNext]_historyVars

\* The event loop runs every task that can go on.
HistorianFair == WF_historyVars(WriterSteps) /\ WF_historyVars(CloseSteps)

-----------------------------------------------------------------------------
\* Every accepted sample is in the queue, in the database or in a batch that
\* failed, in one of them and once; the database has them in their order; and
\* the count that close joins on is that of the items in the queue.
Accounted ==
  /\ early \cup late = Queued \cup Settled
  /\ Cardinality(early \cup late) + dropped = offered
  /\ Cardinality(Queued) + Len(stored) + Cardinality(lost) = Cardinality(early \cup late)
  /\ \A j, k \in 1..Len(stored) : j < k => stored[j] < stored[k]
  /\ unfinished = Len(historyQueue)

\* Once close has come past its join every sample accepted before it began is
\* settled, and a close that has returned left nothing behind of the queue but
\* what was enqueued behind its back.
CloseSettles ==
  /\ closing \in {"putting", "awaiting", "closed"} => early \subseteq Settled
  /\ closing = "closed" => Queued \subseteq late

\* close returns, unless a sample was enqueued while it ran: the sentinel may
\* then end a batch instead of the writer, which waits for another for ever.
CloseReturns == closing # "open" ~> (closing = "closed" \/ late # {})
===============================================================================
