---------------------------- MODULE RsmLinkProofs ----------------------------
(***************************************************************************)
(* Proofs about the RSM Link parts: the node's queue, the C stream and the *)
(* connection of the client.                                               *)
(***************************************************************************)
EXTENDS RsmNodeQueue, RsmLinkStream, RsmLinkClient, SequenceTheorems, TLAPS

-----------------------------------------------------------------------------
(* The node's queue.                                                       *)

\* Indices stay below twice the capacity, where the remainder is plain.
LEMMA Around ==
  ASSUME NEW C \in Nat, C > 0, NEW n \in Nat, n < C + C
  PROVE n % C = IF n < C THEN n ELSE n - C
  OBVIOUS

LEMMA PlacesDiffer ==
  ASSUME NEW C \in Nat, C > 0, NEW h \in 0..(C - 1), NEW n \in 0..(C - 1), NEW i \in 1..n
  PROVE (h + i - 1) % C # (h + n) % C
<1>1. (h + i - 1) % C = IF h + i - 1 < C THEN h + i - 1 ELSE h + i - 1 - C
  BY Around
<1>2. (h + n) % C = IF h + n < C THEN h + n ELSE h + n - C
  BY Around
<1> QED BY <1>1, <1>2

LEMMA PlacesMove ==
  ASSUME NEW C \in Nat, C > 0, NEW h \in 0..(C - 1), NEW n \in 1..C, NEW i \in 1..(n - 1)
  PROVE (((h + 1) % C) + i - 1) % C = (h + (i + 1) - 1) % C
<1>1. (h + 1) % C = IF h + 1 < C THEN h + 1 ELSE h + 1 - C
  BY Around
<1>2. h + (i + 1) - 1 = h + i
  OBVIOUS
<1>3. (h + i) % C = IF h + i < C THEN h + i ELSE h + i - C
  BY Around
<1>4. CASE h + 1 < C
  BY <1>1, <1>2, <1>4
<1>5. CASE h + 1 >= C
  <2>1. (h + 1) % C = 0 /\ h = C - 1
    BY <1>1, <1>5
  <2>2. (0 + i - 1) % C = i - 1
    BY Around
  <2>3. (h + i) % C = i - 1
    BY <1>3, <2>1
  <2> QED BY <1>2, <2>1, <2>2, <2>3
<1> QED BY <1>4, <1>5

LEMMA QueueTypes == NodeQueueSpec => []NodeQueueTypeOK
<1>1. NodeQueueInit => NodeQueueTypeOK
  BY NodeQueueAssumption DEF NodeQueueInit, NodeQueueTypeOK, Slots
<1>2. NodeQueueTypeOK /\ [NodeQueueNext]_queueVars => NodeQueueTypeOK'
  BY NodeQueueAssumption
  DEF NodeQueueTypeOK, NodeQueueNext, queueVars, Slots, Reinitialize, Push, PushFull, Pop,
      PopEmpty, TailSlot, After
<1> QED BY <1>1, <1>2, PTL DEF NodeQueueSpec

View(ring, first, n) == [i \in 1..n |-> ring[(first + i - 1) % QueueCapacity]]
Content == Commands \cup {ZeroCommand}

LEMMA ViewIsSequence ==
  ASSUME NEW ring \in [Slots -> Content], NEW first \in Slots, NEW n \in Nat
  PROVE /\ View(ring, first, n) \in Seq(Content) /\ Len(View(ring, first, n)) = n
        /\ \A i \in 1..n : View(ring, first, n)[i] = ring[(first + i - 1) % QueueCapacity]
<1>1. \A i \in 1..n : (first + i - 1) % QueueCapacity \in Slots
  BY NodeQueueAssumption DEF Slots
<1>2. View(ring, first, n) \in [1..n -> Content]
  BY <1>1 DEF View
<1> QED BY <1>2 DEF View

LEMMA WaitingIsSequence ==
  ASSUME NodeQueueTypeOK
  PROVE /\ Waiting \in Seq(Content) /\ Len(Waiting) = count
        /\ \A i \in 1..count : Waiting[i] = items[(head + i - 1) % QueueCapacity]
<1>1. Waiting = View(items, head, count)
  BY DEF Waiting, View
<1>2. items \in [Slots -> Content] /\ head \in Slots /\ count \in Nat
  BY NodeQueueAssumption DEF NodeQueueTypeOK, Content
<1> QED BY <1>1, <1>2, ViewIsSequence

LEMMA WaitingStaysSequence ==
  ASSUME NodeQueueTypeOK'
  PROVE /\ Waiting' \in Seq(Content) /\ Len(Waiting') = count'
        /\ \A i \in 1..count' : Waiting'[i] = items'[(head' + i - 1) % QueueCapacity]
<1>1. Waiting' = View(items', head', count')
  BY DEF Waiting, View
<1>2. items' \in [Slots -> Content] /\ head' \in Slots /\ count' \in Nat
  BY NodeQueueAssumption DEF NodeQueueTypeOK, Content
<1> QED BY <1>1, <1>2, ViewIsSequence

\* A command pushed stands behind the others.
LEMMA PushAppends ==
  ASSUME NodeQueueTypeOK, NodeQueueTypeOK', NEW c \in Commands, Push(c)
  PROVE Waiting' = Append(Waiting, c)
<1>1. count \in Nat /\ count' = count + 1 /\ count < QueueCapacity
  BY NodeQueueAssumption DEF NodeQueueTypeOK, Push
<1>2. \A i \in 1..(count + 1) : (head' + i - 1) % QueueCapacity = (head + i - 1) % QueueCapacity
  BY DEF Push
<1>3. \A i \in 1..count : (head + i - 1) % QueueCapacity # TailSlot
  BY <1>1, PlacesDiffer, NodeQueueAssumption DEF NodeQueueTypeOK, Slots, TailSlot
<1>4. TailSlot \in Slots /\ \A i \in 1..count : (head + i - 1) % QueueCapacity \in Slots
  BY NodeQueueAssumption DEF NodeQueueTypeOK, Slots, TailSlot
<1>5. /\ \A i \in 1..count : items'[(head + i - 1) % QueueCapacity] = items[(head + i - 1) % QueueCapacity]
      /\ items'[(head + (count + 1) - 1) % QueueCapacity] = c
  <2>1. /\ items' = [items EXCEPT ![TailSlot] = c] /\ DOMAIN items = Slots
        /\ head + (count + 1) - 1 = head + count
    BY <1>1, NodeQueueAssumption DEF Push, NodeQueueTypeOK, Slots
  <2>2. items'[TailSlot] = c /\ \A s \in Slots : s # TailSlot => items'[s] = items[s]
    BY <1>4, <2>1
  <2> QED BY <1>3, <1>4, <2>1, <2>2 DEF TailSlot
<1>6. /\ Waiting' \in Seq(Content) /\ Len(Waiting') = count + 1
      /\ \A i \in 1..(count + 1) : Waiting'[i] = items'[(head' + i - 1) % QueueCapacity]
  BY <1>1, WaitingStaysSequence
<1>7. \A i \in 1..(count + 1) : Waiting'[i] = IF i = count + 1 THEN c ELSE Waiting[i]
  <2> SUFFICES ASSUME NEW i \in 1..(count + 1)
               PROVE  Waiting'[i] = IF i = count + 1 THEN c ELSE Waiting[i]
    OBVIOUS
  <2>1. Waiting'[i] = items'[(head + i - 1) % QueueCapacity]  BY <1>2, <1>6
  <2>2. CASE i = count + 1  BY <1>5, <2>1, <2>2
  <2>3. CASE i # count + 1
    <3>1. i \in 1..count  BY <1>1, <2>3
    <3>2. Waiting[i] = items[(head + i - 1) % QueueCapacity]  BY <3>1, WaitingIsSequence
    <3> QED  BY <1>5, <2>1, <2>3, <3>1, <3>2
  <2> QED  BY <2>2, <2>3
<1>8. /\ Append(Waiting, c) \in Seq(Content)
      /\ Len(Append(Waiting, c)) = count + 1
      /\ \A i \in 1..(count + 1) :
           Append(Waiting, c)[i] = IF i = count + 1 THEN c ELSE Waiting[i]
  BY <1>1, WaitingIsSequence, AppendProperties DEF Content
<1>9. \A i \in 1..(count + 1) : Waiting'[i] = Append(Waiting, c)[i]
  BY <1>7, <1>8
<1> QED BY <1>6, <1>8, <1>9, SeqEqual

\* A command popped is the one that stood first.
LEMMA PopTakesFirst ==
  ASSUME NodeQueueTypeOK, NodeQueueTypeOK', Pop
  PROVE Waiting # <<>> /\ items[head] = Head(Waiting) /\ Waiting' = Tail(Waiting)
<1>1. /\ count \in Nat /\ count > 0 /\ count' = count - 1 /\ items' = items
      /\ head \in 0..(QueueCapacity - 1) /\ count <= QueueCapacity /\ head' = (head + 1) % QueueCapacity
  BY NodeQueueAssumption DEF NodeQueueTypeOK, Pop, Slots, After
<1>2. \A i \in 1..(count - 1) : (head' + i - 1) % QueueCapacity = (head + (i + 1) - 1) % QueueCapacity
  <2>1. QueueCapacity \in Nat /\ QueueCapacity > 0
    BY NodeQueueAssumption
  <2> QED BY <1>1, <2>1, PlacesMove
<1>3. Waiting[1] = items[head] /\ Waiting # <<>>
  <2>1. head % QueueCapacity = head
    BY <1>1, NodeQueueAssumption
  <2> QED BY <1>1, <2>1, WaitingIsSequence
<1>4. /\ Tail(Waiting) \in Seq(Content) /\ Len(Tail(Waiting)) = count - 1
      /\ \A i \in 1..(count - 1) : Tail(Waiting)[i] = Waiting[i + 1]
  BY <1>1, <1>3, WaitingIsSequence, HeadTailProperties
<1>5. /\ Waiting' \in Seq(Content) /\ Len(Waiting') = count - 1
      /\ \A i \in 1..(count - 1) : Waiting'[i] = items[(head' + i - 1) % QueueCapacity]
  BY <1>1, WaitingStaysSequence
<1>6. \A i \in 1..(count - 1) : items[(head' + i - 1) % QueueCapacity] = Waiting[i + 1]
  BY <1>1, <1>2, WaitingIsSequence
<1>7. \A i \in 1..(count - 1) : Waiting'[i] = Tail(Waiting)[i]
  BY <1>4, <1>5, <1>6
<1>8. Waiting' = Tail(Waiting)
  BY <1>4, <1>5, <1>7, SeqEqual
<1> QED BY <1>3, <1>8, WaitingIsSequence

\* The node's ring of commands is the first-in first-out queue RsmFifo, for
\* every capacity: command_queue.c loses, repeats and reorders nothing.
THEOREM QueueImplementsFifo == NodeQueueSpec => ImplementsFifo
<1>1. NodeQueueInit => Fifo!Init
  <2> SUFFICES ASSUME NodeQueueInit PROVE Fifo!Init
    OBVIOUS
  <2>1. Waiting = <<>>
    BY DEF NodeQueueInit, Waiting
  <2> QED BY <2>1 DEF NodeQueueInit, Fifo!Init, Fifo!Nothing, Refused
<1>2. NodeQueueTypeOK /\ NodeQueueTypeOK' /\ [NodeQueueNext]_queueVars => [Fifo!Next]_Fifo!fifoVars
  <2> SUFFICES ASSUME NodeQueueTypeOK, NodeQueueTypeOK', [NodeQueueNext]_queueVars
               PROVE [Fifo!Next]_Fifo!fifoVars
    OBVIOUS
  <2>1. CASE Reinitialize
    <3>1. Waiting' = <<>>
      BY <2>1 DEF Reinitialize, Waiting
    <3> QED BY <2>1, <3>1 DEF Reinitialize, Fifo!Next, Fifo!Clear, Fifo!Nothing, Refused
  <2>2. ASSUME NEW c \in Commands, Push(c) PROVE [Fifo!Next]_Fifo!fifoVars
    <3>1. Waiting' = Append(Waiting, c) /\ Len(Waiting) = count /\ Len(Waiting') = count + 1
      BY <2>2, PushAppends, WaitingIsSequence, WaitingStaysSequence DEF Push
    <3>2. count < QueueCapacity
      BY <2>2, NodeQueueAssumption DEF Push, NodeQueueTypeOK
    <3>3. Fifo!Push(c)
      BY <2>2, <3>1, <3>2 DEF Push, Fifo!Push, Fifo!Pushed, Accepted
    <3> QED BY <3>3 DEF Fifo!Next
  <2>3. CASE PushFull
    <3>1. Waiting' = Waiting /\ Len(Waiting) = QueueCapacity
      BY <2>3, WaitingIsSequence DEF PushFull, Waiting
    <3> QED BY <2>3, <3>1 DEF PushFull, Fifo!Next, Fifo!Refuse, Fifo!Nothing, Refused
  <2>4. CASE Pop
    <3>1. Fifo!Pop
      BY <2>4, PopTakesFirst DEF Pop, Fifo!Pop, Fifo!Popped, Given
    <3> QED BY <3>1 DEF Fifo!Next
  <2>5. CASE PopEmpty
    <3>1. Waiting' = Waiting /\ Len(Waiting) = 0
      BY <2>5, WaitingIsSequence DEF PopEmpty, Waiting
    <3> QED BY <2>5, <3>1 DEF PopEmpty, Fifo!Next, Fifo!Refuse, Fifo!Nothing, Refused
  <2>6. CASE UNCHANGED queueVars
    BY <2>6 DEF queueVars, Fifo!fifoVars, Waiting
  <2> QED BY <2>1, <2>2, <2>3, <2>4, <2>5, <2>6 DEF NodeQueueNext
<1> QED BY <1>1, <1>2, QueueTypes, PTL DEF NodeQueueSpec, ImplementsFifo, Fifo!Spec

-----------------------------------------------------------------------------
(* The stream decoder.                                                     *)

StreamTypes ==
  /\ streamCapacity \in Nat /\ sent \in Transmissions
  /\ length \in Nat /\ fed \in Nat /\ length <= fed /\ length <= streamCapacity
  /\ fed <= Transmitted
  /\ handled \in Seq(LinkFrame) /\ given \in LinkFrame \cup {Garbage}

StreamInductive == StreamTypes /\ InOrder /\ RefusesForCause

\* Where a frame starts, it is found; where the last one ends, none is.
LEMMA FrontIsNext ==
  ASSUME StreamTypes, InOrder
  PROVE /\ Len(handled) < Len(sent.frames) =>
             /\ Front = sent.frames[Len(handled) + 1] /\ Front \in LinkFrame
             /\ sent.start[Len(handled) + 2] = Base + Front.bytes
        /\ Len(handled) = Len(sent.frames) => Front = Garbage /\ length = 0
<1> DEFINE n == Len(handled) m == Len(sent.frames)
<1>1. /\ n \in Nat /\ m \in Nat /\ n <= m /\ Base = sent.start[n + 1]
      /\ sent.frames \in Seq(LinkFrame) /\ DOMAIN sent.frames = 1..m
      /\ sent.start \in [1..(m + 1) -> Nat]
      /\ \A k \in 1..m : sent.start[k + 1] = sent.start[k] + sent.frames[k].bytes
      /\ \A j, k \in 1..(m + 1) : j < k => sent.start[j] < sent.start[k]
  <2>1. sent \in Transmissions /\ TransmissionOK(sent)
    BY LinkStreamAssumption DEF StreamTypes
  <2>2. sent.frames \in Seq(LinkFrame) /\ m \in Nat /\ DOMAIN sent.frames = 1..m
    BY <2>1, LenProperties DEF TransmissionOK
  <2>3. n \in Nat /\ n <= m /\ Base = sent.start[n + 1]
    BY <2>1, LenProperties DEF StreamTypes, InOrder
  <2> QED BY <2>1, <2>2, <2>3 DEF TransmissionOK
<1> HIDE DEF n, m
<1>2. ASSUME n < m
      PROVE /\ Front = sent.frames[n + 1] /\ Front \in LinkFrame
            /\ sent.start[n + 2] = Base + Front.bytes
  <2>1. n + 1 \in 1..m /\ n + 1 \in 1..(m + 1)
    BY <1>1, <1>2
  <2>2. \A k \in 1..m : sent.start[k] = Base => k = n + 1
    <3> SUFFICES ASSUME NEW k \in 1..m, sent.start[k] = Base, k # n + 1 PROVE FALSE
      OBVIOUS
    <3>1. k \in 1..(m + 1) /\ (k < n + 1 \/ n + 1 < k)
      BY <1>1
    <3>2. sent.start[k] \in Nat /\ sent.start[n + 1] \in Nat
      BY <1>1, <2>1, <3>1
    <3>3. sent.start[k] = sent.start[n + 1]  BY <1>1
    <3>4. CASE k < n + 1
      <4>1. sent.start[k] < sent.start[n + 1]  BY <1>1, <2>1, <3>1, <3>4
      <4> QED BY <3>2, <3>3, <4>1
    <3>5. CASE n + 1 < k
      <4>1. sent.start[n + 1] < sent.start[k]  BY <1>1, <2>1, <3>1, <3>5
      <4> QED BY <3>2, <3>3, <4>1
    <3> QED BY <3>1, <3>4, <3>5
  <2>3. Front = sent.frames[n + 1]
    BY <1>1, <2>1, <2>2 DEF Front, FrameAt
  <2>4. sent.start[(n + 1) + 1] = sent.start[n + 1] + sent.frames[n + 1].bytes
    BY <1>1, <2>1
  <2>5. sent.frames[n + 1] \in LinkFrame /\ (n + 1) + 1 = n + 2
    BY <1>1, <2>1
  <2> QED BY <1>1, <2>3, <2>4, <2>5
<1>3. ASSUME n = m PROVE Front = Garbage /\ length = 0
  <2>1. \A k \in 1..m : sent.start[k] # Base
    <3> SUFFICES ASSUME NEW k \in 1..m PROVE sent.start[k] # Base
      OBVIOUS
    <3>1. k \in 1..(m + 1) /\ m + 1 \in 1..(m + 1) /\ k < m + 1
      BY <1>1
    <3>2. sent.start[k] \in Nat /\ sent.start[m + 1] \in Nat /\ sent.start[k] < sent.start[m + 1]
      BY <1>1, <3>1
    <3> QED BY <1>1, <1>3, <3>2
  <2>2. Front = Garbage
    BY <1>1, <2>1 DEF Front, FrameAt
  <2>3. fed <= sent.start[m + 1] /\ fed - length = sent.start[m + 1]
    BY <1>1, <1>3 DEF StreamTypes, Transmitted, Base, m
  <2>4. fed \in Nat /\ length \in Nat /\ sent.start[m + 1] \in Nat
    BY <1>1 DEF StreamTypes
  <2> QED BY <2>2, <2>3, <2>4
<1> QED BY <1>2, <1>3 DEF n, m

LEMMA Sizes ==
  /\ HeaderSize \in Nat /\ HeaderSize > 0 /\ MinFrameSize \in Nat /\ MaxFrameSize \in Nat
  /\ WordMod \in Nat /\ MaxPayloadSize \in Nat /\ MaxPayloadSize = MaxFrameSize - MinFrameSize
  /\ HeaderSize < MinFrameSize /\ MinFrameSize <= MaxFrameSize /\ MaxFrameSize < WordMod
BY LinkStreamAssumption DEF MaxPayloadSize

\* The sum of a length within the limits does not wrap around; one that comes
\* out below the minimum has.
LEMMA TotalOf ==
  ASSUME NEW f \in LinkFrame
  PROVE /\ Total(f) \in Nat /\ f.length \in Nat
        /\ f.length <= MaxPayloadSize => Total(f) = MinFrameSize + f.length
        /\ Total(f) < MinFrameSize => f.length > MaxPayloadSize
<1>1. f.length \in Nat /\ f.length < WordMod
  BY Sizes DEF LinkFrame
<1>2. MinFrameSize + f.length < WordMod + WordMod
  BY <1>1, Sizes
<1> DEFINE sum == MinFrameSize + f.length
<1>3. sum \in Nat /\ WordMod \in Nat /\ WordMod > 0 /\ Total(f) = sum % WordMod
  BY <1>1, Sizes DEF Total
<1> HIDE DEF sum
<1>4. sum < WordMod + WordMod => (sum % WordMod) = IF sum < WordMod THEN sum ELSE sum - WordMod
  BY <1>3, Around
<1> QED BY <1>1, <1>2, <1>3, <1>4, Sizes DEF sum

\* All the tests have been passed by what is answered with OK.
LEMMA OkDecode ==
  ASSUME NEW f, NEW n, Decode(f, n) = "OK"
  PROVE ~(n < MinFrameSize) /\ f.starts /\ f.version /\ f.crc
        /\ ~(f.length > MaxPayloadSize) /\ n = MinFrameSize + f.length
<1>1. ~(n < MinFrameSize)
  BY DEF Decode
<1>2. f.starts
  BY <1>1 DEF Decode
<1>3. f.version
  BY <1>1, <1>2 DEF Decode
<1>4. ~(f.length > MaxPayloadSize) /\ n = MinFrameSize + f.length
  BY <1>1, <1>2, <1>3 DEF Decode
<1>5. f.crc
  BY <1>1, <1>2, <1>3, <1>4 DEF Decode
<1> QED BY <1>1, <1>2, <1>3, <1>4, <1>5

LEMMA OkAnswer ==
  ASSUME NEW f, NEW n, Answer(f, n) = "OK"
  PROVE ~(n < HeaderSize) /\ ~Excessive(f) /\ ~(n < Total(f)) /\ Decode(f, Total(f)) = "OK"
<1>1. ~(n < HeaderSize)
  BY DEF Answer
<1>2. ~Excessive(f)
  BY <1>1 DEF Answer
<1>3. ~(n < Total(f))
  BY <1>1, <1>2 DEF Answer
<1> QED BY <1>1, <1>2, <1>3 DEF Answer

\* What is answered with OK is a good frame, all of which is there.
LEMMA OkIsGood ==
  ASSUME StreamTypes, InOrder, NEW held \in Nat, held <= Transmitted - Base,
         Answer(Front, held) = "OK"
  PROVE Good(Front) /\ Front.bytes <= held /\ Len(handled) < Len(sent.frames)
<1>1. ~(held < HeaderSize) /\ ~Excessive(Front) /\ ~(held < Total(Front))
      /\ Decode(Front, Total(Front)) = "OK"
  BY OkAnswer
<1>2. /\ ~(Total(Front) < MinFrameSize) /\ Front.starts /\ Front.version /\ Front.crc
      /\ ~(Front.length > MaxPayloadSize) /\ Total(Front) = MinFrameSize + Front.length
  BY <1>1, OkDecode
<1>3. Len(handled) < Len(sent.frames)
  <2>1. Len(handled) \in Nat /\ Len(sent.frames) \in Nat /\ Len(handled) <= Len(sent.frames)
    BY LinkStreamAssumption DEF StreamTypes, InOrder, TransmissionOK
  <2>2. ~Garbage.starts
    BY DEF Garbage
  <2> QED BY <1>2, <2>1, <2>2, FrontIsNext
<1>4. Front \in LinkFrame /\ Front = sent.frames[Len(handled) + 1]
      /\ sent.start[Len(handled) + 2] = Base + Front.bytes
  BY <1>3, FrontIsNext
<1>5. Front.length \in Nat /\ Front.bytes \in Nat /\ Base \in Nat
  BY <1>4, TotalOf DEF LinkFrame, StreamTypes, Base
<1>6. \/ Front.bytes = MinFrameSize + Front.length
      \/ /\ Len(handled) + 1 = Len(sent.frames) /\ Front.bytes < MinFrameSize + Front.length
  <2>1. Len(handled) + 1 \in 1..Len(sent.frames)
    BY <1>3, LinkStreamAssumption DEF StreamTypes, TransmissionOK
  <2> QED BY <1>2, <1>4, <2>1, LinkStreamAssumption DEF StreamTypes, TransmissionOK
<1>7. Front.bytes = MinFrameSize + Front.length
  <2> SUFFICES ASSUME Len(handled) + 1 = Len(sent.frames),
                      Front.bytes < MinFrameSize + Front.length
               PROVE FALSE
    BY <1>6
  <2>1. (Len(handled) + 1) + 1 = Len(handled) + 2
    BY DEF StreamTypes
  <2>2. Transmitted = Base + Front.bytes
    BY <1>4, <2>1 DEF Transmitted
  <2> QED BY <1>1, <1>2, <1>5, <2>2, Sizes
<1>8. Encodable(Front.length, streamCapacity)
  BY <1>1, <1>2, <1>5, Sizes DEF Excessive, Encodable, StreamTypes
<1>9. Front.bytes <= held
  BY <1>1, <1>2, <1>5, <1>7, Sizes
<1> QED BY <1>2, <1>3, <1>7, <1>8, <1>9 DEF Good

\* A good frame is never refused, and is answered once all of it is there.
LEMMA GoodIsAnswered ==
  ASSUME NEW f \in LinkFrame, Good(f), NEW held \in Nat, streamCapacity \in Nat
  PROVE ~Fails(f, held) /\ (f.bytes <= held => Answer(f, held) = "OK")
<1>1. /\ f.starts /\ f.version /\ f.crc /\ f.length \in Nat /\ f.bytes = MinFrameSize + f.length
      /\ f.length <= MaxPayloadSize /\ MinFrameSize + f.length <= streamCapacity
      /\ Total(f) = MinFrameSize + f.length
  BY TotalOf DEF Good, Encodable
<1>2. Decode(f, Total(f)) = "OK"
  BY <1>1, Sizes DEF Decode
<1>3. ~Excessive(f)
  BY <1>1, Sizes DEF Excessive
<1> QED BY <1>1, <1>2, <1>3, Sizes DEF Fails, Answer

\* What is known of the transmission being received.
LEMMA SentTypes ==
  ASSUME StreamTypes
  PROVE /\ Len(sent.frames) \in Nat /\ Transmitted \in Nat /\ sent.start[1] = 0
        /\ Base \in Nat /\ Len(handled) \in Nat
        /\ \A k \in 1..(Len(sent.frames) + 1) : sent.start[k] \in Nat
<1>1. sent.frames \in Seq(LinkFrame) /\ sent.start \in [1..(Len(sent.frames) + 1) -> Nat]
      /\ sent.start[1] = 0
  BY LinkStreamAssumption DEF StreamTypes, TransmissionOK
<1>2. Len(sent.frames) \in Nat /\ Len(sent.frames) + 1 \in 1..(Len(sent.frames) + 1)
  BY <1>1
<1>3. Transmitted \in Nat
  BY <1>1, <1>2 DEF Transmitted
<1>4. \A k \in 1..(Len(sent.frames) + 1) : sent.start[k] \in Nat
  BY <1>1
<1>5. Base \in Nat /\ Len(handled) \in Nat
  BY DEF StreamTypes, Base
<1> QED BY <1>1, <1>2, <1>3, <1>4, <1>5

\* A stream at the start of a transmission is as the invariant has it.
LEMMA FreshStream ==
  ASSUME sent \in Transmissions, streamCapacity \in Nat, length = 0, fed = 0, given = Garbage,
         handled = <<>>, broken = FALSE, status = "NONE"
  PROVE StreamInductive
<1>1. /\ sent.frames \in Seq(LinkFrame) /\ sent.start \in [1..(Len(sent.frames) + 1) -> Nat]
      /\ sent.start[1] = 0
  BY LinkStreamAssumption DEF TransmissionOK
<1>2. Len(sent.frames) \in Nat /\ Len(sent.frames) + 1 \in 1..(Len(sent.frames) + 1)
  BY <1>1
<1>3. StreamTypes
  BY <1>1, <1>2 DEF StreamTypes, Transmitted
<1>4. InOrder
  BY <1>1, <1>2 DEF InOrder, Base
<1>5. RefusesForCause
  BY DEF RefusesForCause
<1> QED BY <1>3, <1>4, <1>5 DEF StreamInductive

\* The lemma above in the state after a step.
LEMMA FreshStreamAfter ==
  ASSUME sent' \in Transmissions, streamCapacity' \in Nat, length' = 0, fed' = 0,
         given' = Garbage, handled' = <<>>, broken' = FALSE, status' = "NONE"
  PROVE StreamInductive'
<1>1. /\ (sent').frames \in Seq(LinkFrame) /\ (sent').start \in [1..(Len((sent').frames) + 1) -> Nat]
      /\ (sent').start[1] = 0
  BY LinkStreamAssumption DEF TransmissionOK
<1>2. Len((sent').frames) \in Nat /\ Len((sent').frames) + 1 \in 1..(Len((sent').frames) + 1)
  BY <1>1
<1>3. StreamTypes'
  BY <1>1, <1>2 DEF StreamTypes, Transmitted, Garbage
<1>4. InOrder'
  BY <1>1, <1>2 DEF InOrder, Base, Garbage
<1>5. RefusesForCause'
  BY DEF RefusesForCause
<1> QED BY <1>3, <1>4, <1>5 DEF StreamInductive

\* The same stream with nothing stored or taken: the frame in front is the same.
LEMMA FrontStays ==
  ASSUME UNCHANGED <<streamCapacity, sent, handled>>, Base' = Base
  PROVE /\ Front' = Front /\ Transmitted' = Transmitted
        /\ \A f : Good(f)' <=> Good(f)
        /\ Total(Front)' = Total(Front)
<1>1. Front' = Front
  BY DEF Front, FrameAt, Garbage
<1> QED BY <1>1 DEF Transmitted, Good, Total, Encodable

\* Storing a chunk.
LEMMA StoresKeeps ==
  ASSUME StreamInductive, NEW n \in 0..(Transmitted - fed), FeedStores(n)
  PROVE StreamInductive'
<1> DEFINE held == length + n
<1>1. /\ held \in Nat /\ n \in Nat /\ fed \in Nat /\ length \in Nat /\ streamCapacity \in Nat
      /\ held <= Transmitted - Base /\ held <= streamCapacity /\ fed + n <= Transmitted
      /\ Transmitted \in Nat
  <2>1. Transmitted \in Nat /\ Base \in Nat  BY SentTypes DEF StreamInductive
  <2>2. /\ fed \in Nat /\ length \in Nat /\ streamCapacity \in Nat /\ fed <= Transmitted
        /\ length <= fed
    BY DEF StreamInductive, StreamTypes
  <2>3. n \in Nat /\ n <= Transmitted - fed  BY <2>1, <2>2
  <2>4. n <= streamCapacity - length  BY DEF FeedStores
  <2>5. fed - Base = length  BY <2>1, <2>2 DEF Base
  <2> QED BY <2>1, <2>2, <2>3, <2>4, <2>5
<1>2. /\ StreamTypes /\ InOrder /\ RefusesForCause
      /\ broken = FALSE /\ UNCHANGED <<streamCapacity, sent, handled, overrun>>
      /\ length' = held /\ fed' = fed + n /\ status' = Answer(Front, held)
      /\ broken' = Fails(Front, held) /\ given' = IF status' = "OK" THEN Front ELSE given
  BY DEF StreamInductive, FeedStores
<1> HIDE DEF held
<1>3. Base' = Base
  BY <1>1, <1>2 DEF Base, held
<1>4. /\ Front' = Front /\ Transmitted' = Transmitted /\ Total(Front)' = Total(Front)
      /\ \A f : Good(f)' <=> Good(f)
  BY <1>2, <1>3, FrontStays
<1>5. status' = "OK" => Good(Front) /\ Front.bytes <= held /\ Len(handled) < Len(sent.frames)
  BY <1>1, <1>2, OkIsGood
<1>6. Fails(Front, held) => Len(handled) < Len(sent.frames) /\ Front \in LinkFrame /\ ~Good(Front)
  <2> SUFFICES ASSUME Fails(Front, held)
               PROVE Len(handled) < Len(sent.frames) /\ Front \in LinkFrame /\ ~Good(Front)
    OBVIOUS
  <2>1. Len(handled) < Len(sent.frames)
    <3> SUFFICES ASSUME Len(handled) = Len(sent.frames) PROVE FALSE
      BY <1>2, SentTypes DEF InOrder
    <3>1. length = 0 /\ Transmitted = Base
      BY <1>2, FrontIsNext DEF InOrder, Transmitted
    <3>2. held = 0
      BY <1>1, <3>1 DEF held
    <3> QED BY <3>2, Sizes DEF Fails
  <2>2. Front \in LinkFrame
    BY <1>2, <2>1, FrontIsNext
  <2> QED BY <1>1, <2>1, <2>2, GoodIsAnswered
<1>7. given' \in LinkFrame \cup {Garbage}
  BY <1>2, <1>5, FrontIsNext DEF StreamTypes
<1>8. StreamTypes'
  BY <1>1, <1>2, <1>4, <1>7 DEF StreamTypes, held, Garbage
<1>9. InOrder'
  <2>1. given' # Garbage => given' = Front /\ Good(given') /\ held >= given'.bytes
    <3>1. CASE status' = "OK"
      <4>1. Front \in LinkFrame
        BY <1>2, <1>5, <3>1, FrontIsNext
      <4>2. Front.bytes \in Nat
        BY <4>1 DEF LinkFrame
      <4> QED BY <1>1, <1>2, <1>5, <3>1, <4>2
    <3>2. CASE status' # "OK"
      <4>1. given' = given
        BY <1>2, <3>2
      <4> SUFFICES ASSUME given # Garbage
                   PROVE given = Front /\ Good(given) /\ held >= given.bytes
        BY <4>1
      <4>2. given = Front /\ Good(given) /\ length >= given.bytes /\ given.bytes \in Nat
        BY <1>2 DEF InOrder, StreamTypes, LinkFrame
      <4> QED BY <1>1, <4>2 DEF held
    <3> QED BY <3>1, <3>2
  <2>2. \A k \in 1..Len(handled) : handled[k] = sent.frames[k] /\ Good(handled[k])'
    <3> SUFFICES ASSUME NEW k \in 1..Len(handled)
                 PROVE handled[k] = sent.frames[k] /\ Good(handled[k])'
      OBVIOUS
    <3>1. handled[k] = sent.frames[k] /\ Good(handled[k])
      BY <1>2 DEF InOrder
    <3> QED BY <1>2, <3>1 DEF Good, Encodable
  <2>3. given' # Garbage => Good(given)'
    BY <1>2, <2>1 DEF Good, Encodable
  <2>4. Len(handled) <= Len(sent.frames) /\ Base = sent.start[Len(handled) + 1]
    BY <1>2 DEF InOrder
  <2> QED BY <1>2, <1>3, <1>4, <2>1, <2>2, <2>3, <2>4 DEF InOrder, Garbage
<1>10. RefusesForCause'
  <2>1. Fails(Front, held) /\ status' = "INCOMPLETE" => Front.length > MaxPayloadSize
    <3> SUFFICES ASSUME Fails(Front, held), Answer(Front, held) = "INCOMPLETE"
                 PROVE Front.length > MaxPayloadSize
      BY <1>2
    <3>1. Front \in LinkFrame /\ Total(Front) \in Nat
      BY <1>6, TotalOf
    <3>2. ~(held < HeaderSize)
      BY <1>1, Sizes DEF Fails
    <3>3. ~Excessive(Front)
      BY <3>2 DEF Answer
    <3>4. ~(held < Total(Front))
      BY <1>1, <3>1, <3>3 DEF Fails
    <3>5. Decode(Front, Total(Front)) = "INCOMPLETE"
      BY <3>2, <3>3, <3>4 DEF Answer
    <3>6. Total(Front) < MinFrameSize
      BY <3>5 DEF Decode
    <3> QED BY <3>1, <3>6, TotalOf
  <2>2. ~Fails(Front, held) /\ status' = "INCOMPLETE" => held < HeaderSize \/ held < Total(Front)
    <3> SUFFICES ASSUME ~Fails(Front, held), Answer(Front, held) = "INCOMPLETE",
                        ~(held < HeaderSize), ~(held < Total(Front))
                 PROVE FALSE
      BY <1>2
    <3>1. ~Excessive(Front)
      BY DEF Answer
    <3>2. Decode(Front, Total(Front)) = "INCOMPLETE"
      BY <3>1 DEF Answer
    <3>3. CASE Len(handled) < Len(sent.frames)
      <4>1. held >= HeaderSize /\ held >= Total(Front)
        BY <1>1, <1>2, <3>3, FrontIsNext, TotalOf, Sizes
      <4> QED BY <3>2, <4>1 DEF Fails
    <3>4. CASE Len(handled) = Len(sent.frames)
      <4>1. length = 0 /\ Transmitted = Base
        BY <1>2, <3>4, FrontIsNext DEF InOrder, Transmitted
      <4>2. held = 0
        BY <1>1, <4>1 DEF held
      <4> QED BY <4>2, Sizes
    <3> QED BY <1>2, <3>3, <3>4, SentTypes DEF InOrder
  <2>3. ((broken => \/ overrun
                    \/ Len(handled) < Len(sent.frames) /\ ~Good(Front)))'
    BY <1>2, <1>4, <1>6 DEF Good, Encodable
  <2> QED BY <1>2, <1>4, <2>1, <2>2, <2>3 DEF RefusesForCause
<1> QED BY <1>8, <1>9, <1>10 DEF StreamInductive

\* Handing the frame in front to the caller's handler.
LEMMA ConsumeKeeps ==
  ASSUME StreamInductive, Consume
  PROVE StreamInductive'
<1>1. /\ StreamTypes /\ InOrder /\ RefusesForCause
      /\ given # Garbage /\ UNCHANGED <<streamCapacity, broken, sent, fed, status, overrun>>
      /\ length' = IF Consumed(given) <= length THEN length - Consumed(given) ELSE length
      /\ given' = Garbage /\ handled' = Append(handled, given)
  BY DEF StreamInductive, Consume
<1>2. /\ given = Front /\ Good(Front) /\ length >= Front.bytes
      /\ Front.bytes = Consumed(given)
  BY <1>1 DEF InOrder, Good, Consumed
<1>3. Len(handled) < Len(sent.frames)
  BY <1>1, <1>2, SentTypes, FrontIsNext DEF InOrder
<1>4. /\ Front = sent.frames[Len(handled) + 1] /\ Front \in LinkFrame
      /\ sent.start[Len(handled) + 2] = Base + Front.bytes
  BY <1>1, <1>3, FrontIsNext
<1>5. Front.bytes \in Nat /\ length \in Nat /\ fed \in Nat
  BY <1>1, <1>4 DEF LinkFrame, StreamTypes
<1>6. length' = length - Front.bytes
  BY <1>1, <1>2, <1>5
<1>7. /\ handled' \in Seq(LinkFrame) /\ Len(handled') = Len(handled) + 1
      /\ handled'[Len(handled) + 1] = Front
      /\ \A k \in 1..Len(handled) : handled'[k] = handled[k]
  BY <1>1, <1>2, <1>4, AppendProperties DEF StreamTypes
<1>8. StreamTypes'
  BY <1>1, <1>2, <1>5, <1>6, <1>7 DEF StreamTypes, Transmitted, Garbage
<1>9. InOrder'
  <2>1. Len(handled') <= Len(sent.frames)
    BY <1>1, <1>3, <1>7, SentTypes
  <2>2. \A k \in 1..Len(handled') : handled'[k] = sent.frames[k] /\ Good(handled'[k])
    <3> SUFFICES ASSUME NEW k \in 1..Len(handled')
                 PROVE handled'[k] = sent.frames[k] /\ Good(handled'[k])
      OBVIOUS
    <3>1. CASE k = Len(handled) + 1
      BY <1>2, <1>4, <1>7, <3>1
    <3>2. CASE k # Len(handled) + 1
      <4>1. k \in 1..Len(handled)
        BY <1>1, <1>7, <3>2, SentTypes
      <4> QED BY <1>1, <1>7, <4>1 DEF InOrder
    <3> QED BY <3>1, <3>2
  <2>3. Base' = sent.start[Len(handled') + 1]
    <3>1. Len(handled') + 1 = Len(handled) + 2
      BY <1>1, <1>7, SentTypes
    <3>2. Base' = Base + Front.bytes
      BY <1>1, <1>5, <1>6 DEF Base
    <3> QED BY <1>4, <3>1, <3>2
  <2>4. \A f : Good(f)' <=> Good(f)
    BY <1>1 DEF Good, Encodable
  <2> QED BY <1>1, <2>1, <2>2, <2>3, <2>4 DEF InOrder, Garbage, Good, Encodable
<1>10. RefusesForCause'
  <2>1. status # "INCOMPLETE"
    <3> SUFFICES ASSUME status = "INCOMPLETE" PROVE FALSE
      OBVIOUS
    <3>1. /\ Total(Front) = Front.bytes /\ Front.length <= MaxPayloadSize
          /\ Front.length \in Nat /\ Front.bytes >= MinFrameSize
      BY <1>2, <1>4, TotalOf, Sizes DEF Good, Encodable
    <3>2. length >= HeaderSize /\ length >= Total(Front)
      BY <1>2, <1>5, <3>1, Sizes
    <3>3. ~broken
      BY <1>1, <3>1, Sizes DEF RefusesForCause
    <3> QED BY <1>1, <1>5, <3>1, <3>2, <3>3, Sizes DEF RefusesForCause
  <2>2. broken => overrun
    BY <1>1, <1>2 DEF RefusesForCause
  <2> QED BY <1>1, <2>1, <2>2 DEF RefusesForCause
<1> QED BY <1>8, <1>9, <1>10 DEF StreamInductive

\* A failed stream stays as it is, and one that is overrun fails.
LEMMA RefusalKeeps ==
  ASSUME StreamInductive,
         FeedFailed \/ (\E n \in Nat : FeedOverrun(n)) \/ UNCHANGED streamVars
  PROVE StreamInductive'
<1>1. /\ StreamTypes /\ InOrder /\ RefusesForCause
      /\ UNCHANGED <<streamCapacity, length, sent, fed, given, handled>>
  BY DEF StreamInductive, FeedFailed, FeedOverrun, streamVars
<1>2. /\ Base' = Base /\ Front' = Front /\ Transmitted' = Transmitted
      /\ Total(Front)' = Total(Front) /\ \A f : Good(f)' <=> Good(f)
  BY <1>1, FrontStays DEF Base
<1>3. StreamTypes'
  BY <1>1, <1>2 DEF StreamTypes, Garbage
<1>4. InOrder'
  <2>1. \A k \in 1..Len(handled) : handled[k] = sent.frames[k] /\ Good(handled[k])'
    <3> SUFFICES ASSUME NEW k \in 1..Len(handled)
                 PROVE handled[k] = sent.frames[k] /\ Good(handled[k])'
      OBVIOUS
    <3> QED BY <1>1 DEF InOrder, Good, Encodable
  <2>2. given # Garbage => given = Front /\ Good(given)' /\ length >= given.bytes
    BY <1>1 DEF InOrder, Good, Encodable
  <2> QED BY <1>1, <1>2, <2>1, <2>2 DEF InOrder, Garbage
<1>5. RefusesForCause'
  <2>1. Good(Front)' <=> Good(Front)
    BY <1>1, <1>2 DEF Good, Encodable
  <2>2. CASE FeedFailed
    BY <1>1, <1>2, <2>1, <2>2 DEF FeedFailed, RefusesForCause
  <2>3. CASE \E n \in Nat : FeedOverrun(n)
    BY <1>1, <1>2, <2>1, <2>3 DEF FeedOverrun, RefusesForCause
  <2>4. CASE UNCHANGED streamVars
    BY <1>1, <1>2, <2>1, <2>4 DEF streamVars, RefusesForCause
  <2> QED BY <2>2, <2>3, <2>4
<1> QED BY <1>3, <1>4, <1>5 DEF StreamInductive

\* However a transmission is cut into chunks, the frames handed over are the
\* first of those sent, all good, and only a frame that is not good, or a chunk
\* without room, fails the stream (rsm_link_stream.c, rsm_link_frame.c).
THEOREM StreamIsFaithful == StreamSpec => []StreamFaithful
<1>1. StreamInit => StreamInductive
  <2> SUFFICES ASSUME StreamInit PROVE StreamInductive
    OBVIOUS
  <2>1. streamCapacity \in Nat
    BY LinkStreamAssumption DEF StreamInit
  <2> QED BY <2>1, FreshStream DEF StreamInit
<1>2. StreamInductive /\ [StreamNext]_streamVars => StreamInductive'
  <2> SUFFICES ASSUME StreamInductive, [StreamNext]_streamVars PROVE StreamInductive'
    OBVIOUS
  <2>1. Transmitted \in Nat /\ fed \in Nat
    BY SentTypes DEF StreamInductive, StreamTypes
  <2>2. ASSUME NEW n \in 0..(Transmitted - fed), Feed(n) PROVE StreamInductive'
    <3>1. n \in Nat
      BY <2>1
    <3> QED BY <2>2, <3>1, StoresKeeps, RefusalKeeps DEF Feed
  <2>3. CASE Consume
    BY <2>3, ConsumeKeeps
  <2>4. ASSUME NEW t \in Transmissions, StreamReset(t) PROVE StreamInductive'
    <3>1. streamCapacity' \in Nat
      BY <2>4 DEF StreamReset, StreamInductive, StreamTypes
    <3> QED BY <2>4, <3>1, FreshStreamAfter DEF StreamReset, Garbage
  <2>5. CASE UNCHANGED streamVars
    BY <2>5, RefusalKeeps
  <2> QED BY <2>2, <2>3, <2>4, <2>5 DEF StreamNext
<1>3. StreamInductive => StreamFaithful
  BY DEF StreamInductive, StreamFaithful
<1> QED BY <1>1, <1>2, <1>3, PTL DEF StreamSpec

-----------------------------------------------------------------------------
(* The client.                                                             *)

CallStates == {"idle", "draining", "waiting", "returned", "raised"}
AnswerKinds == {"OK", "ERROR", "garbled"}
NodeFrames == [kind : AnswerKinds, id : Nat, to : LinkCalls]
NodeSends == NodeFrames \cup [kind : Ends, id : {0}]

ClientTypes ==
  /\ call \in [LinkCalls -> CallStates] /\ idOf \in [LinkCalls -> Nat] /\ nextId \in Nat
  /\ answer = [r \in LinkCalls |-> answer[r]]
  /\ pendingIds = [id \in DOMAIN pendingIds |-> pendingIds[id]]
  /\ incoming \in Seq(NodeSends) /\ asked \subseteq LinkCalls

\* What is under way has begun and keeps its id, and no two requests in
\* progress have the same.
IdsApart ==
  /\ \A r \in asked : call[r] # "idle"
  /\ \A r, s \in LinkCalls :
       call[r] \in InProgress /\ call[s] \in InProgress /\ idOf[r] = idOf[s] => r = s

\* An answer that is due, or on its way in queue, is for the request that its
\* id finds, if it finds one.
Due(queue) ==
  /\ \A r \in asked : idOf[r] \in DOMAIN pendingIds => pendingIds[idOf[r]] = r
  /\ \A k \in DOMAIN queue : queue[k].kind \in AnswerKinds =>
       /\ call[queue[k].to] # "idle" /\ queue[k].id = idOf[queue[k].to]
       /\ queue[k].id \in DOMAIN pendingIds => pendingIds[queue[k].id] = queue[k].to

ClientInv == ClientTypes /\ IdsApart /\ Due(incoming) /\ AnswersFindRequests

LEMMA ItemOf ==
  ASSUME NEW queue \in Seq(NodeSends), NEW k \in DOMAIN queue
  PROVE  /\ queue[k] \in NodeSends
         /\ queue[k].kind \in AnswerKinds => queue[k].to \in LinkCalls
<1>1. queue[k] \in NodeSends  BY ElementOfSeq, LenProperties
<1>2. CASE queue[k] \in NodeFrames  BY <1>1, <1>2 DEF NodeFrames
<1>3. CASE queue[k] \in [kind : Ends, id : {0}]
  <2>1. queue[k].kind \in Ends  BY <1>3
  <2> QED  BY <1>1, <2>1 DEF Ends, AnswerKinds
<1> QED  BY <1>1, <1>2, <1>3 DEF NodeSends

LEMMA ClientStarts == ASSUME LinkClientAssumption, ClientInit PROVE ClientInv
<1>1. incoming \in Seq(NodeSends) /\ DOMAIN incoming = {}  BY DEF ClientInit
<1>2. DOMAIN pendingIds = {} /\ pendingIds = [id \in DOMAIN pendingIds |-> pendingIds[id]]  BY DEF ClientInit
<1>3. ClientTypes  BY <1>1, <1>2 DEF ClientInit, ClientTypes, CallStates
<1>4. IdsApart /\ Due(incoming)  BY <1>1, <1>2 DEF ClientInit, IdsApart, Due, InProgress
<1>5. AnswersFindRequests  BY DEF ClientInit, AnswersFindRequests, InProgress, Undone
<1> QED  BY <1>3, <1>4, <1>5 DEF ClientInv

LEMMA SendKeeps == ASSUME ClientInv, NEW r \in LinkCalls, Send(r) PROVE ClientInv'
<1>1. /\ call[r] = "idle" /\ Forgotten(nextId) /\ idOf' = [idOf EXCEPT ![r] = nextId]
      /\ nextId' = IdAfter(nextId) /\ call' = [call EXCEPT ![r] = "draining"]
      /\ pendingIds' = [id \in DOMAIN pendingIds \cup {nextId} |->
                          IF id = nextId THEN r ELSE pendingIds[id]]
      /\ asked' \subseteq asked \cup {r} /\ UNCHANGED <<answer, receiver, incoming>>
  BY DEF Send
<1>2. ClientTypes  BY DEF ClientInv
<1>3. ClientTypes'
  <2>1. call' \in [LinkCalls -> CallStates] /\ idOf' \in [LinkCalls -> Nat]
    BY <1>1, <1>2 DEF ClientTypes, CallStates
  <2>2. nextId' \in Nat  BY <1>1, <1>2 DEF ClientTypes, IdAfter
  <2>3. pendingIds' = [id \in DOMAIN pendingIds' |-> pendingIds'[id]]  BY <1>1
  <2> QED  BY <1>1, <1>2, <2>1, <2>2, <2>3 DEF ClientTypes
<1>4. \A s \in LinkCalls : s # r => call'[s] = call[s] /\ idOf'[s] = idOf[s]
  BY <1>1, <1>2 DEF ClientTypes
<1>5. call'[r] = "draining" /\ idOf'[r] = nextId  BY <1>1, <1>2 DEF ClientTypes
<1>6. /\ \A s \in LinkCalls : idOf[s] = nextId => call[s] \notin InProgress /\ s \notin asked
      /\ \A k \in DOMAIN incoming : incoming[k].id # nextId
      /\ nextId \notin DOMAIN pendingIds
  BY <1>1 DEF Forgotten
<1>7. IdsApart'
  <2>1. ASSUME NEW s \in asked' PROVE call'[s] # "idle"
    BY <1>1, <1>2, <1>4, <1>5 DEF ClientInv, IdsApart, ClientTypes
  <2>2. ASSUME NEW s \in LinkCalls, NEW u \in LinkCalls,
               call'[s] \in InProgress, call'[u] \in InProgress, idOf'[s] = idOf'[u]
        PROVE  s = u
    BY <1>4, <1>5, <1>6, <2>2 DEF ClientInv, IdsApart
  <2> QED  BY <2>1, <2>2 DEF IdsApart
<1>8. \A id : id # nextId => (id \in DOMAIN pendingIds' <=> id \in DOMAIN pendingIds)
                             /\ (id \in DOMAIN pendingIds => pendingIds'[id] = pendingIds[id])
  BY <1>1
<1>9. nextId \in DOMAIN pendingIds' /\ pendingIds'[nextId] = r  BY <1>1
<1>10. Due(incoming)'
  <2>1. ASSUME NEW s \in asked', idOf'[s] \in DOMAIN pendingIds' PROVE pendingIds'[idOf'[s]] = s
    <3>1. CASE s = r  BY <1>5, <1>9, <3>1
    <3>2. CASE s # r
      <4>1. s \in asked /\ s \in LinkCalls  BY <1>1, <1>2, <3>2 DEF ClientTypes
      <4>2. idOf'[s] = idOf[s] /\ idOf[s] # nextId  BY <1>4, <1>6, <3>2, <4>1
      <4> QED  BY <1>8, <2>1, <4>1, <4>2 DEF ClientInv, Due
    <3> QED  BY <3>1, <3>2
  <2>2. ASSUME NEW k \in DOMAIN incoming, incoming[k].kind \in AnswerKinds
        PROVE  /\ call'[incoming[k].to] # "idle" /\ incoming[k].id = idOf'[incoming[k].to]
               /\ incoming[k].id \in DOMAIN pendingIds' => pendingIds'[incoming[k].id] = incoming[k].to
    <3>1. incoming[k].to \in LinkCalls
      BY <1>2, <2>2, ItemOf DEF ClientTypes
    <3>2. /\ call[incoming[k].to] # "idle" /\ incoming[k].id = idOf[incoming[k].to]
          /\ incoming[k].id \in DOMAIN pendingIds => pendingIds[incoming[k].id] = incoming[k].to
      BY <2>2 DEF ClientInv, Due
    <3>3. incoming[k].to # r /\ incoming[k].id # nextId  BY <1>1, <1>6, <3>2
    <3> QED  BY <1>4, <1>8, <3>1, <3>2, <3>3
  <2>3. incoming' = incoming  BY <1>1
  <2> QED  BY <2>1, <2>2, <2>3 DEF Due
<1>11. AnswersFindRequests'
  <2>1. ASSUME NEW s \in LinkCalls, receiver' = "running",
               call'[s] \in InProgress, answer'[s] = Undone
        PROVE  idOf'[s] \in DOMAIN pendingIds' /\ pendingIds'[idOf'[s]] = s
    <3>1. CASE s = r  BY <1>5, <1>9, <3>1
    <3>2. CASE s # r
      <4>1. idOf'[s] = idOf[s] /\ call[s] \in InProgress  BY <1>4, <2>1, <3>2
      <4>2. idOf[s] \in DOMAIN pendingIds /\ pendingIds[idOf[s]] = s
        BY <1>1, <2>1, <4>1 DEF ClientInv, AnswersFindRequests
      <4> QED  BY <1>6, <1>8, <4>1, <4>2
    <3> QED  BY <3>1, <3>2
  <2> QED  BY <1>1, <2>1 DEF ClientInv, AnswersFindRequests
<1> QED  BY <1>3, <1>7, <1>10, <1>11 DEF ClientInv

\* A request that ends, or waits, takes nothing from the others.
LEMMA EndKeeps ==
  ASSUME ClientInv, NEW r \in LinkCalls, call[r] \in InProgress,
         NEW how \in CallStates, how # "idle", how # "draining", call' = [call EXCEPT ![r] = how],
         \/ how = "waiting" /\ answer' = answer
         \/ how # "waiting" /\ (answer' = answer \/ answer' = [answer EXCEPT ![r] = Gone]),
         pendingIds' = pendingIds \/ (how # "waiting" /\ pendingIds' = Without(pendingIds, idOf[r])),
         UNCHANGED <<idOf, nextId, receiver, asked, incoming>>
  PROVE  ClientInv'
<1>1. ClientTypes  BY DEF ClientInv
<1>2. /\ call' \in [LinkCalls -> CallStates] /\ call'[r] = how
      /\ \A s \in LinkCalls : s # r => call'[s] = call[s] /\ answer'[s] = answer[s]
  BY <1>1 DEF ClientTypes, CallStates
<1>3. answer'[r] = answer[r] \/ (how # "waiting" /\ answer'[r] = Gone)
  BY <1>1 DEF ClientTypes
<1>4. answer' = [s \in LinkCalls |-> answer'[s]]  BY <1>1 DEF ClientTypes
<1>5. /\ DOMAIN pendingIds' \subseteq DOMAIN pendingIds
      /\ \A id \in DOMAIN pendingIds' : pendingIds'[id] = pendingIds[id]
      /\ pendingIds' = [id \in DOMAIN pendingIds' |-> pendingIds'[id]]
      /\ \A id \in DOMAIN pendingIds : id \in DOMAIN pendingIds' \/ (how # "waiting" /\ id = idOf[r])
  BY <1>1 DEF ClientTypes, Without
<1>6. ClientTypes'  BY <1>1, <1>2, <1>4, <1>5 DEF ClientTypes
<1>7. call[r] # "idle" /\ (how # "waiting" => how \notin InProgress)  BY DEF InProgress, CallStates
<1>8. \A s \in LinkCalls : /\ call'[s] \in InProgress => call[s] \in InProgress
                           /\ call[s] # "idle" => call'[s] # "idle"
  BY <1>2, <1>7
<1>9. IdsApart'  BY <1>1, <1>8 DEF ClientInv, IdsApart, ClientTypes
<1>10. Due(incoming)'
  <2>1. ASSUME NEW s \in asked, idOf[s] \in DOMAIN pendingIds' PROVE pendingIds'[idOf[s]] = s
    BY <1>5, <2>1 DEF ClientInv, Due
  <2>2. ASSUME NEW k \in DOMAIN incoming, incoming[k].kind \in AnswerKinds
        PROVE  /\ call'[incoming[k].to] # "idle" /\ incoming[k].id = idOf[incoming[k].to]
               /\ incoming[k].id \in DOMAIN pendingIds' => pendingIds'[incoming[k].id] = incoming[k].to
    <3>1. incoming[k].to \in LinkCalls
      BY <1>1, <2>2, ItemOf DEF ClientTypes
    <3>2. /\ call[incoming[k].to] # "idle" /\ incoming[k].id = idOf[incoming[k].to]
          /\ incoming[k].id \in DOMAIN pendingIds => pendingIds[incoming[k].id] = incoming[k].to
      BY <2>2 DEF ClientInv, Due
    <3> QED  BY <1>5, <1>8, <3>1, <3>2
  <2> QED  BY <2>1, <2>2 DEF Due
<1>11. AnswersFindRequests'
  <2>1. ASSUME NEW s \in LinkCalls, answer'[s].kind \in {"OK", "ERROR"} PROVE answer'[s].to = s
    <3>1. answer'[s] # Gone  BY <2>1 DEF Gone
    <3> QED  BY <1>2, <1>3, <2>1, <3>1 DEF ClientInv, AnswersFindRequests
  <2>2. ASSUME NEW s \in LinkCalls, receiver' = "running",
               call'[s] \in InProgress, answer'[s] = Undone
        PROVE  idOf'[s] \in DOMAIN pendingIds' /\ pendingIds'[idOf'[s]] = s
    <3>1. call[s] \in InProgress  BY <1>8, <2>2
    <3>2. answer[s] = Undone
      <4>1. Gone # Undone
        <5>1. Gone.kind = "gone" /\ Undone.kind = "undone"  BY DEF Gone, Undone
        <5> QED  BY <5>1
      <4> QED  BY <1>2, <1>3, <2>2, <4>1
    <3>3. idOf[s] \in DOMAIN pendingIds /\ pendingIds[idOf[s]] = s
      BY <2>2, <3>1, <3>2 DEF ClientInv, AnswersFindRequests
    <3>4. s # r \/ how = "waiting"  BY <1>2, <1>7, <2>2
    <3>5. idOf[s] # idOf[r] \/ how = "waiting"  BY <3>1, <3>4 DEF ClientInv, IdsApart
    <3> QED  BY <1>5, <3>3, <3>5
  <2> QED  BY <2>1, <2>2 DEF AnswersFindRequests
<1> QED  BY <1>6, <1>9, <1>10, <1>11 DEF ClientInv

\* What has been read is gone; the rest of queue is still on its way.
LEMMA RestOf ==
  ASSUME NEW queue \in Seq(NodeSends), NEW n \in 1..Len(queue)
  PROVE  LET rest == SubSeq(queue, n + 1, Len(queue))
         IN /\ rest \in Seq(NodeSends)
            /\ \A k \in DOMAIN rest : \E j \in DOMAIN queue : rest[k] = queue[j]
<1> DEFINE rest == SubSeq(queue, n + 1, Len(queue))
<1>1. /\ Len(queue) \in Nat /\ DOMAIN queue = 1..Len(queue) /\ n + 1 \in Int /\ Len(queue) \in Int
      /\ \A k \in 1..Len(queue) : queue[k] \in NodeSends
  BY LenProperties, ElementOfSeq
<1>2. \A k \in (n + 1)..Len(queue) : queue[k] \in NodeSends  BY <1>1
<1>3. /\ rest \in Seq(NodeSends)
      /\ Len(rest) = IF n + 1 <= Len(queue) THEN Len(queue) - (n + 1) + 1 ELSE 0
      /\ \A k \in 1..(Len(queue) - (n + 1) + 1) : rest[k] = queue[n + 1 + k - 1]
  BY <1>1, <1>2, SubSeqProperties
<1> HIDE DEF rest
<1>4. ASSUME NEW k \in DOMAIN rest PROVE \E j \in DOMAIN queue : rest[k] = queue[j]
  <2>1. k \in 1..Len(rest)  BY <1>3, LenProperties
  <2>2. n + 1 <= Len(queue) /\ Len(rest) = Len(queue) - (n + 1) + 1
    <3>1. CASE n + 1 <= Len(queue)  BY <1>3, <3>1
    <3>2. CASE ~(n + 1 <= Len(queue))
      <4>1. Len(rest) = 0  BY <1>3, <3>2
      <4> QED  BY <2>1, <4>1
    <3> QED  BY <3>1, <3>2
  <2>3. k \in 1..(Len(queue) - (n + 1) + 1) /\ n + 1 + k - 1 \in 1..Len(queue)
    BY <1>1, <2>1, <2>2
  <2> QED  BY <1>1, <1>3, <2>3
<1> QED  BY <1>3, <1>4 DEF rest

LEMMA FirstOf ==
  ASSUME NEW queue \in Seq(NodeSends), NEW n \in 1..Len(queue)
  PROVE  LET first == SubSeq(queue, 1, n)
         IN /\ first \in Seq(NodeSends)
            /\ \A k \in DOMAIN first : \E j \in DOMAIN queue : first[k] = queue[j]
<1> DEFINE first == SubSeq(queue, 1, n)
<1>1. /\ Len(queue) \in Nat /\ DOMAIN queue = 1..Len(queue) /\ 1 \in Int /\ n \in Int
      /\ \A k \in 1..Len(queue) : queue[k] \in NodeSends
  BY LenProperties, ElementOfSeq
<1>2. \A k \in 1..n : queue[k] \in NodeSends  BY <1>1
<1>3. /\ first \in Seq(NodeSends)
      /\ Len(first) = IF 1 <= n THEN n - 1 + 1 ELSE 0
      /\ \A k \in 1..(n - 1 + 1) : first[k] = queue[1 + k - 1]
  BY <1>1, <1>2, SubSeqProperties
<1> HIDE DEF first
<1>4. ASSUME NEW k \in DOMAIN first PROVE \E j \in DOMAIN queue : first[k] = queue[j]
  <2>1. DOMAIN first = 1..Len(first)  BY <1>3, LenProperties
  <2>2. k \in 1..(n - 1 + 1) /\ 1 + k - 1 \in 1..Len(queue)
    BY <1>1, <1>3, <2>1
  <2> QED  BY <1>1, <1>3, <2>2
<1> QED  BY <1>3, <1>4 DEF first

\* Of a chunk, an answer is told to the request it is for, and a request whose
\* answer was delivered is told one.
LEMMA ChunkTold ==
  ASSUME ClientInv, NEW chunk \in Seq(NodeSends), FramesOnly(chunk), Due(chunk),
         NEW r \in LinkCalls
  PROVE  /\ AnswersAfter(chunk, r).kind \in {"OK", "ERROR"} => AnswersAfter(chunk, r).to = r
         /\ AnswersAfter(chunk, r) = Undone =>
              /\ answer[r] = Undone
              /\ \A k \in Delivered(chunk) :
                   chunk[k].id \in DOMAIN pendingIds => pendingIds[chunk[k].id] # r
<1>1. ASSUME NEW k \in DOMAIN chunk
      PROVE  /\ chunk[k] \in NodeFrames /\ chunk[k].kind \in AnswerKinds
             /\ chunk[k].id \in DOMAIN pendingIds => pendingIds[chunk[k].id] = chunk[k].to
  <2>1. chunk[k] \in NodeSends /\ chunk[k].kind \notin Ends  BY ItemOf DEF FramesOnly
  <2>2. chunk[k] \in NodeFrames  BY <2>1 DEF NodeSends
  <2>3. chunk[k].kind \in AnswerKinds  BY <2>2 DEF NodeFrames
  <2> QED  BY <2>2, <2>3 DEF Due
<1>2. \A k \in Delivered(chunk) : k \in DOMAIN chunk  BY DEF Delivered
<1>3. CASE Told(chunk, r) # {}
  <2>1. PICK k \in Told(chunk, r) : AnswersAfter(chunk, r) = [kind |-> chunk[k].kind, to |-> chunk[k].to]
    BY <1>3 DEF AnswersAfter
  <2>2. k \in Delivered(chunk) /\ Expected(chunk[k]) /\ pendingIds[chunk[k].id] = r
    BY <2>1 DEF Told
  <2>3. chunk[k].kind \in AnswerKinds /\ chunk[k].to = r
    BY <1>1, <1>2, <2>2 DEF Expected
  <2>4. AnswersAfter(chunk, r).to = r /\ AnswersAfter(chunk, r).kind \in AnswerKinds
    BY <2>1, <2>3
  <2>5. AnswersAfter(chunk, r) # Undone  BY <2>4 DEF AnswerKinds, Undone
  <2> QED  BY <2>4, <2>5
<1>4. CASE Told(chunk, r) = {}
  <2>1. AnswersAfter(chunk, r) = answer[r]  BY <1>4 DEF AnswersAfter
  <2>2. ASSUME answer[r] = Undone, NEW k \in Delivered(chunk),
               chunk[k].id \in DOMAIN pendingIds, pendingIds[chunk[k].id] = r
        PROVE  FALSE
    <3>1. Expected(chunk[k])  BY <2>2 DEF Expected
    <3> QED  BY <1>4, <2>2, <3>1 DEF Told
  <2> QED  BY <2>1, <2>2 DEF ClientInv, AnswersFindRequests
<1> QED  BY <1>3, <1>4

\* The receiver takes a chunk: the futures hold the answers of it, or of none,
\* or an exception, and what is pending is fewer.
LEMMA ReceptionKeeps ==
  ASSUME ClientInv, NEW chunk \in Seq(NodeSends), FramesOnly(chunk), Due(chunk),
         answer' = [r \in LinkCalls |-> answer'[r]],
         \A r \in LinkCalls : answer'[r] = AnswersAfter(chunk, r) \/ answer'[r] = Exception,
         pendingIds' = [id \in DOMAIN pendingIds' |-> pendingIds'[id]],
         DOMAIN pendingIds' \subseteq DOMAIN pendingIds,
         \A id \in DOMAIN pendingIds' : pendingIds'[id] = pendingIds[id],
         \/ receiver' # "running"
         \/ receiver = "running" /\ DOMAIN pendingIds' = DOMAIN pendingIds \ {chunk[k].id : k \in Delivered(chunk)},
         NEW n \in 1..Len(incoming), incoming' = SubSeq(incoming, n + 1, Len(incoming)),
         UNCHANGED <<nextId, idOf, call, asked>>
  PROVE  ClientInv'
<1>1. ClientTypes  BY DEF ClientInv
<1>2. /\ incoming' \in Seq(NodeSends)
      /\ \A k \in DOMAIN incoming' : \E j \in DOMAIN incoming : incoming'[k] = incoming[j]
  <2>1. incoming \in Seq(NodeSends)  BY <1>1 DEF ClientTypes
  <2> QED  BY <2>1, RestOf
<1>3. ClientTypes'  BY <1>1, <1>2 DEF ClientTypes
<1>4. IdsApart'  BY DEF ClientInv, IdsApart
<1>5. Due(incoming)'
  <2>1. ASSUME NEW k \in DOMAIN incoming', incoming'[k].kind \in AnswerKinds
        PROVE  /\ call[incoming'[k].to] # "idle" /\ incoming'[k].id = idOf[incoming'[k].to]
               /\ incoming'[k].id \in DOMAIN pendingIds' => pendingIds'[incoming'[k].id] = incoming'[k].to
    <3>1. PICK j \in DOMAIN incoming : incoming'[k] = incoming[j]  BY <1>2
    <3>2. /\ call[incoming[j].to] # "idle" /\ incoming[j].id = idOf[incoming[j].to]
          /\ incoming[j].id \in DOMAIN pendingIds => pendingIds[incoming[j].id] = incoming[j].to
      BY <2>1, <3>1 DEF ClientInv, Due
    <3> QED  BY <3>1, <3>2
  <2>2. \A r \in asked : idOf[r] \in DOMAIN pendingIds' => pendingIds'[idOf[r]] = r
    BY DEF ClientInv, Due
  <2> QED  BY <2>1, <2>2 DEF Due
<1>6. AnswersFindRequests'
  <2>1. ASSUME NEW r \in LinkCalls, answer'[r].kind \in {"OK", "ERROR"} PROVE answer'[r].to = r
    <3>1. answer'[r] # Exception  BY <2>1 DEF Exception
    <3> QED  BY <2>1, <3>1, ChunkTold
  <2>2. ASSUME NEW r \in LinkCalls, receiver' = "running", call[r] \in InProgress, answer'[r] = Undone
        PROVE  idOf[r] \in DOMAIN pendingIds' /\ pendingIds'[idOf[r]] = r
    <3>1. Exception # Undone
      <4>1. Exception.kind = "exception" /\ Undone.kind = "undone"  BY DEF Exception, Undone
      <4> QED  BY <4>1
    <3>2. /\ answer[r] = Undone
          /\ \A k \in Delivered(chunk) :
               chunk[k].id \in DOMAIN pendingIds => pendingIds[chunk[k].id] # r
      BY <2>2, <3>1, ChunkTold
    <3>3. idOf[r] \in DOMAIN pendingIds /\ pendingIds[idOf[r]] = r
      BY <2>2, <3>2 DEF ClientInv, AnswersFindRequests
    <3> QED  BY <2>2, <3>2, <3>3
  <2> QED  BY <2>1, <2>2 DEF AnswersFindRequests
<1> QED  BY <1>3, <1>4, <1>5, <1>6 DEF ClientInv

\* No chunk, or one that was not delivered.
LEMMA Nothing ==
  ASSUME ClientInv
  PROVE  /\ <<>> \in Seq(NodeSends) /\ FramesOnly(<<>>) /\ Due(<<>>)
         /\ \A r \in LinkCalls : AnswersAfter(<<>>, r) = answer[r]
<1>1. <<>> \in Seq(NodeSends) /\ DOMAIN <<>> = {}  OBVIOUS
<1>2. FramesOnly(<<>>)  BY <1>1 DEF FramesOnly
<1>3. Due(<<>>)  BY <1>1 DEF ClientInv, Due
<1>4. \A r \in LinkCalls : Told(<<>>, r) = {}  BY <1>1 DEF Told, Delivered
<1> QED  BY <1>1, <1>2, <1>3, <1>4 DEF AnswersAfter

\* The chunk's frames are due as they were on their way.
LEMMA ChunkDue ==
  ASSUME ClientInv, NEW n \in 1..Len(incoming)
  PROVE  First(n) \in Seq(NodeSends) /\ Due(First(n))
<1>1. /\ First(n) \in Seq(NodeSends)
      /\ \A k \in DOMAIN First(n) : \E j \in DOMAIN incoming : First(n)[k] = incoming[j]
  BY FirstOf DEF ClientInv, ClientTypes, First
<1>2. ASSUME NEW k \in DOMAIN First(n), First(n)[k].kind \in AnswerKinds
      PROVE  /\ call[First(n)[k].to] # "idle" /\ First(n)[k].id = idOf[First(n)[k].to]
             /\ First(n)[k].id \in DOMAIN pendingIds => pendingIds[First(n)[k].id] = First(n)[k].to
  <2>1. PICK j \in DOMAIN incoming : First(n)[k] = incoming[j]  BY <1>1
  <2>2. /\ call[incoming[j].to] # "idle" /\ incoming[j].id = idOf[incoming[j].to]
        /\ incoming[j].id \in DOMAIN pendingIds => pendingIds[incoming[j].id] = incoming[j].to
    BY <1>2, <2>1 DEF ClientInv, Due
  <2> QED  BY <2>1, <2>2
<1> QED  BY <1>1, <1>2 DEF ClientInv, Due

LEMMA ReceiverKeeps == ASSUME ClientInv, ReceiverSteps PROVE ClientInv'
<1>1. ClientTypes  BY DEF ClientInv
<1>2. Len(incoming) \in Nat  BY <1>1, LenProperties DEF ClientTypes
<1>3. DOMAIN <<>> = {}  OBVIOUS
<1>4. ASSUME NEW n \in 1..Len(incoming), ReceiveFrames(n) PROVE ClientInv'
  <2>1. /\ receiver = "running" /\ FramesOnly(First(n)) /\ Faulty(First(n)) = {}
        /\ answer' = [r \in LinkCalls |-> AnswersAfter(First(n), r)]
        /\ pendingIds' = [id \in DOMAIN pendingIds \ Popped(First(n)) |-> pendingIds[id]]
        /\ incoming' = SubSeq(incoming, n + 1, Len(incoming))
        /\ UNCHANGED <<nextId, idOf, call, asked>>
    BY <1>4 DEF ReceiveFrames, Rest
  <2>2. Popped(First(n)) = {First(n)[k].id : k \in Delivered(First(n))}  BY <2>1 DEF Popped
  <2>3. First(n) \in Seq(NodeSends) /\ Due(First(n))  BY ChunkDue
  <2>4. answer' = [r \in LinkCalls |-> answer'[r]] /\ \A r \in LinkCalls : answer'[r] = AnswersAfter(First(n), r)
    BY <2>1
  <2>5. /\ pendingIds' = [id \in DOMAIN pendingIds' |-> pendingIds'[id]]
        /\ DOMAIN pendingIds' = DOMAIN pendingIds \ {First(n)[k].id : k \in Delivered(First(n))}
        /\ \A id \in DOMAIN pendingIds' : pendingIds'[id] = pendingIds[id]
    BY <2>1, <2>2
  <2> QED  BY <2>1, <2>3, <2>4, <2>5, ReceptionKeeps
<1>5. ASSUME NEW n \in 1..Len(incoming), NEW chunk \in Seq(NodeSends), FramesOnly(chunk), Due(chunk),
             NEW how, how # "running", ReceiverEnds(how), incoming' = SubSeq(incoming, n + 1, Len(incoming)),
             FailReceiver(chunk) \/ (chunk = <<>> /\ UNCHANGED answer)
      PROVE  ClientInv'
  <2>1. receiver' # "running" /\ pendingIds' = <<>> /\ UNCHANGED <<nextId, idOf, call, asked>>
    BY <1>5 DEF ReceiverEnds
  <2>2. /\ DOMAIN pendingIds' = {}
        /\ pendingIds' = [id \in DOMAIN pendingIds' |-> pendingIds'[id]]
    BY <1>3, <2>1
  <2>3. /\ answer' = [r \in LinkCalls |-> answer'[r]]
        /\ \A r \in LinkCalls : answer'[r] = AnswersAfter(chunk, r) \/ answer'[r] = Exception
    <3>1. CASE FailReceiver(chunk)  BY <3>1 DEF FailReceiver
    <3>2. CASE chunk = <<>> /\ UNCHANGED answer  BY <1>1, <3>2, Nothing DEF ClientTypes
    <3> QED  BY <1>5, <3>1, <3>2
  <2> QED  BY <1>5, <2>1, <2>2, <2>3, ReceptionKeeps
<1>6. ASSUME NEW n \in 1..Len(incoming), ReceiveGarbled(n) PROVE ClientInv'
  <2>1. First(n) \in Seq(NodeSends) /\ Due(First(n))  BY ChunkDue
  <2> QED  BY <1>5, <1>6, <2>1 DEF ReceiveGarbled, Rest
<1>7. ASSUME NEW n \in 1..Len(incoming), ReceiveMalformed(n) PROVE ClientInv'
  BY <1>5, <1>7, Nothing DEF ReceiveMalformed, Rest
<1>8. CASE ReceiveEnd
  <2>1. 1 \in 1..Len(incoming) /\ Tail(incoming) = SubSeq(incoming, 1 + 1, Len(incoming))
    <3>1. incoming # <<>> /\ incoming \in Seq(NodeSends)  BY <1>1, <1>8 DEF ReceiveEnd, ClientTypes
    <3>2. Tail(incoming) = SubSeq(incoming, 2, Len(incoming))  BY <3>1, TailIsSubSeq
    <3>3. Len(incoming) # 0  BY <3>1, EmptySeq
    <3> QED  BY <1>2, <3>2, <3>3
  <2> QED  BY <1>5, <1>8, <2>1, Nothing DEF ReceiveEnd
<1> QED  BY <1>4, <1>6, <1>7, <1>8 DEF ReceiverSteps

LEMMA NodeKeeps ==
  ASSUME ClientInv, NEW f \in NodeSends, incoming' = Append(incoming, f), asked' \subseteq asked,
         f.kind \in AnswerKinds => f.to \in asked /\ f.id = idOf[f.to],
         UNCHANGED <<nextId, pendingIds, idOf, call, answer, receiver>>
  PROVE  ClientInv'
<1>1. ClientTypes  BY DEF ClientInv
<1>2. Len(incoming) \in Nat /\ DOMAIN incoming = 1..Len(incoming)  BY <1>1, LenProperties DEF ClientTypes
<1>3. /\ incoming' \in Seq(NodeSends) /\ Len(incoming') = Len(incoming) + 1
      /\ incoming'[Len(incoming) + 1] = f
      /\ \A k \in 1..Len(incoming) : incoming'[k] = incoming[k]
  BY <1>1, AppendProperties DEF ClientTypes
<1>4. DOMAIN incoming' = 1..(Len(incoming) + 1)  BY <1>3, LenProperties
<1>5. ClientTypes'  BY <1>1, <1>3 DEF ClientTypes
<1>6. IdsApart'  BY DEF ClientInv, IdsApart
<1>7. Due(incoming)'
  <2>1. ASSUME NEW k \in DOMAIN incoming', incoming'[k].kind \in AnswerKinds
        PROVE  /\ call[incoming'[k].to] # "idle" /\ incoming'[k].id = idOf[incoming'[k].to]
               /\ incoming'[k].id \in DOMAIN pendingIds => pendingIds[incoming'[k].id] = incoming'[k].to
    <3>1. CASE k = Len(incoming) + 1
      BY <1>3, <2>1, <3>1 DEF ClientInv, IdsApart, Due
    <3>2. CASE k # Len(incoming) + 1
      <4>1. k \in DOMAIN incoming /\ incoming'[k] = incoming[k]  BY <1>2, <1>3, <1>4, <3>2
      <4> QED  BY <2>1, <4>1 DEF ClientInv, Due
    <3> QED  BY <3>1, <3>2
  <2> QED  BY <2>1 DEF ClientInv, Due
<1>8. AnswersFindRequests'  BY DEF ClientInv, AnswersFindRequests
<1> QED  BY <1>5, <1>6, <1>7, <1>8 DEF ClientInv

LEMMA ClientStep == ASSUME ClientInv, [ClientNext]_linkVars PROVE ClientInv'
<1>1. ClientTypes  BY DEF ClientInv
<1>2. ASSUME NEW r \in LinkCalls, RequestSteps(r) PROVE ClientInv'
  <2>1. CASE Send(r)  BY <2>1, SendKeeps
  <2>2. CASE Drained(r)
    BY <2>2, EndKeeps DEF Drained, InProgress, CallStates
  <2>3. CASE DrainRaises(r)
    BY <2>3, EndKeeps DEF DrainRaises, EndCall, InProgress, CallStates
  <2>4. CASE Finish(r)
    <3>1. Outcome(r) \in {"returned", "raised"}  BY DEF Outcome
    <3> QED  BY <2>4, <3>1, EndKeeps DEF Finish, EndCall, InProgress, CallStates
  <2>5. CASE RequestTimeout(r)
    BY <2>5, EndKeeps DEF RequestTimeout, EndCall, InProgress, CallStates
  <2>6. CASE CancelRequest(r)
    BY <2>6, EndKeeps DEF CancelRequest, EndCall, InProgress, CallStates
  <2> QED  BY <1>2, <2>1, <2>2, <2>3, <2>4, <2>5, <2>6 DEF RequestSteps
<1>3. CASE ReceiverSteps  BY <1>3, ReceiverKeeps
<1>4. ASSUME NEW r \in LinkCalls, NEW kind \in AnswerKinds, NodeAnswers(r, kind) PROVE ClientInv'
  <2> DEFINE f == [kind |-> kind, id |-> idOf[r], to |-> r]
  <2>1. f \in NodeSends /\ f.to = r /\ f.id = idOf[f.to]  BY <1>1 DEF ClientTypes, NodeSends, NodeFrames
  <2>2. r \in asked /\ asked' \subseteq asked /\ incoming' = Append(incoming, f)
        /\ UNCHANGED <<nextId, pendingIds, idOf, call, answer, receiver>>
    BY <1>4 DEF NodeAnswers
  <2> HIDE DEF f
  <2> QED  BY <2>1, <2>2, NodeKeeps
<1>5. ASSUME NEW kind \in Ends, NodeEnds(kind) PROVE ClientInv'
  <2> DEFINE f == [kind |-> kind, id |-> 0]
  <2>1. f \in NodeSends /\ f.kind \notin AnswerKinds  BY DEF NodeSends, Ends, AnswerKinds
  <2>2. asked' = asked /\ incoming' = Append(incoming, f)
        /\ UNCHANGED <<nextId, pendingIds, idOf, call, answer, receiver>>
    BY <1>5 DEF NodeEnds
  <2> HIDE DEF f
  <2> QED  BY <2>1, <2>2, NodeKeeps
<1>6. CASE FinishClose
  <2>1. /\ receiver' # "running" /\ UNCHANGED <<nextId, idOf, call, answer, asked, incoming>>
        /\ pendingIds' = <<>> \/ pendingIds' = pendingIds
    BY <1>6 DEF FinishClose, Cancelled
  <2>2. DOMAIN <<>> = {} /\ <<>> = [id \in {} |-> <<>>[id]]  OBVIOUS
  <2>3. pendingIds' = [id \in DOMAIN pendingIds' |-> pendingIds'[id]]
    BY <1>1, <2>1, <2>2 DEF ClientTypes
  <2>4. ClientTypes'  BY <1>1, <2>1, <2>3 DEF ClientTypes
  <2>5. IdsApart'  BY <2>1 DEF ClientInv, IdsApart
  <2>6. Due(incoming)'  BY <2>1, <2>2 DEF ClientInv, Due
  <2>7. AnswersFindRequests'  BY <2>1 DEF ClientInv, AnswersFindRequests
  <2> QED  BY <2>4, <2>5, <2>6, <2>7 DEF ClientInv
<1>7. CASE StartClose \/ CloseFails \/ UNCHANGED linkVars
  <2>1. UNCHANGED <<nextId, pendingIds, idOf, call, answer, receiver, asked, incoming>>
    BY <1>7 DEF StartClose, CloseFails, linkVars
  <2>2. ClientTypes'  BY <1>1, <2>1 DEF ClientTypes
  <2>3. IdsApart'  BY <2>1 DEF ClientInv, IdsApart
  <2>4. Due(incoming)'  BY <2>1 DEF ClientInv, Due
  <2>5. AnswersFindRequests'  BY <2>1 DEF ClientInv, AnswersFindRequests
  <2> QED  BY <2>2, <2>3, <2>4, <2>5 DEF ClientInv
<1> QED  BY <1>2, <1>3, <1>4, <1>5, <1>6, <1>7 DEF ClientNext, AnswerKinds

\* However answers, timeouts, cancellations and chunks of one connection of
\* client.py interleave, for any number of requests and of ids: a request is
\* told only the answer to itself, and while the client receives, one that has
\* not been told is found by the id its answer will carry.
THEOREM RequestsGetTheirAnswers == ClientSpec => []AnswersFindRequests
<1>1. ClientInit => ClientInv  BY ClientStarts, LinkClientAssumption
<1>2. ClientInv /\ [ClientNext]_linkVars => ClientInv'  BY ClientStep
<1>3. ClientInv => AnswersFindRequests  BY DEF ClientInv
<1> QED  BY <1>1, <1>2, <1>3, PTL DEF ClientSpec
==============================================================================
