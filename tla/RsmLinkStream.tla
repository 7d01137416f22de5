---------------------------- MODULE RsmLinkStream ----------------------------
(***************************************************************************)
(* The frame decoder and the stream decoder of the C link library          *)
(* (protocol/c/src), fed with a transmission in chunks of any size.        *)
(*                                                                         *)
(* A frame is what the decoder can tell of it: whether its first eight     *)
(* bytes and its CRC are right, the payload length its header states and   *)
(* the bytes it really has.  The storage holds the last bytes that were    *)
(* fed, so its contents are given by their number.                         *)
(***************************************************************************)
EXTENDS Naturals, Sequences

CONSTANTS
  HeaderSize, MinFrameSize, MaxFrameSize,  \* 24, 28 and 2^20 in the code
  WordMod,           \* 2^32: the sum of a uint32_t and 28u wraps around
  StreamCapacities,  \* sizes of the storage that a caller may provide
  Transmissions      \* what a peer may send: [frames |-> ..., start |-> ...]

LinkFrame ==
  [starts : BOOLEAN, version : BOOLEAN, crc : BOOLEAN, length : 0..(WordMod - 1), bytes : Nat \ {0}]

\* The places where the frames start and the last one ends.  Only the last may
\* be cut short; a CRC is right only over the bytes that the header states.
TransmissionOK(t) ==
  /\ t.frames \in Seq(LinkFrame)
  /\ t.start \in [1..(Len(t.frames) + 1) -> Nat] /\ t.start[1] = 0
  /\ \A k \in 1..Len(t.frames) : t.start[k + 1] = t.start[k] + t.frames[k].bytes
  /\ \A j, k \in 1..(Len(t.frames) + 1) : j < k => t.start[j] < t.start[k]
  /\ \A k \in 1..Len(t.frames) :
       t.frames[k].crc =>
         \/ t.frames[k].bytes = MinFrameSize + t.frames[k].length
         \/ k = Len(t.frames) /\ t.frames[k].bytes < MinFrameSize + t.frames[k].length

ASSUME LinkStreamAssumption ==
  /\ HeaderSize \in Nat \ {0} /\ MinFrameSize \in Nat /\ MaxFrameSize \in Nat /\ WordMod \in Nat
  /\ HeaderSize < MinFrameSize /\ MinFrameSize <= MaxFrameSize /\ MaxFrameSize < WordMod
  /\ StreamCapacities \subseteq Nat
  /\ \A t \in Transmissions : TransmissionOK(t)

MaxPayloadSize == MaxFrameSize - MinFrameSize

VARIABLES
  streamCapacity, length, broken,  \* rsm_link_stream_t: capacity, length, failed
  sent,     \* the transmission being received
  fed,      \* its bytes that have been stored
  status,   \* what the last feed returned
  given,    \* the frame it returned, until the caller consumes it
  handled,  \* the frames consumed so far
  overrun   \* a chunk was larger than the room for it

streamVars == <<streamCapacity, length, broken, sent, fed, status, given, handled, overrun>>

-----------------------------------------------------------------------------
(* Frames.                                                                 *)

\* rsm_link_frame_encode
Encodable(payload, room) == payload <= MaxPayloadSize /\ MinFrameSize + payload <= room
Encoded(payload) ==
  [starts |-> TRUE, version |-> TRUE, crc |-> TRUE,
   length |-> payload, bytes |-> MinFrameSize + payload]

\* Mutant: any checksum will do.
DecodeUnchecked(f, n) ==
  IF n < MinFrameSize THEN "INCOMPLETE"
  ELSE IF ~f.starts THEN "BAD_FRAME"
  ELSE IF ~f.version THEN "VERSION"
  ELSE IF f.length > MaxPayloadSize \/ n # MinFrameSize + f.length THEN "BAD_FRAME"
  ELSE "OK"

\* rsm_link_frame_decode of n bytes, in the order of its tests.
Decode(f, n) ==
  IF n < MinFrameSize THEN "INCOMPLETE"
  ELSE IF ~f.starts THEN "BAD_FRAME"
  ELSE IF ~f.version THEN "VERSION"
  ELSE IF f.length > MaxPayloadSize \/ n # MinFrameSize + f.length THEN "BAD_FRAME"
  ELSE IF ~f.crc THEN "BAD_CRC"
  ELSE "OK"

\* A frame that a stream of this capacity must hand over.
Good(f) ==
  /\ f.starts /\ f.version /\ f.crc
  /\ f.bytes = MinFrameSize + f.length
  /\ Encodable(f.length, streamCapacity)

-----------------------------------------------------------------------------
(* The stream.                                                             *)

\* What is read at a place where no frame starts.
Garbage == [starts |-> FALSE, version |-> FALSE, crc |-> FALSE, length |-> 0, bytes |-> 0]

\* The frame in front of the storage: where its first byte was sent.
FrameAt(b) ==
  IF \E k \in DOMAIN sent.frames : sent.start[k] = b
  THEN sent.frames[CHOOSE k \in DOMAIN sent.frames : sent.start[k] = b]
  ELSE Garbage
Base == fed - length
Front == FrameAt(Base)
Total(f) == (MinFrameSize + f.length) % WordMod

Transmitted == sent.start[Len(sent.frames) + 1]

\* rsm_link_stream_init
StreamInit ==
  /\ streamCapacity \in StreamCapacities /\ sent \in Transmissions
  /\ length = 0 /\ broken = FALSE /\ fed = 0
  /\ status = "NONE" /\ given = Garbage /\ handled = <<>> /\ overrun = FALSE

\* rsm_link_stream_reset, for another connection and what its peer sends.
StreamReset(t) ==
  /\ length' = 0 /\ broken' = FALSE
  /\ sent' = t /\ fed' = 0 /\ status' = "NONE" /\ given' = Garbage
  /\ handled' = <<>> /\ overrun' = FALSE
  /\ UNCHANGED streamCapacity

\* rsm_link_stream_feed
FeedFailed ==
  /\ broken /\ status' = "BAD_FRAME"
  /\ UNCHANGED <<streamCapacity, length, broken, sent, fed, given, handled, overrun>>

FeedOverrun(n) ==
  /\ ~broken /\ n > streamCapacity - length
  /\ broken' = TRUE /\ status' = "LIMIT" /\ overrun' = TRUE
  /\ UNCHANGED <<streamCapacity, length, sent, fed, given, handled>>

Excessive(f) == Total(f) > streamCapacity \/ Total(f) > MaxFrameSize

\* What a feed answers with held bytes in the storage, f in front; the mutant
\* takes a frame for complete that lacks its checksum.
AnswerEarly(f, held) ==
  IF held < HeaderSize THEN "INCOMPLETE"
  ELSE IF Excessive(f) THEN "LIMIT"
  ELSE IF held < HeaderSize + f.length THEN "INCOMPLETE"
  ELSE Decode(f, Total(f))

Answer(f, held) ==
  IF held < HeaderSize THEN "INCOMPLETE"
  ELSE IF Excessive(f) THEN "LIMIT"
  ELSE IF held < Total(f) THEN "INCOMPLETE"
  ELSE Decode(f, Total(f))

\* What fails a stream: a length beyond the limits, or what decode refuses.
Fails(f, held) ==
  /\ held >= HeaderSize
  /\ \/ Excessive(f)
     \/ held >= Total(f) /\ Decode(f, Total(f)) # "OK"

FeedStores(n) ==
  /\ ~broken /\ n <= streamCapacity - length
  /\ length' = length + n /\ fed' = fed + n
  /\ status' = Answer(Front, length + n)
  /\ broken' = Fails(Front, length + n)
  /\ given' = IF status' = "OK" THEN Front ELSE given
  /\ UNCHANGED <<streamCapacity, sent, handled, overrun>>

Feed(n) == FeedFailed \/ FeedOverrun(n) \/ FeedStores(n)

\* Mutant: the checksum stays in the storage.
ConsumedPayload(f) == HeaderSize + f.length
Consumed(f) == MinFrameSize + f.length

\* rsm_link_stream_consume of the frame the last feed returned.
Consume ==
  /\ given # Garbage
  /\ length' = IF Consumed(given) <= length THEN length - Consumed(given) ELSE length
  /\ given' = Garbage
  /\ handled' = Append(handled, given)
  /\ UNCHANGED <<streamCapacity, broken, sent, fed, status, overrun>>

\* The caller may feed nothing, to ask for the next frame, and may reset when
\* the transmission is over.
StreamNext ==
  \/ \E n \in 0..(Transmitted - fed) : Feed(n)
  \/ Consume
  \/ \E t \in Transmissions : (broken \/ fed = Transmitted) /\ StreamReset(t)

StreamSpec == StreamInit /\ [][StreamNext]_streamVars

-----------------------------------------------------------------------------
\* However the bytes are cut into chunks, the frames handled are the first of
\* those sent, good ones only, and the next one starts in front of the storage.
InOrder ==
  /\ Len(handled) <= Len(sent.frames)
  /\ \A k \in 1..Len(handled) : handled[k] = sent.frames[k] /\ Good(handled[k])
  /\ Base = sent.start[Len(handled) + 1]
  /\ given # Garbage => given = Front /\ Good(given) /\ length >= given.bytes

\* A stream fails for a frame that is not good, or a chunk there was no room
\* for; INCOMPLETE means that the next frame has not all arrived, except where
\* the length stated wraps around: that frame is refused without saying so.
RefusesForCause ==
  /\ broken => \/ overrun
               \/ Len(handled) < Len(sent.frames) /\ ~Good(Front)
  /\ status = "INCOMPLETE" /\ ~broken => length < HeaderSize \/ length < Total(Front)
  /\ broken /\ status = "INCOMPLETE" => Front.length > MaxPayloadSize

\* The decoder is a channel of good frames, whatever the chunks.
StreamFaithful == InOrder /\ RefusesForCause
==============================================================================
