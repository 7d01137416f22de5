---------------------------- MODULE RsmScadaProofs ----------------------------
(***************************************************************************)
(* Proofs about the server's routes, its historian and its tag registry.   *)
(*                                                                         *)
(* A route's calls that cross no other keep the destination's interlocks   *)
(* safe, but for updates with poor readings, and leave its diagnostics     *)
(* true, whatever failed and crossed calls have left there before.         *)
(*                                                                         *)
(* The historian loses no sample between its queue, its batches and the    *)
(* database, and close settles what was accepted before it, for queues and *)
(* batches of every size and every order of the calls.                     *)
(*                                                                         *)
(* In the registry runtime ids are those of the installed program and no   *)
(* tag is stale while its controller is ONLINE, for any programs, whatever *)
(* tags they share.                                                        *)
(***************************************************************************)
EXTENDS RsmRouting, RsmHistorian, RsmSupervisor, FiniteSetTheorems, SequenceTheorems,
        WellFoundedInduction, TLAPS

-----------------------------------------------------------------------------
(* Routes.  Calls that cross may leave anything at the destination.  What  *)
(* is known of it while a call that crosses no other is under way depends  *)
(* only on the writes which that call has yet to make.                     *)

ValueWrite(r) == Write("value", r.value, OriginOf(r))
StaleOff(r) == Write("stale", FALSE, OriginOf(r))
GoodAs(r) == Write("good", r.good, OriginOf(r))
GoodOff == Write("good", FALSE, "substitute")
StaleOn == Write("stale", TRUE, "substitute")
BadOff == Write("bad", FALSE, "substitute")
Substitute == Write("value", SubstituteValue, "substitute")

QualityOf(r) == IF r.good THEN "GOOD" ELSE "POOR"
Sent(d, r) == d.value = r.value /\ d.from = OriginOf(r)
Told(t, r) == t.value = r.value /\ t.quality = QualityOf(r)

\* A call of source_update before each of its writes.
Sending1(p, d, t) == \E r \in RouteReadings : p = <<ValueWrite(r), StaleOff(r), GoodAs(r)>> /\ Told(t, r)
Sending2(p, d, t) == \E r \in RouteReadings : p = <<StaleOff(r), GoodAs(r)>> /\ Told(t, r) /\ Sent(d, r)
Sending3(p, d, t) == \E r \in RouteReadings : p = <<GoodAs(r)>> /\ Told(t, r) /\ Sent(d, r) /\ ~d.stale

\* A call of timeout before each of its writes.
Dropping1(p, d, t) == p = <<GoodOff, StaleOn, BadOff, Substitute>> /\ t.quality = "STALE"
Dropping2(p, d, t) == p = <<StaleOn, BadOff, Substitute>> /\ ~d.good /\ t.quality = "STALE"
Dropping3(p, d, t) == p = <<BadOff, Substitute>> /\ ~d.good /\ t.quality = "STALE"
Dropping4(p, d, t) == p = <<Substitute>> /\ ~d.good /\ t.quality = "STALE"

Progress(p, d, t) ==
  \/ Sending1(p, d, t) \/ Sending2(p, d, t) \/ Sending3(p, d, t)
  \/ Dropping1(p, d, t) \/ Dropping2(p, d, t) \/ Dropping3(p, d, t) \/ Dropping4(p, d, t)
  \/ p = <<>>

\* Whatever its call, a write is of one of the destination's four tags.
AnyWrite ==
  [tag : {"value", "good", "stale", "bad"}, v : Int \cup BOOLEAN, from : Origins]

DestinationShape(d) ==
  d = [value |-> d.value, good |-> d.good, stale |-> d.stale, bad |-> d.bad, from |-> d.from]
RouteShape(t) ==
  t = [sequence |-> t.sequence, staleCount |-> t.staleCount, time |-> t.time, value |-> t.value,
       quality |-> t.quality]

\* A call under way that crosses no other is the only one under way.
OnlyOneUncrossed ==
  \A c \in RouteCalls \ crossed : \A d \in RouteCalls : c \in UnderWay /\ d \in UnderWay => c = d

RouteInv ==
  /\ DOMAIN pendingWrites = RouteCalls
  /\ DestinationShape(destination) /\ RouteShape(route)
  /\ \A c \in RouteCalls : pendingWrites[c] \in Seq(AnyWrite)
  /\ OnlyOneUncrossed
  /\ \A c \in RouteCalls \ crossed : Progress(pendingWrites[c], destination, route)

LEMMA TailOfOne == ASSUME NEW a PROVE Head(<<a>>) = a /\ Tail(<<a>>) = <<>>  OBVIOUS
LEMMA TailOfTwo == ASSUME NEW a, NEW b PROVE Head(<<a, b>>) = a /\ Tail(<<a, b>>) = <<b>>  OBVIOUS
LEMMA TailOfThree == ASSUME NEW a, NEW b, NEW d PROVE Head(<<a, b, d>>) = a /\ Tail(<<a, b, d>>) = <<b, d>>  OBVIOUS
LEMMA TailOfFour == ASSUME NEW a, NEW b, NEW d, NEW e PROVE Head(<<a, b, d, e>>) = a /\ Tail(<<a, b, d, e>>) = <<b, d, e>>  OBVIOUS
LEMMA Differ == ASSUME NEW a, NEW b, NEW d
  PROVE <<a>> # <<>> /\ <<a, b>> # <<>> /\ <<a, b, d>> # <<>>  OBVIOUS

LEMMA ThreeOf == ASSUME NEW S, NEW a \in S, NEW b \in S, NEW d \in S PROVE <<a, b, d>> \in Seq(S)  OBVIOUS
LEMMA FourOf == ASSUME NEW S, NEW a \in S, NEW b \in S, NEW d \in S, NEW e \in S PROVE <<a, b, d, e>> \in Seq(S)  OBVIOUS

LEMMA WrittenTags ==
  ASSUME NEW w, DestinationShape(destination)
  PROVE  /\ w.tag = "value" => Written(w) = [value |-> w.v, good |-> destination.good, stale |-> destination.stale, bad |-> destination.bad, from |-> w.from]
         /\ w.tag = "good" => Written(w) = [value |-> destination.value, good |-> w.v, stale |-> destination.stale, bad |-> destination.bad, from |-> destination.from]
         /\ w.tag = "stale" => Written(w) = [value |-> destination.value, good |-> destination.good, stale |-> w.v, bad |-> destination.bad, from |-> destination.from]
         /\ w.tag = "bad" => Written(w) = [value |-> destination.value, good |-> destination.good, stale |-> destination.stale, bad |-> w.v, from |-> destination.from]
<1>1. ASSUME w.tag = "value" PROVE Written(w) = [value |-> w.v, good |-> destination.good, stale |-> destination.stale, bad |-> destination.bad, from |-> w.from]
  BY <1>1 DEF Written, DestinationShape
<1>2. ASSUME w.tag = "good" PROVE Written(w) = [value |-> destination.value, good |-> w.v, stale |-> destination.stale, bad |-> destination.bad, from |-> destination.from]
  BY <1>2 DEF Written, DestinationShape
<1>3. ASSUME w.tag = "stale" PROVE Written(w) = [value |-> destination.value, good |-> destination.good, stale |-> w.v, bad |-> destination.bad, from |-> destination.from]
  BY <1>3 DEF Written, DestinationShape
<1>4. ASSUME w.tag = "bad" PROVE Written(w) = [value |-> destination.value, good |-> destination.good, stale |-> destination.stale, bad |-> w.v, from |-> destination.from]
  BY <1>4 DEF Written, DestinationShape
<1> QED  BY <1>1, <1>2, <1>3, <1>4

LEMMA TagsWritten ==
  /\ GoodOff.tag = "good" /\ GoodOff.v = FALSE
  /\ StaleOn.tag = "stale" /\ StaleOn.v = TRUE
  /\ BadOff.tag = "bad" /\ BadOff.v = FALSE
  /\ Substitute.tag = "value" /\ Substitute.v = SubstituteValue /\ Substitute.from = "substitute"
  /\ \A r : /\ ValueWrite(r).tag = "value" /\ ValueWrite(r).v = r.value /\ ValueWrite(r).from = OriginOf(r)
            /\ StaleOff(r).tag = "stale" /\ StaleOff(r).v = FALSE /\ StaleOff(r).from = OriginOf(r)
            /\ GoodAs(r).tag = "good" /\ GoodAs(r).v = r.good /\ GoodAs(r).from = OriginOf(r)
  BY DEF StaleOff, StaleOn, GoodOff, GoodAs, BadOff, Substitute, ValueWrite, Write

LEMMA ShapesKept ==
  /\ \A v, g, s, b, f : DestinationShape([value |-> v, good |-> g, stale |-> s, bad |-> b, from |-> f])
  BY DEF DestinationShape

LEMMA RouteStarts == ASSUME RoutingInit PROVE RouteInv
<1>1. /\ DOMAIN pendingWrites = RouteCalls /\ DestinationShape(destination) /\ RouteShape(route)
      /\ \A c \in RouteCalls : pendingWrites[c] = <<>> /\ <<>> \in Seq(AnyWrite)
  BY DEF RoutingInit, DestinationShape, RouteShape
<1> QED  BY <1>1 DEF RouteInv, OnlyOneUncrossed, UnderWay, Progress

\* A write of a call that crosses no other: what is known after it, that it
\* keeps the interlocks safe unless it writes a poor reading, and what holds
\* when it is the last.
LEMMA UncrossedWrite ==
  ASSUME NEW c \in RouteCalls \ crossed, RouteInv, WriteSucceeds(c)
  PROVE  /\ DestinationShape(destination')
         /\ Progress(pendingWrites'[c], destination', route')
         /\ InterlocksSafe /\ Head(pendingWrites[c]).from # "poor" => InterlocksSafe'
         /\ pendingWrites'[c] = <<>> => InterlocksSafe' /\ DiagnosticsTrue'
<1> DEFINE p == pendingWrites[c]
           q == Tail(p)
           d == Written(Head(p))
<1>1. /\ p # <<>> /\ destination' = d /\ pendingWrites'[c] = q /\ route' = route
      /\ DestinationShape(destination)
  BY DEF WriteSucceeds, RouteInv
<1>2. InterlocksSafe' <=> (d.good /\ ~d.stale => d.from = "good")
  BY <1>1 DEF InterlocksSafe, Permits
<1>3. DiagnosticsTrue' <=>
        /\ route.quality = "GOOD" => d.good /\ ~d.stale /\ d.value = route.value
        /\ route.quality = "POOR" => ~(d.good /\ ~d.stale) /\ d.value = route.value
        /\ route.quality = "STALE" => ~(d.good /\ ~d.stale) /\ d.value = SubstituteValue
  BY <1>1 DEF DiagnosticsTrue, Permits
<1>4. \A r \in RouteReadings : r.good \in BOOLEAN  BY RoutingAssumption DEF RouteReading
<1> HIDE DEF p, q, d
<1> SUFFICES /\ DestinationShape(d)
             /\ Progress(q, d, route)
             /\ InterlocksSafe /\ Head(p).from # "poor" => InterlocksSafe'
             /\ q = <<>> => InterlocksSafe' /\ DiagnosticsTrue'
  BY <1>1 DEF p
<1>5. CASE Sending1(p, destination, route)
  <2> PICK r \in RouteReadings : p = <<ValueWrite(r), StaleOff(r), GoodAs(r)>> /\ Told(route, r)
    BY <1>5 DEF Sending1
  <2>1. Head(p) = ValueWrite(r) /\ q = <<StaleOff(r), GoodAs(r)>>  BY TailOfThree DEF q
  <2>2. d = [value |-> r.value, good |-> destination.good, stale |-> destination.stale, bad |-> destination.bad, from |-> OriginOf(r)]
    BY <1>1, <2>1, WrittenTags, TagsWritten DEF d
  <2>3. Sending2(q, d, route)  BY <2>1, <2>2 DEF Sending2, Sent
  <2>4. Head(p).from # "poor" => d.from = "good"  BY <2>1, <2>2, TagsWritten DEF OriginOf
  <2> QED  BY <1>2, <2>1, <2>2, <2>3, <2>4, Differ, ShapesKept DEF Progress
<1>6. CASE Sending2(p, destination, route)
  <2> PICK r \in RouteReadings : p = <<StaleOff(r), GoodAs(r)>> /\ Told(route, r) /\ Sent(destination, r)
    BY <1>6 DEF Sending2
  <2>1. Head(p) = StaleOff(r) /\ q = <<GoodAs(r)>>  BY TailOfTwo DEF q
  <2>2. d = [value |-> destination.value, good |-> destination.good, stale |-> FALSE, bad |-> destination.bad, from |-> destination.from]
    BY <1>1, <2>1, WrittenTags, TagsWritten DEF d
  <2>3. Sending3(q, d, route)  BY <2>1, <2>2 DEF Sending3, Sent
  <2>4. Head(p).from # "poor" => d.from = "good"  BY <2>1, <2>2, TagsWritten DEF OriginOf, Sent
  <2> QED  BY <1>2, <2>1, <2>2, <2>3, <2>4, Differ, ShapesKept DEF Progress
<1>7. CASE Sending3(p, destination, route)
  <2> PICK r \in RouteReadings : p = <<GoodAs(r)>> /\ Told(route, r) /\ Sent(destination, r) /\ ~destination.stale
    BY <1>7 DEF Sending3
  <2>1. Head(p) = GoodAs(r) /\ q = <<>>  BY TailOfOne DEF q
  <2>2. d = [value |-> destination.value, good |-> r.good, stale |-> destination.stale, bad |-> destination.bad, from |-> destination.from]
    BY <1>1, <2>1, WrittenTags, TagsWritten DEF d
  <2>3. InterlocksSafe'  BY <1>2, <2>2 DEF Sent, OriginOf
  <2>4. DiagnosticsTrue'  BY <1>3, <1>4, <2>2 DEF Sent, Told, QualityOf
  <2> QED  BY <2>1, <2>2, <2>3, <2>4, ShapesKept DEF Progress
<1>8. CASE Dropping1(p, destination, route)
  <2>1. Head(p) = GoodOff /\ q = <<StaleOn, BadOff, Substitute>>  BY <1>8, TailOfFour DEF q, Dropping1
  <2>2. d = [value |-> destination.value, good |-> FALSE, stale |-> destination.stale, bad |-> destination.bad, from |-> destination.from]
    BY <1>1, <2>1, WrittenTags, TagsWritten DEF d
  <2>3. Dropping2(q, d, route)  BY <1>8, <2>1, <2>2 DEF Dropping1, Dropping2
  <2> QED  BY <1>2, <2>1, <2>2, <2>3, Differ, ShapesKept DEF Progress
<1>9. CASE Dropping2(p, destination, route)
  <2>1. Head(p) = StaleOn /\ q = <<BadOff, Substitute>>  BY <1>9, TailOfThree DEF q, Dropping2
  <2>2. d = [value |-> destination.value, good |-> destination.good, stale |-> TRUE, bad |-> destination.bad, from |-> destination.from]
    BY <1>1, <2>1, WrittenTags, TagsWritten DEF d
  <2>3. Dropping3(q, d, route)  BY <1>9, <2>1, <2>2 DEF Dropping2, Dropping3
  <2> QED  BY <1>2, <2>1, <2>2, <2>3, Differ, ShapesKept DEF Progress
<1>10. CASE Dropping3(p, destination, route)
  <2>1. Head(p) = BadOff /\ q = <<Substitute>>  BY <1>10, TailOfTwo DEF q, Dropping3
  <2>2. d = [value |-> destination.value, good |-> destination.good, stale |-> destination.stale, bad |-> FALSE, from |-> destination.from]
    BY <1>1, <2>1, WrittenTags, TagsWritten DEF d
  <2>3. Dropping4(q, d, route)  BY <1>10, <2>1, <2>2 DEF Dropping3, Dropping4
  <2>4. InterlocksSafe'  BY <1>2, <1>10, <2>2 DEF Dropping3
  <2> QED  BY <2>1, <2>2, <2>3, <2>4, Differ, ShapesKept DEF Progress
<1>11. CASE Dropping4(p, destination, route)
  <2>1. Head(p) = Substitute /\ q = <<>>  BY <1>11, TailOfOne DEF q, Dropping4
  <2>2. d = [value |-> SubstituteValue, good |-> destination.good, stale |-> destination.stale, bad |-> destination.bad, from |-> "substitute"]
    BY <1>1, <2>1, WrittenTags, TagsWritten DEF d
  <2>3. InterlocksSafe' /\ DiagnosticsTrue'  BY <1>2, <1>3, <1>11, <2>2 DEF Dropping4
  <2> QED  BY <2>1, <2>2, <2>3, ShapesKept DEF Progress
<1>12. Progress(p, destination, route)  BY DEF RouteInv, p
<1> QED  BY <1>1, <1>5, <1>6, <1>7, <1>8, <1>9, <1>10, <1>11, <1>12 DEF Progress

\* Whoever starts during another call makes both of them crossed.
LEMMA CallStarted ==
  ASSUME NEW c \in RouteCalls, NEW w \in Seq(AnyWrite), RouteInv, CallStarts(c),
         pendingWrites' = [pendingWrites EXCEPT ![c] = w], destination' = destination,
         RouteShape(route'), Progress(w, destination, route')
  PROVE  RouteInv'
<1>1. /\ DOMAIN pendingWrites' = RouteCalls /\ DestinationShape(destination')
      /\ \A d \in RouteCalls : pendingWrites'[d] \in Seq(AnyWrite)
  BY DEF RouteInv
<1>2. pendingWrites'[c] = w /\ \A d \in RouteCalls \ {c} : pendingWrites'[d] = pendingWrites[d]
  BY DEF RouteInv
<1>3. ASSUME NEW d \in RouteCalls \ crossed', d # c PROVE pendingWrites'[d] = <<>>
  BY <1>2, <1>3 DEF CallStarts, UnderWay
<1>4. \A d \in RouteCalls \ crossed' : Progress(pendingWrites'[d], destination', route')
  BY <1>2, <1>3 DEF Progress
<1>5. OnlyOneUncrossed'
  <2> SUFFICES ASSUME NEW d \in RouteCalls \ crossed', NEW e \in RouteCalls,
                      pendingWrites'[d] # <<>>, pendingWrites'[e] # <<>>
               PROVE  d = e
    BY DEF OnlyOneUncrossed, UnderWay
  <2>1. d = c  BY <1>3
  <2>2. UnderWay = {}  BY <2>1 DEF CallStarts
  <2> QED  BY <1>2, <2>1, <2>2 DEF UnderWay
<1> QED  BY <1>1, <1>4, <1>5 DEF RouteInv

\* A call that ends, or makes a write, leaves what is known of the others.
LEMMA CallGoesOn ==
  ASSUME NEW c \in RouteCalls, NEW w \in Seq(AnyWrite), RouteInv, pendingWrites[c] # <<>>,
         pendingWrites' = [pendingWrites EXCEPT ![c] = w], crossed' = crossed,
         route' = route, DestinationShape(destination'),
         c \notin crossed => Progress(w, destination', route')
  PROVE  RouteInv'
<1>1. /\ DOMAIN pendingWrites' = RouteCalls /\ RouteShape(route')
      /\ \A d \in RouteCalls : pendingWrites'[d] \in Seq(AnyWrite)
  BY DEF RouteInv
<1>2. pendingWrites'[c] = w /\ \A d \in RouteCalls \ {c} : pendingWrites'[d] = pendingWrites[d]
  BY DEF RouteInv
<1>3. ASSUME NEW d \in RouteCalls \ crossed', d # c PROVE pendingWrites'[d] = <<>>
  BY <1>2, <1>3 DEF RouteInv, OnlyOneUncrossed, UnderWay
<1>4. \A d \in RouteCalls \ crossed' : Progress(pendingWrites'[d], destination', route')
  BY <1>2, <1>3 DEF Progress
<1>5. OnlyOneUncrossed'
  <2> SUFFICES ASSUME NEW d \in RouteCalls \ crossed', NEW e \in RouteCalls,
                      pendingWrites'[d] # <<>>, pendingWrites'[e] # <<>>
               PROVE  d = e
    BY DEF OnlyOneUncrossed, UnderWay
  <2>1. d = c  BY <1>3
  <2> QED  BY <1>2, <2>1 DEF RouteInv, OnlyOneUncrossed, UnderWay
<1> QED  BY <1>1, <1>4, <1>5 DEF RouteInv

LEMMA RouteStep == ASSUME RouteInv, [RoutingNext]_routeVars PROVE RouteInv'
<1>1. ASSUME NEW c \in RouteCalls, NEW r \in RouteReadings, SourceUpdate(c, r) PROVE RouteInv'
  <2>1. Energizing(r) = <<ValueWrite(r), StaleOff(r), GoodAs(r)>>  BY DEF Energizing, ValueWrite, StaleOff, GoodAs
  <2>2. RouteShape(route') /\ Told(route', r)
    BY <1>1 DEF SourceUpdate, RouteInv, RouteShape, Told, QualityOf
  <2>3. Progress(Energizing(r), destination, route')  BY <2>1, <2>2 DEF Progress, Sending1
  <2>4. Energizing(r) \in Seq(AnyWrite)
    BY <2>1, RoutingAssumption, ThreeOf DEF ValueWrite, StaleOff, GoodAs, Write, OriginOf, Origins, AnyWrite, RouteReading
  <2>5. /\ CallStarts(c) /\ pendingWrites' = [pendingWrites EXCEPT ![c] = Energizing(r)]
        /\ destination' = destination
    BY <1>1 DEF SourceUpdate
  <2> QED  BY <2>2, <2>3, <2>4, <2>5, CallStarted
<1>2. ASSUME NEW c \in RouteCalls, Timeout(c) PROVE RouteInv'
  <2> DEFINE w == IF Substitutes THEN DeEnergizing ELSE <<>>
  <2>1. DeEnergizing = <<GoodOff, StaleOn, BadOff, Substitute>>
    BY DEF DeEnergizing, GoodOff, StaleOn, BadOff, Substitute
  <2>2. RouteShape(route') /\ route'.quality = "STALE"  BY <1>2 DEF Timeout, RouteInv, RouteShape
  <2>3. Progress(w, destination, route')  BY <2>1, <2>2 DEF Progress, Dropping1
  <2>4. CallStarts(c) /\ pendingWrites' = [pendingWrites EXCEPT ![c] = w] /\ destination' = destination
    BY <1>2 DEF Timeout
  <2>5. GoodOff \in AnyWrite /\ StaleOn \in AnyWrite /\ BadOff \in AnyWrite /\ Substitute \in AnyWrite
    BY RoutingAssumption DEF GoodOff, StaleOn, BadOff, Substitute, Write, Origins, AnyWrite
  <2>6. w \in Seq(AnyWrite)
    <3>1. <<GoodOff, StaleOn, BadOff, Substitute>> \in Seq(AnyWrite)  BY <2>5, FourOf
    <3> QED  BY <2>1, <3>1
  <2> HIDE DEF w
  <2> QED  BY <2>2, <2>3, <2>4, <2>6, CallStarted
<1>3. ASSUME NEW c \in RouteCalls, WriteSucceeds(c) PROVE RouteInv'
  <2> DEFINE w == Tail(pendingWrites[c])
  <2>1. /\ pendingWrites[c] # <<>> /\ pendingWrites' = [pendingWrites EXCEPT ![c] = w]
        /\ crossed' = crossed /\ route' = route /\ pendingWrites'[c] = w
    BY <1>3 DEF WriteSucceeds, RouteInv
  <2>2. c \notin crossed => Progress(w, destination', route')  BY <1>3, <2>1, UncrossedWrite
  <2>3. Head(pendingWrites[c]) \in AnyWrite /\ w \in Seq(AnyWrite)  BY <2>1 DEF RouteInv
  <2>4. DestinationShape(Written(Head(pendingWrites[c])))
    BY <2>3, WrittenTags, ShapesKept DEF RouteInv, AnyWrite
  <2>5. DestinationShape(destination')  BY <1>3, <2>4 DEF WriteSucceeds
  <2> HIDE DEF w
  <2> QED  BY <2>1, <2>2, <2>3, <2>5, CallGoesOn
<1>4. ASSUME NEW c \in RouteCalls, WriteFails(c) PROVE RouteInv'
  <2>1. /\ pendingWrites[c] # <<>> /\ pendingWrites' = [pendingWrites EXCEPT ![c] = <<>>]
        /\ crossed' = crossed /\ route' = route /\ DestinationShape(destination')
    BY <1>4 DEF WriteFails, RouteInv
  <2>2. <<>> \in Seq(AnyWrite) /\ Progress(<<>>, destination', route')  BY DEF Progress
  <2> QED  BY <2>1, <2>2, CallGoesOn
<1>5. CASE RouteTick  BY <1>5 DEF RouteTick, RouteInv, OnlyOneUncrossed, UnderWay
<1>6. CASE UNCHANGED routeVars  BY <1>6 DEF routeVars, RouteInv, OnlyOneUncrossed, UnderWay
<1> QED  BY <1>1, <1>2, <1>3, <1>4, <1>5, <1>6 DEF RoutingNext

\* For any number of calls at once, readings of any quality and any writes that
\* fail: the writes of a call that crosses no other keep the destination's
\* interlocks safe, unless they are those of a poor reading.
THEOREM UncrossedCallsStaySafe == RoutingSpec => UncrossedStaySafe
<1>1. RoutingInit => RouteInv  BY RouteStarts
<1>2. RouteInv /\ [RoutingNext]_routeVars => RouteInv'  BY RouteStep
<1>3. RouteInv =>
        [\A c \in RouteCalls \ crossed :
           InterlocksSafe /\ WriteSucceeds(c) /\ Head(pendingWrites[c]).from # "poor" =>
             InterlocksSafe']_routeVars
  BY UncrossedWrite
<1> QED  BY <1>1, <1>2, <1>3, PTL DEF RoutingSpec, UncrossedStaySafe

\* When the last write of a call that crosses no other has succeeded, the
\* interlocks are safe and the diagnostics true, whatever was left behind by
\* calls that failed or crossed before it.
THEOREM UncrossedCallsEndTrue == RoutingSpec => UncrossedEndTrue
<1>1. RoutingInit => RouteInv  BY RouteStarts
<1>2. RouteInv /\ [RoutingNext]_routeVars => RouteInv'  BY RouteStep
<1>3. RouteInv =>
        [\A c \in RouteCalls \ crossed :
           WriteSucceeds(c) /\ pendingWrites'[c] = <<>> => InterlocksSafe' /\ DiagnosticsTrue']_routeVars
  BY UncrossedWrite
<1> QED  BY <1>1, <1>2, <1>3, PTL DEF RoutingSpec, UncrossedEndTrue
-----------------------------------------------------------------------------
(* Sequences of samples, with sentinels between them.                      *)

Items == Nat \cup {Sentinel}
SamplesOf(q) == Range(q) \ {Sentinel}
Growing(q) ==
  \A j, k \in 1..Len(q) : j < k /\ q[j] # Sentinel /\ q[k] # Sentinel => q[j] < q[k]

\* Every set of numbers that has a member has a least one.
LEMMA LeastOf ==
  ASSUME NEW T \in SUBSET Nat, T # {}
  PROVE  \E x \in T : \A y \in T : x <= y
<1> DEFINE R == {ss \in Nat \X Nat : ss[1] < ss[2]}
<1>1. OpToRel(<, Nat) = R  BY DEF OpToRel
<1>2. IsWellFoundedOn(R, Nat)  BY <1>1, NatLessThanWellFounded
<1> HIDE DEF R
<1>3. PICK x \in T : \A y \in T : <<y, x>> \notin R  BY <1>2, WFMin
<1>4. ASSUME NEW y \in T PROVE x <= y
  <2>1. <<y, x>> \notin R  BY <1>3, <1>4
  <2>2. <<y, x>> \in Nat \X Nat  OBVIOUS
  <2>3. <<y, x>>[1] = y /\ <<y, x>>[2] = x  OBVIOUS
  <2>4. ~(y < x)  BY <2>1, <2>2, <2>3 DEF R
  <2> QED  BY <2>4
<1> QED  BY <1>4

LEMMA ItemsOf ==
  ASSUME NEW q \in Seq(Items), Sentinel \notin Nat
  PROVE  /\ Len(q) \in Nat /\ DOMAIN q = 1..Len(q) /\ \A k \in 1..Len(q) : q[k] \in Items
         /\ SamplesOf(q) = {x \in Nat : \E k \in 1..Len(q) : q[k] = x}
<1>1. Len(q) \in Nat /\ DOMAIN q = 1..Len(q)  BY LenProperties
<1>2. \A k \in 1..Len(q) : q[k] \in Items  BY ElementOfSeq
<1>3. SamplesOf(q) = {x \in Nat : \E k \in 1..Len(q) : q[k] = x}
  BY <1>1, <1>2 DEF SamplesOf, Range, Items
<1> QED  BY <1>1, <1>2, <1>3

\* Where the writer stops to collect.
EndsBatch(q, n, most) == n = most \/ n = Len(q) \/ q[n + 1] = Sentinel

LEMMA BatchExists ==
  ASSUME NEW q \in Seq(Items), q # <<>>, Head(q) # Sentinel, NEW most \in Nat, most > 0
  PROVE  \E n \in 1..most :
           n <= Len(q) /\ (\A k \in 1..n : q[k] # Sentinel) /\ EndsBatch(q, n, most)
<1> DEFINE T == {n \in 1..most : n <= Len(q) /\ EndsBatch(q, n, most)}
<1>1. Len(q) \in Nat /\ Len(q) > 0 /\ q[1] # Sentinel  BY EmptySeq, LenProperties
<1>2. \E n \in T : TRUE
  <2>1. CASE most <= Len(q)  BY <1>1, <2>1 DEF EndsBatch
  <2>2. CASE Len(q) <= most  BY <1>1, <2>2 DEF EndsBatch
  <2> QED  BY <1>1, <2>1, <2>2
<1>3. T \in SUBSET Nat /\ T # {}  BY <1>2
<1> HIDE DEF T
<1>4. PICK n \in T : \A m \in T : n <= m  BY <1>3, LeastOf
<1>5. n \in 1..most /\ n <= Len(q) /\ EndsBatch(q, n, most)  BY <1>4 DEF T
<1>6. ASSUME NEW k \in 1..n PROVE q[k] # Sentinel
  <2>1. CASE k = 1  BY <1>1, <2>1
  <2>2. CASE k > 1
    <3>1. k - 1 \in 1..most /\ k - 1 <= Len(q) /\ k - 1 \in Nat /\ ~(n <= k - 1) /\ (k - 1) + 1 = k
      BY <1>1, <1>5, <2>2
    <3>2. k - 1 \notin T  BY <1>4, <3>1
    <3>3. ~EndsBatch(q, k - 1, most)  BY <3>1, <3>2 DEF T
    <3> QED  BY <3>1, <3>3 DEF EndsBatch
  <2> QED  BY <2>1, <2>2
<1> QED  BY <1>5, <1>6

\* A batch of n samples, with the t items taken for it, splits the queue.
LEMMA Splitting ==
  ASSUME NEW q \in Seq(Items), Sentinel \notin Nat, Growing(q),
         NEW n \in Nat, n <= Len(q), \A k \in 1..n : q[k] # Sentinel,
         NEW t \in Nat, t = n \/ (t = n + 1 /\ n < Len(q) /\ q[n + 1] = Sentinel)
  PROVE  LET batch == SubSeq(q, 1, n)
             rest == SubSeq(q, t + 1, Len(q))
         IN /\ batch \in Seq(Nat) /\ Len(batch) = n /\ Growing(batch)
            /\ rest \in Seq(Items) /\ Len(rest) = Len(q) - t /\ Growing(rest)
            /\ SamplesOf(q) = Range(batch) \cup SamplesOf(rest)
            /\ \A x \in Range(batch) : \A y \in SamplesOf(rest) : x < y
<1> DEFINE batch == SubSeq(q, 1, n)
           rest == SubSeq(q, t + 1, Len(q))
<1>1. /\ Len(q) \in Nat /\ \A k \in 1..Len(q) : q[k] \in Items
      /\ SamplesOf(q) = {x \in Nat : \E k \in 1..Len(q) : q[k] = x}
  BY ItemsOf
<1>2. t <= Len(q)  BY <1>1
<1>3. \A k \in 1..n : q[k] \in Nat  BY <1>1 DEF Items
<1>4. batch \in Seq(Nat) /\ Len(batch) = n /\ \A k \in 1..n : batch[k] = q[k]
  <2>1. /\ SubSeq(q, 1, n) \in Seq(Nat)
        /\ Len(SubSeq(q, 1, n)) = IF 1 <= n THEN n - 1 + 1 ELSE 0
        /\ \A k \in 1..(n - 1 + 1) : SubSeq(q, 1, n)[k] = q[1 + k - 1]
    BY <1>3, SubSeqProperties
  <2>2. n - 1 + 1 = n /\ \A k \in 1..n : 1 + k - 1 = k  OBVIOUS
  <2>3. ~(1 <= n) => n = 0  OBVIOUS
  <2> QED  BY <2>1, <2>2, <2>3
<1>5. /\ rest \in Seq(Items) /\ Len(rest) = Len(q) - t
      /\ \A k \in 1..(Len(q) - t) : rest[k] = q[t + k]
  <2>1. t + 1 \in Int /\ Len(q) \in Int /\ \A k \in (t + 1)..Len(q) : q[k] \in Items
    BY <1>1
  <2>2. /\ rest \in Seq(Items)
        /\ Len(rest) = IF t + 1 <= Len(q) THEN Len(q) - (t + 1) + 1 ELSE 0
        /\ \A k \in 1..(Len(q) - (t + 1) + 1) : rest[k] = q[t + 1 + k - 1]
    BY <2>1, SubSeqProperties
  <2>3. Len(q) - (t + 1) + 1 = Len(q) - t  BY <1>1
  <2>4. ~(t + 1 <= Len(q)) => Len(q) - t = 0  BY <1>1, <1>2
  <2>5. Len(rest) = Len(q) - t  BY <2>2, <2>3, <2>4
  <2>6. ASSUME NEW k \in 1..(Len(q) - t) PROVE rest[k] = q[t + k]
    <3>1. k \in 1..(Len(q) - (t + 1) + 1) /\ t + 1 + k - 1 = t + k  BY <2>3
    <3>2. rest[k] = q[t + 1 + k - 1]  BY <2>2, <3>1
    <3> QED  BY <3>1, <3>2
  <2> QED  BY <2>2, <2>5, <2>6
<1> HIDE DEF batch, rest
<1>6. Growing(batch)
  <2> SUFFICES ASSUME NEW j \in 1..n, NEW k \in 1..n, j < k
               PROVE  batch[j] < batch[k]
    BY <1>4 DEF Growing
  <2>1. j \in 1..Len(q) /\ k \in 1..Len(q)  BY <1>1
  <2> QED  BY <1>4, <2>1 DEF Growing
<1>7. Growing(rest)
  <2> SUFFICES ASSUME NEW j \in 1..Len(rest), NEW k \in 1..Len(rest), j < k,
                      rest[j] # Sentinel, rest[k] # Sentinel
               PROVE  rest[j] < rest[k]
    BY DEF Growing
  <2>1. t + j \in 1..Len(q) /\ t + k \in 1..Len(q) /\ t + j < t + k  BY <1>1, <1>2, <1>5
  <2> QED  BY <1>5, <2>1 DEF Growing
<1>8. Range(batch) = {x \in Nat : \E k \in 1..n : q[k] = x}
  <2>1. DOMAIN batch = 1..n  BY <1>4, LenProperties
  <2> QED  BY <1>3, <1>4, <2>1 DEF Range
<1>9. SamplesOf(rest) = {x \in Nat : \E k \in (t + 1)..Len(q) : q[k] = x}
  <2>1. SamplesOf(rest) = {x \in Nat : \E k \in 1..Len(rest) : rest[k] = x}  BY <1>5, ItemsOf
  <2>2. ASSUME NEW k \in (t + 1)..Len(q) PROVE k - t \in 1..(Len(q) - t) /\ rest[k - t] = q[k]
    <3>1. k - t \in 1..(Len(q) - t) /\ t + (k - t) = k  BY <1>1, <1>2
    <3> QED  BY <1>5, <3>1
  <2>3. ASSUME NEW k \in 1..(Len(q) - t) PROVE t + k \in (t + 1)..Len(q) /\ rest[k] = q[t + k]
    BY <1>1, <1>2, <1>5
  <2>4. ASSUME NEW x \in SamplesOf(rest) PROVE \E k \in (t + 1)..Len(q) : q[k] = x
    <3>1. PICK k \in 1..(Len(q) - t) : rest[k] = x  BY <1>5, <2>1, <2>4
    <3> QED  BY <2>3, <3>1
  <2>5. ASSUME NEW k \in (t + 1)..Len(q), q[k] \in Nat PROVE q[k] \in SamplesOf(rest)
    <3>1. k - t \in 1..Len(rest) /\ rest[k - t] = q[k]  BY <1>5, <2>2
    <3> QED  BY <2>1, <2>5, <3>1
  <2>6. SamplesOf(rest) \subseteq Nat  BY <2>1
  <2> QED  BY <2>4, <2>5, <2>6
<1>10. SamplesOf(q) = Range(batch) \cup SamplesOf(rest)
  <2>1. ASSUME NEW k \in 1..Len(q), q[k] \in Nat PROVE k \in 1..n \/ k \in (t + 1)..Len(q)
    BY <1>1, <2>1
  <2>2. 1..n \subseteq 1..Len(q) /\ (t + 1)..Len(q) \subseteq 1..Len(q)  BY <1>1, <1>2
  <2> QED  BY <1>1, <1>8, <1>9, <2>1, <2>2
<1>11. ASSUME NEW x \in Range(batch), NEW y \in SamplesOf(rest) PROVE x < y
  <2>1. PICK j \in 1..n : q[j] = x /\ x \in Nat  BY <1>8, <1>11
  <2>2. PICK k \in (t + 1)..Len(q) : q[k] = y /\ y \in Nat  BY <1>9, <1>11
  <2>3. j \in 1..Len(q) /\ k \in 1..Len(q) /\ j < k  BY <1>1, <1>2
  <2> QED  BY <2>1, <2>2, <2>3 DEF Growing
<1>12. QED  BY <1>4, <1>5, <1>6, <1>7, <1>10, <1>11 DEF batch, rest
LEMMA WithoutSentinel ==
  ASSUME NEW q \in Seq(Items), Sentinel \notin Nat, Growing(q), q # <<>>, Head(q) = Sentinel
  PROVE  /\ Tail(q) \in Seq(Items) /\ Len(Tail(q)) = Len(q) - 1 /\ Growing(Tail(q))
         /\ SamplesOf(Tail(q)) = SamplesOf(q)
<1>1. Len(q) \in Nat /\ Len(q) > 0 /\ q[1] = Sentinel  BY EmptySeq, LenProperties
<1>2. PICK n \in Nat : n = 0  OBVIOUS
<1>3. PICK t \in Nat : t = 1  OBVIOUS
<1>4. /\ n <= Len(q) /\ \A k \in 1..n : q[k] # Sentinel
      /\ t = n + 1 /\ n < Len(q) /\ q[n + 1] = Sentinel
  BY <1>1, <1>2, <1>3
<1>5. /\ SubSeq(q, t + 1, Len(q)) \in Seq(Items) /\ Len(SubSeq(q, t + 1, Len(q))) = Len(q) - t
      /\ Growing(SubSeq(q, t + 1, Len(q)))
      /\ SamplesOf(q) = Range(SubSeq(q, 1, n)) \cup SamplesOf(SubSeq(q, t + 1, Len(q)))
  BY <1>4, Splitting
<1>6. Tail(q) = SubSeq(q, t + 1, Len(q))
  <2>1. t + 1 = 2  BY <1>3
  <2> QED  BY <2>1, TailIsSubSeq
<1>7. SubSeq(q, 1, n) = <<>>  BY <1>2, SubSeqEmpty
<1>8. Range(<<>>) = {}  BY DEF Range
<1> QED  BY <1>3, <1>5, <1>6, <1>7, <1>8

LEMMA WithItem ==
  ASSUME NEW q \in Seq(Items), Sentinel \notin Nat, Growing(q), NEW x \in Items,
         x = Sentinel \/ \A y \in SamplesOf(q) : y < x
  PROVE  /\ Append(q, x) \in Seq(Items) /\ Len(Append(q, x)) = Len(q) + 1 /\ Growing(Append(q, x))
         /\ SamplesOf(Append(q, x)) = SamplesOf(q) \cup ({x} \ {Sentinel})
<1> DEFINE longer == Append(q, x)
<1>1. /\ Len(q) \in Nat /\ \A k \in 1..Len(q) : q[k] \in Items
      /\ SamplesOf(q) = {y \in Nat : \E k \in 1..Len(q) : q[k] = y}
  BY ItemsOf
<1>2. /\ longer \in Seq(Items) /\ Len(longer) = Len(q) + 1 /\ longer[Len(q) + 1] = x
      /\ \A k \in 1..Len(q) : longer[k] = q[k]
  BY AppendProperties
<1> HIDE DEF longer
<1>3. SamplesOf(longer) = {y \in Nat : \E k \in 1..Len(longer) : longer[k] = y}  BY <1>2, ItemsOf
<1>4. SamplesOf(longer) = SamplesOf(q) \cup ({x} \ {Sentinel})
  <2>1. ASSUME NEW k \in 1..(Len(q) + 1) PROVE k \in 1..Len(q) \/ k = Len(q) + 1  BY <1>1
  <2>2. Len(q) + 1 \in 1..(Len(q) + 1) /\ 1..Len(q) \subseteq 1..(Len(q) + 1)  BY <1>1
  <2> QED  BY <1>1, <1>2, <1>3, <2>1, <2>2 DEF Items
<1>5. Growing(longer)
  <2> SUFFICES ASSUME NEW j \in 1..Len(longer), NEW k \in 1..Len(longer), j < k,
                      longer[j] # Sentinel, longer[k] # Sentinel
               PROVE  longer[j] < longer[k]
    BY DEF Growing
  <2>1. j \in 1..Len(q) /\ longer[j] = q[j]  BY <1>1, <1>2
  <2>2. CASE k = Len(q) + 1
    <3>1. q[j] \in SamplesOf(q)  BY <1>1, <2>1 DEF Items
    <3> QED  BY <1>2, <2>1, <2>2, <3>1
  <2>3. CASE k # Len(q) + 1
    <3>1. k \in 1..Len(q)  BY <1>1, <1>2, <2>3
    <3> QED  BY <1>2, <2>1, <3>1 DEF Growing
  <2> QED  BY <2>2, <2>3
<1> QED  BY <1>2, <1>4, <1>5 DEF longer

LEMMA Storing ==
  ASSUME Sentinel \notin Nat, NEW s \in Seq(Nat), NEW b \in Seq(Nat), Growing(s), Growing(b),
         \A x \in Range(s) : \A y \in Range(b) : x < y
  PROVE  /\ s \o b \in Seq(Nat) /\ Growing(s \o b) /\ Range(s \o b) = Range(s) \cup Range(b)
<1> DEFINE both == s \o b
<1>1. /\ both \in Seq(Nat) /\ Len(both) = Len(s) + Len(b)
      /\ \A k \in 1..(Len(s) + Len(b)) : both[k] = IF k <= Len(s) THEN s[k] ELSE b[k - Len(s)]
  BY ConcatProperties
<1>2. Range(both) = Range(s) \cup Range(b)  BY RangeConcatenation
<1>3. /\ Len(s) \in Nat /\ DOMAIN s = 1..Len(s) /\ Len(b) \in Nat /\ DOMAIN b = 1..Len(b)
      /\ (\A k \in 1..Len(s) : s[k] \in Nat) /\ \A k \in 1..Len(b) : b[k] \in Nat
  BY LenProperties, ElementOfSeq
<1> HIDE DEF both
<1>4. Growing(both)
  <2> SUFFICES ASSUME NEW j \in 1..Len(both), NEW k \in 1..Len(both), j < k PROVE both[j] < both[k]
    BY DEF Growing
  <2>1. CASE k <= Len(s)
    <3>1. both[j] = s[j] /\ both[k] = s[k] /\ j \in 1..Len(s) /\ k \in 1..Len(s)  BY <1>1, <1>3, <2>1
    <3> QED  BY <1>3, <3>1 DEF Growing
  <2>2. CASE j <= Len(s) /\ ~(k <= Len(s))
    <3>1. j \in 1..Len(s) /\ k - Len(s) \in 1..Len(b)  BY <1>1, <1>3, <2>2
    <3>2. both[j] = s[j] /\ both[k] = b[k - Len(s)]  BY <1>1, <2>2, <3>1
    <3>3. s[j] \in Range(s) /\ b[k - Len(s)] \in Range(b)  BY <1>3, <3>1 DEF Range
    <3> QED  BY <3>2, <3>3
  <2>3. CASE ~(j <= Len(s))
    <3>1. /\ j - Len(s) \in 1..Len(b) /\ k - Len(s) \in 1..Len(b) /\ j - Len(s) < k - Len(s)
          /\ ~(k <= Len(s))
      BY <1>1, <1>3, <2>3
    <3>2. both[j] = b[j - Len(s)] /\ both[k] = b[k - Len(s)]
      BY <1>1, <2>3, <3>1
    <3>3. b[j - Len(s)] < b[k - Len(s)]  BY <1>3, <3>1 DEF Growing
    <3> QED  BY <3>2, <3>3
  <2> QED  BY <2>1, <2>2, <2>3
<1> QED  BY <1>1, <1>2, <1>4 DEF both

\* A growing sequence of samples has as many as it is long.
LEMMA GrowingCounts ==
  ASSUME Sentinel \notin Nat, NEW s \in Seq(Nat), Growing(s)
  PROVE  IsFiniteSet(Range(s)) /\ Cardinality(Range(s)) = Len(s)
<1>1. Len(s) \in Nat /\ DOMAIN s = 1..Len(s) /\ \A k \in 1..Len(s) : s[k] \in Nat
  BY LenProperties, ElementOfSeq
<1>2. IsFiniteSet(1..Len(s)) /\ Cardinality(1..Len(s)) = Len(s)
  <2>1. Len(s) \in Int  BY <1>1
  <2>2. PICK n \in Int : n = Len(s)  BY <2>1
  <2>3. IsFiniteSet(1..n) /\ Cardinality(1..n) = IF 1 > n THEN 0 ELSE n - 1 + 1
    BY FS_Interval
  <2> QED  BY <1>1, <2>2, <2>3
<1>3. s \in Bijection(1..Len(s), Range(s))
  <2>1. s \in [1..Len(s) -> Range(s)]
    <3>1. s = [k \in 1..Len(s) |-> s[k]]  BY <1>1
    <3> QED  BY <1>1, <3>1 DEF Range
  <2>2. IsInjective(s)
    <3> SUFFICES ASSUME NEW j \in 1..Len(s), NEW k \in 1..Len(s), s[j] = s[k] PROVE j = k
      BY <1>1 DEF IsInjective
    <3>1. ~(j < k) /\ ~(k < j)  BY <1>1 DEF Growing
    <3> QED  BY <1>1, <3>1
  <2>3. \A x \in Range(s) : \E k \in 1..Len(s) : s[k] = x  BY <1>1 DEF Range
  <2> QED  BY <2>1, <2>2, <2>3 DEF Bijection, Injection, Surjection
<1>4. ExistsBijection(1..Len(s), Range(s))  BY <1>3 DEF ExistsBijection
<1> QED  BY <1>2, <1>4, FS_Bijection
-----------------------------------------------------------------------------
(* The historian.                                                          *)

Accepted == early \cup late
Past == {"putting", "awaiting", "closed"}

QueueGrows ==
  /\ historyQueue \in Seq(Items) /\ Growing(historyQueue)
  /\ unfinished = Len(historyQueue)

StoreGrows ==
  /\ stored \in Seq(Nat) /\ Growing(stored)
  /\ Range(stored) \cap lost = {}

\* The samples are in one place each, the later ones behind, and numbered in
\* the order in which they were offered.
OnePlaceEach ==
  /\ offered \in Nat /\ dropped \in Nat
  /\ Accepted \subseteq 1..offered
  /\ Accepted = Queued \cup Settled
  /\ \A x \in Settled : \A y \in Queued : x < y

HistorianInv ==
  /\ QueueGrows /\ StoreGrows /\ OnePlaceEach
  /\ Cardinality(Accepted) + dropped = offered
  /\ closing \in Past => early \subseteq Settled

LEMMA HistorianStarts == ASSUME HistorianInit PROVE HistorianInv
<1>1. Cardinality({}) = 0  BY FS_EmptySet
<1>2. Range(<<>>) = {}  BY DEF Range
<1>3. QueueGrows  BY DEF HistorianInit, QueueGrows, Growing
<1>4. StoreGrows  BY DEF HistorianInit, StoreGrows, Growing
<1>5. Accepted = {} /\ Queued = {} /\ Settled = {}
  BY <1>2 DEF HistorianInit, Accepted, Queued, Settled
<1>6. OnePlaceEach  BY <1>5 DEF HistorianInit, OnePlaceEach
<1> QED  BY <1>1, <1>3, <1>4, <1>5, <1>6 DEF HistorianInit, HistorianInv, Past

LEMMA EnqueueKeeps == ASSUME HistorianAssumption, HistorianInv, Enqueue PROVE HistorianInv'
<1>1. Sentinel \notin Nat  BY DEF HistorianAssumption
<1>2. UNCHANGED <<stored, lost, closing>> /\ offered' = offered + 1  BY DEF Enqueue
<1>3. Settled' = Settled /\ StoreGrows'  BY <1>2 DEF Settled, HistorianInv, StoreGrows
<1>4. offered \in Nat /\ dropped \in Nat /\ Accepted \subseteq 1..offered /\ Accepted = Queued \cup Settled
  BY DEF HistorianInv, OnePlaceEach
<1>5. IsFiniteSet(Accepted) /\ Cardinality(Accepted) \in Nat
  <2>1. IsFiniteSet(1..offered)  BY <1>4, FS_Interval
  <2> QED  BY <1>4, <2>1, FS_Subset, FS_CardinalityType
<1>6. CASE Room
  <2>1. /\ historyQueue' = Append(historyQueue, offered + 1) /\ unfinished' = unfinished + 1 /\ dropped' = dropped
        /\ Accepted' = Accepted \cup {offered + 1} /\ (closing # "open" => early' = early)
    BY <1>6 DEF Enqueue, Accepted
  <2>2. offered + 1 \in Items /\ offered + 1 # Sentinel  BY <1>1, <1>4 DEF Items
  <2>3. \A y \in Queued : y < offered + 1  BY <1>4
  <2>4. /\ historyQueue' \in Seq(Items) /\ Len(historyQueue') = Len(historyQueue) + 1 /\ Growing(historyQueue')
        /\ SamplesOf(historyQueue') = SamplesOf(historyQueue) \cup ({offered + 1} \ {Sentinel})
    BY <1>1, <2>1, <2>2, <2>3, WithItem DEF HistorianInv, QueueGrows, Queued, SamplesOf
  <2>5. QueueGrows'  BY <2>1, <2>4 DEF HistorianInv, QueueGrows
  <2>6. Queued' = Queued \cup {offered + 1}  BY <2>2, <2>4 DEF Queued, SamplesOf
  <2>7. \A x \in Settled : x < offered + 1  BY <1>4
  <2>8. 1..offered \subseteq 1..(offered + 1) /\ offered + 1 \in 1..(offered + 1) /\ offered + 1 \notin 1..offered
    BY <1>4
  <2>9. OnePlaceEach'
    BY <1>2, <1>3, <1>4, <2>1, <2>6, <2>7, <2>8 DEF HistorianInv, OnePlaceEach
  <2>10. Cardinality(Accepted') = Cardinality(Accepted) + 1
    BY <1>4, <1>5, <2>1, <2>8, FS_AddElement
  <2>11. Cardinality(Accepted') + dropped' = offered'
    BY <1>2, <1>4, <1>5, <2>1, <2>10 DEF HistorianInv
  <2>12. closing' \in Past => early' \subseteq Settled'
    BY <1>2, <1>3, <2>1 DEF HistorianInv, Past
  <2> QED  BY <1>3, <2>5, <2>9, <2>11, <2>12 DEF HistorianInv
<1>7. CASE ~Room
  <2>1. UNCHANGED <<historyQueue, unfinished, early, late>> /\ dropped' = dropped + 1
    BY <1>7 DEF Enqueue
  <2>2. Accepted' = Accepted /\ Queued' = Queued /\ QueueGrows'
    BY <2>1 DEF Accepted, Queued, HistorianInv, QueueGrows
  <2>3. 1..offered \subseteq 1..(offered + 1)  BY <1>4
  <2>4. OnePlaceEach'  BY <1>2, <1>3, <1>4, <2>1, <2>2, <2>3 DEF HistorianInv, OnePlaceEach
  <2>5. Cardinality(Accepted') + dropped' = offered'
    BY <1>2, <1>4, <1>5, <2>1, <2>2 DEF HistorianInv
  <2> QED  BY <1>2, <1>3, <2>1, <2>2, <2>4, <2>5 DEF HistorianInv
<1> QED  BY <1>6, <1>7

\* With nothing left in the queue every accepted sample is settled.
LEMMA NothingLeft ==
  ASSUME HistorianAssumption, QueueGrows, OnePlaceEach, unfinished = 0
  PROVE  early \subseteq Settled
<1>1. historyQueue = <<>>  BY EmptySeq, LenProperties DEF QueueGrows
<1>2. Queued = {}  BY <1>1 DEF Queued, Range
<1> QED  BY <1>2 DEF OnePlaceEach, Accepted

\* The steps of the writer and of close leave the accepted samples as they are.
LEMMA CountKept ==
  ASSUME HistorianInv, UNCHANGED <<offered, dropped, early, late>>
  PROVE  Accepted' = Accepted /\ Cardinality(Accepted') + dropped' = offered'
  BY DEF HistorianInv, Accepted

LEMMA StoreBatchKeeps == ASSUME HistorianAssumption, HistorianInv, StoreBatch PROVE HistorianInv'
<1> DEFINE n == BatchLength
           t == Taken(n)
           batch == SubSeq(historyQueue, 1, n)
           rest == SubSeq(historyQueue, t + 1, Len(historyQueue))
<1>1. Sentinel \notin Nat /\ BatchSize \in Nat /\ BatchSize > 0  BY DEF HistorianAssumption
<1>2. /\ historyQueue # <<>> /\ Head(historyQueue) # Sentinel
      /\ \/ stored' = stored \o batch /\ lost' = lost
         \/ lost' = lost \cup Range(batch) /\ stored' = stored
      /\ historyQueue' = rest /\ unfinished' = unfinished - t
      /\ closing' = Woken(unfinished') /\ UNCHANGED <<offered, dropped, early, late>>
  BY DEF StoreBatch, DoneFor
<1>3. historyQueue \in Seq(Items) /\ Growing(historyQueue) /\ unfinished = Len(historyQueue)
  BY DEF HistorianInv, QueueGrows
<1>4. Len(historyQueue) \in Nat  BY <1>3, LenProperties
<1>5. /\ n \in 1..BatchSize /\ n <= Len(historyQueue) /\ \A k \in 1..n : historyQueue[k] # Sentinel
      /\ EndsBatch(historyQueue, n, BatchSize)
  <2>1. \E m \in 1..BatchSize :
          m <= Len(historyQueue) /\ (\A k \in 1..m : historyQueue[k] # Sentinel) /\ EndsBatch(historyQueue, m, BatchSize)
    BY <1>1, <1>2, <1>3, BatchExists
  <2> QED  BY <2>1 DEF BatchLength, EndsBatch
<1> HIDE DEF n
<1>6. n \in Nat /\ t \in Nat
      /\ (t = n \/ (t = n + 1 /\ n < Len(historyQueue) /\ historyQueue[n + 1] = Sentinel))
  BY <1>1, <1>4, <1>5 DEF Taken, EndsBatch
<1> HIDE DEF t
<1>7. /\ batch \in Seq(Nat) /\ Growing(batch)
      /\ rest \in Seq(Items) /\ Len(rest) = Len(historyQueue) - t /\ Growing(rest)
      /\ SamplesOf(historyQueue) = Range(batch) \cup SamplesOf(rest)
      /\ \A x \in Range(batch) : \A y \in SamplesOf(rest) : x < y
  BY <1>1, <1>3, <1>5, <1>6, Splitting
<1> HIDE DEF batch, rest
<1>8. QueueGrows'  BY <1>2, <1>3, <1>7 DEF QueueGrows
<1>9. Queued = Range(batch) \cup Queued'  BY <1>2, <1>7 DEF Queued, SamplesOf
<1>10. Queued' = SamplesOf(rest)  BY <1>2 DEF Queued, SamplesOf
<1>11. stored \in Seq(Nat) /\ Growing(stored) /\ Range(stored) \cap lost = {}  BY DEF HistorianInv, StoreGrows
<1>12. \A x \in Settled : \A y \in Queued : x < y  BY DEF HistorianInv, OnePlaceEach
<1>13. Settled \subseteq Nat /\ Range(batch) \subseteq Nat
  <2>1. Accepted \subseteq Nat /\ Settled \subseteq Accepted  BY DEF HistorianInv, OnePlaceEach
  <2>2. Queued \subseteq Accepted  BY DEF HistorianInv, OnePlaceEach
  <2> QED  BY <1>9, <2>1, <2>2
<1>14. Settled' = Settled \cup Range(batch) /\ StoreGrows'
  <2>1. \A x \in Range(stored) : \A y \in Range(batch) : x < y  BY <1>9, <1>12 DEF Settled
  <2>2. \A x \in Settled : x \notin Range(batch)  BY <1>9, <1>12, <1>13
  <2>3. CASE stored' = stored \o batch /\ lost' = lost
    <3>1. stored' \in Seq(Nat) /\ Growing(stored') /\ Range(stored') = Range(stored) \cup Range(batch)
      BY <1>1, <1>7, <1>11, <2>1, <2>3, Storing
    <3> QED  BY <1>11, <2>2, <2>3, <3>1 DEF Settled, StoreGrows
  <2>4. CASE lost' = lost \cup Range(batch) /\ stored' = stored
    BY <1>11, <2>2, <2>4 DEF Settled, StoreGrows
  <2> QED  BY <1>2, <2>3, <2>4
<1>15. Accepted' = Accepted /\ Cardinality(Accepted') + dropped' = offered'  BY <1>2, CountKept
<1>16. OnePlaceEach'
  <2>1. \A x \in Settled' : \A y \in Queued' : x < y  BY <1>7, <1>9, <1>10, <1>12, <1>14
  <2>2. Accepted' = Queued' \cup Settled'  BY <1>9, <1>14, <1>15 DEF HistorianInv, OnePlaceEach
  <2> QED  BY <1>2, <1>15, <2>1, <2>2 DEF HistorianInv, OnePlaceEach
<1>17. closing' \in Past => early' \subseteq Settled'
  <2>1. CASE closing = "joining" /\ unfinished' = 0
    <3>1. historyQueue' = <<>>  BY <1>8, <2>1, EmptySeq, LenProperties DEF QueueGrows
    <3>2. Queued' = {}  BY <3>1 DEF Queued, Range
    <3> QED  BY <1>16, <3>2 DEF OnePlaceEach, Accepted
  <2>2. CASE ~(closing = "joining" /\ unfinished' = 0)
    <3>1. closing' = closing  BY <1>2, <2>2 DEF Woken
    <3> QED  BY <1>2, <1>14, <3>1 DEF HistorianInv
  <2> QED  BY <2>1, <2>2
<1> QED  BY <1>8, <1>14, <1>15, <1>16, <1>17 DEF HistorianInv

\* A step that changes neither the samples queued nor those settled.
LEMMA SamplesStay ==
  ASSUME HistorianInv, QueueGrows', Queued' = Queued,
         UNCHANGED <<stored, lost, offered, dropped, early, late>>,
         closing' \in Past => closing \in Past \/ early \subseteq Settled
  PROVE  HistorianInv'
<1>1. Settled' = Settled /\ StoreGrows'  BY DEF Settled, HistorianInv, StoreGrows
<1>2. Accepted' = Accepted /\ Cardinality(Accepted') + dropped' = offered'  BY CountKept
<1>3. OnePlaceEach'  BY <1>1, <1>2 DEF HistorianInv, OnePlaceEach
<1>4. closing' \in Past => early' \subseteq Settled'  BY <1>1 DEF HistorianInv
<1> QED  BY <1>1, <1>2, <1>3, <1>4 DEF HistorianInv

LEMMA WriterEndsKeeps == ASSUME HistorianAssumption, HistorianInv, WriterEnds PROVE HistorianInv'
<1>1. Sentinel \notin Nat  BY DEF HistorianAssumption
<1>2. /\ historyQueue # <<>> /\ Head(historyQueue) = Sentinel
      /\ historyQueue' = Tail(historyQueue) /\ unfinished' = unfinished - 1
      /\ closing' = Woken(unfinished')
      /\ UNCHANGED <<stored, lost, offered, dropped, early, late>>
  BY DEF WriterEnds, DoneFor
<1>3. historyQueue \in Seq(Items) /\ Growing(historyQueue) /\ unfinished = Len(historyQueue)
  BY DEF HistorianInv, QueueGrows
<1>4. /\ historyQueue' \in Seq(Items) /\ Len(historyQueue') = Len(historyQueue) - 1
      /\ Growing(historyQueue') /\ SamplesOf(historyQueue') = SamplesOf(historyQueue)
  BY <1>1, <1>2, <1>3, WithoutSentinel
<1>5. QueueGrows'  BY <1>2, <1>3, <1>4 DEF QueueGrows
<1>6. Queued' = Queued  BY <1>4 DEF Queued, SamplesOf
<1>7. closing' \in Past => closing \in Past \/ early \subseteq Settled
  <2>1. CASE unfinished' = 0
    <3>1. historyQueue' = <<>>  BY <1>5, <2>1, EmptySeq, LenProperties DEF QueueGrows
    <3>2. Queued' = {}  BY <3>1 DEF Queued, Range
    <3> QED  BY <1>6, <3>2 DEF HistorianInv, OnePlaceEach, Accepted
  <2>2. CASE unfinished' # 0
    BY <1>2, <2>2 DEF Woken
  <2> QED  BY <2>1, <2>2
<1> QED  BY <1>2, <1>5, <1>6, <1>7, SamplesStay

\* close may send the sentinel once every sample from before it is settled.
LEMMA SentinelKeeps ==
  ASSUME HistorianAssumption, HistorianInv, SendSentinel,
         UNCHANGED <<stored, lost, offered, dropped, early, late>>,
         early \subseteq Settled
  PROVE  HistorianInv'
<1>1. Sentinel \notin Nat /\ Sentinel \in Items  BY DEF HistorianAssumption, Items
<1>2. historyQueue \in Seq(Items) /\ Growing(historyQueue) /\ unfinished = Len(historyQueue)
  BY DEF HistorianInv, QueueGrows
<1>3. /\ historyQueue' \in Seq(Items) /\ Len(historyQueue') = Len(historyQueue) + 1
      /\ Growing(historyQueue')
      /\ SamplesOf(historyQueue') = SamplesOf(historyQueue) \cup ({Sentinel} \ {Sentinel})
  BY <1>1, <1>2, WithItem DEF SendSentinel
<1>4. QueueGrows'  BY <1>2, <1>3 DEF QueueGrows, SendSentinel
<1>5. Queued' = Queued  BY <1>3 DEF Queued, SamplesOf
<1> QED  BY <1>4, <1>5, SamplesStay

LEMMA CloseKeeps == ASSUME HistorianAssumption, HistorianInv, CloseHistorian PROVE HistorianInv'
<1>1. UNCHANGED <<stored, lost, offered, dropped, early, late>>  BY DEF CloseHistorian
<1>2. CASE unfinished = 0
  <2>1. early \subseteq Settled  BY <1>2, NothingLeft DEF HistorianInv
  <2> QED  BY <1>1, <1>2, <2>1, SentinelKeeps DEF CloseHistorian
<1>3. CASE unfinished # 0
  <2>1. UNCHANGED <<historyQueue, unfinished>> /\ closing' = "joining"  BY <1>3 DEF CloseHistorian
  <2>2. QueueGrows' /\ Queued' = Queued  BY <2>1 DEF HistorianInv, QueueGrows, Queued
  <2> QED  BY <1>1, <2>1, <2>2, SamplesStay DEF Past
<1> QED  BY <1>2, <1>3

LEMMA HistorianStep ==
  ASSUME HistorianAssumption, HistorianInv, [HistorianNext]_historyVars PROVE HistorianInv'
<1>1. CASE Enqueue  BY <1>1, EnqueueKeeps
<1>2. CASE StoreBatch  BY <1>2, StoreBatchKeeps
<1>3. CASE WriterEnds  BY <1>3, WriterEndsKeeps
<1>4. CASE CloseHistorian  BY <1>4, CloseKeeps
<1>5. CASE PutSentinel
  <2>1. early \subseteq Settled  BY <1>5 DEF PutSentinel, HistorianInv, Past
  <2> QED  BY <1>5, <2>1, SentinelKeeps DEF PutSentinel
<1>6. CASE WriterRests \/ CloseReturnsToCaller \/ UNCHANGED historyVars
  <2>1. UNCHANGED <<historyQueue, unfinished, stored, lost, offered, dropped, early, late>>
    BY <1>6 DEF WriterRests, CloseReturnsToCaller, historyVars
  <2>2. QueueGrows' /\ Queued' = Queued  BY <2>1 DEF HistorianInv, QueueGrows, Queued
  <2>3. closing' \in Past => closing \in Past
    BY <1>6 DEF WriterRests, CloseReturnsToCaller, historyVars, Past
  <2> QED  BY <2>1, <2>2, <2>3, SamplesStay
<1> QED
  BY <1>1, <1>2, <1>3, <1>4, <1>5, <1>6 DEF HistorianNext, WriterSteps, CloseSteps

LEMMA AccountsShow == ASSUME HistorianAssumption, HistorianInv PROVE Accounted
<1>1. /\ Sentinel \notin Nat /\ stored \in Seq(Nat) /\ Growing(stored)
      /\ Range(stored) \cap lost = {} /\ offered \in Nat
      /\ Accepted \subseteq 1..offered /\ Accepted = Queued \cup Settled
      /\ \A x \in Settled : \A y \in Queued : x < y
  BY DEF HistorianAssumption, HistorianInv, StoreGrows, OnePlaceEach
<1>2. IsFiniteSet(Range(stored)) /\ Cardinality(Range(stored)) = Len(stored)
  BY <1>1, GrowingCounts
<1>3. Accepted \subseteq Nat /\ IsFiniteSet(Accepted)
  <2>1. IsFiniteSet(1..offered)  BY <1>1, FS_Interval
  <2> QED  BY <1>1, <2>1, FS_Subset
<1>4. IsFiniteSet(Queued) /\ IsFiniteSet(lost) /\ IsFiniteSet(Settled)
  BY <1>1, <1>3, FS_Subset DEF Settled
<1>5. Queued \cap Settled = {}
  <2> SUFFICES ASSUME NEW x \in Queued, x \in Settled PROVE FALSE  OBVIOUS
  <2>1. x \in Nat /\ x < x  BY <1>1, <1>3
  <2> QED  BY <2>1
<1>6. Cardinality(Queued) \in Nat /\ Cardinality(lost) \in Nat /\ Len(stored) \in Nat
  BY <1>1, <1>4, FS_CardinalityType, LenProperties
<1>7. Cardinality(Settled) = Len(stored) + Cardinality(lost)
  <2>1. Cardinality(Range(stored) \cup lost)
          = Cardinality(Range(stored)) + Cardinality(lost) - Cardinality(Range(stored) \cap lost)
    BY <1>2, <1>4, FS_Union
  <2>2. Cardinality(Range(stored) \cap lost) = 0  BY <1>1, FS_EmptySet
  <2> QED  BY <1>2, <1>6, <2>1, <2>2 DEF Settled
<1>8. Cardinality(Accepted) = Cardinality(Queued) + Cardinality(Settled)
  <2>1. Cardinality(Queued \cup Settled)
          = Cardinality(Queued) + Cardinality(Settled) - Cardinality(Queued \cap Settled)
    BY <1>4, FS_Union
  <2>2. Cardinality(Queued \cap Settled) = 0  BY <1>5, FS_EmptySet
  <2> QED  BY <1>1, <1>6, <1>7, <2>1, <2>2
<1>9. Cardinality(Queued) + Len(stored) + Cardinality(lost) = Cardinality(Accepted)
  BY <1>6, <1>7, <1>8
<1>10. \A j, k \in 1..Len(stored) : j < k => stored[j] < stored[k]
  <2>1. \A k \in 1..Len(stored) : stored[k] \in Nat  BY <1>1, ElementOfSeq, LenProperties
  <2> QED  BY <1>1, <2>1 DEF Growing
<1> QED
  BY <1>1, <1>9, <1>10 DEF Accounted, HistorianInv, QueueGrows, Accepted

LEMMA ClosesShow == ASSUME HistorianInv PROVE CloseSettles
<1>1. /\ Accepted \subseteq 1..offered /\ Accepted = Queued \cup Settled /\ offered \in Nat
      /\ \A x \in Settled : \A y \in Queued : x < y
      /\ closing \in Past => early \subseteq Settled
  BY DEF HistorianInv, OnePlaceEach
<1>2. ASSUME closing \in Past, NEW x \in Queued PROVE x \in late
  <2>1. x \in Nat /\ ~(x < x)  BY <1>1
  <2> QED  BY <1>1, <1>2, <2>1 DEF Accepted
<1> QED  BY <1>1, <1>2 DEF CloseSettles, Past

\* For every size of the queue and of a batch, however enqueue, the writer and
\* close of historian.py interleave: every sample that enqueue accepted is in
\* the queue, in the database or in a batch that failed, in one of them and
\* once, the database has them in their order, and the count that close joins
\* on is that of the items in the queue.
THEOREM SamplesAccounted == HistorianSpec => []Accounted
<1>1. HistorianInit => HistorianInv  BY HistorianStarts
<1>2. HistorianAssumption /\ HistorianInv /\ [HistorianNext]_historyVars => HistorianInv'
  BY HistorianStep
<1>3. HistorianAssumption /\ HistorianInv => Accounted  BY AccountsShow
<1> QED  BY <1>1, <1>2, <1>3, HistorianAssumption, PTL DEF HistorianSpec

\* Likewise: once close has come past its join every sample accepted before it
\* began is settled, and a close that has returned left nothing in the queue
\* but what was enqueued behind its back.
THEOREM CloseLosesNothing == HistorianSpec => []CloseSettles
<1>1. HistorianInit => HistorianInv  BY HistorianStarts
<1>2. HistorianAssumption /\ HistorianInv /\ [HistorianNext]_historyVars => HistorianInv'
  BY HistorianStep
<1>3. HistorianInv => CloseSettles  BY ClosesShow
<1> QED  BY <1>1, <1>2, <1>3, HistorianAssumption, PTL DEF HistorianSpec

-----------------------------------------------------------------------------
(* The registry: a new program drops the ids it finds through the tags, so *)
(* no id may be without one.                                               *)


Key(tag) == <<tag.program, tag.id>>
IdsHaveTags == \A k \in DOMAIN runtimeIds : \E t \in DOMAIN tags : Key(tags[t]) = k

TagRecord == [program : Programs, id : Int, level : Levels, sequence : Sequences \cup {0}]
TagsOK == \A t \in DOMAIN tags : tags[t] \in TagRecord
IdsOK == \A k \in DOMAIN runtimeIds : k[1] \in Programs /\ runtimeIds[k] \in DOMAIN tags

Registry == TagsOK /\ IdsOK /\ IdsHaveTags /\ RuntimeIdsCurrent
Supervised == BrokerTypeOK /\ IdsHaveTags /\ RuntimeIdsCurrent /\ OnlineIsFresh

-----------------------------------------------------------------------------
(* The registry.                                                           *)

\* An id and its tag name each other in a manifest.
LEMMA IdsNameTags ==
  ASSUME NEW p \in Programs, NEW i \in DOMAIN Manifest[p]
  PROVE  IdOf(p, Manifest[p][i]) = i
BY SupervisorAssumption DEF IdOf, IsInjective

LEMMA ManifestEntries ==
  ASSUME NEW p \in Programs, NEW t \in Range(Manifest[p])
  PROVE  Entry(p, t) \in TagRecord
<1>1. PICK i \in DOMAIN Manifest[p] : Manifest[p][i] = t
  BY DEF Range
<1>2. IdOf(p, t) = i
  BY <1>1, IdsNameTags
<1>3. IdOf(p, t) \in Int
  BY <1>2, SupervisorAssumption
<1> QED
  BY <1>3 DEF Entry, TagRecord, Levels

\* replace_manifest leaves the ids of the new program and no other, and
\* no tag that is stale.
LEMMA ManifestReplaced ==
  ASSUME NEW p \in Programs, Registry, ReplaceManifest(p), installed' = p
  PROVE  Registry' /\ \A t \in DOMAIN tags' : tags'[t].level = "UNCERTAIN"
<1>1. Kept(p) = {}
  BY DEF Registry, IdsHaveTags, Key, Kept
<1>2. runtimeIds' = [k \in IdsOf(p) |-> Manifest[p][k[2]]]
  BY <1>1 DEF ReplaceManifest
<1>3. /\ tags' = TagsAfter(p)
      /\ DOMAIN tags' = DOMAIN tags \cup Range(Manifest[p])
  BY DEF ReplaceManifest, TagsAfter
<1>4. \A t \in Range(Manifest[p]) : tags'[t] = Entry(p, t)
  BY <1>3 DEF TagsAfter
<1>5. ASSUME NEW t \in DOMAIN tags', t \notin Range(Manifest[p])
      PROVE  tags'[t] \in TagRecord /\ tags'[t].level = "UNCERTAIN"
  <2>1. tags[t] \in TagRecord /\ tags'[t] = [tags[t] EXCEPT !.level = "UNCERTAIN"]
    BY <1>3, <1>5 DEF TagsAfter, Registry, TagsOK
  <2> QED
    BY <2>1 DEF TagRecord, Levels
<1>6. TagsOK' /\ \A t \in DOMAIN tags' : tags'[t].level = "UNCERTAIN"
  <2>1. \A t \in Range(Manifest[p]) : Entry(p, t).level = "UNCERTAIN"
    BY DEF Entry
  <2> QED
    BY <1>3, <1>4, <1>5, <2>1, ManifestEntries DEF TagsOK
<1>7. ASSUME NEW k \in DOMAIN runtimeIds'
      PROVE  /\ k[1] \in Programs /\ runtimeIds'[k] \in DOMAIN tags'
             /\ \E t \in DOMAIN tags' : Key(tags'[t]) = k
  <2>1. PICK i \in DOMAIN Manifest[p] : k = <<p, i>>
    BY <1>2, <1>7 DEF IdsOf
  <2>2. runtimeIds'[k] = Manifest[p][i] /\ Manifest[p][i] \in Range(Manifest[p])
    BY <1>2, <1>7, <2>1 DEF Range
  <2>3. tags'[Manifest[p][i]] = Entry(p, Manifest[p][i])
    BY <1>4, <2>2
  <2>4. Key(Entry(p, Manifest[p][i])) = k
    BY <2>1, IdsNameTags DEF Key, Entry
  <2> QED
    BY <1>3, <2>1, <2>2, <2>3, <2>4
<1>8. RuntimeIdsCurrent'
  BY <1>2, SupervisorAssumption DEF RuntimeIdsCurrent, IdsOf
<1> QED
  BY <1>6, <1>7, <1>8 DEF Registry, IdsOK, IdsHaveTags

\* What only changes what is known of the tags leaves the ids alone.
LEMMA QualityChanges ==
  ASSUME Registry, TagsOK', DOMAIN tags' = DOMAIN tags,
         \A t \in DOMAIN tags : Key(tags'[t]) = Key(tags[t]),
         UNCHANGED <<installed, runtimeIds>>
  PROVE  Registry'
BY DEF Registry, IdsOK, IdsHaveTags, RuntimeIdsCurrent, IdsOf

LEMMA MarkedStale ==
  ASSUME Registry, tags' = AllStale, UNCHANGED <<installed, runtimeIds>>
  PROVE  Registry'
<1>1. DOMAIN tags' = DOMAIN tags
  BY DEF AllStale
<1>2. ASSUME NEW t \in DOMAIN tags
      PROVE  tags'[t] \in TagRecord /\ Key(tags'[t]) = Key(tags[t])
  BY <1>2 DEF AllStale, Registry, TagsOK, TagRecord, Levels, Key
<1> QED
  BY <1>1, <1>2, QualityChanges DEF TagsOK

LEMMA Updated ==
  ASSUME Registry, NEW k \in DOMAIN runtimeIds,
         UpdateMistyped(k) \/ \E n \in Sequences : Update(k, n)
  PROVE  /\ Registry' /\ DOMAIN tags' = DOMAIN tags
         /\ \A t \in DOMAIN tags : tags'[t].level \in {tags[t].level, "GOOD", "BAD"}
<1>1. DOMAIN tags' = DOMAIN tags /\ UNCHANGED <<installed, runtimeIds>>
  BY DEF UpdateMistyped, Update
<1>2. ASSUME NEW t \in DOMAIN tags
      PROVE  /\ tags'[t] \in TagRecord /\ Key(tags'[t]) = Key(tags[t])
             /\ tags'[t].level \in {tags[t].level, "GOOD", "BAD"}
  <2>1. tags[t] \in TagRecord
    BY DEF Registry, TagsOK
  <2>2. CASE UpdateMistyped(k)
    BY <2>1, <2>2 DEF UpdateMistyped, TagRecord, Levels, Key
  <2>3. ASSUME NEW n \in Sequences, Update(k, n)
        PROVE  /\ tags'[t] \in TagRecord /\ Key(tags'[t]) = Key(tags[t])
               /\ tags'[t].level \in {tags[t].level, "GOOD", "BAD"}
    BY <2>1, <2>3 DEF Update, TagRecord, Levels, Key
  <2> QED
    BY <2>2, <2>3
<1> QED
  BY <1>1, <1>2, QualityChanges DEF TagsOK
-----------------------------------------------------------------------------
(* The supervisor.                                                         *)

LEMMA HandlerKeeps ==
  ASSUME BrokerTypeOK, Registry, OnlineIsFresh, Handled
  PROVE  /\ Registry' /\ OnlineIsFresh'
         /\ ctl' \in ControllerStates /\ run' \in Awaits /\ attempts' \in Nat
         /\ UNCHANGED stopping
<1>1. Registry'
  <2>1. CASE tags' = AllStale
    BY <2>1, MarkedStale DEF Handled
  <2>2. CASE tags' = tags
    BY <2>2 DEF Handled, Registry, TagsOK, IdsOK, IdsHaveTags, RuntimeIdsCurrent, IdsOf, Key
  <2> QED
    BY <2>1, <2>2 DEF Handled
<1>2. ctl' \in {"FAULTED", "RECONNECTING"} /\ run' \in {"closing", "backoff"}
  BY DEF Handled
<1>3. attempts' \in Nat
  BY DEF Handled, Counted, BrokerTypeOK
<1> QED
  BY <1>1, <1>2, <1>3 DEF OnlineIsFresh, ControllerStates, Awaits, Handled

\* The part of the types that is not the registry's.
TaskOK ==
  /\ limit \in AttemptLimits /\ controller \in [up : BOOLEAN, program : Programs]
  /\ link \in {"none", "open", "eof", "reset", "closed"}
  /\ ctl \in ControllerStates /\ run \in Awaits \cup {"over"}
  /\ attempts \in Nat /\ stopping \in BOOLEAN /\ cancelled \in BOOLEAN
  /\ installed \in Programs \cup {NoProgram}
  /\ shutdown \in {"no", "gathering", "closing", "flushing", "done", "raised"}

LEMMA TypesSplit == Supervised <=> TaskOK /\ Registry /\ OnlineIsFresh
BY DEF Supervised, BrokerTypeOK, TaskOK, Registry, TagsOK, TagRecord, IdsOK

LEMMA TypesSplitNext == Supervised' <=> TaskOK' /\ Registry' /\ OnlineIsFresh'
BY DEF Supervised, BrokerTypeOK, TaskOK, Registry, TagsOK, TagRecord, IdsOK

\* The registry and the freshness of its tags, while neither is touched.
LEMMA RegistryRests ==
  ASSUME Registry, OnlineIsFresh, UNCHANGED registryVars, ctl' = "ONLINE" => ctl = "ONLINE"
  PROVE  Registry' /\ OnlineIsFresh'
BY DEF Registry, TagsOK, IdsOK, IdsHaveTags, RuntimeIdsCurrent, IdsOf, OnlineIsFresh,
       registryVars, Key

LEMMA Initially == BrokerInit => Supervised
<1> SUFFICES ASSUME BrokerInit PROVE Supervised
  OBVIOUS
<1>1. TaskOK
  BY DEF BrokerInit, TaskOK, ControllerStates, Awaits
<1>2. Registry /\ OnlineIsFresh
  BY DEF BrokerInit, Registry, TagsOK, IdsOK, IdsHaveTags, RuntimeIdsCurrent, OnlineIsFresh
<1> QED
  BY <1>1, <1>2, TypesSplit

LEMMA TaskKeeps ==
  ASSUME Supervised, TaskSteps, limit' = limit
  PROVE  Supervised'
<1> USE DEF ControllerStates, Awaits, Requests
<1>1. TaskOK /\ Registry /\ OnlineIsFresh /\ BrokerTypeOK
  BY TypesSplit DEF Supervised
<1>2. CASE Handled /\ UNCHANGED <<controller, shutdown>> /\ cancelled' \in BOOLEAN
           /\ link' \in {"none", "open", "eof", "reset", "closed"}
  BY <1>1, <1>2, HandlerKeeps, TypesSplitNext DEF TaskOK, Handled
<1>3. CASE Wakes
  BY <1>1, <1>2, <1>3, RegistryRests, TypesSplitNext DEF Wakes, EnterLoop, TaskOK, registryVars
<1>4. CASE Connected
  BY <1>1, <1>2, <1>4, RegistryRests, TypesSplitNext DEF Connected, Advance, TaskOK, registryVars
<1>5. CASE ConnectFails
  BY <1>1, <1>2, <1>5 DEF ConnectFails
<1>6. CASE Synchronized
  <2>1. CASE Allowed("SYNCHRONIZING")
    <3>1. controller.program \in Programs
      BY <1>1 DEF TaskOK
    <3>2. ReplaceManifest(controller.program) /\ installed' = controller.program
      BY <1>6, <2>1 DEF Synchronized
    <3>3. Registry' /\ OnlineIsFresh'
      BY <1>1, <3>1, <3>2, ManifestReplaced DEF OnlineIsFresh
    <3>4. /\ UNCHANGED <<limit, controller, link, stopping, shutdown>> /\ cancelled' = FALSE
          /\ installed' \in Programs /\ ctl' = "ONLINE" /\ run' = "resting" /\ attempts' = 0
      BY <1>6, <2>1, <3>1 DEF Synchronized
    <3>5. TaskOK'
      BY <1>1, <3>4 DEF TaskOK
    <3> QED
      BY <3>3, <3>5, TypesSplitNext
  <2>2. CASE ~Allowed("SYNCHRONIZING")
    BY <1>1, <1>2, <1>6, <2>2 DEF Synchronized, TaskOK
  <2> QED
    BY <2>1, <2>2
<1>7. CASE RequestFails
  BY <1>1, <1>2, <1>7 DEF RequestFails, TaskOK
<1>8. CASE CapabilitiesKnown \/ HeartbeatDue \/ HeartbeatAnswered
  BY <1>1, <1>8, RegistryRests, TypesSplitNext
     DEF CapabilitiesKnown, HeartbeatDue, HeartbeatAnswered, TaskOK, registryVars
<1>9. CASE TakesCancellation
  BY <1>1, <1>9, RegistryRests, TypesSplitNext DEF TakesCancellation, TaskOK, registryVars
<1>10. CASE TaskCloses
  BY <1>1, <1>10, RegistryRests, TypesSplitNext DEF TaskCloses, ClosedLink, TaskOK, registryVars
<1> QED
  BY <1>3, <1>4, <1>5, <1>6, <1>7, <1>8, <1>9, <1>10 DEF TaskSteps

LEMMA OthersKeep ==
  ASSUME Supervised, limit' = limit,
         \/ StopCalled \/ ShutdownSteps \/ ControllerFails \/ ConnectionEnds
         \/ \E p \in Programs : ControllerReturns(p) \/ ProgramChanges(p)
  PROVE  Supervised'
<1> USE DEF ControllerStates, Awaits
<1>1. TaskOK /\ Registry /\ OnlineIsFresh
  BY TypesSplit
<1>2. CASE StopCalled
  BY <1>1, <1>2, RegistryRests, TypesSplitNext DEF StopCalled, TaskOK, registryVars
<1>3. CASE ShutdownSteps
  BY <1>1, <1>3, RegistryRests, TypesSplitNext
     DEF ShutdownSteps, Gathered, StopCloses, HistorianFlushed, ClosedLink, TaskOK, registryVars, taskVars
<1>4. CASE ControllerFails \/ \E p \in Programs : ControllerReturns(p) \/ ProgramChanges(p)
  <2>1. controller' \in [up : BOOLEAN, program : Programs]
    <3>1. controller.program \in Programs
      BY <1>1 DEF TaskOK
    <3>2. \E p \in Programs, b \in BOOLEAN : controller' = [up |-> b, program |-> p]
      BY <1>4, <3>1, Zenon DEF ControllerFails, ControllerReturns, ProgramChanges
    <3>3. PICK p \in Programs, b \in BOOLEAN : controller' = [up |-> b, program |-> p]
      BY <3>2
    <3>4. [up |-> b, program |-> p] \in [up : BOOLEAN, program : Programs]
      OBVIOUS
    <3> QED
      BY <3>3, <3>4, Zenon
  <2>2. UNCHANGED <<taskVars, registryVars, shutdown>>
    BY <1>4 DEF ControllerFails, ControllerReturns, ProgramChanges
  <2>3. TaskOK'
    BY <1>1, <2>1, <2>2 DEF TaskOK, taskVars, registryVars
  <2> QED
    BY <1>1, <2>2, <2>3, RegistryRests, TypesSplitNext DEF taskVars
<1>5. CASE ConnectionEnds
  BY <1>1, <1>5, RegistryRests, TypesSplitNext DEF ConnectionEnds, TaskOK, registryVars
<1> QED
  BY <1>2, <1>3, <1>4, <1>5

LEMMA Inductively == Supervised /\ [BrokerNext]_brokerVars => Supervised'
<1> SUFFICES ASSUME Supervised, [BrokerNext]_brokerVars PROVE Supervised'
  OBVIOUS
<1>1. TaskOK /\ Registry /\ OnlineIsFresh
  BY TypesSplit
<1>2. CASE UNCHANGED brokerVars
  BY <1>1, <1>2, RegistryRests, TypesSplitNext DEF brokerVars, taskVars, registryVars, TaskOK
<1>3. ASSUME NEW k \in DOMAIN runtimeIds, limit' = limit,
             UpdateMistyped(k) \/ \E n \in Sequences : Update(k, n)
      PROVE  Supervised'
  <2>1. TaskOK' /\ ctl' = ctl
    BY <1>1, <1>3 DEF UpdateMistyped, Update, taskVars, TaskOK
  <2>2. /\ Registry' /\ DOMAIN tags' = DOMAIN tags
        /\ \A t \in DOMAIN tags : tags'[t].level \in {tags[t].level, "GOOD", "BAD"}
    BY <1>1, <1>3, Updated
  <2>3. OnlineIsFresh'
    BY <1>1, <2>1, <2>2 DEF OnlineIsFresh
  <2> QED
    BY <2>1, <2>2, <2>3, TypesSplitNext
<1> QED
  BY <1>2, <1>3, TaskKeeps, OthersKeep DEF BrokerNext, BrokerSteps

-----------------------------------------------------------------------------
\* Whatever fails, changes or is stopped, the registry and the supervisor are
\* in a state from which their promises can be kept.
THEOREM SupervisedHolds == BrokerSpec => []Supervised
BY Initially, Inductively, PTL DEF BrokerSpec

\* A runtime id resolves exactly when the program installed has it, and to that
\* program's tag (registry.py, replace_manifest), for any number of programs.
THEOREM IdsAreCurrent == BrokerSpec => []RuntimeIdsCurrent
<1>1. Supervised => RuntimeIdsCurrent
  BY DEF Supervised
<1> QED
  BY <1>1, SupervisedHolds, PTL

\* A controller shown as ONLINE has no tag shown as STALE (supervisor.py, run,
\* and registry.py, mark_controller_stale), for any number of programs.
THEOREM OnlineTagsAreFresh == BrokerSpec => []OnlineIsFresh
<1>1. Supervised => OnlineIsFresh
  BY DEF Supervised
<1> QED
  BY <1>1, SupervisedHolds, PTL
===============================================================================
