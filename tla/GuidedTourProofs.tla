-------------------------- MODULE GuidedTourProofs --------------------------
(***************************************************************************)
(* The diagram, its span feed and the tour.  What the services report is   *)
(* what the diagram draws: no pulse is lost for want of an edge, rides an  *)
(* edge backwards or lights one that is drawn as silent, and every other   *)
(* edge is pulsed by some span.                                            *)
(*                                                                         *)
(* Then the invariants of the tour and its feed for any number of writes   *)
(* and any buffer: the ticks are earned, a diagram pulses each span of the *)
(* buffer once, and every gap it shows is one of a publish.  The first     *)
(* rests on where spans come from, Sound; the second on the place the      *)
(* effect resumes at being unique, Tracked; the third on an induction over *)
(* the spans that the effect goes through, LoopKeepsPairs.                 *)
(***************************************************************************)
EXTENDS GuidedTour, FiniteSetTheorems, WellFoundedInduction, TLAPS

(* Whatever a service reports, every hop the mapper takes it for is an     *)
(* edge of the diagram, in that direction, and one that says it is         *)
(* instrumented (flowGraph.ts:163-233, FlowDiagram.tsx:173-178, 306-309).  *)
THEOREM EveryHopIsDrawn ==
  ASSUME NEW span \in Reported, NEW hop \in HopsOf(span)
  PROVE  Data(hop.from, hop.to) \in Instrumented
<1>1. span.service \in Services
  <2>1. CASE span \in HttpSpans
    BY <2>1 DEF HttpSpans
  <2>2. CASE span \in MenuSpans \cup AvailabilitySpans \cup PosSpans \cup StorefrontSpans
    <3>1. \A s \in Services : \A o : Span(s, o).service = s
      BY DEF Span
    <3>. QED
      BY <2>2, <3>1
         DEF MenuSpans, AvailabilitySpans, PosSpans, StorefrontSpans, Services
  <2>. QED
    BY <2>1, <2>2 DEF Reported
<1>2. \/ hop = Hop(Caller(span.service), span.service)
      \/ hop = Hop("menu-service", "postgres-menu")
      \/ hop = Hop("postgres-menu", "kafka-menu-events")
      \/ hop = Hop("kafka-menu-events", "availability-service")
      \/ hop = Hop("availability-service", "postgres-dedupe")
      \/ hop = Hop("availability-service", "redis")
      \/ hop = Hop("pos-ingest", "postgres-sync")
      \/ hop = Hop("pos-ingest", "kafka-pos-sync")
      \/ hop = Hop(span.service, "trace-collector")
  BY DEF HopsOf
<1>3. Data(hop.from, hop.to) \in FLOW_EDGES
  <2>1. CASE hop = Hop(Caller(span.service), span.service)
    BY <1>1, <2>1 DEF FLOW_EDGES, Hop, Caller, Services
  <2>2. CASE hop = Hop(span.service, "trace-collector")
    BY <1>1, <2>2 DEF FLOW_EDGES, Hop, Services
  <2>3. CASE hop \in {Hop("menu-service", "postgres-menu"),
                      Hop("postgres-menu", "kafka-menu-events"),
                      Hop("kafka-menu-events", "availability-service"),
                      Hop("availability-service", "postgres-dedupe"),
                      Hop("availability-service", "redis"),
                      Hop("pos-ingest", "postgres-sync"),
                      Hop("pos-ingest", "kafka-pos-sync")}
    BY <2>3 DEF FLOW_EDGES, Hop
  <2>. QED
    BY <1>2, <2>1, <2>2, <2>3
<1>4. Data(hop.from, hop.to).instrumented
  BY DEF Data
<1>. QED
  BY <1>3, <1>4 DEF Instrumented

(* No two edges of the diagram join the same two nodes.                    *)
LEMMA EdgesAreApart ==
  ASSUME NEW d \in FLOW_EDGES, NEW e \in FLOW_EDGES,
         \/ d.from = e.from /\ d.to = e.to
         \/ d.from = e.to /\ d.to = e.from
  PROVE  d = e
<1>1. ASSUME NEW f \in FLOW_EDGES
      PROVE  \/ f.from \in Services /\ f.to = "trace-collector"
             \/ f.from = "merchant-web" /\ f.to = "menu-service"
             \/ f.from = "merchant-web" /\ f.to = "availability-service"
             \/ f.from = "merchant-web" /\ f.to = "pos-ingest"
             \/ f.from = "external-client" /\ f.to = "storefront-api"
             \/ f.from = "menu-service" /\ f.to = "postgres-menu"
             \/ f.from = "postgres-menu" /\ f.to = "kafka-menu-events"
             \/ f.from = "kafka-menu-events" /\ f.to = "availability-service"
             \/ f.from = "availability-service" /\ f.to = "postgres-dedupe"
             \/ f.from = "availability-service" /\ f.to = "redis"
             \/ f.from = "availability-service" /\ f.to = "mongo"
             \/ f.from = "pos-ingest" /\ f.to = "postgres-sync"
             \/ f.from = "pos-ingest" /\ f.to = "kafka-pos-sync"
  BY <1>1 DEF FLOW_EDGES, Data, Silent, Services
<1>2. ~(d.from = e.to /\ d.to = e.from)
  BY <1>1 DEF Services
<1>3. ASSUME NEW f \in FLOW_EDGES
      PROVE  f = IF f.to = "mongo" THEN Silent(f.from, f.to) ELSE Data(f.from, f.to)
  BY <1>3 DEF FLOW_EDGES, Data, Silent
<1>. QED
  BY <1>2, <1>3

(* edgeFor matches either orientation and takes the first match: for what  *)
(* the services report there is one, drawn in the hop's own direction, so  *)
(* no dot goes backwards (flowGraph.ts:253-258, FlowDiagram.tsx:312-316).  *)
THEOREM HopsRideForwards ==
  ASSUME NEW span \in Reported, NEW hop \in HopsOf(span)
  PROVE  /\ EdgesFor(hop) = {Data(hop.from, hop.to)}
         /\ \A e \in EdgesFor(hop) : Forwards(hop, e)
<1>1. Data(hop.from, hop.to) \in FLOW_EDGES
  BY EveryHopIsDrawn DEF Instrumented
<1>2. Data(hop.from, hop.to).from = hop.from /\ Data(hop.from, hop.to).to = hop.to
  BY DEF Data
<1>3. \A e \in EdgesFor(hop) : e = Data(hop.from, hop.to)
  BY <1>1, <1>2, EdgesAreApart DEF EdgesFor
<1>4. Data(hop.from, hop.to) \in EdgesFor(hop)
  BY <1>1, <1>2 DEF EdgesFor
<1>. QED
  BY <1>2, <1>3, <1>4 DEF Forwards

(* The pulses that share a label are pulses of one hop: none hides the     *)
(* latency of another edge, or of the way back (FlowDiagram.tsx:180-190).  *)
THEOREM LabelsAreOfOneHop ==
  ASSUME NEW s \in Reported, NEW t \in Reported,
         NEW g \in HopsOf(s), NEW h \in HopsOf(t), LabelGroup(g) = LabelGroup(h)
  PROVE  g = h
<1>1. Data(g.from, g.to) \in FLOW_EDGES /\ Data(h.from, h.to) \in FLOW_EDGES
  BY EveryHopIsDrawn DEF Instrumented
<1>2. \/ g.from = h.from /\ g.to = h.to
      \/ g.from = h.to /\ g.to = h.from
  BY DEF LabelGroup
<1>3. Data(g.from, g.to) = Data(h.from, h.to)
  BY <1>1, <1>2, EdgesAreApart DEF Data
<1>4. g.from = h.from /\ g.to = h.to
  BY <1>3 DEF Data
<1>5. g \in [from : FLOW_NODES, to : FLOW_NODES] /\ h \in [from : FLOW_NODES, to : FLOW_NODES]
  BY DEF HopsOf
<1>. QED
  BY <1>4, <1>5

(* Every edge that says it is instrumented pulses for something a service  *)
(* reports: none is drawn on a promise (flowGraph.ts:88-92, 94-120).       *)
THEOREM EveryEdgeHasASpan ==
  ASSUME NEW e \in Instrumented
  PROVE  \E span \in Reported : Hop(e.from, e.to) \in HopsOf(span)
<1>. DEFINE Of(span, from, to) == span \in Reported /\ Hop(from, to) \in HopsOf(span)
<1>1. Of(Span("menu-service", "http.PUT"), "merchant-web", "menu-service")
  BY DEF Of, Span, Reported, HttpSpans, Services, HopsOf, Hop, Http, Caller, FLOW_NODES
<1>2. Of(Span("availability-service", "http.PUT"), "merchant-web", "availability-service")
  BY DEF Of, Span, Reported, HttpSpans, Services, HopsOf, Hop, Http, Caller, FLOW_NODES
<1>3. Of(Span("pos-ingest", "http.POST"), "merchant-web", "pos-ingest")
  BY DEF Of, Span, Reported, HttpSpans, Services, HopsOf, Hop, Http, Caller, FLOW_NODES
<1>4. Of(Span("storefront-api", "http.GET"), "external-client", "storefront-api")
  BY DEF Of, Span, Reported, HttpSpans, Services, HopsOf, Hop, Http, Caller, FLOW_NODES
<1>5. Of(Span("menu-service", "db.commit items"), "menu-service", "postgres-menu")
  BY DEF Of, Span, Reported, MenuSpans, HopsOf, Hop, FLOW_NODES, Services
<1>6. Of(Span("menu-service", "kafka.publish menu.events"), "postgres-menu", "kafka-menu-events")
  BY DEF Of, Span, Reported, MenuSpans, HopsOf, Hop, FLOW_NODES, Services
<1>7. Of(Span("availability-service", "kafka.consume menu.events"),
         "kafka-menu-events", "availability-service")
  BY DEF Of, Span, Reported, AvailabilitySpans, HopsOf, Hop, FLOW_NODES, Services
<1>8. Of(Span("availability-service", "db.commit processed_events"),
         "availability-service", "postgres-dedupe")
  BY DEF Of, Span, Reported, AvailabilitySpans, HopsOf, Hop, FLOW_NODES, Services
<1>9. Of(Span("availability-service", "redis.write availability"), "availability-service", "redis")
  BY DEF Of, Span, Reported, AvailabilitySpans, HopsOf, Hop, FLOW_NODES, Services
<1>10. Of(Span("pos-ingest", "db.commit sync_runs"), "pos-ingest", "postgres-sync")
  BY DEF Of, Span, Reported, PosSpans, HopsOf, Hop, FLOW_NODES, Services
<1>11. Of(Span("pos-ingest", "kafka.publish pos.sync"), "pos-ingest", "kafka-pos-sync")
  BY DEF Of, Span, Reported, PosSpans, HopsOf, Hop, FLOW_NODES, Services, Publish
<1>12. \A s \in Services : Of(Span(s, "http.GET"), s, "trace-collector")
  BY DEF Of, Span, Reported, HttpSpans, HopsOf, Hop, FLOW_NODES, Services
<1>13. \/ e.from \in Services /\ e.to = "trace-collector"
       \/ e.from = "merchant-web" /\ e.to = "menu-service"
       \/ e.from = "merchant-web" /\ e.to = "availability-service"
       \/ e.from = "merchant-web" /\ e.to = "pos-ingest"
       \/ e.from = "external-client" /\ e.to = "storefront-api"
       \/ e.from = "menu-service" /\ e.to = "postgres-menu"
       \/ e.from = "postgres-menu" /\ e.to = "kafka-menu-events"
       \/ e.from = "kafka-menu-events" /\ e.to = "availability-service"
       \/ e.from = "availability-service" /\ e.to = "postgres-dedupe"
       \/ e.from = "availability-service" /\ e.to = "redis"
       \/ e.from = "pos-ingest" /\ e.to = "postgres-sync"
       \/ e.from = "pos-ingest" /\ e.to = "kafka-pos-sync"
  BY DEF Instrumented, FLOW_EDGES, Data, Silent, Services
<1>14. \E span : Of(span, e.from, e.to)
  <2>. HIDE DEF Of
  <2>1. CASE e.from \in Services /\ e.to = "trace-collector"
    BY <1>12, <2>1
  <2>2. CASE ~(e.from \in Services /\ e.to = "trace-collector")
    BY <1>1, <1>2, <1>3, <1>4, <1>5, <1>6, <1>7, <1>8, <1>9, <1>10, <1>11, <1>13, <2>2, Zenon
  <2>. QED
    BY <2>1, <2>2
<1>. QED
  BY <1>14 DEF Of
-----------------------------------------------------------------------------
USE FeedAssumption, TourAssumption

(* Only what is served is reported, and only a consumed event is replayed. *)
Genuine(s) ==
    /\ s \in Spans
    /\ request[s.write] # "unsent"
    /\ s.kind \in What[s.write] \/ (s.kind = "replay" /\ "consume" \in What[s.write])

Sound ==
    /\ request \in [Write -> {"unsent", "served", "answered", "lost"}]
    /\ \A s \in topic \cup stored : Genuine(s)
    /\ spans \in Seq(stored)
    /\ lastWrite \in Write \cup {None}
    /\ lastWrite \in Write => request[lastWrite] = "answered"
    /\ trace \in [Write -> SUBSET stored]

(* While no span was delivered twice, those up to the last processed one   *)
(* have pulsed and no other has.                                           *)
Tracked ==
    /\ twice \in BOOLEAN /\ due \in BOOLEAN /\ (due => spans # <<>>)
    /\ drawn \in Seq(Nat) /\ Len(drawn) = Len(spans)
    /\ last \in stored \cup {NoSpan}
    /\ ~twice =>
        /\ topic \cap stored = {}
        /\ \A i, j \in DOMAIN spans : spans[i] = spans[j] => i = j
        /\ \A i \in DOMAIN spans :
              drawn[i] = IF \E j \in DOMAIN spans : i <= j /\ spans[j] = last THEN 1 ELSE 0
        /\ ~due /\ spans # <<>> => spans[Len(spans)] = last

IInv == Sound /\ Tracked

-----------------------------------------------------------------------------
LEMMA Kinds ==
  /\ DOMAIN Reports = {"put", "override", "publish", "consume", "replay"}
  /\ \A k \in {"put", "publish"} : Reports[k].service = "menu-service"
  /\ \A k \in {"override", "consume", "replay"} : Reports[k].service = "availability-service"
  /\ \A k \in DOMAIN Reports : Reports[k].operation = "http.PUT" => k \in {"put", "override"}
<1>1. DOMAIN Reports = {"put", "override", "publish", "consume", "replay"}
  BY DEF Reports
<1>2. /\ Reports["put"].service = "menu-service" /\ Reports["put"].operation = "http.PUT"
      /\ Reports["publish"].service = "menu-service"
      /\ Reports["publish"].operation = "kafka.publish menu.events"
  BY DEF Reports, Span
<1>3. /\ Reports["override"].service = "availability-service"
      /\ Reports["consume"].service = "availability-service"
      /\ Reports["consume"].operation = "kafka.consume menu.events"
      /\ Reports["replay"].service = "availability-service"
      /\ Reports["replay"].operation = "kafka.consume menu.events"
  BY DEF Reports, Span
<1>. QED
  BY <1>1, <1>2, <1>3

LEMMA NoSpanIsNone == NoSpan \notin Spans
  BY Kinds DEF NoSpan, Spans

(* Every span of the feed pulses some hop, the one to trace-collector.     *)
LEMMA EveryReportPulses == \A k \in DOMAIN Reports : HopsOf(Reports[k]) # {}
<1>. SUFFICES ASSUME NEW k \in DOMAIN Reports
     PROVE  Hop(Reports[k].service, "trace-collector") \in HopsOf(Reports[k])
  OBVIOUS
<1>1. Reports[k].service \in {"menu-service", "availability-service"}
  BY Kinds
<1>2. Hop(Reports[k].service, "trace-collector") \in [from : FLOW_NODES, to : FLOW_NODES]
  BY <1>1 DEF Hop, FLOW_NODES, Services
<1>. QED
  BY <1>2 DEF HopsOf

(* What one more message does to the buffer and to what runs along it.     *)
LEMMA KeptAndAppended ==
  ASSUME NEW S, NEW b \in Seq(S), NEW x \in S,
         NEW k, k = (IF Len(b) < MAX_BUFFERED_SPANS THEN 0 ELSE 1)
  PROVE  /\ Append(Kept(b), x) \in Seq(S)
         /\ Len(Append(Kept(b), x)) = Len(b) - k + 1
         /\ \A i \in 1 .. Len(b) - k : Append(Kept(b), x)[i] = b[i + k]
         /\ Append(Kept(b), x)[Len(b) - k + 1] = x
<1>1. CASE Len(b) < MAX_BUFFERED_SPANS
  BY <1>1 DEF Kept
<1>2. CASE ~(Len(b) < MAX_BUFFERED_SPANS)
  <2>1. b # <<>>
    BY <1>2 DEF FeedAssumption
  <2>2. /\ Tail(b) \in Seq(S) /\ Len(Tail(b)) = Len(b) - 1
        /\ \A i \in 1 .. Len(b) - 1 : Tail(b)[i] = b[i + 1]
    BY <2>1
  <2>. QED
    BY <1>2, <2>2 DEF Kept
<1>. QED
  BY <1>1, <1>2

-----------------------------------------------------------------------------
LEMMA InitSound == TourInit => IInv
<1>. SUFFICES ASSUME TourInit
     PROVE  Sound /\ Tracked
  BY DEF IInv
<1>1. Sound
  <2>1. request \in [Write -> {"unsent", "served", "answered", "lost"}]
    BY DEF TourInit
  <2>2. trace \in [Write -> SUBSET stored]
    BY DEF TourInit
  <2>. QED
    BY <2>1, <2>2 DEF TourInit, FeedInit, Sound, TourAssumption
<1>2. Tracked
  <2>1. /\ spans = <<>> /\ drawn = <<>> /\ topic = {} /\ last = NoSpan
        /\ due = FALSE /\ twice = FALSE
    BY DEF TourInit, FeedInit
  <2>2. Len(spans) = 0 /\ DOMAIN spans = {} /\ drawn \in Seq(Nat) /\ Len(drawn) = 0
    BY <2>1
  <2>. QED
    BY <2>1, <2>2 DEF Tracked
<1>. QED
  BY <1>1, <1>2

(* A message, of a span that is stored by then.                            *)
LEMMA MessageKeepsIInv ==
  ASSUME IInv, NEW span \in stored', OnMessage(span),
         topic' \subseteq topic, stored \subseteq stored', \A s \in stored' : Genuine(s),
         UNCHANGED <<request, lastWrite, trace>>, twice' \in BOOLEAN,
         ~twice' => ~twice /\ span \in topic /\ span \notin topic' /\ stored' = stored \cup {span}
  PROVE  IInv'
<1>. DEFINE k == IF Len(spans) < MAX_BUFFERED_SPANS THEN 0 ELSE 1
            n == Len(spans) - k + 1
<1>0. k = (IF Len(spans) < MAX_BUFFERED_SPANS THEN 0 ELSE 1)
  OBVIOUS
<1>1. spans \in Seq(stored') /\ drawn \in Seq(Nat) /\ Len(drawn) = Len(spans)
  BY DEF IInv, Sound, Tracked
<1>2. /\ spans' \in Seq(stored') /\ Len(spans') = n
      /\ \A i \in 1 .. n - 1 : spans'[i] = spans[i + k]
      /\ spans'[n] = span
  <2>1. /\ Append(Kept(spans), span) \in Seq(stored')
        /\ Len(Append(Kept(spans), span)) = Len(spans) - k + 1
        /\ \A i \in 1 .. Len(spans) - k : Append(Kept(spans), span)[i] = spans[i + k]
        /\ Append(Kept(spans), span)[Len(spans) - k + 1] = span
    <3>1. spans \in Seq(stored') /\ span \in stored'
      BY <1>1
    <3>. HIDE DEF k, n
    <3>. QED
      BY <3>1, <1>0, KeptAndAppended, SMTT(60)
  <2>2. spans' = Append(Kept(spans), span)
    BY DEF OnMessage
  <2>3. n - 1 = Len(spans) - k
    BY <1>0, <1>1
  <2>. QED
    BY <2>1, <2>2, <2>3
<1>3. /\ drawn' \in Seq(Nat) /\ Len(drawn') = n
      /\ \A i \in 1 .. n - 1 : drawn'[i] = drawn[i + k]
      /\ drawn'[n] = 0
  <2>1. /\ Append(Kept(drawn), 0) \in Seq(Nat)
        /\ Len(Append(Kept(drawn), 0)) = Len(drawn) - k + 1
        /\ \A i \in 1 .. Len(drawn) - k : Append(Kept(drawn), 0)[i] = drawn[i + k]
        /\ Append(Kept(drawn), 0)[Len(drawn) - k + 1] = 0
    <3>1. k = (IF Len(drawn) < MAX_BUFFERED_SPANS THEN 0 ELSE 1)
      BY <1>0, <1>1
    <3>. DEFINE S == Nat
    <3>2. 0 \in S /\ drawn \in Seq(S)
      BY <1>1
    <3>3. /\ Append(Kept(drawn), 0) \in Seq(S)
          /\ Len(Append(Kept(drawn), 0)) = Len(drawn) - k + 1
          /\ \A i \in 1 .. Len(drawn) - k : Append(Kept(drawn), 0)[i] = drawn[i + k]
          /\ Append(Kept(drawn), 0)[Len(drawn) - k + 1] = 0
      <4>. HIDE DEF k, S
      <4>. QED
        BY <3>1, <3>2, KeptAndAppended
    <3>. QED
      BY <3>3
  <2>2. drawn' = Append(Kept(drawn), 0)
    BY DEF OnMessage
  <2>3. n = Len(drawn) - k + 1 /\ n - 1 = Len(drawn) - k
    BY <1>0, <1>1
  <2>. HIDE DEF k, n
  <2>. QED
    BY <2>1, <2>2, <2>3
<1>4. due' = TRUE /\ last' = last
  BY DEF OnMessage
<1>5. Sound'
  BY <1>2 DEF IInv, Sound, Genuine
<1>6. ASSUME ~twice'
      PROVE  /\ topic' \cap stored' = {}
             /\ \A i, j \in DOMAIN spans' : spans'[i] = spans'[j] => i = j
             /\ \A i \in DOMAIN spans' :
                   drawn'[i] = IF \E j \in DOMAIN spans' : i <= j /\ spans'[j] = last' THEN 1 ELSE 0
  <2>. DEFINE m == Len(spans)
  <2>1. /\ ~twice /\ span \in topic /\ topic \cap stored = {}
        /\ last \in stored \cup {NoSpan} /\ NoSpan \notin topic
        /\ \A i, j \in 1 .. m : spans[i] = spans[j] => i = j
        /\ \A i \in 1 .. m :
              drawn[i] = IF \E j \in 1 .. m : i <= j /\ spans[j] = last THEN 1 ELSE 0
    <3>1. DOMAIN spans = 1 .. m
      BY <1>1
    <3>. QED
      BY <1>6, <3>1, NoSpanIsNone DEF IInv, Sound, Genuine, Tracked
  <2>2. span # last /\ \A i \in 1 .. m : spans[i] # span
    BY <2>1 DEF IInv, Sound
  <2>3. m \in Nat /\ k \in {0, 1} /\ n = m - k + 1 /\ (k = 1 => m >= 1)
    BY <1>1 DEF FeedAssumption
  <2>. HIDE DEF k, m, n
  <2>4. \A i, j \in 1 .. n : spans'[i] = spans'[j] => i = j
    <3>. SUFFICES ASSUME NEW i \in 1 .. n, NEW j \in 1 .. n, spans'[i] = spans'[j]
         PROVE  i = j
      OBVIOUS
    <3>1. CASE i = n /\ j = n
      BY <3>1
    <3>2. CASE i # n /\ j # n
      <4>1. i \in 1 .. n - 1 /\ j \in 1 .. n - 1 /\ i + k \in 1 .. m /\ j + k \in 1 .. m
        BY <2>3, <3>2
      <4>2. i + k = j + k
        BY <1>2, <2>1, <4>1
      <4>. QED
        BY <2>3, <4>2
    <3>3. CASE i = n /\ j # n
      <4>1. j \in 1 .. n - 1 /\ j + k \in 1 .. m
        BY <2>3, <3>3
      <4>. QED
        BY <1>2, <2>2, <3>3, <4>1
    <3>4. CASE i # n /\ j = n
      <4>1. i \in 1 .. n - 1 /\ i + k \in 1 .. m
        BY <2>3, <3>4
      <4>. QED
        BY <1>2, <2>2, <3>4, <4>1
    <3>. QED
      BY <3>1, <3>2, <3>3, <3>4
  <2>5. ASSUME NEW i \in 1 .. n
        PROVE  drawn'[i] = IF \E j \in 1 .. n : i <= j /\ spans'[j] = last THEN 1 ELSE 0
    <3>1. CASE i = n
      <4>1. ~ \E j \in 1 .. n : i <= j /\ spans'[j] = last
        BY <1>2, <2>2, <2>3, <3>1
      <4>. QED
        BY <1>3, <3>1, <4>1
    <3>2. CASE i # n
      <4>1. i \in 1 .. n - 1 /\ i + k \in 1 .. m
        BY <2>3, <3>2
      <4>2. (\E j \in 1 .. n : i <= j /\ spans'[j] = last)
              <=> (\E j \in 1 .. m : i + k <= j /\ spans[j] = last)
        <5>1. ASSUME NEW j \in 1 .. n, i <= j, spans'[j] = last
              PROVE  \E l \in 1 .. m : i + k <= l /\ spans[l] = last
          <6>1. j # n
            BY <1>2, <2>2, <5>1
          <6>2. j \in 1 .. n - 1 /\ j + k \in 1 .. m /\ i + k <= j + k
            BY <2>3, <5>1, <6>1
          <6>. QED
            BY <1>2, <5>1, <6>2
        <5>2. ASSUME NEW j \in 1 .. m, i + k <= j, spans[j] = last
              PROVE  \E l \in 1 .. n : i <= l /\ spans'[l] = last
          <6>1. j - k \in 1 .. n - 1 /\ i <= j - k /\ (j - k) + k = j
            BY <2>3, <5>2
          <6>2. spans'[j - k] = spans[(j - k) + k]
            BY <1>2, <6>1
          <6>3. j - k \in 1 .. n
            BY <2>3, <6>1
          <6>. QED
            BY <5>2, <6>1, <6>2, <6>3
        <5>. QED
          BY <5>1, <5>2
      <4>. QED
        BY <1>3, <2>1, <4>1, <4>2
    <3>. QED
      BY <3>1, <3>2
  <2>6. DOMAIN spans' = 1 .. n
    BY <1>2
  <2>7. topic' \cap stored' = {}
    BY <1>6, <2>1
  <2>. QED
    BY <1>4, <2>4, <2>5, <2>6, <2>7
<1>7. last' \in stored' \cup {NoSpan} /\ spans' # <<>>
  <2>1. n >= 1
    BY <1>1 DEF FeedAssumption
  <2>. QED
    BY <1>2, <1>4, <2>1 DEF IInv, Tracked
<1>. QED
  BY <1>2, <1>3, <1>4, <1>5, <1>6, <1>7 DEF IInv, Tracked

(* A diagram that is mounted has processed nothing.                        *)
LEMMA MountKeepsTracked ==
  ASSUME IInv, NEW b \in Seq(stored), Mounted(b), spans' = b,
         UNCHANGED collector,
         ~twice => \A i, j \in DOMAIN b : b[i] = b[j] => i = j
  PROVE  Tracked'
<1>1. drawn' \in Seq(Nat) /\ Len(drawn') = Len(b) /\ \A i \in DOMAIN b : drawn'[i] = 0
  BY DEF Mounted
<1>2. last' = NoSpan /\ due' = (b # <<>>)
  BY DEF Mounted
<1>3. /\ NoSpan \notin topic
      /\ \A i \in DOMAIN b : b[i] # NoSpan
  BY NoSpanIsNone DEF IInv, Sound, Genuine
<1>. QED
  BY <1>1, <1>2, <1>3 DEF IInv, Tracked, collector

(* The effect: what comes after the last processed span is new to it.      *)
LEMMA ProcessKeepsTracked ==
  ASSUME IInv, ProcessSpans
  PROVE  Tracked'
<1>. DEFINE n == Len(spans)
<1>1. /\ spans \in Seq(stored) /\ n \in Nat /\ DOMAIN spans = 1 .. n /\ spans' = spans
      /\ drawn \in Seq(Nat) /\ DOMAIN drawn = 1 .. n
      /\ topic' = topic /\ stored' = stored /\ twice' = twice /\ due' = FALSE /\ twice \in BOOLEAN
  BY DEF IInv, Sound, Tracked, ProcessSpans, collector
<1>2. \A i \in 1 .. n : spans[i].kind \in DOMAIN Reports
  BY <1>1 DEF IInv, Sound, Genuine, Spans
<1>3. \A i \in 1 .. n : drawn'[i] = IF i > LastIndex THEN drawn[i] + 1 ELSE drawn[i]
  BY <1>1, <1>2, EveryReportPulses DEF ProcessSpans
<1>4. drawn' \in Seq(Nat) /\ Len(drawn') = n
  <2>1. drawn' = [i \in 1 .. n |-> drawn'[i]]
    BY <1>1 DEF ProcessSpans
  <2>2. \A i \in 1 .. n : drawn'[i] \in Nat
    <3>1. \A i \in 1 .. n : drawn[i] \in Nat
      BY <1>1
    <3>. QED
      BY <1>3, <3>1
  <2>. HIDE DEF n
  <2>3. drawn' \in [1 .. n -> Nat]
    BY <2>1, <2>2
  <2>. QED
    BY <1>1, <2>3
<1>5. last' = spans[n]
  BY DEF ProcessSpans
<1>6. ASSUME ~twice, NEW i \in 1 .. n
      PROVE  drawn'[i] = 1
  <2>1. /\ \A a, b \in 1 .. n : spans[a] = spans[b] => a = b
        /\ drawn[i] = IF \E j \in 1 .. n : i <= j /\ spans[j] = last THEN 1 ELSE 0
    BY <1>1, <1>6 DEF IInv, Tracked
  <2>2. CASE \E j \in 1 .. n : spans[j] = last
    <3>1. PICK j \in 1 .. n : spans[j] = last
      BY <2>2
    <3>2. {l \in DOMAIN spans : spans[l] = last} = {j}
      BY <1>1, <2>1, <3>1
    <3>3. LastIndex = j
      BY <3>2, <3>1 DEF LastIndex
    <3>4. (\E l \in 1 .. n : i <= l /\ spans[l] = last) <=> i <= j
      BY <2>1, <3>1
    <3>. QED
      BY <1>1, <1>3, <2>1, <3>1, <3>3, <3>4
  <2>3. CASE ~ \E j \in 1 .. n : spans[j] = last
    <3>1. LastIndex = 0
      BY <1>1, <2>3 DEF LastIndex
    <3>. QED
      BY <1>1, <1>3, <2>1, <2>3, <3>1
  <2>. QED
    BY <2>2, <2>3
<1>7. last' \in stored
  <2>1. n >= 1
    BY <1>1 DEF ProcessSpans, IInv, Tracked
  <2>. QED
    BY <1>1, <1>5, <2>1
<1>. QED
  <2>1. ASSUME ~twice, NEW i \in 1 .. n
        PROVE  \E j \in 1 .. n : i <= j /\ spans[j] = last'
    BY <1>1, <1>5
  <2>2. ASSUME ~twice
        PROVE  topic \cap stored = {} /\ \A i, j \in DOMAIN spans : spans[i] = spans[j] => i = j
    BY <2>2 DEF IInv, Tracked
  <2>. HIDE DEF n
  <2>. QED
    BY <1>1, <1>4, <1>5, <1>6, <1>7, <2>1, <2>2 DEF Tracked, n

-----------------------------------------------------------------------------
(* What is stored stays stored and what is served stays served.            *)
LEMMA StillSound ==
  ASSUME Sound, topic' \cup stored' \subseteq topic \cup stored, stored \subseteq stored',
         UNCHANGED <<request, lastWrite, trace>>, spans' = spans
  PROVE  Sound'
  BY DEF Sound, Genuine

LEMMA StillTracked ==
  ASSUME Tracked, UNCHANGED <<spans, diagram, twice>>, UNCHANGED collector
  PROVE  Tracked'
  BY DEF Tracked, diagram, collector

(* The actions that read spans, in the two forms a broadcast has.          *)
LEMMA RecordsKeepIInv ==
  ASSUME IInv, NEW span, UNCHANGED <<request, browser, page>> \/ UNCHANGED <<request, browser>>,
         ProcessRecord(span) \/ ProcessAgain(span)
  PROVE  IInv'
<1>1. UNCHANGED <<request, lastWrite, trace>>
  BY DEF browser
<1>2. CASE ProcessRecord(span)
  <2>1. /\ span \in topic /\ topic' = topic \ {span} /\ stored' = stored \cup {span}
        /\ twice' = twice
    BY <1>2 DEF ProcessRecord
  <2>2. twice \in BOOLEAN /\ \A s \in stored' : Genuine(s)
    BY <2>1 DEF IInv, Sound, Tracked
  <2>3. CASE OnMessage(span)
    BY <1>1, <2>1, <2>2, <2>3, MessageKeepsIInv
  <2>4. CASE UNCHANGED <<spans, diagram>>
    <3>1. spans \in Seq(stored')
      BY <2>1 DEF IInv, Sound
    <3>2. Sound'
      BY <1>1, <2>1, <2>4, <3>1 DEF IInv, Sound, Genuine
    <3>3. topic' \cap stored' = {} \/ twice
      BY <2>1 DEF IInv, Tracked
    <3>4. Tracked'
      BY <2>1, <2>4, <3>3 DEF IInv, Tracked, diagram
    <3>. QED
      BY <3>2, <3>4 DEF IInv
  <2>. QED
    BY <1>2, <2>3, <2>4 DEF ProcessRecord, Broadcast
<1>3. CASE ProcessAgain(span)
  <2>1. span \in stored /\ topic' = topic /\ stored' = stored /\ twice' = TRUE
    BY <1>3 DEF ProcessAgain
  <2>2. \A s \in stored' : Genuine(s)
    BY <2>1 DEF IInv, Sound
  <2>3. CASE OnMessage(span)
    BY <1>1, <2>1, <2>2, <2>3, MessageKeepsIInv
  <2>4. CASE UNCHANGED <<spans, diagram>>
    <3>1. Sound'
      BY <1>1, <2>1, <2>4, StillSound DEF IInv
    <3>2. Tracked'
      BY <2>1, <2>4 DEF IInv, Tracked, diagram
    <3>. QED
      BY <3>1, <3>2 DEF IInv
  <2>. QED
    BY <1>3, <2>3, <2>4 DEF ProcessAgain, Broadcast
<1>. QED
  BY <1>2, <1>3

(* Spans of a write, reported for the first time.                          *)
LEMMA ReportsKeepIInv ==
  ASSUME IInv, NEW new \in SUBSET Spans, topic' = topic \cup new, new \cap stored = {},
         \A s \in new : Genuine(s)',
         request' \in [Write -> {"unsent", "served", "answered", "lost"}],
         \A w \in Write : /\ request[w] # "unsent" => request'[w] # "unsent"
                          /\ request[w] = "answered" => request'[w] = "answered",
         UNCHANGED <<stored, twice, spans, diagram, lastWrite, trace>>
  PROVE  IInv'
<1>1. \A s \in topic \cup stored : Genuine(s)'
  BY DEF IInv, Sound, Genuine, Spans
<1>2. Sound'
  BY <1>1 DEF IInv, Sound
<1>3. Tracked'
  BY DEF IInv, Tracked, diagram
<1>. QED
  BY <1>2, <1>3 DEF IInv

LEMMA ServeKeepsIInv ==
  ASSUME IInv, NEW w \in Write, Serve(w)
  PROVE  IInv'
<1>. DEFINE new == [write : {w}, kind : What[w]]
<1>1. /\ request[w] = "unsent" /\ request' = [request EXCEPT ![w] = "served"]
      /\ topic' = topic \cup new
      /\ UNCHANGED <<stored, twice, spans, diagram, lastWrite, trace>>
  BY DEF Serve, browser
<1>2. request' \in [Write -> {"unsent", "served", "answered", "lost"}] /\ request'[w] = "served"
  BY <1>1 DEF IInv, Sound
<1>3. What[w] \subseteq DOMAIN Reports
  BY Kinds DEF TourAssumption
<1>4. \A s \in new : Genuine(s)'
  BY <1>2, <1>3 DEF Genuine, Spans
<1>5. new \subseteq Spans /\ new \cap stored = {}
  BY <1>1, <1>3 DEF IInv, Sound, Genuine, Spans
<1>6. \A v \in Write : /\ request[v] # "unsent" => request'[v] # "unsent"
                       /\ request[v] = "answered" => request'[v] = "answered"
  BY <1>1 DEF IInv, Sound
<1>. HIDE DEF new
<1>. QED
  BY <1>1, <1>2, <1>4, <1>5, <1>6, ReportsKeepIInv

LEMMA ReplayKeepsIInv ==
  ASSUME IInv, NEW w \in Write, ReplayLast(w)
  PROVE  IInv'
<1>. DEFINE span == [write |-> w, kind |-> "replay"]
<1>1. /\ request[w] # "unsent" /\ "consume" \in What[w]
      /\ span \notin stored /\ topic' = topic \cup {span}
      /\ UNCHANGED <<request, stored, twice, spans, diagram, lastWrite, trace>>
  BY DEF ReplayLast, browser
<1>2. span \in Spans /\ Genuine(span)'
  BY <1>1, Kinds DEF Genuine, Spans
<1>3. request' \in [Write -> {"unsent", "served", "answered", "lost"}]
  BY <1>1 DEF IInv, Sound
<1>4. /\ {span} \in SUBSET Spans /\ {span} \cap stored = {}
      /\ \A s \in {span} : Genuine(s)'
  BY <1>1, <1>2
<1>. HIDE DEF span
<1>. QED
  BY <1>1, <1>3, <1>4, ReportsKeepIInv

LEMMA RecordKeepsIInv ==
  ASSUME IInv, NEW w \in Write, RecordWrite(w)
  PROVE  IInv'
<1>1. /\ request[w] = "served" /\ request' = [request EXCEPT ![w] = "answered"] /\ lastWrite' = w
      /\ UNCHANGED <<topic, stored, twice, spans, diagram, trace>>
  BY DEF RecordWrite, feed, collector
<1>2. \A s \in topic \cup stored : Genuine(s)'
  BY <1>1 DEF IInv, Sound, Genuine
<1>3. Sound'
  BY <1>1, <1>2 DEF IInv, Sound
<1>4. Tracked'
  BY <1>1 DEF IInv, Tracked, diagram
<1>. QED
  BY <1>3, <1>4 DEF IInv

LEMMA ReloadKeepsIInv ==
  ASSUME IInv, Reload
  PROVE  IInv'
<1>1. /\ spans' = <<>> /\ Mounted(<<>>) /\ UNCHANGED <<collector, lastWrite>>
      /\ request' = [w \in Write |-> IF request[w] = "served" THEN "lost" ELSE request[w]]
      /\ trace' = [w \in Write |-> {}]
  BY DEF Reload
<1>2. \A s \in topic \cup stored : Genuine(s)'
  BY <1>1 DEF IInv, Sound, Genuine, Spans
<1>3. /\ request' \in [Write -> {"unsent", "served", "answered", "lost"}]
      /\ trace' \in [Write -> SUBSET stored]
      /\ spans' \in Seq(stored)
  BY <1>1 DEF IInv, Sound
<1>4. lastWrite' \in Write => request'[lastWrite'] = "answered"
  BY <1>1 DEF IInv, Sound
<1>5. Sound'
  BY <1>1, <1>2, <1>3, <1>4 DEF IInv, Sound, collector
<1>6. Tracked'
  <2>1. <<>> \in Seq(stored) /\ DOMAIN <<>> = {}
    OBVIOUS
  <2>. QED
    BY <1>1, <2>1, MountKeepsTracked
<1>. QED
  BY <1>5, <1>6 DEF IInv

THEOREM NextKeepsIInv == IInv /\ [TourNext]_vars => IInv'
<1>. SUFFICES ASSUME IInv, [TourNext]_vars
     PROVE  IInv'
  OBVIOUS
<1>1. ASSUME NEW w \in Write, Serve(w) \/ RecordWrite(w) \/ ReplayLast(w)
      PROVE  IInv'
  BY <1>1, ServeKeepsIInv, RecordKeepsIInv, ReplayKeepsIInv
<1>2. ASSUME NEW to \in Screen, Navigate(to)
      PROVE  IInv'
  <2>1. Mounted(spans) /\ UNCHANGED <<collector, spans, request, browser>>
    BY <1>2 DEF Navigate
  <2>2. Sound'
    BY <2>1, StillSound DEF IInv, collector, browser
  <2>3. spans \in Seq(stored) /\ (~twice => \A i, j \in DOMAIN spans : spans[i] = spans[j] => i = j)
    BY DEF IInv, Sound, Tracked
  <2>4. Tracked'
    BY <2>1, <2>3, MountKeepsTracked
  <2>. QED
    BY <2>2, <2>4 DEF IInv
<1>3. CASE PollTrace
  <2>1. UNCHANGED <<topic, stored, twice, spans, diagram, request, lastWrite>>
    BY <1>3 DEF PollTrace, feed, collector
  <2>2. trace' \in [Write -> SUBSET stored]
    BY <1>3 DEF PollTrace, SpansOf, IInv, Sound
  <2>3. Sound'
    BY <2>1, <2>2 DEF IInv, Sound, Genuine
  <2>4. Tracked'
    BY <2>1 DEF IInv, Tracked, diagram
  <2>. QED
    BY <2>3, <2>4 DEF IInv
<1>4. CASE Reload
  BY <1>4, ReloadKeepsIInv
<1>5. CASE Feed
  <2>0. UNCHANGED <<request, browser>>
    BY <1>5 DEF Feed
  <2>1. ASSUME NEW s \in topic, ProcessRecord(s)
        PROVE  IInv'
    BY <2>0, <2>1, RecordsKeepIInv
  <2>2. ASSUME NEW s \in stored, ProcessAgain(s)
        PROVE  IInv'
    BY <2>0, <2>2, RecordsKeepIInv
  <2>3. ASSUME NEW s \in topic, SkipRecord(s)
        PROVE  IInv'
    <3>1. topic' \subseteq topic /\ UNCHANGED <<stored, twice, spans, diagram>>
      BY <2>3 DEF SkipRecord
    <3>2. Sound'
      BY <2>0, <3>1, StillSound DEF IInv, browser
    <3>3. Tracked'
      BY <3>1 DEF IInv, Tracked, diagram
    <3>. QED
      BY <3>2, <3>3 DEF IInv
  <2>4. CASE ProcessSpans
    <3>1. UNCHANGED <<collector, spans>>
      BY <2>4 DEF ProcessSpans
    <3>2. Sound'
      BY <2>0, <3>1, StillSound DEF IInv, browser, collector
    <3>. QED
      BY <2>4, <3>2, ProcessKeepsTracked DEF IInv
  <2>5. ASSUME NEW w \in Write, Expire(w)
        PROVE  IInv'
    <3>1. UNCHANGED <<collector, spans, diagram>>
      BY <2>5 DEF Expire
    <3>2. Sound'
      BY <2>0, <3>1, StillSound DEF IInv, browser, collector
    <3>3. Tracked'
      BY <3>1 DEF IInv, Tracked, diagram, collector
    <3>. QED
      BY <3>2, <3>3 DEF IInv
  <2>. QED
    BY <1>5, <2>1, <2>2, <2>3, <2>4, <2>5 DEF Feed
<1>6. CASE UNCHANGED vars
  <2>1. Sound'
    BY <1>6, StillSound DEF IInv, vars, feed, collector, browser
  <2>2. Tracked'
    BY <1>6 DEF IInv, Tracked, vars, feed, collector, diagram
  <2>. QED
    BY <2>1, <2>2 DEF IInv
<1>7. ASSUME NEW w \in Write, CollectTrace(w)
      PROVE  IInv'
  <2>1. UNCHANGED <<topic, stored, twice, spans, diagram, request, lastWrite>>
    BY <1>7 DEF CollectTrace, feed, collector
  <2>2. trace' \in [Write -> SUBSET stored]
    BY <1>7 DEF CollectTrace, IInv, Sound
  <2>3. Sound'
    BY <2>1, <2>2 DEF IInv, Sound, Genuine
  <2>4. Tracked'
    BY <2>1 DEF IInv, Tracked, diagram
  <2>. QED
    BY <2>3, <2>4 DEF IInv
<1>. QED
  BY <1>1, <1>2, <1>3, <1>4, <1>5, <1>6, <1>7 DEF TourNext

THEOREM Invariance == TourSpec => []IInv
<1>1. TourInit => IInv
  BY InitSound
<1>. QED
  BY <1>1, NextKeepsIInv, PTL DEF TourSpec

-----------------------------------------------------------------------------
(* A tick has its evidence, for every set of writes and every buffer: the  *)
(* write was answered here, and the services it names reported on it.      *)
THEOREM TicksAreEarned == TourSpec => []StepsAreEarned
<1>1. ASSUME IInv
      PROVE  StepsAreEarned
  <2>1. \A s \in SpansForLastWrite : Genuine(s) /\ s.write = lastWrite
    <3>1. Buffered \subseteq stored
      BY <1>1 DEF Buffered, IInv, Sound, Range
    <3>2. lastWrite # None => trace[lastWrite] \subseteq stored
      BY <1>1 DEF IInv, Sound
    <3>. QED
      BY <1>1, <3>1, <3>2 DEF SpansForLastWrite, MergedSpans, IInv, Sound
  <2>2. SpansForLastWrite # {} => lastWrite \in Write /\ request[lastWrite] = "answered"
    BY <1>1, <2>1 DEF Genuine, Spans, IInv, Sound
  <2>3. ASSUME Done.edit
        PROVE  /\ lastWrite \in Write /\ request[lastWrite] = "answered"
               /\ What[lastWrite] \cap {"put", "override"} # {}
    <3>1. PICK s \in SpansForLastWrite : Operation(s) = "http.PUT"
      BY <2>3 DEF Done
    <3>2. s.kind \in {"put", "override"}
      BY <2>1, <3>1, Kinds DEF Genuine, Spans, Operation
    <3>. QED
      BY <2>1, <2>2, <3>1, <3>2 DEF Genuine
  <2>4. ASSUME Done.propagate
        PROVE  /\ lastWrite \in Write /\ request[lastWrite] = "answered"
               /\ "consume" \in What[lastWrite]
    <3>. DEFINE services == {Service(s) : s \in SpansForLastWrite}
    <3>1. Cardinality(services) >= 2
      BY <2>4 DEF Done
    <3>2. ASSUME NEW x, services \subseteq {x}
          PROVE  FALSE
      <4>1. IsFiniteSet({x}) /\ Cardinality({x}) = 1
        BY FS_Singleton
      <4>2. Cardinality(services) <= 1
        BY <3>2, <4>1, FS_Subset
      <4>3. Cardinality(services) \in Nat
        BY <3>2, <4>1, FS_Subset, FS_CardinalityType
      <4>. QED
        BY <3>1, <4>2, <4>3
    <3>3. SpansForLastWrite # {}
      BY <3>2
    <3>4. ASSUME "consume" \notin What[lastWrite]
          PROVE  FALSE
      <4>1. CASE "override" \in What[lastWrite]
        <5>1. \A s \in SpansForLastWrite : s.kind = "override"
          BY <2>1, <2>2, <3>3, <3>4, <4>1 DEF Genuine, TourAssumption
        <5>2. services \subseteq {"availability-service"}
          BY <5>1, Kinds DEF Service
        <5>. QED
          BY <3>2, <5>2
      <4>2. CASE "override" \notin What[lastWrite]
        <5>1. \A s \in SpansForLastWrite : s.kind \in {"put", "publish"}
          BY <2>1, <2>2, <3>3, <3>4, <4>2, Kinds DEF Genuine, TourAssumption
        <5>2. services \subseteq {"menu-service"}
          BY <5>1, Kinds DEF Service
        <5>. QED
          BY <3>2, <5>2
      <4>. QED
        BY <4>1, <4>2
    <3>. QED
      BY <2>2, <3>3, <3>4
  <2>. QED
    BY <2>3, <2>4 DEF StepsAreEarned
<1>. QED
  BY <1>1, Invariance, PTL

(* No burst, overflow or change of screen hides a span from the diagram or *)
(* shows it twice, whatever the size of the buffer, while records are read *)
(* once each.                                                              *)
THEOREM SpansAreDrawnOnce == TourSpec => []DrawnOncePerArrival
<1>1. ASSUME IInv
      PROVE  DrawnOncePerArrival
  <2>. SUFFICES ASSUME ~twice, NEW i \in DOMAIN drawn
       PROVE  drawn[i] <= 1 /\ (~due => drawn[i] = 1)
    BY DEF DrawnOncePerArrival
  <2>1. /\ spans \in Seq(stored) /\ DOMAIN drawn = DOMAIN spans
        /\ drawn[i] = IF \E j \in DOMAIN spans : i <= j /\ spans[j] = last THEN 1 ELSE 0
        /\ ~due /\ spans # <<>> => spans[Len(spans)] = last
    <3>1. DOMAIN drawn = DOMAIN spans
      BY <1>1 DEF IInv, Sound, Tracked
    <3>. QED
      BY <1>1, <3>1 DEF IInv, Sound, Tracked
  <2>2. Len(spans) \in DOMAIN spans /\ i <= Len(spans) /\ spans # <<>>
    BY <2>1
  <2>. QED
    BY <2>1, <2>2
<1>. QED
  BY <1>1, Invariance, PTL

(* Nothing unticks a step but a reload, a later answer, or spans that are  *)
(* lost: by the buffer before the trace had them, or with a trace that the *)
(* query cache drops off the screen. A poll never takes a tick back.       *)
THEOREM TicksAreKept == TourSpec => TicksStay
<1>. DEFINE Counted == reloads \in Nat
<1>1. ASSUME IInv, Counted, [TourNext]_vars
      PROVE  KeepsTicks
  <2>. SUFFICES ASSUME reloads' = reloads, lastWrite' = lastWrite,
                       \A s \in Buffered \ Buffered' :
                          s.write = lastWrite => s \in trace[lastWrite],
                       screen = "start" \/ trace[lastWrite] \subseteq trace'[lastWrite] \cup Buffered
       PROVE  (Done.edit => Done.edit') /\ (Done.propagate => Done.propagate')
    BY DEF KeepsTicks
  <2>1. ASSUME NEW s \in trace[lastWrite], lastWrite # None, s.write = lastWrite
        PROVE  s \in trace'[lastWrite] \/ s \in Buffered'
    <3>1. lastWrite \in Write /\ trace[lastWrite] \subseteq stored
      BY <1>1, <2>1 DEF IInv, Sound
    <3>2. CASE PollTrace
      BY <1>1, <2>1, <3>1, <3>2 DEF PollTrace, SpansOf, IInv, Sound
    <3>3. CASE Reload
      BY <1>1, <3>3 DEF Reload
    <3>4. CASE \E w \in Write : CollectTrace(w)
      <4>1. PICK w \in Write : CollectTrace(w)
        BY <3>4
      <4>2. /\ Buffered' = Buffered
            /\ trace' = [trace EXCEPT ![w] = {}] /\ (screen = "start" => lastWrite # w)
        BY <4>1 DEF CollectTrace, feed, Buffered
      <4>3. screen = "start" => trace'[lastWrite] = trace[lastWrite]
        BY <1>1, <3>1, <4>2 DEF IInv, Sound
      <4>. QED
        BY <2>1, <4>2, <4>3
    <3>5. CASE ~PollTrace /\ ~Reload /\ ~\E w \in Write : CollectTrace(w)
      <4>1. UNCHANGED trace
        BY <1>1, <3>5 DEF TourNext, Serve, RecordWrite, ReplayLast, Navigate, Feed, browser, vars
      <4>. QED
        BY <2>1, <4>1
    <3>. QED
      BY <3>2, <3>3, <3>4, <3>5
  <2>2. SpansForLastWrite \subseteq SpansForLastWrite'
    <3>1. CASE lastWrite = None
      <4>1. \A s \in Buffered : s.write \in Write
        BY <1>1 DEF Buffered, IInv, Sound, Genuine, Spans, Range
      <4>. QED
        BY <3>1, <4>1 DEF SpansForLastWrite, MergedSpans, TourAssumption
    <3>2. CASE lastWrite # None
      <4>. SUFFICES ASSUME NEW s \in SpansForLastWrite
           PROVE  s \in SpansForLastWrite'
        OBVIOUS
      <4>1. s.write = lastWrite /\ (s \in Buffered \/ s \in trace[lastWrite])
        BY <3>2 DEF SpansForLastWrite, MergedSpans
      <4>2. s \in Buffered' \/ s \in trace'[lastWrite]
        BY <2>1, <3>2, <4>1
      <4>. QED
        BY <3>2, <4>1, <4>2 DEF SpansForLastWrite, MergedSpans
    <3>. QED
      BY <3>1, <3>2
  <2>3. Done.edit => Done.edit'
    BY <2>2 DEF Done, Operation
  <2>4. Done.propagate => Done.propagate'
    <3>. DEFINE services == {Service(s) : s \in SpansForLastWrite}
                later == {Service(s) : s \in SpansForLastWrite'}
    <3>1. services \subseteq later
      BY <2>2
    <3>2. later \subseteq {"menu-service", "availability-service"}
      <4>1. IInv'
        BY <1>1, NextKeepsIInv
      <4>2. \A s \in stored' : s.kind \in DOMAIN Reports
        BY <4>1 DEF IInv, Sound, Genuine, Spans
      <4>3. Buffered' \subseteq stored'
        BY <4>1 DEF Buffered, IInv, Sound, Range
      <4>4. (lastWrite # None => trace[lastWrite] \subseteq stored)'
        BY <4>1 DEF IInv, Sound
      <4>5. SpansForLastWrite' \subseteq stored'
        BY <4>3, <4>4 DEF SpansForLastWrite, MergedSpans
      <4>. QED
        BY <4>2, <4>5, Kinds DEF Service
    <3>3. IsFiniteSet({"menu-service", "availability-service"})
      <4>1. IsFiniteSet({"menu-service"} \cup {"availability-service"})
        BY FS_Singleton, FS_Union
      <4>. QED
        BY <4>1
    <3>4. IsFiniteSet(later) /\ IsFiniteSet(services)
      BY <3>1, <3>2, <3>3, FS_Subset
    <3>5. Cardinality(services) <= Cardinality(later)
      BY <3>1, <3>4, FS_Subset
    <3>6. Cardinality(services) \in Nat /\ Cardinality(later) \in Nat
      BY <3>4, FS_CardinalityType
    <3>7. Done.propagate <=> (Cardinality(services) >= 2)
      BY DEF Done
    <3>8. Done.propagate' <=> (Cardinality(later) >= 2)
      BY DEF Done, Service
    <3>9. Cardinality(services) >= 2 => Cardinality(later) >= 2
      <4>. HIDE DEF services, later
      <4>. QED
        BY <3>5, <3>6
    <3>. QED
      BY <3>7, <3>8, <3>9
  <2>. QED
    BY <2>3, <2>4
<1>2. TourInit => Counted
  BY DEF TourInit
<1>3. Counted /\ [TourNext]_vars => Counted'
  <2>. SUFFICES ASSUME reloads \in Nat, [TourNext]_vars
       PROVE  reloads' \in Nat
    OBVIOUS
  <2>1. CASE Reload
    BY <2>1 DEF Reload
  <2>2. CASE ~Reload
    <3>1. UNCHANGED reloads
      BY <2>2 DEF TourNext, Serve, RecordWrite, ReplayLast, CollectTrace, Navigate, PollTrace,
                   Feed, page, vars
    <3>. QED
      BY <3>1
  <2>. QED
    BY <2>1, <2>2
<1>4. TourSpec => []Counted
  <2>. HIDE DEF Counted
  <2>. QED
    BY <1>2, <1>3, PTL DEF TourSpec
<1>. HIDE DEF Counted
<1>. QED
  BY <1>1, <1>4, Invariance, PTL DEF TourSpec, TicksStay
-----------------------------------------------------------------------------
(* Induction over the naturals, with the bad numbers as a set.             *)
LEMMA LeastElement ==
  ASSUME NEW S \in SUBSET Nat, S # {}
  PROVE  \E n \in S : \A m \in S : n <= m
<1>1. \E R : IsWellFoundedOn(R, Nat) /\ \A m, n \in Nat : m < n => <<m, n>> \in R
  <2>1. \A m, n \in Nat : m < n => <<m, n>> \in OpToRel(<, Nat)
    BY DEF OpToRel
  <2> QED
    BY <2>1, NatLessThanWellFounded
<1>2. PICK R : IsWellFoundedOn(R, Nat) /\ \A m, n \in Nat : m < n => <<m, n>> \in R
  BY <1>1
<1>3. IsWellFoundedOn(R, Nat) /\ S \subseteq Nat
  BY <1>2
<1>4. PICK n \in S : \A m \in S : ~(<<m, n>> \in R)
  BY <1>3, WFMin, Zenon
<1>5. ASSUME NEW m \in S PROVE n <= m
  <2>1. m \in Nat /\ n \in Nat
    BY <1>3
  <2>2. ~(m < n)
    BY <1>2, <1>4, <2>1
  <2> QED
    BY <2>1, <2>2
<1> QED
  BY <1>5

(* f[0] is base, and the other values are defined from the previous one.   *)
Recursion(f, n, base, step) ==
    f = [i \in 0 .. n |-> IF i = 0 THEN base ELSE step[i][f[i - 1]]]

(* Such a function exists.                                                 *)
LEMMA RecursionExists ==
  ASSUME NEW n \in Nat, NEW M, NEW base \in M, NEW step \in [1 .. n -> [M -> M]]
  PROVE  \E f \in [0 .. n -> M] : Recursion(f, n, base, step)
<1> DEFINE G(k) == \E f \in [0 .. k -> M] :
                      f = [i \in 0 .. k |-> IF i = 0 THEN base ELSE step[i][f[i - 1]]]
           Bad == {k \in 0 .. n : ~G(k)}
<1>1. G(0)
  <2> DEFINE f == [i \in 0 .. 0 |-> base]
  <2>1. f \in [0 .. 0 -> M]
    OBVIOUS
  <2>2. \A i \in 0 .. 0 : i = 0 /\ f[i] = base
    OBVIOUS
  <2>3. f = [i \in 0 .. 0 |-> IF i = 0 THEN base ELSE step[i][f[i - 1]]]
    BY <2>2
  <2> QED
    BY <2>1, <2>3
<1>2. ASSUME NEW k \in 1 .. n, G(k - 1) PROVE G(k)
  <2>1. PICK f \in [0 .. k - 1 -> M] :
          f = [i \in 0 .. k - 1 |-> IF i = 0 THEN base ELSE step[i][f[i - 1]]]
    BY <1>2
  <2>2. /\ k - 1 \in 0 .. k - 1 /\ k \in Nat
        /\ \A i \in 0 .. k : i = k \/ i \in 0 .. k - 1
        /\ \A i \in 0 .. k : i # 0 => i - 1 \in 0 .. k - 1 /\ i \in 1 .. n
    OBVIOUS
  <2> DEFINE g == [i \in 0 .. k |-> IF i = k THEN step[k][f[k - 1]] ELSE f[i]]
  <2>3. g \in [0 .. k -> M]
    BY <2>1, <2>2
  <2>4. \A i \in 0 .. k : g[i] = IF i = 0 THEN base ELSE step[i][g[i - 1]]
    <3> TAKE i \in 0 .. k
    <3>1. \A j \in 0 .. k - 1 : j \in 0 .. k /\ g[j] = f[j]
      BY <2>2
    <3>2. CASE i = k
      <4>1. k # 0 /\ g[k] = step[k][f[k - 1]]
        BY <2>2
      <4> QED
        BY <2>2, <3>1, <3>2, <4>1
    <3>3. CASE i # k
      <4>1. i \in 0 .. k - 1 /\ g[i] = f[i] /\ (i # 0 => g[i - 1] = f[i - 1])
        BY <2>2, <3>1, <3>3
      <4> QED
        BY <2>1, <4>1
    <3> QED
      BY <3>2, <3>3
  <2>5. g = [i \in 0 .. k |-> IF i = 0 THEN base ELSE step[i][g[i - 1]]]
    <3> HIDE DEF g
    <3> QED
      BY <2>3, <2>4
  <2> HIDE DEF g
  <2> QED
    BY <2>3, <2>5
<1> HIDE DEF G
<1>3. Bad = {}
  <2> SUFFICES ASSUME Bad # {} PROVE FALSE
    OBVIOUS
  <2>1. PICK k \in Bad : \A m \in Bad : k <= m
    <3>1. Bad \in SUBSET Nat
      OBVIOUS
    <3> HIDE DEF Bad
    <3> QED
      BY <3>1, LeastElement
  <2>2. k \in 1 .. n /\ k - 1 \in 0 .. n /\ ~(k <= k - 1)
    BY <1>1
  <2>3. G(k - 1)
    BY <2>1, <2>2
  <2> QED
    BY <1>2, <2>2, <2>3
<1>4. G(n)
  BY <1>3
<1> QED
  BY <1>4 DEF G, Recursion

(* What the mapper remembers: a gap has a publish of its own, and so has a *)
(* publish that still waits for its consume.                               *)
Paired(memory) ==
    \A w \in Write :
        memory.pairs[w].gaps + (IF w \in memory.publishes THEN 1 ELSE 0)
            <= memory.pairs[w].published

Memories ==
    {m \in [publishes : SUBSET Write, pairs : [Write -> [published : Nat, gaps : Nat]]] : Paired(m)}

MemoryInv == [publishes |-> publishes, pairs |-> pairs] \in Memories

LEMMA RememberKeepsPairs ==
  ASSUME NEW m \in Memories, NEW span \in Spans
  PROVE  Remember(m, span) \in Memories
<1>. DEFINE w == span.write
            waiting == m.publishes \ old
<1>1. /\ w \in Write /\ waiting \subseteq m.publishes /\ waiting \subseteq Write
      /\ m.pairs \in [Write -> [published : Nat, gaps : Nat]]
      /\ Paired(m)
  BY DEF Spans, Memories
<1>2. CASE Operation(span) = "kafka.publish menu.events"
  <2>. DEFINE p == [m.pairs EXCEPT ![w].published = @ + 1]
  <2>1. Remember(m, span) = [publishes |-> waiting \cup {w}, pairs |-> p]
    BY <1>2 DEF Remember
  <2>2. /\ p \in [Write -> [published : Nat, gaps : Nat]]
        /\ \A v \in Write \ {w} : p[v] = m.pairs[v]
        /\ p[w].published = m.pairs[w].published + 1 /\ p[w].gaps = m.pairs[w].gaps
    BY <1>1
  <2>3. Paired([publishes |-> waiting \cup {w}, pairs |-> p])
    <3>. HIDE DEF p, waiting, w
    <3>. QED
      BY <1>1, <2>2 DEF Paired
  <2>. HIDE DEF p, waiting, w
  <2>. QED
    BY <1>1, <2>1, <2>2, <2>3 DEF Memories
<1>3. CASE Operation(span) = "kafka.consume menu.events"
  <2>. DEFINE p == IF w \in waiting THEN [m.pairs EXCEPT ![w].gaps = @ + 1] ELSE m.pairs
  <2>1. Remember(m, span) = [publishes |-> waiting \ {w}, pairs |-> p]
    BY <1>3 DEF Remember
  <2>2. /\ p \in [Write -> [published : Nat, gaps : Nat]]
        /\ \A v \in Write \ {w} : p[v] = m.pairs[v]
        /\ p[w].published = m.pairs[w].published
        /\ p[w].gaps = m.pairs[w].gaps + (IF w \in waiting THEN 1 ELSE 0)
    BY <1>1
  <2>3. Paired([publishes |-> waiting \ {w}, pairs |-> p])
    <3>. HIDE DEF p, waiting, w
    <3>. QED
      BY <1>1, <2>2 DEF Paired
  <2>. HIDE DEF p, waiting, w
  <2>. QED
    BY <1>1, <2>1, <2>2, <2>3 DEF Memories
<1>4. CASE ~(Operation(span) \in {"kafka.publish menu.events", "kafka.consume menu.events"})
  <2>1. Remember(m, span) = [m EXCEPT !.publishes = waiting]
    BY <1>4 DEF Remember
  <2>2. m = [publishes |-> m.publishes, pairs |-> m.pairs]
    BY DEF Memories
  <2>3. Remember(m, span) = [publishes |-> waiting, pairs |-> m.pairs]
    BY <2>1, <2>2
  <2>4. Paired([publishes |-> waiting, pairs |-> m.pairs])
    <3>. HIDE DEF waiting
    <3>. QED
      BY <1>1 DEF Paired
  <2>. QED
    BY <1>1, <2>3, <2>4 DEF Memories
<1>. QED
  BY <1>2, <1>3, <1>4

(* The effect's loop, by induction over the new spans.                     *)
LEMMA LoopKeepsPairs ==
  ASSUME MemoryInv, spans \in Seq(Spans), LastIndex \in 0 .. Len(spans)
  PROVE  MemoryAfter[Len(spans) - LastIndex] \in Memories
<1>. DEFINE n == Len(spans) - LastIndex
            start == [publishes |-> publishes, pairs |-> pairs]
            step == [i \in 1 .. n |-> [m \in Memories |-> Remember(m, spans[LastIndex + i])]]
            Loop(f) == f = [i \in 0 .. n |->
                              IF i = 0 THEN start ELSE Remember(f[i - 1], spans[LastIndex + i])]
<1>1. n \in Nat /\ start \in Memories
  BY DEF MemoryInv
<1>2. \A i \in 1 .. n : spans[LastIndex + i] \in Spans
  BY <1>1
<1>3. step \in [1 .. n -> [Memories -> Memories]]
  BY <1>2, RememberKeepsPairs
<1>4. PICK f \in [0 .. n -> Memories] : Recursion(f, n, start, step)
  <2>. DEFINE M == Memories
  <2>1. n \in Nat /\ start \in M /\ step \in [1 .. n -> [M -> M]]
    BY <1>1, <1>3
  <2>. HIDE DEF n, start, step, M
  <2>2. \E f \in [0 .. n -> M] : Recursion(f, n, start, step)
    BY <2>1, RecursionExists
  <2>. QED
    BY <2>2 DEF M
<1>5. Loop(f)
  <2>1. ASSUME NEW i \in 0 .. n, i # 0
        PROVE  step[i][f[i - 1]] = Remember(f[i - 1], spans[LastIndex + i])
    <3>1. i \in 1 .. n /\ i - 1 \in 0 .. n
      BY <1>1, <2>1
    <3>2. f[i - 1] \in Memories
      BY <1>4, <3>1
    <3>. HIDE DEF n
    <3>. QED
      BY <3>1, <3>2
  <2>. HIDE DEF n, start, step
  <2>. QED
    BY <1>4, <2>1 DEF Recursion
<1>6. Loop(MemoryAfter)
  <2>1. MemoryAfter = CHOOSE g : Loop(g)
    BY DEF MemoryAfter
  <2>. HIDE DEF Loop
  <2>. QED
    BY <1>5, <2>1
<1>. DEFINE Bad == {i \in 0 .. n : MemoryAfter[i] \notin Memories}
<1>7. MemoryAfter[0] \in Memories
  BY <1>1, <1>6
<1>8. ASSUME NEW i \in 1 .. n, MemoryAfter[i - 1] \in Memories
      PROVE  MemoryAfter[i] \in Memories
  <2>1. i \in 0 .. n /\ i # 0
    OBVIOUS
  <2>2. MemoryAfter[i] = Remember(MemoryAfter[i - 1], spans[LastIndex + i])
    BY <1>6, <2>1
  <2>. QED
    BY <1>2, <1>8, <2>2, RememberKeepsPairs
<1>9. Bad = {}
  <2>. SUFFICES ASSUME Bad # {}
       PROVE  FALSE
    OBVIOUS
  <2>. HIDE DEF n
  <2>1. Bad \in SUBSET Nat
    BY <1>1
  <2>2. PICK k \in Bad : \A m \in Bad : k <= m
    <3>. HIDE DEF Bad
    <3>. QED
      BY <2>1, LeastElement
  <2>3. k \in 1 .. n /\ k - 1 \in 0 .. n /\ ~(k <= k - 1)
    BY <1>1, <1>7
  <2>. QED
    BY <1>8, <2>2, <2>3
<1>. QED
  BY <1>1, <1>9

(* The place the effect resumes at is in the buffer, or before all of it.  *)
LEMMA LastIndexTyped ==
  ASSUME spans \in Seq(Spans)
  PROVE  LastIndex \in 0 .. Len(spans)
<1>. DEFINE places == {i \in DOMAIN spans : spans[i] = last}
<1>1. Len(spans) \in Nat /\ DOMAIN spans = 1 .. Len(spans)
  OBVIOUS
<1>2. CASE places = {}
  BY <1>1, <1>2 DEF LastIndex
<1>3. CASE places # {}
  <2>1. places \in SUBSET Nat
    BY <1>1
  <2>2. PICK i \in places : \A j \in places : i <= j
    <3>. HIDE DEF places
    <3>. QED
      BY <1>3, <2>1, LeastElement
  <2>3. LastIndex \in places
    <3>1. LastIndex = CHOOSE k \in places : \A j \in places : k <= j
      BY <1>3 DEF LastIndex
    <3>. HIDE DEF places
    <3>. QED
      BY <2>2, <3>1
  <2>. QED
    BY <1>1, <2>3
<1>. QED
  BY <1>2, <1>3

RestInv ==
    /\ Len(spans) <= MAX_BUFFERED_SPANS
    /\ old \subseteq Write
    /\ \A w \in Write : trace[w] \subseteq SpansOf(w)
    /\ screen \in Screen /\ acts \in 0 .. MaxActs /\ reloads \in 0 .. acts

LEMMA BufferTyped ==
  ASSUME IInv
  PROVE  spans \in Seq(Spans) /\ stored \subseteq Spans /\ topic \subseteq Spans
  BY DEF IInv, Sound, Genuine

LEMMA MountPairs == ASSUME NEW b, Mounted(b) PROVE MemoryInv'
<1>1. NoPairs \in [Write -> [published : Nat, gaps : Nat]]
  BY DEF NoPairs
<1>2. Paired([publishes |-> {}, pairs |-> NoPairs])
  BY DEF Paired, NoPairs
<1>. QED
  BY <1>1, <1>2 DEF Mounted, MemoryInv, Memories

LEMMA MemoryKept ==
  ASSUME IInv, MemoryInv, [TourNext]_vars
  PROVE  MemoryInv'
<1>1. CASE UNCHANGED <<publishes, pairs>>
  BY <1>1 DEF MemoryInv, Memories, Paired
<1>2. CASE ProcessSpans
  <2>1. MemoryAfter[Len(spans) - LastIndex] \in Memories
    BY BufferTyped, LastIndexTyped, LoopKeepsPairs
  <2>2. \A m \in Memories : [publishes |-> m.publishes, pairs |-> m.pairs] = m
    BY DEF Memories
  <2>3. [publishes |-> publishes', pairs |-> pairs'] \in Memories
    BY <1>2, <2>1, <2>2 DEF ProcessSpans
  <2>. QED
    BY <2>3 DEF MemoryInv, Memories, Paired
<1>3. ASSUME NEW b, Mounted(b) PROVE MemoryInv'
  BY <1>3, MountPairs
<1>4. \/ UNCHANGED <<publishes, pairs>>
      \/ ProcessSpans
      \/ \E b : Mounted(b)
  <2>1. ASSUME NEW span, Broadcast(span) PROVE UNCHANGED <<publishes, pairs>>
    BY <2>1 DEF Broadcast, OnMessage, diagram
  <2>2. CASE \E w \in Write : Serve(w) \/ RecordWrite(w) \/ ReplayLast(w)
    BY <2>2 DEF Serve, RecordWrite, ReplayLast, feed, diagram
  <2>3. CASE (\E to \in Screen : Navigate(to)) \/ Reload
    BY <2>3 DEF Navigate, Reload
  <2>4. CASE PollTrace \/ (\E w \in Write : CollectTrace(w)) \/ UNCHANGED vars
    BY <2>4 DEF PollTrace, CollectTrace, vars, feed, diagram
  <2>5. CASE Feed
    BY <2>1, <2>5 DEF Feed, ProcessRecord, SkipRecord, ProcessAgain, Expire, diagram
  <2>. QED
    BY <2>2, <2>3, <2>4, <2>5 DEF TourNext
<1>. QED
  BY <1>1, <1>2, <1>3, <1>4

(* The steps that read a span move only the buffer, within its bound.      *)
LEMMA BroadcastKeepsBound ==
  ASSUME IInv, RestInv, NEW span, Broadcast(span)
  PROVE  Len(spans') <= MAX_BUFFERED_SPANS
<1>1. CASE UNCHANGED <<spans, diagram>>
  BY <1>1 DEF RestInv
<1>2. CASE OnMessage(span)
  <2>. DEFINE S == stored \cup {span}
              k == IF Len(spans) < MAX_BUFFERED_SPANS THEN 0 ELSE 1
  <2>1. spans \in Seq(S) /\ span \in S /\ Len(spans) \in Nat /\ Len(spans) <= MAX_BUFFERED_SPANS
    BY DEF IInv, Sound, RestInv
  <2>2. Len(spans) - k + 1 <= MAX_BUFFERED_SPANS
    BY <2>1
  <2>3. spans' = Append(Kept(spans), span)
    BY <1>2 DEF OnMessage
  <2>4. k = (IF Len(spans) < MAX_BUFFERED_SPANS THEN 0 ELSE 1)
    OBVIOUS
  <2>. HIDE DEF S, k
  <2>. QED
    BY <2>1, <2>2, <2>3, <2>4, KeptAndAppended
<1>. QED
  BY <1>1, <1>2 DEF Broadcast

LEMMA RestKept ==
  ASSUME IInv, IInv', RestInv, [TourNext]_vars
  PROVE  RestInv'
<1>0. trace \in [Write -> SUBSET stored] /\ Len(spans) \in Nat
  BY DEF IInv, Sound
<1>1. CASE \E w \in Write : Serve(w) \/ RecordWrite(w)
  <2>1. UNCHANGED <<stored, spans, old, trace, screen, acts, reloads>>
    BY <1>1 DEF Serve, RecordWrite, feed, collector, diagram, browser, page
  <2>. QED
    BY <2>1 DEF RestInv, SpansOf
<1>2. ASSUME NEW w \in Write, ReplayLast(w) PROVE RestInv'
  BY <1>2 DEF ReplayLast, Act, diagram, browser, RestInv, SpansOf
<1>3. ASSUME NEW to \in Screen, Navigate(to) PROVE RestInv'
  BY <1>3 DEF Navigate, Act, collector, browser, RestInv, SpansOf
<1>4. CASE Reload
  <2>1. Len(spans') = 0
    BY <1>4 DEF Reload
  <2>. QED
    BY <1>4, <2>1 DEF Reload, Act, collector, RestInv, SpansOf
<1>5. CASE PollTrace
  <2>1. \A w \in Write : trace'[w] = trace[w] \/ trace'[w] = SpansOf(w)
    BY <1>0, <1>5 DEF PollTrace
  <2>. QED
    BY <1>5, <2>1 DEF PollTrace, feed, collector, page, RestInv, SpansOf
<1>8. ASSUME NEW v \in Write, CollectTrace(v) PROVE RestInv'
  <2>1. \A w \in Write : trace'[w] = trace[w] \/ trace'[w] = {}
    BY <1>0, <1>8 DEF CollectTrace
  <2>. QED
    BY <1>8, <2>1 DEF CollectTrace, feed, collector, page, RestInv, SpansOf
<1>6. CASE Feed
  <2>1. stored \subseteq stored' /\ trace' = trace
    BY <1>6 DEF Feed, ProcessRecord, SkipRecord, ProcessSpans, Expire, ProcessAgain,
                collector, browser
  <2>2. \A w \in Write : trace'[w] \subseteq SpansOf(w)'
    BY <2>1 DEF RestInv, SpansOf
  <2>3. old' \subseteq Write
    BY <1>6 DEF Feed, ProcessRecord, SkipRecord, ProcessSpans, Expire, ProcessAgain, RestInv
  <2>4. screen' \in Screen /\ acts' \in 0 .. MaxActs /\ reloads' \in 0 .. acts'
    BY <1>6 DEF Feed, Act, page, RestInv
  <2>5. Len(spans') <= MAX_BUFFERED_SPANS
    <3>1. (\E span : Broadcast(span)) \/ spans' = spans
      BY <1>6 DEF Feed, ProcessRecord, SkipRecord, ProcessSpans, Expire, ProcessAgain
    <3>. QED
      BY <3>1, BroadcastKeepsBound DEF RestInv
  <2>. QED
    BY <2>2, <2>3, <2>4, <2>5 DEF RestInv
<1>7. CASE UNCHANGED vars
  BY <1>7 DEF vars, feed, collector, browser, page, RestInv, SpansOf
<1>. QED
  BY <1>1, <1>2, <1>3, <1>4, <1>5, <1>6, <1>7, <1>8 DEF TourNext

FullInv == IInv /\ MemoryInv /\ RestInv

THEOREM FullInvariance == TourSpec => []FullInv
<1>1. TourInit => FullInv
  <2>. SUFFICES ASSUME TourInit
       PROVE  MemoryInv /\ RestInv
    BY InitSound DEF FullInv
  <2>1. NoPairs \in [Write -> [published : Nat, gaps : Nat]]
    BY DEF NoPairs
  <2>2. Paired([publishes |-> {}, pairs |-> NoPairs])
    BY DEF Paired, NoPairs
  <2>3. MemoryInv
    BY <2>1, <2>2 DEF TourInit, FeedInit, MemoryInv, Memories
  <2>4. Len(spans) = 0
    BY DEF TourInit, FeedInit
  <2>. QED
    BY <2>3, <2>4 DEF TourInit, FeedInit, RestInv
<1>2. FullInv /\ [TourNext]_vars => FullInv'
  BY NextKeepsIInv, MemoryKept, RestKept DEF FullInv
<1>. QED
  BY <1>1, <1>2, PTL DEF TourSpec

(* A diagram never shows a gap that it has no publish for, whatever loop   *)
(* over the new spans made it.                                             *)
THEOREM GapsHaveAPublish == TourSpec => []GapsArePaired
<1>1. ASSUME FullInv
      PROVE  GapsArePaired
  <2>1. /\ pairs \in [Write -> [published : Nat, gaps : Nat]]
        /\ Paired([publishes |-> publishes, pairs |-> pairs])
    BY <1>1 DEF FullInv, MemoryInv, Memories
  <2>. QED
    BY <2>1 DEF Paired, GapsArePaired
<1>. QED
  BY <1>1, FullInvariance, PTL

(* The state of the feed, of the mapper and of the tour is well-formed,    *)
(* and the buffer keeps its bound.                                         *)
THEOREM TourIsTyped == TourSpec => []TourTypeOK
<1>1. ASSUME FullInv
      PROVE  TourTypeOK
  <2>1. publishes \subseteq Write /\ \A w \in Write : pairs[w].published \in Nat /\ pairs[w].gaps \in Nat
    BY <1>1 DEF FullInv, MemoryInv, Memories
  <2>2. spans \in Seq(Spans) /\ stored \subseteq Spans /\ topic \subseteq Spans
    BY <1>1, BufferTyped DEF FullInv
  <2>3. /\ DOMAIN drawn = DOMAIN spans /\ \A i \in DOMAIN drawn : drawn[i] \in Nat
        /\ last \in Spans \cup {NoSpan} /\ due \in BOOLEAN /\ twice \in BOOLEAN
    <3>1. drawn \in Seq(Nat) /\ spans \in Seq(Spans) /\ Len(drawn) = Len(spans)
      BY <1>1, <2>2 DEF FullInv, IInv, Tracked
    <3>. QED
      BY <1>1, <2>2, <3>1 DEF FullInv, IInv, Tracked
  <2>4. FeedTypeOK
    BY <1>1, <2>1, <2>2, <2>3 DEF FullInv, RestInv, FeedTypeOK
  <2>. QED
    BY <1>1, <2>4 DEF FullInv, IInv, Sound, RestInv, TourTypeOK
<1>. QED
  BY <1>1, FullInvariance, PTL
=============================================================================
