------------------------------ MODULE FlowGraph ------------------------------
(***************************************************************************)
(* The graph merchant-web draws the system with, and the rules by which    *)
(* FlowEdgeMapper takes a span for evidence of hops of that graph.  The    *)
(* one rule with a memory, which pairs a publish with its consume, is in   *)
(* SpanFeed.                                                               *)
(***************************************************************************)

Services == {"menu-service", "availability-service", "pos-ingest", "storefront-api"}

(* FLOW_NODES, without their places on the page.                           *)
FLOW_NODES ==
    Services \cup
    {"merchant-web", "external-client", "trace-collector",
     "postgres-menu", "kafka-menu-events", "postgres-dedupe", "redis", "mongo",
     "postgres-sync", "kafka-pos-sync"}

Data(from, to) == [from |-> from, to |-> to, instrumented |-> TRUE]
Silent(from, to) == [from |-> from, to |-> to, instrumented |-> FALSE]

FLOW_EDGES ==
    {Data("merchant-web", "menu-service"),
     Data("merchant-web", "availability-service"),
     Data("merchant-web", "pos-ingest"),
     Data("menu-service", "postgres-menu"),
     Data("postgres-menu", "kafka-menu-events"),
     Data("kafka-menu-events", "availability-service"),
     Data("availability-service", "postgres-dedupe"),
     Data("availability-service", "redis"),
     Silent("availability-service", "mongo"),
     Data("pos-ingest", "postgres-sync"),
     Data("pos-ingest", "kafka-pos-sync"),
     Data("external-client", "storefront-api"),
     Data("menu-service", "trace-collector"),
     Data("availability-service", "trace-collector"),
     Data("pos-ingest", "trace-collector"),
     Data("storefront-api", "trace-collector")}

(* What the services report, operations without their paths.  A span names *)
(* the service its Tracer was made with, and the operation of its withSpan.*)
Span(service, operation) == [service |-> service, operation |-> operation]

(* Every service wraps its requests: installTracing, and in Go correlate.  *)
HttpSpans ==
    [service : Services, operation : {"http.GET", "http.POST", "http.PUT", "http.DELETE"}]

(* The commits of ItemRepository, the publishes of OutboxRelay.            *)
MenuSpans ==
    {Span("menu-service", "db.commit items"),
     Span("menu-service", "kafka.publish menu.events")}

(* MenuEventConsumer, IdempotencyStore, RedisAvailabilityStore.            *)
AvailabilitySpans ==
    {Span("availability-service", "kafka.consume menu.events"),
     Span("availability-service", "db.commit processed_events"),
     Span("availability-service", "db.rollback processed_events"),
     Span("availability-service", "redis.write availability")}

(* StartRun and FinishRun of the store, both publishes of the producer.    *)
PosSpans ==
    {Span("pos-ingest", "db.commit sync_runs"),
     Span("pos-ingest", "kafka.publish pos.sync"),
     Span("pos-ingest", "kafka.publish pos.sync.dlq")}

(* fetchAndCompose.                                                        *)
StorefrontSpans == {Span("storefront-api", "compose venue menu")}

Reported == HttpSpans \cup MenuSpans \cup AvailabilitySpans \cup PosSpans \cup StorefrontSpans

Http == {"http.GET", "http.POST", "http.PUT", "http.DELETE"}
Publish == {"kafka.publish menu.events", "kafka.publish pos.sync", "kafka.publish pos.sync.dlq"}

(* merchant-web has no call to storefront-api in it; the mapper credits a  *)
(* request there to another client, whoever sent it.                       *)
Caller(service) == IF service = "storefront-api" THEN "external-client" ELSE "merchant-web"

Hop(from, to) == [from |-> from, to |-> to]

(* The hops a span is evidence of, edgesForSpan.                           *)
HopsOf(span) ==
    {h \in [from : FLOW_NODES, to : FLOW_NODES] :
        \/ span.operation \in Http /\ h = Hop(Caller(span.service), span.service)
        \/ /\ span.service = "menu-service"
           /\ \/ span.operation = "db.commit items" /\ h = Hop("menu-service", "postgres-menu")
              \/ /\ span.operation = "kafka.publish menu.events"
                 /\ h = Hop("postgres-menu", "kafka-menu-events")
        \/ /\ span.service = "availability-service"
           /\ \/ /\ span.operation = "kafka.consume menu.events"
                 /\ h = Hop("kafka-menu-events", "availability-service")
              \/ /\ span.operation = "db.commit processed_events"
                 /\ h = Hop("availability-service", "postgres-dedupe")
              \/ /\ span.operation = "redis.write availability"
                 /\ h = Hop("availability-service", "redis")
        \/ /\ span.service = "pos-ingest"
           /\ \/ span.operation = "db.commit sync_runs" /\ h = Hop("pos-ingest", "postgres-sync")
              \/ span.operation \in Publish /\ h = Hop("pos-ingest", "kafka-pos-sync")
        \/ h = Hop(span.service, "trace-collector")}

(* The drawn edge a hop rides on, in either direction.                     *)
EdgesFor(hop) ==
    {e \in FLOW_EDGES : \/ e.from = hop.from /\ e.to = hop.to
                        \/ e.from = hop.to /\ e.to = hop.from}

(* The edges that are drawn as emitting spans; the others are dashed.      *)
Instrumented == {e \in FLOW_EDGES : e.instrumented}

(* A pulse rides its edge in the direction it is drawn in, or backwards.   *)
Forwards(hop, e) == e.from = hop.from

(* Of the pulses with one of these, the newest alone has a label.          *)
LabelGroup(hop) == {hop.from, hop.to}
=============================================================================
