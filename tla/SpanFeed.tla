------------------------------ MODULE SpanFeed ------------------------------
(***************************************************************************)
(* The way of a span from the service that reports it to the flow diagram  *)
(* of merchant-web: trace-collector stores it and broadcasts it, the       *)
(* browser's stream keeps the last MAX_BUFFERED_SPANS of them, and the     *)
(* diagram that is on screen, beside every page or on the flow page,       *)
(* pulses the ones it takes for new.                                       *)
(*                                                                         *)
(* A span is the write it belongs to and what it reports.  Spans reach     *)
(* trace-collector in any order; a record of system.trace that is read     *)
(* twice is one span delivered twice.  A broadcast may reach no browser:   *)
(* the stream is down, or the shared buffer has dropped it.                *)
(***************************************************************************)
EXTENDS FlowGraph, Integers, FiniteSets, SequencesExt

CONSTANTS
    Write,              \* correlation ids
    MAX_BUFFERED_SPANS

ASSUME FeedAssumption ==
    /\ IsFiniteSet(Write)
    /\ MAX_BUFFERED_SPANS \in Nat \ {0}

VARIABLES
    topic,      \* spans in system.trace that are still to be read
    stored,     \* spans in the span store
    twice,      \* history: whether a record was read twice
    spans,      \* the browser's buffer
    drawn,      \* history: how often the diagram on screen has pulsed each of them
    last,       \* lastProcessedSpanId
    due,        \* the diagram's effect is due
    publishes,  \* pendingPublishes
    old,        \* writes published more than PUBLISH_PAIRING_TTL_MS ago
    pairs       \* history: per write, publishes drawn and gaps shown

collector == <<topic, stored, twice>>
diagram == <<drawn, last, due, publishes, pairs>>
feed == <<collector, spans, diagram, old>>

(* What is reported of a write: the menu's PUT, an availability PUT, the   *)
(* publish of its event, the consume of it, and the consume of a replay.   *)
Reports ==
    [put |-> Span("menu-service", "http.PUT"),
     override |-> Span("availability-service", "http.PUT"),
     publish |-> Span("menu-service", "kafka.publish menu.events"),
     consume |-> Span("availability-service", "kafka.consume menu.events"),
     replay |-> Span("availability-service", "kafka.consume menu.events")]

Spans == [write : Write, kind : DOMAIN Reports]
Service(span) == Reports[span.kind].service
Operation(span) == Reports[span.kind].operation

NoSpan == [write |-> "none", kind |-> "none"]
NoPairs == [w \in Write |-> [published |-> 0, gaps |-> 0]]

-----------------------------------------------------------------------------
(* A diagram as it is mounted: nothing of the buffer has been processed.   *)
Mounted(buffer) ==
    /\ drawn' = [i \in DOMAIN buffer |-> 0]
    /\ last' = NoSpan
    /\ due' = (buffer # <<>>)
    /\ publishes' = {}
    /\ pairs' = NoPairs

FeedInit ==
    /\ topic = {} /\ stored = {} /\ twice = FALSE
    /\ spans = <<>> /\ drawn = <<>> /\ last = NoSpan /\ due = FALSE
    /\ publishes = {} /\ old = {} /\ pairs = NoPairs

(* The buffer with one more, [...prev.slice(-(MAX_BUFFERED_SPANS - 1)), x].*)
Kept(buffer) ==
    IF Len(buffer) < MAX_BUFFERED_SPANS THEN buffer ELSE Tail(buffer)

OnMessage(span) ==
    /\ spans' = Append(Kept(spans), span)
    /\ drawn' = Append(Kept(drawn), 0)
    /\ due' = TRUE
    /\ UNCHANGED <<last, publishes, pairs>>

Broadcast(span) ==
    \/ OnMessage(span)
    \/ UNCHANGED <<spans, diagram>>

(* A record of system.trace: stored first, then broadcast.                 *)
ProcessRecord(span) ==
    /\ span \in topic
    /\ topic' = topic \ {span}
    /\ stored' = stored \cup {span}
    /\ Broadcast(span)
    /\ UNCHANGED <<twice, old>>

(* The insert fails: the record is not read again before a restart.        *)
SkipRecord(span) ==
    /\ span \in topic
    /\ topic' = topic \ {span}
    /\ UNCHANGED <<stored, twice, spans, diagram, old>>

(* A record whose offset was not committed is read again.                  *)
ProcessAgain(span) ==
    /\ span \in stored
    /\ twice' = TRUE
    /\ Broadcast(span)
    /\ UNCHANGED <<topic, stored, old>>

-----------------------------------------------------------------------------
\* Variant: the effect takes only the newest span for new.
NewestOnly == Len(spans) - 1

(* The place of the last span processed: the first one that has its id,    *)
(* and 0, before all of them, if there is none.                            *)
LastIndex ==
    LET places == {i \in DOMAIN spans : spans[i] = last}
    IN  IF places = {} THEN 0 ELSE CHOOSE i \in places : \A j \in places : i <= j

\* Variant: a publish stays in the map after its consume.
RememberForGood(memory, span) ==
    LET waiting == memory.publishes \ old
        w == span.write
    IN  CASE Operation(span) = "kafka.publish menu.events" ->
                [publishes |-> waiting \cup {w},
                 pairs |-> [memory.pairs EXCEPT ![w].published = @ + 1]]
          [] Operation(span) = "kafka.consume menu.events" ->
                [publishes |-> waiting,
                 pairs |-> IF w \in waiting THEN [memory.pairs EXCEPT ![w].gaps = @ + 1]
                                            ELSE memory.pairs]
          [] OTHER -> [memory EXCEPT !.publishes = waiting]

(* The mapper's memory after one more span: the publishes that wait for    *)
(* their consume, the stale ones evicted, and the counts of the history.   *)
Remember(memory, span) ==
    LET waiting == memory.publishes \ old
        w == span.write
    IN  CASE Operation(span) = "kafka.publish menu.events" ->
                [publishes |-> waiting \cup {w},
                 pairs |-> [memory.pairs EXCEPT ![w].published = @ + 1]]
          [] Operation(span) = "kafka.consume menu.events" ->
                [publishes |-> waiting \ {w},
                 pairs |-> IF w \in waiting THEN [memory.pairs EXCEPT ![w].gaps = @ + 1]
                                            ELSE memory.pairs]
          [] OTHER -> [memory EXCEPT !.publishes = waiting]

(* The mapper's memory after the first n of the new spans.                 *)
MemoryAfter[n \in 0 .. Len(spans) - LastIndex] ==
    IF n = 0 THEN [publishes |-> publishes, pairs |-> pairs]
             ELSE Remember(MemoryAfter[n - 1], spans[LastIndex + n])

(* The diagram's effect after a render with another buffer.                *)
ProcessSpans ==
    /\ due
    /\ due' = FALSE
    /\ last' = spans[Len(spans)]
    /\ drawn' = [i \in DOMAIN spans |->
                    IF i > LastIndex /\ HopsOf(Reports[spans[i].kind]) # {}
                    THEN drawn[i] + 1 ELSE drawn[i]]
    /\ LET memory == MemoryAfter[Len(spans) - LastIndex]
       IN  publishes' = memory.publishes /\ pairs' = memory.pairs
    /\ UNCHANGED <<collector, spans, old>>

(* Time passes: a publish is too long ago to be paired.                    *)
Expire(w) ==
    /\ w \notin old
    /\ \E s \in stored : s.write = w /\ s.kind = "publish"
    /\ old' = old \cup {w}
    /\ UNCHANGED <<collector, spans, diagram>>

-----------------------------------------------------------------------------
FeedTypeOK ==
    /\ topic \subseteq Spans /\ stored \subseteq Spans /\ twice \in BOOLEAN
    /\ Len(spans) <= MAX_BUFFERED_SPANS /\ \A i \in DOMAIN spans : spans[i] \in Spans
    /\ DOMAIN drawn = DOMAIN spans /\ \A i \in DOMAIN drawn : drawn[i] \in Nat
    /\ last \in Spans \cup {NoSpan} /\ due \in BOOLEAN
    /\ publishes \subseteq Write /\ old \subseteq Write
    /\ \A w \in Write : pairs[w].published \in Nat /\ pairs[w].gaps \in Nat
=============================================================================
