----------------------------- MODULE GuidedTour -----------------------------
(***************************************************************************)
(* The guided tour of merchant-web on top of the span feed: steps that are *)
(* ticked off by what the browser has observed.  A write's correlation id  *)
(* becomes the last write's when its answer arrives; the spans of that     *)
(* write, from the stream and from its trace, which is polled while the    *)
(* tour is on screen, tick "edit" and "propagate".  Session storage keeps  *)
(* the id over a reload.                                                   *)
(*                                                                         *)
(* A write of another client, or one whose fetch throws, is one that is    *)
(* served and whose answer never comes here.  The other three steps are    *)
(* not modelled: they read the menu's query, a trace that was opened and   *)
(* the verdict of a replay, which AvailabilityBoard has.                   *)
(***************************************************************************)
EXTENDS SpanFeed

CONSTANTS
    What,        \* what is reported of each write
    MaxActs,     \* moves between screens, reloads, replays and records read twice
    None

ASSUME TourAssumption ==
    /\ None \notin Write
    /\ What \in [Write -> SUBSET {"put", "override", "publish", "consume"}]
    /\ \A w \in Write : "override" \in What[w] => What[w] = {"override"}
    /\ MaxActs \in Nat

VARIABLES
    request,    \* per write: unsent, served, answered, or lost with its page
    lastWrite,  \* lastWriteCorrelationId
    trace,      \* query data of ["traces", w], per write
    screen,     \* the tour or the flow page
    acts,       \* how many acts there were
    reloads     \* history: how many of them were reloads

browser == <<lastWrite, trace>>
page == <<screen, acts, reloads>>
vars == <<feed, request, browser, page>>

Screen == {"start", "flow"}

TourInit ==
    /\ FeedInit
    /\ request = [w \in Write |-> "unsent"]
    /\ lastWrite = None
    /\ trace = [w \in Write |-> {}]
    /\ screen \in Screen
    /\ acts = 0 /\ reloads = 0

-----------------------------------------------------------------------------
(* A service takes the write; all that follows from it is reported.        *)
Serve(w) ==
    /\ request[w] = "unsent"
    /\ request' = [request EXCEPT ![w] = "served"]
    /\ topic' = topic \cup [write : {w}, kind : What[w]]
    /\ UNCHANGED <<stored, twice, spans, diagram, old, browser, page>>

(* apiRequest has an answer to a write, whatever its status.               *)
RecordWrite(w) ==
    /\ request[w] = "served"
    /\ request' = [request EXCEPT ![w] = "answered"]
    /\ lastWrite' = w
    /\ UNCHANGED <<feed, trace, page>>

Act == acts < MaxActs /\ acts' = acts + 1

(* The chaos panel has an event delivered again; the consume is reported   *)
(* under the id of the write the event came from.  One replay per write.   *)
ReplayLast(w) ==
    /\ Act
    /\ request[w] # "unsent" /\ "consume" \in What[w]
    /\ LET span == [write |-> w, kind |-> "replay"]
       IN  span \notin topic \cup stored /\ topic' = topic \cup {span}
    /\ UNCHANGED <<stored, twice, spans, diagram, old, request, browser, screen, reloads>>

(* A screen is left for another.  The sidebar with its diagram is beside   *)
(* every screen but the flow page, which has a diagram of its own.         *)
Navigate(to) ==
    /\ Act /\ to # screen
    /\ screen' = to
    /\ Mounted(spans)
    /\ UNCHANGED <<collector, spans, old, request, browser, reloads>>

SpansOf(w) == {s \in stored : s.write = w}

\* Variant: the trace is fetched once and not polled.
FetchTraceOnce ==
    /\ screen = "start" /\ lastWrite # None /\ trace[lastWrite] = {}
    /\ trace' = [trace EXCEPT ![lastWrite] = SpansOf(lastWrite)]
    /\ UNCHANGED <<feed, request, lastWrite, page>>

(* useTrace, which the tour polls.                                         *)
PollTrace ==
    /\ screen = "start" /\ lastWrite # None
    /\ trace' = [trace EXCEPT ![lastWrite] = SpansOf(lastWrite)]
    /\ UNCHANGED <<feed, request, lastWrite, page>>

(* The query cache drops a trace that nothing on screen has read for five  *)
(* minutes: the tour is not, or follows a later write.                     *)
CollectTrace(w) ==
    /\ trace[w] # {} /\ ~(screen = "start" /\ lastWrite = w)
    /\ trace' = [trace EXCEPT ![w] = {}]
    /\ UNCHANGED <<feed, request, lastWrite, page>>

(* The page loads again: the id is read from session storage, requests,    *)
(* buffer and query cache are gone.                                        *)
Reload ==
    /\ Act
    /\ reloads' = reloads + 1
    /\ spans' = <<>> /\ Mounted(<<>>)
    /\ request' = [w \in Write |-> IF request[w] = "served" THEN "lost" ELSE request[w]]
    /\ trace' = [w \in Write |-> {}]
    /\ UNCHANGED <<collector, old, lastWrite, screen>>

Feed ==
    \/ /\ \/ \E s \in topic : ProcessRecord(s) \/ SkipRecord(s)
          \/ ProcessSpans
          \/ \E w \in Write : Expire(w)
       /\ UNCHANGED <<request, browser, page>>
    \/ /\ \E s \in stored : ProcessAgain(s)
       /\ Act
       /\ UNCHANGED <<request, browser, screen, reloads>>

TourNext ==
    \/ \E w \in Write : Serve(w) \/ RecordWrite(w) \/ ReplayLast(w) \/ CollectTrace(w)
    \/ \E to \in Screen : Navigate(to)
    \/ PollTrace
    \/ Reload
    \/ Feed

(* The poll of the trace goes on while the tour is on screen, in a         *)
(* background tab too.                                                     *)
TourSpec == TourInit /\ [][TourNext]_vars /\ WF_vars(PollTrace)

-----------------------------------------------------------------------------
Buffered == Range(spans)

\* Variant: the stream alone.
LiveSpans == Buffered

(* The buffer and what the trace of the last write adds to it.             *)
MergedSpans == Buffered \cup (IF lastWrite = None THEN {} ELSE trace[lastWrite])

\* Variant: the spans of any write count.
SpansOfAll == MergedSpans

SpansForLastWrite == {s \in MergedSpans : s.write = lastWrite}

(* deriveTourProgress, of the steps that read spans.                       *)
Done ==
    [edit |-> \E s \in SpansForLastWrite : Operation(s) = "http.PUT",
     propagate |-> Cardinality({Service(s) : s \in SpansForLastWrite}) >= 2]

-----------------------------------------------------------------------------
(* The state is of its type.                                               *)
TourTypeOK ==
    /\ FeedTypeOK
    /\ request \in [Write -> {"unsent", "served", "answered", "lost"}]
    /\ lastWrite \in Write \cup {None}
    /\ \A w \in Write : trace[w] \subseteq SpansOf(w)
    /\ screen \in Screen /\ reloads \in 0 .. acts /\ acts <= MaxActs

(* Unless a span is delivered twice, a diagram pulses every span of the    *)
(* buffer exactly once: when it has caught up none is missing, so a full   *)
(* buffer, a burst of spans or a last one that fell out of the buffer      *)
(* hides none, and none has pulsed twice (FlowDiagram.tsx:131-147).        *)
DrawnOncePerArrival ==
    ~twice => \A i \in DOMAIN drawn : drawn[i] <= 1 /\ (~due => drawn[i] = 1)

(* A diagram shows no more publish-to-consume gaps of a write than it has  *)
(* drawn publishes of it: a replay of the event does not measure itself    *)
(* against a publish that has its consume (flowGraph.ts:188-208).          *)
GapsArePaired ==
    \A w \in Write : pairs[w].gaps <= pairs[w].published

(* The steps tell the truth: "edit" and "propagate" are ticked only for a  *)
(* write of this browser that was answered and of which the services did   *)
(* report a PUT, or two services something (tourProgress.ts:54-60).        *)
StepsAreEarned ==
    /\ Done.edit => /\ lastWrite \in Write /\ request[lastWrite] = "answered"
                    /\ What[lastWrite] \cap {"put", "override"} # {}
    /\ Done.propagate => /\ lastWrite \in Write /\ request[lastWrite] = "answered"
                         /\ "consume" \in What[lastWrite]

(* A tick of "edit" or "propagate" is taken back only by a reload, by a    *)
(* later answer to a write, when spans of the write fall out of the buffer *)
(* that its trace, as polled, does not have, or when the trace is dropped  *)
(* while the tour is off the screen and the buffer lacks spans of it.      *)
KeepsTicks ==
    \A step \in {"edit", "propagate"} :
        Done[step] /\ ~Done[step]' =>
            \/ reloads' # reloads
            \/ lastWrite' # lastWrite
            \/ \E s \in Buffered \ Buffered' : s.write = lastWrite /\ s \notin trace[lastWrite]
            \/ screen # "start" /\ ~(trace[lastWrite] \subseteq trace'[lastWrite] \cup Buffered)

TicksStay == [][KeepsTicks]_vars

(* What the span store has of the last write ticks its steps again and     *)
(* again while the tour stays on screen, after a reload too and although   *)
(* the trace was first fetched half-way (GuidedTour.tsx:106-113).          *)
TicksDue ==
    [edit |-> \E s \in SpansOf(lastWrite) : Operation(s) = "http.PUT",
     propagate |-> Cardinality({Service(s) : s \in SpansOf(lastWrite)}) >= 2]

TicksComeBack ==
    []<>(screen = "start" => \A step \in {"edit", "propagate"} : TicksDue[step] => Done[step])
=============================================================================
