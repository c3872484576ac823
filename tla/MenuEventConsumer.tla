------------------------- MODULE MenuEventConsumer -------------------------
(***************************************************************************)
(* availability-service: the menu.events consumer loop with its idempotent *)
(* handler, the manual availability override, and the chaos controls.      *)
(* The idempotency table (Postgres), the availability state (Redis) and    *)
(* the committed offset (Kafka) survive a restart, the rest does not.      *)
(* Offsets count records: offset n stands just after record n.             *)
(***************************************************************************)
EXTENDS Integers, Sequences

CONSTANTS
    Item,
    EventIds,    \* the ids events may have
    Scripts,     \* what may come to be the topic
    Chaos,       \* TRUE: CHAOS_ENABLED, the chaos routes are served
    Overrides,   \* the statuses merchants set by hand
    FaultKinds,  \* which of AllFaults happen
    MaxFaults,   \* bound: how many faults there are
    MaxReplays   \* bound: how many duplicate-delivery requests there are

AllFaults == {"mark", "ack", "redis", "mongo", "unmark", "commit", "rejoin", "crash"}

Status == {"in_stock", "sold_out", "sold_out_until"}
MenuEvent == [eventId : EventIds, item : Item, version : Nat,
              type : {"ItemCreated", "ItemUpdated", "ItemDeleted"}]

ASSUME ConsumerAssumption ==
    /\ Scripts \subseteq Seq(MenuEvent)
    /\ Chaos \in BOOLEAN /\ Overrides \subseteq Status
    /\ FaultKinds \subseteq AllFaults
    /\ MaxFaults \in Nat /\ MaxReplays \in Nat

VARIABLES
    topic,        \* menu.events, the records in it so far
    committed,    \* the consumer group's committed offset
    position,     \* the fetch position of the running consumer
    loop,         \* "poll", "batch", or "dead" once its coroutine has ended
    next,         \* records of the current batch handled so far end here
    anyFailed,    \* a record of the current batch has thrown
    handler,      \* the two places handleEvent runs at: the loop, a replay
    lastEvent,    \* ChaosState.lastEvent: a record, 0 for null
    paused, redisUnreachable,  \* the other fields of ChaosState
    processed,    \* event ids in processed_events
    redis,        \* the availability state of each item
    audited,      \* how often each event id is in the audit collection
    override,     \* the manual override in progress
    thrown,       \* history: event ids whose handling has thrown
    interrupted,  \* history: event ids marked by a handling that was cut off
    overwritten,  \* history: items whose state a replay or an override has put
    unanswered,   \* history: how many of an id's audit documents threw all the same
    faults, replays

kafkaVars == <<topic, committed, position>>
loopVars == <<loop, next, anyFailed>>
chaosVars == <<lastEvent, paused, redisUnreachable>>
storeVars == <<processed, redis, audited>>
history == <<thrown, interrupted, overwritten, unanswered>>
vars == <<kafkaVars, loopVars, handler, replays, chaosVars, storeVars, override,
          history, faults>>

-----------------------------------------------------------------------------
Handler == {"loop", "replay"}
Idle == [pc |-> "idle", record |-> 0]
Absent == [status |-> "absent", version |-> 0]
NoOverride == [pc |-> "idle", row |-> Absent]

ConsumerTypeOK ==
    /\ topic \in Seq(MenuEvent)
    /\ committed \in 0 .. Len(topic) /\ position \in 0 .. Len(topic)
    /\ loop \in {"poll", "batch", "dead"}
    /\ next \in 0 .. Len(topic) /\ anyFailed \in BOOLEAN
    /\ handler \in [Handler -> [pc : {"idle", "mark", "put", "audit", "undo"},
                                record : 0 .. Len(topic)]]
    /\ lastEvent \in 0 .. Len(topic)
    /\ paused \in BOOLEAN /\ redisUnreachable \in BOOLEAN
    /\ processed \subseteq EventIds
    /\ redis \in [Item -> [status : Status \cup {"absent"}, version : Nat]]
    /\ audited \in [EventIds -> Nat]
    /\ thrown \subseteq EventIds /\ interrupted \subseteq EventIds
    /\ overwritten \subseteq Item /\ unanswered \in [EventIds -> Nat]
    /\ faults \in 0 .. MaxFaults /\ replays \in 0 .. MaxReplays

ConsumerInit ==
    /\ topic = <<>> /\ committed = 0 /\ position = 0
    /\ loop = "poll" /\ next = 0 /\ anyFailed = FALSE
    /\ handler = [h \in Handler |-> Idle]
    /\ replays = 0
    /\ lastEvent = 0 /\ paused = FALSE /\ redisUnreachable = FALSE
    /\ processed = {}
    /\ redis = [i \in Item |-> Absent]
    /\ audited = [e \in EventIds |-> 0]
    /\ override = NoOverride
    /\ thrown = {} /\ interrupted = {} /\ overwritten = {}
    /\ unanswered = [e \in EventIds |-> 0]
    /\ faults = 0

Fault(kind) ==
    /\ kind \in FaultKinds
    /\ faults < MaxFaults
    /\ faults' = faults + 1

NoFault == UNCHANGED faults

(* menu-service's relay publishes an event.                                *)
Produce ==
    /\ \E s \in Scripts :
         /\ Len(topic) < Len(s) /\ topic = SubSeq(s, 1, Len(topic))
         /\ topic' = Append(topic, s[Len(topic) + 1])
    /\ UNCHANGED <<committed, position, loopVars, handler, replays, chaosVars,
                   storeVars, override, history, faults>>

-----------------------------------------------------------------------------
(* The poll loop. *)

\* Variant: enable.auto.commit, which commits what it has fetched.
PollAutoCommit ==
    /\ loop = "poll" /\ ~paused
    /\ \E n \in position + 1 .. Len(topic) : position' = n /\ committed' = n
    /\ next' = position
    /\ loop' = "batch" /\ anyFailed' = FALSE
    /\ UNCHANGED <<topic, handler, replays, chaosVars, storeVars, override, history, faults>>

(* poll() returns some of the records after the position, and moves it.    *)
Poll ==
    /\ loop = "poll" /\ ~paused
    /\ \E n \in position + 1 .. Len(topic) : position' = n
    /\ next' = position
    /\ loop' = "batch" /\ anyFailed' = FALSE
    /\ UNCHANGED <<topic, committed, handler, replays, chaosVars, storeVars,
                   override, history, faults>>

(* processRecord: capture the record for the chaos route, then handle it.  *)
ProcessRecord ==
    /\ loop = "batch" /\ next < position
    /\ handler["loop"].pc = "idle"
    /\ lastEvent' = next + 1
    /\ handler' = [handler EXCEPT !["loop"] = [pc |-> "mark", record |-> next + 1]]
    /\ UNCHANGED <<kafkaVars, loopVars, replays, paused, redisUnreachable,
                   storeVars, override, history, faults>>

(* The end of the batch: commit its end unless a record has thrown.  The   *)
(* next poll goes on from the position, which nothing moves back.  An      *)
(* exception of commitSync, which may have committed, ends the loop.       *)
EndBatch ==
    /\ loop = "batch" /\ next = position
    /\ \/ anyFailed /\ loop' = "poll" /\ UNCHANGED committed /\ NoFault
       \/ ~anyFailed /\ loop' = "poll" /\ committed' = position /\ NoFault
       \/ ~anyFailed /\ loop' = "dead" /\ committed' \in {committed, position} /\ Fault("commit")
    /\ UNCHANGED <<topic, position, next, anyFailed, handler, replays, chaosVars,
                   storeVars, override, history>>

\* Variant: auto.offset.reset = latest, with no offset committed.
RejoinAtEnd ==
    /\ loop = "poll"
    /\ Fault("rejoin")
    /\ position' = Len(topic)
    /\ UNCHANGED <<topic, committed, loopVars, handler, replays, chaosVars,
                   storeVars, override, history>>

(* The group has evicted the consumer, which has not polled for too long   *)
(* (a pause does this): its next poll starts from the committed offset.    *)
Rejoin ==
    /\ loop = "poll"
    /\ Fault("rejoin")
    /\ position' = committed
    /\ UNCHANGED <<topic, committed, loopVars, handler, replays, chaosVars,
                   storeVars, override, history>>

-----------------------------------------------------------------------------
(* handleEvent, run by the loop and by a replay of the last record. *)

EventOf(h) == topic[handler[h].record]

(* Between the mark and the end of the work behind it.                     *)
Handling(h) == handler[h].pc \in {"put", "audit", "undo"}

Goto(h, pc) == handler' = [handler EXCEPT ![h].pc = pc] /\ UNCHANGED <<next, anyFailed, thrown>>

(* handleEvent returns result, or throws: the loop only notes the throw,   *)
(* and what a replay returns is shown to the operator and not kept.        *)
Return(h, result) ==
    /\ handler' = [handler EXCEPT ![h] = Idle]
    /\ thrown' = IF result = "failed" THEN thrown \cup {EventOf(h).eventId} ELSE thrown
    /\ IF h = "loop"
         THEN next' = next + 1 /\ anyFailed' = (anyFailed \/ result = "failed")
         ELSE UNCHANGED <<next, anyFailed>>

\* Variant: the primary key conflict is not noticed.
MarkAgain(h) ==
    /\ handler[h].pc = "mark"
    /\ processed' = processed \cup {EventOf(h).eventId} /\ Goto(h, "put")
    /\ NoFault
    /\ UNCHANGED <<kafkaVars, loop, replays, chaosVars, redis, audited, override, interrupted,
                   overwritten, unanswered>>

(* markProcessedIfNew: an insert whose primary key conflict means "seen    *)
(* before"; any other error is thrown and leaves no row, unless the commit *)
(* took effect and only its answer was lost ("ack"): then Exposed repeats  *)
(* the insert and meets its own row, or cannot connect and throws.         *)
MarkProcessedIfNew(h) ==
    LET id == EventOf(h).eventId
    IN  /\ handler[h].pc = "mark"
        /\ \/ /\ id \notin processed /\ processed' = processed \cup {id}
              /\ Goto(h, "put") /\ NoFault /\ UNCHANGED interrupted
           \/ /\ id \in processed /\ Return(h, "duplicate")
              /\ NoFault /\ UNCHANGED <<processed, interrupted>>
           \/ Fault("mark") /\ Return(h, "failed") /\ UNCHANGED <<processed, interrupted>>
           \/ /\ Fault("ack")
              /\ id \notin processed /\ processed' = processed \cup {id}
              /\ interrupted' = interrupted \cup {id}
              /\ Return(h, "duplicate") \/ Return(h, "failed")
        /\ UNCHANGED <<kafkaVars, loop, replays, chaosVars, redis, audited, override,
                       overwritten, unanswered>>

EventState(e) ==
    [status |-> IF e.type = "ItemDeleted" THEN "sold_out" ELSE "in_stock",
     version |-> e.version]

(* The SET of h's event, at Redis.                                         *)
RedisTakes(h) ==
    /\ redis' = [redis EXCEPT ![EventOf(h).item] = EventState(EventOf(h))]
    /\ overwritten' = overwritten \cup {EventOf(h).item : g \in {h} \ {"loop"}}

(* redisStore.put overwrites whatever state the item has.  A SET that      *)
(* throws may have been taken all the same.                                *)
PutState(h) ==
    /\ handler[h].pc = "put"
    /\ \/ ~redisUnreachable /\ RedisTakes(h) /\ Goto(h, "audit") /\ NoFault
       \/ redisUnreachable /\ UNCHANGED <<redis, overwritten>> /\ Goto(h, "undo") /\ NoFault
       \/ /\ ~redisUnreachable /\ Fault("redis")
          /\ RedisTakes(h) \/ UNCHANGED <<redis, overwritten>>
          /\ Goto(h, "undo")
    /\ UNCHANGED <<kafkaVars, loop, replays, chaosVars, processed, audited, override,
                   interrupted, unanswered>>

OneMore(count, h) == [count EXCEPT ![EventOf(h).eventId] = @ + 1]

(* insertOne: when it throws, the document may be there all the same.      *)
AppendAudit(h) ==
    /\ handler[h].pc = "audit"
    /\ \/ /\ audited' = OneMore(audited, h) /\ UNCHANGED unanswered
          /\ Return(h, "accepted") /\ NoFault
       \/ /\ Fault("mongo") /\ Goto(h, "undo")
          /\ \/ UNCHANGED <<audited, unanswered>>
             \/ audited' = OneMore(audited, h) /\ unanswered' = OneMore(unanswered, h)
    /\ UNCHANGED <<kafkaVars, loop, replays, chaosVars, processed, redis, override,
                   interrupted, overwritten>>

\* Variant: the mark is not undone.
KeepProcessed(h) ==
    /\ handler[h].pc = "undo"
    /\ Return(h, "failed") /\ NoFault
    /\ UNCHANGED <<kafkaVars, loop, replays, chaosVars, storeVars, override, interrupted,
                   overwritten, unanswered>>

(* unmarkProcessed, then the exception goes on, whether it worked or not.  *)
UnmarkProcessed(h) ==
    /\ handler[h].pc = "undo"
    /\ \/ processed' = processed \ {EventOf(h).eventId} /\ NoFault /\ UNCHANGED interrupted
       \/ /\ Fault("unmark")
          /\ interrupted' = interrupted \cup {EventOf(h).eventId}
          /\ UNCHANGED processed
    /\ Return(h, "failed")
    /\ UNCHANGED <<kafkaVars, loop, replays, chaosVars, redis, audited, override,
                   overwritten, unanswered>>

HandleEvent(h) ==
    MarkProcessedIfNew(h) \/ PutState(h) \/ AppendAudit(h) \/ UnmarkProcessed(h)

-----------------------------------------------------------------------------
(* PUT .../availability and the chaos routes. *)

OverrideRead(i) ==
    /\ ~redisUnreachable
    /\ override.pc = "idle"
    /\ \E s \in Overrides :
         override' = [pc |-> "read", item |-> i,
                      row |-> [status |-> s, version |-> redis[i].version]]
    /\ UNCHANGED <<kafkaVars, loopVars, handler, replays, chaosVars, storeVars,
                   history, faults>>

(* The put, whatever its answer, or the 500 of a Redis that did not take   *)
(* it.  The audit document that follows is left out: nothing reads it.     *)
OverridePut ==
    /\ override.pc = "read"
    /\ \/ /\ ~redisUnreachable
          /\ redis' = [redis EXCEPT ![override.item] = override.row]
          /\ overwritten' = overwritten \cup {override.item}
       \/ UNCHANGED <<redis, overwritten>>
    /\ override' = NoOverride
    /\ UNCHANGED <<kafkaVars, loopVars, handler, replays, chaosVars, processed, audited,
                   thrown, interrupted, unanswered, faults>>

SetPaused(b) ==
    /\ Chaos
    /\ paused' = b
    /\ UNCHANGED <<kafkaVars, loopVars, handler, replays, lastEvent, redisUnreachable,
                   storeVars, override, history, faults>>

SetRedisUnreachable(b) ==
    /\ Chaos
    /\ redisUnreachable' = b
    /\ UNCHANGED <<kafkaVars, loopVars, handler, replays, lastEvent, paused,
                   storeVars, override, history, faults>>

(* POST /chaos/duplicate-delivery: replayLastEvent.                        *)
ReplayLastEvent ==
    /\ Chaos /\ replays < MaxReplays
    /\ lastEvent # 0 /\ handler["replay"].pc = "idle"
    /\ handler' = [handler EXCEPT !["replay"] = [pc |-> "mark", record |-> lastEvent]]
    /\ replays' = replays + 1
    /\ UNCHANGED <<kafkaVars, loopVars, chaosVars, storeVars, override, history, faults>>

(* The process dies and is started again.                                  *)
Crash ==
    /\ Fault("crash")
    /\ position' = committed /\ next' = 0
    /\ loop' = "poll" /\ anyFailed' = FALSE
    /\ handler' = [h \in Handler |-> Idle]
    /\ lastEvent' = 0 /\ paused' = FALSE /\ redisUnreachable' = FALSE
    /\ override' = NoOverride
    /\ interrupted' = interrupted \cup
                      {EventOf(h).eventId : h \in {g \in Handler : Handling(g)}}
    /\ UNCHANGED <<topic, committed, replays, storeVars, thrown, overwritten, unanswered>>

LoopStep == Poll \/ ProcessRecord \/ EndBatch \/ HandleEvent("loop")

(* What availability-service does itself.                                  *)
AvailabilityNext ==
    \/ LoopStep
    \/ Rejoin
    \/ HandleEvent("replay")
    \/ ReplayLastEvent
    \/ \E i \in Item : OverrideRead(i)
    \/ OverridePut
    \/ \E b \in BOOLEAN : SetPaused(b) \/ SetRedisUnreachable(b)
    \/ Crash

ConsumerNext == Produce \/ AvailabilityNext

(* The loop's coroutine keeps running; no request needs to.                *)
ConsumerFairness == WF_vars(LoopStep)

ConsumerSpec == ConsumerInit /\ [][ConsumerNext]_vars /\ ConsumerFairness

-----------------------------------------------------------------------------
(* The audit documents of an event beside those whose insert threw.        *)
Applications(e) == audited[e] - unanswered[e]

(* An event is applied at most once, whatever is redelivered, replayed,    *)
(* retried or interrupted: each application ends in its audit document,    *)
(* and only an insert that threw although it took effect adds another.     *)
AppliedAtMostOnce == \A e \in EventIds : Applications(e) <= 1

(* A processed event has been applied or is being applied, unless its      *)
(* handling was cut off after the mark: a failure alone is compensated.    *)
ProcessedMeansApplied ==
    \A e \in processed \ interrupted :
        \/ Applications(e) = 1
        \/ \E h \in Handler : Handling(h) /\ EventOf(h).eventId = e

(* The committed offset moves past a record that was not processed only if *)
(* its own handling has thrown: nothing else is ever passed over.          *)
PassedOverOnlyIfThrown ==
    \A n \in 1 .. committed : topic[n].eventId \in processed \cup thrown

(* The topic of a relay that overtakes nothing: an event is told by its    *)
(* id, and by its item and version, and one of item i that comes late is   *)
(* the repetition of an earlier one (a publish whose mark was lost).       *)
SameVersion(e, f) == e.item = f.item /\ e.version = f.version

InOrder(i) ==
    /\ \A k, l \in DOMAIN topic :
         topic[k].eventId = topic[l].eventId \/ SameVersion(topic[k], topic[l])
           => topic[k] = topic[l]
    /\ \A k \in DOMAIN topic :
         topic[k].item = i =>
           \/ \E l \in 1 .. k - 1 : topic[l] = topic[k]
           \/ \A l \in 1 .. k - 1 : topic[l].item = i => topic[l].version < topic[k].version

(* The loop never takes an item whose events are in order back to an older *)
(* version, through duplicates, redelivery and restarts, except by an      *)
(* event that threw.                                                       *)
LoopKeepsOrder ==
    [][PutState("loop") /\ EventOf("loop").eventId \notin thrown =>
         \A i \in Item : InOrder(i) => redis'[i].version >= redis[i].version]_vars

(* All there is in the topic has been fetched, and nothing is under way.   *)
AtRest ==
    /\ loop = "poll" /\ position = Len(topic)
    /\ \A h \in Handler : handler[h] = Idle

Newest(e) ==
    \A k \in DOMAIN topic : topic[k].item = e.item => topic[k].version <= e.version

(* Only the loop has put a state of item i, none of whose events has       *)
(* thrown: what thrown events do to the order is said by nothing.          *)
Undisturbed(i) ==
    /\ InOrder(i) /\ i \notin overwritten
    /\ \A k \in DOMAIN topic : topic[k].item = i => topic[k].eventId \notin thrown

(* At rest, the state of an item is that of its newest event, whatever was *)
(* redelivered, repeated or interrupted on the way: unless the item was    *)
(* disturbed or the handling of that very event was cut off.               *)
NewestIsShown ==
    AtRest => \A k \in DOMAIN topic :
        LET e == topic[k]
        IN  Newest(e) /\ Undisturbed(e.item) /\ e.eventId \notin interrupted
              => redis[e.item] = EventState(e)

(* Every record of the topic is processed in the end or has thrown, unless *)
(* the consumer stays paused or its coroutine has ended for good.          *)
EveryRecordProcessed ==
    <>[](~paused /\ loop # "dead") =>
        <>[](\A n \in 1 .. Len(topic) : topic[n].eventId \in processed \cup thrown)

(* What the code's comments promise and the code does not keep.            *)
(* The committed offset never moves past a record that was not processed.  *)
CommittedMeansProcessed == \A n \in 1 .. committed : topic[n].eventId \in processed
=============================================================================
