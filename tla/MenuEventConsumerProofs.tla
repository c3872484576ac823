---------------------- MODULE MenuEventConsumerProofs ----------------------
(***************************************************************************)
(* What the idempotent handler keeps through every fault of the model, for *)
(* every topic and any number of faults, replays and overrides: an event   *)
(* is applied at most once, a failed one stays retriable, the offset       *)
(* passes over nothing else, and an item whose events came in order shows  *)
(* the newest of them once the consumer has caught up.                     *)
(***************************************************************************)
EXTENDS MenuEventConsumer, TLAPS

Busy(h) == handler[h].pc # "idle"
Id(h) == EventOf(h).eventId
Settled(n) == topic[n].eventId \in processed \cup thrown

State == [status : Status \cup {"absent"}, version : Nat]

OverrideInv == override.pc = "read" => override.item \in Item /\ override.row \in State

RecordInv == \A h \in Handler : Busy(h) => handler[h].record \in 1 .. Len(topic)

(* The loop handles the record after those of the batch it has done.       *)
LoopInv ==
    /\ loop = "batch" => next <= position
    /\ Busy("loop") => loop = "batch" /\ next < position /\ handler["loop"].record = next + 1

(* Behind a mark stands one handling, whose audit document is still to be  *)
(* written.                                                                *)
MarkInv ==
    \A h \in Handler : Handling(h) => Id(h) \in processed /\ Applications(Id(h)) = 0

ExclusiveInv ==
    \A h, g \in Handler : Handling(h) /\ Handling(g) /\ h # g => Id(h) # Id(g)

AuditInv ==
    \A e \in EventIds : Applications(e) \in {0, 1} /\ (Applications(e) = 1 => e \in processed)

(* All that the loop has left behind is settled.                           *)
SettledInv ==
    /\ loop = "poll" => \A n \in 1 .. position : Settled(n)
    /\ loop = "batch" => \A n \in 1 .. next : Settled(n)

HandlerInv ==
    /\ MarkInv
    /\ ExclusiveInv
    /\ AuditInv
    /\ ProcessedMeansApplied

ConsumerInv ==
    /\ ConsumerTypeOK
    /\ OverrideInv
    /\ RecordInv
    /\ LoopInv
    /\ HandlerInv
    /\ SettledInv
    /\ PassedOverOnlyIfThrown

-----------------------------------------------------------------------------
LEMMA Bounds ==
    ConsumerTypeOK =>
        /\ Len(topic) \in Nat /\ DOMAIN topic = 1 .. Len(topic)
        /\ committed \in Nat /\ position \in Nat /\ next \in Nat
        /\ \A n \in 1 .. Len(topic) : topic[n] \in MenuEvent /\ topic[n].eventId \in EventIds
<1>1. ConsumerTypeOK => topic \in Seq(MenuEvent) /\ Len(topic) \in Nat
                        /\ DOMAIN topic = 1 .. Len(topic)
  BY DEF ConsumerTypeOK
<1>2. ConsumerTypeOK => \A n \in 1 .. Len(topic) : topic[n] \in MenuEvent
  BY <1>1
<1>3. \A e \in MenuEvent : e.eventId \in EventIds
  BY DEF MenuEvent
<1>4. ConsumerTypeOK => committed \in Nat /\ position \in Nat /\ next \in Nat
  BY <1>1 DEF ConsumerTypeOK
<1> QED
  BY <1>1, <1>2, <1>3, <1>4

(* The topic only grows at its end.                                        *)
LEMMA TopicGrows ==
    ASSUME ConsumerTypeOK, [ConsumerNext]_vars
    PROVE  /\ Len(topic)' \in Nat /\ Len(topic) <= Len(topic)'
           /\ \A n \in 1 .. Len(topic) : topic'[n] = topic[n]
<1>1. CASE Produce
  <2>1. PICK s \in Scripts : Len(topic) < Len(s) /\ topic' = Append(topic, s[Len(topic) + 1])
    BY <1>1 DEF Produce
  <2>2. s \in Seq(MenuEvent) /\ Len(s) \in Nat
    BY ConsumerAssumption
  <2>3. Len(topic) + 1 \in 1 .. Len(s)
    BY <2>1, <2>2, Bounds
  <2>4. s[Len(topic) + 1] \in MenuEvent
    BY <2>2, <2>3
  <2>. QED
    BY <2>1, <2>4 DEF ConsumerTypeOK
<1>2. CASE ~Produce
  <2>1. topic' = topic
    BY <1>2 DEF ConsumerNext, AvailabilityNext, LoopStep, HandleEvent, Poll, ProcessRecord,
         EndBatch, MarkProcessedIfNew, PutState, AppendAudit, UnmarkProcessed, Rejoin,
         ReplayLastEvent, OverrideRead, OverridePut, SetPaused, SetRedisUnreachable, Crash,
         vars, kafkaVars
  <2>. QED
    BY <2>1, Bounds
<1>. QED
  BY <1>1, <1>2

LEMMA EventTyped ==
    ASSUME ConsumerInv, NEW h \in Handler, Busy(h)
    PROVE  /\ handler[h].record \in 1 .. Len(topic)
           /\ EventOf(h) \in MenuEvent
           /\ Id(h) \in EventIds
<1>1. handler[h].record \in 1 .. Len(topic)
  BY DEF ConsumerInv, RecordInv
<1> QED
  BY <1>1, Bounds DEF EventOf, Id, ConsumerInv

LEMMA ConsumerInitial == ASSUME ConsumerInit PROVE ConsumerInv
<1> USE DEF ConsumerInit
<1>1. Len(topic) = 0 /\ topic \in Seq(MenuEvent)
  OBVIOUS
<1>2. ConsumerTypeOK
  <2>1. /\ handler \in [Handler -> [pc : {"idle", "mark", "put", "audit", "undo"},
                                    record : 0 .. Len(topic)]]
        /\ redis \in [Item -> [status : Status \cup {"absent"}, version : Nat]]
        /\ audited \in [EventIds -> Nat] /\ unanswered \in [EventIds -> Nat]
    BY <1>1 DEF Idle, Absent
  <2>2. 0 \in 0 .. Len(topic) /\ 0 \in 0 .. MaxFaults /\ 0 \in 0 .. MaxReplays
    BY <1>1, ConsumerAssumption
  <2>3. /\ committed \in 0 .. Len(topic) /\ position \in 0 .. Len(topic)
        /\ next \in 0 .. Len(topic) /\ lastEvent \in 0 .. Len(topic)
        /\ faults \in 0 .. MaxFaults /\ replays \in 0 .. MaxReplays
    BY <2>2
  <2>4. /\ loop \in {"poll", "batch", "dead"} /\ anyFailed \in BOOLEAN
        /\ paused \in BOOLEAN /\ redisUnreachable \in BOOLEAN
        /\ processed = {} /\ thrown = {} /\ interrupted = {} /\ overwritten = {}
    OBVIOUS
  <2> HIDE DEF ConsumerInit
  <2> QED
    BY <1>1, <2>1, <2>3, <2>4 DEF ConsumerTypeOK
<1>3. HandlerInv
  <2>1. \A e \in EventIds : Applications(e) = 0
    BY DEF Applications
  <2> QED
    BY <2>1 DEF HandlerInv, MarkInv, ExclusiveInv, AuditInv, ProcessedMeansApplied, Handling,
                Idle
<1>4. \A n \in 1 .. 0 : FALSE
  OBVIOUS
<1>5. OverrideInv /\ RecordInv /\ LoopInv /\ SettledInv /\ PassedOverOnlyIfThrown
  BY <1>4 DEF Handler, OverrideInv, RecordInv, LoopInv, SettledInv,
              PassedOverOnlyIfThrown, Busy, Idle,
         NoOverride
<1> QED
  BY <1>2, <1>3, <1>5 DEF ConsumerInv

(* Steps that handle no event.                                             *)
LEMMA HandlersUntouched ==
    ASSUME HandlerInv,
           UNCHANGED <<topic, handler, processed, audited, unanswered, thrown, interrupted>>
    PROVE  HandlerInv' /\ \A n : Settled(n) => Settled(n)'
  BY DEF HandlerInv, MarkInv, ExclusiveInv, AuditInv, ProcessedMeansApplied, Handling, Id,
         EventOf, Settled, Applications

LEMMA ProducePreserves == ASSUME ConsumerInv, Produce PROVE ConsumerInv'
<1> USE DEF ConsumerInv
<1>1. /\ Len(topic)' \in Nat /\ Len(topic) \in Nat /\ Len(topic) <= Len(topic)'
      /\ \A n \in 1 .. Len(topic) : topic'[n] = topic[n]
  BY TopicGrows, Bounds DEF ConsumerNext
<1>2. UNCHANGED <<committed, position, loopVars, handler, replays, chaosVars, storeVars,
                  override, history, faults>>
  BY DEF Produce
<1>3. topic' \in Seq(MenuEvent)
  <2>1. PICK s \in Scripts : Len(topic) < Len(s) /\ topic' = Append(topic, s[Len(topic) + 1])
    BY DEF Produce
  <2>2. s \in Seq(MenuEvent) /\ Len(s) \in Nat
    BY ConsumerAssumption
  <2>3. Len(topic) + 1 \in 1 .. Len(s)
    BY <1>1, <2>1, <2>2
  <2>4. s[Len(topic) + 1] \in MenuEvent
    BY <2>2, <2>3
  <2>. QED
    BY <2>1, <2>4 DEF ConsumerTypeOK
<1>4. 0 .. Len(topic) \subseteq 0 .. Len(topic)' /\ 1 .. Len(topic) \subseteq 1 .. Len(topic)'
  BY <1>1
<1>5. ConsumerTypeOK'
  <2>1. handler' \in [Handler -> [pc : {"idle", "mark", "put", "audit", "undo"},
                                  record : 0 .. Len(topic)']]
    BY <1>2, <1>4 DEF ConsumerTypeOK
  <2>. QED
    BY <1>2, <1>3, <1>4, <2>1 DEF ConsumerTypeOK, chaosVars, loopVars, storeVars, history
<1>6. \A h \in Handler : Busy(h) => EventOf(h)' = EventOf(h) /\ Id(h)' = Id(h)
  BY <1>1, <1>2 DEF EventOf, Id, RecordInv
<1>7. HandlerInv'
  <2>1. \A h \in Handler : (Handling(h)' <=> Handling(h)) /\ (Handling(h) => Id(h)' = Id(h))
    BY <1>2, <1>6 DEF Handling, Busy
  <2>2. \A h \in Handler : Handling(h) => EventOf(h)'.eventId = EventOf(h).eventId
    BY <1>6 DEF Handling, Busy
  <2>. QED
    BY <1>2, <2>1, <2>2 DEF HandlerInv, MarkInv, ExclusiveInv, AuditInv,
       ProcessedMeansApplied, Applications, storeVars, history
<1>8. OverrideInv' /\ RecordInv' /\ LoopInv'
  BY <1>2, <1>4 DEF OverrideInv, RecordInv, LoopInv, Busy, loopVars
<1>9. \A n \in 1 .. Len(topic) : Settled(n) => Settled(n)'
  BY <1>1, <1>2 DEF Settled, storeVars, history
<1>10. SettledInv' /\ PassedOverOnlyIfThrown'
  <2>1. /\ 1 .. position \subseteq 1 .. Len(topic) /\ 1 .. next \subseteq 1 .. Len(topic)
        /\ 1 .. committed \subseteq 1 .. Len(topic)
    BY <1>1 DEF ConsumerTypeOK
  <2>. QED
    BY <1>2, <1>9, <2>1 DEF SettledInv, PassedOverOnlyIfThrown, Settled, loopVars
<1> QED
  BY <1>5, <1>7, <1>8, <1>10

LEMMA LoopOnlyPreserves ==
    ASSUME ConsumerInv, Poll \/ EndBatch \/ Rejoin
    PROVE  ConsumerInv'
<1> USE DEF ConsumerInv
<1>1. UNCHANGED <<topic, handler, replays, chaosVars, storeVars, override, history>>
  BY DEF Poll, EndBatch, Rejoin
<1>2. ConsumerTypeOK'
  <2>1. /\ committed' \in 0 .. Len(topic) /\ position' \in 0 .. Len(topic)
        /\ next' \in 0 .. Len(topic)
        /\ loop' \in {"poll", "batch", "dead"} /\ anyFailed' \in BOOLEAN
    <3>1. CASE Poll
      <4>1. PICK n \in position + 1 .. Len(topic) : position' = n
        BY <3>1 DEF Poll
      <4>2. position' \in 0 .. Len(topic)
        BY <4>1, Bounds
      <4> QED
        BY <3>1, <4>2 DEF Poll, ConsumerTypeOK
    <3>2. CASE EndBatch
      BY <3>2 DEF EndBatch, ConsumerTypeOK
    <3>3. CASE Rejoin
      BY <3>3 DEF Rejoin, ConsumerTypeOK, loopVars
    <3> QED
      BY <3>1, <3>2, <3>3
  <2>2. faults' \in 0 .. MaxFaults
    BY ConsumerAssumption DEF ConsumerTypeOK, Poll, EndBatch, Rejoin, Fault, NoFault
  <2> QED
    BY <1>1, <2>1, <2>2 DEF ConsumerTypeOK, chaosVars, storeVars, history
<1>3. HandlerInv' /\ \A n : Settled(n) => Settled(n)'
  BY <1>1, HandlersUntouched DEF storeVars, history
<1>4. OverrideInv' /\ RecordInv'
  BY <1>1 DEF OverrideInv, RecordInv, Busy
<1>5. LoopInv'
  BY <1>1 DEF LoopInv, Busy, Poll, EndBatch, Rejoin, loopVars, ConsumerTypeOK
<1>6. \A n \in 1 .. committed' : Settled(n)
  BY DEF Poll, EndBatch, Rejoin, SettledInv, PassedOverOnlyIfThrown, Settled
<1>7. loop' = "poll" => \A n \in 1 .. position' : Settled(n)
  BY DEF Poll, EndBatch, Rejoin, SettledInv, PassedOverOnlyIfThrown, Settled, loopVars
<1>8. loop' = "batch" => \A n \in 1 .. next' : Settled(n)
  BY DEF Poll, EndBatch, Rejoin, SettledInv, loopVars
<1>9. SettledInv' /\ PassedOverOnlyIfThrown'
  BY <1>3, <1>6, <1>7, <1>8 DEF SettledInv, PassedOverOnlyIfThrown, Settled
<1> QED
  BY <1>2, <1>3, <1>4, <1>5, <1>9

LEMMA PanelPreserves ==
    ASSUME ConsumerInv,
           \/ \E i \in Item : OverrideRead(i)
           \/ OverridePut
           \/ \E b \in BOOLEAN : SetPaused(b) \/ SetRedisUnreachable(b)
    PROVE  ConsumerInv'
<1> USE DEF ConsumerInv
<1>1. UNCHANGED <<kafkaVars, loopVars, handler, replays, lastEvent, processed, audited,
                  thrown, interrupted, unanswered, faults>>
  BY DEF OverrideRead, OverridePut, SetPaused, SetRedisUnreachable, chaosVars, storeVars,
         history
<1>2. /\ redis' \in [Item -> State] /\ paused' \in BOOLEAN /\ redisUnreachable' \in BOOLEAN
      /\ overwritten' \subseteq Item
  BY DEF OverrideRead, OverridePut, SetPaused, SetRedisUnreachable, chaosVars, storeVars,
         ConsumerTypeOK, OverrideInv, State, history
<1>3. ConsumerTypeOK'
  BY <1>1, <1>2 DEF ConsumerTypeOK, State, kafkaVars, loopVars
<1>4. OverrideInv'
  BY ConsumerAssumption DEF OverrideRead, OverridePut, SetPaused, SetRedisUnreachable,
         ConsumerTypeOK, OverrideInv, State, NoOverride
<1>5. HandlerInv' /\ \A n : Settled(n) => Settled(n)'
  BY <1>1, HandlersUntouched DEF kafkaVars
<1>6. RecordInv' /\ LoopInv'
  BY <1>1 DEF RecordInv, LoopInv, Busy, kafkaVars, loopVars
<1>7. SettledInv' /\ PassedOverOnlyIfThrown'
  BY <1>1, <1>5 DEF SettledInv, PassedOverOnlyIfThrown, Settled, kafkaVars, loopVars
<1> QED
  BY <1>3, <1>4, <1>5, <1>6, <1>7

(* A record is taken up, by the loop or by a replay.                       *)
LEMMA TakeUpPreserves ==
    ASSUME ConsumerInv, ProcessRecord \/ ReplayLastEvent
    PROVE  ConsumerInv'
<1> USE DEF ConsumerInv
<1>1. PICK h \in Handler, n \in 1 .. Len(topic) :
        /\ ~Busy(h)
        /\ handler' = [handler EXCEPT ![h] = [pc |-> "mark", record |-> n]]
        /\ lastEvent' \in {lastEvent, n}
        /\ h = "loop" => loop = "batch" /\ next < position /\ n = next + 1
  <2>1. CASE ProcessRecord
    <3>1. next + 1 \in 1 .. Len(topic)
      BY <2>1 DEF ProcessRecord, ConsumerTypeOK
    <3> QED
      BY <2>1, <3>1 DEF ProcessRecord, Handler, Busy
  <2>2. CASE ReplayLastEvent
    <3>1. lastEvent \in 1 .. Len(topic)
      BY <2>2 DEF ReplayLastEvent, ConsumerTypeOK
    <3> QED
      BY <2>2, <3>1 DEF ReplayLastEvent, Handler, Busy, chaosVars
  <2> QED
    BY <2>1, <2>2
<1>2. UNCHANGED <<kafkaVars, loopVars, paused, redisUnreachable, storeVars, override,
                  history, faults>>
  BY DEF ProcessRecord, ReplayLastEvent, chaosVars
<1>3. replays' \in 0 .. MaxReplays
  BY ConsumerAssumption DEF ProcessRecord, ReplayLastEvent, ConsumerTypeOK
<1>4. ConsumerTypeOK'
  BY <1>1, <1>2, <1>3 DEF ConsumerTypeOK, kafkaVars, loopVars, storeVars, history
<1>5. RecordInv' /\ LoopInv' /\ OverrideInv'
  BY <1>1, <1>2 DEF RecordInv, LoopInv, OverrideInv, Busy, ConsumerTypeOK, kafkaVars, loopVars,
                    Handler
<1>6. /\ ~Handling(h) /\ ~Handling(h)'
      /\ \A g \in Handler \ {h} : handler'[g] = handler[g]
  BY <1>1 DEF Handling, Busy, ConsumerTypeOK
<1>7. HandlerInv'
  <2>1. \A g \in Handler : (Handling(g)' <=> Handling(g)) /\ (Handling(g) => Id(g)' = Id(g))
    BY <1>2, <1>6 DEF Handling, Id, EventOf, kafkaVars
  <2> QED
    BY <1>2, <2>1 DEF HandlerInv, MarkInv, ExclusiveInv, AuditInv, ProcessedMeansApplied,
                      Applications, storeVars, history, Id
<1>8. SettledInv' /\ PassedOverOnlyIfThrown'
  BY <1>2 DEF SettledInv, PassedOverOnlyIfThrown, Settled, kafkaVars, loopVars, storeVars,
              history
<1> QED
  BY <1>4, <1>5, <1>7, <1>8

LEMMA CrashPreserves == ASSUME ConsumerInv, Crash PROVE ConsumerInv'
<1> USE DEF ConsumerInv
<1>1. \A h \in Handler : ~Busy(h)' /\ ~Handling(h)'
  BY DEF Crash, Busy, Handling, Idle
<1>2. \A h \in Handler : Handling(h) => Id(h) \in interrupted'
  BY DEF Crash, Id
<1>3. interrupted \subseteq interrupted' /\ interrupted' \subseteq EventIds
  <2>1. \A h \in Handler : Handling(h) => Id(h) \in EventIds
    BY EventTyped DEF Handling, Busy
  <2> QED
    BY <2>1 DEF Crash, ConsumerTypeOK, Id
<1>4. UNCHANGED <<topic, committed, replays, storeVars, thrown, unanswered>>
  BY DEF Crash
<1>5. ConsumerTypeOK'
  <2>1. faults' \in 0 .. MaxFaults
    BY ConsumerAssumption DEF Crash, Fault, ConsumerTypeOK
  <2>2. 0 \in 0 .. Len(topic)
    BY Bounds DEF ConsumerTypeOK
  <2>3. handler' \in [Handler -> [pc : {"idle", "mark", "put", "audit", "undo"},
                                  record : 0 .. Len(topic)]]
    BY <2>2 DEF Crash, Idle
  <2> QED
    BY <1>3, <1>4, <2>1, <2>2, <2>3 DEF Crash, ConsumerTypeOK, storeVars
<1>6. OverrideInv' /\ RecordInv' /\ LoopInv'
  BY <1>1 DEF Crash, OverrideInv, NoOverride, RecordInv, LoopInv, Handler
<1>7. HandlerInv'
  <2>1. MarkInv' /\ ExclusiveInv'
    BY <1>1 DEF MarkInv, ExclusiveInv
  <2>2. AuditInv'
    BY <1>4 DEF HandlerInv, AuditInv, Applications, storeVars
  <2>3. ProcessedMeansApplied'
    BY <1>2, <1>3, <1>4 DEF HandlerInv, ProcessedMeansApplied, Applications, storeVars, Id
  <2> QED
    BY <2>1, <2>2, <2>3 DEF HandlerInv
<1>8. SettledInv' /\ PassedOverOnlyIfThrown'
  BY <1>4 DEF Crash, SettledInv, PassedOverOnlyIfThrown, Settled, storeVars
<1> QED
  BY <1>5, <1>6, <1>7, <1>8

-----------------------------------------------------------------------------
(* The steps of handleEvent, at either place.  What they share: the other  *)
(* place is untouched, and the loop goes on only past a settled record.    *)
OthersUntouched(h) == \A g \in Handler \ {h} : handler'[g] = handler[g]

LEMMA StepTyped ==
    ASSUME ConsumerInv, NEW h \in Handler, HandleEvent(h)
    PROVE  ConsumerTypeOK' /\ OverrideInv' /\ OthersUntouched(h) /\ Busy(h)
<1> USE DEF ConsumerInv
<1>1. Busy(h) /\ UNCHANGED <<kafkaVars, loop, replays, chaosVars, override>>
  BY DEF HandleEvent, MarkProcessedIfNew, PutState, AppendAudit, UnmarkProcessed, Busy
<1>2. /\ handler[h].record \in 1 .. Len(topic)
      /\ EventOf(h) \in MenuEvent /\ Id(h) \in EventIds
  BY <1>1, EventTyped
<1>3. /\ \/ handler' = [handler EXCEPT ![h] = Idle]
         \/ \E pc \in {"put", "audit", "undo"} : handler' = [handler EXCEPT ![h].pc = pc]
      /\ thrown' \in {thrown, thrown \cup {Id(h)}}
  BY DEF HandleEvent, MarkProcessedIfNew, PutState, AppendAudit, UnmarkProcessed, Goto,
         Return, Id
<1>4. handler' \in [Handler -> [pc : {"idle", "mark", "put", "audit", "undo"},
                                record : 0 .. Len(topic)]]
  <2>1. 0 \in 0 .. Len(topic)
    BY Bounds DEF ConsumerTypeOK
  <2>2. CASE handler' = [handler EXCEPT ![h] = Idle]
    BY <2>1, <2>2 DEF ConsumerTypeOK, Idle
  <2>3. ASSUME NEW pc \in {"put", "audit", "undo"}, handler' = [handler EXCEPT ![h].pc = pc]
        PROVE  handler' \in [Handler -> [pc : {"idle", "mark", "put", "audit", "undo"},
                                         record : 0 .. Len(topic)]]
    BY <2>3 DEF ConsumerTypeOK
  <2> QED
    BY <1>3, <2>2, <2>3
<1>5. /\ processed' \in {processed, processed \cup {Id(h)}, processed \ {Id(h)}}
      /\ interrupted' \in {interrupted, interrupted \cup {Id(h)}}
  BY DEF HandleEvent, MarkProcessedIfNew, PutState, AppendAudit, UnmarkProcessed, Goto,
         Return, Id
<1>6. audited' \in [EventIds -> Nat] /\ unanswered' \in [EventIds -> Nat]
  <2>1. /\ audited' \in {audited, [audited EXCEPT ![Id(h)] = @ + 1]}
        /\ unanswered' \in {unanswered, [unanswered EXCEPT ![Id(h)] = @ + 1]}
    BY DEF HandleEvent, MarkProcessedIfNew, PutState, AppendAudit, UnmarkProcessed, OneMore, Id
  <2>2. audited \in [EventIds -> Nat] /\ unanswered \in [EventIds -> Nat]
    BY DEF ConsumerTypeOK
  <2> QED
    BY <1>2, <2>1, <2>2
<1>7. redis' \in [Item -> [status : Status \cup {"absent"}, version : Nat]]
  <2>1. EventState(EventOf(h)) \in [status : Status \cup {"absent"}, version : Nat]
    BY <1>2 DEF EventState, MenuEvent, Status
  <2> QED
    BY <1>2, <2>1 DEF HandleEvent, MarkProcessedIfNew, PutState, RedisTakes, AppendAudit,
                      UnmarkProcessed, ConsumerTypeOK, MenuEvent
<1>8. faults' \in 0 .. MaxFaults
  BY ConsumerAssumption DEF HandleEvent, MarkProcessedIfNew, PutState, AppendAudit,
       UnmarkProcessed, Fault, NoFault, ConsumerTypeOK
<1>9. next' \in 0 .. Len(topic) /\ anyFailed' \in BOOLEAN
  <2>1. \/ UNCHANGED <<next, anyFailed>>
        \/ h = "loop" /\ next' = next + 1 /\ anyFailed' \in BOOLEAN
    BY DEF HandleEvent, MarkProcessedIfNew, PutState, AppendAudit, UnmarkProcessed, Goto,
           Return, ConsumerTypeOK
  <2> QED
    BY <1>1, <2>1 DEF LoopInv, ConsumerTypeOK
<1>10. overwritten' \subseteq Item
  <2>1. overwritten' \subseteq overwritten \cup {EventOf(h).item}
    BY DEF HandleEvent, MarkProcessedIfNew, PutState, RedisTakes, AppendAudit,
           UnmarkProcessed
  <2>. QED
    BY <1>2, <2>1 DEF ConsumerTypeOK, MenuEvent
<1>11. ConsumerTypeOK'
  BY <1>1, <1>2, <1>3, <1>4, <1>5, <1>6, <1>7, <1>8, <1>9, <1>10
     DEF ConsumerTypeOK, kafkaVars, chaosVars
<1>12. OverrideInv' /\ OthersUntouched(h)
  BY <1>1, <1>3 DEF OverrideInv, OthersUntouched, ConsumerTypeOK
<1> QED
  BY <1>1, <1>11, <1>12

(* A step that moves within the handling, at most marking the event.       *)
LEMMA GotoPreserves ==
    ASSUME ConsumerInv, NEW h \in Handler, HandleEvent(h),
           NEW pc \in {"put", "audit", "undo"}, Goto(h, pc),
           processed \subseteq processed', UNCHANGED interrupted,
           \A e \in EventIds : Applications(e)' = Applications(e),
           Id(h) \in processed' /\ Applications(Id(h)) = 0,
           processed' \ processed \subseteq {Id(h)},
           \A g \in Handler \ {h} : Handling(g) => Id(g) # Id(h)
    PROVE  ConsumerInv'
<1> USE DEF ConsumerInv
<1>1. ConsumerTypeOK' /\ OverrideInv' /\ OthersUntouched(h) /\ Busy(h)
  BY StepTyped
<1>2. UNCHANGED <<kafkaVars, loop, next, thrown>>
  BY DEF HandleEvent, MarkProcessedIfNew, PutState, AppendAudit, UnmarkProcessed, Goto
<1>3. /\ handler'[h].record = handler[h].record /\ handler'[h].pc = pc
      /\ \A g \in Handler : g # h => handler'[g] = handler[g]
  BY <1>1 DEF Goto, ConsumerTypeOK, OthersUntouched
<1>4. \A g \in Handler : Id(g)' = Id(g)
  BY <1>2, <1>3 DEF Id, EventOf, kafkaVars
<1>5. /\ Handling(h)'
      /\ \A g \in Handler : g # h => (Handling(g)' <=> Handling(g))
  BY <1>3 DEF Handling
<1>6. RecordInv' /\ LoopInv'
  BY <1>1, <1>2, <1>3 DEF RecordInv, LoopInv, Busy, kafkaVars, Handler
<1>7. MarkInv'
  <2> SUFFICES ASSUME NEW g \in Handler, Handling(g)'
               PROVE  Id(g)' \in processed' /\ Applications(Id(g))' = 0
    BY DEF MarkInv
  <2>1. Id(g)' = Id(g) /\ Id(g) \in EventIds /\ Id(g) \in processed' /\ Applications(Id(g)) = 0
    <3>1. CASE g = h
      BY <1>1, <1>4, <3>1, EventTyped
    <3>2. CASE g # h
      BY <1>4, <1>5, <3>2, EventTyped DEF HandlerInv, MarkInv, Handling, Busy
    <3> QED
      BY <3>1, <3>2
  <2>2. ASSUME NEW e \in EventIds, Applications(e) = 0 PROVE Applications(e)' = 0
    BY <2>2
  <2> QED
    BY <2>1, <2>2 DEF Applications
<1>8. ExclusiveInv'
  BY <1>4, <1>5 DEF HandlerInv, ExclusiveInv
<1>9. AuditInv'
  BY DEF HandlerInv, AuditInv
<1>10. ProcessedMeansApplied'
  <2> SUFFICES ASSUME NEW e \in (processed \ interrupted)'
               PROVE  Applications(e)' = 1 \/ \E g \in Handler : Handling(g)' /\ Id(g)' = e
    BY DEF ProcessedMeansApplied, Id
  <2>1. CASE e = Id(h)
    BY <2>1, <1>4, <1>5
  <2>2. CASE e # Id(h)
    <3>1. e \in processed \ interrupted
      BY <2>2
    <3>2. Applications(e) = 1 \/ \E g \in Handler : Handling(g) /\ Id(g) = e
      BY <3>1 DEF HandlerInv, ProcessedMeansApplied, Id
    <3>3. e \in EventIds
      BY <3>1 DEF ConsumerTypeOK
    <3> QED
      BY <3>2, <3>3, <1>4, <1>5
  <2> QED
    BY <2>1, <2>2
<1>11. SettledInv' /\ PassedOverOnlyIfThrown'
  BY <1>2 DEF SettledInv, PassedOverOnlyIfThrown, Settled, kafkaVars
<1> QED
  BY <1>1, <1>6, <1>7, <1>8, <1>9, <1>10, <1>11 DEF HandlerInv

(* A step that ends the handling, with what it must leave behind.          *)
LEMMA ReturnPreserves ==
    ASSUME ConsumerInv, NEW h \in Handler, HandleEvent(h),
           NEW result, Return(h, result),
           Id(h) \in processed' \cup thrown',
           \A e \in processed : e # Id(h) => e \in processed',
           processed' \ processed \subseteq {Id(h)},
           interrupted \subseteq interrupted',
           processed \subseteq processed' \cup thrown',
           \A e \in EventIds : e # Id(h) => Applications(e)' = Applications(e),
           \A e \in EventIds : e = Id(h) =>
             /\ Applications(e)' \in {0, 1} /\ (Applications(e)' = 1 => e \in processed')
             /\ e \in processed' => \/ e \in interrupted' \/ Applications(e)' = 1
                                    \/ /\ ~Handling(h) /\ e \in processed
                                       /\ UNCHANGED <<processed, audited, unanswered>>,
           \A g \in Handler \ {h} :
             Handling(g) => Id(g) # Id(h) \/ UNCHANGED <<processed, audited, unanswered>>
    PROVE  ConsumerInv'
<1> USE DEF ConsumerInv
<1>1. ConsumerTypeOK' /\ OverrideInv' /\ OthersUntouched(h) /\ Busy(h)
  BY StepTyped
<1>2. /\ UNCHANGED <<kafkaVars, loop>>
      /\ thrown \subseteq thrown'
      /\ IF h = "loop" THEN next' = next + 1 ELSE next' = next
  BY DEF HandleEvent, MarkProcessedIfNew, PutState, AppendAudit, UnmarkProcessed, Return
<1>3. /\ handler'[h] = Idle
      /\ \A g \in Handler : g # h => handler'[g] = handler[g]
  BY <1>1 DEF Return, ConsumerTypeOK, OthersUntouched
<1>4. \A g \in Handler : g # h => Id(g)' = Id(g) /\ (Handling(g)' <=> Handling(g))
  BY <1>2, <1>3 DEF Id, EventOf, Handling, kafkaVars
<1>5. ~Handling(h)' /\ ~Busy(h)'
  BY <1>3 DEF Handling, Busy, Idle
<1>6. RecordInv' /\ LoopInv'
  <2>1. RecordInv'
    BY <1>2, <1>3, <1>5 DEF RecordInv, Busy, kafkaVars
  <2>2. CASE h = "loop"
    <3>1. loop = "batch" /\ next < position /\ next \in Nat /\ position \in Nat
      BY <1>1, <2>2 DEF LoopInv, ConsumerTypeOK
    <3> QED
      BY <1>2, <1>5, <2>1, <2>2, <3>1 DEF LoopInv, kafkaVars
  <2>3. CASE h # "loop"
    <3>1. handler'["loop"] = handler["loop"] /\ UNCHANGED <<loop, next, position>>
      BY <1>2, <1>3, <2>3 DEF kafkaVars, Handler
    <3> QED
      BY <2>1, <3>1 DEF LoopInv, Busy
  <2> QED
    BY <2>2, <2>3
<1>7. MarkInv'
  <2> SUFFICES ASSUME NEW g \in Handler, Handling(g)'
               PROVE  Id(g)' \in processed' /\ Applications(Id(g))' = 0
    BY DEF MarkInv
  <2>1. g # h /\ Handling(g) /\ Id(g)' = Id(g) /\ Id(g) \in EventIds
    BY <1>4, <1>5, EventTyped DEF Handling, Busy
  <2>2. Id(g) \in processed /\ Applications(Id(g)) = 0
    BY <2>1 DEF HandlerInv, MarkInv
  <2>3. \A e \in EventIds : e = Id(g) => Applications(e)' = 0
    <3>1. CASE Id(g) # Id(h)
      BY <2>2, <3>1
    <3>2. CASE UNCHANGED <<processed, audited, unanswered>>
      BY <2>2, <3>2 DEF Applications
    <3> QED
      BY <2>1, <3>1, <3>2
  <2>4. Id(g) \in processed'
    BY <2>1, <2>2
  <2> QED
    BY <2>1, <2>3, <2>4 DEF Applications
<1>8. ExclusiveInv'
  BY <1>4, <1>5 DEF HandlerInv, ExclusiveInv
<1>9. AuditInv'
  BY DEF HandlerInv, AuditInv
<1>10. ProcessedMeansApplied'
  <2> SUFFICES ASSUME NEW e \in (processed \ interrupted)'
               PROVE  Applications(e)' = 1 \/ \E g \in Handler : Handling(g)' /\ Id(g)' = e
    BY DEF ProcessedMeansApplied, Id
  <2>1. Applications(e)' = 1 \/ e \in processed \ interrupted
    BY <1>1 DEF ConsumerTypeOK
  <2>2. CASE e \in processed \ interrupted
    <3>1. Applications(e) = 1 \/ \E g \in Handler : Handling(g) /\ Id(g) = e
      BY <2>2 DEF HandlerInv, ProcessedMeansApplied, Id
    <3>2. e \in EventIds
      BY <2>2 DEF ConsumerTypeOK
    <3>3. \/ Applications(e)' = 1
          \/ Applications(e)' = Applications(e) /\ (e = Id(h) => ~Handling(h))
      BY <3>2 DEF Applications
    <3>4. ASSUME NEW g \in Handler, Handling(g), Id(g) = e, Applications(e)' # 1
          PROVE  Handling(g)' /\ Id(g)' = e
      BY <3>3, <3>4, <1>4
    <3> QED
      BY <3>1, <3>3, <3>4
  <2> QED
    BY <2>1, <2>2
<1>11. \A n : Settled(n) => Settled(n)'
  BY <1>2 DEF Settled, kafkaVars
<1>12. SettledInv'
  <2>1. loop' = "poll" => \A n \in 1 .. position' : Settled(n)'
    BY <1>2, <1>11 DEF SettledInv, kafkaVars
  <2>2. ASSUME loop' = "batch", NEW n \in 1 .. next'
        PROVE  Settled(n)'
    <3>1. n \in 1 .. next \/ (h = "loop" /\ n = next + 1)
      BY <1>2, <2>2 DEF ConsumerTypeOK
    <3>2. CASE n \in 1 .. next
      BY <1>2, <1>11, <2>2, <3>2 DEF SettledInv
    <3>3. CASE h = "loop" /\ n = next + 1
      <4>1. handler[h].record = n
        BY <1>1, <3>3 DEF LoopInv
      <4> QED
        BY <1>2, <4>1 DEF Settled, Id, EventOf, kafkaVars
    <3> QED
      BY <3>1, <3>2, <3>3
  <2> QED
    BY <2>1, <2>2 DEF SettledInv
<1>13. PassedOverOnlyIfThrown'
  BY <1>2, <1>11 DEF PassedOverOnlyIfThrown, Settled, kafkaVars
<1> QED
  BY <1>1, <1>6, <1>7, <1>8, <1>9, <1>10, <1>12, <1>13 DEF HandlerInv

LEMMA HandleEventPreserves ==
    ASSUME ConsumerInv, NEW h \in Handler, HandleEvent(h)
    PROVE  ConsumerInv'
<1> DEFINE id == Id(h)
<1>1. Busy(h) /\ id \in EventIds
  BY StepTyped, EventTyped
<1>2. /\ audited \in [EventIds -> Nat] /\ unanswered \in [EventIds -> Nat]
      /\ MarkInv /\ ExclusiveInv /\ AuditInv
  BY DEF ConsumerInv, ConsumerTypeOK, HandlerInv
<1>3. Handling(h) => id \in processed /\ Applications(id) = 0
  BY <1>2 DEF MarkInv
<1>4. ASSUME Handling(h)
      PROVE  \A g \in Handler \ {h} : Handling(g) => Id(g) # id
  BY <1>2, <1>4 DEF ExclusiveInv
<1>5. UNCHANGED <<audited, unanswered>> =>
        /\ \A e \in EventIds : Applications(e)' = Applications(e)
        /\ \A e \in EventIds : e = id => Applications(e)' = Applications(id)
  BY DEF Applications
<1>6. Applications(id) \in {0, 1} /\ (Applications(id) = 1 => id \in processed)
  BY <1>1, <1>2 DEF AuditInv
<1>7. CASE MarkProcessedIfNew(h)
  <2>1. ~Handling(h) /\ UNCHANGED <<audited, unanswered>>
    BY <1>7 DEF MarkProcessedIfNew, Handling
  <2>2. id \notin processed => /\ Applications(id) = 0
                               /\ \A g \in Handler : Handling(g) => Id(g) # id
    BY <1>2, <1>6 DEF MarkInv
  <2>3. CASE id \notin processed /\ processed' = processed \cup {id} /\ Goto(h, "put")
             /\ UNCHANGED interrupted
    BY <1>5, <2>1, <2>2, <2>3, GotoPreserves
  <2>4. CASE \/ id \in processed /\ Return(h, "duplicate")
                /\ UNCHANGED <<processed, interrupted>>
             \/ Return(h, "failed") /\ UNCHANGED <<processed, interrupted>>
    <3>1. PICK result : Return(h, result) /\ (result = "failed" \/ id \in processed)
      BY <2>4
    <3>2. id \in processed' \cup thrown'
      BY <2>4 DEF Return, Id
    <3> HIDE DEF id
    <3> QED
      BY <1>5, <1>6, <2>1, <2>4, <3>1, <3>2, ReturnPreserves DEF id
  <2>5. CASE /\ id \notin processed /\ processed' = processed \cup {id}
             /\ interrupted' = interrupted \cup {id}
             /\ Return(h, "duplicate") \/ Return(h, "failed")
    <3> HIDE DEF id
    <3> QED
      BY <1>5, <1>6, <2>1, <2>2, <2>5, ReturnPreserves DEF id
  <2> QED
    BY <1>7, <2>3, <2>4, <2>5 DEF MarkProcessedIfNew, Id
<1>8. CASE PutState(h)
  <2>1. Handling(h)
    BY <1>8 DEF PutState, Handling
  <2>2. \E pc \in {"audit", "undo"} : Goto(h, pc)
    BY <1>8 DEF PutState
  <2>3. UNCHANGED <<processed, audited, unanswered, interrupted>>
    BY <1>8 DEF PutState
  <2> QED
    BY <1>3, <1>4, <1>5, <2>1, <2>2, <2>3, GotoPreserves
<1>9. CASE AppendAudit(h)
  <2>1. Handling(h) /\ UNCHANGED <<processed, interrupted>>
    BY <1>9 DEF AppendAudit, Handling
  <2>2. CASE UNCHANGED <<audited, unanswered>> /\ Goto(h, "undo")
    BY <1>3, <1>4, <1>5, <2>1, <2>2, GotoPreserves
  <2>3. CASE /\ audited' = [audited EXCEPT ![id] = @ + 1] /\ Goto(h, "undo")
             /\ unanswered' = [unanswered EXCEPT ![id] = @ + 1]
    <3>1. \A e \in EventIds : Applications(e)' = Applications(e)
      BY <1>1, <1>2, <2>3 DEF Applications
    <3> QED
      BY <1>3, <1>4, <2>1, <2>3, <3>1, GotoPreserves
  <2>4. CASE /\ audited' = [audited EXCEPT ![id] = @ + 1] /\ UNCHANGED unanswered
             /\ Return(h, "accepted")
    <3>1. \A e \in EventIds : e # id => Applications(e)' = Applications(e)
      BY <1>1, <1>2, <2>4 DEF Applications
    <3>2. \A e \in EventIds : e = id => Applications(e)' = 1
      BY <1>1, <1>2, <1>3, <2>1, <2>4 DEF Applications
    <3> HIDE DEF id
    <3> QED
      BY <1>3, <1>4, <2>1, <2>4, <3>1, <3>2, ReturnPreserves DEF id
  <2> QED
    BY <1>9, <2>2, <2>3, <2>4 DEF AppendAudit, OneMore, Id
<1>10. CASE UnmarkProcessed(h)
  <2>1. Handling(h) /\ UNCHANGED <<audited, unanswered>> /\ Return(h, "failed")
    BY <1>10 DEF UnmarkProcessed, Handling
  <2>2. id \in thrown'
    BY <2>1 DEF Return, Id
  <2>3. \/ processed' = processed \ {id} /\ UNCHANGED interrupted
        \/ UNCHANGED processed /\ interrupted' = interrupted \cup {id}
    BY <1>10 DEF UnmarkProcessed, Id
  <2> HIDE DEF id
  <2> QED
    BY <1>3, <1>4, <1>5, <2>1, <2>2, <2>3, ReturnPreserves DEF id
<1> QED
  BY <1>7, <1>8, <1>9, <1>10 DEF HandleEvent

LEMMA StepPreserves == ASSUME ConsumerInv, [ConsumerNext]_vars PROVE ConsumerInv'
<1>1. CASE UNCHANGED vars
  <2>1. UNCHANGED <<topic, committed, position, loop, next, anyFailed, handler, replays,
                    lastEvent, paused, redisUnreachable, processed, redis, audited,
                    override, thrown, interrupted, overwritten, unanswered, faults>>
    BY <1>1 DEF vars, kafkaVars, loopVars, chaosVars, storeVars, history
  <2>2. HandlerInv' /\ \A n : Settled(n) => Settled(n)'
    BY <2>1, HandlersUntouched DEF ConsumerInv, history
  <2> QED
    BY <2>1, <2>2 DEF ConsumerInv, ConsumerTypeOK, OverrideInv, RecordInv, LoopInv,
                      SettledInv, PassedOverOnlyIfThrown, Settled, Busy, history
<1>2. CASE ConsumerNext
  <2>1. \A h \in Handler : HandleEvent(h) => ConsumerInv'
    BY HandleEventPreserves
  <2>2. Produce \/ Crash => ConsumerInv'
    BY ProducePreserves, CrashPreserves
  <2>3. Poll \/ EndBatch \/ Rejoin => ConsumerInv'
    BY LoopOnlyPreserves
  <2>4. ProcessRecord \/ ReplayLastEvent => ConsumerInv'
    BY TakeUpPreserves
  <2> QED
    BY <1>2, <2>1, <2>2, <2>3, <2>4, PanelPreserves DEF ConsumerNext, AvailabilityNext, LoopStep, Handler
<1> QED
  BY <1>1, <1>2

-----------------------------------------------------------------------------
(* The invariant of the consumer: the handlers stand behind their marks,   *)
(* and the loop only behind settled records.                               *)
THEOREM ConsumerInvariance == ConsumerSpec => []ConsumerInv
<1>1. ConsumerInit => ConsumerInv
  BY ConsumerInitial
<1>2. ConsumerInv /\ [ConsumerNext]_vars => ConsumerInv'
  BY StepPreserves
<1> QED
  BY <1>1, <1>2, PTL DEF ConsumerSpec

(* No event is applied twice, through every redelivery, replay and crash.  *)
THEOREM AppliedOnce == ConsumerSpec => []AppliedAtMostOnce
<1>1. ConsumerInv => AppliedAtMostOnce
  BY DEF ConsumerInv, HandlerInv, AuditInv, AppliedAtMostOnce
<1> QED
  BY <1>1, ConsumerInvariance, PTL

(* Only a handling that was cut off leaves a mark without its effects.     *)
THEOREM MarkedMeansApplied == ConsumerSpec => []ProcessedMeansApplied
<1>1. ConsumerInv => ProcessedMeansApplied
  BY DEF ConsumerInv, HandlerInv
<1> QED
  BY <1>1, ConsumerInvariance, PTL

(* The offset passes over an unprocessed event only if it has thrown.      *)
THEOREM PassesOverOnlyThrown == ConsumerSpec => []PassedOverOnlyIfThrown
<1>1. ConsumerInv => PassedOverOnlyIfThrown
  BY DEF ConsumerInv
<1> QED
  BY <1>1, ConsumerInvariance, PTL

-----------------------------------------------------------------------------
(* The order of the states. *)

(* Done with: processed or thrown, and not between the mark and the state  *)
(* that the loop is about to put.                                          *)
Done(n) ==
    \/ topic[n].eventId \in thrown
    \/ /\ topic[n].eventId \in processed
       /\ ~(handler["loop"].pc = "put" /\ Id("loop") = topic[n].eventId)

(* A record is taken up only after the loop is done with all before it.    *)
Begun(m) == \A n \in 1 .. m - 1 : Done(n)

FromTopic(i, v) ==
    \/ v = 0
    \/ \E m \in 1 .. Len(topic) : Begun(m) /\ topic[m].item = i /\ topic[m].version = v

(* Nothing in the process or in Redis is of a record not yet taken up.     *)
BegunInv ==
    /\ \A h \in Handler : Busy(h) => Begun(handler[h].record)
    /\ lastEvent # 0 => Begun(lastEvent)
    /\ \A i \in Item : FromTopic(i, redis[i].version)
    /\ override.pc = "read" => FromTopic(override.item, override.row.version)

LEMMA DoneStays ==
    ASSUME ConsumerInv, [ConsumerNext]_vars
    PROVE  /\ \A n \in 1 .. Len(topic) : Done(n) => Done(n)'
<1>1. CASE \E h \in Handler : MarkProcessedIfNew(h)
  <2>1. PICK h \in Handler : MarkProcessedIfNew(h)
    BY <1>1
  <2>2. /\ thrown \subseteq thrown' /\ processed \subseteq processed'
        /\ \/ Goto(h, "put") /\ Id(h) \notin processed
           \/ handler' = [handler EXCEPT ![h] = Idle]
        /\ topic' = topic
    BY <2>1 DEF MarkProcessedIfNew, Goto, Return, Id, kafkaVars
  <2>3. handler \in [Handler -> [pc : {"idle", "mark", "put", "audit", "undo"},
                                 record : 0 .. Len(topic)]] /\ "loop" \in Handler
    BY DEF ConsumerInv, ConsumerTypeOK, Handler
  <2>4. ASSUME Goto(h, "put"), Id(h) \notin processed
        PROVE  \A n \in 1 .. Len(topic) : Done(n) => Done(n)'
    <3>1. /\ handler'["loop"].record = handler["loop"].record
          /\ handler'["loop"].pc # handler["loop"].pc => h = "loop"
      BY <2>3, <2>4 DEF Goto
    <3>2. ASSUME NEW n \in 1 .. Len(topic), Done(n) PROVE Done(n)'
      <4>. DEFINE id == topic[n].eventId
      <4>1. (Id("loop"))' = Id("loop")
        BY <2>2, <3>1 DEF Id, EventOf
      <4>2. CASE id \in thrown
        BY <2>2, <4>2 DEF Done
      <4>3. CASE id \in processed /\ ~(handler["loop"].pc = "put" /\ Id("loop") = id)
        <5>1. ~(handler'["loop"].pc = "put" /\ Id("loop") = id)
          BY <2>4, <3>1, <4>3
        <5>. QED
          BY <2>2, <4>1, <4>3, <5>1 DEF Done
      <4>. QED
        BY <3>2, <4>2, <4>3 DEF Done
    <3>. QED
      BY <3>2
  <2>5. ASSUME handler' = [handler EXCEPT ![h] = Idle]
        PROVE  \A n \in 1 .. Len(topic) : Done(n) => Done(n)'
    <3>1. handler'["loop"] = handler["loop"] \/ handler'["loop"].pc # "put"
      BY <2>3, <2>5 DEF Idle
    <3>2. ASSUME NEW n \in 1 .. Len(topic), Done(n) PROVE Done(n)'
      <4>1. CASE handler'["loop"] = handler["loop"]
        BY <2>2, <3>2, <4>1 DEF Done, Id, EventOf
      <4>2. CASE handler'["loop"].pc # "put"
        BY <2>2, <3>2, <4>2 DEF Done
      <4>. QED
        BY <3>1, <4>1, <4>2
    <3>. QED
      BY <3>2
  <2>. QED
    BY <2>2, <2>4, <2>5
<1>2. CASE \E h \in Handler : PutState(h) \/ AppendAudit(h) \/ UnmarkProcessed(h)
  <2>1. PICK h \in Handler : PutState(h) \/ AppendAudit(h) \/ UnmarkProcessed(h)
    BY <1>2
  <2>2. /\ thrown \subseteq thrown' /\ processed \subseteq processed' \cup thrown'
        /\ \/ handler' = [handler EXCEPT ![h] = Idle]
           \/ \E pc \in {"audit", "undo"} : handler' = [handler EXCEPT ![h].pc = pc]
    BY <2>1 DEF PutState, AppendAudit, UnmarkProcessed, Goto, Return
  <2>3. handler \in [Handler -> [pc : {"idle", "mark", "put", "audit", "undo"},
                                 record : 0 .. Len(topic)]] /\ "loop" \in Handler
    BY DEF ConsumerInv, ConsumerTypeOK, Handler
  <2>4. handler'["loop"] = handler["loop"] \/ handler'["loop"].pc # "put"
    BY <2>2, <2>3 DEF Idle
  <2>5. topic' = topic
    BY <2>1 DEF PutState, AppendAudit, UnmarkProcessed, kafkaVars
  <2>. QED
    BY <2>2, <2>4, <2>5, Bounds DEF Done, Id, EventOf, ConsumerInv, ConsumerTypeOK
<1>3. CASE ProcessRecord \/ ReplayLastEvent \/ Crash
  <2>1. UNCHANGED <<processed, thrown, topic>>
    BY <1>3 DEF ProcessRecord, ReplayLastEvent, Crash, storeVars, history, kafkaVars
  <2>2. handler'["loop"] = handler["loop"] \/ handler'["loop"].pc # "put"
    BY <1>3 DEF ProcessRecord, ReplayLastEvent, Crash, Idle, ConsumerInv, ConsumerTypeOK,
                Handler
  <2>. QED
    BY <2>1, <2>2, Bounds DEF Done, Id, EventOf, ConsumerInv, ConsumerTypeOK
<1>4. CASE Produce
  <2>1. /\ UNCHANGED <<processed, thrown, handler>>
        /\ \A n \in 1 .. Len(topic) : topic'[n] = topic[n]
    BY <1>4, TopicGrows DEF Produce, storeVars, history, ConsumerInv
  <2>2. handler["loop"].pc = "put" => Id("loop")' = Id("loop")
    BY <2>1 DEF Id, EventOf, ConsumerInv, RecordInv, Busy, Handler
  <2>. QED
    BY <2>1, <2>2 DEF Done
<1>5. CASE \/ Poll \/ EndBatch \/ Rejoin \/ OverridePut
           \/ \E i \in Item : OverrideRead(i)
           \/ \E b \in BOOLEAN : SetPaused(b) \/ SetRedisUnreachable(b)
           \/ UNCHANGED vars
  <2>1. UNCHANGED <<processed, thrown, handler, topic>>
    BY <1>5 DEF Poll, EndBatch, Rejoin, OverridePut, OverrideRead, SetPaused,
                SetRedisUnreachable, vars, storeVars, history, kafkaVars
  <2>. QED
    BY <2>1, Bounds DEF Done, Id, EventOf, ConsumerInv, ConsumerTypeOK
<1>. QED
  BY <1>1, <1>2, <1>3, <1>4, <1>5 DEF ConsumerNext, AvailabilityNext, LoopStep, HandleEvent, Handler

LEMMA BegunStays ==
    ASSUME ConsumerInv, [ConsumerNext]_vars
    PROVE  /\ \A m \in 1 .. Len(topic) : Begun(m) => Begun(m)'
           /\ \A i, v : FromTopic(i, v) => FromTopic(i, v)'
<1>1. ASSUME NEW m \in 1 .. Len(topic), Begun(m)
      PROVE  Begun(m)'
  <2>1. \A n \in 1 .. m - 1 : n \in 1 .. Len(topic)
    BY Bounds DEF ConsumerInv
  <2>. QED
    BY <1>1, <2>1, DoneStays DEF Begun
<1>2. \A m \in 1 .. Len(topic) : m \in 1 .. Len(topic)' /\ topic'[m] = topic[m]
  BY TopicGrows, Bounds DEF ConsumerInv
<1>. QED
  BY <1>1, <1>2 DEF FromTopic

LEMMA BegunInitial == ConsumerInit => BegunInv
BY DEF ConsumerInit, BegunInv, Busy, Idle, Absent, NoOverride, FromTopic

LEMMA BegunStep ==
    ASSUME ConsumerInv, BegunInv, [ConsumerNext]_vars
    PROVE  BegunInv'
<1>. DEFINE Same(h) == handler'[h].record = handler[h].record \/ ~Busy(h)'
<1>1. ConsumerInv'
  BY StepPreserves
<1>2. \A h \in Handler : Busy(h) => handler[h].record \in 1 .. Len(topic)
  BY DEF ConsumerInv, RecordInv
<1>3. lastEvent # 0 => lastEvent \in 1 .. Len(topic)
  BY Bounds DEF ConsumerInv, ConsumerTypeOK
<1>4. handler \in [Handler -> [pc : {"idle", "mark", "put", "audit", "undo"},
                               record : 0 .. Len(topic)]] /\ "loop" \in Handler
  BY DEF ConsumerInv, ConsumerTypeOK, Handler
<1>5. /\ \A h \in Handler : handler'[h] = handler[h] => Begun(handler[h].record)' \/ ~Busy(h)'
      /\ lastEvent' = lastEvent /\ lastEvent' # 0 => Begun(lastEvent)'
  BY <1>2, <1>3, BegunStays DEF BegunInv, Busy
<1>6. UNCHANGED redis => \A i \in Item : FromTopic(i, redis[i].version)'
  BY BegunStays DEF BegunInv
<1>7. UNCHANGED override /\ override'.pc = "read"
        => FromTopic(override.item, override.row.version)'
  BY BegunStays DEF BegunInv
<1>8. CASE ProcessRecord
  <2>1. /\ loop = "batch" /\ next + 1 \in 1 .. Len(topic) /\ handler["loop"].pc = "idle"
        /\ lastEvent' = next + 1 /\ UNCHANGED <<redis, override>>
    BY <1>8 DEF ProcessRecord, ConsumerInv, ConsumerTypeOK, storeVars
  <2>2. /\ handler'["loop"].record = next + 1
        /\ \A h \in Handler : h # "loop" => handler'[h] = handler[h]
    BY <1>4, <1>8 DEF ProcessRecord
  <2>3. Begun(next + 1)
    <3>1. \A n \in 1 .. next : Settled(n)
      BY <2>1 DEF ConsumerInv, SettledInv
    <3>2. \A n \in 1 .. next : Done(n)
      BY <2>1, <3>1 DEF Done, Settled
    <3>3. \A n \in 1 .. (next + 1) - 1 : Done(n)
      BY <3>2, Bounds DEF ConsumerInv
    <3>. QED
      BY <3>3 DEF Begun
  <2>4. \A m \in 1 .. Len(topic) : m = next + 1 => Begun(m)'
    BY <2>3, BegunStays
  <2>. QED
    BY <1>5, <1>6, <1>7, <2>1, <2>2, <2>4 DEF BegunInv
<1>9. CASE ReplayLastEvent
  <2>1. /\ handler'["replay"].record = lastEvent /\ lastEvent # 0 /\ "replay" \in Handler
        /\ \A h \in Handler : h # "replay" => handler'[h] = handler[h]
        /\ UNCHANGED <<lastEvent, redis, override>>
    BY <1>4, <1>9 DEF ReplayLastEvent, chaosVars, storeVars, Handler
  <2>. QED
    BY <1>5, <1>6, <1>7, <2>1 DEF BegunInv
<1>10. CASE \E h \in Handler : HandleEvent(h)
  <2>1. PICK h \in Handler : HandleEvent(h)
    BY <1>10
  <2>2. Busy(h) /\ OthersUntouched(h)
    BY <2>1, StepTyped
  <2>3. UNCHANGED <<lastEvent, override>>
    BY <2>1 DEF HandleEvent, MarkProcessedIfNew, PutState, AppendAudit, UnmarkProcessed,
                chaosVars
  <2>4. handler'[h].record = handler[h].record \/ ~Busy(h)'
    <3>1. \/ handler' = [handler EXCEPT ![h] = Idle]
          \/ \E pc \in {"put", "audit", "undo"} : handler' = [handler EXCEPT ![h].pc = pc]
      BY <2>1 DEF HandleEvent, MarkProcessedIfNew, PutState, AppendAudit, UnmarkProcessed,
                  Goto, Return
    <3>. QED
      BY <1>4, <3>1 DEF Idle, Busy
  <2>5. /\ handler[h].record \in 1 .. Len(topic)
        /\ Begun(handler[h].record)
        /\ \A m \in 1 .. Len(topic) : m = handler[h].record => Begun(m)'
    BY <1>2, <2>2, BegunStays DEF BegunInv
  <2>6. \A g \in Handler : Busy(g)' => Begun(handler[g].record)'
    <3>. SUFFICES ASSUME NEW g \in Handler, Busy(g)' PROVE Begun(handler[g].record)'
      OBVIOUS
    <3>1. CASE g = h
      <4>1. handler'[g].record = handler[h].record
        BY <2>4, <3>1
      <4>. QED
        BY <2>5, <4>1
    <3>2. CASE g # h
      BY <1>5, <2>2, <3>2 DEF OthersUntouched
    <3>. QED
      BY <3>1, <3>2
  <2>7. \A i \in Item : FromTopic(i, redis[i].version)'
    <3>1. UNCHANGED redis \/ redis' = [redis EXCEPT ![EventOf(h).item] = EventState(EventOf(h))]
      BY <2>1 DEF HandleEvent, MarkProcessedIfNew, PutState, RedisTakes, AppendAudit,
                  UnmarkProcessed
    <3>2. CASE redis' = [redis EXCEPT ![EventOf(h).item] = EventState(EventOf(h))]
      <4>1. FromTopic(EventOf(h).item, EventState(EventOf(h)).version)
        BY <2>5 DEF FromTopic, EventState, EventOf
      <4>2. \A i \in Item : \/ redis'[i] = redis[i]
                            \/ i = EventOf(h).item /\ redis'[i] = EventState(EventOf(h))
        BY <3>2 DEF ConsumerInv, ConsumerTypeOK
      <4>3. \A i \in Item : FromTopic(i, redis'[i].version)
        BY <4>1, <4>2 DEF BegunInv
      <4>. QED
        BY <4>3, BegunStays
    <3>. QED
      BY <1>6, <3>1, <3>2
  <2>. QED
    BY <1>5, <1>7, <2>3, <2>6, <2>7 DEF BegunInv
<1>11. CASE \E i \in Item : OverrideRead(i)
  <2>1. PICK i \in Item : OverrideRead(i)
    BY <1>11
  <2>2. /\ override'.item = i /\ override'.row.version = redis[i].version
        /\ UNCHANGED <<handler, lastEvent, redis>>
    BY <2>1 DEF OverrideRead, chaosVars, storeVars
  <2>3. FromTopic(i, redis[i].version)
    BY DEF BegunInv
  <2>4. FromTopic(override.item, override.row.version)'
    BY <2>2, <2>3, BegunStays
  <2>. QED
    BY <1>5, <1>6, <2>2, <2>4 DEF BegunInv
<1>12. CASE OverridePut
  <2>1. /\ UNCHANGED <<handler, lastEvent>> /\ override'.pc # "read" /\ override.pc = "read"
        /\ UNCHANGED redis \/ redis' = [redis EXCEPT ![override.item] = override.row]
    BY <1>12 DEF OverridePut, chaosVars, storeVars, NoOverride
  <2>2. \A i \in Item :
        redis'[i] = redis[i] \/ (i = override.item /\ redis'[i] = override.row)
    BY <2>1 DEF ConsumerInv, ConsumerTypeOK
  <2>3. \A i \in Item : FromTopic(i, redis'[i].version)
    BY <2>1, <2>2 DEF BegunInv
  <2>4. \A i \in Item : FromTopic(i, redis[i].version)'
    BY <2>3, BegunStays
  <2>. QED
    BY <1>5, <2>1, <2>4 DEF BegunInv
<1>13. CASE Crash
  <2>1. /\ \A h \in Handler : ~Busy(h)'
        /\ lastEvent' = 0 /\ UNCHANGED redis /\ override'.pc # "read"
    BY <1>13 DEF Crash, Busy, Idle, NoOverride, storeVars
  <2>. QED
    BY <1>6, <2>1 DEF BegunInv
<1>14. CASE \/ Produce \/ Poll \/ EndBatch \/ Rejoin \/ UNCHANGED vars
            \/ \E b \in BOOLEAN : SetPaused(b) \/ SetRedisUnreachable(b)
  <2>1. UNCHANGED <<handler, lastEvent, redis, override>>
    BY <1>14 DEF Produce, Poll, EndBatch, Rejoin, SetPaused, SetRedisUnreachable, vars,
                 storeVars, chaosVars
  <2>. QED
    BY <1>5, <1>6, <1>7, <2>1 DEF BegunInv
<1>. QED
  BY <1>8, <1>9, <1>10, <1>11, <1>12, <1>13, <1>14 DEF ConsumerNext, AvailabilityNext, LoopStep, Handler

(* No state in Redis and no event under way is of a record that the loop   *)
(* has not come to, through redelivery, replays, overrides and crashes.    *)
THEOREM BegunInvariance == ConsumerSpec => []BegunInv
<1>1. ConsumerInit => BegunInv
  BY BegunInitial
<1>2. ConsumerInv /\ BegunInv /\ [ConsumerNext]_vars => BegunInv'
  BY BegunStep
<1>. QED
  BY <1>1, <1>2, ConsumerInvariance, PTL DEF ConsumerSpec

(* What the loop is about to put is newer than all that was put before.    *)
LEMMA PutGoesForward ==
    ASSUME ConsumerInv, BegunInv, handler["loop"].pc = "put", Id("loop") \notin thrown,
           NEW i \in Item, InOrder(i), EventOf("loop").item = i
    PROVE  redis[i].version <= EventOf("loop").version
<1>. DEFINE r == handler["loop"].record
<1>1. redis[i].version \in Nat
  BY DEF ConsumerInv, ConsumerTypeOK
<1>2. /\ "loop" \in Handler /\ Busy("loop")
  BY DEF Busy, Handler
<1>3. r \in 1 .. Len(topic) /\ topic[r] \in MenuEvent /\ Begun(r)
  BY <1>2, EventTyped DEF EventOf, BegunInv
<1>4. ASSUME NEW n, topic[n].eventId = Id("loop") PROVE ~Done(n)
  BY <1>4 DEF Done
<1>5. topic[r].item = i /\ EventOf("loop") = topic[r] /\ topic[r].version \in Nat
  BY <1>3 DEF EventOf, MenuEvent
<1>6. ASSUME NEW m \in 1 .. Len(topic), Begun(m), topic[m].item = i
      PROVE  topic[m].version <= topic[r].version
  <2>1. m \in Nat /\ r \in Nat /\ Len(topic) \in Nat /\ topic[m].version \in Nat
    BY <1>3, Bounds DEF ConsumerInv, MenuEvent
  <2>2. ~(r \in 1 .. m - 1)
    BY <1>4, <1>6 DEF Begun, Id, EventOf
  <2>3. m <= r
    BY <1>3, <2>1, <2>2
  <2>4. ~(\E l \in 1 .. r - 1 : topic[l] = topic[r])
    BY <1>3, <1>4 DEF Begun, Id, EventOf
  <2>5. \A l \in 1 .. r - 1 : topic[l].item = i => topic[l].version < topic[r].version
    BY <1>3, <1>5, <2>4, Bounds DEF InOrder, ConsumerInv
  <2>6. CASE m = r
    BY <1>5, <2>6
  <2>7. CASE m < r
    <3>1. m \in 1 .. r - 1
      BY <2>1, <2>7
    <3>. QED
      BY <1>5, <1>6, <2>1, <2>5, <3>1
  <2>. QED
    BY <2>1, <2>3, <2>6, <2>7
<1>. HIDE DEF r
<1>7. FromTopic(i, redis[i].version)
  BY DEF BegunInv
<1>. QED
  BY <1>1, <1>5, <1>6, <1>7 DEF FromTopic

(* Over a topic in the order of menu-service the loop never takes an item  *)
(* back to an older version: what it has marked is newer than all that was *)
(* put before, unless another handling of the event has thrown meanwhile.  *)
THEOREM TheLoopNeverGoesBack == ConsumerSpec => LoopKeepsOrder
<1>. DEFINE Forward ==
       PutState("loop") /\ EventOf("loop").eventId \notin thrown =>
         \A i \in Item : InOrder(i) => redis'[i].version >= redis[i].version
<1>1. ConsumerInv /\ BegunInv => Forward
  <2>. SUFFICES ASSUME ConsumerInv, BegunInv, PutState("loop"), Id("loop") \notin thrown,
                       NEW i \in Item, InOrder(i)
                PROVE  redis'[i].version >= redis[i].version
    BY DEF Id
  <2>1. redis \in [Item -> State] /\ redis[i].version \in Nat
    BY DEF ConsumerInv, ConsumerTypeOK, State
  <2>2. handler["loop"].pc = "put" /\ "loop" \in Handler /\ Busy("loop")
    BY DEF PutState, Handler, Busy
  <2>3. \/ redis'[i] = redis[i]
        \/ EventOf("loop").item = i /\ redis'[i].version = EventOf("loop").version
    BY <2>1 DEF PutState, RedisTakes, EventState
  <2>4. EventOf("loop").version \in Nat
    BY <2>2, EventTyped DEF MenuEvent
  <2>. QED
    BY <2>1, <2>2, <2>3, <2>4, PutGoesForward
<1>2. ConsumerInv /\ BegunInv /\ [ConsumerNext]_vars => [Forward]_vars
  BY <1>1
<1>. QED
  BY <1>2, ConsumerInvariance, BegunInvariance, PTL DEF ConsumerSpec, LoopKeepsOrder

-----------------------------------------------------------------------------
(* The state at rest. *)

(* The event's state has been put, and will not be taken back.             *)
Applied(id) ==
    /\ id \in processed \ interrupted
    /\ \A h \in Handler : handler[h].pc \in {"put", "undo"} => Id(h) # id

Shows(k, m) ==
    /\ topic[m].item = topic[k].item
    /\ topic[k].version <= topic[m].version
    /\ redis[topic[k].item] = EventState(topic[m])

(* What Redis shows is at least as new as every event applied.             *)
ShownInv ==
    /\ processed \subseteq {topic[n].eventId : n \in 1 .. Len(topic)}
    /\ \A k \in 1 .. Len(topic) : \A i \in Item : \A id \in EventIds :
         topic[k].item = i /\ topic[k].eventId = id /\ Undisturbed(i) /\ Applied(id)
           => \E m \in 1 .. Len(topic) : Shows(k, m)

LEMMA UndisturbedBefore ==
    ASSUME ConsumerInv, [ConsumerNext]_vars, NEW i, Undisturbed(i)'
    PROVE  Undisturbed(i)
<1>1. /\ Len(topic) \in Nat /\ Len(topic)' \in Nat /\ Len(topic) <= Len(topic)'
      /\ DOMAIN topic = 1 .. Len(topic) /\ DOMAIN topic' = 1 .. Len(topic)'
      /\ \A n \in 1 .. Len(topic) : topic'[n] = topic[n]
  BY TopicGrows, Bounds, StepPreserves DEF ConsumerInv
<1>2. thrown \subseteq thrown' /\ overwritten \subseteq overwritten'
  BY DEF ConsumerNext, AvailabilityNext, LoopStep, HandleEvent, Produce, Poll, ProcessRecord,
         EndBatch, MarkProcessedIfNew, PutState, AppendAudit, UnmarkProcessed, Rejoin,
         ReplayLastEvent, OverrideRead, OverridePut, SetPaused, SetRedisUnreachable, Crash,
         Goto, Return, RedisTakes, vars, history
<1>3. \A n \in DOMAIN topic : n \in DOMAIN topic' /\ topic'[n] = topic[n]
  BY <1>1
<1>4. InOrder(i)
  <2>1. ASSUME NEW k \in DOMAIN topic, NEW l \in DOMAIN topic,
               topic[k].eventId = topic[l].eventId \/ SameVersion(topic[k], topic[l])
        PROVE  topic[k] = topic[l]
    BY <1>3, <2>1 DEF Undisturbed, InOrder, SameVersion
  <2>2. ASSUME NEW k \in DOMAIN topic, topic[k].item = i
        PROVE  \/ \E l \in 1 .. k - 1 : topic[l] = topic[k]
               \/ \A l \in 1 .. k - 1 : topic[l].item = i => topic[l].version < topic[k].version
    <3>1. \A l \in 1 .. k - 1 : l \in DOMAIN topic
      BY <1>1
    <3>. QED
      BY <1>3, <2>2, <3>1 DEF Undisturbed, InOrder
  <2>. QED
    BY <2>1, <2>2 DEF InOrder
<1>. QED
  BY <1>2, <1>3, <1>4 DEF Undisturbed

(* An event becomes applied by the put of its own handling only.           *)
LEMMA AppliedBefore ==
    ASSUME ConsumerInv, [ConsumerNext]_vars, NEW id, Applied(id)', ~Applied(id)
    PROVE  \E h \in Handler : PutState(h) /\ Id(h) = id
<1>1. handler \in [Handler -> [pc : {"idle", "mark", "put", "audit", "undo"},
                               record : 0 .. Len(topic)]]
  BY DEF ConsumerInv, ConsumerTypeOK
<1>2. \A h \in Handler : Busy(h) => Id(h)' = Id(h) \/ handler'[h].record # handler[h].record
  BY TopicGrows DEF Id, EventOf, ConsumerInv, RecordInv
<1>3. ASSUME NEW h \in Handler, HandleEvent(h)
      PROVE  PutState(h) /\ Id(h) = id
  <2>1. OthersUntouched(h) /\ Busy(h)
    BY <1>3, StepTyped
  <2>2. \A g \in Handler : g # h /\ Busy(g) => Id(g)' = Id(g) /\ handler'[g] = handler[g]
    BY <1>2, <2>1 DEF OthersUntouched
  <2>3. UNCHANGED topic
    BY <1>3 DEF HandleEvent, MarkProcessedIfNew, PutState, AppendAudit, UnmarkProcessed,
         kafkaVars
  <2>4. \A pc : Goto(h, pc) => handler'[h].pc = pc /\ Id(h)' = Id(h)
    BY <1>1, <2>3 DEF Goto, Id, EventOf
  <2>5. CASE MarkProcessedIfNew(h)
    <3>1. handler[h].pc = "mark"
      BY <2>5 DEF MarkProcessedIfNew
    <3>2. id \in processed \ interrupted
      BY <2>4, <2>5 DEF MarkProcessedIfNew, Applied, Id
    <3>. QED
      BY <2>2, <3>1, <3>2 DEF Applied, Busy
  <2>6. CASE PutState(h)
    <3>1. UNCHANGED <<processed, interrupted>>
      BY <2>6 DEF PutState
    <3>. QED
      BY <2>2, <2>6, <3>1 DEF Applied, Busy
  <2>7. CASE AppendAudit(h)
    <3>1. UNCHANGED <<processed, interrupted>> /\ handler[h].pc = "audit"
      BY <2>7 DEF AppendAudit
    <3>. QED
      BY <2>2, <3>1 DEF Applied, Busy
  <2>8. CASE UnmarkProcessed(h)
    <3>1. id # Id(h) /\ id \in processed \ interrupted
      BY <2>8 DEF UnmarkProcessed, Applied, Id
    <3>. QED
      BY <2>2, <3>1 DEF Applied, Busy
  <2>. QED
    BY <1>3, <2>5, <2>6, <2>7, <2>8 DEF HandleEvent
<1>4. CASE Crash
  <2>1. \A h \in Handler : Handling(h) => Id(h) \in interrupted'
    BY <1>4 DEF Crash, Id
  <2>2. UNCHANGED processed /\ interrupted \subseteq interrupted'
    BY <1>4 DEF Crash, storeVars
  <2>. QED
    BY <2>1, <2>2 DEF Applied, Handling
<1>5. CASE ProcessRecord \/ ReplayLastEvent
  <2>1. UNCHANGED <<processed, interrupted, topic>>
    BY <1>5 DEF ProcessRecord, ReplayLastEvent, storeVars, history, kafkaVars
  <2>2. \A h \in Handler : handler[h].pc \in {"put", "undo"} => handler'[h] = handler[h]
    BY <1>1, <1>5 DEF ProcessRecord, ReplayLastEvent
  <2>. QED
    BY <2>1, <2>2 DEF Applied, Id, EventOf
<1>6. CASE \/ Produce \/ Poll \/ EndBatch \/ Rejoin \/ OverridePut
           \/ \E i \in Item : OverrideRead(i)
           \/ \E b \in BOOLEAN : SetPaused(b) \/ SetRedisUnreachable(b)
           \/ UNCHANGED vars
  <2>1. UNCHANGED <<processed, interrupted, handler>>
    BY <1>6 DEF Produce, Poll, EndBatch, Rejoin, OverridePut, OverrideRead, SetPaused,
                SetRedisUnreachable, vars, storeVars, history
  <2>. QED
    BY <1>2, <2>1 DEF Applied, Busy
<1>. QED
  BY <1>3, <1>4, <1>5, <1>6 DEF ConsumerNext, AvailabilityNext, LoopStep, Handler

(* What changes a state that Redis shows.                                  *)
LEMMA ShownBefore ==
    ASSUME ConsumerInv, [ConsumerNext]_vars, NEW i \in Item,
           redis'[i] # redis[i], i \notin overwritten'
    PROVE  /\ PutState("loop") /\ EventOf("loop").item = i
           /\ redis'[i] = EventState(EventOf("loop"))
<1>1. redis \in [Item -> State]
  BY DEF ConsumerInv, ConsumerTypeOK, State
<1>2. CASE OverridePut
  BY <1>1, <1>2 DEF OverridePut
<1>3. CASE PutState("replay")
  BY <1>1, <1>3 DEF PutState, RedisTakes
<1>4. CASE PutState("loop")
  BY <1>1, <1>4 DEF PutState, RedisTakes
<1>5. CASE ~OverridePut /\ ~PutState("loop") /\ ~PutState("replay")
  <2>1. UNCHANGED redis
    BY <1>5 DEF ConsumerNext, AvailabilityNext, LoopStep, HandleEvent, Produce, Poll,
         ProcessRecord, EndBatch, MarkProcessedIfNew, AppendAudit, UnmarkProcessed, Rejoin,
         ReplayLastEvent, OverrideRead, SetPaused, SetRedisUnreachable, Crash, vars, storeVars
  <2>. QED
    BY <2>1
<1>. QED
  BY <1>2, <1>3, <1>4, <1>5

LEMMA ShownStep ==
    ASSUME ConsumerInv, BegunInv, ShownInv, [ConsumerNext]_vars
    PROVE  ShownInv'
<1>1. /\ ConsumerInv' /\ Len(topic) \in Nat /\ Len(topic)' \in Nat /\ Len(topic) <= Len(topic)'
      /\ DOMAIN topic = 1 .. Len(topic) /\ DOMAIN topic' = 1 .. Len(topic)'
      /\ \A n \in 1 .. Len(topic) : n \in 1 .. Len(topic)' /\ topic'[n] = topic[n]
      /\ \A n \in 1 .. Len(topic) : topic[n] \in MenuEvent
  BY TopicGrows, Bounds, StepPreserves DEF ConsumerInv
<1>2. processed' \subseteq {topic'[n].eventId : n \in 1 .. Len(topic)'}
  <2>1. {topic[n].eventId : n \in 1 .. Len(topic)} \subseteq
           {topic'[n].eventId : n \in 1 .. Len(topic)'}
    BY <1>1
  <2>2. processed' \subseteq processed \/
           \E h \in Handler : MarkProcessedIfNew(h) /\ processed' = processed \cup {Id(h)}
    BY DEF ConsumerNext, AvailabilityNext, LoopStep, HandleEvent, Produce, Poll, ProcessRecord,
         EndBatch, MarkProcessedIfNew, PutState, AppendAudit, UnmarkProcessed, Rejoin,
         ReplayLastEvent, OverrideRead, OverridePut, SetPaused, SetRedisUnreachable, Crash,
         vars, storeVars, Handler, Id
  <2>3. ASSUME NEW h \in Handler, MarkProcessedIfNew(h)
        PROVE  Id(h) \in {topic[n].eventId : n \in 1 .. Len(topic)}
    <3>1. handler[h].record \in 1 .. Len(topic)
      BY <2>3, EventTyped DEF MarkProcessedIfNew, Busy
    <3>. QED
      BY <3>1 DEF Id, EventOf
  <2>4. processed \subseteq {topic[n].eventId : n \in 1 .. Len(topic)}
    BY DEF ShownInv
  <2>5. CASE processed' \subseteq processed
    BY <2>1, <2>4, <2>5
  <2>6. ASSUME NEW h \in Handler, MarkProcessedIfNew(h), processed' = processed \cup {Id(h)}
        PROVE  processed' \subseteq {topic'[n].eventId : n \in 1 .. Len(topic)'}
    <3>1. Id(h) \in {topic[n].eventId : n \in 1 .. Len(topic)}
      BY <2>3, <2>6
    <3>. QED
      BY <2>1, <2>4, <2>6, <3>1, Zenon
  <2>. QED
    BY <2>2, <2>5, <2>6
<1>3. ASSUME NEW k \in 1 .. Len(topic), NEW i \in Item, NEW id \in EventIds,
             topic[k].item = i, topic[k].eventId = id, Undisturbed(i)', Applied(id)'
      PROVE  \E m \in 1 .. Len(topic)' : Shows(k, m)'
  <2>1. topic[k].version \in Nat /\ topic'[k] = topic[k]
    BY <1>1 DEF MenuEvent
  <2>2. Undisturbed(i) /\ InOrder(i) /\ i \notin overwritten'
    BY <1>3, <2>1, UndisturbedBefore DEF Undisturbed
  <2>3. ASSUME NEW h \in Handler, PutState(h), Id(h) = id
        PROVE  EventOf(h) = topic[k]
    <3>1. handler[h].record \in 1 .. Len(topic)
      BY <2>3, EventTyped DEF PutState, Busy
    <3>2. \A l \in 1 .. Len(topic) : topic[l].eventId = id => topic[l] = topic[k]
      BY <1>1, <1>3, <2>2 DEF InOrder
    <3>. QED
      BY <2>3, <3>1, <3>2 DEF Id, EventOf
  <2>4. CASE redis'[i] = redis[i] /\ Applied(id)
    <3>1. PICK m \in 1 .. Len(topic) : Shows(k, m)
      BY <1>3, <2>2, <2>4 DEF ShownInv
    <3>2. topic'[m] = topic[m]
      BY <1>1
    <3>3. EventState(topic[m])' = EventState(topic[m])
      BY <3>2 DEF EventState
    <3>4. Shows(k, m)'
      BY <1>3, <2>1, <2>4, <3>1, <3>2, <3>3 DEF Shows
    <3>. QED
      BY <1>1, <3>4
  <2>5. CASE PutState("loop") /\ EventOf("loop").item = i
             /\ redis'[i] = EventState(EventOf("loop"))
    <3>1. PICK r \in 1 .. Len(topic) :
            /\ handler["loop"].pc = "put" /\ "loop" \in Handler
            /\ EventOf("loop") = topic[r] /\ topic[r].version \in Nat
      BY <1>1, <2>5, EventTyped DEF PutState, Busy, Handler, EventOf, MenuEvent
    <3>2. topic[k].version <= topic[r].version
      <4>1. CASE Applied(id)
        <5>1. PICK m \in 1 .. Len(topic) : Shows(k, m)
          BY <1>3, <2>2, <4>1 DEF ShownInv
        <5>2. topic[k].version <= redis[i].version /\ redis[i].version \in Nat
          BY <1>1, <1>3, <5>1 DEF Shows, EventState, MenuEvent
        <5>3. Id("loop") \notin thrown
          BY <1>1, <2>2, <2>5, <3>1 DEF Undisturbed, Id
        <5>4. redis[i].version <= topic[r].version
          BY <2>1, <2>2, <2>5, <3>1, <5>3, PutGoesForward
        <5>. QED
          BY <2>1, <3>1, <5>2, <5>4
      <4>2. CASE ~Applied(id)
        <5>1. PICK h \in Handler : PutState(h) /\ Id(h) = id
          BY <1>3, <2>1, <4>2, AppliedBefore
        <5>2. h = "loop"
          BY <2>5, <5>1 DEF PutState, Goto, ConsumerInv, ConsumerTypeOK, Handler
        <5>. QED
          BY <2>1, <2>3, <3>1, <5>1, <5>2
      <4>. QED
        BY <4>1, <4>2
    <3>3. Shows(k, r)'
      <4>1. topic'[r] = topic[r]
        BY <1>1, <3>1
      <4>2. redis'[i] = EventState(topic[r]) /\ topic[r].item = i
        BY <2>5, <3>1
      <4>3. EventState(topic[r])' = EventState(topic[r])
        BY <4>1 DEF EventState
      <4>. QED
        BY <1>3, <2>1, <3>2, <4>1, <4>2, <4>3 DEF Shows
    <3>. QED
      BY <1>1, <3>1, <3>3
  <2>6. CASE redis'[i] = redis[i] /\ ~Applied(id)
    <3>1. PICK h \in Handler : PutState(h) /\ Id(h) = id
      BY <1>3, <2>1, <2>6, AppliedBefore
    <3>2. EventOf(h) = topic[k]
      BY <2>3, <3>1
    <3>3. handler'[h].pc \in {"audit", "undo"} /\ Id(h)' = Id(h)
      BY <3>1 DEF PutState, Goto, ConsumerInv, ConsumerTypeOK, Id, EventOf, kafkaVars
    <3>4. handler'[h].pc # "undo"
      BY <1>3, <2>1, <3>1, <3>3 DEF Applied
    <3>5. redis' = [redis EXCEPT ![i] = EventState(topic[k])]
      BY <1>3, <3>1, <3>2, <3>3, <3>4 DEF PutState, RedisTakes, Goto, ConsumerInv, ConsumerTypeOK
    <3>6. redis'[i] = EventState(topic[k])
      BY <2>1, <3>5 DEF ConsumerInv, ConsumerTypeOK
    <3>7. Shows(k, k)'
      BY <1>3, <2>1, <3>6 DEF Shows, EventState
    <3>. QED
      BY <1>1, <3>7
  <2>. QED
    BY <2>1, <2>2, <2>4, <2>5, <2>6, ShownBefore
<1>4. ASSUME NEW k \in 1 .. Len(topic)', NEW i \in Item, NEW id \in EventIds,
             topic'[k].item = i, topic'[k].eventId = id, Undisturbed(i)', Applied(id)'
      PROVE  \E m \in 1 .. Len(topic)' : Shows(k, m)'
  <2>1. CASE k \in 1 .. Len(topic)
    BY <1>1, <1>3, <1>4, <2>1
  <2>2. CASE ~(k \in 1 .. Len(topic))
    <3>1. Produce
      BY <2>2 DEF ConsumerNext, AvailabilityNext, LoopStep, HandleEvent, Poll, ProcessRecord,
         EndBatch, MarkProcessedIfNew, PutState, AppendAudit, UnmarkProcessed, Rejoin,
         ReplayLastEvent, OverrideRead, OverridePut, SetPaused, SetRedisUnreachable, Crash,
         vars, kafkaVars
    <3>2. id \in processed
      BY <1>4, <3>1 DEF Applied, Produce, storeVars
    <3>3. PICK l \in 1 .. Len(topic) : topic[l].eventId = id
      BY <3>2 DEF ShownInv
    <3>4. topic'[l] = topic'[k] /\ topic'[l] = topic[l]
      <4>1. l \in DOMAIN topic' /\ k \in DOMAIN topic' /\ topic'[l] = topic[l]
        BY <1>1, <1>4
      <4>. QED
        BY <1>4, <3>3, <4>1 DEF Undisturbed, InOrder
    <3>5. PICK m \in 1 .. Len(topic)' : Shows(l, m)'
      BY <1>3, <1>4, <3>4
    <3>6. Shows(k, m)'
      BY <3>4, <3>5 DEF Shows
    <3>. QED
      BY <3>6
  <2>. QED
    BY <2>1, <2>2
<1>. QED
  BY <1>2, <1>4 DEF ShownInv

LEMMA ShownInitial == ConsumerInit => ShownInv
BY DEF ConsumerInit, ShownInv, Applied

(* All that the state at rest depends on.                                  *)
RestInv == ConsumerInv /\ BegunInv /\ ShownInv

LEMMA RestInitial == ASSUME ConsumerInit PROVE RestInv
BY ConsumerInitial, BegunInitial, ShownInitial DEF RestInv

LEMMA RestStep == ASSUME RestInv, [ConsumerNext]_vars PROVE RestInv'
BY StepPreserves, BegunStep, ShownStep DEF RestInv

(* Redis is as new as every event applied and not yet overwritten.         *)
THEOREM RestInvariance == ConsumerSpec => []RestInv
<1>1. ConsumerInit => RestInv
  BY RestInitial
<1>2. RestInv /\ [ConsumerNext]_vars => RestInv'
  BY RestStep
<1>. QED
  BY <1>1, <1>2, PTL DEF ConsumerSpec

(* At rest everything the loop has left behind is applied, and nothing     *)
(* applied is newer than what Redis shows.                                 *)
LEMMA RestShows == ASSUME RestInv PROVE NewestIsShown
<1>. SUFFICES ASSUME ConsumerInv, ShownInv, AtRest, NEW k \in DOMAIN topic,
                     Newest(topic[k]), Undisturbed(topic[k].item),
                     topic[k].eventId \notin interrupted
              PROVE  redis[topic[k].item] = EventState(topic[k])
  BY DEF NewestIsShown, RestInv
<1>1. DOMAIN topic = 1 .. Len(topic) /\ \A n \in DOMAIN topic : topic[n] \in MenuEvent
  BY Bounds DEF ConsumerInv
<1>2. Settled(k)
  BY <1>1 DEF AtRest, ConsumerInv, SettledInv
<1>3. Applied(topic[k].eventId)
  BY <1>2 DEF Settled, Undisturbed, Applied, AtRest, Idle
<1>4. PICK m \in 1 .. Len(topic) : Shows(k, m)
  BY <1>1, <1>3 DEF ShownInv, MenuEvent
<1>5. topic[m].version <= topic[k].version /\ m \in DOMAIN topic
  BY <1>1, <1>4 DEF Newest, Shows
<1>6. SameVersion(topic[k], topic[m])
  BY <1>1, <1>4, <1>5 DEF SameVersion, Shows, MenuEvent
<1>. QED
  BY <1>4, <1>5, <1>6 DEF Undisturbed, InOrder, Shows

(* At rest Redis shows an item's newest event, whatever has happened to    *)
(* the others on the way.                                                  *)
THEOREM RestIsNewest == ConsumerSpec => []NewestIsShown
<1>1. RestInv => NewestIsShown
  BY RestShows
<1>. QED
  BY <1>1, RestInvariance, PTL
=============================================================================
