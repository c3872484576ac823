-------------------------- MODULE WorkerPoolProofs --------------------------
(***************************************************************************)
(* What the pool keeps however its polls, retries and the shutdown meet,   *)
(* for every number of goroutines, slots and venues: the semaphore and the *)
(* WaitGroup count what they stand for, no outcome contradicts the topics, *)
(* and a shutdown that had the time leaves no run behind.  All of it rests *)
(* on each open run having one poll that will finish it.                   *)
(***************************************************************************)
EXTENDS WorkerPool, FiniteSetTheorems, TLAPS

USE PoolAssumption

Ticking == {w \in Worker : worker[w].kind = "ticker"}
Holding == {w \in Worker : worker[w].pc \in Polling}

(* The slots taken are those of the polls and the one the loop carries.    *)
SlotInv ==
    /\ sem = Cardinality(Holding) + (IF loop = "acquired" THEN 1 ELSE 0)
    /\ loop = "acquired" => venue <= NumVenues

WaitInv == inFlight = Cardinality(Ticking)

(* From its INSERT on until its outcome is recorded a poll has a run.      *)
Owning == {"fetch", "backoff", "publish", "dlq", "succeed", "fail"}

WellFormed(t) ==
    /\ t.kind = "none" <=> t = Free
    /\ t.kind # "none" => t.pc # "free"
    /\ t.pc \in {"acquire", "delay", "start", "insert"} => t.attempts = 0
    /\ t.pc \in {"fetch", "backoff"} => t.attempts < MaxAttempts

WorkerInv ==
    \A w \in Worker :
        /\ WellFormed(worker[w])
        /\ worker[w].pc \in Owning => worker[w].run \in DOMAIN runs

(* No two polls have one run.                                              *)
OwnerInv ==
    \A w, u \in Worker : worker[w].run # 0 /\ worker[w].run = worker[u].run => w = u

(* What the topics have of the run of a poll at each place.                *)
TopicInv ==
    \A w \in Worker :
        /\ worker[w].pc \in {"fetch", "backoff", "publish", "dlq"} =>
              worker[w].run \notin synced \cup dead
        /\ worker[w].pc = "succeed" => worker[w].run \in synced

(* A run that is open is some poll's, or the store lost what was written,  *)
(* or had no time left to write it.                                        *)
OpenInv ==
    \A n \in DOMAIN runs : runs[n] = "running" =>
        \/ n \in unrecorded \cup late
        \/ \E w \in Worker : worker[w].pc \in Owning /\ worker[w].run = n

(* A shutdown in time outlives the retries first and then the polls.       *)
ShutdownInv ==
    ~deadline =>
        /\ main = "waiting" => \A w \in Worker : worker[w].kind # "retry"
        /\ main = "exited" => \A w \in Worker : worker[w].kind = "none"

PoolInv ==
    /\ PoolTypeOK
    /\ SlotInv
    /\ WaitInv
    /\ WorkerInv
    /\ OwnerInv
    /\ TopicInv
    /\ OutcomesMatchTopics
    /\ OpenInv
    /\ ShutdownInv

-----------------------------------------------------------------------------
(* Worker w goes on to state t and no other moves.                         *)
Goes(w, t) == worker' = [worker EXCEPT ![w] = t]

Slot(pc) == IF pc \in Polling THEN 1 ELSE 0
Ticks(t) == IF t.kind = "ticker" THEN 1 ELSE 0

(* What it holds follows it.                                               *)
Accounted(w, t) ==
    /\ sem' = sem + Slot(t.pc) - Slot(worker[w].pc) /\ sem' <= MaxConcurrency
    /\ inFlight' = inFlight + Ticks(t) - Ticks(worker[w])

Unsettled == {"fetch", "backoff", "publish", "dlq"}

(* It neither takes nor settles a run.                                     *)
KeepsRun(w, t) ==
    /\ t.run \in {0, worker[w].run}
    /\ \/ t.pc = worker[w].pc /\ t.run = worker[w].run
       \/ /\ t.pc \in Unsettled /\ worker[w].pc \in Unsettled
          /\ t.run = worker[w].run
       \/ t.pc \notin Owning /\ worker[w].pc \notin Owning

LEMMA Typed ==
  ASSUME PoolTypeOK
  PROVE  /\ Len(runs) \in Nat /\ DOMAIN runs = 1 .. Len(runs)
         /\ \A w \in Worker : /\ worker[w] \in WorkerState
                              /\ worker[w].run \in 0 .. Len(runs)
         /\ sem \in Nat /\ inFlight \in Nat /\ Cardinality(Worker) \in Nat
  BY FS_CardinalityType DEF PoolTypeOK, WorkerState

LEMMA FreeTyped == Free.kind = "none" /\ Free.pc = "free" /\ Free.run = 0 /\ Free.attempts = 0
  BY DEF Free

LEMMA Counted ==
  /\ IsFiniteSet(Holding) /\ Cardinality(Holding) \in Nat
  /\ IsFiniteSet(Ticking) /\ Cardinality(Ticking) \in Nat
  /\ Cardinality(Ticking) <= Cardinality(Worker)
  BY FS_Subset, FS_CardinalityType DEF Holding, Ticking

(* One worker goes on: the two counts follow it.                           *)
LEMMA CountsFollow ==
  ASSUME PoolTypeOK, NEW w \in Worker, NEW s, Goes(w, s)
  PROVE  /\ worker'[w] = s /\ \A u \in Worker \ {w} : worker'[u] = worker[u]
         /\ Cardinality(Holding') = Cardinality(Holding) + Slot(s.pc) - Slot(worker[w].pc)
         /\ Cardinality(Ticking') = Cardinality(Ticking) + Ticks(s) - Ticks(worker[w])
         /\ Cardinality(Ticking') <= Cardinality(Worker)
<1>1. worker'[w] = s /\ \A u \in Worker \ {w} : worker'[u] = worker[u]
  BY DEF PoolTypeOK, Goes
<1>2. Cardinality(Holding') = Cardinality(Holding) + Slot(s.pc) - Slot(worker[w].pc)
  <2>1. CASE s.pc \in Polling /\ worker[w].pc \notin Polling
    <3>1. Holding' = Holding \cup {w} /\ w \notin Holding
      BY <1>1, <2>1 DEF Holding
    <3>2. Cardinality(Holding') = Cardinality(Holding) + 1
      BY <3>1, Counted, FS_AddElement
    <3>. QED
      BY <2>1, <3>2, Counted DEF Slot
  <2>2. CASE s.pc \notin Polling /\ worker[w].pc \in Polling
    <3>1. Holding' = Holding \ {w} /\ w \in Holding
      BY <1>1, <2>2 DEF Holding
    <3>2. Cardinality(Holding') = Cardinality(Holding) - 1
      BY <3>1, Counted, FS_RemoveElement
    <3>. QED
      BY <2>2, <3>2, Counted DEF Slot
  <2>3. CASE s.pc \in Polling <=> worker[w].pc \in Polling
    <3>1. Holding' = Holding
      BY <1>1, <2>3 DEF Holding
    <3>. QED
      BY <2>3, <3>1, Counted DEF Slot
  <2>. QED
    BY <2>1, <2>2, <2>3
<1>3. Cardinality(Ticking') = Cardinality(Ticking) + Ticks(s) - Ticks(worker[w])
  <2>1. CASE s.kind = "ticker" /\ worker[w].kind # "ticker"
    <3>1. Ticking' = Ticking \cup {w} /\ w \notin Ticking
      BY <1>1, <2>1 DEF Ticking
    <3>2. Cardinality(Ticking') = Cardinality(Ticking) + 1
      BY <3>1, Counted, FS_AddElement
    <3>. QED
      BY <2>1, <3>2, Counted DEF Ticks
  <2>2. CASE s.kind # "ticker" /\ worker[w].kind = "ticker"
    <3>1. Ticking' = Ticking \ {w} /\ w \in Ticking
      BY <1>1, <2>2 DEF Ticking
    <3>2. Cardinality(Ticking') = Cardinality(Ticking) - 1
      BY <3>1, Counted, FS_RemoveElement
    <3>. QED
      BY <2>2, <3>2, Counted DEF Ticks
  <2>3. CASE s.kind = "ticker" <=> worker[w].kind = "ticker"
    <3>1. Ticking' = Ticking
      BY <1>1, <2>3 DEF Ticking
    <3>. QED
      BY <2>3, <3>1, Counted DEF Ticks
  <2>. QED
    BY <2>1, <2>2, <2>3
<1>4. Cardinality(Ticking') <= Cardinality(Worker)
  BY FS_Subset DEF Ticking
<1>. QED
  BY <1>1, <1>2, <1>3, <1>4

(* A worker that goes on and leaves runs and topics alone.                 *)
LEMMA QuietStep ==
  ASSUME PoolInv, NEW w \in Worker, NEW s \in WorkerState, Goes(w, s),
         UNCHANGED <<store, topics>>, WellFormed(s), KeepsRun(w, s)
  PROVE  /\ worker' \in [Worker -> WorkerState']
         /\ WorkerInv' /\ OwnerInv' /\ TopicInv' /\ OutcomesMatchTopics' /\ OpenInv'
<1>. USE DEF store, topics
<1>0. /\ PoolTypeOK /\ worker'[w] = s /\ \A u \in Worker \ {w} : worker'[u] = worker[u]
      /\ worker \in [Worker -> WorkerState]
  BY DEF PoolInv, PoolTypeOK, Goes
<1>1. WorkerState' = WorkerState
  BY DEF WorkerState
<1>2. worker' \in [Worker -> WorkerState']
  BY <1>0, <1>1 DEF Goes
<1>a. Unsettled \subseteq Owning /\ Unsettled \cap {"succeed", "fail"} = {}
      /\ {"fetch", "backoff", "publish", "dlq"} = Unsettled /\ "succeed" \in Owning
  BY DEF Unsettled, Owning
<1>3. WorkerInv'
  BY <1>0, <1>a DEF PoolInv, WorkerInv, KeepsRun, WellFormed
<1>4. OwnerInv'
  BY <1>0 DEF PoolInv, OwnerInv, KeepsRun
<1>5. TopicInv'
  BY <1>0, <1>a DEF PoolInv, TopicInv, KeepsRun
<1>6. OutcomesMatchTopics'
  BY DEF PoolInv, OutcomesMatchTopics
<1>7. OpenInv'
  BY <1>0, <1>a DEF PoolInv, OpenInv, KeepsRun
<1>. QED
  BY <1>2, <1>3, <1>4, <1>5, <1>6, <1>7

LEMMA PoolInitial == ASSUME PoolInit PROVE PoolInv
<1>. USE DEF PoolInit
<1>1. \A w \in Worker : worker[w] = Free
  OBVIOUS
<1>2. Len(runs) = 0 /\ DOMAIN runs = {}
  OBVIOUS
<1>3. PoolTypeOK
  <2>1. Free \in WorkerState
    BY <1>2 DEF Free, WorkerState
  <2>2. Cardinality(Worker) \in Nat
    BY FS_CardinalityType
  <2>3. sem \in 0 .. MaxConcurrency /\ inFlight \in 0 .. Cardinality(Worker)
    BY <2>2
  <2>4. runs \in Seq(Status) /\ venue \in 1 .. NumVenues + 1
    OBVIOUS
  <2>. QED
    BY <2>1, <2>3, <2>4 DEF PoolTypeOK
<1>4. SlotInv /\ WaitInv
  <2>1. Holding = {} /\ Ticking = {}
    BY <1>1 DEF Holding, Ticking, Free, Polling
  <2>. QED
    BY <2>1, FS_EmptySet DEF SlotInv, WaitInv
<1>5. WorkerInv /\ OwnerInv /\ TopicInv
  BY <1>1 DEF WorkerInv, WellFormed, OwnerInv, TopicInv, Free, Owning
<1>6. OutcomesMatchTopics /\ OpenInv /\ ShutdownInv
  BY <1>2 DEF OutcomesMatchTopics, OpenInv, ShutdownInv
<1>. QED
  BY <1>3, <1>4, <1>5, <1>6 DEF PoolInv

(* What only the loop and main do leaves the polls alone.                  *)
LEMMA PollsKept ==
  ASSUME PoolInv, UNCHANGED <<worker, store, topics>>
  PROVE  /\ worker' \in [Worker -> WorkerState'] /\ Holding' = Holding /\ Ticking' = Ticking
         /\ WorkerInv' /\ OwnerInv' /\ TopicInv' /\ OutcomesMatchTopics' /\ OpenInv'
  BY DEF PoolInv, PoolTypeOK, WorkerState, Holding, Ticking, WorkerInv, OwnerInv, TopicInv,
         OutcomesMatchTopics, OpenInv, store, topics

LEMMA LoopKeeps ==
  ASSUME PoolInv, Tick \/ EndLoop \/ AcquireForVenue
  PROVE  PoolInv'
<1>. USE DEF Tick, EndLoop, AcquireForVenue, mainVars
<1>0. PoolTypeOK
  BY DEF PoolInv
<1>1. UNCHANGED <<worker, store, topics>>
  OBVIOUS
<1>2. PoolTypeOK'
  BY <1>0, <1>1, PollsKept, Typed DEF PoolTypeOK, store, topics
<1>3. SlotInv' /\ WaitInv'
  BY <1>0, <1>1, PollsKept, Typed, Counted DEF PoolInv, SlotInv, WaitInv, PoolTypeOK
<1>4. ShutdownInv'
  BY DEF PoolInv, ShutdownInv
<1>. QED
  BY <1>1, <1>2, <1>3, <1>4, PollsKept DEF PoolInv

LEMMA MainKeeps ==
  ASSUME PoolInv, Signal \/ DeadlinePasses \/ ShutdownHTTP \/ Wait
  PROVE  PoolInv'
<1>. USE DEF Signal, DeadlinePasses, ShutdownHTTP, Wait, loopVars
<1>0. PoolTypeOK
  BY DEF PoolInv
<1>1. UNCHANGED <<worker, store, topics, sem, inFlight, loopVars>>
  OBVIOUS
<1>2. PoolTypeOK'
  BY <1>0, <1>1, PollsKept DEF PoolTypeOK, store, topics
<1>3. SlotInv' /\ WaitInv'
  BY <1>1, PollsKept DEF PoolInv, SlotInv, WaitInv
<1>4. ShutdownInv'
  <2>1. CASE Signal \/ DeadlinePasses \/ ShutdownHTTP
    BY <2>1 DEF PoolInv, ShutdownInv
  <2>2. CASE Wait
    <3>1. SUFFICES ASSUME ~deadline
          PROVE  \A w \in Worker : worker[w].kind = "none"
      BY <2>2 DEF ShutdownInv
    <3>2. Ticking = {}
      BY <2>2, <3>1, Counted, FS_EmptySet DEF PoolInv, WaitInv
    <3>3. \A w \in Worker : worker[w].kind \in {"none", "ticker", "retry"}
      BY <1>0, Typed DEF WorkerState
    <3>. QED
      BY <2>2, <3>1, <3>2, <3>3 DEF PoolInv, ShutdownInv, Ticking
  <2>. QED
    BY <2>1, <2>2
<1>. QED
  BY <1>1, <1>2, <1>3, <1>4, PollsKept DEF PoolInv

LEMMA LaunchKeeps == ASSUME PoolInv, NEW w \in Worker, Launch(w) PROVE PoolInv'
<1>. USE DEF Launch, mainVars
<1>. DEFINE s == [Free EXCEPT !.kind = "ticker", !.pc = "delay"]
<1>0. PoolTypeOK /\ worker[w] = Free /\ ShutdownInv /\ UNCHANGED <<store, topics>>
  BY DEF PoolInv
<1>1. /\ s \in WorkerState /\ s.kind = "ticker" /\ s.pc = "delay"
      /\ s.run = 0 /\ s.attempts = 0 /\ s # Free
      /\ Goes(w, s)
  BY <1>0, Typed DEF Free, WorkerState, Polling, Goes
<1>. HIDE DEF s
<1>2. /\ worker' \in [Worker -> WorkerState']
      /\ WorkerInv' /\ OwnerInv' /\ TopicInv' /\ OutcomesMatchTopics' /\ OpenInv'
  <2>1. WellFormed(s) /\ KeepsRun(w, s)
    BY <1>0, <1>1, FreeTyped DEF Owning, WellFormed, KeepsRun
  <2>. QED
    BY <1>0, <1>1, <2>1, QuietStep
<1>3. /\ Cardinality(Holding') = Cardinality(Holding) + 1
      /\ Cardinality(Ticking') = Cardinality(Ticking) + 1
      /\ Cardinality(Ticking') <= Cardinality(Worker)
  <2>1. Slot(s.pc) = 1 /\ Slot(worker[w].pc) = 0 /\ Ticks(s) = 1 /\ Ticks(worker[w]) = 0
    BY <1>0, <1>1, FreeTyped DEF Slot, Ticks, Polling
  <2>. QED
    BY <1>0, <1>1, <2>1, CountsFollow, Counted
<1>4. SlotInv' /\ WaitInv'
  BY <1>0, <1>3, Typed, Counted DEF PoolInv, SlotInv, WaitInv
<1>5. PoolTypeOK'
  <2>1. inFlight' \in 0 .. Cardinality(Worker)
    BY <1>0, <1>3, <1>4, Typed, Counted DEF WaitInv
  <2>2. venue' \in 1 .. NumVenues + 1
    BY <1>0 DEF PoolTypeOK, PoolInv, SlotInv
  <2>. QED
    BY <1>0, <1>2, <2>1, <2>2 DEF PoolTypeOK, store, topics
<1>6. ShutdownInv'
  BY <1>0, <1>1, CountsFollow DEF ShutdownInv, Running
<1>. QED
  BY <1>2, <1>4, <1>5, <1>6 DEF PoolInv

(* A worker that goes on: what it takes and gives back is counted.         *)
LEMMA CountedStep ==
  ASSUME PoolInv, NEW w \in Worker, NEW s, Goes(w, s), Accounted(w, s),
         UNCHANGED <<loopVars, mainVars>>, main # "exited",
         s.kind \in {worker[w].kind, "none"} \/ (main = "serving" /\ s.kind = "retry")
  PROVE  /\ SlotInv' /\ WaitInv' /\ ShutdownInv'
         /\ sem' \in 0 .. MaxConcurrency /\ inFlight' \in 0 .. Cardinality(Worker)
<1>. USE DEF loopVars, mainVars
<1>0. PoolTypeOK /\ SlotInv /\ WaitInv /\ ShutdownInv
  BY DEF PoolInv
<1>a. /\ Slot(s.pc) \in {0, 1} /\ Slot(worker[w].pc) \in {0, 1}
      /\ Ticks(s) \in {0, 1} /\ Ticks(worker[w]) \in {0, 1}
  BY DEF Slot, Ticks
<1>1. SlotInv' /\ sem' \in 0 .. MaxConcurrency
  <2>1. Cardinality(Holding') = Cardinality(Holding) + Slot(s.pc) - Slot(worker[w].pc)
    BY <1>0, CountsFollow
  <2>2. Cardinality(Holding') \in Nat
    <3>1. IsFiniteSet(Holding')
      BY FS_Subset DEF Holding
    <3>. QED
      BY <3>1, FS_CardinalityType
  <2>3. sem' = Cardinality(Holding') + (IF loop = "acquired" THEN 1 ELSE 0)
    BY <1>0, <1>a, <2>1, Counted, Typed DEF SlotInv, Accounted
  <2>4. SlotInv'
    BY <1>0, <2>3 DEF SlotInv
  <2>. QED
    BY <2>2, <2>3, <2>4 DEF Accounted
<1>2. WaitInv' /\ inFlight' \in 0 .. Cardinality(Worker)
  <2>1. /\ Cardinality(Ticking') = Cardinality(Ticking) + Ticks(s) - Ticks(worker[w])
        /\ Cardinality(Ticking') <= Cardinality(Worker)
    BY <1>0, CountsFollow
  <2>2. Cardinality(Ticking') \in Nat
    <3>1. IsFiniteSet(Ticking')
      BY FS_Subset DEF Ticking
    <3>. QED
      BY <3>1, FS_CardinalityType
  <2>. QED
    BY <1>0, <1>a, <2>1, <2>2, Counted, Typed DEF WaitInv, Accounted
<1>3. ShutdownInv'
  <2>1. worker'[w] = s /\ \A u \in Worker \ {w} : worker'[u] = worker[u]
    BY <1>0, CountsFollow
  <2>. QED
    BY <1>0, <2>1 DEF ShutdownInv
<1>. QED
  BY <1>1, <1>2, <1>3

(* Together they are a step of a poll that only moves on.                  *)
LEMMA QuietPoll ==
  ASSUME PoolInv, NEW w \in Worker, NEW s \in WorkerState, Goes(w, s), Accounted(w, s),
         UNCHANGED <<store, topics, loopVars, mainVars>>, WellFormed(s), KeepsRun(w, s),
         main # "exited",
         s.kind \in {worker[w].kind, "none"} \/ (main = "serving" /\ s.kind = "retry")
  PROVE  PoolInv'
<1>1. UNCHANGED <<store, topics>> /\ UNCHANGED <<loopVars, mainVars>>
  OBVIOUS
<1>2. /\ worker' \in [Worker -> WorkerState']
      /\ WorkerInv' /\ OwnerInv' /\ TopicInv' /\ OutcomesMatchTopics' /\ OpenInv'
  BY <1>1, QuietStep
<1>3. /\ SlotInv' /\ WaitInv' /\ ShutdownInv'
      /\ sem' \in 0 .. MaxConcurrency /\ inFlight' \in 0 .. Cardinality(Worker)
  BY <1>1, CountedStep
<1>4. PoolTypeOK'
  BY <1>1, <1>2, <1>3 DEF PoolInv, PoolTypeOK, store, topics, loopVars, mainVars
<1>. QED
  BY <1>2, <1>3, <1>4 DEF PoolInv

(* A retry of an operator, and the client of one that goes away.           *)
LEMMA RequestKeeps ==
  ASSUME PoolInv, NEW w \in Worker, RetryRequest(w) \/ ClientGone(w)
  PROVE  PoolInv'
<1>0. /\ PoolTypeOK /\ worker[w] \in WorkerState /\ WellFormed(worker[w])
      /\ UNCHANGED <<store, topics, loopVars, mainVars>> /\ main # "exited"
      /\ sem' = sem /\ inFlight' = inFlight
      /\ sem \in Nat /\ inFlight \in Nat /\ sem <= MaxConcurrency
  BY Typed DEF PoolInv, WorkerInv, RetryRequest, ClientGone, Running, PoolTypeOK
<1>1. CASE RetryRequest(w)
  <2>. DEFINE s == [Free EXCEPT !.kind = "retry", !.pc = "acquire"]
  <2>1. /\ s \in WorkerState /\ s.kind = "retry" /\ s.pc = "acquire"
        /\ s.run = 0 /\ s.attempts = 0 /\ s # Free
        /\ Goes(w, s) /\ worker[w] = Free /\ main = "serving"
    BY <1>0, <1>1, Typed DEF RetryRequest, Free, WorkerState, Goes
  <2>. HIDE DEF s
  <2>2. WellFormed(s) /\ KeepsRun(w, s)
    BY <2>1, FreeTyped DEF WellFormed, KeepsRun, Owning
  <2>3. Accounted(w, s)
    BY <1>0, <2>1, FreeTyped DEF Accounted, Slot, Ticks, Polling
  <2>. QED
    BY <1>0, <2>1, <2>2, <2>3, QuietPoll
<1>2. CASE ClientGone(w)
  <2>. DEFINE s == [worker[w] EXCEPT !.gone = TRUE]
  <2>1. /\ s \in WorkerState /\ s.kind = "retry" /\ s.kind = worker[w].kind
        /\ s.pc = worker[w].pc /\ s.run = worker[w].run /\ s.attempts = worker[w].attempts
        /\ Goes(w, s)
    BY <1>0, <1>2 DEF ClientGone, WorkerState, Goes
  <2>. HIDE DEF s
  <2>2. WellFormed(s)
    BY <1>0, <2>1, FreeTyped DEF WellFormed
  <2>3. KeepsRun(w, s)
    BY <2>1 DEF KeepsRun
  <2>4. Accounted(w, s)
    BY <1>0, <2>1 DEF Accounted, Slot, Ticks
  <2>. QED
    BY <1>0, <2>1, <2>2, <2>3, <2>4, QuietPoll
<1>. QED
  BY <1>1, <1>2

Places == {"free", "acquire", "done"} \cup Polling

(* Goto changes the place and nothing else.                                *)
LEMMA Moved ==
  ASSUME PoolTypeOK, NEW w \in Worker, NEW pc \in Places, Goto(w, pc)
  PROVE  \E s \in WorkerState :
           /\ Goes(w, s) /\ s.pc = pc /\ s.kind = worker[w].kind
           /\ s.run = worker[w].run /\ s.attempts = worker[w].attempts
<1>. DEFINE s == [worker[w] EXCEPT !.pc = pc]
<1>1. worker[w] \in WorkerState
  BY Typed
<1>2. s \in WorkerState /\ s.pc = pc /\ s.kind = worker[w].kind
      /\ s.run = worker[w].run /\ s.attempts = worker[w].attempts
  BY <1>1 DEF WorkerState, Places
<1>3. Goes(w, s)
  BY DEF Goto, Goes
<1>. QED
  BY <1>2, <1>3

(* The moves that neither take a run nor settle one.                       *)
QuietMoves ==
    {<<"acquire", "delay">>, <<"acquire", "done">>, <<"delay", "start">>,
     <<"delay", "release">>, <<"start", "insert">>, <<"start", "release">>,
     <<"insert", "release">>, <<"backoff", "fetch">>, <<"backoff", "dlq">>,
     <<"release", "done">>}

LEMMA MoveKeeps ==
  ASSUME PoolInv, NEW w \in Worker, NEW pc \in Places, Goto(w, pc),
         <<worker[w].pc, pc>> \in QuietMoves,
         UNCHANGED <<inFlight, store, topics, loopVars, mainVars>>, main # "exited",
         sem' = sem + Slot(pc) - Slot(worker[w].pc), sem' <= MaxConcurrency
  PROVE  PoolInv'
<1>0. PoolTypeOK /\ WellFormed(worker[w]) /\ inFlight \in Nat
  BY Typed DEF PoolInv, WorkerInv
<1>1. PICK s \in WorkerState :
        /\ Goes(w, s) /\ s.pc = pc /\ s.kind = worker[w].kind
        /\ s.run = worker[w].run /\ s.attempts = worker[w].attempts
  BY <1>0, Moved
<1>2. worker[w].kind # "none" /\ s # Free
  BY <1>0, <1>1, FreeTyped DEF QuietMoves, WellFormed
<1>3. WellFormed(s)
  BY <1>0, <1>1, <1>2 DEF QuietMoves, WellFormed
<1>4. KeepsRun(w, s)
  BY <1>1 DEF QuietMoves, KeepsRun, Unsettled, Owning
<1>5. Accounted(w, s)
  <2>1. Slot(s.pc) = Slot(pc)
    BY <1>1
  <2>2. Ticks(s) = Ticks(worker[w]) /\ Ticks(s) \in {0, 1}
    BY <1>1 DEF Ticks
  <2>. QED
    BY <1>0, <2>1, <2>2 DEF Accounted
<1>. QED
  BY <1>1, <1>3, <1>4, <1>5, QuietPoll

(* The slot: taken from the semaphore and given back.                      *)
LEMMA SlotsKept ==
  ASSUME PoolInv, NEW w \in Worker, PollStep(w), Acquire(w) \/ Release(w)
  PROVE  PoolInv'
<1>. USE DEF PollStep, Running
<1>0. PoolTypeOK /\ sem \in Nat /\ sem <= MaxConcurrency
  BY Typed DEF PoolInv, PoolTypeOK
<1>1. CASE Acquire(w)
  <2>1. CASE sem < MaxConcurrency /\ sem' = sem + 1 /\ Goto(w, "delay")
    <3>1. Slot("delay") = 1 /\ Slot("acquire") = 0
      BY DEF Slot, Polling
    <3>2. "delay" \in Places /\ <<"acquire", "delay">> \in QuietMoves
      BY DEF Places, Polling, QuietMoves
    <3>3. sem' = sem + 1 - 0 /\ sem' <= MaxConcurrency
      BY <1>0, <2>1
    <3>. QED
      BY <1>1, <2>1, <3>1, <3>2, <3>3, MoveKeeps DEF Acquire
  <2>2. CASE Goto(w, "done") /\ UNCHANGED sem
    <3>1. Slot("done") = 0 /\ Slot("acquire") = 0
      BY DEF Slot, Polling
    <3>2. "done" \in Places /\ <<"acquire", "done">> \in QuietMoves
      BY DEF Places, Polling, QuietMoves
    <3>3. sem' = sem + 0 - 0 /\ sem' <= MaxConcurrency
      BY <1>0, <2>2
    <3>. QED
      BY <1>1, <2>2, <3>1, <3>2, <3>3, MoveKeeps DEF Acquire
  <2>. QED
    BY <1>1, <2>1, <2>2 DEF Acquire
<1>2. CASE Release(w)
  <2>1. Slot("done") = 0 /\ Slot("release") = 1
    BY DEF Slot, Polling
  <2>2. "done" \in Places /\ <<"release", "done">> \in QuietMoves
    BY DEF Places, Polling, QuietMoves
  <2>3. sem' = sem + 0 - 1 /\ sem' <= MaxConcurrency
    BY <1>0, <1>2 DEF Release
  <2>. QED
    BY <1>2, <2>1, <2>2, <2>3, MoveKeeps DEF Release
<1>. QED
  BY <1>1, <1>2

(* The moves inside a poll keep the slot.                                  *)
LEMMA InnerMove ==
  ASSUME PoolInv, NEW w \in Worker, NEW pc \in Polling, Goto(w, pc), worker[w].pc \in Polling,
         <<worker[w].pc, pc>> \in QuietMoves,
         UNCHANGED <<sem, inFlight, store, topics, loopVars, mainVars>>, main # "exited"
  PROVE  PoolInv'
<1>1. pc \in Places /\ Slot(pc) = 1 /\ Slot(worker[w].pc) = 1
  BY DEF Places, Slot
<1>2. sem' = sem + 1 - 1 /\ sem' <= MaxConcurrency
  BY Typed DEF PoolInv, PoolTypeOK
<1>. QED
  BY <1>1, <1>2, MoveKeeps

LEMMA MovesKeep ==
  ASSUME PoolInv, NEW w \in Worker, PollStep(w), Delay(w) \/ StartRun(w) \/ Backoff(w)
  PROVE  PoolInv'
<1>1. UNCHANGED <<sem, inFlight, store, topics, loopVars, mainVars>> /\ main # "exited"
  BY DEF PollStep, Running, Delay, StartRun, Backoff
<1>2. CASE Delay(w)
  <2>1. PICK pc \in {"start", "release"} : Goto(w, pc)
    BY <1>2 DEF Delay
  <2>2. worker[w].pc = "delay"
    BY <1>2 DEF Delay
  <2>3. /\ pc \in Polling /\ "delay" \in Polling /\ <<"delay", pc>> \in QuietMoves
    BY DEF Polling, QuietMoves
  <2>. QED
    BY <1>1, <2>1, <2>2, <2>3, InnerMove
<1>3. CASE StartRun(w)
  <2>1. PICK pc \in {"insert", "release"} : Goto(w, pc)
    BY <1>3 DEF StartRun
  <2>2. worker[w].pc = "start"
    BY <1>3 DEF StartRun
  <2>3. /\ pc \in Polling /\ "start" \in Polling /\ <<"start", pc>> \in QuietMoves
    BY DEF Polling, QuietMoves
  <2>. QED
    BY <1>1, <2>1, <2>2, <2>3, InnerMove
<1>4. CASE Backoff(w)
  <2>1. PICK pc \in {"fetch", "dlq"} : Goto(w, pc)
    BY <1>4 DEF Backoff
  <2>2. worker[w].pc = "backoff"
    BY <1>4 DEF Backoff
  <2>3. /\ pc \in Polling /\ "backoff" \in Polling /\ <<"backoff", pc>> \in QuietMoves
    BY DEF Polling, QuietMoves
  <2>. QED
    BY <1>1, <2>1, <2>2, <2>3, InnerMove
<1>. QED
  BY <1>2, <1>3, <1>4

LEMMA FetchKeeps == ASSUME PoolInv, NEW w \in Worker, PollStep(w), Fetch(w) PROVE PoolInv'
<1>0. /\ PoolTypeOK /\ worker[w] \in WorkerState /\ WellFormed(worker[w])
      /\ worker[w].pc = "fetch" /\ worker[w].attempts < MaxAttempts /\ main # "exited"
      /\ UNCHANGED <<sem, inFlight, store, topics, loopVars, mainVars>>
      /\ sem \in Nat /\ inFlight \in Nat /\ sem <= MaxConcurrency
  BY Typed DEF PoolInv, WorkerInv, WellFormed, Fetch, PollStep, Running, PoolTypeOK
<1>1. PICK pc \in {"publish", "dlq", "backoff"} :
        /\ worker' = [worker EXCEPT ![w].pc = pc, ![w].attempts = worker[w].attempts + 1]
        /\ pc = "backoff" => worker[w].attempts + 1 < MaxAttempts
  BY DEF Fetch
<1>. DEFINE s == [worker[w] EXCEPT !.pc = pc, !.attempts = worker[w].attempts + 1]
<1>2. /\ s \in WorkerState /\ s.pc = pc /\ s.kind = worker[w].kind
      /\ s.run = worker[w].run /\ s.attempts = worker[w].attempts + 1
  <2>1. worker[w].attempts + 1 \in 0 .. MaxAttempts
    BY <1>0 DEF WorkerState
  <2>2. pc \in Polling
    BY DEF Polling
  <2>. QED
    BY <1>0, <2>1, <2>2 DEF WorkerState
<1>3. Goes(w, s)
  BY <1>0, <1>1 DEF Goes, PoolTypeOK
<1>. HIDE DEF s
<1>4. WellFormed(s)
  BY <1>0, <1>1, <1>2, FreeTyped DEF WellFormed
<1>5. KeepsRun(w, s)
  BY <1>0, <1>2 DEF KeepsRun, Unsettled
<1>6. Accounted(w, s)
  BY <1>0, <1>2 DEF Accounted, Slot, Ticks, Polling
<1>. QED
  BY <1>0, <1>2, <1>3, <1>4, <1>5, <1>6, QuietPoll

LEMMA DoneKeeps == ASSUME PoolInv, NEW w \in Worker, PollStep(w), Done(w) PROVE PoolInv'
<1>0. /\ PoolTypeOK /\ worker[w].pc = "done" /\ main # "exited"
      /\ UNCHANGED <<sem, store, topics, loopVars, mainVars>>
      /\ sem \in Nat /\ inFlight \in Nat /\ sem <= MaxConcurrency
  BY Typed DEF PoolInv, Done, PollStep, Running, PoolTypeOK
<1>1. Free \in WorkerState /\ Goes(w, Free)
  BY <1>0, Typed DEF Free, WorkerState, Done, Goes
<1>2. WellFormed(Free) /\ KeepsRun(w, Free)
  BY <1>0, FreeTyped DEF WellFormed, KeepsRun, Owning
<1>3. Accounted(w, Free)
  BY <1>0, FreeTyped DEF Accounted, Slot, Ticks, Polling, Done
<1>. QED
  BY <1>0, <1>1, <1>2, <1>3, FreeTyped, QuietPoll

(* Goto within a poll, whatever becomes of the run: what it leaves alone.  *)
LEMMA PollGoesOn ==
  ASSUME PoolInv, NEW w \in Worker, NEW pc \in Polling, worker[w].pc \in Owning, Goto(w, pc),
         pc \notin {"insert", "delay", "start", "fetch", "backoff"},
         UNCHANGED <<sem, inFlight, loopVars, mainVars>>, main # "exited",
         DOMAIN runs' = DOMAIN runs, Len(runs') = Len(runs)
  PROVE  /\ worker' \in [Worker -> WorkerState'] /\ SlotInv' /\ WaitInv' /\ ShutdownInv'
         /\ WorkerInv' /\ OwnerInv'
         /\ worker'[w].pc = pc /\ worker'[w].run = worker[w].run
         /\ \A u \in Worker \ {w} : worker'[u] = worker[u]
         /\ worker[w].run \in DOMAIN runs
         /\ \A u \in Worker \ {w} : worker[u].run # worker[w].run
<1>0. /\ PoolTypeOK /\ WellFormed(worker[w]) /\ inFlight \in Nat /\ sem \in Nat
      /\ sem <= MaxConcurrency /\ worker[w].run \in DOMAIN runs /\ worker[w].run # 0
  BY Typed DEF PoolInv, WorkerInv, PoolTypeOK
<1>1. PICK s \in WorkerState :
        /\ Goes(w, s) /\ s.pc = pc /\ s.kind = worker[w].kind
        /\ s.run = worker[w].run /\ s.attempts = worker[w].attempts
  <2>1. pc \in Places
    BY DEF Places
  <2>. QED
    BY <1>0, <2>1, Moved
<1>2. worker'[w] = s /\ \A u \in Worker \ {w} : worker'[u] = worker[u]
  BY <1>0, <1>1, CountsFollow
<1>3. WorkerState' = WorkerState
  BY DEF WorkerState
<1>4. worker' \in [Worker -> WorkerState']
  BY <1>0, <1>1, <1>3 DEF Goes, PoolTypeOK
<1>5. Accounted(w, s)
  BY <1>0, <1>1 DEF Accounted, Slot, Ticks, Owning, Polling
<1>6. SlotInv' /\ WaitInv' /\ ShutdownInv'
  BY <1>1, <1>5, CountedStep
<1>7. WellFormed(s)
  BY <1>0, <1>1, FreeTyped DEF WellFormed, Owning, Polling
<1>8. WorkerInv'
  BY <1>0, <1>1, <1>2, <1>7 DEF PoolInv, WorkerInv, WellFormed
<1>9. OwnerInv' /\ \A u \in Worker \ {w} : worker[u].run # worker[w].run
  BY <1>0, <1>1, <1>2 DEF PoolInv, OwnerInv
<1>. QED
  BY <1>0, <1>1, <1>2, <1>4, <1>6, <1>8, <1>9

LEMMA PublishKeeps ==
  ASSUME PoolInv, NEW w \in Worker, PollStep(w), PublishSync(w) \/ PublishDLQ(w)
  PROVE  PoolInv'
<1>. DEFINE n == worker[w].run
<1>0. /\ PoolTypeOK /\ TopicInv /\ OpenInv /\ OutcomesMatchTopics
      /\ worker[w].pc \in {"publish", "dlq"} /\ main # "exited"
      /\ UNCHANGED <<sem, inFlight, store, loopVars, mainVars>>
  BY DEF PoolInv, PollStep, Running, PublishSync, PublishDLQ
<1>1. PICK pc \in {"succeed", "fail"} :
        /\ Goto(w, pc)
        /\ \/ dead' = dead /\ synced' = synced \cup {n}
           \/ pc = "fail" /\ dead' = dead /\ synced' = synced
           \/ pc = "fail" /\ dead' = dead \cup {n} /\ synced' = synced
        /\ late' \in {late, late \cup {n}}
  BY DEF PublishSync, PublishDLQ, PublishWaits
<1>2. /\ worker' \in [Worker -> WorkerState'] /\ SlotInv' /\ WaitInv' /\ ShutdownInv'
      /\ WorkerInv' /\ OwnerInv'
      /\ worker'[w].pc = pc /\ worker'[w].run = n
      /\ \A u \in Worker \ {w} : worker'[u] = worker[u]
      /\ n \in DOMAIN runs
      /\ \A u \in Worker \ {w} : worker[u].run # n
  BY <1>0, <1>1, PollGoesOn DEF Owning, Polling, store
<1>3. n \notin synced \cup dead
  BY <1>0 DEF TopicInv
<1>. HIDE DEF n
<1>4. TopicInv'
  BY <1>0, <1>1, <1>2 DEF TopicInv
<1>5. OutcomesMatchTopics'
  BY <1>0, <1>1, <1>3 DEF OutcomesMatchTopics, store
<1>6. OpenInv'
  <2>1. \A u \in Worker : worker[u].pc \in Owning =>
           worker'[u].pc \in Owning /\ worker'[u].run = worker[u].run
    BY <1>2 DEF Owning, n
  <2>2. late \subseteq late'
    BY <1>1
  <2>. QED
    BY <1>0, <2>1, <2>2 DEF OpenInv, store
<1>7. PoolTypeOK'
  BY <1>0, <1>1, <1>2 DEF PoolTypeOK, store, loopVars, mainVars
<1>. QED
  BY <1>2, <1>4, <1>5, <1>6, <1>7 DEF PoolInv

LEMMA FinishKeeps == ASSUME PoolInv, NEW w \in Worker, PollStep(w), FinishRun(w) PROVE PoolInv'
<1>. DEFINE n == worker[w].run
<1>0. /\ PoolTypeOK /\ TopicInv /\ OpenInv /\ OutcomesMatchTopics
      /\ worker[w].pc \in {"succeed", "fail"} /\ main # "exited" /\ Goto(w, "release")
      /\ UNCHANGED <<sem, inFlight, topics, loopVars, mainVars>>
      /\ worker[w].pc \in Owning /\ n \in DOMAIN runs
  BY DEF PoolInv, WorkerInv, PollStep, Running, FinishRun, Owning
<1>1. /\ runs' \in Seq(Status) /\ DOMAIN runs' = DOMAIN runs /\ Len(runs') = Len(runs)
      /\ \A k \in DOMAIN runs \ {n} : runs'[k] = runs[k]
      /\ unrecorded' \subseteq DOMAIN runs /\ unrecorded \subseteq unrecorded'
      /\ runs'[n] = "running" => n \in unrecorded' \cup late
      /\ runs'[n] = "success" => runs[n] = "success" \/ worker[w].pc = "succeed"
  <2>1. CASE RecordOutcome(w)
    <3>1. unrecorded' \in {unrecorded, unrecorded \cup {n}}
      BY DEF FinishRun, store
    <3>. QED
      BY <1>0, <2>1, <3>1 DEF RecordOutcome, PoolTypeOK, Status
  <2>2. CASE unrecorded' = unrecorded \cup {n} /\ UNCHANGED runs
    BY <1>0, <2>2 DEF PoolTypeOK
  <2>3. CASE n \in late /\ UNCHANGED store
    BY <1>0, <2>3 DEF PoolTypeOK, store
  <2>. QED
    BY <2>1, <2>2, <2>3 DEF FinishRun
<1>2. /\ worker' \in [Worker -> WorkerState'] /\ SlotInv' /\ WaitInv' /\ ShutdownInv'
      /\ WorkerInv' /\ OwnerInv'
      /\ worker'[w].pc = "release"
      /\ \A u \in Worker \ {w} : worker'[u] = worker[u]
  <2>1. "release" \in Polling
    BY DEF Polling
  <2>. QED
    BY <1>0, <1>1, <2>1, PollGoesOn
<1>. HIDE DEF n
<1>3. TopicInv'
  BY <1>0, <1>2 DEF TopicInv, topics
<1>4. OutcomesMatchTopics'
  <2>1. worker[w].pc = "succeed" => n \in synced
    BY <1>0 DEF TopicInv, n
  <2>. QED
    BY <1>0, <1>1, <2>1 DEF OutcomesMatchTopics, topics
<1>5. OpenInv'
  BY <1>0, <1>1, <1>2 DEF OpenInv, n, topics
<1>6. PoolTypeOK'
  BY <1>0, <1>1, <1>2 DEF PoolTypeOK, topics, loopVars, mainVars
<1>. QED
  BY <1>2, <1>3, <1>4, <1>5, <1>6 DEF PoolInv

(* The table grows by a row, which is of this poll or of nobody.           *)
LEMMA RowAdded ==
  ASSUME PoolInv, NEW w \in Worker, worker[w].pc = "insert",
         NEW s \in WorkerState', Goes(w, s), WellFormed(s), s.kind = worker[w].kind,
         runs' = Append(runs, "running"),
         \/ s.pc = "fetch" /\ s.run = Len(runs) + 1 /\ unrecorded' = unrecorded
         \/ /\ s.pc = "release" /\ s.run = worker[w].run
            /\ unrecorded' = unrecorded \cup {Len(runs) + 1},
         UNCHANGED <<sem, inFlight, topics, loopVars, mainVars>>, main # "exited"
  PROVE  PoolInv'
<1>0. /\ PoolTypeOK /\ inFlight \in Nat /\ sem \in Nat /\ sem <= MaxConcurrency
      /\ Len(runs) \in Nat /\ DOMAIN runs = 1 .. Len(runs)
      /\ \A u \in Worker : worker[u].run \in 0 .. Len(runs)
  BY Typed DEF PoolInv, PoolTypeOK
<1>1. /\ runs' \in Seq(Status) /\ Len(runs') = Len(runs) + 1
      /\ DOMAIN runs' = DOMAIN runs \cup {Len(runs) + 1}
      /\ \A k \in DOMAIN runs : runs'[k] = runs[k]
      /\ runs'[Len(runs) + 1] = "running" /\ Len(runs) + 1 \notin DOMAIN runs
  BY <1>0 DEF PoolTypeOK, Status
<1>2. worker'[w] = s /\ \A u \in Worker \ {w} : worker'[u] = worker[u]
  BY <1>0, CountsFollow
<1>3. worker' \in [Worker -> WorkerState']
  <2>1. \A u \in Worker : worker[u] \in WorkerState'
    BY <1>0, <1>1, Typed DEF WorkerState
  <2>2. worker' = [u \in Worker |-> worker'[u]]
    BY <1>0 DEF Goes, PoolTypeOK
  <2>. QED
    BY <1>2, <2>1, <2>2
<1>4. SlotInv' /\ WaitInv' /\ ShutdownInv'
  <2>1. Accounted(w, s)
    BY <1>0 DEF Accounted, Slot, Ticks, Polling
  <2>. QED
    BY <2>1, CountedStep
<1>5. WorkerInv'
  BY <1>1, <1>2 DEF PoolInv, WorkerInv, WellFormed, Owning
<1>6. OwnerInv'
  BY <1>0, <1>2 DEF PoolInv, OwnerInv
<1>7. TopicInv' /\ OutcomesMatchTopics'
  <2>1. Len(runs) + 1 \notin synced \cup dead
    BY <1>0, <1>1 DEF PoolTypeOK
  <2>. QED
    BY <1>1, <1>2, <2>1 DEF PoolInv, TopicInv, OutcomesMatchTopics, topics
<1>8. OpenInv'
  BY <1>1, <1>2 DEF PoolInv, OpenInv, Owning, topics
<1>9. PoolTypeOK'
  BY <1>0, <1>1, <1>3 DEF PoolTypeOK, topics, loopVars, mainVars
<1>. QED
  BY <1>3, <1>4, <1>5, <1>6, <1>7, <1>8, <1>9 DEF PoolInv

LEMMA InsertKeeps == ASSUME PoolInv, NEW w \in Worker, PollStep(w), InsertRun(w) PROVE PoolInv'
<1>0. /\ PoolTypeOK /\ worker[w] \in WorkerState /\ WellFormed(worker[w])
      /\ worker[w].pc = "insert" /\ worker[w].kind # "none" /\ Len(runs) \in Nat
      /\ main # "exited" /\ worker[w].attempts = 0
      /\ UNCHANGED <<sem, inFlight, topics, loopVars, mainVars>>
  BY Typed, FreeTyped DEF PoolInv, WorkerInv, WellFormed, PollStep, Running, InsertRun
<1>1. CASE /\ runs' = Append(runs, "running") /\ UNCHANGED unrecorded
           /\ worker' = [worker EXCEPT ![w].pc = "fetch", ![w].run = Len(runs) + 1]
  <2>. DEFINE s == [worker[w] EXCEPT !.pc = "fetch", !.run = Len(runs) + 1]
  <2>1. /\ s \in WorkerState' /\ s.kind = worker[w].kind
        /\ s.attempts = worker[w].attempts /\ s.pc = "fetch" /\ s.run = Len(runs) + 1
    <3>1. Len(runs') = Len(runs) + 1 /\ Len(runs) + 1 \in 0 .. Len(runs')
      BY <1>0, <1>1 DEF PoolTypeOK
    <3>2. "fetch" \in Polling
      BY DEF Polling
    <3>. QED
      BY <1>0, <3>1, <3>2 DEF WorkerState
  <2>2. Goes(w, s)
    BY <1>0, <1>1 DEF Goes, PoolTypeOK
  <2>. HIDE DEF s
  <2>3. WellFormed(s)
    BY <1>0, <2>1, FreeTyped DEF WellFormed
  <2>. QED
    BY <1>0, <1>1, <2>1, <2>2, <2>3, RowAdded
<1>2. CASE UNCHANGED store /\ Goto(w, "release")
  <2>1. "release" \in Polling /\ "insert" \in Polling /\ <<"insert", "release">> \in QuietMoves
    BY DEF Polling, QuietMoves
  <2>. QED
    BY <1>0, <1>2, <2>1, InnerMove
<1>3. CASE /\ runs' = Append(runs, "running") /\ unrecorded' = unrecorded \cup {Len(runs) + 1}
           /\ Goto(w, "release")
  <2>. DEFINE s == [worker[w] EXCEPT !.pc = "release"]
  <2>1. /\ s \in WorkerState' /\ s.kind = worker[w].kind
        /\ s.attempts = worker[w].attempts /\ s.pc = "release" /\ s.run = worker[w].run
    <3>1. Len(runs') = Len(runs) + 1
      BY <1>0, <1>3 DEF PoolTypeOK
    <3>2. worker[w].run \in 0 .. Len(runs')
      BY <1>0, <3>1 DEF WorkerState
    <3>3. "release" \in Polling
      BY DEF Polling
    <3>. QED
      BY <1>0, <3>2, <3>3 DEF WorkerState
  <2>2. Goes(w, s)
    BY <1>3 DEF Goes, Goto
  <2>. HIDE DEF s
  <2>3. WellFormed(s)
    BY <1>0, <2>1, FreeTyped DEF WellFormed
  <2>. QED
    BY <1>0, <1>3, <2>1, <2>2, <2>3, RowAdded
<1>. QED
  BY <1>1, <1>2, <1>3 DEF InsertRun

-----------------------------------------------------------------------------
LEMMA PoolStep == ASSUME PoolInv, [PoolNext]_vars PROVE PoolInv'
<1>1. CASE Tick \/ EndLoop \/ AcquireForVenue
  BY <1>1, LoopKeeps
<1>2. CASE \E w \in Worker : Launch(w)
  BY <1>2, LaunchKeeps
<1>3. CASE \E w \in Worker : RetryRequest(w) \/ ClientGone(w)
  BY <1>3, RequestKeeps
<1>4. ASSUME NEW w \in Worker, PollStep(w) PROVE PoolInv'
  <2>1. CASE Acquire(w) \/ Release(w)
    BY <1>4, <2>1, SlotsKept
  <2>2. CASE Delay(w) \/ StartRun(w) \/ Backoff(w)
    BY <1>4, <2>2, MovesKeep
  <2>3. CASE InsertRun(w)
    BY <1>4, <2>3, InsertKeeps
  <2>4. CASE Fetch(w)
    BY <1>4, <2>4, FetchKeeps
  <2>5. CASE PublishSync(w) \/ PublishDLQ(w)
    BY <1>4, <2>5, PublishKeeps
  <2>6. CASE FinishRun(w)
    BY <1>4, <2>6, FinishKeeps
  <2>7. CASE Done(w)
    BY <1>4, <2>7, DoneKeeps
  <2>. QED
    BY <1>4, <2>1, <2>2, <2>3, <2>4, <2>5, <2>6, <2>7 DEF PollStep
<1>5. CASE Signal \/ DeadlinePasses \/ ShutdownHTTP \/ Wait
  BY <1>5, MainKeeps
<1>6. CASE UNCHANGED vars
  <2>1. /\ UNCHANGED <<worker, store, topics>>
        /\ UNCHANGED <<sem, inFlight, loopVars, mainVars>>
    BY <1>6 DEF vars
  <2>2. PoolTypeOK'
    BY <2>1, PollsKept DEF PoolInv, PoolTypeOK, store, topics, loopVars, mainVars
  <2>3. SlotInv' /\ WaitInv' /\ ShutdownInv'
    BY <2>1, PollsKept DEF PoolInv, SlotInv, WaitInv, ShutdownInv, loopVars, mainVars
  <2>. QED
    BY <2>1, <2>2, <2>3, PollsKept DEF PoolInv
<1>. QED
  BY <1>1, <1>2, <1>3, <1>4, <1>5, <1>6 DEF PoolNext, LoopStep, MainStep

(* The invariant the theorems below are taken from.                        *)
THEOREM PoolInvariance == PoolSpec => []PoolInv
<1>1. PoolInit => PoolInv
  BY PoolInitial
<1>2. PoolInv /\ [PoolNext]_vars => PoolInv'
  BY PoolStep
<1>. QED
  BY <1>1, <1>2, PTL DEF PoolSpec

(* Every reachable state is well formed: no slot is given back that was    *)
(* not taken and the WaitGroup never goes below zero, which would panic    *)
(* (pool.go).                                                              *)
THEOREM PoolIsTyped == PoolSpec => []PoolTypeOK
<1>1. PoolInv => PoolTypeOK
  BY DEF PoolInv
<1>. QED
  BY <1>1, PoolInvariance, PTL

(* A run is recorded as a success only with its envelope in pos.sync, and  *)
(* no run is in both topics, whatever fails (pool.go).                     *)
THEOREM OutcomesAreTrue == PoolSpec => []OutcomesMatchTopics
<1>1. PoolInv => OutcomesMatchTopics
  BY DEF PoolInv
<1>. QED
  BY <1>1, PoolInvariance, PTL

(* A shutdown within its ten seconds leaves a run of this process at       *)
(* "running" only where the store failed or the publish left the last      *)
(* write no time (main.go, pool.go).                                       *)
THEOREM ShutdownFinishesRuns == PoolSpec => []InterruptedRunsFinish
<1>1. PoolInv => InterruptedRunsFinish
  <2>. SUFFICES ASSUME PoolInv, main = "exited", ~deadline
       PROVE  \A n \in DOMAIN runs : runs[n] = "running" => n \in unrecorded \cup late
    BY DEF InterruptedRunsFinish, ShutDownInTime
  <2>1. \A w \in Worker : worker[w].pc \notin Owning
    BY FreeTyped DEF PoolInv, ShutdownInv, WorkerInv, WellFormed, Owning
  <2>. QED
    BY <2>1 DEF PoolInv, OpenInv
<1>. QED
  BY <1>1, PoolInvariance, PTL
=============================================================================
