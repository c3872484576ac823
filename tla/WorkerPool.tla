----------------------------- MODULE WorkerPool -----------------------------
(***************************************************************************)
(* pos-ingest: the pool that polls the configured venues on a ticker and   *)
(* on an operator's retry, the sync_runs rows and pos.sync messages each   *)
(* poll leaves, and the shutdown in main.  A run is named by its place in  *)
(* the sync_runs table.                                                    *)
(***************************************************************************)
EXTENDS Integers, Sequences, FiniteSets

CONSTANTS
    Worker,          \* goroutines that poll a venue at the same time
    NumVenues,       \* how many venues are configured
    MaxConcurrency,  \* capacity of the semaphore
    MaxAttempts,     \* retry.Config.MaxAttempts
    Chaos,           \* TRUE: POST /chaos/latency may have set a delay
    SlowShutdown,    \* TRUE: the shutdown's ten seconds may pass
    FaultKinds,      \* which of AllFaults happen
    MaxTicks,        \* bound: rounds of polls the ticker starts
    MaxRequests      \* bound: retries operators ask for

(* Postgres or Kafka fail, the client of a retry disconnects.              *)
AllFaults == {"store", "kafka", "gone"}

ASSUME PoolAssumption ==
    /\ IsFiniteSet(Worker)
    /\ NumVenues \in Nat /\ MaxConcurrency \in Nat \ {0} /\ MaxAttempts \in Nat \ {0}
    /\ Chaos \in BOOLEAN /\ SlowShutdown \in BOOLEAN
    /\ FaultKinds \subseteq AllFaults
    /\ MaxTicks \in Nat /\ MaxRequests \in Nat

VARIABLES
    sem,        \* taken slots of the semaphore
    inFlight,   \* the WaitGroup's counter
    loop,       \* where Run is
    venue,      \* the next venue of the round it polls
    main,       \* where main is
    cancelled,  \* main has cancelled ctx
    deadline,   \* shutdownCtx has expired
    worker,     \* [Worker -> what each polling goroutine is at]
    runs,       \* the sync_runs table: the status of each run
    unrecorded, \* history: runs with a write that failed or seemed to fail
    synced,     \* runs whose envelope is in pos.sync
    dead,       \* runs whose failure is in pos.sync.dlq
    late,       \* runs whose publish has used up finalizeCtx
    ticks, requests

mainVars == <<main, cancelled, deadline>>
loopVars == <<loop, venue, ticks>>
store == <<runs, unrecorded>>
topics == <<synced, dead, late>>
vars == <<sem, inFlight, loopVars, mainVars, worker, store, topics, requests>>

-----------------------------------------------------------------------------
Status == {"running", "success", "failed"}
Free == [kind |-> "none", pc |-> "free", run |-> 0, attempts |-> 0, gone |-> FALSE]

Polling == {"delay", "start", "insert", "fetch", "backoff", "publish", "dlq",
            "succeed", "fail", "release"}

WorkerState == [kind : {"none", "ticker", "retry"},
                pc : {"free", "acquire", "done"} \cup Polling,
                run : 0 .. Len(runs), attempts : 0 .. MaxAttempts, gone : BOOLEAN]

PoolTypeOK ==
    /\ sem \in 0 .. MaxConcurrency /\ inFlight \in 0 .. Cardinality(Worker)
    /\ loop \in {"select", "polling", "acquired", "ended"} /\ venue \in 1 .. NumVenues + 1
    /\ main \in {"serving", "closing", "waiting", "exited"}
    /\ cancelled \in BOOLEAN /\ deadline \in BOOLEAN
    /\ worker \in [Worker -> WorkerState]
    /\ runs \in Seq(Status)
    /\ unrecorded \subseteq DOMAIN runs
    /\ synced \subseteq DOMAIN runs /\ dead \subseteq DOMAIN runs /\ late \subseteq DOMAIN runs

PoolInit ==
    /\ sem = 0 /\ inFlight = 0
    /\ loop = "polling" /\ venue = 1 /\ ticks = 1
    /\ main = "serving" /\ cancelled = FALSE /\ deadline = FALSE
    /\ worker = [w \in Worker |-> Free]
    /\ runs = <<>> /\ unrecorded = {} /\ synced = {} /\ dead = {} /\ late = {}
    /\ requests = 0

Running == main # "exited"

-----------------------------------------------------------------------------
(* Run and pollAll. *)

(* A ready ticker and a done ctx are equally good choices for a select.    *)
Tick ==
    /\ Running /\ loop = "select" /\ ticks < MaxTicks
    /\ loop' = "polling" /\ venue' = 1 /\ ticks' = ticks + 1
    /\ UNCHANGED <<sem, inFlight, mainVars, worker, store, topics, requests>>

EndLoop ==
    /\ Running /\ loop = "select" /\ cancelled
    /\ loop' = "ended"
    /\ UNCHANGED <<sem, inFlight, venue, ticks, mainVars, worker, store, topics, requests>>

AcquireForVenue ==
    /\ Running /\ loop = "polling"
    /\ \/ venue <= NumVenues /\ sem < MaxConcurrency /\ sem' = sem + 1 /\ loop' = "acquired"
       \/ (venue > NumVenues \/ cancelled) /\ loop' = "select" /\ UNCHANGED sem
    /\ UNCHANGED <<inFlight, venue, ticks, mainVars, worker, store, topics, requests>>

(* inFlight.Add(1), then the goroutine.                                    *)
Launch(w) ==
    /\ Running /\ loop = "acquired" /\ worker[w] = Free
    /\ inFlight' = inFlight + 1
    /\ worker' = [worker EXCEPT ![w] = [Free EXCEPT !.kind = "ticker", !.pc = "delay"]]
    /\ loop' = "polling" /\ venue' = venue + 1
    /\ UNCHANGED <<sem, ticks, mainVars, store, topics, requests>>

-----------------------------------------------------------------------------
(* POST /sync-runs/{id}/retry: PollVenueNow for the run's venue. *)

RetryRequest(w) ==
    /\ main = "serving" /\ requests < MaxRequests
    /\ worker[w] = Free /\ runs # <<>>
    /\ worker' = [worker EXCEPT ![w] = [Free EXCEPT !.kind = "retry", !.pc = "acquire"]]
    /\ requests' = requests + 1
    /\ UNCHANGED <<sem, inFlight, loopVars, mainVars, store, topics>>

(* The client disconnects: the request's context is cancelled.             *)
ClientGone(w) ==
    /\ Running /\ "gone" \in FaultKinds
    /\ worker[w].kind = "retry" /\ ~worker[w].gone
    /\ worker' = [worker EXCEPT ![w].gone = TRUE]
    /\ UNCHANGED <<sem, inFlight, loopVars, mainVars, store, topics, requests>>

(* The context a poll runs under: the loop's ctx or the request's.         *)
Cancelled(w) == IF worker[w].kind = "ticker" THEN cancelled ELSE worker[w].gone

Goto(w, pc) == worker' = [worker EXCEPT ![w].pc = pc]

Acquire(w) ==
    /\ worker[w].pc = "acquire"
    /\ \/ sem < MaxConcurrency /\ sem' = sem + 1 /\ Goto(w, "delay")
       \/ Cancelled(w) /\ Goto(w, "done") /\ UNCHANGED sem
    /\ UNCHANGED <<inFlight, store, topics>>

-----------------------------------------------------------------------------
(* pollVenue. *)

(* The injected latency, which a cancelled context cuts short.             *)
Delay(w) ==
    /\ worker[w].pc = "delay"
    /\ Goto(w, "start") \/ (Chaos /\ Cancelled(w) /\ Goto(w, "release"))
    /\ UNCHANGED <<sem, inFlight, store, topics>>

(* StartRun sends the INSERT unless its context is cancelled already ...   *)
StartRun(w) ==
    /\ worker[w].pc = "start"
    /\ Goto(w, IF Cancelled(w) THEN "release" ELSE "insert")
    /\ UNCHANGED <<sem, inFlight, store, topics>>

(* ... and when it returns an error the poll ends, row or no row.          *)
InsertRun(w) ==
    LET AddRun == runs' = Append(runs, "running")
    IN  /\ worker[w].pc = "insert"
        /\ \/ /\ AddRun /\ UNCHANGED unrecorded
              /\ worker' = [worker EXCEPT ![w].pc = "fetch", ![w].run = Len(runs) + 1]
           \/ /\ Cancelled(w) \/ "store" \in FaultKinds
              /\ \/ UNCHANGED store
                 \/ AddRun /\ unrecorded' = unrecorded \cup {Len(runs) + 1}
              /\ Goto(w, "release")
        /\ UNCHANGED <<sem, inFlight, topics>>

(* retry.Do: one more attempt, and what becomes of it: a menu, an error    *)
(* that is the last or not retryable, or a reason to try again.            *)
Fetch(w) ==
    LET n == worker[w].attempts + 1
        NextIs(pc) == worker' = [worker EXCEPT ![w].pc = pc, ![w].attempts = n]
    IN  /\ worker[w].pc = "fetch"
        /\ \/ NextIs("publish")
           \/ NextIs("dlq")
           \/ n < MaxAttempts /\ NextIs("backoff")
        /\ UNCHANGED <<sem, inFlight, store, topics>>

(* The sleep between two attempts, which a cancelled context ends.         *)
Backoff(w) ==
    /\ worker[w].pc = "backoff"
    /\ Goto(w, "fetch") \/ (Cancelled(w) /\ Goto(w, "dlq"))
    /\ UNCHANGED <<sem, inFlight, store, topics>>

(* A publish that waits for Kafka may leave finalizeCtx no time for the    *)
(* store, whether it works in the end or not.                              *)
PublishWaits(w) ==
    late' = late \/ ("kafka" \in FaultKinds /\ late' = late \cup {worker[w].run})

\* Variant: the error of PublishSync is only logged.
PublishAnyway(w) ==
    /\ worker[w].pc = "publish"
    /\ \/ synced' = synced \cup {worker[w].run}
       \/ "kafka" \in FaultKinds /\ UNCHANGED synced
    /\ PublishWaits(w) /\ Goto(w, "succeed")
    /\ UNCHANGED <<sem, inFlight, store, dead>>

(* PublishSync; when it fails the message may be in the topic all the same.*)
PublishSync(w) ==
    /\ worker[w].pc = "publish"
    /\ \/ synced' = synced \cup {worker[w].run} /\ Goto(w, "succeed")
       \/ /\ "kafka" \in FaultKinds
          /\ synced' \in {synced, synced \cup {worker[w].run}}
          /\ Goto(w, "fail")
    /\ PublishWaits(w)
    /\ UNCHANGED <<sem, inFlight, store, dead>>

(* handleFailure: a failed PublishDLQ is only logged.                      *)
PublishDLQ(w) ==
    /\ worker[w].pc = "dlq"
    /\ dead' = dead \cup {worker[w].run} \/ ("kafka" \in FaultKinds /\ UNCHANGED dead)
    /\ PublishWaits(w) /\ Goto(w, "fail")
    /\ UNCHANGED <<sem, inFlight, store, synced>>

RecordOutcome(w) ==
    runs' = [runs EXCEPT ![worker[w].run] =
               IF worker[w].pc = "succeed" THEN "success" ELSE "failed"]

\* Variant: the last write uses the poll's own context.
FinishWithinCtx(w) ==
    /\ worker[w].pc \in {"succeed", "fail"}
    /\ (~Cancelled(w) /\ RecordOutcome(w)) \/ (Cancelled(w) /\ UNCHANGED runs)
    /\ Goto(w, "release")
    /\ UNCHANGED <<sem, inFlight, unrecorded, topics>>

(* FinishRun under finalizeCtx, which a cancelled context does not end but *)
(* which the publish before it has had part of; a failure is only logged.  *)
FinishRun(w) ==
    /\ worker[w].pc \in {"succeed", "fail"}
    /\ \/ worker[w].run \notin late /\ RecordOutcome(w) /\ UNCHANGED unrecorded
       \/ worker[w].run \in late /\ UNCHANGED store
       \/ /\ "store" \in FaultKinds
          /\ unrecorded' = unrecorded \cup {worker[w].run}
          /\ RecordOutcome(w) \/ UNCHANGED runs
    /\ Goto(w, "release")
    /\ UNCHANGED <<sem, inFlight, topics>>

\* Variant: the slot is only given back after a run was recorded.
ReleaseAfterRun(w) ==
    /\ worker[w].pc = "release"
    /\ sem' = IF worker[w].run = 0 THEN sem ELSE sem - 1
    /\ Goto(w, "done")
    /\ UNCHANGED <<inFlight, store, topics>>

(* The deferred receive from the semaphore.                                *)
Release(w) ==
    /\ worker[w].pc = "release"
    /\ sem' = sem - 1
    /\ Goto(w, "done")
    /\ UNCHANGED <<inFlight, store, topics>>

\* Variant: a poll that recorded no run does not call Done.
DoneAfterRun(w) ==
    /\ worker[w].pc = "done"
    /\ inFlight' = IF worker[w].kind = "ticker" /\ worker[w].run # 0
                     THEN inFlight - 1 ELSE inFlight
    /\ worker' = [worker EXCEPT ![w] = Free]
    /\ UNCHANGED <<sem, store, topics>>

(* inFlight.Done() of a goroutine of pollAll; the response of a retry.     *)
Done(w) ==
    /\ worker[w].pc = "done"
    /\ inFlight' = IF worker[w].kind = "ticker" THEN inFlight - 1 ELSE inFlight
    /\ worker' = [worker EXCEPT ![w] = Free]
    /\ UNCHANGED <<sem, store, topics>>

PollStep(w) ==
    /\ Running
    /\ \/ Acquire(w)
       \/ Delay(w)
       \/ StartRun(w)
       \/ InsertRun(w)
       \/ Fetch(w)
       \/ Backoff(w)
       \/ PublishSync(w)
       \/ PublishDLQ(w)
       \/ FinishRun(w)
       \/ Release(w)
       \/ Done(w)
    /\ UNCHANGED <<loopVars, mainVars, requests>>

-----------------------------------------------------------------------------
(* main, after a signal. *)

Signal ==
    /\ main = "serving"
    /\ main' = "closing" /\ cancelled' = TRUE
    /\ UNCHANGED <<sem, inFlight, loopVars, deadline, worker, store, topics, requests>>

DeadlinePasses ==
    /\ SlowShutdown /\ main \in {"closing", "waiting"}
    /\ deadline' = TRUE
    /\ UNCHANGED <<sem, inFlight, loopVars, main, cancelled, worker, store, topics, requests>>

(* httpServer.Shutdown waits for the requests being served.                *)
ShutdownHTTP ==
    /\ main = "closing"
    /\ deadline \/ \A w \in Worker : worker[w].kind # "retry"
    /\ main' = "waiting"
    /\ UNCHANGED <<sem, inFlight, loopVars, cancelled, deadline, worker, store,
                   topics, requests>>

(* Pool.Wait, after which the process exits.                               *)
Wait ==
    /\ main = "waiting"
    /\ deadline \/ inFlight = 0
    /\ main' = "exited"
    /\ UNCHANGED <<sem, inFlight, loopVars, cancelled, deadline, worker, store,
                   topics, requests>>

LoopStep == Tick \/ EndLoop \/ AcquireForVenue \/ \E w \in Worker : Launch(w)
MainStep == ShutdownHTTP \/ Wait

PoolNext ==
    \/ LoopStep
    \/ \E w \in Worker : RetryRequest(w) \/ ClientGone(w) \/ PollStep(w)
    \/ Signal
    \/ DeadlinePasses
    \/ MainStep

(* Goroutines keep running, every call returns - StartRun, which has no    *)
(* timeout, because Postgres answers - and the semaphore and select do not *)
(* pass over a goroutine that is ready for ever.                           *)
PoolFairness ==
    /\ WF_vars(LoopStep) /\ WF_vars(MainStep)
    /\ \A w \in Worker : WF_vars(PollStep(w)) /\ SF_vars(Acquire(w) /\ PollStep(w))
    /\ SF_vars(AcquireForVenue)

PoolSpec == PoolInit /\ [][PoolNext]_vars /\ PoolFairness

-----------------------------------------------------------------------------
ShutDownInTime == main = "exited" /\ ~deadline

(* A shutdown that had the time leaves a run of this process at "running"  *)
(* only if the store failed it or its publish left the last write no time, *)
(* whichever polls and retries it interrupts.                              *)
InterruptedRunsFinish ==
    ShutDownInTime => \A n \in DOMAIN runs : runs[n] = "running" => n \in unrecorded \cup late

(* A run is only recorded as a success when its envelope is in pos.sync,   *)
(* and only one that failed is in the dead letter topic.                   *)
OutcomesMatchTopics ==
    \A n \in DOMAIN runs : /\ runs[n] = "success" => n \in synced
                           /\ n \in dead => n \notin synced

(* Every poll and every retry comes to its end, and gives way to others.   *)
EveryPollEnds == \A w \in Worker : worker[w].pc # "free" ~> worker[w].pc = "free" \/ ~Running

(* A signal ends the process even when the deadline never passes.          *)
ShutdownEnds == main = "closing" ~> main = "exited"
=============================================================================
