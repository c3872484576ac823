---------------------------- MODULE OutboxRelay ----------------------------
(***************************************************************************)
(* The relay of menu-service: it claims the oldest unpublished outbox row  *)
(* in a short transaction, publishes it to the menu.events topic while no  *)
(* row lock is held, and marks it published in a second transaction.  The  *)
(* outbox is a set of rows; the topic is one log, its events keyed by item *)
(* (a topic of several partitions only drops the order between items).     *)
(***************************************************************************)
EXTENDS Outbox, Sequences

CONSTANTS
    Relay,        \* relay instances polling the same outbox
    MaxFaults     \* bound: failed sends and transactions, crashes, overruns

VARIABLES
    relayPc,    \* how far each instance has got with its current row
    claimedRow, \* the id of that row, 0 if there is none
    topic,      \* the menu.events log
    faults,     \* how many faults there have been
    overrun,    \* history: rows still worked on when their lease expired
    givenUp     \* history: rows that were claimed and then not sent

relayVars == <<outbox, relayPc, claimedRow, topic, faults, overrun, givenUp>>

-----------------------------------------------------------------------------
(* What a consumer sees of a row: the payload's eventId is one per row.    *)
Event(r) == [eventId |-> r.id, item |-> r.item, version |-> r.version, type |-> r.type]

MenuEvent == [eventId : Nat, item : Item, version : Nat, type : EventType]

ASSUME RelayAssumption == MaxFaults \in Nat

RelayTypeOK ==
    /\ outbox \subseteq OutboxRow
    /\ relayPc \in [Relay -> {"idle", "claiming", "claimed", "acked"}]
    /\ claimedRow \in [Relay -> Nat]
    /\ topic \in Seq(MenuEvent)
    /\ faults \in 0 .. MaxFaults
    /\ overrun \in SUBSET Nat /\ givenUp \in SUBSET Nat

RelayInit ==
    /\ relayPc = [p \in Relay |-> "idle"]
    /\ claimedRow = [p \in Relay |-> 0]
    /\ topic = <<>>
    /\ faults = 0
    /\ overrun = {} /\ givenUp = {}

-----------------------------------------------------------------------------
Sent(r) == \E k \in DOMAIN topic : topic[k].eventId = r.id

(* published_at is null and claimed_at is null or older than CLAIM_LEASE.  *)
Claimable(r) == ~r.published /\ r.claim # "held"

(* FOR UPDATE: the row lock of an instance whose claim has not committed.  *)
NoRowLock(r) == FALSE \* variant: a plain SELECT

LockedRow(r) == \E q \in Relay : relayPc[q] = "claiming" /\ claimedRow[q] = r.id

Fault == faults < MaxFaults /\ faults' = faults + 1

SetRow(r, s) == outbox' = (outbox \ {r}) \cup {s}

\* Variant: no ORDER BY.
LockAnyRow(p, r) ==
    /\ relayPc[p] = "idle"
    /\ Claimable(r) /\ ~LockedRow(r)
    /\ relayPc' = [relayPc EXCEPT ![p] = "claiming"]
    /\ claimedRow' = [claimedRow EXCEPT ![p] = r.id]
    /\ UNCHANGED <<outbox, topic, faults, overrun, givenUp>>

(* claimNextRow: the lowest claimable id, SKIP LOCKED.                     *)
LockNextRow(p, r) ==
    /\ relayPc[p] = "idle"
    /\ Claimable(r) /\ ~LockedRow(r)
    /\ \A s \in outbox : Claimable(s) /\ ~LockedRow(s) => r.id <= s.id
    /\ relayPc' = [relayPc EXCEPT ![p] = "claiming"]
    /\ claimedRow' = [claimedRow EXCEPT ![p] = r.id]
    /\ UNCHANGED <<outbox, topic, faults, overrun, givenUp>>

(* claimed_at is stamped and the row lock released.                        *)
CommitClaim(p, r) ==
    /\ relayPc[p] = "claiming" /\ claimedRow[p] = r.id
    /\ SetRow(r, [r EXCEPT !.claim = "held"])
    /\ relayPc' = [relayPc EXCEPT ![p] = "claimed"]
    /\ UNCHANGED <<claimedRow, topic, faults, overrun, givenUp>>

\* Variant: send() without get(), which a broker may still refuse.
SendAndForget(p, r) ==
    /\ relayPc[p] = "claimed" /\ claimedRow[p] = r.id
    /\ topic' \in {topic, Append(topic, Event(r))}
    /\ relayPc' = [relayPc EXCEPT ![p] = "acked"]
    /\ UNCHANGED <<outbox, claimedRow, faults, overrun, givenUp>>

(* publishRow: send().get() returns once the brokers have the record.      *)
SendAcked(p, r) ==
    /\ relayPc[p] = "claimed" /\ claimedRow[p] = r.id
    /\ topic' = Append(topic, Event(r))
    /\ relayPc' = [relayPc EXCEPT ![p] = "acked"]
    /\ UNCHANGED <<outbox, claimedRow, faults, overrun, givenUp>>

MarkPublished(p, r) ==
    /\ relayPc[p] = "acked" /\ claimedRow[p] = r.id
    /\ ~LockedRow(r)
    /\ SetRow(r, [r EXCEPT !.published = TRUE])
    /\ relayPc' = [relayPc EXCEPT ![p] = "idle"]
    /\ claimedRow' = [claimedRow EXCEPT ![p] = 0]
    /\ UNCHANGED <<topic, faults, overrun, givenUp>>

(* send().get() throws although the brokers took the record.  The poll     *)
(* loop catches it and starts over; nothing releases the claim.            *)
SendTimesOut(p, r) ==
    /\ Fault
    /\ relayPc[p] = "claimed" /\ claimedRow[p] = r.id
    /\ topic' = Append(topic, Event(r))
    /\ relayPc' = [relayPc EXCEPT ![p] = "idle"]
    /\ claimedRow' = [claimedRow EXCEPT ![p] = 0]
    /\ UNCHANGED <<outbox, overrun, givenUp>>

(* A transaction or the send fails and the poll loop catches it, or the    *)
(* instance crashes and restarts: a claim that was committed stays.        *)
Abort(p) ==
    /\ Fault
    /\ relayPc[p] # "idle"
    /\ relayPc' = [relayPc EXCEPT ![p] = "idle"]
    /\ claimedRow' = [claimedRow EXCEPT ![p] = 0]
    /\ givenUp' = IF relayPc[p] = "claimed" THEN givenUp \cup {claimedRow[p]} ELSE givenUp
    /\ UNCHANGED <<outbox, topic, overrun>>

WorkedOn(r) == \E p \in Relay : claimedRow[p] = r.id

(* CLAIM_LEASE has passed since the row was claimed.                       *)
LeaseExpires(r) ==
    /\ r.claim = "held" /\ ~r.published
    /\ ~WorkedOn(r)
    /\ SetRow(r, [r EXCEPT !.claim = "stale"])
    /\ UNCHANGED <<relayPc, claimedRow, topic, faults, overrun, givenUp>>

(* The same while the row is still being published: send().get() may wait  *)
(* for two minutes, CLAIM_LEASE is 30 seconds.                             *)
LeaseOverrun(r) ==
    /\ Fault
    /\ r.claim = "held" /\ ~r.published
    /\ WorkedOn(r)
    /\ SetRow(r, [r EXCEPT !.claim = "stale"])
    /\ overrun' = overrun \cup {r.id}
    /\ UNCHANGED <<relayPc, claimedRow, topic, givenUp>>

RelayStep(p, r) ==
    \/ LockNextRow(p, r)
    \/ CommitClaim(p, r)
    \/ SendAcked(p, r)
    \/ MarkPublished(p, r)

RelayNext ==
    \/ \E r \in outbox : LeaseExpires(r) \/ LeaseOverrun(r)
    \/ \E p \in Relay : Abort(p) \/ \E r \in outbox : RelayStep(p, r) \/ SendTimesOut(p, r)

(* The poll loop never stops and time passes; a step that keeps failing    *)
(* counts as so many faults, of which there are finitely many.             *)
RelayFairness ==
    /\ WF_relayVars(\E r \in outbox : LeaseExpires(r))
    /\ \A p \in Relay : WF_relayVars(\E r \in outbox : RelayStep(p, r))

-----------------------------------------------------------------------------
(* A row is marked published only when its event is in the topic: a crash  *)
(* or a failed send between the claim and the mark loses nothing.          *)
PublishedWasSent == \A r \in outbox : r.published => Sent(r)

(* The claim protects the publish, which holds no row lock: two instances  *)
(* only work on one row when its publish has outlived its lease.           *)
OneClaimant ==
    \A p, q \in Relay :
        claimedRow[p] # 0 /\ claimedRow[p] = claimedRow[q] /\ p # q => claimedRow[p] \in overrun
=============================================================================
