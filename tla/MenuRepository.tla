--------------------------- MODULE MenuRepository ---------------------------
(***************************************************************************)
(* The write side of menu-service: the items and outbox tables and the     *)
(* transactions ItemRepository runs on them for POST, PUT and DELETE       *)
(* requests.  Postgres is external and modelled from how ItemRepository    *)
(* uses it: a conditional UPDATE takes the row's lock and keeps it until   *)
(* the transaction ends, a bigserial id is drawn when the row is inserted  *)
(* (so ids may commit out of order), and a transaction commits atomically. *)
(***************************************************************************)
EXTENDS Outbox, FiniteSets

CONSTANTS
    Venue,            \* venue ids
    ItemVenue,        \* [Item -> Venue]: the venue an item is created in
    Tx,               \* requests in flight at the same time
    RepeatableRead,   \* TRUE: REPEATABLE READ; FALSE: Postgres' READ COMMITTED
    ObservedVersions, \* TRUE: clients send only versions a response has shown
    MaxVersion,       \* bound: the highest version an item reaches
    MaxOutboxId       \* bound: the outbox ids the sequence may hand out

ASSUME RepositoryAssumption ==
    /\ ItemVenue \in [Item -> Venue]
    /\ RepeatableRead \in BOOLEAN
    /\ ObservedVersions \in BOOLEAN
    /\ MaxVersion \in Nat
    /\ MaxOutboxId \in Nat

VARIABLES
    venues,        \* ids in the venues table
    items,         \* committed rows of the items table
    nextOutboxId,  \* the next value of the outbox id sequence
    pc,            \* how far each request's transaction has got
    request,       \* the request each transaction serves
    existing,      \* the version the transaction's SELECT returned
    outboxId,      \* the id of the outbox row the transaction inserted
    reply          \* the result of a transaction that has ended

txVars == <<pc, request, existing, outboxId, reply>>
vars == <<venues, items, outbox, nextOutboxId, txVars>>

-----------------------------------------------------------------------------
ItemRow == [status : {"absent", "live", "deleted"}, version : Nat]

Op == {"create", "update", "delete"}
Request == [op : Op, venue : Venue, item : Item, version : Nat]
NoRequest == [op |-> "none"]

Result == {"success", "not_found", "conflict", "error"}
NoReply == [result |-> "none", version |-> 0]
Reply(result, version) == [result |-> result, version |-> version]

RepositoryTypeOK ==
    /\ venues \subseteq Venue
    /\ items \in [Item -> ItemRow]
    /\ outbox \subseteq OutboxRow
    /\ nextOutboxId \in Nat \ {0}
    /\ pc \in [Tx -> {"idle", "begun", "selected", "conflict", "written", "done"}]
    /\ request \in [Tx -> Request \cup {NoRequest}]
    /\ existing \in [Tx -> Nat]
    /\ outboxId \in [Tx -> Nat]
    /\ reply \in [Tx -> [result : Result \cup {"none"}, version : Nat]]

RepositoryInit ==
    /\ venues = {}
    /\ items = [i \in Item |-> [status |-> "absent", version |-> 0]]
    /\ outbox = {}
    /\ nextOutboxId = 1
    /\ pc = [t \in Tx |-> "idle"]
    /\ request = [t \in Tx |-> NoRequest]
    /\ existing = [t \in Tx |-> 0]
    /\ outboxId = [t \in Tx |-> 0]
    /\ reply = [t \in Tx |-> NoReply]

-----------------------------------------------------------------------------
(* The versions a client may put in a PUT or DELETE for item i: every      *)
(* committed version has been shown to some client, by list() or a reply.  *)
RequestVersions(i) ==
    IF ObservedVersions THEN 0 .. items[i].version ELSE 0 .. MaxVersion

(* A create draws a random UUID, which nothing else can name yet.          *)
FreshItem(i) ==
    /\ items[i].status = "absent"
    /\ \A u \in Tx : pc[u] # "idle" => request[u].item # i

LegalRequest(r) ==
    IF r.op = "create"
      THEN FreshItem(r.item) /\ r.venue = ItemVenue[r.item] /\ r.version = 0
      ELSE r.version \in RequestVersions(r.item)

LegalRequests ==
    {r \in [op : Op, venue : Venue, item : Item, version : 0 .. MaxVersion] : LegalRequest(r)}

(* Another transaction has written row i and not ended: a writer waits.    *)
NeverLocked(i) == FALSE \* variant: no row locks

Locked(i) == \E u \in Tx : pc[u] = "written" /\ request[u].item = i

NewVersion(t) == IF request[t].op = "create" THEN 0 ELSE existing[t] + 1

OpAsEventType(op) == op \* variant: the request's own word for it

EventTypeOf(op) ==
    CASE op = "create" -> "ItemCreated"
      [] op = "update" -> "ItemUpdated"
      [] op = "delete" -> "ItemDeleted"

(* The row that writeOutboxEvent inserts for transaction t.                *)
OutboxEvent(t) ==
    [id |-> outboxId[t], item |-> request[t].item, version |-> NewVersion(t),
     type |-> EventTypeOf(request[t].op), claim |-> "none", published |-> FALSE]

(* The items row transaction t leaves behind.                              *)
WrittenItem(t) ==
    [status |-> IF request[t].op = "delete" THEN "deleted" ELSE "live",
     version |-> NewVersion(t)]

Finish(t, result, version) ==
    /\ pc' = [pc EXCEPT ![t] = "done"]
    /\ reply' = [reply EXCEPT ![t] = Reply(result, version)]

(* The domain write and writeOutboxEvent: both stay invisible until commit.*)
WriteRows(t) ==
    /\ nextOutboxId <= MaxOutboxId
    /\ pc' = [pc EXCEPT ![t] = "written"]
    /\ outboxId' = [outboxId EXCEPT ![t] = nextOutboxId]
    /\ nextOutboxId' = nextOutboxId + 1
    /\ UNCHANGED reply

-----------------------------------------------------------------------------
CreateVenue(v) ==
    /\ v \notin venues
    /\ venues' = venues \cup {v}
    /\ UNCHANGED <<items, outbox, nextOutboxId, txVars>>

Begin(t, r) ==
    /\ pc[t] = "idle"
    /\ r \in LegalRequests
    /\ pc' = [pc EXCEPT ![t] = "begun"]
    /\ request' = [request EXCEPT ![t] = r]
    /\ UNCHANGED <<venues, items, outbox, nextOutboxId, existing, outboxId, reply>>

(* create(): the venue must exist; the item starts at version 0.           *)
Create(t) ==
    /\ pc[t] = "begun" /\ request[t].op = "create"
    /\ \/ request[t].venue \in venues /\ WriteRows(t)
       \/ /\ request[t].venue \notin venues
          /\ Finish(t, "not_found", 0)
          /\ UNCHANGED <<outboxId, nextOutboxId>>
    /\ UNCHANGED <<venues, items, outbox, request, existing>>

\* Variant: the SELECT forgets deleted_at.
FoundWithDeleted(t) ==
    items[request[t].item].status # "absent" /\ ItemVenue[request[t].item] = request[t].venue

Found(t) ==
    items[request[t].item].status = "live" /\ ItemVenue[request[t].item] = request[t].venue

(* update() and delete() first read the row, deleted rows excluded.        *)
SelectExisting(t) ==
    /\ pc[t] = "begun" /\ request[t].op # "create"
    /\ \/ /\ Found(t)
          /\ pc' = [pc EXCEPT ![t] = "selected"]
          /\ existing' = [existing EXCEPT ![t] = items[request[t].item].version]
          /\ UNCHANGED reply
       \/ /\ ~Found(t)
          /\ Finish(t, "not_found", 0)
          /\ UNCHANGED existing
    /\ UNCHANGED <<venues, items, outbox, nextOutboxId, request, outboxId>>

(* The row version the UPDATE's WHERE clause is evaluated on: the current  *)
(* one under READ COMMITTED, the snapshot's under REPEATABLE READ.         *)
VisibleVersion(t) ==
    IF RepeatableRead THEN existing[t] ELSE items[request[t].item].version

ChangesIgnored(t) == TRUE \* variant: a snapshot that hides a later write

(* REPEATABLE READ refuses to write a row that changed after the snapshot. *)
UnchangedSinceSnapshot(t) ==
    RepeatableRead => items[request[t].item].version = existing[t]

(* The conditional UPDATE: the condition is on the version in the request, *)
(* the version it writes comes from the earlier SELECT, and deleted_at is  *)
(* not checked again.  A matching row another transaction has written is   *)
(* waited for; a statement the database refuses is a Rollback.             *)
ConditionalUpdate(t) ==
    /\ pc[t] = "selected"
    /\ \/ /\ VisibleVersion(t) = request[t].version
          /\ ~Locked(request[t].item)
          /\ UnchangedSinceSnapshot(t)
          /\ existing[t] < MaxVersion
          /\ WriteRows(t)
       \/ /\ VisibleVersion(t) # request[t].version
          /\ pc' = [pc EXCEPT ![t] = "conflict"]
          /\ UNCHANGED <<outboxId, nextOutboxId, reply>>
    /\ UNCHANGED <<venues, items, outbox, request, existing>>

\* Variant: the 409 carries the row the first SELECT returned.
StaleItemResponse(t) ==
    /\ pc[t] = "conflict"
    /\ Finish(t, "conflict", existing[t])
    /\ UNCHANGED <<venues, items, outbox, nextOutboxId, request, existing, outboxId>>

(* No row was updated: the 409 carries the row as the transaction now sees *)
(* it, read by one more SELECT.                                            *)
CurrentItemResponse(t) ==
    /\ pc[t] = "conflict"
    /\ Finish(t, "conflict", VisibleVersion(t))
    /\ UNCHANGED <<venues, items, outbox, nextOutboxId, request, existing, outboxId>>

CommitRows(t) ==
    /\ items' = [items EXCEPT ![request[t].item] = WrittenItem(t)]
    /\ outbox' = outbox \cup {OutboxEvent(t)}

\* Variant: the outbox row is not written with the item.
CommitWithoutEvent(t) ==
    /\ pc[t] = "written"
    /\ items' = [items EXCEPT ![request[t].item] = WrittenItem(t)]
    /\ Finish(t, "success", NewVersion(t))
    /\ UNCHANGED <<venues, outbox, nextOutboxId, request, existing, outboxId>>

Commit(t) ==
    /\ pc[t] = "written"
    /\ CommitRows(t)
    /\ Finish(t, "success", NewVersion(t))
    /\ UNCHANGED <<venues, nextOutboxId, request, existing, outboxId>>

(* The block runs again from its start; create() draws another UUID.       *)
RunAgain(t) ==
    /\ pc' = [pc EXCEPT ![t] = "begun"]
    /\ \E i \in Item :
         /\ IF request[t].op = "create"
              THEN FreshItem(i) /\ ItemVenue[i] = request[t].venue
              ELSE i = request[t].item
         /\ request' = [request EXCEPT ![t].item = i]
    /\ existing' = [existing EXCEPT ![t] = 0]
    /\ outboxId' = [outboxId EXCEPT ![t] = 0]
    /\ UNCHANGED reply

(* The commit takes effect but the connection is lost before its answer:   *)
(* Exposed runs the block again or the request fails with a 500.           *)
CommitUnacknowledged(t) ==
    /\ pc[t] = "written"
    /\ CommitRows(t)
    /\ \/ RunAgain(t)
       \/ Finish(t, "error", 0) /\ UNCHANGED <<request, existing, outboxId>>
    /\ UNCHANGED <<venues, nextOutboxId>>

\* Variant: the outbox row is inserted in a transaction of its own.
RollbackKeepsEvent(t) ==
    /\ pc[t] = "written"
    /\ outbox' = outbox \cup {OutboxEvent(t)}
    /\ Finish(t, "error", 0)
    /\ UNCHANGED <<venues, items, nextOutboxId, request, existing, outboxId>>

(* A statement or the commit fails (a lost connection, a serialization     *)
(* failure, a restart of the service): the transaction is rolled back and  *)
(* Exposed either runs the block again or the request fails with a 500.    *)
Rollback(t) ==
    /\ pc[t] \in {"begun", "selected", "conflict", "written"}
    /\ \/ pc' = [pc EXCEPT ![t] = "begun"] /\ UNCHANGED reply
       \/ Finish(t, "error", 0)
    /\ existing' = [existing EXCEPT ![t] = 0]
    /\ outboxId' = [outboxId EXCEPT ![t] = 0]
    /\ UNCHANGED <<venues, items, outbox, nextOutboxId, request>>

Respond(t) ==
    /\ pc[t] = "done"
    /\ pc' = [pc EXCEPT ![t] = "idle"]
    /\ request' = [request EXCEPT ![t] = NoRequest]
    /\ existing' = [existing EXCEPT ![t] = 0]
    /\ outboxId' = [outboxId EXCEPT ![t] = 0]
    /\ reply' = [reply EXCEPT ![t] = NoReply]
    /\ UNCHANGED <<venues, items, outbox, nextOutboxId>>

TxStep(t) ==
    \/ Create(t)
    \/ SelectExisting(t)
    \/ ConditionalUpdate(t)
    \/ CurrentItemResponse(t)
    \/ Commit(t)
    \/ CommitUnacknowledged(t)
    \/ Rollback(t)
    \/ Respond(t)

RepositoryNext ==
    \/ \E v \in Venue : CreateVenue(v)
    \/ \E t \in Tx : \E r \in LegalRequests : Begin(t, r)
    \/ \E t \in Tx : TxStep(t)

RepositorySpec == RepositoryInit /\ [][RepositoryNext]_vars

-----------------------------------------------------------------------------
(* A Postgres write and its event never diverge: the events in the outbox  *)
(* for an item carry exactly the versions the item has gone through.       *)
OutboxMatchesItems ==
    \A i \in Item :
        {r.version : r \in {s \in outbox : s.item = i}} =
            IF items[i].status = "absent" THEN {} ELSE 0 .. items[i].version

(* No two writers are given the same version of an item, although the      *)
(* version written comes from a SELECT before the conditional UPDATE.      *)
OneEventPerVersion ==
    \A r, s \in outbox : r.item = s.item /\ r.version = s.version => r = s

(* The relay publishes by outbox id: for one item the ids follow the       *)
(* versions, although ids are drawn before commit and by many requests.    *)
IdsFollowVersions ==
    \A r, s \in outbox : r.item = s.item /\ r.id < s.id => r.version < s.version

(* A delete is the last thing that happens to an item, although the        *)
(* UPDATE statements do not check deleted_at again.                        *)
DeleteIsLast ==
    \A r \in outbox : r.type = "ItemDeleted" =>
        items[r.item].status = "deleted" /\ r.version = items[r.item].version

(* A writer that is told it succeeded has overwritten exactly the version  *)
(* it had seen; one that is told of a conflict is shown a newer version.   *)
RepliesAreHonest ==
    \A t \in Tx : pc[t] = "done" /\ request[t].op # "create" =>
        /\ reply[t].result = "success" => reply[t].version = request[t].version + 1
        /\ reply[t].result = "conflict" => reply[t].version > request[t].version

(* An item's version only ever grows by one at a time and a deleted item   *)
(* never comes back.                                                       *)
ItemHistory ==
    \A i \in Item :
        /\ items'[i].version \in {items[i].version, items[i].version + 1}
        /\ items'[i].version = items[i].version =>
              items'[i].status = items[i].status \/ items[i].status = "absent"
        /\ items[i].status = "deleted" => items'[i] = items[i]

ItemHistoryProperty == [][ItemHistory]_vars
=============================================================================
