------------------------- MODULE MenuServiceProofs -------------------------
(***************************************************************************)
(* menu-service and the path from its menu to availability-service, proved *)
(* in four parts. The repository: for any number of items, requests,       *)
(* versions and outbox ids and under either isolation level, as long as    *)
(* clients only send versions they have been shown. The relay, while       *)
(* requests commit rows: for any number of instances and faults. Both      *)
(* together: they keep the promise of MenuEvents, and with one relay       *)
(* instance the events follow the versions until the first fault and       *)
(* afterwards only pass by a row that was claimed and not sent. Last, the  *)
(* consumer over their topic: it is given what its own proofs ask for, and *)
(* an item's availability comes to be that of its row.                     *)
(***************************************************************************)
EXTENDS WritePath, SequenceTheorems, TLAPS

-----------------------------------------------------------------------------
(* The repository.                                                         *)

Active(t) == pc[t] # "idle"
Creating(t) == pc[t] \in {"begun", "written"} /\ request[t].op = "create"
Changing(t) == Active(t) /\ request[t].op # "create"

(* What a transaction knows about the row it works on.                     *)
RequestInv ==
    \A t \in Tx : Active(t) =>
        /\ request[t] \in Request
        /\ request[t].op # "create" => request[t].version <= items[request[t].item].version
        /\ Creating(t) => items[request[t].item].status = "absent"

(* The client saw the version it sends before the SELECT saw the row, and  *)
(* the row has not been deleted since as long as its version is the same.  *)
SelectedInv ==
    \A t \in Tx : pc[t] \in {"selected", "conflict"} =>
        LET row == items[request[t].item]
        IN  /\ request[t].op # "create"
            /\ row.status # "absent"
            /\ request[t].version <= existing[t]
            /\ existing[t] <= row.version
            /\ existing[t] = row.version => row.status = "live"

ConflictInv ==
    \A t \in Tx : pc[t] = "conflict" => request[t].version < VisibleVersion(t)

(* An uncommitted write is the next one of its row.                        *)
WrittenInv ==
    \A t \in Tx : pc[t] = "written" =>
        /\ outboxId[t] \in Nat \ {0}
        /\ outboxId[t] < nextOutboxId
        /\ request[t].op # "create" =>
              /\ items[request[t].item].status = "live"
              /\ existing[t] = items[request[t].item].version
              /\ existing[t] = request[t].version

(* There is at most one uncommitted write per row; ids are drawn once.     *)
LockInv ==
    \A t, u \in Tx : pc[t] = "written" /\ pc[u] = "written" /\ t # u =>
        /\ request[t].item # request[u].item
        /\ outboxId[t] # outboxId[u]

FreshInv ==
    \A t, u \in Tx :
        Creating(t) /\ Active(u) /\ request[u].op = "create" /\ t # u =>
            request[t].item # request[u].item

(* An uncommitted event comes after the committed ones of its item.        *)
OutboxIdInv ==
    \A r \in outbox :
        /\ r.id < nextOutboxId
        /\ \A t \in Tx : pc[t] = "written" =>
              /\ r.id # outboxId[t]
              /\ r.item = request[t].item => r.id < outboxId[t]

(* What holds of the committed rows alone.                                 *)
AbsentInv == \A i \in Item : items[i].status = "absent" => items[i].version = 0

OutboxKeyInv == \A r, s \in outbox : r.id = s.id => r = s

EventOfWriteInv ==
    \A r \in outbox :
        items[r.item].status # "absent" /\ r.version <= items[r.item].version

WriteHasEventInv ==
    \A i \in Item : items[i].status # "absent" =>
        \A n \in 0 .. items[i].version : \E r \in outbox : r.item = i /\ r.version = n

TxInv == /\ RequestInv /\ SelectedInv /\ ConflictInv /\ WrittenInv /\ LockInv
         /\ FreshInv /\ OutboxIdInv
TableInv == /\ AbsentInv /\ OutboxKeyInv /\ EventOfWriteInv /\ WriteHasEventInv
            /\ OneEventPerVersion /\ IdsFollowVersions /\ DeleteIsLast

RepositoryInv == RepositoryTypeOK /\ TxInv /\ TableInv /\ RepliesAreHonest

-----------------------------------------------------------------------------
LEMMA CreateVenuePreserves ==
    ASSUME ObservedVersions, RepositoryInv, NEW v \in Venue, CreateVenue(v)
    PROVE  RepositoryInv'
<1> USE DEF RepositoryInv, TxInv
<1>1. RepositoryTypeOK'
  BY DEF RepositoryTypeOK, CreateVenue, txVars
<1>2. RequestInv'
  BY DEF Active, Creating, RequestInv, CreateVenue, txVars
<1>3. SelectedInv'
  BY DEF SelectedInv, CreateVenue, txVars
<1>4. ConflictInv'
  BY DEF ConflictInv, VisibleVersion, CreateVenue, txVars
<1>5. WrittenInv'
  BY DEF WrittenInv, CreateVenue, txVars
<1>6. LockInv'
  BY DEF LockInv, CreateVenue, txVars
<1>7. FreshInv'
  BY DEF Active, Creating, FreshInv, CreateVenue, txVars
<1>8. OutboxIdInv'
  BY DEF OutboxIdInv, CreateVenue, txVars
<1>9. RepliesAreHonest'
  BY DEF RepliesAreHonest, CreateVenue, txVars
<1>10. TableInv'
  BY DEF TableInv, AbsentInv, OutboxKeyInv, EventOfWriteInv, WriteHasEventInv,
         OneEventPerVersion, IdsFollowVersions, DeleteIsLast, CreateVenue
<1> QED
  BY <1>1, <1>2, <1>3, <1>4, <1>5, <1>6, <1>7, <1>8, <1>9, <1>10

LEMMA BeginPreserves ==
    ASSUME ObservedVersions, RepositoryInv, NEW t \in Tx, NEW r \in LegalRequests, Begin(t, r)
    PROVE  RepositoryInv'
<1> USE DEF RepositoryInv, TxInv
<1>a. r \in Request /\ LegalRequest(r)
  BY RepositoryAssumption DEF LegalRequests, Request
<1>1. RepositoryTypeOK'
  BY <1>a DEF RepositoryTypeOK, Begin
<1>2. RequestInv'
  BY <1>a DEF Active, Creating, RequestInv, RepositoryTypeOK, LegalRequest, FreshItem,
         RequestVersions, Begin
<1>3. SelectedInv'
  BY <1>a DEF SelectedInv, Begin
<1>4. ConflictInv'
  BY DEF ConflictInv, VisibleVersion, Begin
<1>5. WrittenInv'
  BY DEF WrittenInv, Begin
<1>6. LockInv'
  BY DEF LockInv, Begin
<1>7. FreshInv'
  BY <1>a DEF Active, Creating, FreshInv, RepositoryTypeOK, LegalRequest, FreshItem, Begin
<1>8. OutboxIdInv'
  BY DEF OutboxIdInv, Begin
<1>9. RepliesAreHonest'
  BY DEF RepliesAreHonest, Begin
<1>10. TableInv'
  BY DEF TableInv, AbsentInv, OutboxKeyInv, EventOfWriteInv, WriteHasEventInv,
         OneEventPerVersion, IdsFollowVersions, DeleteIsLast, Begin
<1> QED
  BY <1>1, <1>2, <1>3, <1>4, <1>5, <1>6, <1>7, <1>8, <1>9, <1>10

LEMMA CreatePreserves ==
    ASSUME ObservedVersions, RepositoryInv, NEW t \in Tx, Create(t)
    PROVE  RepositoryInv'
<1> USE DEF RepositoryInv, TxInv
<1>1. RepositoryTypeOK'
  <2>1. pc' \in [Tx -> {"idle", "begun", "selected", "conflict", "written", "done"}]
    BY DEF RepositoryTypeOK, Create, WriteRows, Finish
  <2>2. outboxId' \in [Tx -> Nat] /\ nextOutboxId' \in Nat \ {0}
    BY DEF RepositoryTypeOK, Create, WriteRows
  <2>3. reply' \in [Tx -> [result : Result \cup {"none"}, version : Nat]]
    BY DEF RepositoryTypeOK, Create, WriteRows, Finish, Reply, Result
  <2> QED
    BY <2>1, <2>2, <2>3 DEF RepositoryTypeOK, Create
<1>2. RequestInv'
  BY DEF Active, Creating, RequestInv, RepositoryTypeOK, Create, WriteRows, Finish
<1>3. SelectedInv'
  BY DEF SelectedInv, RepositoryTypeOK, Create, WriteRows, Finish
<1>4. ConflictInv'
  BY DEF ConflictInv, VisibleVersion, RepositoryTypeOK, Create, WriteRows, Finish
<1>5. WrittenInv'
  BY DEF WrittenInv, RepositoryTypeOK, Create, WriteRows, Finish
<1>6. LockInv'
  BY DEF WrittenInv, LockInv, RepositoryTypeOK, Active, Creating, RequestInv,
         FreshInv, Create, WriteRows, Finish
<1>7. FreshInv'
  BY DEF Active, Creating, FreshInv, RepositoryTypeOK, Create, WriteRows, Finish
<1>8. OutboxIdInv'
  <2>1. \A r \in outbox : r.item # request[t].item
    BY DEF Create, Active, Creating, RequestInv, TableInv, EventOfWriteInv
  <2>2. \A r \in outbox : r.id < nextOutboxId /\ r.id \in Nat /\ nextOutboxId \in Nat
    BY DEF RepositoryTypeOK, OutboxRow, OutboxIdInv
  <2> QED
    BY <2>1, <2>2 DEF RepositoryTypeOK, OutboxIdInv, Create, WriteRows, Finish
<1>9. RepliesAreHonest'
  BY DEF RepliesAreHonest, RepositoryTypeOK, Create, WriteRows, Finish
<1>10. TableInv'
  BY DEF TableInv, AbsentInv, OutboxKeyInv, EventOfWriteInv, WriteHasEventInv,
         OneEventPerVersion, IdsFollowVersions, DeleteIsLast, Create
<1> QED
  BY <1>1, <1>2, <1>3, <1>4, <1>5, <1>6, <1>7, <1>8, <1>9, <1>10

LEMMA SelectExistingPreserves ==
    ASSUME ObservedVersions, RepositoryInv, NEW t \in Tx, SelectExisting(t)
    PROVE  RepositoryInv'
<1> USE DEF RepositoryInv, TxInv
<1>1. RepositoryTypeOK'
  <2>1. pc' \in [Tx -> {"idle", "begun", "selected", "conflict", "written", "done"}]
    BY DEF RepositoryTypeOK, SelectExisting, Finish
  <2>2. existing' \in [Tx -> Nat]
    BY DEF RepositoryTypeOK, RequestInv, Active, Request, ItemRow, SelectExisting
  <2>3. reply' \in [Tx -> [result : Result \cup {"none"}, version : Nat]]
    BY DEF RepositoryTypeOK, SelectExisting, Finish, Reply, Result
  <2> QED
    BY <2>1, <2>2, <2>3 DEF RepositoryTypeOK, SelectExisting
<1>2. RequestInv'
  BY DEF Active, Creating, RequestInv, RepositoryTypeOK, SelectExisting, Finish
<1>3. SelectedInv'
  BY DEF Active, RequestInv, SelectedInv, RepositoryTypeOK, ItemRow, Request,
         SelectExisting, Found, Finish
<1>4. ConflictInv'
  BY DEF ConflictInv, VisibleVersion, RepositoryTypeOK, SelectExisting, Finish
<1>5. WrittenInv'
  BY DEF WrittenInv, RepositoryTypeOK, SelectExisting, Finish
<1>6. LockInv'
  BY DEF LockInv, RepositoryTypeOK, SelectExisting, Finish
<1>7. FreshInv'
  BY DEF Active, Creating, FreshInv, RepositoryTypeOK, SelectExisting, Finish
<1>8. OutboxIdInv'
  BY DEF OutboxIdInv, RepositoryTypeOK, SelectExisting, Finish
<1>9. RepliesAreHonest'
  BY DEF RepliesAreHonest, RepositoryTypeOK, SelectExisting, Finish, Reply
<1>10. TableInv'
  BY DEF TableInv, AbsentInv, OutboxKeyInv, EventOfWriteInv, WriteHasEventInv,
         OneEventPerVersion, IdsFollowVersions, DeleteIsLast, SelectExisting
<1> QED
  BY <1>1, <1>2, <1>3, <1>4, <1>5, <1>6, <1>7, <1>8, <1>9, <1>10

LEMMA ConditionalUpdatePreserves ==
    ASSUME ObservedVersions, RepositoryInv, NEW t \in Tx, ConditionalUpdate(t)
    PROVE  RepositoryInv'
<1> USE DEF RepositoryInv, TxInv
<1>1. RepositoryTypeOK'
  BY DEF RepositoryTypeOK, RequestInv, WrittenInv, Request, ItemRow, OutboxRow,
         EventType, Op, Result, ConditionalUpdate, WriteRows
<1>2. RequestInv'
  BY DEF Active, Creating, RequestInv, RepositoryTypeOK, SelectedInv,
         ConditionalUpdate, WriteRows
<1>3. SelectedInv'
  BY DEF SelectedInv, RepositoryTypeOK, ConditionalUpdate, WriteRows
<1>4. ConflictInv'
  <2> SUFFICES ASSUME NEW u \in Tx, pc'[u] = "conflict"
               PROVE  request[u].version < VisibleVersion(u)
    BY DEF ConflictInv, VisibleVersion, ConditionalUpdate
  <2>1. CASE u = t
    <3>1. pc[t] = "selected" /\ VisibleVersion(t) # request[t].version
      BY <2>1 DEF RepositoryTypeOK, ConditionalUpdate, WriteRows
    <3>2. request[t] \in Request /\ existing[t] \in Nat /\ items[request[t].item].version \in Nat
      BY <3>1 DEF RepositoryTypeOK, RequestInv, Active, Request, ItemRow
    <3> QED
      BY <2>1, <3>1, <3>2 DEF SelectedInv, VisibleVersion, Request
  <2>2. CASE u # t
    BY <2>2 DEF RepositoryTypeOK, ConflictInv, ConditionalUpdate, WriteRows
  <2> QED
    BY <2>1, <2>2
<1>5. WrittenInv'
  BY DEF Active, RequestInv, WrittenInv, RepositoryTypeOK, Request, SelectedInv,
         VisibleVersion, UnchangedSinceSnapshot, ConditionalUpdate, WriteRows
<1>6. LockInv'
  BY DEF WrittenInv, LockInv, RepositoryTypeOK, Locked, ConditionalUpdate, WriteRows
<1>7. FreshInv'
  BY DEF Active, Creating, FreshInv, RepositoryTypeOK, SelectedInv,
         ConditionalUpdate, WriteRows
<1>8. OutboxIdInv'
  <2>1. \A r \in outbox : r.id < nextOutboxId /\ r.id \in Nat /\ nextOutboxId \in Nat
    BY DEF RepositoryTypeOK, OutboxRow, OutboxIdInv
  <2> QED
    BY <2>1 DEF RepositoryTypeOK, OutboxIdInv, ConditionalUpdate, WriteRows
<1>9. RepliesAreHonest'
  BY DEF RepliesAreHonest, RepositoryTypeOK, ConditionalUpdate, WriteRows
<1>10. TableInv'
  BY DEF TableInv, AbsentInv, OutboxKeyInv, EventOfWriteInv, WriteHasEventInv,
         OneEventPerVersion, IdsFollowVersions, DeleteIsLast, ConditionalUpdate
<1> QED
  BY <1>1, <1>2, <1>3, <1>4, <1>5, <1>6, <1>7, <1>8, <1>9, <1>10

LEMMA CurrentItemResponsePreserves ==
    ASSUME ObservedVersions, RepositoryInv, NEW t \in Tx, CurrentItemResponse(t)
    PROVE  RepositoryInv'
<1> USE DEF RepositoryInv, TxInv
<1>1. RepositoryTypeOK'
  <2>1. VisibleVersion(t) \in Nat
    BY DEF RepositoryTypeOK, RequestInv, Active, Request, ItemRow,
           CurrentItemResponse, VisibleVersion
  <2> QED
    BY <2>1 DEF RepositoryTypeOK, CurrentItemResponse, Finish, Reply, Result
<1>2. RequestInv'
  BY DEF Active, Creating, RequestInv, CurrentItemResponse, Finish
<1>3. SelectedInv'
  BY DEF SelectedInv, CurrentItemResponse, Finish
<1>4. ConflictInv'
  BY DEF ConflictInv, VisibleVersion, CurrentItemResponse, Finish
<1>5. WrittenInv'
  BY DEF WrittenInv, CurrentItemResponse, Finish
<1>6. LockInv'
  BY DEF LockInv, CurrentItemResponse, Finish
<1>7. FreshInv'
  BY DEF Active, Creating, FreshInv, CurrentItemResponse, Finish
<1>8. OutboxIdInv'
  BY DEF OutboxIdInv, CurrentItemResponse, Finish
<1>9. RepliesAreHonest'
  BY DEF RepliesAreHonest, RepositoryTypeOK, ConflictInv, CurrentItemResponse,
         Finish, Reply
<1>10. TableInv'
  BY DEF TableInv, AbsentInv, OutboxKeyInv, EventOfWriteInv, WriteHasEventInv,
         OneEventPerVersion, IdsFollowVersions, DeleteIsLast, CurrentItemResponse
<1> QED
  BY <1>1, <1>2, <1>3, <1>4, <1>5, <1>6, <1>7, <1>8, <1>9, <1>10

(* What a commit makes visible keeps the committed rows consistent.        *)
LEMMA CommittedRows ==
    ASSUME ObservedVersions, RepositoryInv, NEW t \in Tx, pc[t] = "written", CommitRows(t)
    PROVE  TableInv'
<1> USE DEF RepositoryInv, TxInv
<1>1. AbsentInv'
  BY DEF TableInv, AbsentInv, CommitRows, WrittenItem
<1>2. OutboxKeyInv'
  <2>1. OutboxEvent(t).id = outboxId[t]
    BY DEF OutboxEvent
  <2>2. \A r \in outbox : r.id # OutboxEvent(t).id
    BY <2>1 DEF OutboxIdInv, CommitRows
  <2> QED
    BY <2>2 DEF TableInv, OutboxKeyInv, CommitRows
<1>3. EventOfWriteInv'
  BY DEF TableInv, RepositoryTypeOK, Request, OutboxRow, Active, RequestInv,
         WrittenInv, EventOfWriteInv, CommitRows, OutboxEvent, WrittenItem,
         NewVersion, Creating
<1>4. WriteHasEventInv'
  <2> SUFFICES ASSUME NEW i \in Item, items'[i].status # "absent",
                      NEW n \in 0 .. items'[i].version
               PROVE  \E r \in outbox' : r.item = i /\ r.version = n
    BY DEF WriteHasEventInv
  <2>1. CASE i # request[t].item \/ n # NewVersion(t)
    <3>1. items[i].status # "absent" /\ n \in 0 .. items[i].version
      BY <2>1
         DEF Request, RequestInv, Active, WrittenInv, CommitRows, WrittenItem,
             NewVersion
    <3> QED
      BY <3>1 DEF TableInv, WriteHasEventInv, CommitRows
  <2>2. CASE i = request[t].item /\ n = NewVersion(t)
    <3>1. OutboxEvent(t).item = i /\ OutboxEvent(t).version = n
      BY <2>2 DEF OutboxEvent
    <3> QED
      BY <3>1 DEF CommitRows
  <2> QED
    BY <2>1, <2>2
<1>5. OneEventPerVersion'
  <2>1. \A r \in outbox : r.item = request[t].item => r.version # NewVersion(t)
    BY DEF Request, RequestInv, Active, Creating, WrittenInv, TableInv,
           EventOfWriteInv, CommitRows, NewVersion
  <2>2. OutboxEvent(t).item = request[t].item /\ OutboxEvent(t).version = NewVersion(t)
    BY DEF OutboxEvent
  <2> QED
    BY <2>1, <2>2 DEF TableInv, OneEventPerVersion, CommitRows
<1>6. IdsFollowVersions'
  BY DEF TableInv, IdsFollowVersions, RepositoryTypeOK, OutboxRow, Active,
         RequestInv, WrittenInv, OutboxIdInv, EventOfWriteInv, CommitRows,
         OutboxEvent, NewVersion, Creating
<1>7. DeleteIsLast'
  <2>1. \A r \in outbox : r.item = request[t].item => r.type # "ItemDeleted"
    BY DEF RequestInv, Active, Creating, WrittenInv, TableInv, DeleteIsLast, CommitRows
  <2>2. OutboxEvent(t).type = "ItemDeleted" => request[t].op = "delete"
    BY DEF RequestInv, Active, Request, Op, CommitRows, OutboxEvent, EventTypeOf
  <2> QED
    BY <2>1, <2>2
       DEF RepositoryTypeOK, RequestInv, Active, Request, TableInv, DeleteIsLast,
           CommitRows, OutboxEvent, WrittenItem
<1> QED
  BY <1>1, <1>2, <1>3, <1>4, <1>5, <1>6, <1>7 DEF TableInv

LEMMA CommitPreserves ==
    ASSUME ObservedVersions, RepositoryInv, NEW t \in Tx, Commit(t)
    PROVE  RepositoryInv'
<1> USE DEF RepositoryInv, TxInv
<1>1. RepositoryTypeOK'
  <2>1. NewVersion(t) \in Nat /\ request[t] \in Request
    BY DEF RepositoryTypeOK, RequestInv, Active, Commit, CommitRows, NewVersion
  <2>2. items' \in [Item -> ItemRow]
    BY <2>1 DEF RepositoryTypeOK, Commit, CommitRows, WrittenItem, ItemRow
  <2>3. OutboxEvent(t) \in OutboxRow
    BY <2>1
       DEF WrittenInv, Commit, CommitRows, OutboxEvent, OutboxRow, EventType,
           EventTypeOf, Request, Op
  <2>4. pc' \in [Tx -> {"idle", "begun", "selected", "conflict", "written", "done"}]
    BY DEF RepositoryTypeOK, Commit, CommitRows, Finish
  <2>5. reply' \in [Tx -> [result : Result \cup {"none"}, version : Nat]]
    BY <2>1 DEF RepositoryTypeOK, Commit, CommitRows, Finish, Reply, Result
  <2> QED
    BY <2>2, <2>3, <2>4, <2>5 DEF RepositoryTypeOK, Commit, CommitRows
<1>2. RequestInv'
  <2> SUFFICES ASSUME NEW u \in Tx, Active(u)
               PROVE  /\ request[u] \in Request
                      /\ request[u].op # "create" =>
                            request[u].version <= items'[request[u].item].version
                      /\ Creating(u)' => items'[request[u].item].status = "absent"
    BY DEF RequestInv, Active, Commit, CommitRows, Finish
  <2>1. request[u] \in Request /\ request[t] \in Request
    BY DEF RequestInv, Active, Commit, CommitRows
  <2>2. items[request[u].item].version <= items'[request[u].item].version
    BY <2>1
       DEF RepositoryTypeOK, ItemRow, Request, RequestInv, Active, Creating,
           WrittenInv, TableInv, AbsentInv, Commit, CommitRows, WrittenItem,
           NewVersion
  <2>3. request[u].op # "create" => request[u].version <= items'[request[u].item].version
    BY <2>1, <2>2
       DEF RepositoryTypeOK, ItemRow, Request, RequestInv, Commit, CommitRows,
           WrittenItem, NewVersion
  <2>4. ASSUME Creating(u)' PROVE items'[request[u].item].status = "absent"
    <3>1. u # t /\ Creating(u)
      BY <2>4 DEF RepositoryTypeOK, Creating, Commit, CommitRows, Finish
    <3>2. request[u].item # request[t].item
      BY <3>1 DEF Creating, RequestInv, FreshInv, WrittenInv, Commit, CommitRows
    <3> QED
      BY <3>1, <3>2, <2>1 DEF RequestInv, Commit, CommitRows
  <2> QED
    BY <2>1, <2>3, <2>4
<1>3. SelectedInv'
  BY DEF Active, RequestInv, SelectedInv, RepositoryTypeOK, WrittenInv, WrittenItem,
         NewVersion, Creating, Commit, CommitRows, Finish
<1>4. ConflictInv'
  BY DEF Active, RequestInv, SelectedInv, ConflictInv, VisibleVersion, Request,
         WrittenInv, WrittenItem, NewVersion, Creating, Commit, CommitRows, Finish
<1>5. WrittenInv'
  BY DEF WrittenInv, RepositoryTypeOK, LockInv, Commit, CommitRows, Finish
<1>6. LockInv'
  BY DEF LockInv, Commit, CommitRows, Finish
<1>7. FreshInv'
  BY DEF Active, Creating, FreshInv, Commit, CommitRows, Finish
<1>8. OutboxIdInv'
  BY DEF WrittenInv, OutboxIdInv, RepositoryTypeOK, OutboxEvent, LockInv, Commit,
         CommitRows, Finish
<1>9. RepliesAreHonest'
  BY DEF RepliesAreHonest, RepositoryTypeOK, WrittenInv, NewVersion, Commit,
         CommitRows, Finish, Reply
<1>10. TableInv'
  BY CommittedRows DEF Commit
<1> QED
  BY <1>1, <1>2, <1>3, <1>4, <1>5, <1>6, <1>7, <1>8, <1>9, <1>10

LEMMA CommitUnacknowledgedPreserves ==
    ASSUME ObservedVersions, RepositoryInv, NEW t \in Tx, CommitUnacknowledged(t)
    PROVE  RepositoryInv'
<1> USE DEF RepositoryInv, TxInv
<1> DEFINE old == request[t].item
           new == request'[t].item
<1>1. pc[t] = "written" /\ CommitRows(t) /\ UNCHANGED <<venues, nextOutboxId>>
  BY DEF CommitUnacknowledged
<1>2. request[t] \in Request /\ NewVersion(t) \in Nat
  BY <1>1 DEF RepositoryTypeOK, RequestInv, Active, NewVersion
<1>3. \A u \in Tx \ {t} : /\ pc'[u] = pc[u] /\ request'[u] = request[u]
                          /\ existing'[u] = existing[u] /\ outboxId'[u] = outboxId[u]
                          /\ reply'[u] = reply[u]
  BY DEF CommitUnacknowledged, RunAgain, Finish, RepositoryTypeOK
<1>4. \/ /\ pc' = [pc EXCEPT ![t] = "begun"] /\ UNCHANGED reply
         /\ \E i \in Item : request' = [request EXCEPT ![t].item = i]
         /\ request[t].op = "create" => FreshItem(new)
         /\ request[t].op # "create" => new = old
         /\ existing' = [existing EXCEPT ![t] = 0]
         /\ outboxId' = [outboxId EXCEPT ![t] = 0]
      \/ /\ pc' = [pc EXCEPT ![t] = "done"]
         /\ reply' = [reply EXCEPT ![t] = Reply("error", 0)]
         /\ UNCHANGED <<request, existing, outboxId>>
  <2>1. CASE RunAgain(t)
    <3>1. PICK i \in Item :
             /\ IF request[t].op = "create"
                  THEN FreshItem(i) /\ ItemVenue[i] = request[t].venue
                  ELSE i = request[t].item
             /\ request' = [request EXCEPT ![t].item = i]
      BY <2>1 DEF RunAgain
    <3>2. new = i
      BY <3>1, <1>2 DEF RepositoryTypeOK, Request
    <3> QED
      BY <2>1, <3>1, <3>2 DEF RunAgain
  <2>2. CASE Finish(t, "error", 0) /\ UNCHANGED <<request, existing, outboxId>>
    BY <2>2 DEF Finish
  <2> QED
    BY <2>1, <2>2 DEF CommitUnacknowledged
<1>5. /\ request'[t] \in Request /\ pc'[t] \in {"begun", "done"}
      /\ request'[t].op = request[t].op /\ request'[t].version = request[t].version
  BY <1>2, <1>4 DEF RepositoryTypeOK, Request
<1>6. items' \in [Item -> ItemRow] /\ OutboxEvent(t) \in OutboxRow
  BY <1>1, <1>2
     DEF RepositoryTypeOK, CommitRows, WrittenItem, ItemRow, WrittenInv, OutboxEvent,
         OutboxRow, EventType, EventTypeOf, Request, Op
<1>7. /\ items'[old] = WrittenItem(t)
      /\ \A i \in Item \ {old} : items'[i] = items[i]
  BY <1>1, <1>2 DEF RepositoryTypeOK, CommitRows, Request
<1>8. \A i \in Item : items[i].version <= items'[i].version
  BY <1>1, <1>2, <1>7
     DEF RepositoryTypeOK, ItemRow, Request, RequestInv, Active, Creating, WrittenInv,
         TableInv, AbsentInv, WrittenItem, NewVersion
<1>9. RepositoryTypeOK'
  <2>1. request' \in [Tx -> Request \cup {NoRequest}]
    BY <1>4, <1>5 DEF RepositoryTypeOK
  <2>2. pc' \in [Tx -> {"idle", "begun", "selected", "conflict", "written", "done"}]
    BY <1>4 DEF RepositoryTypeOK
  <2>3. reply' \in [Tx -> [result : Result \cup {"none"}, version : Nat]]
    BY <1>4 DEF RepositoryTypeOK, Reply, Result
  <2>4. existing' \in [Tx -> Nat] /\ outboxId' \in [Tx -> Nat]
    <3>1. CASE UNCHANGED <<existing, outboxId>>
      BY <3>1 DEF RepositoryTypeOK
    <3>2. CASE /\ existing' = [existing EXCEPT ![t] = 0]
               /\ outboxId' = [outboxId EXCEPT ![t] = 0]
      BY <3>2 DEF RepositoryTypeOK
    <3> QED
      BY <1>4, <3>1, <3>2
  <2> QED
    BY <1>1, <1>6, <2>1, <2>2, <2>3, <2>4 DEF RepositoryTypeOK, CommitRows
<1>10. RequestInv'
  <2> SUFFICES ASSUME NEW u \in Tx, Active(u)'
               PROVE  /\ request'[u] \in Request
                      /\ request'[u].op # "create" =>
                            request'[u].version <= items'[request'[u].item].version
                      /\ Creating(u)' => items'[request'[u].item].status = "absent"
    BY DEF RequestInv
  <2>1. CASE u = t
    <3>1. request[t].op # "create" => new = old
      BY <1>4
    <3>2. request[t].op # "create" => request[t].version <= items[old].version
      BY <1>1 DEF RequestInv, Active
    <3>3. request[t].op # "create" => request'[t].version <= items'[new].version
      BY <1>2, <1>5, <1>6, <1>8, <3>1, <3>2 DEF RepositoryTypeOK, ItemRow, Request
    <3>4. ASSUME Creating(t)' PROVE items'[new].status = "absent"
      <4>1. FreshItem(new)
        BY <1>4, <1>5, <3>4 DEF Creating, RepositoryTypeOK
      <4>2. new \in Item \ {old}
        BY <1>1, <1>5, <4>1 DEF FreshItem, Request
      <4> QED
        BY <1>7, <4>1, <4>2 DEF FreshItem
    <3> QED
      BY <1>5, <2>1, <3>3, <3>4
  <2>2. CASE u # t
    <3>1. Active(u) /\ request'[u] = request[u] /\ request[u] \in Request
      BY <1>3, <2>2 DEF Active, RequestInv
    <3>2. request[u].op # "create" => request[u].version <= items'[request[u].item].version
      BY <1>6, <1>8, <3>1 DEF RepositoryTypeOK, RequestInv, ItemRow, Request
    <3>3. ASSUME Creating(u)' PROVE items'[request[u].item].status = "absent"
      <4>1. Creating(u)
        BY <1>3, <2>2, <3>3 DEF Creating
      <4>2. request[u].item # old
        BY <1>1, <2>2, <3>1, <4>1 DEF Creating, RequestInv, FreshInv, WrittenInv, Active
      <4> QED
        BY <1>7, <3>1, <4>1, <4>2 DEF RequestInv, Request
    <3> QED
      BY <3>1, <3>2, <3>3
  <2> QED
    BY <2>1, <2>2
<1>11. SelectedInv'
  <2> SUFFICES ASSUME NEW u \in Tx, pc'[u] \in {"selected", "conflict"}
               PROVE  /\ request'[u].op # "create"
                      /\ items'[request'[u].item].status # "absent"
                      /\ request'[u].version <= existing'[u]
                      /\ existing'[u] <= items'[request'[u].item].version
                      /\ existing'[u] = items'[request'[u].item].version =>
                            items'[request'[u].item].status = "live"
    BY DEF SelectedInv
  <2>1. /\ u # t /\ pc[u] \in {"selected", "conflict"}
        /\ request'[u] = request[u] /\ existing'[u] = existing[u]
    BY <1>3, <1>5
  <2>2. request[u] \in Request /\ request[u].item \in Item
    BY <2>1 DEF RequestInv, Active, Request
  <2>3. CASE request[u].item # old
    BY <1>7, <2>1, <2>2, <2>3 DEF SelectedInv
  <2>4. CASE request[u].item = old
    <3>1. items[old].status # "absent" /\ existing[u] <= items[old].version
      BY <2>1, <2>4 DEF SelectedInv
    <3>2. request[t].op # "create" /\ existing[t] = items[old].version
      BY <1>1, <3>1 DEF WrittenInv, RequestInv, Creating, Active
    <3>3. items'[old].version = items[old].version + 1 /\ items'[old].status # "absent"
      BY <1>7, <3>2 DEF WrittenItem, NewVersion
    <3> QED
      BY <1>2, <2>1, <2>4, <3>1, <3>3
         DEF SelectedInv, RepositoryTypeOK, ItemRow, Request
  <2> QED
    BY <2>3, <2>4
<1>12. ConflictInv'
  <2> SUFFICES ASSUME NEW u \in Tx, pc'[u] = "conflict"
               PROVE  request'[u].version < VisibleVersion(u)'
    BY DEF ConflictInv
  <2>1. u # t /\ pc[u] = "conflict" /\ request'[u] = request[u] /\ existing'[u] = existing[u]
    BY <1>3, <1>5
  <2>2. request[u].version < VisibleVersion(u) /\ request[u] \in Request
    BY <2>1 DEF ConflictInv, RequestInv, Active
  <2> QED
    BY <1>6, <1>8, <2>1, <2>2 DEF VisibleVersion, RepositoryTypeOK, ItemRow, Request
<1>13. WrittenInv'
  BY <1>1, <1>3, <1>5, <1>7
     DEF WrittenInv, RepositoryTypeOK, LockInv, RequestInv, Active, Request
<1>14. LockInv'
  BY <1>3, <1>5 DEF LockInv
<1>15. FreshInv'
  <2>1. ASSUME NEW u \in Tx \ {t}, Creating(u)', request[t].op = "create"
        PROVE  request'[u].item # new
    <3>1. Creating(u) /\ request'[u] = request[u] /\ Active(u)
      BY <1>3, <2>1 DEF Creating, Active
    <3>2. request[u].item # old
      BY <1>1, <2>1, <3>1 DEF FreshInv, Active
    <3>3. FreshItem(new) \/ new = old
      BY <1>4, <2>1
    <3> QED
      BY <3>1, <3>2, <3>3 DEF FreshItem, Active
  <2>2. ASSUME NEW u \in Tx \ {t}, Creating(t)', Active(u)'
        PROVE  request'[u].item # new
    <3>1. FreshItem(new)
      BY <1>4, <1>5, <2>2 DEF Creating, RepositoryTypeOK
    <3> QED
      BY <1>3, <2>2, <3>1 DEF FreshItem, Active
  <2>3. ASSUME NEW u \in Tx \ {t}, NEW w \in Tx \ {t}, u # w,
               Creating(u)', Active(w)', request'[w].op = "create"
        PROVE  request'[u].item # request'[w].item
    BY <1>3, <2>3 DEF FreshInv, Creating, Active
  <2> QED
    BY <1>5, <2>1, <2>2, <2>3 DEF FreshInv
<1>16. OutboxIdInv'
  BY <1>1, <1>3, <1>5
     DEF WrittenInv, OutboxIdInv, RepositoryTypeOK, OutboxEvent, LockInv, CommitRows
<1>17. RepliesAreHonest'
  BY <1>1, <1>3, <1>4 DEF RepliesAreHonest, RepositoryTypeOK, Reply
<1>18. TableInv'
  BY <1>1, CommittedRows
<1> QED
  BY <1>9, <1>10, <1>11, <1>12, <1>13, <1>14, <1>15, <1>16, <1>17, <1>18

LEMMA RollbackPreserves ==
    ASSUME ObservedVersions, RepositoryInv, NEW t \in Tx, Rollback(t)
    PROVE  RepositoryInv'
<1> USE DEF RepositoryInv, TxInv
<1>1. RepositoryTypeOK'
  <2>1. pc' \in [Tx -> {"idle", "begun", "selected", "conflict", "written", "done"}]
    BY DEF RepositoryTypeOK, Rollback, Finish
  <2>2. reply' \in [Tx -> [result : Result \cup {"none"}, version : Nat]]
    BY DEF RepositoryTypeOK, Rollback, Finish, Reply, Result
  <2> QED
    BY <2>1, <2>2 DEF RepositoryTypeOK, Rollback
<1>2. RequestInv'
  <2>1. \A u \in Tx : Active(u)' => Active(u)
    BY DEF RepositoryTypeOK, Active, Rollback, Finish
  <2>2. \A u \in Tx : Creating(u)' => Creating(u)
    BY DEF RepositoryTypeOK, SelectedInv, Creating, Rollback, Finish
  <2> QED
    BY <2>1, <2>2 DEF RequestInv, Rollback
<1>3. SelectedInv'
  BY DEF SelectedInv, RepositoryTypeOK, Rollback, Finish
<1>4. ConflictInv'
  BY DEF ConflictInv, VisibleVersion, RepositoryTypeOK, Rollback, Finish
<1>5. WrittenInv'
  BY DEF WrittenInv, RepositoryTypeOK, Rollback, Finish
<1>6. LockInv'
  BY DEF LockInv, RepositoryTypeOK, Rollback, Finish
<1>7. FreshInv'
  <2>1. \A u \in Tx : Active(u)' => Active(u)
    BY DEF RepositoryTypeOK, Active, Rollback, Finish
  <2>2. \A u \in Tx : Creating(u)' => Creating(u)
    BY DEF RepositoryTypeOK, SelectedInv, Creating, Rollback, Finish
  <2> QED
    BY <2>1, <2>2 DEF FreshInv, Rollback
<1>8. OutboxIdInv'
  BY DEF OutboxIdInv, RepositoryTypeOK, Rollback, Finish
<1>9. RepliesAreHonest'
  BY DEF RepliesAreHonest, RepositoryTypeOK, Rollback, Finish, Reply
<1>10. TableInv'
  BY DEF TableInv, AbsentInv, OutboxKeyInv, EventOfWriteInv, WriteHasEventInv,
         OneEventPerVersion, IdsFollowVersions, DeleteIsLast, Rollback
<1> QED
  BY <1>1, <1>2, <1>3, <1>4, <1>5, <1>6, <1>7, <1>8, <1>9, <1>10

LEMMA RespondPreserves ==
    ASSUME ObservedVersions, RepositoryInv, NEW t \in Tx, Respond(t)
    PROVE  RepositoryInv'
<1> USE DEF RepositoryInv, TxInv
<1>1. RepositoryTypeOK'
  BY DEF RepositoryTypeOK, NoReply, Respond
<1>2. RequestInv'
  BY DEF Active, Creating, RequestInv, RepositoryTypeOK, Respond
<1>3. SelectedInv'
  BY DEF SelectedInv, Respond
<1>4. ConflictInv'
  BY DEF ConflictInv, VisibleVersion, Respond
<1>5. WrittenInv'
  BY DEF WrittenInv, Respond
<1>6. LockInv'
  BY DEF LockInv, Respond
<1>7. FreshInv'
  BY DEF Active, Creating, FreshInv, RepositoryTypeOK, Respond
<1>8. OutboxIdInv'
  BY DEF OutboxIdInv, Respond
<1>9. RepliesAreHonest'
  BY DEF RepliesAreHonest, RepositoryTypeOK, Respond
<1>10. TableInv'
  BY DEF TableInv, AbsentInv, OutboxKeyInv, EventOfWriteInv, WriteHasEventInv,
         OneEventPerVersion, IdsFollowVersions, DeleteIsLast, Respond
<1> QED
  BY <1>1, <1>2, <1>3, <1>4, <1>5, <1>6, <1>7, <1>8, <1>9, <1>10

-----------------------------------------------------------------------------
LEMMA InitInv == RepositoryInit => RepositoryInv
  BY RepositoryAssumption
     DEF RepositoryInit, RepositoryInv, RepositoryTypeOK, TxInv, RequestInv,
         SelectedInv, ConflictInv, WrittenInv, LockInv, FreshInv, OutboxIdInv,
         TableInv, AbsentInv, OutboxKeyInv, EventOfWriteInv, WriteHasEventInv,
         OneEventPerVersion, IdsFollowVersions, DeleteIsLast, RepliesAreHonest,
         Active, ItemRow, NoReply

LEMMA StutterInv == RepositoryInv /\ UNCHANGED vars => RepositoryInv'
  BY DEF vars, txVars, RepositoryInv, RepositoryTypeOK, TxInv, RequestInv,
         SelectedInv, ConflictInv, WrittenInv, LockInv, FreshInv, OutboxIdInv,
         TableInv, AbsentInv, OutboxKeyInv, EventOfWriteInv, WriteHasEventInv,
         OneEventPerVersion, IdsFollowVersions, DeleteIsLast, RepliesAreHonest,
         Active, Creating, VisibleVersion

LEMMA NextInv ==
    ASSUME ObservedVersions, RepositoryInv, [RepositoryNext]_vars
    PROVE  RepositoryInv'
<1>1. ASSUME NEW v \in Venue, CreateVenue(v) PROVE RepositoryInv'
  BY <1>1, CreateVenuePreserves
<1>2. ASSUME NEW t \in Tx, NEW r \in LegalRequests, Begin(t, r) PROVE RepositoryInv'
  BY <1>2, BeginPreserves
<1>3. ASSUME NEW t \in Tx, TxStep(t) PROVE RepositoryInv'
  BY <1>3, CreatePreserves, SelectExistingPreserves, ConditionalUpdatePreserves,
         CurrentItemResponsePreserves, CommitPreserves,
         CommitUnacknowledgedPreserves, RollbackPreserves, RespondPreserves DEF TxStep
<1>4. CASE UNCHANGED vars
  BY <1>4, StutterInv
<1> QED
  BY <1>1, <1>2, <1>3, <1>4 DEF RepositoryNext

(* The repository's invariant, for every number of items, requests and     *)
(* versions and under either isolation level.                              *)
THEOREM Invariance ==
    ASSUME ObservedVersions
    PROVE  RepositorySpec => []RepositoryInv
<1>1. RepositoryInv /\ [RepositoryNext]_vars => RepositoryInv'
  BY NextInv
<1> QED
  BY <1>1, InitInv, PTL DEF RepositorySpec

(* The tables and the transactions only ever hold well-formed rows.        *)
THEOREM TypeCorrect ==
    ASSUME ObservedVersions
    PROVE  RepositorySpec => []RepositoryTypeOK
<1>1. RepositoryInv => RepositoryTypeOK
  BY DEF RepositoryInv
<1> QED
  BY <1>1, Invariance, PTL

(* The outbox holds exactly one event for each version an item has gone    *)
(* through, and none for a write that was not committed.                   *)
THEOREM OutboxIsFaithful ==
    ASSUME ObservedVersions
    PROVE  RepositorySpec => [](OutboxMatchesItems /\ OneEventPerVersion)
<1>1. RepositoryInv => OutboxMatchesItems /\ OneEventPerVersion
  <2> SUFFICES ASSUME RepositoryInv PROVE OutboxMatchesItems
    BY DEF RepositoryInv, TableInv
  <2> USE DEF RepositoryInv, RepositoryTypeOK, TableInv
  <2> SUFFICES ASSUME NEW i \in Item
               PROVE  {r.version : r \in {s \in outbox : s.item = i}} =
                        IF items[i].status = "absent" THEN {} ELSE 0 .. items[i].version
    BY DEF OutboxMatchesItems
  <2> DEFINE versions == {r.version : r \in {s \in outbox : s.item = i}}
  <2>1. CASE items[i].status = "absent"
    BY <2>1 DEF EventOfWriteInv
  <2>2. CASE items[i].status # "absent"
    <3>1. versions \subseteq 0 .. items[i].version
      BY DEF EventOfWriteInv, OutboxRow
    <3>2. 0 .. items[i].version \subseteq versions
      BY <2>2 DEF WriteHasEventInv
    <3> QED
      BY <2>2, <3>1, <3>2
  <2> QED
    BY <2>1, <2>2
<1> QED
  BY <1>1, Invariance, PTL

(* For one item the relay's order, by outbox id, is the order of versions, *)
(* and nothing follows the event of a delete.                              *)
THEOREM EventsAreOrdered ==
    ASSUME ObservedVersions
    PROVE  RepositorySpec => [](IdsFollowVersions /\ DeleteIsLast)
<1>1. RepositoryInv => IdsFollowVersions /\ DeleteIsLast
  BY DEF RepositoryInv, TableInv
<1> QED
  BY <1>1, Invariance, PTL

(* No lost update: a success replaced the version the client had seen, a   *)
(* conflict shows it a newer one.                                          *)
THEOREM NoLostUpdate ==
    ASSUME ObservedVersions
    PROVE  RepositorySpec => []RepliesAreHonest
<1>1. RepositoryInv => RepliesAreHonest
  BY DEF RepositoryInv
<1> QED
  BY <1>1, Invariance, PTL

(* Versions grow by one at a time and a deleted item never comes back.     *)
THEOREM HistoryIsLinear ==
    ASSUME ObservedVersions
    PROVE  RepositorySpec => ItemHistoryProperty
<1>1. ASSUME RepositoryInv, [RepositoryNext]_vars PROVE ItemHistory
  <2>1. ASSUME NEW t \in Tx, pc[t] = "written", CommitRows(t) PROVE ItemHistory
    <3> DEFINE row == items[request[t].item]
    <3>1. pc[t] = "written" /\ request[t] \in Request
      BY <1>1, <2>1 DEF RepositoryInv, TxInv, RequestInv, Active
    <3>2. /\ items'[request[t].item] = WrittenItem(t)
          /\ \A i \in Item \ {request[t].item} : items'[i] = items[i]
      BY <1>1, <2>1, <3>1 DEF RepositoryInv, RepositoryTypeOK, Request, CommitRows
    <3>3. CASE request[t].op = "create"
      <4>1. row.status = "absent" /\ row.version = 0
        BY <1>1, <3>1, <3>3
           DEF RepositoryInv, TxInv, RequestInv, Active, Creating, TableInv,
               AbsentInv, Request
      <4>2. WrittenItem(t).version = 0
        BY <3>3 DEF WrittenItem, NewVersion
      <4> QED
        BY <3>1, <3>2, <4>1, <4>2 DEF ItemHistory
    <3>4. CASE request[t].op # "create"
      <4>1. row.status = "live" /\ row.version = existing[t] /\ existing[t] \in Nat
        BY <1>1, <3>1, <3>4 DEF RepositoryInv, RepositoryTypeOK, TxInv, WrittenInv
      <4>2. WrittenItem(t).version = existing[t] + 1
        BY <3>4 DEF WrittenItem, NewVersion
      <4> QED
        BY <3>1, <3>2, <4>1, <4>2 DEF ItemHistory
    <3> QED
      BY <3>3, <3>4
  <2>2. CASE UNCHANGED items
    BY <2>2 DEF ItemHistory
  <2>3. ASSUME NEW t \in Tx, TxStep(t)
        PROVE  (pc[t] = "written" /\ CommitRows(t)) \/ UNCHANGED items
    BY <2>3
       DEF TxStep, Commit, CommitUnacknowledged, Create, SelectExisting,
           ConditionalUpdate, CurrentItemResponse, Rollback, Respond
  <2> QED
    BY <1>1, <2>1, <2>2, <2>3 DEF RepositoryNext, CreateVenue, Begin, vars
<1> QED
  BY <1>1, Invariance, PTL DEF RepositorySpec, ItemHistoryProperty

-----------------------------------------------------------------------------
(* Repository and relay on one outbox.                                     *)

(* The repository knows nothing of the relay: what it needs of the outbox  *)
(* is in the columns that the relay never writes.                          *)
SameEvent(q, r) ==
    q.id = r.id /\ q.item = r.item /\ q.version = r.version /\ q.type = r.type

LogInv ==
    /\ topic \in Seq(MenuEvent)
    /\ \A k \in DOMAIN topic : \E r \in outbox : topic[k] = Event(r)

ServiceInv == RepositoryInv /\ LogInv

-----------------------------------------------------------------------------
(* The repository's steps leave the outbox alone or add one row to it, an  *)
(* event that nobody has claimed and the last one of its item.             *)
AddsRow(n) ==
    /\ n \in OutboxRow /\ outbox' = outbox \cup {n}
    /\ n.claim = "none" /\ ~n.published
    /\ \A r \in outbox : r.id # n.id /\ (r.item = n.item => r.id < n.id)

LEMMA RepositoryGrowsOutbox ==
    ASSUME ObservedVersions, RepositoryInv, RepositoryNext
    PROVE  outbox' = outbox \/ \E n \in OutboxRow : AddsRow(n)
<1>1. ASSUME NEW t \in Tx, pc[t] = "written", CommitRows(t)
      PROVE  AddsRow(OutboxEvent(t)) /\ OutboxEvent(t) \in OutboxRow
  <2>1. /\ request[t] \in Request /\ NewVersion(t) \in Nat
        /\ outboxId[t] \in Nat \ {0}
    BY <1>1 DEF RepositoryInv, TxInv, RepositoryTypeOK, RequestInv, WrittenInv, Active,
                NewVersion
  <2>2. EventTypeOf(request[t].op) \in EventType
    BY <2>1 DEF Request, Op, EventTypeOf, EventType
  <2>3. OutboxEvent(t) \in OutboxRow
    BY <2>1, <2>2 DEF OutboxEvent, OutboxRow, Request
  <2>4. \A r \in outbox : r.id # outboxId[t] /\ (r.item = request[t].item => r.id < outboxId[t])
    BY <1>1 DEF RepositoryInv, TxInv, OutboxIdInv
  <2> QED
    BY <1>1, <2>3, <2>4 DEF AddsRow, CommitRows, OutboxEvent
<1>2. ASSUME NEW v \in Venue, CreateVenue(v) PROVE outbox' = outbox
  BY <1>2 DEF CreateVenue
<1>3. ASSUME NEW t \in Tx, NEW r, Begin(t, r) PROVE outbox' = outbox
  BY <1>3 DEF Begin
<1>4. ASSUME NEW t \in Tx, TxStep(t), ~(pc[t] = "written" /\ CommitRows(t))
      PROVE  outbox' = outbox
  BY <1>4 DEF TxStep, Create, SelectExisting, ConditionalUpdate, CurrentItemResponse, Commit,
              CommitUnacknowledged, Rollback, Respond
<1> QED
  BY <1>1, <1>2, <1>3, <1>4 DEF RepositoryNext

(* What a step of the relay does to the outbox: rows are kept, at most one *)
(* with another claim or published.                                        *)
LEMMA RelayKeepsEvents ==
    ASSUME RepositoryInv, RelayNext
    PROVE  /\ outbox' \subseteq OutboxRow
           /\ \A q \in outbox' : \E r \in outbox : SameEvent(q, r)
           /\ \A r \in outbox : \E q \in outbox' : SameEvent(q, r)
           /\ OutboxKeyInv'
<1>1. outbox \subseteq OutboxRow /\ OutboxKeyInv
  BY DEF RepositoryInv, RepositoryTypeOK, TableInv
<1>2. outbox' = outbox \/ \E r \in outbox : \/ SetRow(r, [r EXCEPT !.claim = "held"])
                                            \/ SetRow(r, [r EXCEPT !.claim = "stale"])
                                            \/ SetRow(r, [r EXCEPT !.published = TRUE])
  BY DEF RelayNext, LeaseExpires, LeaseOverrun, Abort, RelayStep, SendTimesOut,
         LockNextRow, CommitClaim, SendAcked, MarkPublished
<1>3. CASE outbox' = outbox
  BY <1>1, <1>3 DEF SameEvent, OutboxKeyInv
<1>4. ASSUME NEW r \in outbox, NEW s \in OutboxRow, SameEvent(s, r),
             outbox' = (outbox \ {r}) \cup {s}
      PROVE  /\ outbox' \subseteq OutboxRow
             /\ \A q \in outbox' : \E o \in outbox : SameEvent(q, o)
             /\ \A o \in outbox : \E q \in outbox' : SameEvent(q, o)
             /\ OutboxKeyInv'
  BY <1>1, <1>4 DEF SameEvent, OutboxKeyInv
<1>5. ASSUME NEW r \in outbox
      PROVE  /\ [r EXCEPT !.claim = "held"] \in OutboxRow
             /\ SameEvent([r EXCEPT !.claim = "held"], r)
             /\ [r EXCEPT !.claim = "stale"] \in OutboxRow
             /\ SameEvent([r EXCEPT !.claim = "stale"], r)
             /\ [r EXCEPT !.published = TRUE] \in OutboxRow
             /\ SameEvent([r EXCEPT !.published = TRUE], r)
  BY <1>1, <1>5 DEF OutboxRow, SameEvent
<1> QED
  BY <1>2, <1>3, <1>4, <1>5 DEF SetRow

(* So the relay disturbs nothing of the repository.                        *)
LEMMA RelayKeepsRepositoryInv ==
    ASSUME RepositoryInv, RelayNext, UNCHANGED repositoryOwn
    PROVE  RepositoryInv'
<1>1. /\ outbox' \subseteq OutboxRow
      /\ \A q \in outbox' : \E r \in outbox : SameEvent(q, r)
      /\ \A r \in outbox : \E q \in outbox' : SameEvent(q, r)
      /\ OutboxKeyInv'
  BY RelayKeepsEvents
<1>2. /\ venues' = venues /\ items' = items /\ nextOutboxId' = nextOutboxId
      /\ pc' = pc /\ request' = request /\ existing' = existing
      /\ outboxId' = outboxId /\ reply' = reply
  BY DEF repositoryOwn, txVars
<1>3. RepositoryTypeOK'
  BY <1>1, <1>2 DEF RepositoryInv, RepositoryTypeOK
<1>4. RequestInv' /\ SelectedInv' /\ ConflictInv' /\ WrittenInv' /\ LockInv' /\ FreshInv'
  BY <1>2 DEF RepositoryInv, TxInv, RequestInv, SelectedInv, ConflictInv, WrittenInv,
              LockInv, FreshInv, Active, Creating, VisibleVersion
<1>5. OutboxIdInv'
  BY <1>1, <1>2 DEF RepositoryInv, TxInv, OutboxIdInv, SameEvent
<1>6. AbsentInv' /\ EventOfWriteInv' /\ WriteHasEventInv'
  BY <1>1, <1>2 DEF RepositoryInv, TableInv, AbsentInv, EventOfWriteInv, WriteHasEventInv,
                    SameEvent
<1>7. OneEventPerVersion'
  <2> SUFFICES ASSUME NEW q \in outbox', NEW r \in outbox', q.item = r.item,
                      q.version = r.version
               PROVE  q = r
    BY DEF OneEventPerVersion
  <2>1. PICK o \in outbox : SameEvent(q, o)
    BY <1>1
  <2>2. PICK u \in outbox : SameEvent(r, u)
    BY <1>1
  <2>3. o = u
    BY <2>1, <2>2 DEF RepositoryInv, TableInv, OneEventPerVersion, SameEvent
  <2> QED
    BY <1>1, <2>1, <2>2, <2>3 DEF SameEvent, OutboxKeyInv
<1>8. IdsFollowVersions' /\ DeleteIsLast'
  BY <1>1, <1>2 DEF RepositoryInv, TableInv, IdsFollowVersions, DeleteIsLast, SameEvent
<1>9. RepliesAreHonest'
  BY <1>2 DEF RepositoryInv, RepliesAreHonest
<1> QED
  BY <1>1, <1>3, <1>4, <1>5, <1>6, <1>7, <1>8, <1>9 DEF RepositoryInv, TxInv, TableInv

-----------------------------------------------------------------------------
(* A step of the relay leaves the topic alone or appends a row's event.    *)
LEMMA RelayTopic ==
    ASSUME RelayNext
    PROVE  topic' = topic \/ \E r \in outbox : topic' = Append(topic, Event(r))
BY DEF RelayNext, LeaseExpires, LeaseOverrun, Abort, RelayStep, SendTimesOut,
       LockNextRow, CommitClaim, SendAcked, MarkPublished

(* What a send does to the topic.                                          *)
LEMMA AppendedEvent ==
    ASSUME topic \in Seq(MenuEvent), NEW r \in OutboxRow,
           topic' = Append(topic, Event(r))
    PROVE  /\ topic' \in Seq(MenuEvent)
           /\ Len(topic) \in Nat
           /\ DOMAIN topic = 1 .. Len(topic)
           /\ DOMAIN topic' = 1 .. Len(topic) + 1
           /\ \A k \in 1 .. Len(topic) : topic'[k] = topic[k]
           /\ topic'[Len(topic) + 1] = Event(r)
<1>1. Event(r) \in MenuEvent
  BY DEF Event, MenuEvent, OutboxRow, EventType
<1> QED
  BY <1>1

LEMMA ServiceInitial == ASSUME ServiceInit PROVE ServiceInv
<1>1. RepositoryInv
  BY InitInv DEF ServiceInit
<1>2. topic = <<>> /\ <<>> \in Seq(MenuEvent)
  BY DEF ServiceInit, RelayInit
<1> QED
  BY <1>1, <1>2 DEF ServiceInv, LogInv

LEMMA ServiceStep ==
    ASSUME ObservedVersions, ServiceInv, [ServiceNext]_serviceVars
    PROVE  ServiceInv'
<1>1. CASE RepositoryNext /\ UNCHANGED relayOwn
  <2>1. RepositoryInv'
    BY <1>1, NextInv DEF ServiceInv
  <2>2. outbox \subseteq outbox'
    BY <1>1, RepositoryGrowsOutbox DEF ServiceInv, AddsRow
  <2>3. topic' = topic
    BY <1>1 DEF relayOwn
  <2> QED
    BY <2>1, <2>2, <2>3 DEF ServiceInv, LogInv
<1>2. CASE RelayNext /\ UNCHANGED repositoryOwn
  <2>1. RepositoryInv'
    BY <1>2, RelayKeepsRepositoryInv DEF ServiceInv
  <2>2. \A r \in outbox : \E q \in outbox' : Event(r) = Event(q)
    BY <1>2, RelayKeepsEvents DEF ServiceInv, SameEvent, Event
  <2>3. CASE topic' = topic
    BY <2>1, <2>2, <2>3 DEF ServiceInv, LogInv
  <2>4. ASSUME NEW r \in outbox, topic' = Append(topic, Event(r)) PROVE ServiceInv'
    <3>1. r \in OutboxRow
      BY DEF ServiceInv, RepositoryInv, RepositoryTypeOK
    <3>2. /\ topic' \in Seq(MenuEvent)
          /\ Len(topic) \in Nat
          /\ DOMAIN topic = 1 .. Len(topic)
          /\ DOMAIN topic' = 1 .. Len(topic) + 1
          /\ \A k \in 1 .. Len(topic) : topic'[k] = topic[k]
          /\ topic'[Len(topic) + 1] = Event(r)
      BY <2>4, <3>1, AppendedEvent DEF ServiceInv, LogInv
    <3>3. ASSUME NEW k \in DOMAIN topic' PROVE \E q \in outbox' : topic'[k] = Event(q)
      <4>1. CASE k = Len(topic) + 1
        BY <2>2, <3>2, <4>1
      <4>2. CASE k \in 1 .. Len(topic)
        BY <2>2, <3>2, <4>2 DEF ServiceInv, LogInv
      <4> QED
        BY <3>2, <4>1, <4>2
    <3> QED
      BY <2>1, <3>2, <3>3 DEF ServiceInv, LogInv
  <2> QED
    BY <1>2, <2>3, <2>4, RelayTopic
<1>3. CASE UNCHANGED serviceVars
  <2>1. RepositoryInv' /\ outbox' = outbox /\ topic' = topic
    BY <1>3, StutterInv DEF serviceVars, relayOwn, vars, ServiceInv
  <2> QED
    BY <2>1 DEF ServiceInv, LogInv
<1> QED
  BY <1>1, <1>2, <1>3 DEF ServiceNext

-----------------------------------------------------------------------------
(* Any number of relay instances, while requests commit rows.              *)
(* An instance without a row is idle.                                      *)
IdleInv == \A p \in Relay : relayPc[p] = "idle" <=> claimedRow[p] = 0

(* A row in hand is one of the outbox.                                     *)
ClaimedInv ==
    \A p \in Relay : relayPc[p] # "idle" => \E r \in outbox : r.id = claimedRow[p]

(* An instance only goes on to the mark when the topic has the event.      *)
AckedInv ==
    \A p \in Relay : relayPc[p] = "acked" =>
        \E k \in DOMAIN topic : topic[k].eventId = claimedRow[p]

(* The claim of a row that is being published stays held until its lease   *)
(* is overrun, so nobody finds the row claimable before.                   *)
HeldInv ==
    \A p \in Relay : relayPc[p] \in {"claimed", "acked"} =>
        \A r \in outbox : r.id = claimedRow[p] => r.claim = "held" \/ r.id \in overrun

RelayInv ==
    /\ RelayTypeOK
    /\ OutboxKeyInv
    /\ IdleInv
    /\ ClaimedInv
    /\ AckedInv
    /\ HeldInv
    /\ PublishedWasSent
    /\ OneClaimant

-----------------------------------------------------------------------------
(* What a step that replaces one row leaves true of all of them.           *)
LEMMA SetRowPreserves ==
    ASSUME RelayTypeOK, OutboxKeyInv, NEW r \in outbox, NEW s \in OutboxRow,
           s.id = r.id, SetRow(r, s)
    PROVE  /\ outbox' \subseteq OutboxRow
           /\ OutboxKeyInv'
           /\ s \in outbox'
           /\ \A q \in outbox' : q = s \/ (q \in outbox /\ q.id # r.id)
  BY DEF RelayTypeOK, OutboxKeyInv, SetRow, OutboxRow

(* A send adds one event to the topic and takes none away.                 *)
LEMMA AppendKeepsTopic ==
    ASSUME RelayTypeOK, NEW r \in outbox, topic' = Append(topic, Event(r))
    PROVE  /\ topic' \in Seq(MenuEvent)
           /\ \A id : (\E k \in DOMAIN topic : topic[k].eventId = id)
                        => \E k \in DOMAIN topic' : topic'[k].eventId = id
           /\ \E k \in DOMAIN topic' : topic'[k].eventId = r.id
<1>1. /\ topic \in Seq(MenuEvent) /\ Event(r) \in MenuEvent
      /\ Event(r).eventId = r.id
  BY DEF RelayTypeOK, OutboxRow, Event, MenuEvent
<1>2. /\ topic' \in Seq(MenuEvent)
      /\ DOMAIN topic' = 1 .. Len(topic) + 1
      /\ DOMAIN topic = 1 .. Len(topic)
      /\ Len(topic) \in Nat
      /\ \A k \in 1 .. Len(topic) : topic'[k] = topic[k]
      /\ topic'[Len(topic) + 1] = Event(r)
  BY <1>1
<1>3. \A k \in DOMAIN topic : k \in DOMAIN topic' /\ topic'[k] = topic[k]
  BY <1>2
<1>4. Len(topic) + 1 \in DOMAIN topic'
  BY <1>2
<1> QED
  BY <1>1, <1>2, <1>3, <1>4

LEMMA RelayInitial == ASSUME ServiceInit PROVE RelayInv
<1>1. RelayTypeOK
  <2>1. topic \in Seq(MenuEvent)
    BY DEF ServiceInit, RelayInit
  <2> QED
    BY <2>1, RelayAssumption DEF ServiceInit, RepositoryInit, RelayInit, RelayTypeOK
<1>2. OutboxKeyInv /\ PublishedWasSent
  BY DEF ServiceInit, RepositoryInit, OutboxKeyInv, PublishedWasSent
<1>3. IdleInv /\ ClaimedInv /\ AckedInv /\ HeldInv /\ OneClaimant
  BY DEF ServiceInit, RelayInit, IdleInv, ClaimedInv, AckedInv, HeldInv, OneClaimant
<1> QED
  BY <1>1, <1>2, <1>3 DEF RelayInv

(* A row that a request adds meanwhile is nobody's yet.                    *)
LEMMA NewRowPreserves ==
    ASSUME RelayInv, NEW n \in OutboxRow, AddsRow(n), UNCHANGED relayOwn
    PROVE  RelayInv'
<1>1. /\ UNCHANGED <<relayPc, claimedRow, topic, faults, overrun, givenUp>>
      /\ outbox' = outbox \cup {n} /\ ~n.published
      /\ \A r \in outbox : r.id # n.id
  BY DEF relayOwn, AddsRow
<1>2. \A p \in Relay : claimedRow[p] # n.id
  BY <1>1 DEF RelayInv, ClaimedInv, IdleInv, OutboxRow
<1>3. RelayTypeOK' /\ OutboxKeyInv' /\ IdleInv' /\ ClaimedInv' /\ AckedInv'
  BY <1>1 DEF RelayInv, RelayTypeOK, OutboxKeyInv, IdleInv, ClaimedInv, AckedInv
<1>4. HeldInv'
  BY <1>1, <1>2 DEF RelayInv, HeldInv
<1>5. PublishedWasSent' /\ OneClaimant'
  BY <1>1 DEF RelayInv, PublishedWasSent, Sent, OneClaimant
<1> QED
  BY <1>3, <1>4, <1>5 DEF RelayInv

(* The row that is locked was not being published under a lease that still *)
(* runs.                                                                   *)
LEMMA LockNextRowPreserves ==
    ASSUME RelayInv, NEW p \in Relay, NEW r \in outbox, LockNextRow(p, r)
    PROVE  RelayInv'
<1> USE DEF RelayInv
<1>1. RelayTypeOK'
  BY DEF RelayTypeOK, LockNextRow, OutboxRow
<1>2. OutboxKeyInv' /\ PublishedWasSent'
  BY DEF LockNextRow, OutboxKeyInv, PublishedWasSent, Sent
<1>3. IdleInv' /\ ClaimedInv' /\ AckedInv' /\ HeldInv'
  <2>1. r.id # 0
    BY DEF RelayTypeOK, OutboxRow
  <2> QED
    BY <2>1 DEF LockNextRow, RelayTypeOK, IdleInv, ClaimedInv, AckedInv, HeldInv
<1>4. OneClaimant'
  <2>1. \A q \in Relay : claimedRow[q] = r.id => r.id \in overrun
    <3> SUFFICES ASSUME NEW q \in Relay, claimedRow[q] = r.id PROVE r.id \in overrun
      OBVIOUS
    <3>1. relayPc[q] \in {"claimed", "acked"}
      BY DEF LockNextRow, LockedRow, RelayTypeOK, OutboxRow, IdleInv
    <3> QED
      BY <3>1 DEF LockNextRow, Claimable, HeldInv
  <2> QED
    BY <2>1 DEF LockNextRow, RelayTypeOK, OneClaimant
<1> QED
  BY <1>1, <1>2, <1>3, <1>4

LEMMA CommitClaimPreserves ==
    ASSUME RelayInv, NEW p \in Relay, NEW r \in outbox, CommitClaim(p, r)
    PROVE  RelayInv'
<1> USE DEF RelayInv
<1> DEFINE s == [r EXCEPT !.claim = "held"]
<1>1. /\ r \in OutboxRow /\ s \in OutboxRow /\ s.id = r.id
      /\ s.claim = "held" /\ s.published = r.published
  BY DEF RelayTypeOK, OutboxRow
<1>2. SetRow(r, s)
  BY DEF CommitClaim
<1> HIDE DEF s
<1>3. /\ outbox' \subseteq OutboxRow /\ OutboxKeyInv'
      /\ \A q \in outbox' : q = s \/ (q \in outbox /\ q.id # r.id)
  BY <1>1, <1>2, SetRowPreserves
<1>4. RelayTypeOK'
  BY <1>3 DEF RelayTypeOK, CommitClaim
<1>5. PublishedWasSent'
  BY <1>1, <1>3 DEF PublishedWasSent, Sent, CommitClaim
<1>6. IdleInv' /\ ClaimedInv' /\ AckedInv' /\ OneClaimant'
  BY <1>1, <1>2 DEF IdleInv, ClaimedInv, AckedInv, OneClaimant, CommitClaim, SetRow, RelayTypeOK
<1>7. HeldInv'
  BY <1>1, <1>3 DEF HeldInv, CommitClaim, RelayTypeOK
<1> QED
  BY <1>3, <1>4, <1>5, <1>6, <1>7

LEMMA SendAckedPreserves ==
    ASSUME RelayInv, NEW p \in Relay, NEW r \in outbox, SendAcked(p, r)
    PROVE  RelayInv'
<1> USE DEF RelayInv
<1>1. /\ topic' \in Seq(MenuEvent)
      /\ \A id : (\E k \in DOMAIN topic : topic[k].eventId = id)
                   => \E k \in DOMAIN topic' : topic'[k].eventId = id
      /\ \E k \in DOMAIN topic' : topic'[k].eventId = r.id
  BY AppendKeepsTopic DEF SendAcked
<1>2. RelayTypeOK'
  BY <1>1 DEF RelayTypeOK, SendAcked
<1>3. OutboxKeyInv' /\ OneClaimant'
  BY DEF OutboxKeyInv, OneClaimant, SendAcked
<1>4. IdleInv' /\ ClaimedInv' /\ HeldInv'
  BY DEF IdleInv, ClaimedInv, HeldInv, SendAcked, RelayTypeOK
<1>5. AckedInv'
  BY <1>1 DEF AckedInv, SendAcked, RelayTypeOK
<1>6. PublishedWasSent'
  BY <1>1 DEF PublishedWasSent, Sent, SendAcked
<1> QED
  BY <1>2, <1>3, <1>4, <1>5, <1>6

LEMMA MarkPublishedPreserves ==
    ASSUME RelayInv, NEW p \in Relay, NEW r \in outbox, MarkPublished(p, r)
    PROVE  RelayInv'
<1> USE DEF RelayInv
<1> DEFINE s == [r EXCEPT !.published = TRUE]
<1>1. r \in OutboxRow /\ s \in OutboxRow /\ s.id = r.id /\ s.claim = r.claim
  BY DEF RelayTypeOK, OutboxRow
<1>2. SetRow(r, s)
  BY DEF MarkPublished
<1> HIDE DEF s
<1>3. /\ outbox' \subseteq OutboxRow /\ OutboxKeyInv'
      /\ \A q \in outbox' : q = s \/ (q \in outbox /\ q.id # r.id)
  BY <1>1, <1>2, SetRowPreserves
<1>4. RelayTypeOK'
  BY <1>3 DEF RelayTypeOK, MarkPublished
<1>5. Sent(r)
  BY DEF MarkPublished, AckedInv, Sent
<1>6. PublishedWasSent'
  BY <1>1, <1>3, <1>5 DEF PublishedWasSent, Sent, MarkPublished
<1>7. IdleInv' /\ ClaimedInv' /\ AckedInv'
  BY <1>1, <1>2 DEF IdleInv, ClaimedInv, AckedInv, MarkPublished, SetRow, RelayTypeOK
<1>8. HeldInv'
  BY <1>1, <1>3 DEF HeldInv, MarkPublished, RelayTypeOK
<1>9. OneClaimant'
  BY DEF OneClaimant, MarkPublished, RelayTypeOK
<1> QED
  BY <1>3, <1>4, <1>6, <1>7, <1>8, <1>9

LEMMA GivingUpPreserves ==
    ASSUME RelayInv, NEW p \in Relay,
           Abort(p) \/ \E r \in outbox : SendTimesOut(p, r)
    PROVE  RelayInv'
<1> USE DEF RelayInv
<1>1. /\ topic' \in Seq(MenuEvent)
      /\ \A id : (\E k \in DOMAIN topic : topic[k].eventId = id)
                   => \E k \in DOMAIN topic' : topic'[k].eventId = id
  <2>1. CASE Abort(p)
    BY <2>1 DEF Abort, RelayTypeOK
  <2>2. ASSUME NEW r \in outbox, SendTimesOut(p, r)
        PROVE  /\ topic' \in Seq(MenuEvent)
               /\ \A id : (\E k \in DOMAIN topic : topic[k].eventId = id)
                            => \E k \in DOMAIN topic' : topic'[k].eventId = id
    BY <2>2, AppendKeepsTopic DEF SendTimesOut
  <2> QED
    BY <2>1, <2>2
<1>2. /\ UNCHANGED <<outbox, overrun>>
      /\ relayPc' = [relayPc EXCEPT ![p] = "idle"]
      /\ claimedRow' = [claimedRow EXCEPT ![p] = 0]
      /\ faults' = faults + 1 /\ faults < MaxFaults
  BY DEF Abort, SendTimesOut, Fault
<1>3. RelayTypeOK'
  <2>1. givenUp' \in SUBSET Nat
    <3>1. givenUp' = givenUp \/ givenUp' = givenUp \cup {claimedRow[p]}
      BY DEF Abort, SendTimesOut
    <3> QED
      BY <3>1 DEF RelayTypeOK
  <2> QED
    BY <1>1, <1>2, <2>1, RelayAssumption DEF RelayTypeOK
<1>4. OutboxKeyInv' /\ IdleInv' /\ ClaimedInv' /\ HeldInv' /\ OneClaimant'
  BY <1>2 DEF RelayTypeOK, OutboxKeyInv, IdleInv, ClaimedInv, HeldInv, OneClaimant
<1>5. AckedInv' /\ PublishedWasSent'
  BY <1>1, <1>2 DEF RelayTypeOK, AckedInv, PublishedWasSent, Sent
<1> QED
  BY <1>3, <1>4, <1>5

LEMMA LeaseEndPreserves ==
    ASSUME RelayInv, NEW r \in outbox,
           LeaseExpires(r) \/ LeaseOverrun(r)
    PROVE  RelayInv'
<1> USE DEF RelayInv
<1> DEFINE s == [r EXCEPT !.claim = "stale"]
<1>1. r \in OutboxRow /\ s \in OutboxRow /\ s.id = r.id /\ s.published = r.published
  BY DEF RelayTypeOK, OutboxRow
<1>2. SetRow(r, s) /\ UNCHANGED <<relayPc, claimedRow, topic, givenUp>>
  BY DEF LeaseExpires, LeaseOverrun
<1> HIDE DEF s
<1>3. /\ outbox' \subseteq OutboxRow /\ OutboxKeyInv'
      /\ \A q \in outbox' : q = s \/ (q \in outbox /\ q.id # r.id)
  BY <1>1, <1>2, SetRowPreserves
<1>4. overrun \subseteq overrun' /\ overrun' \in SUBSET Nat /\ faults' \in 0 .. MaxFaults
  BY <1>1, RelayAssumption DEF LeaseExpires, LeaseOverrun, Fault,
              RelayTypeOK, OutboxRow
<1>5. RelayTypeOK'
  BY <1>2, <1>3, <1>4 DEF RelayTypeOK
<1>6. PublishedWasSent'
  BY <1>1, <1>2, <1>3 DEF PublishedWasSent, Sent
<1>7. IdleInv' /\ ClaimedInv' /\ AckedInv' /\ OneClaimant'
  BY <1>1, <1>2, <1>4 DEF IdleInv, ClaimedInv, AckedInv, OneClaimant, SetRow
<1>8. HeldInv'
  <2>1. WorkedOn(r) => r.id \in overrun'
    BY DEF LeaseExpires, LeaseOverrun
  <2> QED
    BY <1>1, <1>2, <1>3, <1>4, <2>1 DEF HeldInv, WorkedOn
<1> QED
  BY <1>3, <1>5, <1>6, <1>7, <1>8

LEMMA RelayStepPreserves == ASSUME RelayInv, RelayNext PROVE RelayInv'
<1>1. ASSUME NEW r \in outbox, LeaseExpires(r) \/ LeaseOverrun(r) PROVE RelayInv'
  BY <1>1, LeaseEndPreserves
<1>2. ASSUME NEW p \in Relay, Abort(p) \/ \E r \in outbox : SendTimesOut(p, r)
      PROVE  RelayInv'
  BY <1>2, GivingUpPreserves
<1>3. ASSUME NEW p \in Relay, NEW r \in outbox, RelayStep(p, r) PROVE RelayInv'
  BY <1>3, LockNextRowPreserves, CommitClaimPreserves, SendAckedPreserves,
     MarkPublishedPreserves DEF RelayStep
<1> QED
  BY <1>1, <1>2, <1>3 DEF RelayNext

(* The relay's invariant, for every number of instances and faults and     *)
(* whatever the requests commit meanwhile.                                 *)
THEOREM RelayInvariance ==
    ASSUME ObservedVersions
    PROVE  ServiceSpec => []RelayInv
<1>1. ServiceInit => ServiceInv /\ RelayInv
  BY ServiceInitial, RelayInitial
<1>2. ServiceInv /\ RelayInv /\ [ServiceNext]_serviceVars => ServiceInv' /\ RelayInv'
  <2> SUFFICES ASSUME ServiceInv, RelayInv, [ServiceNext]_serviceVars PROVE RelayInv'
    BY ServiceStep
  <2>1. CASE outbox' = outbox /\ UNCHANGED relayOwn
    BY <2>1 DEF relayOwn, RelayInv, RelayTypeOK, OutboxKeyInv, IdleInv, ClaimedInv, AckedInv,
                HeldInv, PublishedWasSent, Sent, OneClaimant
  <2>2. CASE RepositoryNext /\ UNCHANGED relayOwn
    BY <2>1, <2>2, RepositoryGrowsOutbox, NewRowPreserves DEF ServiceInv
  <2> QED
    BY <2>1, <2>2, RelayStepPreserves DEF ServiceNext, serviceVars, vars
<1> QED
  BY <1>1, <1>2, PTL DEF ServiceSpec

(* No fault between the claim and the mark makes the relay skip a row: one *)
(* that is marked published is in the topic.                               *)
THEOREM NothingIsSkipped ==
    ASSUME ObservedVersions
    PROVE  ServiceSpec => []PublishedWasSent
<1>1. RelayInv => PublishedWasSent
  BY DEF RelayInv
<1> QED
  BY <1>1, RelayInvariance, PTL

(* SKIP LOCKED and the lease keep any number of instances apart, except on *)
(* a row whose publish has outlived its lease.                             *)
THEOREM LeaseSeparates ==
    ASSUME ObservedVersions
    PROVE  ServiceSpec => []OneClaimant
<1>1. RelayInv => OneClaimant
  BY DEF RelayInv
<1> QED
  BY <1>1, RelayInvariance, PTL

-----------------------------------------------------------------------------
(* How the steps of menu-service show in MenuEvents.                       *)
LEMMA CommitIsAWrite ==
    ASSUME ServiceInv, NEW t \in Tx, pc[t] = "written", CommitRows(t), topic' = topic
    PROVE  Events!EventsNext
<1> DEFINE i == request[t].item
<1>1. i \in Item /\ request[t] \in Request
  BY DEF ServiceInv, RepositoryInv, TxInv, RequestInv, Active, Request
<1>2. items' = [items EXCEPT ![i] = WrittenItem(t)] /\ items \in [Item -> ItemRow]
  BY DEF CommitRows, ServiceInv, RepositoryInv, RepositoryTypeOK
<1>3. NewVersion(t) + 1 = writes[i] + 1 /\ WrittenItem(t).status # "absent"
  <2>1. CASE request[t].op = "create"
    <3>1. items[i].status = "absent"
      BY <1>1, <2>1 DEF ServiceInv, RepositoryInv, TxInv, RequestInv, Active, Creating
    <3> QED
      BY <1>1, <2>1, <3>1 DEF NewVersion, WrittenItem, writes
  <2>2. CASE request[t].op # "create"
    <3>1. items[i].status = "live" /\ existing[t] = items[i].version
      BY <2>2 DEF ServiceInv, RepositoryInv, TxInv, WrittenInv
    <3> QED
      BY <1>1, <2>2, <3>1 DEF NewVersion, WrittenItem, writes
  <2> QED
    BY <2>1, <2>2
<1>4. writes' = [writes EXCEPT ![i] = @ + 1]
  BY <1>1, <1>2, <1>3 DEF writes, WrittenItem
<1>5. published' = published
  BY DEF published
<1> QED
  BY <1>1, <1>4, <1>5 DEF Events!EventsNext, Events!Write

LEMMA FunctionAsSeq ==
    ASSUME NEW S, NEW n \in Nat, NEW f, f \in [1 .. n -> S]
    PROVE  f \in Seq(S) /\ Len(f) = n
<1>1. f \in Seq(S)
  BY SeqDef
<1>2. Len(f) \in Nat /\ DOMAIN f = 1 .. Len(f) /\ DOMAIN f = 1 .. n
  BY <1>1, LenProperties
<1>3. \A a, b \in Nat : 1 .. a = 1 .. b => a = b
  <2> SUFFICES ASSUME NEW a \in Nat, NEW b \in Nat, 1 .. a = 1 .. b PROVE a = b
    OBVIOUS
  <2>1. \A k \in Nat : k \in 1 .. a <=> k \in 1 .. b
    OBVIOUS
  <2>2. \A k \in Nat : (1 <= k /\ k <= a) <=> (1 <= k /\ k <= b)
    BY <2>1
  <2> QED
    BY <2>2
<1> QED
  BY <1>1, <1>2, <1>3

LEMMA SendIsAPublication ==
    ASSUME ServiceInv, NEW r \in outbox, topic' = Append(topic, Event(r)), items' = items
    PROVE  Events!EventsNext
<1>1. r \in OutboxRow /\ r.item \in Item /\ r.version \in Nat
  BY DEF ServiceInv, RepositoryInv, RepositoryTypeOK, OutboxRow
<1> DEFINE e == [item |-> r.item, version |-> r.version]
           Pair == [item : Item, version : Nat]
<1>2. /\ topic \in Seq(MenuEvent)
      /\ Len(topic) \in Nat
      /\ DOMAIN topic = 1 .. Len(topic)
      /\ DOMAIN topic' = 1 .. Len(topic) + 1
      /\ \A k \in 1 .. Len(topic) : topic'[k] = topic[k]
      /\ topic'[Len(topic) + 1] = Event(r)
  BY <1>1, AppendedEvent DEF ServiceInv, LogInv
<1>3. published \in [1 .. Len(topic) -> Pair]
  <2>1. \A k \in 1 .. Len(topic) : topic[k] \in MenuEvent
    BY <1>2, ElementOfSeq
  <2> QED
    BY <1>2, <2>1 DEF published, MenuEvent
<1>4. published \in Seq(Pair) /\ Len(published) = Len(topic)
  BY <1>2, <1>3, FunctionAsSeq
<1>5. published' = Append(published, e)
  <2>1. published' = [k \in 1 .. Len(topic) + 1 |->
                        [item |-> topic'[k].item, version |-> topic'[k].version]]
    BY <1>2 DEF published
  <2>2. \A k \in 1 .. Len(topic) : published'[k] = published[k]
    BY <1>2, <2>1 DEF published
  <2>3. published'[Len(topic) + 1] = e
    BY <1>2, <2>1 DEF Event
  <2>4. /\ DOMAIN Append(published, e) = 1 .. Len(topic) + 1
        /\ Append(published, e)[Len(topic) + 1] = e
        /\ \A k \in 1 .. Len(topic) : Append(published, e)[k] = published[k]
    BY <1>1, <1>2, <1>4
  <2>5. published' \in Seq(Pair) /\ Len(published') = Len(topic) + 1
    <3>1. \A k \in 1 .. Len(topic) + 1 :
            [item |-> topic'[k].item, version |-> topic'[k].version] \in Pair
      <4> SUFFICES ASSUME NEW k \in 1 .. Len(topic) + 1
                   PROVE  topic'[k].item \in Item /\ topic'[k].version \in Nat
        OBVIOUS
      <4>1. CASE k = Len(topic) + 1
        BY <1>1, <1>2, <4>1 DEF Event
      <4>2. CASE k \in 1 .. Len(topic)
        <5>1. topic[k] \in MenuEvent
          BY <1>2, <4>2, ElementOfSeq
        <5> QED
          BY <1>2, <4>2, <5>1 DEF MenuEvent
      <4> QED
        BY <1>2, <4>1, <4>2
    <3>2. published' \in [1 .. Len(topic) + 1 -> Pair]
      BY <2>1, <3>1
    <3>3. Len(topic) + 1 \in Nat
      BY <1>2
    <3> HIDE DEF Pair
    <3> QED
      BY <3>2, <3>3, FunctionAsSeq
  <2>6. Append(published, e) \in Seq(Pair) /\ Len(Append(published, e)) = Len(topic) + 1
    BY <1>1, <1>4
  <2> QED
    BY <1>2, <2>2, <2>3, <2>4, <2>5, <2>6, SeqEqual
<1>6. r.version \in 0 .. writes[r.item] - 1
  <2>1. items[r.item].status # "absent" /\ r.version <= items[r.item].version
    BY DEF ServiceInv, RepositoryInv, TableInv, EventOfWriteInv
  <2>2. items[r.item].version \in Nat
    BY <1>1 DEF ServiceInv, RepositoryInv, RepositoryTypeOK, ItemRow
  <2> QED
    BY <1>1, <2>1, <2>2 DEF writes
<1>7. writes' = writes
  BY DEF writes
<1> QED
  BY <1>1, <1>5, <1>6, <1>7 DEF Events!EventsNext, Events!Publish

(* The items table and the topic never diverge: menu-service implements    *)
(* MenuEvents, whatever the number of items, requests, relays and faults.  *)
THEOREM WritesBecomeEvents ==
    ASSUME ObservedVersions
    PROVE  ServiceSpec => ImplementsMenuEvents
<1>1. ServiceInit => Events!EventsInit
  BY DEF ServiceInit, RepositoryInit, RelayInit, Events!EventsInit, writes, published
<1>2. ServiceInv /\ [ServiceNext]_serviceVars => [Events!EventsNext]_(Events!eventVars)
  <2> SUFFICES ASSUME ServiceInv, [ServiceNext]_serviceVars
               PROVE  Events!EventsNext \/ (items' = items /\ topic' = topic)
    BY DEF Events!eventVars, writes, published
  <2>1. CASE RepositoryNext /\ UNCHANGED relayOwn
    <3>1. ASSUME NEW t \in Tx, TxStep(t), ~(pc[t] = "written" /\ CommitRows(t))
          PROVE  items' = items
      BY <3>1 DEF TxStep, Create, SelectExisting, ConditionalUpdate, CurrentItemResponse,
                  Commit, CommitUnacknowledged, Rollback, Respond
    <3>2. topic' = topic
      BY <2>1 DEF relayOwn
    <3> QED
      BY <2>1, <3>1, <3>2, CommitIsAWrite DEF RepositoryNext, CreateVenue, Begin
  <2>2. CASE RelayNext /\ UNCHANGED repositoryOwn
    BY <2>2, RelayTopic, SendIsAPublication DEF repositoryOwn
  <2> QED
    BY <2>1, <2>2 DEF ServiceNext, serviceVars, relayOwn, vars
<1>3. ServiceInit => ServiceInv
  BY ServiceInitial
<1>4. ServiceInv /\ [ServiceNext]_serviceVars => ServiceInv'
  BY ServiceStep
<1> QED
  BY <1>1, <1>2, <1>3, <1>4, PTL DEF ServiceSpec, ImplementsMenuEvents, Events!EventsSpec

-----------------------------------------------------------------------------
(* From here on there is one relay instance.                               *)
OneRelay == \A p, q \in Relay : p = q

RelayStateOK ==
    /\ relayPc \in [Relay -> {"idle", "claiming", "claimed", "acked"}]
    /\ claimedRow \in [Relay -> Nat]
    /\ faults \in Nat

(* The row being worked on was the lowest claimable one when it was        *)
(* locked: the earlier rows of its item are done, or claimed by a try that *)
(* failed.                                                                 *)
WorkInv ==
    \A p \in Relay :
        /\ relayPc[p] # "idle" => \E r \in outbox : r.id = claimedRow[p]
        /\ \A r \in outbox : r.id = claimedRow[p] =>
              /\ ~r.published
              /\ relayPc[p] = "acked" => Sent(r)
              /\ \A q \in outbox : q.item = r.item /\ q.id < r.id
                                       => q.published \/ q.claim # "none"

(* Until the first fault only the row being worked on is claimed, an event *)
(* is in the topic when its row is marked or about to be, and the events   *)
(* of an item are there without a gap.                                     *)
FaultlessInv ==
    faults = 0 =>
        /\ \A r \in outbox : \/ r.published
                             \/ r.claim = "none"
                             \/ \E p \in Relay : /\ relayPc[p] \in {"claimed", "acked"}
                                                 /\ claimedRow[p] = r.id
        /\ \A r \in outbox : Sent(r) =>
              \/ r.published
              \/ \E p \in Relay : relayPc[p] = "acked" /\ claimedRow[p] = r.id
        /\ \A r, s \in outbox : r.item = s.item /\ r.id < s.id /\ Sent(s) => Sent(r)

(* A claim is on a row that was sent, given up or is about to be sent.     *)
GivenUpInv ==
    \A r \in outbox : r.claim # "none" =>
        \/ Sent(r)
        \/ r.id \in givenUp
        \/ \E p \in Relay : relayPc[p] = "claimed" /\ claimedRow[p] = r.id

(* The relay only passes by a row of the same item that it has given up.   *)
OvertakenOnlyIfGivenUp ==
    \A r, s \in outbox :
        r.item = s.item /\ r.id < s.id /\ Sent(s) /\ ~Sent(r) => r.id \in givenUp

(* The two halves of PublishedInOrder.                                     *)
OrderedBeforeFaults ==
    faults = 0 => \A j, k \in DOMAIN topic :
        j < k /\ topic[j].item = topic[k].item => topic[j].version < topic[k].version

LateOnlyIfGivenUp ==
    \A k \in DOMAIN topic : \A j \in 1 .. k - 1 :
        topic[j].item = topic[k].item /\ topic[j].version >= topic[k].version =>
            topic[k].eventId \in givenUp \/ \E l \in 1 .. k - 1 : topic[l] = topic[k]

OrderInv ==
    /\ RelayStateOK /\ IdleInv /\ WorkInv /\ FaultlessInv /\ GivenUpInv
    /\ PublishedWasSent /\ OvertakenOnlyIfGivenUp /\ OrderedBeforeFaults /\ LateOnlyIfGivenUp

LEMMA OrderInitial == ASSUME ServiceInit PROVE OrderInv
BY DEF ServiceInit, RepositoryInit, RelayInit, OrderInv, RelayStateOK, IdleInv, WorkInv,
       FaultlessInv, GivenUpInv, PublishedWasSent, OvertakenOnlyIfGivenUp,
       OrderedBeforeFaults, LateOnlyIfGivenUp, Sent

(* A row that a request adds is the last of its item, unclaimed and not in *)
(* the topic: it changes nothing of the order.                             *)
LEMMA NewRowKeepsOrder ==
    ASSUME ServiceInv, OrderInv, NEW n \in OutboxRow, AddsRow(n), UNCHANGED relayOwn
    PROVE  OrderInv'
<1>1. /\ relayPc' = relayPc /\ claimedRow' = claimedRow /\ topic' = topic /\ faults' = faults
      /\ givenUp' = givenUp
      /\ outbox' = outbox \cup {n} /\ n.claim = "none" /\ ~n.published
      /\ \A r \in outbox : r.id # n.id /\ (r.item = n.item => r.id < n.id)
  BY DEF relayOwn, AddsRow
<1>2. ~Sent(n)
  <2> SUFFICES ASSUME NEW k \in DOMAIN topic, topic[k].eventId = n.id PROVE FALSE
    BY DEF Sent
  <2>1. \E r \in outbox : topic[k].eventId = r.id
    BY DEF ServiceInv, LogInv, Event
  <2> QED
    BY <1>1, <2>1
<1>3. \A p \in Relay : claimedRow[p] # n.id
  <2> SUFFICES ASSUME NEW p \in Relay, claimedRow[p] = n.id PROVE FALSE
    OBVIOUS
  <2>1. relayPc[p] # "idle"
    BY DEF OrderInv, IdleInv, OutboxRow
  <2> QED
    BY <1>1, <2>1 DEF OrderInv, WorkInv
<1>4. \A r : Sent(r)' <=> Sent(r)
  BY <1>1 DEF Sent
<1>5. outbox \subseteq OutboxRow
  BY DEF ServiceInv, RepositoryInv, RepositoryTypeOK
<1>6. RelayStateOK' /\ IdleInv' /\ OrderedBeforeFaults' /\ LateOnlyIfGivenUp'
  BY <1>1 DEF OrderInv, RelayStateOK, IdleInv, OrderedBeforeFaults, LateOnlyIfGivenUp
<1>7. WorkInv'
  BY <1>1, <1>3, <1>5 DEF OrderInv, WorkInv, OutboxRow, Sent
<1>8. FaultlessInv'
  BY <1>1, <1>2, <1>4, <1>5 DEF OrderInv, FaultlessInv, OutboxRow
<1>9. PublishedWasSent' /\ OvertakenOnlyIfGivenUp'
  BY <1>1, <1>2, <1>4, <1>5
     DEF OrderInv, PublishedWasSent, OvertakenOnlyIfGivenUp, OutboxRow
<1>10. GivenUpInv'
  BY <1>1, <1>4 DEF OrderInv, GivenUpInv
<1> QED
  BY <1>6, <1>7, <1>8, <1>9, <1>10 DEF OrderInv

(* What a step that sets one column of one row leaves behind.              *)
LEMMA RowReplaced ==
    ASSUME RepositoryInv, NEW r \in outbox, NEW s, SameEvent(s, r), SetRow(r, s)
    PROVE  /\ outbox' = (outbox \ {r}) \cup {s}
           /\ \A q \in outbox' : q = s \/ (q \in outbox /\ q.id # r.id)
           /\ \A q \in outbox : q.id # r.id => q \in outbox'
           /\ \A q \in outbox : q.id = r.id => q = r
BY DEF RepositoryInv, TableInv, OutboxKeyInv, SetRow, SameEvent

LEMMA LockingKeepsOrder ==
    ASSUME OneRelay, ServiceInv, OrderInv, NEW p \in Relay, NEW r \in outbox, LockNextRow(p, r)
    PROVE  OrderInv'
<1>1. /\ relayPc[p] = "idle" /\ claimedRow[p] = 0
      /\ outbox' = outbox /\ topic' = topic /\ faults' = faults /\ givenUp' = givenUp
      /\ relayPc' = [relayPc EXCEPT ![p] = "claiming"]
      /\ claimedRow' = [claimedRow EXCEPT ![p] = r.id]
      /\ ~r.published /\ r.claim # "held"
  BY DEF LockNextRow, Claimable, OrderInv, IdleInv
<1>2. r.id \in Nat \ {0} /\ outbox \subseteq OutboxRow
  BY DEF ServiceInv, RepositoryInv, RepositoryTypeOK, OutboxRow
<1>3. relayPc'[p] = "claiming" /\ claimedRow'[p] = r.id /\ \A q \in Relay : q = p
  BY <1>1 DEF OneRelay, OrderInv, RelayStateOK
<1>4. RelayStateOK' /\ IdleInv'
  BY <1>1, <1>2, <1>3 DEF OrderInv, RelayStateOK, IdleInv
<1>5. ASSUME NEW q \in outbox, q.id < r.id PROVE q.published \/ q.claim # "none"
  <2>1. ~LockedRow(q)
    BY <1>1, <1>3 DEF LockedRow
  <2>2. ~(r.id <= q.id)
    BY <1>2, <1>5 DEF OutboxRow
  <2> QED
    BY <2>1, <2>2 DEF LockNextRow, Claimable
<1>6. WorkInv'
  <2>1. \A q \in outbox : q.id = r.id => q = r
    BY DEF ServiceInv, RepositoryInv, TableInv, OutboxKeyInv
  <2> QED
    BY <1>1, <1>3, <1>5, <2>1 DEF WorkInv
<1>7. \A q : Sent(q)' <=> Sent(q)
  BY <1>1 DEF Sent
<1>8. FaultlessInv'
  BY <1>1, <1>3, <1>7 DEF OrderInv, FaultlessInv
<1>9. PublishedWasSent' /\ OvertakenOnlyIfGivenUp' /\ OrderedBeforeFaults' /\ LateOnlyIfGivenUp'
  BY <1>1, <1>7
     DEF OrderInv, PublishedWasSent, OvertakenOnlyIfGivenUp,
         OrderedBeforeFaults, LateOnlyIfGivenUp
<1>10. GivenUpInv'
  BY <1>1, <1>3, <1>7 DEF OrderInv, GivenUpInv
<1> QED
  BY <1>4, <1>6, <1>8, <1>9, <1>10 DEF OrderInv

LEMMA ClaimingKeepsOrder ==
    ASSUME OneRelay, ServiceInv, OrderInv, NEW p \in Relay, NEW r \in outbox, CommitClaim(p, r)
    PROVE  OrderInv'
<1> DEFINE s == [r EXCEPT !.claim = "held"]
<1>1. /\ relayPc[p] = "claiming" /\ claimedRow[p] = r.id /\ claimedRow' = claimedRow
      /\ SetRow(r, s) /\ topic' = topic /\ faults' = faults /\ givenUp' = givenUp
      /\ relayPc' = [relayPc EXCEPT ![p] = "claimed"]
  BY DEF CommitClaim
<1>2. outbox \subseteq OutboxRow
  BY DEF ServiceInv, RepositoryInv, RepositoryTypeOK
<1>3. /\ SameEvent(s, r) /\ s.published = r.published /\ s.claim = "held"
  BY <1>2 DEF SameEvent, OutboxRow
<1> HIDE DEF s
<1>4. /\ outbox' = (outbox \ {r}) \cup {s}
      /\ \A q \in outbox' : q = s \/ (q \in outbox /\ q.id # r.id)
      /\ \A q \in outbox : q.id # r.id => q \in outbox'
      /\ \A q \in outbox : q.id = r.id => q = r
  BY <1>1, <1>3, RowReplaced DEF ServiceInv
<1>5. relayPc'[p] = "claimed" /\ \A q \in Relay : q = p
  BY <1>1 DEF OneRelay, OrderInv, RelayStateOK
<1>6. /\ \A q : Sent(q)' <=> Sent(q)
      /\ Sent(s) <=> Sent(r)
  BY <1>1, <1>3 DEF Sent, SameEvent
<1>7. RelayStateOK' /\ IdleInv'
  BY <1>1, <1>5 DEF OrderInv, RelayStateOK, IdleInv
<1>8. WorkInv'
  BY <1>1, <1>3, <1>4, <1>5 DEF OrderInv, WorkInv, SameEvent
<1>9. FaultlessInv'
  BY <1>1, <1>3, <1>4, <1>5, <1>6 DEF OrderInv, FaultlessInv, SameEvent
<1>10. PublishedWasSent' /\ OvertakenOnlyIfGivenUp' /\ OrderedBeforeFaults' /\ LateOnlyIfGivenUp'
  BY <1>1, <1>3, <1>4, <1>6
     DEF OrderInv, PublishedWasSent, OvertakenOnlyIfGivenUp,
         OrderedBeforeFaults, LateOnlyIfGivenUp, SameEvent
<1>11. GivenUpInv'
  BY <1>1, <1>3, <1>4, <1>5, <1>6 DEF OrderInv, GivenUpInv, SameEvent
<1> QED
  BY <1>7, <1>8, <1>9, <1>10, <1>11 DEF OrderInv

LEMMA SentAfter ==
    ASSUME ServiceInv, NEW r \in outbox, topic' = Append(topic, Event(r))
    PROVE  \A q : Sent(q)' <=> (Sent(q) \/ q.id = r.id)
<1>1. r \in OutboxRow
  BY DEF ServiceInv, RepositoryInv, RepositoryTypeOK
<1>2. /\ Len(topic) \in Nat
      /\ DOMAIN topic = 1 .. Len(topic)
      /\ DOMAIN topic' = 1 .. Len(topic) + 1
      /\ \A k \in 1 .. Len(topic) : topic'[k] = topic[k]
      /\ topic'[Len(topic) + 1].eventId = r.id
  BY <1>1, AppendedEvent DEF ServiceInv, LogInv, Event
<1> SUFFICES ASSUME NEW q PROVE Sent(q)' <=> (Sent(q) \/ q.id = r.id)
  OBVIOUS
<1>3. ASSUME Sent(q)' PROVE Sent(q) \/ q.id = r.id
  <2>1. PICK k \in DOMAIN topic' : topic'[k].eventId = q.id
    BY <1>3 DEF Sent
  <2>2. k \in 1 .. Len(topic) \/ k = Len(topic) + 1
    BY <1>2
  <2> QED
    BY <1>2, <2>1, <2>2 DEF Sent
<1>4. ASSUME Sent(q) PROVE Sent(q)'
  BY <1>2, <1>4 DEF Sent
<1>5. ASSUME q.id = r.id PROVE Sent(q)'
  <2>1. Len(topic) + 1 \in DOMAIN topic'
    BY <1>2
  <2> QED
    BY <1>2, <1>5, <2>1 DEF Sent
<1> QED
  BY <1>3, <1>4, <1>5

(* The row in hand is the lowest of its item that is neither in the topic  *)
(* nor given up: its event comes behind a later one only as a repetition.  *)
LEMMA SendKeepsOvertaking ==
    ASSUME OneRelay, ServiceInv, OrderInv, NEW p \in Relay, NEW r \in outbox,
           claimedRow[p] = r.id, relayPc[p] = "claimed",
           topic' = Append(topic, Event(r)), outbox' = outbox, givenUp' = givenUp
    PROVE  PublishedWasSent' /\ OvertakenOnlyIfGivenUp' /\ LateOnlyIfGivenUp'
<1>1. \A q : Sent(q)' <=> (Sent(q) \/ q.id = r.id)
  BY SentAfter
<1>2. \A q \in outbox : q.id = r.id => q = r
  BY DEF ServiceInv, RepositoryInv, TableInv, OutboxKeyInv
<1>3. \A q \in outbox : q.id \in Nat /\ q.version \in Nat
  BY DEF ServiceInv, RepositoryInv, RepositoryTypeOK, OutboxRow
<1>4. ASSUME NEW q \in outbox, q.item = r.item, q.id < r.id
      PROVE  Sent(q) \/ q.id \in givenUp
  <2>1. Sent(q) \/ q.claim # "none"
    BY <1>4 DEF OrderInv, WorkInv, PublishedWasSent
  <2>2. \A o \in Relay : claimedRow[o] # q.id
    BY <1>3, <1>4 DEF OneRelay
  <2> QED
    BY <2>1, <2>2 DEF OrderInv, GivenUpInv
<1>5. PublishedWasSent'
  BY <1>1 DEF OrderInv, PublishedWasSent
<1>6. OvertakenOnlyIfGivenUp'
  <2> SUFFICES ASSUME NEW a \in outbox, NEW b \in outbox, a.item = b.item, a.id < b.id,
                      Sent(b)', ~Sent(a)'
               PROVE  a.id \in givenUp
    BY DEF OvertakenOnlyIfGivenUp
  <2>1. ~Sent(a)
    BY <1>1
  <2>2. CASE Sent(b)
    BY <2>1, <2>2 DEF OrderInv, OvertakenOnlyIfGivenUp
  <2>3. CASE b.id = r.id
    BY <1>2, <1>4, <2>1, <2>3
  <2> QED
    BY <1>1, <2>2, <2>3
<1>7. /\ Len(topic) \in Nat
      /\ DOMAIN topic = 1 .. Len(topic)
      /\ DOMAIN topic' = 1 .. Len(topic) + 1
      /\ \A m \in 1 .. Len(topic) : topic'[m] = topic[m]
      /\ topic'[Len(topic) + 1] = Event(r)
  <2>1. r \in OutboxRow
    BY DEF ServiceInv, RepositoryInv, RepositoryTypeOK
  <2> QED
    BY <2>1, AppendedEvent DEF ServiceInv, LogInv
<1>8. LateOnlyIfGivenUp'
  <2> SUFFICES ASSUME NEW k \in DOMAIN topic', NEW j \in 1 .. k - 1,
                      topic'[j].item = topic'[k].item, topic'[j].version >= topic'[k].version
               PROVE  topic'[k].eventId \in givenUp \/ \E l \in 1 .. k - 1 : topic'[l] = topic'[k]
    BY DEF LateOnlyIfGivenUp
  <2>1. j \in DOMAIN topic /\ \A l \in 1 .. k - 1 : topic'[l] = topic[l]
    BY <1>7
  <2>2. CASE k \in DOMAIN topic
    <3>1. topic'[k] = topic[k]
      BY <1>7, <2>2
    <3> QED
      BY <2>1, <2>2, <3>1 DEF OrderInv, LateOnlyIfGivenUp
  <2>3. CASE k = Len(topic) + 1
    <3>1. PICK q \in outbox : topic[j] = Event(q)
      BY <2>1 DEF ServiceInv, LogInv
    <3>2. q.item = r.item /\ q.version >= r.version /\ Sent(q)
      BY <1>7, <2>1, <2>3, <3>1 DEF Event, Sent
    <3>3. q = r \/ r.id < q.id
      <4>1. q.id < r.id => q.version < r.version
        BY <3>2 DEF ServiceInv, RepositoryInv, TableInv, IdsFollowVersions
      <4> QED
        BY <1>2, <1>3, <3>2, <4>1
    <3>4. Sent(r) \/ r.id \in givenUp
      BY <3>2, <3>3 DEF OrderInv, OvertakenOnlyIfGivenUp
    <3>5. ASSUME Sent(r) PROVE \E l \in 1 .. k - 1 : topic'[l] = topic'[k]
      <4>1. PICK l \in DOMAIN topic : topic[l].eventId = r.id
        BY <3>5 DEF Sent
      <4>2. PICK o \in outbox : topic[l] = Event(o)
        BY DEF ServiceInv, LogInv
      <4>3. topic[l] = Event(r)
        BY <1>2, <4>1, <4>2 DEF Event
      <4> QED
        BY <1>7, <2>3, <4>1, <4>3
    <3> QED
      BY <1>7, <2>3, <3>4, <3>5 DEF Event
  <2> QED
    BY <1>7, <2>2, <2>3
<1> QED
  BY <1>5, <1>6, <1>8

LEMMA SendingKeepsOrder ==
    ASSUME OneRelay, ServiceInv, OrderInv, NEW p \in Relay, NEW r \in outbox, SendAcked(p, r)
    PROVE  OrderInv'
<1>1. /\ relayPc[p] = "claimed" /\ claimedRow[p] = r.id /\ claimedRow' = claimedRow
      /\ topic' = Append(topic, Event(r)) /\ outbox' = outbox /\ faults' = faults
      /\ givenUp' = givenUp
      /\ relayPc' = [relayPc EXCEPT ![p] = "acked"]
  BY DEF SendAcked
<1>2. relayPc'[p] = "acked" /\ \A q \in Relay : q = p
  BY <1>1 DEF OneRelay, OrderInv, RelayStateOK
<1>3. \A q : Sent(q)' <=> (Sent(q) \/ q.id = r.id)
  BY <1>1, SentAfter
<1>4. \A q \in outbox : q.id = r.id => q = r
  BY DEF ServiceInv, RepositoryInv, TableInv, OutboxKeyInv
<1>5. RelayStateOK' /\ IdleInv'
  BY <1>1, <1>2 DEF OrderInv, RelayStateOK, IdleInv
<1>6. WorkInv'
  BY <1>1, <1>2, <1>3 DEF OrderInv, WorkInv
<1>7. ASSUME faults = 0
      PROVE  /\ ~Sent(r)
             /\ \A q \in outbox : q.item = r.item /\ q.id < r.id => Sent(q)
             /\ \A q \in outbox : q.item = r.item /\ r.id < q.id => ~Sent(q)
  <2>1. ~r.published /\ ~Sent(r)
    BY <1>1, <1>2, <1>7 DEF OrderInv, WorkInv, FaultlessInv
  <2>2. ASSUME NEW q \in outbox, q.item = r.item, q.id < r.id PROVE Sent(q)
    <3>1. q.published \/ q.claim # "none"
      BY <1>1, <2>2 DEF OrderInv, WorkInv
    <3>2. q.id # r.id
      BY <2>2 DEF ServiceInv, RepositoryInv, RepositoryTypeOK, OutboxRow
    <3>3. q.published
      BY <1>1, <1>2, <1>7, <3>1, <3>2 DEF OrderInv, FaultlessInv
    <3> QED
      BY <3>3 DEF OrderInv, PublishedWasSent
  <2>3. \A q \in outbox : q.item = r.item /\ r.id < q.id => ~Sent(q)
    BY <1>7, <2>1 DEF OrderInv, FaultlessInv
  <2> QED
    BY <2>1, <2>2, <2>3
<1>8. FaultlessInv'
  <2> SUFFICES ASSUME faults = 0
      PROVE  /\ \A q \in outbox : \/ q.published
                                  \/ q.claim = "none"
                                  \/ \E o \in Relay : /\ relayPc'[o] \in {"claimed", "acked"}
                                                      /\ claimedRow[o] = q.id
             /\ \A q \in outbox : Sent(q)' =>
                   \/ q.published
                   \/ \E o \in Relay : relayPc'[o] = "acked" /\ claimedRow[o] = q.id
             /\ \A a, b \in outbox :
                   a.item = b.item /\ a.id < b.id /\ Sent(b)' => Sent(a)'
    BY <1>1 DEF FaultlessInv
  <2>1. \A q \in outbox : \/ q.published
                          \/ q.claim = "none"
                          \/ \E o \in Relay : /\ relayPc'[o] \in {"claimed", "acked"}
                                              /\ claimedRow[o] = q.id
    BY <1>2 DEF OrderInv, FaultlessInv
  <2>2. \A q \in outbox : Sent(q)' =>
           \/ q.published
           \/ \E o \in Relay : relayPc'[o] = "acked" /\ claimedRow[o] = q.id
    BY <1>1, <1>2, <1>3 DEF OrderInv, FaultlessInv
  <2>3. \A a, b \in outbox : a.item = b.item /\ a.id < b.id /\ Sent(b)' => Sent(a)'
    BY <1>3, <1>4, <1>7 DEF OrderInv, FaultlessInv
  <2> QED
    BY <2>1, <2>2, <2>3
<1>9. OrderedBeforeFaults'
  <2> SUFFICES ASSUME faults = 0, NEW j \in DOMAIN topic', NEW k \in DOMAIN topic', j < k,
                      topic'[j].item = topic'[k].item
               PROVE  topic'[j].version < topic'[k].version
    BY <1>1 DEF OrderedBeforeFaults
  <2>1. r \in OutboxRow
    BY DEF ServiceInv, RepositoryInv, RepositoryTypeOK
  <2>2. /\ Len(topic) \in Nat
        /\ DOMAIN topic = 1 .. Len(topic)
        /\ DOMAIN topic' = 1 .. Len(topic) + 1
        /\ \A m \in 1 .. Len(topic) : topic'[m] = topic[m]
        /\ topic'[Len(topic) + 1] = Event(r)
    BY <1>1, <2>1, AppendedEvent DEF ServiceInv, LogInv
  <2>3. j \in DOMAIN topic /\ topic'[j] = topic[j]
    BY <2>2
  <2>4. CASE k \in DOMAIN topic
    BY <2>2, <2>3, <2>4 DEF OrderInv, OrderedBeforeFaults
  <2>5. CASE k = Len(topic) + 1
    <3>1. PICK q \in outbox : topic[j] = Event(q)
      BY <2>3 DEF ServiceInv, LogInv
    <3>2. Sent(q) /\ q.item = r.item
      BY <2>2, <2>3, <2>5, <3>1 DEF Sent, Event
    <3>3. q.id < r.id
      <4>1. q.id \in Nat /\ r.id \in Nat
        BY DEF ServiceInv, RepositoryInv, RepositoryTypeOK, OutboxRow
      <4>2. q.id # r.id
        BY <1>4, <1>7, <3>2
      <4>3. ~(r.id < q.id)
        BY <1>7, <3>2
      <4> QED
        BY <4>1, <4>2, <4>3
    <3>4. q.version < r.version
      BY <3>2, <3>3 DEF ServiceInv, RepositoryInv, TableInv, IdsFollowVersions
    <3> QED
      BY <2>2, <2>3, <2>5, <3>1, <3>4 DEF Event
  <2> QED
    BY <2>2, <2>4, <2>5
<1>10. PublishedWasSent' /\ OvertakenOnlyIfGivenUp' /\ LateOnlyIfGivenUp'
  BY <1>1, SendKeepsOvertaking
<1>11. GivenUpInv'
  BY <1>1, <1>2, <1>3 DEF OrderInv, GivenUpInv
<1> QED
  BY <1>5, <1>6, <1>8, <1>9, <1>10, <1>11 DEF OrderInv

LEMMA MarkingKeepsOrder ==
    ASSUME OneRelay, ServiceInv, OrderInv, NEW p \in Relay, NEW r \in outbox,
           MarkPublished(p, r)
    PROVE  OrderInv'
<1> DEFINE s == [r EXCEPT !.published = TRUE]
<1>1. /\ relayPc[p] = "acked" /\ claimedRow[p] = r.id
      /\ SetRow(r, s) /\ topic' = topic /\ faults' = faults /\ givenUp' = givenUp
      /\ relayPc' = [relayPc EXCEPT ![p] = "idle"]
      /\ claimedRow' = [claimedRow EXCEPT ![p] = 0]
  BY DEF MarkPublished
<1>2. outbox \subseteq OutboxRow
  BY DEF ServiceInv, RepositoryInv, RepositoryTypeOK
<1>3. SameEvent(s, r) /\ s.published /\ s.claim = r.claim
  BY <1>2 DEF SameEvent, OutboxRow
<1> HIDE DEF s
<1>4. /\ outbox' = (outbox \ {r}) \cup {s}
      /\ \A q \in outbox' : q = s \/ (q \in outbox /\ q.id # r.id)
      /\ \A q \in outbox : q.id # r.id => q \in outbox'
      /\ \A q \in outbox : q.id = r.id => q = r
  BY <1>1, <1>3, RowReplaced DEF ServiceInv
<1>5. relayPc'[p] = "idle" /\ claimedRow'[p] = 0 /\ \A q \in Relay : q = p
  BY <1>1 DEF OneRelay, OrderInv, RelayStateOK
<1>6. /\ \A q : Sent(q)' <=> Sent(q)
      /\ Sent(s) <=> Sent(r)
  BY <1>1, <1>3 DEF Sent, SameEvent
<1>7. RelayStateOK' /\ IdleInv'
  BY <1>1, <1>5 DEF OrderInv, RelayStateOK, IdleInv
<1>8. WorkInv'
  <2>1. \A q \in outbox' : q.id # 0
    BY <1>2, <1>3, <1>4 DEF OutboxRow, SameEvent
  <2> QED
    BY <1>5, <2>1 DEF WorkInv
<1>9. Sent(r)
  BY <1>1 DEF OrderInv, WorkInv
<1>10. FaultlessInv'
  BY <1>1, <1>3, <1>4, <1>5, <1>6 DEF OrderInv, FaultlessInv, SameEvent
<1>11. PublishedWasSent' /\ OvertakenOnlyIfGivenUp' /\ OrderedBeforeFaults' /\ LateOnlyIfGivenUp'
  BY <1>1, <1>3, <1>4, <1>6, <1>9
     DEF OrderInv, PublishedWasSent, OvertakenOnlyIfGivenUp,
         OrderedBeforeFaults, LateOnlyIfGivenUp, SameEvent
<1>12. GivenUpInv'
  BY <1>1, <1>3, <1>4, <1>5, <1>6 DEF OrderInv, GivenUpInv, SameEvent
<1> QED
  BY <1>7, <1>8, <1>10, <1>11, <1>12 DEF OrderInv

(* A send or a transaction that fails, or a crash, is a fault; the claim   *)
(* of the row, if it was committed, stays behind.                          *)
LEMMA GivingUpKeepsOrder ==
    ASSUME OneRelay, ServiceInv, OrderInv, NEW p \in Relay,
           Abort(p) \/ \E r \in outbox : SendTimesOut(p, r)
    PROVE  OrderInv'
<1>1. /\ outbox' = outbox /\ faults' = faults + 1
      /\ relayPc' = [relayPc EXCEPT ![p] = "idle"]
      /\ claimedRow' = [claimedRow EXCEPT ![p] = 0]
  BY DEF Abort, SendTimesOut, Fault
<1>2. relayPc'[p] = "idle" /\ claimedRow'[p] = 0 /\ \A q \in Relay : q = p
  BY <1>1 DEF OneRelay, OrderInv, RelayStateOK
<1>3. faults' \in Nat /\ faults' # 0
  BY <1>1 DEF OrderInv, RelayStateOK
<1>4. RelayStateOK' /\ IdleInv'
  BY <1>1, <1>2, <1>3 DEF OrderInv, RelayStateOK, IdleInv
<1>5. WorkInv'
  <2>1. \A q \in outbox : q.id # 0
    BY DEF ServiceInv, RepositoryInv, RepositoryTypeOK, OutboxRow
  <2> QED
    BY <1>1, <1>2, <2>1 DEF WorkInv
<1>6. FaultlessInv' /\ OrderedBeforeFaults'
  BY <1>3 DEF FaultlessInv, OrderedBeforeFaults
<1>7. PublishedWasSent' /\ OvertakenOnlyIfGivenUp' /\ LateOnlyIfGivenUp' /\ GivenUpInv'
  <2>1. CASE Abort(p)
    <3>1. /\ topic' = topic /\ givenUp \subseteq givenUp'
          /\ relayPc[p] = "claimed" => claimedRow[p] \in givenUp'
      BY <2>1 DEF Abort
    <3>2. \A q : Sent(q)' <=> Sent(q)
      BY <3>1 DEF Sent
    <3>3. GivenUpInv'
      BY <1>1, <1>2, <3>1, <3>2 DEF OrderInv, GivenUpInv
    <3> QED
      BY <1>1, <3>1, <3>2, <3>3
         DEF OrderInv, PublishedWasSent, OvertakenOnlyIfGivenUp, LateOnlyIfGivenUp
  <2>2. ASSUME NEW r \in outbox, SendTimesOut(p, r)
        PROVE  PublishedWasSent' /\ OvertakenOnlyIfGivenUp' /\ LateOnlyIfGivenUp' /\ GivenUpInv'
    <3>1. /\ relayPc[p] = "claimed" /\ claimedRow[p] = r.id
          /\ topic' = Append(topic, Event(r)) /\ givenUp' = givenUp
      BY <2>2 DEF SendTimesOut
    <3>2. \A q : Sent(q)' <=> (Sent(q) \/ q.id = r.id)
      BY <3>1, SentAfter
    <3>3. GivenUpInv'
      BY <1>1, <1>2, <3>1, <3>2 DEF OrderInv, GivenUpInv
    <3> QED
      BY <1>1, <3>1, <3>3, SendKeepsOvertaking
  <2> QED
    BY <2>1, <2>2
<1> QED
  BY <1>4, <1>5, <1>6, <1>7 DEF OrderInv

(* A lease only ends on a claimed row, which stays claimed; until the      *)
(* first fault there is none that is not being worked on.                  *)
LEMMA LeaseEndKeepsOrder ==
    ASSUME OneRelay, ServiceInv, OrderInv, NEW r \in outbox,
           LeaseExpires(r) \/ LeaseOverrun(r)
    PROVE  OrderInv'
<1> DEFINE s == [r EXCEPT !.claim = "stale"]
<1>1. /\ r.claim = "held" /\ ~r.published
      /\ SetRow(r, s) /\ topic' = topic /\ givenUp' = givenUp
      /\ relayPc' = relayPc /\ claimedRow' = claimedRow
  BY DEF LeaseExpires, LeaseOverrun
<1>2. outbox \subseteq OutboxRow
  BY DEF ServiceInv, RepositoryInv, RepositoryTypeOK
<1>3. SameEvent(s, r) /\ s.published = r.published /\ s.claim = "stale"
  BY <1>2 DEF SameEvent, OutboxRow
<1> HIDE DEF s
<1>4. /\ outbox' = (outbox \ {r}) \cup {s}
      /\ \A q \in outbox' : q = s \/ (q \in outbox /\ q.id # r.id)
      /\ \A q \in outbox : q.id # r.id => q \in outbox'
      /\ \A q \in outbox : q.id = r.id => q = r
  BY <1>1, <1>3, RowReplaced DEF ServiceInv
<1>5. /\ \A q : Sent(q)' <=> Sent(q)
      /\ Sent(s) <=> Sent(r)
  BY <1>1, <1>3 DEF Sent, SameEvent
<1>6. faults' \in Nat /\ faults' # 0
  <2>1. CASE LeaseExpires(r)
    <3>1. faults' = faults /\ ~WorkedOn(r)
      BY <2>1 DEF LeaseExpires
    <3>2. faults # 0
      BY <1>1, <3>1 DEF OrderInv, FaultlessInv, WorkedOn
    <3> QED
      BY <3>1, <3>2 DEF OrderInv, RelayStateOK
  <2>2. CASE LeaseOverrun(r)
    BY <2>2 DEF LeaseOverrun, Fault, OrderInv, RelayStateOK
  <2> QED
    BY <2>1, <2>2
<1>7. RelayStateOK' /\ IdleInv'
  BY <1>1, <1>6 DEF OrderInv, RelayStateOK, IdleInv
<1>8. WorkInv'
  BY <1>1, <1>3, <1>4, <1>5 DEF OrderInv, WorkInv, SameEvent
<1>9. FaultlessInv' /\ OrderedBeforeFaults'
  BY <1>6 DEF FaultlessInv, OrderedBeforeFaults
<1>10. PublishedWasSent' /\ OvertakenOnlyIfGivenUp' /\ LateOnlyIfGivenUp'
  BY <1>1, <1>3, <1>4, <1>5
     DEF OrderInv, PublishedWasSent, OvertakenOnlyIfGivenUp,
         LateOnlyIfGivenUp, SameEvent
<1>11. GivenUpInv'
  BY <1>1, <1>3, <1>4, <1>5 DEF OrderInv, GivenUpInv, SameEvent
<1> QED
  BY <1>7, <1>8, <1>9, <1>10, <1>11 DEF OrderInv

LEMMA OrderStep ==
    ASSUME ObservedVersions, OneRelay, ServiceInv, OrderInv, [ServiceNext]_serviceVars
    PROVE  OrderInv'
<1>1. CASE outbox' = outbox /\ UNCHANGED relayOwn
  <2>1. /\ relayPc' = relayPc /\ claimedRow' = claimedRow /\ topic' = topic
        /\ faults' = faults /\ outbox' = outbox /\ givenUp' = givenUp
    BY <1>1 DEF relayOwn
  <2>2. \A q : Sent(q)' <=> Sent(q)
    BY <2>1 DEF Sent
  <2>3. RelayStateOK' /\ IdleInv' /\ WorkInv'
    BY <2>1, <2>2 DEF OrderInv, RelayStateOK, IdleInv, WorkInv
  <2>4. FaultlessInv'
    BY <2>1, <2>2 DEF OrderInv, FaultlessInv
  <2>5. PublishedWasSent' /\ OvertakenOnlyIfGivenUp' /\ OrderedBeforeFaults' /\ LateOnlyIfGivenUp'
    BY <2>1, <2>2 DEF OrderInv, PublishedWasSent, OvertakenOnlyIfGivenUp, OrderedBeforeFaults,
         LateOnlyIfGivenUp
  <2>6. GivenUpInv'
    BY <2>1, <2>2 DEF OrderInv, GivenUpInv
  <2> QED
    BY <2>3, <2>4, <2>5, <2>6 DEF OrderInv
<1>2. CASE RepositoryNext /\ UNCHANGED relayOwn
  <2>1. RepositoryInv
    BY DEF ServiceInv
  <2> QED
    BY <1>1, <1>2, <2>1, RepositoryGrowsOutbox, NewRowKeepsOrder
<1>3. ASSUME NEW r \in outbox, LeaseExpires(r) \/ LeaseOverrun(r) PROVE OrderInv'
  BY <1>3, LeaseEndKeepsOrder
<1>4. ASSUME NEW p \in Relay, Abort(p) \/ \E r \in outbox : SendTimesOut(p, r)
      PROVE  OrderInv'
  BY <1>4, GivingUpKeepsOrder
<1>5. ASSUME NEW p \in Relay, NEW r \in outbox, RelayStep(p, r) PROVE OrderInv'
  BY <1>5, LockingKeepsOrder, ClaimingKeepsOrder, SendingKeepsOrder, MarkingKeepsOrder
     DEF RelayStep
<1>6. CASE RelayNext
  BY <1>3, <1>4, <1>5, <1>6 DEF RelayNext
<1>7. CASE UNCHANGED serviceVars
  BY <1>1, <1>7 DEF serviceVars, vars
<1> QED
  BY <1>2, <1>6, <1>7 DEF ServiceNext

(* With one relay instance, and whatever the requests do meanwhile, the    *)
(* relay's invariant is kept.                                              *)
THEOREM OneRelayInvariance ==
    ASSUME ObservedVersions, OneRelay
    PROVE  ServiceSpec => [](ServiceInv /\ OrderInv)
<1>1. ServiceInit => ServiceInv /\ OrderInv
  BY ServiceInitial, OrderInitial
<1>2. ServiceInv /\ OrderInv /\ [ServiceNext]_serviceVars => ServiceInv' /\ OrderInv'
  BY ServiceStep, OrderStep
<1> QED
  BY <1>1, <1>2, PTL DEF ServiceSpec

(* With one relay instance consumers see the events of an item in the      *)
(* order of its versions, although the relay knows only row ids, drawn     *)
(* before the transactions commit; after a fault one is only late as a     *)
(* repetition, or because its row was claimed and not sent.                *)
THEOREM EventsFollowVersions ==
    ASSUME ObservedVersions, OneRelay
    PROVE  ServiceSpec => []PublishedInOrder
<1>1. ServiceInv /\ OrderInv => PublishedInOrder
  <2> SUFFICES ASSUME ServiceInv, OrderInv, NEW k \in DOMAIN topic, NEW j \in 1 .. k - 1,
                      topic[j].item = topic[k].item, topic[j].version >= topic[k].version
               PROVE  /\ faults > 0
                      /\ \/ topic[k].eventId \in givenUp
                         \/ \E l \in 1 .. k - 1 : topic[l] = topic[k]
    BY DEF PublishedInOrder
  <2>1. topic \in Seq(MenuEvent)
    BY DEF ServiceInv, LogInv
  <2>2. j \in DOMAIN topic /\ j < k
    BY <2>1
  <2>3. topic[j].version \in Nat /\ topic[k].version \in Nat
    <3>1. topic[j] \in MenuEvent /\ topic[k] \in MenuEvent
      BY <2>1, <2>2
    <3> QED
      BY <3>1 DEF MenuEvent
  <2>4. faults \in Nat /\ faults # 0
    BY <2>2, <2>3 DEF OrderInv, RelayStateOK, OrderedBeforeFaults
  <2> QED
    BY <2>4 DEF OrderInv, LateOnlyIfGivenUp
<1> QED
  BY <1>1, OneRelayInvariance, PTL

-----------------------------------------------------------------------------
(* From the menu to the availability of an item: what MenuEventConsumer's  *)
(* proofs say of every topic is said of the one that menu-service writes.  *)
CP == INSTANCE MenuEventConsumerProofs
        WITH EventIds <- 1 .. MaxOutboxId, Scripts <- Seq(TopicEvent),
             faults <- consumerFaults, MaxFaults <- MaxConsumerFaults

(* The sequence hands out no id that a consumer would not expect.          *)
IdBoundInv == nextOutboxId <= MaxOutboxId + 1

(* The event of a deleted item's last version is the delete.               *)
DeletedInv ==
    \A r \in outbox :
        r.version = items[r.item].version =>
            (items[r.item].status = "deleted" <=> r.type = "ItemDeleted")

PathInv == ServiceInv /\ OrderInv /\ IdBoundInv /\ DeletedInv /\ CP!RestInv

LEMMA TopicEventIsMenuEvent == TopicEvent = CP!MenuEvent
BY DEF TopicEvent, CP!MenuEvent, EventType

LEMMA PathConstants == CP!ConsumerAssumption
<1>1. Seq(TopicEvent) \subseteq Seq(CP!MenuEvent)
  BY TopicEventIsMenuEvent
<1>2. Consumer!Status = CP!Status /\ Consumer!AllFaults = CP!AllFaults
  BY DEF Consumer!Status, CP!Status, Consumer!AllFaults, CP!AllFaults
<1> QED
  BY <1>1, <1>2, PathAssumption DEF CP!ConsumerAssumption

LEMMA IdBoundKept ==
    ASSUME ServiceInv, IdBoundInv, [ServiceNext]_serviceVars
    PROVE  IdBoundInv'
<1>1. nextOutboxId \in Nat /\ MaxOutboxId \in Nat
  BY RepositoryAssumption DEF ServiceInv, RepositoryInv, RepositoryTypeOK
<1>2. \/ nextOutboxId' = nextOutboxId
      \/ nextOutboxId <= MaxOutboxId /\ nextOutboxId' = nextOutboxId + 1
  <2>1. CASE RepositoryNext
    BY <2>1 DEF RepositoryNext, CreateVenue, Begin, TxStep, Create, SelectExisting,
                ConditionalUpdate, CurrentItemResponse, Commit, CommitUnacknowledged,
                Rollback, Respond, WriteRows
  <2> QED
    BY <2>1 DEF ServiceNext, repositoryOwn, serviceVars, vars
<1> QED
  BY <1>1, <1>2 DEF IdBoundInv

LEMMA DeletedKept ==
    ASSUME ObservedVersions, ServiceInv, DeletedInv, [ServiceNext]_serviceVars
    PROVE  DeletedInv'
<1>1. ASSUME NEW t \in Tx, pc[t] = "written", CommitRows(t) PROVE DeletedInv'
  <2> DEFINE n == OutboxEvent(t)
             i == request[t].item
  <2>1. /\ outbox' = outbox \cup {n} /\ i \in Item /\ request[t].op \in Op
        /\ items' = [items EXCEPT ![i] = WrittenItem(t)]
        /\ items \in [Item -> ItemRow] /\ outbox \subseteq OutboxRow
    BY <1>1 DEF CommitRows, ServiceInv, RepositoryInv, RepositoryTypeOK, TxInv, RequestInv,
                Active, Request
  <2>2. /\ n.item = i /\ n.version = NewVersion(t)
        /\ n.type = "ItemDeleted" <=> request[t].op = "delete"
    BY <2>1 DEF OutboxEvent, EventTypeOf, Op
  <2>3. WrittenItem(t).status = "deleted" <=> request[t].op = "delete"
    BY DEF WrittenItem
  <2>4. WrittenItem(t).version = NewVersion(t)
    BY DEF WrittenItem
  <2>5. \A r \in outbox : r.item = i => r.version # NewVersion(t)
    <3> SUFFICES ASSUME NEW r \in outbox, r.item = i PROVE r.version # NewVersion(t)
      OBVIOUS
    <3>1. items[i].status # "absent" /\ r.version <= items[i].version
      BY DEF ServiceInv, RepositoryInv, TableInv, EventOfWriteInv
    <3>2. request[t].op # "create"
      BY <1>1, <3>1 DEF ServiceInv, RepositoryInv, TxInv, RequestInv, Active, Creating
    <3>3. existing[t] = items[i].version /\ items[i].version \in Nat
      BY <1>1, <2>1, <3>2 DEF ServiceInv, RepositoryInv, TxInv, WrittenInv, ItemRow
    <3>4. r.version \in Nat
      BY <2>1 DEF OutboxRow
    <3> QED
      BY <3>1, <3>2, <3>3, <3>4 DEF NewVersion
  <2> HIDE DEF n, i
  <2> SUFFICES ASSUME NEW r \in outbox', r.version = items'[r.item].version
               PROVE  items'[r.item].status = "deleted" <=> r.type = "ItemDeleted"
    BY DEF DeletedInv
  <2>6. CASE r.item = i
    <3>1. r = n
      BY <2>1, <2>4, <2>5, <2>6
    <3> QED
      BY <2>1, <2>2, <2>3, <2>6, <3>1
  <2>7. CASE r.item # i
    <3>1. r \in outbox
      BY <2>1, <2>2, <2>7
    <3>2. items'[r.item] = items[r.item]
      BY <2>1, <2>7, <3>1 DEF OutboxRow
    <3> QED
      BY <3>1, <3>2 DEF DeletedInv
  <2> QED
    BY <2>6, <2>7
<1>2. CASE RelayNext /\ UNCHANGED repositoryOwn
  <2>1. \A q \in outbox' : \E r \in outbox : SameEvent(q, r)
    BY <1>2, RelayKeepsEvents DEF ServiceInv
  <2> QED
    BY <1>2, <2>1 DEF DeletedInv, SameEvent, repositoryOwn
<1>3. CASE items' = items /\ outbox' = outbox
  BY <1>3 DEF DeletedInv
<1>4. ASSUME NEW t \in Tx, TxStep(t), ~(pc[t] = "written" /\ CommitRows(t))
      PROVE  items' = items /\ outbox' = outbox
  BY <1>4 DEF TxStep, Create, SelectExisting, ConditionalUpdate, CurrentItemResponse, Commit,
              CommitUnacknowledged, Rollback, Respond
<1>5. CASE RepositoryNext
  BY <1>1, <1>3, <1>4, <1>5 DEF RepositoryNext, CreateVenue, Begin
<1> QED
  BY <1>2, <1>3, <1>5 DEF ServiceNext, serviceVars, vars

(* What the relay appends to the topic is an event that the consumer's     *)
(* module expects there.                                                   *)
LEMMA SendIsProduced ==
    ASSUME ServiceInv, IdBoundInv, CP!RestInv, UNCHANGED consumerOwn,
           NEW r \in outbox, topic' = Append(topic, Event(r))
    PROVE  CP!Produce
<1> DEFINE e == Event(r)
<1>1. e \in TopicEvent
  <2>1. r \in OutboxRow /\ nextOutboxId \in Nat /\ r.id < nextOutboxId
    BY DEF ServiceInv, RepositoryInv, RepositoryTypeOK, TxInv, OutboxIdInv
  <2>2. r.id \in 1 .. MaxOutboxId
    BY <2>1, RepositoryAssumption DEF IdBoundInv, OutboxRow
  <2> QED
    BY <2>1, <2>2 DEF Event, TopicEvent, OutboxRow
<1>2. topic \in Seq(TopicEvent)
  BY TopicEventIsMenuEvent DEF CP!RestInv, CP!ConsumerInv, CP!ConsumerTypeOK
<1> HIDE DEF e
<1> DEFINE s == Append(topic, e)
<1>3. /\ s \in Seq(TopicEvent) /\ Len(topic) \in Nat /\ Len(s) = Len(topic) + 1
      /\ s[Len(topic) + 1] = e
      /\ \A n \in 1 .. Len(topic) : s[n] = topic[n]
  BY <1>1, <1>2
<1>4. SubSeq(s, 1, Len(topic)) = topic
  BY <1>1, <1>2
<1>5. topic' = Append(topic, s[Len(topic) + 1])
  BY <1>3 DEF e
<1> HIDE DEF s
<1>6. UNCHANGED <<committed, position, loop, next, anyFailed, handler, lastEvent, paused,
                  redisUnreachable, processed, redis, audited, override, thrown, interrupted,
                  overwritten, unanswered, replays, consumerFaults>>
  BY DEF consumerOwn
<1> QED
  BY <1>3, <1>4, <1>5, <1>6
     DEF CP!Produce, CP!loopVars, CP!chaosVars, CP!storeVars, CP!history

LEMMA ServiceStepSeen ==
    ASSUME ServiceInv, IdBoundInv, CP!RestInv, [ServiceNext]_serviceVars, UNCHANGED consumerOwn
    PROVE  [CP!ConsumerNext]_(CP!vars)
<1>1. CASE topic' = topic
  BY <1>1 DEF consumerOwn, CP!vars, CP!kafkaVars, CP!loopVars, CP!chaosVars, CP!storeVars,
              CP!history
<1>2. ASSUME NEW r \in outbox, topic' = Append(topic, Event(r)) PROVE CP!Produce
  BY <1>2, SendIsProduced
<1>3. topic' = topic \/ RelayNext
  BY DEF ServiceNext, serviceVars, relayOwn
<1> QED
  BY <1>1, <1>2, <1>3, RelayTopic DEF CP!ConsumerNext

(* The two instances of MenuEventConsumer say the same.                    *)
LEMMA ConsumerStepSeen ==
    ASSUME Consumer!AvailabilityNext
    PROVE  CP!AvailabilityNext /\ topic' = topic
<1> USE DEF Consumer!kafkaVars, Consumer!loopVars, Consumer!chaosVars, Consumer!storeVars,
            Consumer!history, Consumer!NoFault, Consumer!Fault, Consumer!Handler, Consumer!Idle,
            Consumer!Absent, Consumer!NoOverride,
            CP!kafkaVars, CP!loopVars, CP!chaosVars, CP!storeVars,
            CP!history, CP!NoFault, CP!Fault, CP!Handler, CP!Idle, CP!Absent, CP!NoOverride
<1>1. Consumer!Poll => CP!Poll /\ topic' = topic
  BY DEF Consumer!Poll, CP!Poll
<1>2. Consumer!ProcessRecord => CP!ProcessRecord /\ topic' = topic
  BY DEF Consumer!ProcessRecord, CP!ProcessRecord
<1>3. Consumer!EndBatch => CP!EndBatch /\ topic' = topic
  BY DEF Consumer!EndBatch, CP!EndBatch
<1>4. Consumer!Rejoin => CP!Rejoin /\ topic' = topic
  BY DEF Consumer!Rejoin, CP!Rejoin
<1>5. \A h \in Consumer!Handler : Consumer!HandleEvent(h) => CP!HandleEvent(h) /\ topic' = topic
  <2> SUFFICES ASSUME NEW h \in Consumer!Handler
               PROVE  Consumer!HandleEvent(h) => CP!HandleEvent(h) /\ topic' = topic
    OBVIOUS
  <2> USE DEF Consumer!EventOf, CP!EventOf, Consumer!Goto, CP!Goto, Consumer!Return, CP!Return,
              Consumer!EventState, CP!EventState, Consumer!RedisTakes, CP!RedisTakes,
              Consumer!OneMore, CP!OneMore
  <2>1. Consumer!MarkProcessedIfNew(h) => CP!MarkProcessedIfNew(h) /\ topic' = topic
    BY DEF Consumer!MarkProcessedIfNew, CP!MarkProcessedIfNew
  <2>2. Consumer!PutState(h) => CP!PutState(h) /\ topic' = topic
    BY DEF Consumer!PutState, CP!PutState
  <2>3. Consumer!AppendAudit(h) => CP!AppendAudit(h) /\ topic' = topic
    BY DEF Consumer!AppendAudit, CP!AppendAudit
  <2>4. Consumer!UnmarkProcessed(h) => CP!UnmarkProcessed(h) /\ topic' = topic
    BY DEF Consumer!UnmarkProcessed, CP!UnmarkProcessed
  <2> QED
    BY <2>1, <2>2, <2>3, <2>4 DEF Consumer!HandleEvent, CP!HandleEvent
<1>6. Consumer!ReplayLastEvent => CP!ReplayLastEvent /\ topic' = topic
  BY DEF Consumer!ReplayLastEvent, CP!ReplayLastEvent
<1>7. \A i \in Item : Consumer!OverrideRead(i) => CP!OverrideRead(i) /\ topic' = topic
  BY DEF Consumer!OverrideRead, CP!OverrideRead
<1>8. Consumer!OverridePut => CP!OverridePut /\ topic' = topic
  BY DEF Consumer!OverridePut, CP!OverridePut
<1>9. \A b \in BOOLEAN : Consumer!SetPaused(b) => CP!SetPaused(b) /\ topic' = topic
  BY DEF Consumer!SetPaused, CP!SetPaused
<1>10. \A b \in BOOLEAN :
         Consumer!SetRedisUnreachable(b) => CP!SetRedisUnreachable(b) /\ topic' = topic
  BY DEF Consumer!SetRedisUnreachable, CP!SetRedisUnreachable
<1>11. Consumer!Crash => CP!Crash /\ topic' = topic
  BY DEF Consumer!Crash, CP!Crash, Consumer!Handling, CP!Handling, Consumer!EventOf, CP!EventOf
<1> QED
  BY <1>1, <1>2, <1>3, <1>4, <1>5, <1>6, <1>7, <1>8, <1>9, <1>10, <1>11
     DEF Consumer!AvailabilityNext, CP!AvailabilityNext, Consumer!LoopStep, CP!LoopStep

LEMMA PathInitial == ASSUME PathInit PROVE PathInv
<1>1. ServiceInv /\ OrderInv
  BY ServiceInitial, OrderInitial DEF PathInit
<1>2. IdBoundInv /\ DeletedInv
  BY RepositoryAssumption DEF PathInit, ServiceInit, RepositoryInit, IdBoundInv, DeletedInv
<1>3. CP!ConsumerInit
  BY DEF PathInit, Consumer!ConsumerInit, CP!ConsumerInit, Consumer!Handler, CP!Handler,
         Consumer!Idle, CP!Idle, Consumer!Absent, CP!Absent, Consumer!NoOverride,
         CP!NoOverride
<1>4. CP!RestInv
  BY <1>3, PathConstants, CP!RestInitial
<1> QED
  BY <1>1, <1>2, <1>4 DEF PathInv

LEMMA PathStep ==
    ASSUME ObservedVersions, OneRelay, PathInv, [PathNext]_<<serviceVars, consumerOwn>>
    PROVE  PathInv'
<1>1. [ServiceNext]_serviceVars
  <2>1. CASE Consumer!AvailabilityNext /\ UNCHANGED serviceOwn
    BY <2>1, ConsumerStepSeen DEF serviceOwn, serviceVars, relayOwn
  <2> QED
    BY <2>1 DEF PathNext
<1>2. [CP!ConsumerNext]_(CP!vars)
  <2>1. CASE UNCHANGED consumerOwn
    BY <1>1, <2>1, ServiceStepSeen DEF PathInv
  <2>2. CASE Consumer!AvailabilityNext
    BY <2>2, ConsumerStepSeen DEF CP!ConsumerNext
  <2> QED
    BY <2>1, <2>2 DEF PathNext
<1>3. ServiceInv' /\ OrderInv'
  BY <1>1, ServiceStep, OrderStep DEF PathInv
<1>4. IdBoundInv' /\ DeletedInv'
  BY <1>1, IdBoundKept, DeletedKept DEF PathInv
<1>5. CP!RestInv'
  BY <1>2, PathConstants, CP!RestStep DEF PathInv
<1> QED
  BY <1>3, <1>4, <1>5 DEF PathInv

(* The topic holds the events of an item in order, as long as the relay    *)
(* has given none of them up.                                              *)
LEMMA TopicInOrder ==
    ASSUME ServiceInv, OrderInv, NEW i \in Item,
           \A r \in outbox : r.item = i => r.id \notin givenUp
    PROVE  CP!InOrder(i)
<1>1. topic \in Seq(MenuEvent) /\ \A k \in DOMAIN topic : \E r \in outbox : topic[k] = Event(r)
  BY DEF ServiceInv, LogInv
<1>2. ASSUME NEW k \in DOMAIN topic, NEW l \in DOMAIN topic,
             topic[k].eventId = topic[l].eventId \/ CP!SameVersion(topic[k], topic[l])
      PROVE  topic[k] = topic[l]
  <2>1. PICK r \in outbox : topic[k] = Event(r)
    BY <1>1
  <2>2. PICK q \in outbox : topic[l] = Event(q)
    BY <1>1
  <2>3. r.id = q.id \/ (r.item = q.item /\ r.version = q.version)
    BY <1>2, <2>1, <2>2 DEF Event, CP!SameVersion
  <2>4. r = q
    BY <2>3 DEF ServiceInv, RepositoryInv, TableInv, OutboxKeyInv, OneEventPerVersion
  <2> QED
    BY <2>1, <2>2, <2>4
<1>3. ASSUME NEW k \in DOMAIN topic, topic[k].item = i
      PROVE  \/ \E l \in 1 .. k - 1 : topic[l] = topic[k]
             \/ \A l \in 1 .. k - 1 : topic[l].item = i => topic[l].version < topic[k].version
  <2>1. PICK r \in outbox : topic[k] = Event(r)
    BY <1>1
  <2>2. topic[k].eventId \notin givenUp
    BY <1>3, <2>1 DEF Event
  <2>3. CASE \E l \in 1 .. k - 1 : topic[l] = topic[k]
    BY <2>3
  <2>4. CASE ~ \E l \in 1 .. k - 1 : topic[l] = topic[k]
    <3> SUFFICES ASSUME NEW l \in 1 .. k - 1, topic[l].item = i
                 PROVE  topic[l].version < topic[k].version
      OBVIOUS
    <3>1. ~(topic[l].version >= topic[k].version)
      BY <1>3, <2>2, <2>4 DEF OrderInv, LateOnlyIfGivenUp
    <3>2. topic[l] \in MenuEvent /\ topic[k] \in MenuEvent
      BY <1>1
    <3>3. topic[l].version \in Nat /\ topic[k].version \in Nat
      BY <3>2 DEF MenuEvent
    <3> QED
      BY <3>1, <3>3
  <2> QED
    BY <2>3, <2>4
<1> QED
  BY <1>2, <1>3 DEF CP!InOrder

(* The event of the row's present version is in the topic, is the newest   *)
(* one there and tells whether the row is deleted.                         *)
LEMMA NewestEvent ==
    ASSUME ServiceInv, OrderInv, DeletedInv, NEW i \in Item, items[i].status # "absent",
           \A r \in outbox : r.item = i => r.published
    PROVE  \E k \in DOMAIN topic :
              /\ topic[k].item = i /\ CP!Newest(topic[k])
              /\ CP!EventState(topic[k]) =
                   [status |-> IF items[i].status = "live" THEN "in_stock" ELSE "sold_out",
                    version |-> items[i].version]
<1>1. items[i] \in ItemRow
  BY DEF ServiceInv, RepositoryInv, RepositoryTypeOK
<1>2. PICK r \in outbox : r.item = i /\ r.version = items[i].version
  <2>1. items[i].version \in 0 .. items[i].version
    BY <1>1 DEF ItemRow
  <2> QED
    BY <2>1 DEF ServiceInv, RepositoryInv, TableInv, WriteHasEventInv
<1>3. PICK k \in DOMAIN topic : topic[k].eventId = r.id
  BY <1>2 DEF OrderInv, PublishedWasSent, Sent
<1>4. topic[k] = Event(r)
  <2>1. PICK q \in outbox : topic[k] = Event(q)
    BY DEF ServiceInv, LogInv
  <2>2. q = r
    BY <1>3, <2>1 DEF Event, ServiceInv, RepositoryInv, TableInv, OutboxKeyInv
  <2> QED
    BY <2>1, <2>2
<1>5. CP!Newest(topic[k])
  <2> SUFFICES ASSUME NEW l \in DOMAIN topic, topic[l].item = i
               PROVE  topic[l].version <= items[i].version
    BY <1>2, <1>4 DEF CP!Newest, Event
  <2>1. PICK q \in outbox : topic[l] = Event(q)
    BY DEF ServiceInv, LogInv
  <2> QED
    BY <2>1 DEF Event, ServiceInv, RepositoryInv, TableInv, EventOfWriteInv
<1>6. items[i].status = "live" <=> r.type # "ItemDeleted"
  BY <1>1, <1>2 DEF DeletedInv, ItemRow
<1>7. CP!EventState(topic[k]) =
        [status |-> IF items[i].status = "live" THEN "in_stock" ELSE "sold_out",
         version |-> items[i].version]
  BY <1>2, <1>4, <1>6 DEF CP!EventState, Event
<1> QED
  BY <1>2, <1>4, <1>5, <1>7 DEF Event

LEMMA RestFollowsMenu == ASSUME PathInv PROVE AvailabilityFollowsMenu
<1> SUFFICES ASSUME Consumer!AtRest, NEW i \in Item, items[i].status # "absent",
                    \A r \in outbox : r.item = i =>
                        r.published /\ r.id \notin givenUp \cup thrown \cup interrupted,
                    i \notin overwritten
             PROVE  redis[i] =
                      [status |-> IF items[i].status = "live" THEN "in_stock" ELSE "sold_out",
                       version |-> items[i].version]
  BY DEF AvailabilityFollowsMenu
<1>1. CP!AtRest
  BY DEF Consumer!AtRest, CP!AtRest, Consumer!Handler, CP!Handler, Consumer!Idle, CP!Idle
<1>2. PICK k \in DOMAIN topic :
        /\ topic[k].item = i /\ CP!Newest(topic[k])
        /\ CP!EventState(topic[k]) =
             [status |-> IF items[i].status = "live" THEN "in_stock" ELSE "sold_out",
              version |-> items[i].version]
  BY NewestEvent DEF PathInv
<1>3. \A l \in DOMAIN topic : topic[l].item = i =>
        topic[l].eventId \notin thrown \cup interrupted
  <2> SUFFICES ASSUME NEW l \in DOMAIN topic, topic[l].item = i
               PROVE  topic[l].eventId \notin thrown \cup interrupted
    OBVIOUS
  <2>1. PICK r \in outbox : topic[l] = Event(r)
    BY DEF PathInv, ServiceInv, LogInv
  <2> QED
    BY <2>1 DEF Event
<1>4. CP!Undisturbed(i)
  BY <1>3, TopicInOrder DEF PathInv, CP!Undisturbed
<1>5. CP!NewestIsShown
  BY PathConstants, CP!RestShows DEF PathInv
<1> QED
  BY <1>1, <1>2, <1>3, <1>4, <1>5 DEF CP!NewestIsShown

(* A write in the menu comes through outbox, relay, topic and idempotent   *)
(* handler to the availability of its item: whatever the two services go   *)
(* through on the way, at rest the two tables only differ where a row was  *)
(* given up, an event threw or was cut off, or the state was put by hand.  *)
THEOREM MenuReachesAvailability ==
    ASSUME ObservedVersions, OneRelay
    PROVE  PathSpec => []AvailabilityFollowsMenu
<1>1. PathInit => PathInv
  BY PathInitial
<1>2. PathInv /\ [PathNext]_<<serviceVars, consumerOwn>> => PathInv'
  BY PathStep
<1>3. PathInv => AvailabilityFollowsMenu
  BY RestFollowsMenu
<1> QED
  BY <1>1, <1>2, <1>3, PTL DEF PathSpec
=============================================================================
