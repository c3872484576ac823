----------------------------- MODULE MenuEditor -----------------------------
(***************************************************************************)
(* merchant-web's menu editor: the items of one venue in the browser's     *)
(* query cache, inline price edits and reorders that are written to the    *)
(* cache before the server has answered, the banner after a 409, the venue *)
(* switcher, which changes the venue under a mounted editor, and           *)
(* menu-service, which other editors write to as well.                     *)
(*                                                                         *)
(* The items, the list and the fetch are those of one venue, home; of the  *)
(* other venues only their mutations that end for home matter, one at a    *)
(* time. A list is a function to rows; an item that is not in it is Gone.  *)
(* A mutation's onMutate awaits cancelQueries only, which settles within   *)
(* microtasks, so a click and its onMutate are one step.                   *)
(***************************************************************************)
EXTENDS Integers, Sequences, FiniteSets, SequencesExt

CONSTANTS
    Item,
    Price,
    MaxMutations,    \* edits and reorders of the merchant
    MaxOtherWrites,  \* writes by other editors
    MaxVisits,       \* how often the editor comes to this venue, to others before the last time
    FirstRows,       \* what menu-service has at first
    None, Gone, Loading

Row == [version : Nat, price : Price, pos : 0 .. Cardinality(Item) - 1]
Rows == [Item -> Row \cup {Gone}]

(* What became of a PUT, as the browser learns it.                         *)
Reply == [kind : {"waiting", "missing", "lost"}]
         \cup [kind : {"ok"}, row : Row]
         \cup [kind : {"conflict"}, row : Row \cup {Gone}]

Call == [body : Row, reply : Reply]

ASSUME EditorAssumption ==
    /\ Item # {} /\ IsFiniteSet(Item) /\ Price # {}
    /\ MaxMutations \in Nat /\ MaxOtherWrites \in Nat /\ MaxVisits \in Nat
    /\ FirstRows \in [Item -> [version : {0}, price : Price, pos : 0 .. Cardinality(Item) - 1]]
    /\ None \notin Item \cup Call /\ Gone \notin Row /\ Loading \notin Rows

VARIABLES
    server,      \* menu-service's rows
    cache,       \* query data of ["menu", "items", venueId]
    failed,      \* isError of that query
    fetch,       \* the GET in flight
    mutation,
    foreign,     \* a mutation begun for another venue, and who is rendered
    place,       \* where MenuEditor is mounted
    editing,     \* the item whose PriceCell is an input
    conflicts,
    otherWrites,
    visits,
    overlapped,  \* history: a mutation began while another one was pending
    strayed      \* history: the list may have rows whose rollback went elsewhere

query == <<cache, failed, fetch>>
editor == <<place, visits, editing, conflicts>>
vars == <<server, query, mutation, foreign, editor, otherWrites, overlapped, strayed>>

Mutation == 1 .. MaxMutations

Listed(rows) == {i \in Item : rows[i] # Gone}

Waiting == [kind |-> "waiting"]
Put(row) == [body |-> row, reply |-> Waiting]

(* here: its hook is still mounted; home: that was last rendered for this  *)
(* venue, so that the callbacks of the mutation mean this venue's list.    *)
Idle == [phase |-> "new", kind |-> "none", here |-> FALSE, home |-> FALSE, previous |-> Loading,
         calls |-> [i \in Item |-> None], undo |-> [i \in Item |-> None], since |-> 0]

Ended == [Idle EXCEPT !.phase = "settled"]

MutationState ==
    [phase : {"new", "running", "undoing", "settled"}, kind : {"none", "update", "reorder"},
     here : BOOLEAN, home : BOOLEAN, previous : Rows \cup {Loading},
     calls : [Item -> Call \cup {None}], undo : [Item -> Call \cup {None}],
     since : 0 .. MaxOtherWrites]

NoFetch == [state |-> "none", rows |-> Loading]
Sent == [state |-> "sent", rows |-> Loading]

EditorTypeOK ==
    /\ server \in Rows
    /\ cache \in Rows \cup {Loading} /\ failed \in BOOLEAN
    /\ fetch \in {NoFetch, Sent} \cup [state : {"answered"}, rows : Rows]
    /\ mutation \in [Mutation -> MutationState]
    /\ foreign \in {"none", "elsewhere", "home", "left"}
    /\ place \in {"nowhere", "home", "elsewhere"} /\ editing \in Item \cup {None}
    /\ visits \in 0 .. MaxVisits
    /\ conflicts \in [Item -> Row \cup {None, Gone}]
    /\ otherWrites \in 0 .. MaxOtherWrites /\ overlapped \in BOOLEAN /\ strayed \in BOOLEAN

NoConflicts == [i \in Item |-> None]

EditorInit ==
    /\ server = FirstRows
    /\ cache = Loading /\ failed = FALSE /\ fetch = NoFetch
    /\ mutation = [m \in Mutation |-> Idle] /\ foreign = "none"
    /\ place = "nowhere" /\ visits = 0 /\ editing = None /\ conflicts = NoConflicts
    /\ otherWrites = 0 /\ overlapped = FALSE /\ strayed = FALSE

onScreen == place = "home"

Pending(m) == mutation[m].phase \in {"running", "undoing"}

(* updateItem.isPending || reorderItems.isPending, of the mounted editor.  *)
Disabled == (\E m \in Mutation : Pending(m) /\ mutation[m].here) \/ foreign \in {"elsewhere", "home"}

(* The table is shown: neither the spinner nor the error is.               *)
Shown == onScreen /\ cache # Loading /\ ~failed

-----------------------------------------------------------------------------
(* The query. *)

(* Observing the list fetches it, because no staleTime is set; a GET under *)
(* way is shared.                                                          *)
GoTo(to) ==
    /\ place' = to /\ editing' = None
    /\ IF to # "home" THEN UNCHANGED <<fetch, visits>>
       ELSE /\ visits' = visits + 1
            /\ fetch' = IF fetch = NoFetch THEN Sent ELSE fetch
    /\ to # "nowhere" => visits < MaxVisits
    /\ UNCHANGED <<server, cache, failed, otherWrites, overlapped, strayed>>

Open(to) ==
    /\ place = "nowhere" /\ GoTo(to)
    /\ UNCHANGED <<mutation, foreign, conflicts>>

(* Unmounting loses the component's state, but no mutation and no fetch.   *)
Leave ==
    /\ place # "nowhere" /\ GoTo("nowhere")
    /\ conflicts' = NoConflicts
    /\ mutation' = [m \in Mutation |-> [mutation[m] EXCEPT !.here = FALSE]]
    /\ foreign' = CASE foreign = "elsewhere" -> "none" [] foreign = "home" -> "left"
                     [] OTHER -> foreign

(* VenueSwitcher's pick: the editor stays mounted, and what it has pending *)
(* gets the callbacks of the new render.                                   *)
Switch(to) ==
    /\ place \in {"home", "elsewhere"} \ {to} /\ GoTo(to)
    /\ mutation' = [m \in Mutation |->
          IF mutation[m].here THEN [mutation[m] EXCEPT !.home = (to = "home")] ELSE mutation[m]]
    /\ foreign' = IF foreign \in {"elsewhere", "home"} THEN to ELSE foreign
    /\ UNCHANGED conflicts

FetchAnswered ==
    /\ fetch = Sent
    /\ fetch' = [state |-> "answered", rows |-> server]
    /\ UNCHANGED <<server, cache, failed, mutation, foreign, editor, otherWrites, overlapped, strayed>>

(* A row that is no longer listed takes its open input with it.            *)
FetchLands ==
    /\ fetch.state = "answered"
    /\ cache' = fetch.rows /\ failed' = FALSE /\ fetch' = NoFetch
    /\ editing' = IF editing # None /\ fetch.rows[editing] = Gone THEN None ELSE editing
    /\ strayed' = (strayed /\ \E m \in Mutation : Pending(m))
    /\ UNCHANGED <<server, mutation, foreign, place, visits, conflicts, otherWrites, overlapped>>

(* The one retry failed as well: the error replaces the table.             *)
FetchFails ==
    /\ fetch = Sent
    /\ failed' = TRUE /\ fetch' = NoFetch /\ editing' = None
    /\ UNCHANGED <<server, cache, mutation, foreign, place, visits, conflicts, otherWrites, overlapped,
                   strayed>>

(* setQueryData: the answer of a GET under way will still overwrite it.    *)
SetItems(rows) == cache' = rows /\ failed' = FALSE

-----------------------------------------------------------------------------
(* What the merchant does. *)

(* Starts m: cancelQueries, the snapshot for the rollback, the optimistic  *)
(* list and the PUTs.                                                      *)
Mutate(m, kind, calls, optimistic) ==
    /\ mutation[m] = Idle /\ \A n \in 1 .. m - 1 : mutation[n] # Idle
    /\ mutation' = [mutation EXCEPT ![m] =
          [phase |-> "running", kind |-> kind, here |-> TRUE, home |-> TRUE,
           previous |-> cache, calls |-> calls, undo |-> Idle.undo, since |-> otherWrites]]
    /\ fetch' = NoFetch
    /\ SetItems(optimistic)
    /\ overlapped' = (overlapped \/ \E n \in Mutation : Pending(n))
    /\ UNCHANGED <<foreign, strayed>>

BeginEdit(i) ==
    /\ Shown /\ ~Disabled /\ editing = None /\ cache[i] # Gone
    /\ editing' = i
    /\ UNCHANGED <<server, query, mutation, foreign, place, visits, conflicts, otherWrites, overlapped,
                   strayed>>

(* Escape, or a draft that is no number or the price the row shows.        *)
CancelEdit ==
    /\ editing # None
    /\ editing' = None
    /\ UNCHANGED <<server, query, mutation, foreign, place, visits, conflicts, otherWrites, overlapped,
                   strayed>>

(* The patch: the price, and the rest of the row as the cache has it.      *)
PatchedRow(i, price) == [cache[i] EXCEPT !.price = price]

(* PriceCell's commit compares with the price of the row as it is now, and *)
(* commitPrice sends the version of the row as it is now.                  *)
CommitPrice(m, i, price) ==
    /\ Shown /\ editing = i /\ price # cache[i].price
    /\ Mutate(m, "update", [Idle.calls EXCEPT ![i] = Put(PatchedRow(i, price))],
              [cache EXCEPT ![i] = PatchedRow(i, price)])
    /\ editing' = None
    /\ conflicts' = [conflicts EXCEPT ![i] = None]
    /\ UNCHANGED <<server, place, visits, otherWrites>>

(* The rows as the table sorts them; equal positions in either order.      *)
Sorted == {order \in SetToSeqs(Listed(cache)) :
              \A j, k \in DOMAIN order : j < k => cache[order[j]].pos <= cache[order[k]].pos}

Swapped(order, k) == [order EXCEPT ![k] = order[k + 1], ![k + 1] = order[k]]

IndexIn(order, i) == (CHOOSE k \in DOMAIN order : order[k] = i) - 1

MovedRow(order, i) == [cache[i] EXCEPT !.pos = IndexIn(order, i)]

(* The rows whose position differs from their index in the new order.      *)
ChangedBy(order) == {i \in Range(order) : cache[i].pos # IndexIn(order, i)}

(* An arrow button: move one row past its neighbour, PUT what changed.     *)
Move(m) ==
    /\ Shown /\ ~Disabled /\ editing = None
    /\ \E order \in Sorted : \E k \in 1 .. Len(order) - 1 :
          LET next == Swapped(order, k) IN
          Mutate(m, "reorder",
                 [i \in Item |-> IF i \in ChangedBy(next) THEN Put(MovedRow(next, i)) ELSE None],
                 [i \in Item |-> IF i \in Range(next) THEN MovedRow(next, i) ELSE Gone])
    /\ UNCHANGED <<server, editor, otherWrites>>

(* The banner has a button for the row, unless the 409 had none.           *)
Offered(i) == conflicts[i] \notin {None, Gone}

\* Variant: only the version is taken over.
AcknowledgeVersion(i) ==
    /\ Shown /\ editing = None /\ cache[i] # Gone
    /\ Offered(i)
    /\ SetItems([cache EXCEPT ![i].version = conflicts[i].version])
    /\ conflicts' = [conflicts EXCEPT ![i] = None]
    /\ UNCHANGED <<server, fetch, mutation, foreign, place, visits, editing, otherWrites, overlapped,
                   strayed>>

(* "Use latest values": the row of the 409 goes into the cache. The button *)
(* is there while mutations are pending, too.                              *)
AcknowledgeConflict(i) ==
    /\ Shown /\ editing = None /\ cache[i] # Gone
    /\ Offered(i)
    /\ SetItems([cache EXCEPT ![i] = conflicts[i]])
    /\ conflicts' = [conflicts EXCEPT ![i] = None]
    /\ UNCHANGED <<server, fetch, mutation, foreign, place, visits, editing, otherWrites, overlapped,
                   strayed>>

-----------------------------------------------------------------------------
(* menu-service. *)

Accepted(i, body) == server[i] # Gone /\ server[i].version = body.version

Written(body) == [body EXCEPT !.version = @ + 1]

(* A stale version meets 409 with the row as it is; on a deleted item 404, *)
(* or 409 without a row if the deletion came between the two statements.   *)
Refusals(i) ==
    IF server[i] = Gone
      THEN {[kind |-> "missing"], [kind |-> "conflict", row |-> Gone]}
      ELSE {[kind |-> "conflict", row |-> server[i]]}

(* The PUT of item i in a function of calls is served, or it is lost, or   *)
(* its answer is.                                                          *)
Serve(m, field, i) ==
    LET call == mutation[m][field][i]
        Answer(replies) ==
            \E r \in replies \cup {[kind |-> "lost"]} :
                mutation' = [mutation EXCEPT ![m][field][i].reply = r]
    IN  /\ call # None /\ call.reply = Waiting
        /\ \/ /\ Accepted(i, call.body)
              /\ server' = [server EXCEPT ![i] = Written(call.body)]
              /\ Answer({[kind |-> "ok", row |-> Written(call.body)]})
           \/ /\ ~Accepted(i, call.body)
              /\ Answer(Refusals(i))
              /\ UNCHANGED server
           \/ Answer({}) /\ UNCHANGED server
        /\ UNCHANGED <<query, foreign, editor, otherWrites, overlapped, strayed>>

ServePut(m, i) == mutation[m].phase = "running" /\ Serve(m, "calls", i)
ServeUndo(m, i) == mutation[m].phase = "undoing" /\ Serve(m, "undo", i)

OtherEdit(i) ==
    /\ otherWrites < MaxOtherWrites /\ server[i] # Gone
    /\ \/ \E p \in Price \ {server[i].price} :
             server' = [server EXCEPT ![i] = Written([@ EXCEPT !.price = p])]
       \/ server' = [server EXCEPT ![i] = Gone]
    /\ otherWrites' = otherWrites + 1
    /\ UNCHANGED <<query, mutation, foreign, editor, overlapped, strayed>>

-----------------------------------------------------------------------------
(* The end of a mutation. *)

Called(calls) == {i \in Item : calls[i] # None}
Answered(calls) == \A i \in Called(calls) : calls[i].reply # Waiting
Succeeded(calls) == {i \in Called(calls) : calls[i].reply.kind = "ok"}
Failed(calls) == Called(calls) \ Succeeded(calls)

\* Variant: an error leaves the optimistic list.
KeepList(m) == UNCHANGED <<cache, failed, strayed>>

(* onError of both hooks: the whole list as it was before the mutation,    *)
(* put into the list of the venue rendered by now.                         *)
RollBack(m) ==
    IF mutation[m].home THEN SetItems(mutation[m].previous) /\ UNCHANGED strayed
    ELSE strayed' = TRUE /\ UNCHANGED <<cache, failed>>

(* An input whose row the new list does not have is unmounted.             *)
CloseInputs == editing' = IF editing # None /\ cache'[editing] = Gone THEN None ELSE editing

UpdateSucceeds(m) ==
    /\ mutation[m].phase = "running" /\ mutation[m].kind = "update"
    /\ Answered(mutation[m].calls) /\ Failed(mutation[m].calls) = {}
    /\ \E i \in Succeeded(mutation[m].calls) :
          IF ~mutation[m].home \/ cache[i] = Gone
            THEN UNCHANGED <<cache, failed>>
            ELSE SetItems([cache EXCEPT ![i] = mutation[m].calls[i].reply.row])
    /\ mutation' = [mutation EXCEPT ![m] = Ended]
    /\ UNCHANGED <<server, fetch, foreign, editor, otherWrites, overlapped, strayed>>

(* The 409 of a mutation started before the editor was left is not shown.  *)
UpdateFails(m) ==
    /\ mutation[m].phase = "running" /\ mutation[m].kind = "update"
    /\ \E i \in Failed(mutation[m].calls) :
          LET reply == mutation[m].calls[i].reply IN
          /\ reply # Waiting
          /\ conflicts' = IF reply.kind = "conflict" /\ mutation[m].here
                            THEN [conflicts EXCEPT ![i] = reply.row] ELSE conflicts
    /\ RollBack(m) /\ CloseInputs
    /\ mutation' = [mutation EXCEPT ![m] = Ended]
    /\ UNCHANGED <<server, fetch, foreign, place, visits, otherWrites, overlapped>>

(* invalidateQueries: fetch again, now if the list is on screen and else   *)
(* when it is next; a GET under way is dropped, unless it is the first.    *)
Invalidate ==
    fetch' = IF onScreen /\ (cache' # Loading \/ fetch = NoFetch) THEN Sent ELSE fetch

(* onSettled of useReorderItems, for the venue rendered by now.            *)
Settled(m) == IF mutation[m].home THEN Invalidate ELSE UNCHANGED fetch

ReorderSucceeds(m) ==
    /\ mutation[m].phase = "running" /\ mutation[m].kind = "reorder"
    /\ Answered(mutation[m].calls) /\ Failed(mutation[m].calls) = {}
    /\ mutation' = [mutation EXCEPT ![m] = Ended]
    /\ UNCHANGED <<cache, failed>> /\ Settled(m)
    /\ UNCHANGED <<server, foreign, editor, otherWrites, overlapped, strayed>>

\* Variant: compensate with the version the row had before the reorder.
UndoOfOriginal(m, i) ==
    Put([mutation[m].calls[i].reply.row EXCEPT
            !.version = mutation[m].calls[i].body.version,
            !.pos = mutation[m].previous[i].pos])

(* The compensating PUT: the row the server returned, at its old position. *)
UndoOf(m, i) ==
    Put([mutation[m].calls[i].reply.row EXCEPT !.pos = mutation[m].previous[i].pos])

(* Some PUT failed: every one that succeeded is compensated.               *)
Compensate(m) ==
    /\ mutation[m].phase = "running" /\ mutation[m].kind = "reorder"
    /\ Answered(mutation[m].calls) /\ Failed(mutation[m].calls) # {}
    /\ mutation' = [mutation EXCEPT
          ![m].phase = "undoing",
          ![m].undo = [i \in Item |-> IF i \in Succeeded(mutation[m].calls)
                                        THEN UndoOf(m, i) ELSE None]]
    /\ UNCHANGED <<server, query, foreign, editor, otherWrites, overlapped, strayed>>

(* Compensating PUTs that failed are only logged.                          *)
ReorderFails(m) ==
    /\ mutation[m].phase = "undoing" /\ Answered(mutation[m].undo)
    /\ RollBack(m) /\ Settled(m) /\ CloseInputs
    /\ mutation' = [mutation EXCEPT ![m] = Ended]
    /\ UNCHANGED <<server, foreign, place, visits, conflicts, otherWrites, overlapped>>

(* An edit or a reorder of another venue's list.                           *)
MutateElsewhere ==
    /\ place = "elsewhere" /\ ~Disabled /\ foreign = "none"
    /\ foreign' = "elsewhere"
    /\ UNCHANGED <<server, query, mutation, editor, otherWrites, overlapped, strayed>>

NoItems == [i \in Item |-> Gone]

(* It ends: if home is rendered by now, an error replaces home's list by   *)
(* one that has none of its items, and a reorder fetches home's list.      *)
EndElsewhere ==
    /\ foreign # "none" /\ foreign' = "none"
    /\ \/ UNCHANGED <<cache, failed, editing>>
       \/ foreign # "elsewhere" /\ SetItems(NoItems) /\ CloseInputs
    /\ \/ UNCHANGED fetch
       \/ foreign # "elsewhere" /\ Invalidate
    /\ UNCHANGED <<server, mutation, place, visits, conflicts, otherWrites, overlapped, strayed>>

Step(m) ==
    \/ \E i \in Item : ServePut(m, i) \/ ServeUndo(m, i)
    \/ UpdateSucceeds(m) \/ UpdateFails(m)
    \/ ReorderSucceeds(m) \/ Compensate(m) \/ ReorderFails(m)

EditorNext ==
    \/ Leave \/ \E to \in {"home", "elsewhere"} : Open(to) \/ Switch(to)
    \/ FetchAnswered \/ FetchLands \/ FetchFails
    \/ \E i \in Item : BeginEdit(i) \/ AcknowledgeConflict(i) \/ OtherEdit(i)
    \/ CancelEdit \/ MutateElsewhere \/ EndElsewhere
    \/ \E m \in Mutation : Move(m) \/ Step(m) \/ \E i \in Item, p \in Price : CommitPrice(m, i, p)

EditorSpec == EditorInit /\ [][EditorNext]_vars

-----------------------------------------------------------------------------
Unlost(calls) == \A i \in Called(calls) : calls[i].reply.kind # "lost"

(* "Every row that did succeed is put back": when a reorder gives up, the  *)
(* server has every row where it was, unless an answer was lost, another   *)
(* editor wrote meanwhile or a second mutation ran beside it.              *)
FailedReorderIsUndone ==
    [][\A m \in Mutation :
          /\ mutation[m].phase = "undoing" /\ mutation'[m].phase = "settled"
          /\ Unlost(mutation[m].calls) /\ Unlost(mutation[m].undo)
          /\ mutation[m].since = otherWrites /\ ~overlapped
          => \A i \in Succeeded(mutation[m].calls) :
                server[i].pos = mutation[m].previous[i].pos]_vars

(* The version stands for the row: whatever rollbacks, late GETs, acknow-  *)
(* ledged conflicts, reorders and switches of the venue put together, a    *)
(* row the browser shows with the server's version is the server's row,    *)
(* once nothing is pending. Unless a rollback went to another venue's list *)
(* and no GET has replaced this one since.                                 *)
SameVersionSameRow ==
    /\ ~overlapped /\ ~strayed /\ \A m \in Mutation : ~Pending(m)
    /\ cache # Loading
    => \A i \in Listed(cache) \cap Listed(server) :
          cache[i].version = server[i].version => cache[i] = server[i]

(* A price edit leaves the order and a reorder leaves the prices that the  *)
(* server has, although both PUT the whole row out of the cache and the    *)
(* cache holds rows the server never had. With two mutations side by side  *)
(* a rollback can restore the other one's optimistic row, and one that     *)
(* goes to another venue's list leaves its own in this one.                *)
UntouchedFieldsKept ==
    [][\A m \in Mutation, i \in Item :
          /\ ~overlapped /\ ~strayed /\ ServePut(m, i) /\ server'[i] # server[i]
          => IF mutation[m].kind = "update" THEN server'[i].pos = server[i].pos
                                            ELSE server'[i].price = server[i].price]_vars

=============================================================================
