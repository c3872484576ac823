-------------------------- MODULE AvailabilityBoard --------------------------
(***************************************************************************)
(* merchant-web's availability board and chaos panel: one venue's stock    *)
(* states in the browser's query cache, polled every three seconds and     *)
(* overwritten before a PUT is answered; the venue switcher, which changes *)
(* the venue under a mounted board; the panel's replay of the last event,  *)
(* which compares the cache before and after; and availability-service     *)
(* with Redis, which menu events and other merchants write to as well.     *)
(*                                                                         *)
(* Rows are functions from items to a status, Absent where a list has none.*)
(* Other venues only matter in being selected: their lists have none of    *)
(* the items and nothing is written there.                                 *)
(***************************************************************************)
EXTENDS Integers, FiniteSets

CONSTANTS
    Item,
    Venue,
    Home,         \* the venue of the items
    Status,       \* in_stock, sold_out, sold_out_until
    InStock,      \* what the event of a new item makes of it
    Contended,    \* the items that menu events and other merchants write
    MaxPuts,      \* writes of the merchant
    MaxActs,      \* these, other writes, replays and presses of the panel's buttons
    None, Absent, Loading

Mutation == 1 .. MaxPuts
Rows == [Item -> Status \cup {Absent}]
NoRows == [i \in Item |-> Absent]

(* A list as cached; asOf is history, the number of writes it has seen, or *)
(* None if the browser made the list itself.                               *)
List == [rows : Rows, asOf : 0 .. MaxActs \cup {None}]

ASSUME BoardAssumption ==
    /\ Item # {} /\ IsFiniteSet(Item) /\ IsFiniteSet(Status) /\ Home \in Venue
    /\ InStock \in Status /\ Contended \subseteq Item
    /\ MaxPuts \in Nat /\ MaxActs \in Nat
    /\ None \notin Item \cup Nat /\ Loading \notin List

VARIABLES
    redis,      \* the venue's status hashes
    writes,     \* history: how often redis was written
    lastEvent,  \* ChaosState.lastEvent and whether its id is marked as processed
    faults,     \* ChaosState.consumerPaused and redisUnreachable
    cache,      \* query data of ["availability", Home]
    failed,     \* isError of that query
    fetch,      \* the GET in flight
    screen, venue,
    popovers,   \* the items whose cells have their popover open
    leftOpen,   \* history: a button was pressed with a second popover open
    mutation,
    replay,     \* fireDuplicateDelivery
    acts,       \* how many acts there were
    mustSee     \* history: writes when a write last settled on screen

server == <<redis, writes, lastEvent>>
query == <<cache, failed, fetch>>
page == <<screen, venue, popovers, leftOpen>>
vars == <<server, faults, query, page, mutation, replay, acts, mustSee>>

Answer == [rows |-> redis, asOf |-> writes]

NoFetch == [state |-> "none", list |-> Loading]
Sent == [state |-> "sent", list |-> Loading]

Faults == [consumerPaused : BOOLEAN, redisUnreachable : BOOLEAN]

(* here: begun on the board that is mounted; venue: the one its callbacks  *)
(* were last rendered for.                                                 *)
Idle == [phase |-> "new", item |-> None, status |-> Absent, reply |-> "none",
         previous |-> Loading, here |-> FALSE, venue |-> None]
Ended(put) == [Idle EXCEPT !.phase = "settled", !.here = put.here]

NoReplay == [phase |-> "idle", before |-> Loading, item |-> None,
             accepted |-> FALSE, unchanged |-> FALSE]

Put == [phase : {"new", "running", "settled"}, item : Item \cup {None},
        status : Status \cup {Absent}, reply : {"none", "ok", "error"},
        previous : List \cup {Loading}, here : BOOLEAN, venue : Venue \cup {None}]

Replay == [phase : {"idle", "posted", "refetching", "recorded"},
           before : List \cup {Loading}, item : Item \cup {None},
           accepted : BOOLEAN, unchanged : BOOLEAN]

BoardTypeOK ==
    /\ redis \in Rows /\ writes \in 0 .. MaxActs
    /\ lastEvent \in {None} \cup [item : Item, status : Status, marked : BOOLEAN]
    /\ faults \in Faults
    /\ cache \in List \cup {Loading} /\ failed \in BOOLEAN
    /\ fetch \in {NoFetch, Sent} \cup [state : {"answered"}, list : List]
    /\ screen \in {"board", "panel"} /\ venue \in Venue
    /\ popovers \subseteq Item /\ leftOpen \in BOOLEAN
    /\ mutation \in [Mutation -> Put] /\ replay \in Replay
    /\ acts \in 0 .. MaxActs /\ mustSee \in 0 .. MaxActs

NoFaults == [consumerPaused |-> FALSE, redisUnreachable |-> FALSE]

(* The board is opened before or after the event of the first item, which  *)
(* Redis may have refused.                                                 *)
BoardInit ==
    /\ \/ redis = NoRows /\ lastEvent = None
       \/ \E i \in Contended, marked \in BOOLEAN :
             /\ redis = IF marked THEN [NoRows EXCEPT ![i] = InStock] ELSE NoRows
             /\ lastEvent = [item |-> i, status |-> InStock, marked |-> marked]
    /\ writes = 0
    /\ faults = NoFaults
    /\ cache = Loading /\ failed = FALSE /\ fetch = Sent
    /\ screen = "board" /\ venue = Home /\ popovers = {} /\ leftOpen = FALSE
    /\ mutation = [m \in Mutation |-> Idle]
    /\ replay = NoReplay
    /\ acts = 0 /\ mustSee = 0

(* The board and the panel both observe the selected venue's list; with    *)
(* another venue selected nobody observes this one's, as on other screens. *)
Active == venue = Home

Pending(m) == mutation[m].phase = "running"

(* The mounted board's hook follows the PUT it was last given.             *)
Followed(m) == mutation[m].here /\ \A n \in m + 1 .. MaxPuts : ~mutation[n].here

(* updateAvailability.isPending of the mounted board.                      *)
Disabled == \E m \in Mutation : Pending(m) /\ Followed(m)

Act == acts < MaxActs /\ acts' = acts + 1

RowsOf(list) == IF list = Loading THEN NoRows ELSE list.rows

(* The table is shown, neither the spinner nor the error. It has a row for *)
(* every item of the menu, listed or not.                                  *)
Shown == screen = "board" /\ venue = Home /\ cache # Loading /\ ~failed

-----------------------------------------------------------------------------
(* The query cache. *)

(* A list that is fetched again: a GET under way is dropped, unless it is  *)
(* the first of that list.                                                 *)
Refetch == fetch' = IF cache' = Loading /\ fetch # NoFetch THEN fetch ELSE Sent

(* Observing the list fetches it, or shares the GET under way.             *)
Observe == fetch' = IF Active' /\ fetch = NoFetch THEN Sent ELSE fetch

\* Variant: invalidating leaves a GET under way alone.
ShareRefetch == fetch' = IF Active /\ fetch = NoFetch THEN Sent ELSE fetch

(* invalidateQueries: an observed list now, another when it is observed.   *)
Invalidate == IF Active THEN Refetch ELSE fetch' = fetch

(* setQueryData.                                                           *)
SetList(list) == cache' = list /\ failed' = FALSE

(* What the panel calls unchanged: an item that is not listed has none.    *)
SameStatus(before, after, i) == RowsOf(before)[i] = RowsOf(after)[i]

(* fireDuplicateDelivery goes on when its refetch has ended in any way: it *)
(* compares the cached status with the one it saw when it was fired.       *)
ReplayGoesOn ==
    replay' = IF replay.phase = "refetching" /\ fetch' = NoFetch
                THEN [NoReplay EXCEPT !.phase = "recorded", !.accepted = replay.accepted,
                         !.unchanged = SameStatus(replay.before, cache', replay.item)]
                ELSE replay

\* Variant: nothing is polled.
NoPoll == FALSE /\ UNCHANGED vars

Poll ==
    /\ Active /\ fetch = NoFetch
    /\ fetch' = Sent
    /\ UNCHANGED <<server, faults, cache, failed, page, mutation, replay, acts, mustSee>>

(* GET /venues/{venueId}/availability.                                     *)
FetchAnswered ==
    /\ fetch = Sent /\ ~faults.redisUnreachable
    /\ fetch' = [state |-> "answered", list |-> Answer]
    /\ UNCHANGED <<server, faults, cache, failed, page, mutation, replay, acts, mustSee>>

FetchLands ==
    /\ fetch.state = "answered"
    /\ SetList(fetch.list) /\ fetch' = NoFetch
    /\ ReplayGoesOn
    /\ UNCHANGED <<server, faults, page, mutation, acts, mustSee>>

(* Redis refuses, or the request is lost, and so is its retry. The error   *)
(* replaces the table and closes its popovers.                             *)
FetchFails ==
    /\ fetch = Sent
    /\ failed' = TRUE /\ fetch' = NoFetch /\ popovers' = {}
    /\ UNCHANGED cache /\ ReplayGoesOn
    /\ UNCHANGED <<server, faults, screen, venue, leftOpen, mutation, acts, mustSee>>

-----------------------------------------------------------------------------
(* Getting around. *)

(* Leaving a screen keeps its GET, its PUT and its replay.                 *)
Go(to) ==
    /\ screen # to
    /\ screen' = to /\ popovers' = {} /\ leftOpen' = FALSE /\ UNCHANGED venue
    /\ Observe
    /\ mutation' = [m \in Mutation |-> [mutation[m] EXCEPT !.here = FALSE]]
    /\ UNCHANGED <<server, faults, cache, failed, replay, acts, mustSee>>

(* VenueSwitcher's pick: on a venue's screen the path follows, and screens *)
(* that stay mounted hand the PUT they follow new callbacks.               *)
Pick(v) ==
    /\ v # venue /\ venue' = v /\ popovers' = {} /\ UNCHANGED <<screen, leftOpen>>
    /\ Observe
    /\ mutation' = [m \in Mutation |->
          IF Pending(m) /\ Followed(m) THEN [mutation[m] EXCEPT !.venue = v] ELSE mutation[m]]
    /\ UNCHANGED <<server, faults, cache, failed, replay, acts, mustSee>>

-----------------------------------------------------------------------------
(* The board. *)

(* The trigger of a cell. A press of the mouse closes the popovers it is   *)
(* not in; the keyboard leaves them open. Bound: while an act is left.     *)
OpenPopover(i) ==
    /\ Shown /\ ~Disabled /\ i \notin popovers /\ acts < MaxActs
    /\ popovers' \in {{i}, popovers \cup {i}}
    /\ UNCHANGED <<server, faults, query, screen, venue, leftOpen, mutation, replay, acts, mustSee>>

(* Escape and a press outside close all, a press in one the others, and    *)
(* the trigger of one, by the keyboard, that one.                          *)
DismissPopover(i) ==
    /\ i \in popovers
    /\ popovers' \in {{}, {i}} \/ (~Disabled /\ popovers' = popovers \ {i})
    /\ UNCHANGED <<server, faults, query, screen, venue, leftOpen, mutation, replay, acts, mustSee>>

(* onMutate's list: entries that exist get the status, none is added.      *)
Optimistic(i, s) ==
    IF cache.rows[i] = Absent THEN cache
    ELSE [rows |-> [cache.rows EXCEPT ![i] = s], asOf |-> None]

(* cancelQueries, the snapshot for the rollback and the optimistic list.   *)
Mutate(m, i, s) ==
    /\ Act /\ mutation[m].phase = "new" /\ \A n \in 1 .. m - 1 : mutation[n].phase # "new"
    /\ mutation' = [mutation EXCEPT ![m] =
          [phase |-> "running", item |-> i, status |-> s, reply |-> "none",
           previous |-> cache, here |-> TRUE, venue |-> venue]]
    /\ fetch' = NoFetch
    /\ SetList(Optimistic(i, s)) /\ ReplayGoesOn

\* Variant: the popover stays open.
ApplyAndStay(m, i, s) ==
    /\ i \in popovers /\ Mutate(m, i, s)
    /\ UNCHANGED <<server, faults, page, mustSee>>

(* A button of the popover, which closes: the buttons of the others, if    *)
(* any are open, are not disabled.                                         *)
Apply(m, i, s) ==
    /\ i \in popovers /\ Mutate(m, i, s)
    /\ popovers' = popovers \ {i} /\ leftOpen' = (leftOpen \/ popovers # {i})
    /\ UNCHANGED <<server, faults, screen, venue, mustSee>>

(* onError and onSettled, for the venue the callbacks have by now: after a *)
(* switch the rollback goes into the other venue's list.                   *)
Settle(m) ==
    /\ Pending(m) /\ mutation[m].reply # "none"
    /\ IF mutation[m].reply = "error" /\ mutation[m].venue = Home
          THEN SetList(mutation[m].previous) ELSE UNCHANGED <<cache, failed>>
    /\ IF mutation[m].venue = Home THEN Invalidate ELSE fetch' = fetch
    /\ mustSee' = IF mutation[m].venue = Home /\ Active THEN writes ELSE mustSee
    /\ mutation' = [mutation EXCEPT ![m] = Ended(@)]
    /\ UNCHANGED <<server, faults, page, replay, acts>>

-----------------------------------------------------------------------------
(* availability-service. *)

Write(i, s) == redis' = [redis EXCEPT ![i] = s] /\ writes' = writes + 1

(* PUT /venues/{venueId}/items/{itemId}/availability: done; not done; or   *)
(* done although the browser gets an error or no answer.                   *)
ServePut(m) ==
    /\ Pending(m) /\ mutation[m].reply = "none"
    /\ \/ /\ ~faults.redisUnreachable
          /\ Write(mutation[m].item, mutation[m].status)
          /\ \E r \in {"ok", "error"} : mutation' = [mutation EXCEPT ![m].reply = r]
       \/ /\ mutation' = [mutation EXCEPT ![m].reply = "error"]
          /\ UNCHANGED <<redis, writes>>
    /\ UNCHANGED <<lastEvent, faults, query, page, replay, acts, mustSee>>

(* The consumer takes a menu event of item i; with Redis refusing it its   *)
(* mark is undone.                                                         *)
Consume(i, s) ==
    /\ Act /\ i \in Contended /\ ~faults.consumerPaused
    /\ lastEvent' = [item |-> i, status |-> s, marked |-> ~faults.redisUnreachable]
    /\ IF faults.redisUnreachable THEN UNCHANGED <<redis, writes>> ELSE Write(i, s)
    /\ UNCHANGED <<faults, query, page, mutation, replay, mustSee>>

(* Another merchant's PUT.                                                 *)
OtherPut(i, s) ==
    /\ Act /\ i \in Contended /\ ~faults.redisUnreachable
    /\ Write(i, s)
    /\ UNCHANGED <<lastEvent, faults, query, page, mutation, replay, mustSee>>

-----------------------------------------------------------------------------
(* The chaos panel. *)

(* The button waits for the POST only, not for the refetch after it. Fired *)
(* for another venue, the panel compares two statuses that do not exist.   *)
FireDuplicateDelivery ==
    /\ Act /\ screen = "panel" /\ venue = Home /\ replay.phase \in {"idle", "recorded"}
    /\ replay' = [NoReplay EXCEPT !.phase = "posted", !.before = cache]
    /\ UNCHANGED <<server, faults, query, page, mutation, mustSee>>

\* Variant: the state is written before the dedupe check.
ReplayedRegardless ==
    /\ redis' = [redis EXCEPT ![lastEvent.item] = lastEvent.status]
    /\ UNCHANGED <<writes, lastEvent>>

(* replayLastEvent: an event that is marked is refused by the dedupe       *)
(* check, one whose mark was undone is processed now.                      *)
Replayed ==
    IF lastEvent.marked THEN UNCHANGED server
    ELSE /\ Write(lastEvent.item, lastEvent.status)
         /\ lastEvent' = [lastEvent EXCEPT !.marked = TRUE]

(* onSuccess invalidates and the panel refetches, observed or not.         *)
ReplayAnswered ==
    /\ replay.phase = "posted" /\ lastEvent # None
    /\ lastEvent.marked \/ ~faults.redisUnreachable
    /\ Replayed
    /\ replay' = [replay EXCEPT !.phase = "refetching",
                                !.item = lastEvent.item, !.accepted = ~lastEvent.marked]
    /\ UNCHANGED cache /\ Refetch
    /\ UNCHANGED <<faults, failed, page, mutation, acts, mustSee>>

(* 404 before the first event; Redis refuses; or the answer is lost.       *)
ReplayFails ==
    /\ replay.phase = "posted"
    /\ \/ UNCHANGED server
       \/ /\ lastEvent # None /\ ~lastEvent.marked /\ ~faults.redisUnreachable
          /\ Replayed
    /\ replay' = NoReplay
    /\ UNCHANGED <<faults, query, page, mutation, acts, mustSee>>

(* The other buttons; each POST is applied whenever it arrives.            *)
PauseConsumer == faults' = [faults EXCEPT !.consumerPaused = TRUE]
ResumeConsumer == faults' = [faults EXCEPT !.consumerPaused = FALSE]
BreakRedis == faults' = [faults EXCEPT !.redisUnreachable = TRUE]
RestoreRedis == faults' = [faults EXCEPT !.redisUnreachable = FALSE]

Control ==
    /\ Act /\ screen = "panel"
    /\ PauseConsumer \/ ResumeConsumer \/ BreakRedis \/ RestoreRedis
    /\ UNCHANGED <<server, query, page, mutation, replay, mustSee>>

BoardNext ==
    \/ Poll \/ FetchAnswered \/ FetchLands \/ FetchFails
    \/ \E v \in Venue : Pick(v)
    \/ \E to \in {"board", "panel"} : Go(to)
    \/ \E i \in Item : OpenPopover(i) \/ DismissPopover(i)
    \/ \E m \in Mutation : ServePut(m) \/ Settle(m)
    \/ \E i \in Item, s \in Status :
          \/ Consume(i, s) \/ OtherPut(i, s)
          \/ \E m \in Mutation : Apply(m, i, s)
    \/ FireDuplicateDelivery \/ ReplayAnswered \/ ReplayFails
    \/ Control

(* The poll timer fires, answers arrive and are handled, a PUT ends in an  *)
(* answer or an error, and not every GET of a working service fails.       *)
Fairness ==
    /\ WF_vars(Poll) /\ SF_vars(FetchAnswered) /\ WF_vars(FetchLands)
    /\ \A m \in Mutation : WF_vars(ServePut(m)) /\ WF_vars(Settle(m))

BoardSpec == BoardInit /\ [][BoardNext]_vars /\ Fairness

-----------------------------------------------------------------------------
(* Read your writes: a board at rest, with nothing pending, under way or   *)
(* in error, shows an answer of the server and not the browser's guess or  *)
(* a list rolled back, and one given after every write that settled while  *)
(* its venue was on screen.                                                *)
QuietBoardIsAnAnswer ==
    /\ Active /\ fetch = NoFetch /\ ~failed /\ cache # Loading
    /\ \A m \in Mutation : ~Pending(m)
    => cache.asOf # None /\ cache.asOf >= mustSee

(* A mounted board has at most one PUT under way, so that what a merchant  *)
(* picks cannot be overtaken by what the same board was told before,       *)
(* unless a button was pressed with a second popover open: only triggers   *)
(* are disabled, and only while the PUT given last is pending.             *)
OneWriteAtATime ==
    ~leftOpen => \A m, n \in Mutation :
        Pending(m) /\ mutation[m].here /\ Pending(n) /\ mutation[n].here => m = n

(* A refused replay is reported as a change of state only when there was   *)
(* something else to see: the list had not been loaded, or one of the two  *)
(* compared was no answer of the server, or a write lay between them.      *)
ChangedVerdictHasCause ==
    [][LET before == replay.before IN
       /\ replay.phase = "refetching" /\ replay'.phase = "recorded"
       /\ ~replay'.accepted /\ ~replay'.unchanged
       => \/ before = Loading
          \/ before.asOf = None
          \/ cache'.asOf = None
          \/ before.asOf # cache'.asOf]_vars

(* The poll brings the list back to the service's: whatever rollbacks,     *)
(* switches and faults left in the cache, a venue that stays on screen     *)
(* while Redis works ends up as it is there.                               *)
BoardConverges ==
    <>[](Active /\ ~faults.redisUnreachable) => <>[](RowsOf(cache) = redis)

=============================================================================
