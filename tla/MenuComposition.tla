-------------------------- MODULE MenuComposition --------------------------
(***************************************************************************)
(* storefront-api: MenuCompositionService.getMenu, a read of two upstream  *)
(* services cached in Redis, with one fetch in flight per venue.  All      *)
(* other requests that miss the cache await the leader's deferred.  The    *)
(* upstream services are external: each has a version of a venue's data    *)
(* that grows, and a response is the pair of versions it was made from.    *)
(***************************************************************************)
EXTENDS Integers

CONSTANTS
    Venue,
    Req,        \* requests the service works on at the same time
    None,       \* no entry in inFlight, no value in the cache
    Pending,    \* a deferred nobody has completed
    Failed,     \* an exception in place of a response
    MaxUpdates  \* bound: how often the upstream data of a venue changes

Response == [menu : Nat, availability : Nat]

ASSUME CompositionAssumption ==
    /\ None \notin Req \cup Response
    /\ Pending \notin Response /\ Failed \notin Response /\ Pending # Failed
    /\ MaxUpdates \in Nat

VARIABLES
    menu,          \* menu-service: the version of each venue's items
    availability,  \* availability-service: the version of their states
    cache,         \* Redis: the cached response of each venue
    inFlight,      \* the request whose deferred is in the map
    deferred,      \* each leader's deferred: pending, or how it completed
    pc, venue,     \* where each request is, and what it asks for
    draft,         \* what a request has got so far: its result in the end
    served,        \* history: the newest response given for each venue
    floor          \* history: the newest response given when a request began

upstream == <<menu, availability>>
history == <<served, floor>>
vars == <<upstream, cache, inFlight, deferred, pc, venue, draft, history>>

-----------------------------------------------------------------------------
Nothing == [menu |-> 0, availability |-> 0]

Fetching == {"items", "availability", "put"}
Leading == Fetching \cup {"recheck", "complete"}
Steps == {"idle", "lookup", "join", "await", "leave", "done"} \cup Leading

CompositionTypeOK ==
    /\ menu \in [Venue -> Nat] /\ availability \in [Venue -> Nat]
    /\ cache \in [Venue -> Response \cup {None}]
    /\ inFlight \in [Venue -> Req \cup {None}]
    /\ deferred \in [Req -> Response \cup {Pending, Failed}]
    /\ pc \in [Req -> Steps] /\ venue \in [Req -> Venue]
    /\ draft \in [Req -> Response \cup {Failed}]
    /\ served \in [Venue -> Response] /\ floor \in [Req -> Response]

CompositionInit ==
    /\ menu = [v \in Venue |-> 1] /\ availability = [v \in Venue |-> 1]
    /\ cache = [v \in Venue |-> None]
    /\ inFlight = [v \in Venue |-> None]
    /\ deferred = [r \in Req |-> Pending]
    /\ pc = [r \in Req |-> "idle"]
    /\ venue \in [Req -> Venue]
    /\ draft = [r \in Req |-> Nothing]
    /\ served = [v \in Venue |-> Nothing]
    /\ floor = [r \in Req |-> Nothing]

-----------------------------------------------------------------------------
\* Both start at 1.
MayUpdate(v) == menu[v] + availability[v] < 2 + MaxUpdates

UpdateMenu(v) ==
    /\ MayUpdate(v)
    /\ menu' = [menu EXCEPT ![v] = @ + 1]
    /\ UNCHANGED <<availability, cache, inFlight, deferred, pc, venue, draft, history>>

UpdateAvailability(v) ==
    /\ MayUpdate(v)
    /\ availability' = [availability EXCEPT ![v] = @ + 1]
    /\ UNCHANGED <<menu, cache, inFlight, deferred, pc, venue, draft, history>>

(* The cached value has lived for ttlSeconds.                              *)
Expire(v) ==
    /\ cache[v] # None
    /\ cache' = [cache EXCEPT ![v] = None]
    /\ UNCHANGED <<upstream, inFlight, deferred, pc, venue, draft, history>>

-----------------------------------------------------------------------------
Goto(r, step) == pc' = [pc EXCEPT ![r] = step]

(* The request ends with result, a response or an exception.               *)
Return(r, result) ==
    /\ pc' = [pc EXCEPT ![r] = "done"]
    /\ draft' = [draft EXCEPT ![r] = result]

Waiters(r) == {q \in Req : pc[q] = "await" /\ venue[q] = venue[r]}

\* Variant: an exception leaves the deferred as it is.
CompleteOnSuccess(r, result) ==
    /\ deferred' = [deferred EXCEPT ![r] = IF result = Failed THEN Pending ELSE result]
    /\ pc' = [q \in Req |-> IF q = r THEN "leave"
                            ELSE IF q \in Waiters(r) /\ result # Failed THEN "done" ELSE pc[q]]
    /\ draft' = [q \in Req |-> IF q = r \/ q \in Waiters(r) THEN result ELSE draft[q]]

(* complete or completeExceptionally: every waiter gets the leader's       *)
(* result, and so will a request that still finds this deferred.           *)
Complete(r, result) ==
    /\ deferred' = [deferred EXCEPT ![r] = result]
    /\ pc' = [q \in Req |-> IF q = r THEN "leave" ELSE IF q \in Waiters(r) THEN "done" ELSE pc[q]]
    /\ draft' = [q \in Req |-> IF q = r \/ q \in Waiters(r) THEN result ELSE draft[q]]

Begin(r, v) ==
    /\ pc[r] = "idle"
    /\ Goto(r, "lookup")
    /\ venue' = [venue EXCEPT ![r] = v]
    /\ floor' = [floor EXCEPT ![r] = served[v]]
    /\ UNCHANGED <<upstream, cache, inFlight, deferred, draft, served>>

(* The first cache.get, which may throw.                                   *)
Lookup(r) ==
    /\ pc[r] = "lookup"
    /\ \/ cache[venue[r]] # None /\ Return(r, cache[venue[r]])
       \/ cache[venue[r]] = None /\ Goto(r, "join") /\ UNCHANGED draft
       \/ Return(r, Failed)
    /\ UNCHANGED <<upstream, cache, inFlight, deferred, venue, history>>

\* Variant: a plain put.
JoinAlways(r) ==
    /\ pc[r] = "join"
    /\ inFlight' = [inFlight EXCEPT ![venue[r]] = r]
    /\ deferred' = [deferred EXCEPT ![r] = Pending]
    /\ Goto(r, "recheck")
    /\ UNCHANGED <<upstream, cache, venue, draft, history>>

(* putIfAbsent: lead, or await the deferred of the request that does.      *)
Join(r) ==
    LET leader == inFlight[venue[r]]
    IN  /\ pc[r] = "join"
        /\ \/ /\ leader = None
              /\ inFlight' = [inFlight EXCEPT ![venue[r]] = r]
              /\ deferred' = [deferred EXCEPT ![r] = Pending]
              /\ Goto(r, "recheck")
              /\ UNCHANGED draft
           \/ /\ leader # None
              /\ IF deferred[leader] = Pending
                   THEN Goto(r, "await") /\ UNCHANGED draft
                   ELSE Return(r, deferred[leader])
              /\ UNCHANGED <<inFlight, deferred>>
        /\ UNCHANGED <<upstream, cache, venue, history>>

\* Variant: the leader does not look again.
NoRecheck(r) ==
    /\ pc[r] = "recheck"
    /\ Goto(r, "items")
    /\ UNCHANGED <<upstream, cache, inFlight, deferred, venue, draft, history>>

(* The leader's second cache.get: another one may have filled the cache    *)
(* between the first and putIfAbsent.                                      *)
Recheck(r) ==
    /\ pc[r] = "recheck"
    /\ \/ cache[venue[r]] # None /\ Complete(r, cache[venue[r]])
       \/ cache[venue[r]] = None /\ Goto(r, "items") /\ UNCHANGED <<deferred, draft>>
       \/ Complete(r, Failed)
    /\ UNCHANGED <<upstream, cache, inFlight, venue, history>>

(* listItems: an answer, or an UpstreamServiceException after the timeout. *)
FetchItems(r) ==
    /\ pc[r] = "items"
    /\ \/ /\ draft' = [draft EXCEPT ![r] = [menu |-> menu[venue[r]], availability |-> 0]]
          /\ Goto(r, "availability")
          /\ UNCHANGED deferred
       \/ Complete(r, Failed)
    /\ UNCHANGED <<upstream, cache, inFlight, venue, history>>

FetchAvailability(r) ==
    /\ pc[r] = "availability"
    /\ \/ /\ draft' = [draft EXCEPT ![r].availability = availability[venue[r]]]
          /\ Goto(r, "put")
          /\ UNCHANGED deferred
       \/ Complete(r, Failed)
    /\ UNCHANGED <<upstream, cache, inFlight, venue, history>>

(* cache.put; when it throws, Redis may have taken the value all the same. *)
CachePut(r) ==
    /\ pc[r] = "put"
    /\ \/ /\ cache' = [cache EXCEPT ![venue[r]] = draft[r]]
          /\ Goto(r, "complete")
          /\ UNCHANGED <<deferred, draft>>
       \/ /\ cache' \in {cache, [cache EXCEPT ![venue[r]] = draft[r]]}
          /\ Complete(r, Failed)
    /\ UNCHANGED <<upstream, inFlight, venue, history>>

CompleteDeferred(r) ==
    /\ pc[r] = "complete"
    /\ Complete(r, draft[r])
    /\ UNCHANGED <<upstream, cache, inFlight, venue, history>>

(* The finally block: inFlight.remove(venueId, deferred).                  *)
Leave(r) ==
    /\ pc[r] = "leave"
    /\ inFlight' = [inFlight EXCEPT ![venue[r]] = IF @ = r THEN None ELSE @]
    /\ Goto(r, "done")
    /\ UNCHANGED <<upstream, cache, deferred, venue, draft, history>>

Newest(a, b) == IF a > b THEN a ELSE b

(* The answer leaves: a 200 with the menu, or an error status.             *)
Respond(r) ==
    /\ pc[r] = "done"
    /\ served' = IF draft[r] = Failed THEN served ELSE
         [served EXCEPT ![venue[r]] =
            [menu |-> Newest(@.menu, draft[r].menu),
             availability |-> Newest(@.availability, draft[r].availability)]]
    /\ Goto(r, "idle")
    /\ draft' = [draft EXCEPT ![r] = Nothing]
    /\ floor' = [floor EXCEPT ![r] = Nothing]
    /\ deferred' = [deferred EXCEPT ![r] = Pending]
    /\ UNCHANGED <<upstream, cache, inFlight, venue>>

(* The process is restarted: its requests are gone, the cache is not.      *)
Restart ==
    /\ inFlight' = [v \in Venue |-> None]
    /\ deferred' = [r \in Req |-> Pending]
    /\ pc' = [r \in Req |-> "idle"]
    /\ draft' = [r \in Req |-> Nothing]
    /\ floor' = [r \in Req |-> Nothing]
    /\ UNCHANGED <<upstream, cache, venue, served>>

RequestStep(r) ==
    \/ Lookup(r)
    \/ Join(r)
    \/ Recheck(r)
    \/ FetchItems(r)
    \/ FetchAvailability(r)
    \/ CachePut(r)
    \/ CompleteDeferred(r)
    \/ Leave(r)
    \/ Respond(r)

CompositionNext ==
    \/ \E v \in Venue : UpdateMenu(v) \/ UpdateAvailability(v) \/ Expire(v)
    \/ \E r \in Req, v \in Venue : Begin(r, v)
    \/ \E r \in Req : RequestStep(r)
    \/ Restart

(* A coroutine goes on, and every call it makes has a timeout.             *)
CompositionFairness == \A r \in Req : WF_vars(RequestStep(r))

CompositionSpec == CompositionInit /\ [][CompositionNext]_vars /\ CompositionFairness

-----------------------------------------------------------------------------
(* No stampede: a venue has at most one fetch under way, and none while    *)
(* its menu is in the cache, however requests, expiry and errors fall.     *)
SingleFlight ==
    \A r \in Req : pc[r] \in Fetching =>
        /\ cache[venue[r]] = None
        /\ \A q \in Req \ {r} : pc[q] \in Fetching => venue[q] # venue[r]

(* A request only waits while a leader will still complete the deferred it *)
(* waits for: nobody waits for a leader that has failed or gone.           *)
WaitersAreLed ==
    \A q \in Req : pc[q] = "await" =>
        LET leader == inFlight[venue[q]]
        IN  leader # None /\ pc[leader] \in Leading /\ venue[leader] = venue[q]

(* A storefront never goes back: a request that begins after another one   *)
(* was answered is not answered with an older menu or older availability.  *)
NeverOlder ==
    \A r \in Req : pc[r] = "done" /\ draft[r] # Failed =>
        draft[r].menu >= floor[r].menu /\ draft[r].availability >= floor[r].availability

(* Every request is answered, with a menu or an error.                     *)
EveryRequestEnds == \A r \in Req : pc[r] # "idle" ~> pc[r] = "idle"
=============================================================================
