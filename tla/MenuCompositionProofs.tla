----------------------- MODULE MenuCompositionProofs -----------------------
(***************************************************************************)
(* One fetch per venue, no waiter without a leader, and no answer older    *)
(* than one given before: for any number of requests, venues and updates,  *)
(* through failures, expiry and restarts.                                  *)
(***************************************************************************)
EXTENDS MenuComposition, TLAPS

InMap(r) == pc[r] \in Leading \cup {"leave"}

(* A leader is in the map from putIfAbsent to its finally block, and its   *)
(* deferred is completed between the two.                                  *)
FlightInv ==
    \A r \in Req :
        /\ InMap(r) => inFlight[venue[r]] = r
        /\ pc[r] \in Leading => deferred[r] = Pending
        /\ pc[r] = "leave" => deferred[r] # Pending

(* The map holds nothing but leaders, each under the venue it asks for.    *)
LeaderInv ==
    \A v \in Venue : inFlight[v] # None =>
        inFlight[v] \in Req /\ InMap(inFlight[v]) /\ venue[inFlight[v]] = v

(* A leader that has fetched has something to cache.                       *)
DraftInv == \A r \in Req : pc[r] \in {"availability", "put", "complete"} => draft[r] \in Response

(* Nobody fetches a menu that is in the cache.                             *)
CacheInv == \A r \in Req : pc[r] \in Fetching => cache[venue[r]] = None

CompositionInv ==
    /\ CompositionTypeOK
    /\ FlightInv
    /\ LeaderInv
    /\ DraftInv
    /\ CacheInv
    /\ WaitersAreLed

-----------------------------------------------------------------------------
LEMMA OneFetch == ASSUME CompositionInv PROVE SingleFlight
<1>1. \A r \in Req : pc[r] \in Fetching => inFlight[venue[r]] = r
  BY DEF CompositionInv, FlightInv, InMap, Leading
<1> QED
  BY <1>1 DEF CompositionInv, CompositionTypeOK, CacheInv, SingleFlight

LEMMA CompositionInitial == ASSUME CompositionInit PROVE CompositionInv
<1> USE DEF CompositionInit
<1>1. CompositionTypeOK
  BY DEF CompositionTypeOK, Nothing, Response, Steps
<1>2. FlightInv /\ LeaderInv /\ DraftInv /\ CacheInv /\ WaitersAreLed
  BY DEF FlightInv, LeaderInv, DraftInv, CacheInv, WaitersAreLed, InMap, Leading, Fetching
<1> QED
  BY <1>1, <1>2 DEF CompositionInv

(* The world outside: upstream changes and expiry.                         *)
LEMMA OutsidePreserves ==
    ASSUME CompositionInv, NEW v \in Venue, UpdateMenu(v) \/ UpdateAvailability(v) \/ Expire(v)
    PROVE  CompositionInv'
<1> USE DEF CompositionInv
<1>1. UNCHANGED <<inFlight, deferred, pc, venue, draft, history>>
  BY DEF UpdateMenu, UpdateAvailability, Expire
<1>2. \A u \in Venue : cache'[u] \in {cache[u], None}
  BY DEF CompositionTypeOK, UpdateMenu, UpdateAvailability, Expire, upstream
<1>3. CompositionTypeOK'
  BY <1>1 DEF CompositionTypeOK, UpdateMenu, UpdateAvailability, Expire, history, upstream
<1>4. CacheInv'
  BY <1>1, <1>2 DEF CacheInv, CompositionTypeOK
<1>5. FlightInv' /\ LeaderInv' /\ DraftInv' /\ WaitersAreLed'
  BY <1>1 DEF FlightInv, LeaderInv, DraftInv, WaitersAreLed, InMap
<1> QED
  BY <1>3, <1>4, <1>5

LEMMA RestartPreserves == ASSUME CompositionInv, Restart PROVE CompositionInv'
<1> USE DEF CompositionInv
<1>1. CompositionTypeOK'
  BY DEF CompositionTypeOK, Restart, upstream, Nothing, Response, Steps
<1>2. FlightInv' /\ LeaderInv' /\ DraftInv' /\ CacheInv' /\ WaitersAreLed'
  BY DEF Restart, FlightInv, LeaderInv, DraftInv, CacheInv, WaitersAreLed, InMap,
         Leading, Fetching
<1> QED
  BY <1>1, <1>2

(* A step of one request that stays outside the map and does not wait.     *)
LEMMA BystanderPreserves ==
    ASSUME CompositionInv, CompositionTypeOK', NEW r \in Req,
           pc[r] \in {"idle", "lookup", "join", "done"},
           pc'[r] \in {"idle", "lookup", "join", "done"},
           UNCHANGED <<cache, inFlight>>,
           \A q \in Req \ {r} : /\ pc'[q] = pc[q] /\ venue'[q] = venue[q]
                                /\ deferred'[q] = deferred[q] /\ draft'[q] = draft[q]
    PROVE  CompositionInv'
<1> USE DEF CompositionInv, Leading, Fetching
<1>1. FlightInv'
  BY DEF FlightInv, InMap
<1>2. LeaderInv'
  BY DEF LeaderInv, InMap, CompositionTypeOK
<1>3. DraftInv' /\ CacheInv'
  BY DEF DraftInv, CacheInv
<1>4. WaitersAreLed'
  <2>1. \A q \in Req \ {r} : pc[q] = "await" => inFlight[venue[q]] \in Req \ {r}
    BY DEF WaitersAreLed, CompositionTypeOK
  <2> QED
    BY <2>1 DEF WaitersAreLed
<1> QED
  BY <1>1, <1>2, <1>3, <1>4

LEMMA BeginPreserves ==
    ASSUME CompositionInv, NEW r \in Req, NEW v \in Venue, Begin(r, v)
    PROVE  CompositionInv'
<1>1. CompositionTypeOK'
  BY DEF CompositionInv, CompositionTypeOK, Begin, Goto, upstream, Steps
<1> QED
  BY <1>1, BystanderPreserves DEF CompositionInv, CompositionTypeOK, Begin, Goto

LEMMA LookupPreserves ==
    ASSUME CompositionInv, NEW r \in Req, Lookup(r)
    PROVE  CompositionInv'
<1>1. CompositionTypeOK'
  BY DEF CompositionInv, CompositionTypeOK, Lookup, Goto, Return, upstream, history, Steps
<1> QED
  BY <1>1, BystanderPreserves
     DEF CompositionInv, CompositionTypeOK, Lookup, Goto, Return, history

LEMMA RespondPreserves ==
    ASSUME CompositionInv, NEW r \in Req, Respond(r)
    PROVE  CompositionInv'
<1>1. CompositionTypeOK'
  <2>1. served' \in [Venue -> Response]
    BY DEF CompositionInv, CompositionTypeOK, Respond, Newest, Response
  <2> QED
    BY <2>1 DEF CompositionInv, CompositionTypeOK, Respond, Goto, upstream, Steps,
                Nothing, Response
<1> QED
  BY <1>1, BystanderPreserves
     DEF CompositionInv, CompositionTypeOK, Respond, Goto

LEMMA JoinPreserves ==
    ASSUME CompositionInv, NEW r \in Req, Join(r)
    PROVE  CompositionInv'
<1> DEFINE leader == inFlight[venue[r]]
<1>1. venue[r] \in Venue /\ pc[r] = "join" /\ leader \in Req \cup {None} /\ None \notin Req
  BY CompositionAssumption DEF CompositionInv, CompositionTypeOK, Join
<1>2. CASE leader = None
  <2>1. /\ inFlight' = [inFlight EXCEPT ![venue[r]] = r]
        /\ deferred' = [deferred EXCEPT ![r] = Pending]
        /\ pc' = [pc EXCEPT ![r] = "recheck"]
        /\ UNCHANGED <<upstream, cache, venue, draft, history>>
    BY <1>2 DEF Join, Goto
  <2> USE <1>1, <1>2, <2>1 DEF CompositionInv
  <2>2. CompositionTypeOK'
    BY DEF CompositionTypeOK, upstream, history, Steps, Leading
  <2>3. \A q \in Req \ {r} : venue[q] = venue[r] => ~InMap(q) /\ pc[q] # "await"
    BY CompositionAssumption DEF FlightInv, WaitersAreLed
  <2>4. FlightInv' /\ LeaderInv'
    BY <2>3 DEF CompositionTypeOK, FlightInv, LeaderInv, InMap, Leading
  <2>5. DraftInv' /\ CacheInv'
    BY DEF CompositionTypeOK, DraftInv, CacheInv, Fetching
  <2>6. WaitersAreLed'
    BY <2>3 DEF CompositionTypeOK, WaitersAreLed, Leading
  <2> QED
    BY <2>2, <2>4, <2>5, <2>6
<1>3. CASE leader # None /\ deferred[leader] = Pending
  <2>1. /\ pc' = [pc EXCEPT ![r] = "await"]
        /\ UNCHANGED <<upstream, cache, venue, draft, history, inFlight, deferred>>
    BY <1>3 DEF Join, Goto
  <2> USE <1>1, <1>3, <2>1 DEF CompositionInv
  <2>2. leader \in Req /\ pc[leader] \in Leading /\ venue[leader] = venue[r] /\ leader # r
    BY DEF LeaderInv, FlightInv, InMap, Leading, Fetching
  <2>3. CompositionTypeOK'
    BY DEF CompositionTypeOK, upstream, history, Steps
  <2>4. FlightInv' /\ LeaderInv' /\ DraftInv' /\ CacheInv'
    BY DEF CompositionTypeOK, FlightInv, LeaderInv, DraftInv, CacheInv, InMap, Leading,
           Fetching
  <2>5. WaitersAreLed'
    BY <2>2 DEF CompositionTypeOK, WaitersAreLed, Leading, Fetching
  <2> QED
    BY <2>3, <2>4, <2>5
<1>4. CASE leader # None /\ deferred[leader] # Pending
  <2>1. /\ pc' = [pc EXCEPT ![r] = "done"]
        /\ draft' = [draft EXCEPT ![r] = deferred[leader]]
        /\ UNCHANGED <<upstream, cache, venue, history, inFlight, deferred>>
    BY <1>4 DEF Join, Return
  <2>2. CompositionTypeOK'
    BY <1>1, <1>4, <2>1 DEF CompositionInv, CompositionTypeOK, upstream, history, Steps
  <2> QED
    BY <1>1, <2>1, <2>2, BystanderPreserves DEF CompositionInv, CompositionTypeOK
<1> QED
  BY <1>2, <1>3, <1>4

(* The leader goes from one of its steps to the next.                      *)
LEMMA LeaderStepPreserves ==
    ASSUME CompositionInv, NEW r \in Req, NEW step \in Leading,
           pc[r] \in Leading, pc' = [pc EXCEPT ![r] = step],
           UNCHANGED <<upstream, inFlight, deferred, venue, history>>,
           draft' \in [Req -> Response \cup {Failed}],
           \A q \in Req \ {r} : draft'[q] = draft[q],
           step \in {"availability", "put", "complete"} => draft'[r] \in Response,
           \/ UNCHANGED cache /\ (step \in Fetching => cache[venue[r]] = None)
           \/ step = "complete" /\ cache' = [cache EXCEPT ![venue[r]] = draft[r]]
              /\ draft[r] \in Response
    PROVE  CompositionInv'
<1> USE DEF CompositionInv
<1>1. CompositionTypeOK'
  BY DEF CompositionTypeOK, upstream, history, Steps
<1>2. FlightInv' /\ LeaderInv'
  BY DEF CompositionTypeOK, FlightInv, LeaderInv, InMap, Leading, Fetching
<1>3. WaitersAreLed'
  BY DEF CompositionTypeOK, WaitersAreLed, Leading, Fetching
<1>4. DraftInv'
  BY DEF CompositionTypeOK, DraftInv
<1>5. CacheInv'
  <2>1. \A q \in Req \ {r} : pc[q] \in Fetching => venue[q] # venue[r]
    BY DEF FlightInv, InMap, Leading, CompositionTypeOK
  <2> QED
    BY <2>1 DEF CompositionTypeOK, CacheInv, Fetching
<1> QED
  BY <1>1, <1>2, <1>3, <1>4, <1>5

(* The leader completes its deferred, which frees exactly its waiters.     *)
LEMMA CompletePreserves ==
    ASSUME CompositionInv, NEW r \in Req, NEW result \in Response \cup {Failed},
           pc[r] \in Leading, Complete(r, result),
           UNCHANGED <<upstream, inFlight, venue, history>>,
           \/ UNCHANGED cache
           \/ pc[r] = "put" /\ cache' = [cache EXCEPT ![venue[r]] = draft[r]]
    PROVE  CompositionInv'
<1> USE DEF CompositionInv
<1>1. CompositionTypeOK'
  BY DEF CompositionTypeOK, Complete, DraftInv, upstream, history, Steps
<1>2. /\ pc'[r] = "leave" /\ deferred'[r] # Pending
      /\ \A q \in Req \ {r} : deferred'[q] = deferred[q]
  BY CompositionAssumption DEF CompositionTypeOK, Complete
<1>3. \A q \in Req \ {r} :
        pc'[q] = pc[q] \/ (q \in Waiters(r) /\ pc[q] = "await" /\ pc'[q] = "done")
  BY DEF CompositionTypeOK, Complete, Waiters
<1>4. \A q \in Req \ {r} : InMap(q) => pc'[q] = pc[q] /\ draft'[q] = draft[q]
  BY DEF CompositionTypeOK, Complete, Waiters, InMap, Leading, Fetching
<1>5. FlightInv'
  BY <1>2, <1>3, <1>4 DEF FlightInv, InMap, Leading, Fetching
<1>6. LeaderInv'
  BY <1>2, <1>3, <1>4 DEF LeaderInv, InMap, Leading, Fetching
<1>7. DraftInv'
  BY <1>2, <1>3, <1>4 DEF DraftInv, InMap, Leading, Fetching
<1>8. CacheInv'
  <2>1. \A q \in Req \ {r} : pc[q] \in Fetching => venue[q] # venue[r]
    BY DEF FlightInv, InMap, Leading, CompositionTypeOK
  <2> QED
    BY <1>2, <1>3, <2>1 DEF CompositionTypeOK, CacheInv, Fetching
<1>9. WaitersAreLed'
  <2> SUFFICES ASSUME NEW q \in Req, pc'[q] = "await"
               PROVE  /\ inFlight[venue[q]] # None
                      /\ pc'[inFlight[venue[q]]] \in Leading
                      /\ venue[inFlight[venue[q]]] = venue[q]
    BY DEF WaitersAreLed
  <2>1. q # r /\ pc[q] = "await" /\ q \notin Waiters(r)
    BY <1>2, <1>3 DEF CompositionTypeOK, Complete
  <2>2. venue[q] # venue[r]
    BY <2>1 DEF Waiters
  <2>3. /\ inFlight[venue[q]] # None /\ pc[inFlight[venue[q]]] \in Leading
        /\ venue[inFlight[venue[q]]] = venue[q] /\ inFlight[venue[q]] \in Req
    BY <2>1 DEF WaitersAreLed, CompositionTypeOK
  <2> QED
    BY <1>4, <2>2, <2>3 DEF InMap
<1> QED
  BY <1>1, <1>5, <1>6, <1>7, <1>8, <1>9

LEMMA RecheckPreserves ==
    ASSUME CompositionInv, NEW r \in Req, Recheck(r)
    PROVE  CompositionInv'
<1>1. pc[r] \in Leading /\ "items" \in Leading
  BY DEF Recheck, Leading, Fetching
<1>2. cache[venue[r]] # None => cache[venue[r]] \in Response
  BY DEF CompositionInv, CompositionTypeOK
<1>3. ASSUME NEW result \in Response \cup {Failed}, Complete(r, result) PROVE CompositionInv'
  BY <1>1, <1>3, CompletePreserves DEF Recheck
<1>4. CASE cache[venue[r]] = None /\ Goto(r, "items") /\ UNCHANGED <<deferred, draft>>
  <2>1. draft' \in [Req -> Response \cup {Failed}]
    BY <1>4 DEF CompositionInv, CompositionTypeOK
  <2>2. pc' = [pc EXCEPT ![r] = "items"] /\ UNCHANGED <<upstream, cache, inFlight, venue, history>>
    BY <1>4 DEF Goto, Recheck
  <2> QED
    BY <1>1, <1>4, <2>1, <2>2, LeaderStepPreserves
<1> QED
  BY <1>2, <1>3, <1>4 DEF Recheck

LEMMA FetchPreserves ==
    ASSUME CompositionInv, NEW r \in Req, FetchItems(r) \/ FetchAvailability(r)
    PROVE  CompositionInv'
<1>1. /\ pc[r] \in Fetching /\ pc[r] \in Leading
      /\ UNCHANGED <<upstream, cache, inFlight, venue, history>>
  BY DEF FetchItems, FetchAvailability, Leading, Fetching
<1>2. CASE Complete(r, Failed)
  BY <1>1, <1>2, CompletePreserves
<1>3. CASE ~Complete(r, Failed)
  <2>1. /\ \/ pc' = [pc EXCEPT ![r] = "availability"] \/ pc' = [pc EXCEPT ![r] = "put"]
        /\ UNCHANGED deferred
        /\ draft' \in [Req -> Response \cup {Failed}]
        /\ \A q \in Req \ {r} : draft'[q] = draft[q]
        /\ draft'[r] \in Response
    <3>1. CASE FetchItems(r)
      BY <1>3, <3>1 DEF FetchItems, Goto, CompositionInv, CompositionTypeOK, Response
    <3>2. CASE FetchAvailability(r)
      <4>1. draft[r] \in Response /\ availability[venue[r]] \in Nat
        BY <3>2 DEF FetchAvailability, CompositionInv, CompositionTypeOK, DraftInv
      <4>2. [draft[r] EXCEPT !.availability = availability[venue[r]]] \in Response
        BY <4>1 DEF Response
      <4> QED
        BY <1>3, <3>2, <4>2 DEF FetchAvailability, Goto, CompositionInv, CompositionTypeOK
    <3> QED
      BY <3>1, <3>2
  <2>2. cache[venue[r]] = None
    BY <1>1 DEF CompositionInv, CacheInv
  <2>3. "availability" \in Leading /\ "put" \in Leading
    BY DEF Leading, Fetching
  <2> QED
    BY <1>1, <2>1, <2>2, <2>3, LeaderStepPreserves
<1> QED
  BY <1>2, <1>3

LEMMA CachePutPreserves ==
    ASSUME CompositionInv, NEW r \in Req, CachePut(r)
    PROVE  CompositionInv'
<1>1. /\ pc[r] = "put" /\ pc[r] \in Leading /\ "complete" \in Leading
      /\ UNCHANGED <<upstream, inFlight, venue, history>>
  BY DEF CachePut, Leading, Fetching
<1>2. draft[r] \in Response /\ draft \in [Req -> Response \cup {Failed}]
  BY <1>1 DEF CompositionInv, CompositionTypeOK, DraftInv
<1>3. CASE Complete(r, Failed) /\ cache' \in {cache, [cache EXCEPT ![venue[r]] = draft[r]]}
  BY <1>1, <1>3, CompletePreserves
<1>4. CASE /\ cache' = [cache EXCEPT ![venue[r]] = draft[r]]
           /\ Goto(r, "complete") /\ UNCHANGED <<deferred, draft>>
  <2>1. pc' = [pc EXCEPT ![r] = "complete"] /\ "complete" \notin Fetching
    BY <1>4 DEF Goto, Fetching
  <2> QED
    BY <1>1, <1>2, <1>4, <2>1, LeaderStepPreserves
<1> QED
  BY <1>3, <1>4 DEF CachePut

LEMMA CompleteDeferredPreserves ==
    ASSUME CompositionInv, NEW r \in Req, CompleteDeferred(r)
    PROVE  CompositionInv'
<1>1. /\ pc[r] \in Leading /\ draft[r] \in Response
      /\ Complete(r, draft[r]) /\ UNCHANGED <<upstream, cache, inFlight, venue, history>>
  BY DEF CompleteDeferred, Leading, CompositionInv, DraftInv
<1> QED
  BY <1>1, CompletePreserves

LEMMA LeavePreserves ==
    ASSUME CompositionInv, NEW r \in Req, Leave(r)
    PROVE  CompositionInv'
<1> USE DEF CompositionInv
<1>1. /\ pc[r] = "leave" /\ venue[r] \in Venue /\ inFlight[venue[r]] = r
      /\ inFlight' = [inFlight EXCEPT ![venue[r]] = None]
      /\ pc' = [pc EXCEPT ![r] = "done"]
      /\ UNCHANGED <<upstream, cache, deferred, venue, draft, history>>
  BY DEF CompositionTypeOK, FlightInv, InMap, Leave, Goto
<1>2. CompositionTypeOK'
  BY <1>1 DEF CompositionTypeOK, upstream, history, Steps
<1>3. \A q \in Req \ {r} : InMap(q) => venue[q] # venue[r]
  BY <1>1 DEF FlightInv
<1>4. FlightInv'
  BY <1>1, <1>3 DEF CompositionTypeOK, FlightInv, InMap, Leading, Fetching
<1>5. LeaderInv'
  BY <1>1 DEF CompositionTypeOK, LeaderInv, InMap
<1>6. DraftInv' /\ CacheInv'
  BY <1>1 DEF CompositionTypeOK, DraftInv, CacheInv, Fetching
<1>7. WaitersAreLed'
  <2>1. \A q \in Req : pc[q] = "await" => venue[q] # venue[r]
    BY <1>1 DEF WaitersAreLed, Leading, Fetching
  <2> QED
    BY <1>1, <2>1 DEF CompositionTypeOK, WaitersAreLed, Leading, Fetching
<1> QED
  BY <1>2, <1>4, <1>5, <1>6, <1>7

(* The invariant, for any number of requests and venues.                   *)
THEOREM CompositionInvariance == CompositionSpec => []CompositionInv
<1>1. CompositionInit => CompositionInv
  BY CompositionInitial
<1>2. CompositionInv /\ [CompositionNext]_vars => CompositionInv'
  <2> SUFFICES ASSUME CompositionInv, [CompositionNext]_vars PROVE CompositionInv'
    OBVIOUS
  <2>1. ASSUME NEW r \in Req, RequestStep(r) PROVE CompositionInv'
    BY <2>1, LookupPreserves, JoinPreserves, RecheckPreserves, FetchPreserves,
       CachePutPreserves, CompleteDeferredPreserves, LeavePreserves, RespondPreserves
       DEF RequestStep
  <2>2. CASE UNCHANGED vars
    BY <2>2 DEF vars, upstream, history, CompositionInv, CompositionTypeOK, FlightInv, LeaderInv,
                DraftInv, CacheInv, WaitersAreLed, InMap
  <2> QED
    BY <2>1, <2>2, OutsidePreserves, BeginPreserves, RestartPreserves DEF CompositionNext
<1> QED
  BY <1>1, <1>2, PTL DEF CompositionSpec

(* However requests, expiry and errors fall, a venue has one fetch under   *)
(* way at most, and none while its menu is cached.                         *)
THEOREM NoStampede == CompositionSpec => []SingleFlight
<1>1. CompositionInv => SingleFlight
  BY OneFetch
<1> QED
  BY <1>1, CompositionInvariance, PTL

(* Nobody waits for a leader that has failed or gone.                      *)
THEOREM NobodyIsStranded == CompositionSpec => []WaitersAreLed
<1>1. CompositionInv => WaitersAreLed
  BY DEF CompositionInv
<1> QED
  BY <1>1, CompositionInvariance, PTL

-----------------------------------------------------------------------------
(* The age of responses: one is at most another when neither of its parts  *)
(* is newer.                                                               *)
AtMost(a, b) == a.menu <= b.menu /\ a.availability <= b.availability

Upstream(v) == [menu |-> menu[v], availability |-> availability[v]]

Answered(r) == pc[r] \in {"leave", "done"} /\ draft[r] # Failed

(* x is as new as every response for v that was given or is on its way out.*)
Covers(v, x) ==
    /\ AtMost(served[v], x)
    /\ \A r \in Req : venue[r] = v /\ Answered(r) => AtMost(draft[r], x)

(* A leader with a response, whole or in part, and the response it will    *)
(* have at the earliest.                                                   *)
Carries(r) ==
    pc[r] \in {"availability", "put", "complete"} \/ (pc[r] = "leave" /\ draft[r] # Failed)

Coming(r) ==
    IF pc[r] = "availability" THEN [draft[r] EXCEPT !.availability = availability[venue[r]]]
                              ELSE draft[r]

FloorInv == \A r \in Req : AtMost(floor[r], served[venue[r]])

(* Nothing is newer than the upstream services.                            *)
UpstreamInv ==
    /\ \A v \in Venue : Covers(v, Upstream(v))
    /\ \A v \in Venue : cache[v] # None => AtMost(cache[v], Upstream(v))
    /\ \A r \in Req : Carries(r) => AtMost(Coming(r), Upstream(venue[r]))

(* What can be given from here on, from the cache or by a leader, is as    *)
(* new as everything that was given.                                       *)
ForwardInv ==
    /\ \A v \in Venue : cache[v] # None => Covers(v, cache[v])
    /\ \A r \in Req : Carries(r) => Covers(venue[r], Coming(r))

(* While a leader is in the map nobody else fills the cache of its venue.  *)
AgreeInv ==
    \A r \in Req :
        /\ pc[r] = "leave" => deferred[r] = draft[r]
        /\ Carries(r) => cache[venue[r]] \in {None, Coming(r)}

AnswerInv == \A r \in Req : Answered(r) => AtMost(floor[r], draft[r])

AgeInv == FloorInv /\ UpstreamInv /\ ForwardInv /\ AgreeInv /\ AnswerInv

LEMMA AtMostOrders ==
    /\ \A a \in Response : AtMost(a, a) /\ AtMost(Nothing, a)
    /\ \A a, b, c \in Response : AtMost(a, b) /\ AtMost(b, c) => AtMost(a, c)
BY DEF AtMost, Response, Nothing

(* All that is compared are responses.                                     *)
LEMMA AgesAreResponses ==
    ASSUME CompositionInv
    PROVE  /\ \A v \in Venue : Upstream(v) \in Response /\ served[v] \in Response
           /\ \A v \in Venue : cache[v] # None => cache[v] \in Response
           /\ \A r \in Req : venue[r] \in Venue /\ floor[r] \in Response
           /\ \A r \in Req : Answered(r) => draft[r] \in Response
           /\ \A r \in Req : Carries(r) => Coming(r) \in Response /\ draft[r] \in Response
<1> USE DEF CompositionInv, CompositionTypeOK
<1>1. \A v \in Venue : Upstream(v) \in Response
  BY DEF Upstream, Response
<1>2. \A r \in Req : Carries(r) => draft[r] \in Response
  BY DEF Carries, DraftInv
<1>3. \A r \in Req : Carries(r) => Coming(r) \in Response
  <2>1. \A r \in Req : availability[venue[r]] \in Nat
    OBVIOUS
  <2> QED
    BY <1>2, <2>1 DEF Coming, Response
<1> QED
  BY <1>1, <1>2, <1>3 DEF Answered

(* At most one request of a venue is in the map.                           *)
LEMMA OneInMap ==
    ASSUME CompositionInv, NEW r \in Req, NEW q \in Req, InMap(r), InMap(q), venue[q] = venue[r]
    PROVE  q = r
BY DEF CompositionInv, FlightInv

LEMMA CarriersAreInMap ==
    \A r \in Req : Carries(r) => InMap(r)
BY DEF Carries, InMap, Leading, Fetching

LEMMA AgeInitial == ASSUME CompositionInit PROVE AgeInv
<1>1. Nothing \in Response /\ \A v \in Venue : Upstream(v) \in Response
  BY DEF CompositionInit, Upstream, Nothing, Response
<1>2. /\ \A r \in Req : ~Answered(r) /\ ~Carries(r) /\ pc[r] # "leave"
      /\ \A v \in Venue : served[v] = Nothing /\ cache[v] = None
      /\ \A r \in Req : floor[r] = Nothing /\ venue[r] \in Venue
  BY DEF CompositionInit, Answered, Carries
<1> QED
  BY <1>1, <1>2, AtMostOrders
     DEF AgeInv, FloorInv, UpstreamInv, ForwardInv, AgreeInv, AnswerInv, Covers

(* Some requests get a result, at most as new as what can come after it.   *)
LEMMA AnsweringKeepsAge ==
    ASSUME CompositionInv, AgeInv, NEW v \in Venue, NEW result \in Response \cup {Failed},
           NEW G \in SUBSET Req,
           UNCHANGED <<upstream, venue, history>>,
           \A q \in G : /\ venue[q] = v /\ pc'[q] \in {"leave", "done"} /\ draft'[q] = result
                        /\ pc'[q] = "leave" => /\ deferred'[q] = result
                                               /\ result # Failed => cache[v] \in {None, result},
           \A q \in Req \ G : /\ pc'[q] = pc[q] /\ draft'[q] = draft[q]
                              /\ deferred'[q] = deferred[q],
           \/ UNCHANGED cache
           \/ /\ result = Failed
              /\ \E r \in G : pc[r] = "put" /\ cache' = [cache EXCEPT ![v] = draft[r]],
           result # Failed =>
              /\ Covers(v, result) /\ AtMost(result, Upstream(v))
              /\ cache[v] # None => AtMost(result, cache[v])
              /\ \A q \in Req \ G : venue[q] = v /\ Carries(q) => AtMost(result, Coming(q))
    PROVE  AgeInv'
<1>1. /\ venue' = venue /\ served' = served /\ floor' = floor
      /\ menu' = menu /\ availability' = availability
  BY DEF upstream, history
<1>2. \A u \in Venue : Upstream(u)' = Upstream(u)
  BY <1>1 DEF Upstream
<1>3. \A q \in Req : Answered(q)' =>
        \/ q \in G /\ result # Failed /\ draft'[q] = result /\ venue[q] = v
        \/ Answered(q) /\ draft'[q] = draft[q]
  BY DEF Answered
<1>4. \A q \in Req : Carries(q)' =>
        \/ /\ q \in G /\ result # Failed /\ Coming(q)' = result /\ venue[q] = v
           /\ pc'[q] = "leave"
        \/ q \notin G /\ Carries(q) /\ Coming(q)' = Coming(q)
  BY <1>1 DEF Carries, Coming
<1>5. /\ \A u \in Venue : Upstream(u) \in Response /\ served[u] \in Response
      /\ \A q \in Req : venue[q] \in Venue /\ floor[q] \in Response
  BY AgesAreResponses
<1>6. ASSUME ~UNCHANGED cache
      PROVE  \E r \in G : /\ pc[r] = "put" /\ cache' = [cache EXCEPT ![v] = draft[r]]
                          /\ result = Failed /\ Carries(r) /\ Coming(r) = draft[r]
  BY <1>6 DEF Carries, Coming
<1>7. \A u \in Venue : cache'[u] = cache[u] \/
        \E r \in G : /\ u = v /\ result = Failed /\ pc[r] = "put"
                     /\ Carries(r) /\ Coming(r) = draft[r] /\ cache'[u] = Coming(r)
  BY <1>6 DEF CompositionInv, CompositionTypeOK
<1>8. FloorInv'
  BY <1>1 DEF AgeInv, FloorInv
<1>9. UpstreamInv'
  <2>1. ASSUME NEW u \in Venue PROVE Covers(u, Upstream(u))'
    <3>1. Covers(u, Upstream(u)) /\ (u = v /\ result # Failed => AtMost(result, Upstream(u)))
      BY DEF AgeInv, UpstreamInv
    <3> QED
      BY <1>1, <1>2, <1>3, <3>1 DEF Covers
  <2>2. ASSUME NEW u \in Venue, cache'[u] # None PROVE AtMost(cache[u], Upstream(u))'
    BY <1>2, <1>7, <2>2 DEF AgeInv, UpstreamInv, AtMost
  <2>3. ASSUME NEW q \in Req, Carries(q)' PROVE AtMost(Coming(q), Upstream(venue[q]))'
    BY <1>1, <1>2, <1>4, <1>5, <2>3 DEF AgeInv, UpstreamInv, AtMost
  <2> QED
    BY <1>1, <2>1, <2>2, <2>3 DEF UpstreamInv
<1>10. ForwardInv'
  <2>1. ASSUME NEW u \in Venue, cache'[u] # None PROVE Covers(u, cache[u])'
    <3>1. CASE cache'[u] = cache[u]
      <4>1. Covers(u, cache[u]) /\ (u = v /\ result # Failed => AtMost(result, cache[u]))
        BY <2>1, <3>1 DEF AgeInv, ForwardInv
      <4> QED
        BY <1>1, <1>3, <3>1, <4>1 DEF Covers
    <3>2. ASSUME NEW r \in G, u = v, result = Failed, Carries(r), cache'[u] = Coming(r)
          PROVE  Covers(u, cache[u])'
      <4>1. Covers(u, Coming(r))
        BY <3>2 DEF AgeInv, ForwardInv
      <4> QED
        BY <1>1, <1>3, <3>2, <4>1 DEF Covers
    <3> QED
      BY <1>7, <3>1, <3>2
  <2>2. ASSUME NEW q \in Req, Carries(q)' PROVE Covers(venue[q], Coming(q))'
    <3>1. CASE q \in G
      <4>1. Covers(v, result) /\ AtMost(result, result) /\ result # Failed
        BY <1>4, <2>2, <3>1, AtMostOrders
      <4> QED
        BY <1>1, <1>3, <1>4, <2>2, <3>1, <4>1 DEF Covers
    <3>2. CASE q \notin G
      <4>1. /\ Covers(venue[q], Coming(q))
            /\ venue[q] = v /\ result # Failed => AtMost(result, Coming(q))
        BY <1>4, <2>2, <3>2 DEF AgeInv, ForwardInv
      <4>2. Coming(q)' = Coming(q)
        BY <1>4, <2>2, <3>2
      <4> QED
        BY <1>1, <1>3, <4>1, <4>2 DEF Covers
    <3> QED
      BY <3>1, <3>2
  <2> QED
    BY <1>1, <2>1, <2>2 DEF ForwardInv
<1>11. AgreeInv'
  <2>1. \A q \in Req : pc'[q] = "leave" => deferred'[q] = draft'[q]
    BY DEF AgeInv, AgreeInv
  <2>2. ASSUME NEW q \in Req, Carries(q)' PROVE cache'[venue[q]] \in {None, Coming(q)'}
    <3>1. CASE q \in G
      BY <1>4, <1>7, <2>2, <3>1
    <3>2. CASE q \notin G
      <4>1. Carries(q) /\ Coming(q)' = Coming(q) /\ cache[venue[q]] \in {None, Coming(q)}
        BY <1>4, <2>2, <3>2 DEF AgeInv, AgreeInv
      <4>2. ASSUME NEW r \in G, venue[q] = v, Carries(r) PROVE FALSE
        BY <3>2, <4>1, <4>2, OneInMap, CarriersAreInMap
      <4> QED
        BY <1>5, <1>7, <4>1, <4>2
    <3> QED
      BY <3>1, <3>2
  <2> QED
    BY <1>1, <2>1, <2>2 DEF AgreeInv
<1>12. AnswerInv'
  <2> SUFFICES ASSUME NEW q \in Req, Answered(q)' PROVE AtMost(floor[q], draft'[q])
    BY <1>1 DEF AnswerInv
  <2>1. CASE Answered(q) /\ draft'[q] = draft[q]
    BY <2>1 DEF AgeInv, AnswerInv
  <2>2. CASE q \in G /\ result # Failed /\ draft'[q] = result /\ venue[q] = v
    <3>1. AtMost(floor[q], served[v]) /\ AtMost(served[v], result) /\ result \in Response
      BY <2>2 DEF AgeInv, FloorInv, Covers
    <3> QED
      BY <1>5, <2>2, <3>1, AtMostOrders
  <2> QED
    BY <1>3, <2>1, <2>2
<1> QED
  BY <1>8, <1>9, <1>10, <1>11, <1>12 DEF AgeInv

LEMMA OneAnswerKeepsAge ==
    ASSUME CompositionInv, AgeInv, NEW r \in Req, NEW result \in Response \cup {Failed},
           UNCHANGED <<upstream, cache, deferred, venue, history>>,
           pc'[r] = "done", draft'[r] = result,
           \A q \in Req \ {r} : pc'[q] = pc[q] /\ draft'[q] = draft[q],
           result # Failed =>
              /\ Covers(venue[r], result) /\ AtMost(result, Upstream(venue[r]))
              /\ cache[venue[r]] # None => AtMost(result, cache[venue[r]])
              /\ \A q \in Req \ {r} : venue[q] = venue[r] /\ Carries(q)
                                        => AtMost(result, Coming(q))
    PROVE  AgeInv'
<1> DEFINE G == {r}
<1>1. G \in SUBSET Req /\ venue[r] \in Venue
  BY DEF CompositionInv, CompositionTypeOK
<1>2. \A q \in G : /\ venue[q] = venue[r] /\ pc'[q] \in {"leave", "done"}
                   /\ draft'[q] = result /\ pc'[q] # "leave"
  OBVIOUS
<1>3. \A q \in Req \ G : pc'[q] = pc[q] /\ draft'[q] = draft[q] /\ deferred'[q] = deferred[q]
  OBVIOUS
<1>4. result # Failed => \A q \in Req \ G : venue[q] = venue[r] /\ Carries(q)
                                              => AtMost(result, Coming(q))
  OBVIOUS
<1> HIDE DEF G
<1> QED
  BY <1>1, <1>2, <1>3, <1>4, AnsweringKeepsAge

(* A request goes on and neither has an answer nor fetches one.            *)
LEMMA WaitingKeepsAge ==
    ASSUME AgeInv, NEW r \in Req, UNCHANGED <<upstream, cache, venue, history>>,
           pc'[r] \notin {"availability", "put", "complete", "leave", "done"},
           \A q \in Req \ {r} : /\ pc'[q] = pc[q] /\ draft'[q] = draft[q]
                                /\ deferred'[q] = deferred[q]
    PROVE  AgeInv'
<1>1. /\ venue' = venue /\ served' = served /\ floor' = floor /\ cache' = cache
      /\ menu' = menu /\ availability' = availability
  BY DEF upstream, history
<1>2. \A q \in Req :
        /\ Answered(q)' => Answered(q) /\ draft'[q] = draft[q]
        /\ Carries(q)' => Carries(q) /\ Coming(q)' = Coming(q)
        /\ pc'[q] = "leave" => /\ pc[q] = "leave" /\ draft'[q] = draft[q]
                               /\ deferred'[q] = deferred[q]
  BY <1>1 DEF Answered, Carries, Coming
<1>3. \A v : Upstream(v)' = Upstream(v)
  BY <1>1 DEF Upstream
<1>4. FloorInv' /\ AgreeInv' /\ AnswerInv'
  BY <1>1, <1>2 DEF AgeInv, FloorInv, AgreeInv, AnswerInv
<1>5. UpstreamInv'
  BY <1>1, <1>2, <1>3 DEF AgeInv, UpstreamInv, Covers, AtMost
<1>6. ForwardInv'
  BY <1>1, <1>2 DEF AgeInv, ForwardInv, Covers, AtMost
<1> QED
  BY <1>4, <1>5, <1>6 DEF AgeInv

(* A leader reads an upstream service or fills the cache.                  *)
LEMMA CarryingKeepsAge ==
    ASSUME CompositionInv, AgeInv, NEW r \in Req, UNCHANGED <<upstream, deferred, venue, history>>,
           InMap(r), pc'[r] \in {"availability", "put", "complete"},
           \A q \in Req \ {r} : pc'[q] = pc[q] /\ draft'[q] = draft[q],
           \/ Coming(r)' = Upstream(venue[r])
           \/ Carries(r) /\ Coming(r)' = Coming(r),
           \/ cache' = cache /\ cache[venue[r]] = None
           \/ cache' = [cache EXCEPT ![venue[r]] = Coming(r)']
    PROVE  AgeInv'
<1>1. /\ venue' = venue /\ served' = served /\ floor' = floor /\ deferred' = deferred
      /\ menu' = menu /\ availability' = availability
  BY DEF upstream, history
<1>2. /\ Carries(r)' /\ ~Answered(r)' /\ pc'[r] # "leave"
      /\ \A q \in Req \ {r} : /\ Answered(q)' <=> Answered(q)
                              /\ Carries(q)' <=> Carries(q)
                              /\ Coming(q)' = Coming(q)
  BY <1>1 DEF Answered, Carries, Coming
<1>3. \A v : Upstream(v)' = Upstream(v)
  BY <1>1 DEF Upstream
<1>4. PICK new \in Response : /\ new = Coming(r)' /\ Covers(venue[r], new)
                              /\ AtMost(new, Upstream(venue[r]))
  <2>1. venue[r] \in Venue /\ Upstream(venue[r]) \in Response
    BY AgesAreResponses
  <2>2. CASE Coming(r)' = Upstream(venue[r])
    BY <2>1, <2>2, AtMostOrders DEF AgeInv, UpstreamInv
  <2>3. CASE Carries(r) /\ Coming(r)' = Coming(r)
    BY <2>1, <2>3, AgesAreResponses DEF AgeInv, UpstreamInv, ForwardInv
  <2> QED
    BY <2>2, <2>3
<1>5. /\ cache'[venue[r]] \in {None, new}
      /\ \A v \in Venue : cache'[v] = cache[v] \/ (v = venue[r] /\ cache'[v] = new)
      /\ \A q \in Req : venue[q] \in Venue
  BY <1>4 DEF CompositionInv, CompositionTypeOK
<1>6. FloorInv' /\ AnswerInv'
  BY <1>1, <1>2 DEF AgeInv, FloorInv, AnswerInv
<1>7. UpstreamInv'
  <2>1. ASSUME NEW v \in Venue PROVE Covers(v, Upstream(v))'
    <3>1. Covers(v, Upstream(v))
      BY DEF AgeInv, UpstreamInv
    <3> QED
      BY <1>1, <1>2, <1>3, <3>1 DEF Covers
  <2>2. \A v \in Venue : cache'[v] # None => AtMost(cache'[v], Upstream(v)')
    BY <1>3, <1>4, <1>5 DEF AgeInv, UpstreamInv
  <2>3. \A q \in Req : Carries(q)' => AtMost(Coming(q)', Upstream(venue[q])')
    BY <1>2, <1>3, <1>4 DEF AgeInv, UpstreamInv
  <2> QED
    BY <1>1, <2>1, <2>2, <2>3 DEF UpstreamInv, AtMost
<1>8. ForwardInv'
  <2>1. ASSUME NEW v \in Venue, cache'[v] # None PROVE Covers(v, cache[v])'
    <3>1. Covers(v, cache'[v])
      BY <1>4, <1>5, <2>1 DEF AgeInv, ForwardInv
    <3> QED
      BY <1>1, <1>2, <3>1 DEF Covers
  <2>2. ASSUME NEW q \in Req, Carries(q)' PROVE Covers(venue[q], Coming(q))'
    <3>1. Covers(venue[q], Coming(q)')
      BY <1>2, <1>4, <2>2 DEF AgeInv, ForwardInv
    <3> QED
      BY <1>1, <1>2, <3>1 DEF Covers
  <2> QED
    BY <1>1, <2>1, <2>2 DEF ForwardInv
<1>9. AgreeInv'
  <2>1. \A q \in Req \ {r} : Carries(q) => venue[q] # venue[r]
    BY OneInMap, CarriersAreInMap
  <2>2. \A q \in Req : Carries(q)' => cache'[venue[q]] \in {None, Coming(q)'}
    BY <1>2, <1>4, <1>5, <2>1 DEF AgeInv, AgreeInv
  <2>3. \A q \in Req : pc'[q] = "leave" => deferred'[q] = draft'[q]
    BY <1>1, <1>2 DEF AgeInv, AgreeInv
  <2> QED
    BY <1>1, <2>2, <2>3 DEF AgreeInv
<1> QED
  BY <1>6, <1>7, <1>8, <1>9 DEF AgeInv

-----------------------------------------------------------------------------
LEMMA OutsideKeepsAge ==
    ASSUME CompositionInv, AgeInv, NEW v \in Venue,
           UpdateMenu(v) \/ UpdateAvailability(v) \/ Expire(v)
    PROVE  AgeInv'
<1>1. /\ UNCHANGED <<inFlight, deferred, pc, venue, draft, history>>
      /\ served' = served /\ floor' = floor
  BY DEF UpdateMenu, UpdateAvailability, Expire, history
<1>2. \A u \in Venue : /\ menu[u] \in Nat /\ menu'[u] \in Nat /\ menu[u] <= menu'[u]
                       /\ availability[u] \in Nat /\ availability'[u] \in Nat
                       /\ availability[u] <= availability'[u]
                       /\ cache'[u] \in {cache[u], None}
  BY DEF CompositionInv, CompositionTypeOK, UpdateMenu, UpdateAvailability, Expire, upstream
<1>3. \A u \in Venue : Upstream(u)' \in Response /\ AtMost(Upstream(u), Upstream(u)')
  BY <1>2 DEF Upstream, AtMost, Response
<1>4. \A r \in Req :
        /\ Answered(r)' <=> Answered(r)
        /\ Carries(r)' <=> Carries(r)
        /\ Carries(r) => Coming(r)' \in Response /\ AtMost(Coming(r), Coming(r)')
  <2> SUFFICES ASSUME NEW r \in Req, Carries(r)
               PROVE  Coming(r)' \in Response /\ AtMost(Coming(r), Coming(r)')
    BY <1>1 DEF Answered, Carries
  <2>1. venue[r] \in Venue /\ draft[r] \in Response /\ Coming(r) \in Response
    BY AgesAreResponses
  <2> QED
    BY <1>1, <1>2, <2>1 DEF Coming, AtMost, Response
<1>5. \A r \in Req : Carries(r) /\ Coming(r)' # Coming(r) => cache[venue[r]] = None
  <2> SUFFICES ASSUME NEW r \in Req, Carries(r), Coming(r)' # Coming(r)
               PROVE  cache[venue[r]] = None
    OBVIOUS
  <2>1. pc[r] = "availability"
    BY <1>1 DEF Coming
  <2> QED
    BY <2>1 DEF CompositionInv, CacheInv, Fetching
<1>6. /\ \A u \in Venue : Upstream(u) \in Response /\ served[u] \in Response
      /\ \A u \in Venue : cache[u] # None => cache[u] \in Response
      /\ \A r \in Req : venue[r] \in Venue
      /\ \A r \in Req : Answered(r) => draft[r] \in Response
      /\ \A r \in Req : Carries(r) => Coming(r) \in Response
  BY AgesAreResponses
<1>7. FloorInv' /\ AnswerInv'
  BY <1>1, <1>4 DEF AgeInv, FloorInv, AnswerInv
<1>8. ASSUME NEW u \in Venue, NEW x \in Response, NEW y \in Response, Covers(u, x), AtMost(x, y)
      PROVE  /\ AtMost(served[u], y)
             /\ \A r \in Req : venue[r] = u /\ Answered(r) => AtMost(draft[r], y)
  BY <1>6, <1>8, AtMostOrders DEF Covers
<1>9. UpstreamInv'
  <2>1. ASSUME NEW u \in Venue PROVE Covers(u, Upstream(u))'
    <3>1. /\ AtMost(served[u], Upstream(u)')
          /\ \A r \in Req : venue[r] = u /\ Answered(r) => AtMost(draft[r], Upstream(u)')
      BY <1>3, <1>6, <1>8 DEF AgeInv, UpstreamInv
    <3> QED
      BY <1>1, <1>4, <3>1 DEF Covers
  <2>2. \A u \in Venue : cache'[u] # None => AtMost(cache'[u], Upstream(u)')
    BY <1>2, <1>3, <1>6, AtMostOrders DEF AgeInv, UpstreamInv
  <2>3. ASSUME NEW r \in Req, Carries(r) PROVE AtMost(Coming(r)', Upstream(venue[r])')
    <3>1. AtMost(Coming(r), Upstream(venue[r]))
      BY <2>3 DEF AgeInv, UpstreamInv
    <3>2. venue[r] \in Venue /\ draft[r] \in Response
      BY <2>3, AgesAreResponses
    <3> QED
      BY <1>1, <1>2, <3>1, <3>2 DEF Coming, Upstream, AtMost, Response
  <2> QED
    BY <1>1, <1>4, <2>1, <2>2, <2>3 DEF UpstreamInv
<1>10. ForwardInv'
  <2>1. ASSUME NEW u \in Venue, cache'[u] # None PROVE Covers(u, cache[u])'
    <3>1. Covers(u, cache'[u])
      BY <1>2, <2>1 DEF AgeInv, ForwardInv
    <3> QED
      BY <1>1, <1>4, <3>1 DEF Covers
  <2>2. ASSUME NEW r \in Req, Carries(r) PROVE Covers(venue[r], Coming(r))'
    <3>1. /\ AtMost(served[venue[r]], Coming(r)')
          /\ \A q \in Req : venue[q] = venue[r] /\ Answered(q) => AtMost(draft[q], Coming(r)')
      BY <1>4, <1>6, <1>8, <2>2 DEF AgeInv, ForwardInv
    <3> QED
      BY <1>1, <1>4, <3>1 DEF Covers
  <2> QED
    BY <1>1, <1>4, <2>1, <2>2 DEF ForwardInv
<1>11. AgreeInv'
  BY <1>1, <1>2, <1>4, <1>5, <1>6 DEF AgeInv, AgreeInv
<1> QED
  BY <1>7, <1>9, <1>10, <1>11 DEF AgeInv

(* A restart forgets the requests; what the cache holds was covered.       *)
LEMMA RestartKeepsAge == ASSUME CompositionInv, AgeInv, Restart PROVE AgeInv'
<1>1. /\ \A r \in Req : ~Answered(r)' /\ ~Carries(r)' /\ pc'[r] # "leave" /\ floor'[r] = Nothing
      /\ cache' = cache /\ served' = served /\ venue' = venue
      /\ menu' = menu /\ availability' = availability
  BY DEF Restart, Answered, Carries, upstream
<1>2. \A v : Upstream(v)' = Upstream(v)
  BY <1>1 DEF Upstream
<1>3. FloorInv'
  BY <1>1, AgesAreResponses, AtMostOrders DEF FloorInv
<1>4. AgreeInv' /\ AnswerInv'
  BY <1>1 DEF AgreeInv, AnswerInv
<1>5. UpstreamInv' /\ ForwardInv'
  BY <1>1, <1>2 DEF AgeInv, UpstreamInv, ForwardInv, Covers, AtMost
<1> QED
  BY <1>3, <1>4, <1>5 DEF AgeInv

LEMMA BeginKeepsAge ==
    ASSUME CompositionInv, AgeInv, NEW r \in Req, NEW v \in Venue, Begin(r, v)
    PROVE  AgeInv'
<1>1. /\ pc'[r] = "lookup" /\ venue'[r] = v /\ floor'[r] = served[v]
      /\ \A q \in Req \ {r} : pc'[q] = pc[q] /\ venue'[q] = venue[q] /\ floor'[q] = floor[q]
      /\ cache' = cache /\ served' = served /\ draft' = draft /\ deferred' = deferred
      /\ menu' = menu /\ availability' = availability
  BY DEF Begin, Goto, upstream, CompositionInv, CompositionTypeOK
<1>2. \A q \in Req :
        /\ Answered(q)' => q # r /\ Answered(q)
        /\ Carries(q)' => q # r /\ Carries(q) /\ Coming(q)' = Coming(q)
        /\ pc'[q] = "leave" => pc[q] = "leave"
  BY <1>1 DEF Answered, Carries, Coming
<1>3. \A u : Upstream(u)' = Upstream(u)
  BY <1>1 DEF Upstream
<1>4. FloorInv'
  BY <1>1, AgesAreResponses, AtMostOrders DEF AgeInv, FloorInv
<1>5. AgreeInv' /\ AnswerInv'
  BY <1>1, <1>2 DEF AgeInv, AgreeInv, AnswerInv
<1>6. UpstreamInv'
  BY <1>1, <1>2, <1>3 DEF AgeInv, UpstreamInv, Covers, AtMost
<1>7. ForwardInv'
  BY <1>1, <1>2 DEF AgeInv, ForwardInv, Covers, AtMost
<1> QED
  BY <1>4, <1>5, <1>6, <1>7 DEF AgeInv

LEMMA LeaveKeepsAge ==
    ASSUME CompositionInv, AgeInv, NEW r \in Req, Leave(r)
    PROVE  AgeInv'
<1>1. /\ pc[r] = "leave" /\ pc'[r] = "done"
      /\ \A q \in Req \ {r} : pc'[q] = pc[q]
      /\ cache' = cache /\ served' = served /\ draft' = draft /\ deferred' = deferred
      /\ menu' = menu /\ availability' = availability /\ venue' = venue /\ floor' = floor
  BY DEF Leave, Goto, upstream, history, CompositionInv, CompositionTypeOK
<1>2. \A q \in Req :
        /\ Answered(q)' <=> Answered(q)
        /\ Carries(q)' => Carries(q) /\ Coming(q)' = Coming(q)
        /\ pc'[q] = "leave" => pc[q] = "leave"
  BY <1>1 DEF Answered, Carries, Coming
<1>3. \A u : Upstream(u)' = Upstream(u)
  BY <1>1 DEF Upstream
<1>4. FloorInv' /\ AgreeInv' /\ AnswerInv'
  BY <1>1, <1>2 DEF AgeInv, FloorInv, AgreeInv, AnswerInv
<1>5. UpstreamInv'
  BY <1>1, <1>2, <1>3 DEF AgeInv, UpstreamInv, Covers, AtMost
<1>6. ForwardInv'
  BY <1>1, <1>2 DEF AgeInv, ForwardInv, Covers, AtMost
<1> QED
  BY <1>4, <1>5, <1>6 DEF AgeInv

(* What is served was covered by all that can come after it.               *)
LEMMA RespondKeepsAge ==
    ASSUME CompositionInv, AgeInv, NEW r \in Req, Respond(r)
    PROVE  AgeInv'
<1> DEFINE u == venue[r]
<1>1. /\ pc[r] = "done" /\ pc'[r] = "idle" /\ floor'[r] = Nothing
      /\ \A q \in Req \ {r} : /\ pc'[q] = pc[q] /\ floor'[q] = floor[q]
                              /\ draft'[q] = draft[q] /\ deferred'[q] = deferred[q]
      /\ cache' = cache /\ menu' = menu /\ availability' = availability /\ venue' = venue
  BY DEF Respond, Goto, upstream, CompositionInv, CompositionTypeOK
<1>2. \A q \in Req :
        /\ Answered(q)' => q # r /\ Answered(q) /\ draft'[q] = draft[q]
        /\ Carries(q)' => Carries(q) /\ Coming(q)' = Coming(q)
        /\ pc'[q] = "leave" => /\ pc[q] = "leave" /\ draft'[q] = draft[q]
                               /\ deferred'[q] = deferred[q]
  BY <1>1 DEF Answered, Carries, Coming
<1>3. \A v : Upstream(v)' = Upstream(v)
  BY <1>1 DEF Upstream
<1>4. /\ \A v \in Venue : served[v] \in Response
      /\ \A q \in Req : venue[q] \in Venue /\ floor[q] \in Response
      /\ Answered(r) => draft[r] \in Response
  BY AgesAreResponses
<1>5. \A v \in Venue :
        /\ served'[v] \in Response /\ AtMost(served[v], served'[v])
        /\ \A x \in Response : Covers(v, x) => AtMost(served'[v], x)
  <2>1. CASE draft[r] = Failed
    <3>1. served' = served
      BY <2>1 DEF Respond
    <3> QED
      BY <1>4, <3>1, AtMostOrders DEF Covers
  <2>2. CASE draft[r] # Failed
    <3>1. Answered(r)
      BY <1>1, <2>2 DEF Answered
    <3>2. /\ served'[u] = [menu |-> Newest(served[u].menu, draft[r].menu),
                           availability |-> Newest(served[u].availability, draft[r].availability)]
          /\ \A v \in Venue \ {u} : served'[v] = served[v]
      BY <1>4, <2>2 DEF Respond, CompositionInv, CompositionTypeOK, Newest, Response
    <3>3. /\ served'[u] \in Response /\ AtMost(served[u], served'[u])
          /\ \A x \in Response : AtMost(served[u], x) /\ AtMost(draft[r], x) => AtMost(served'[u], x)
      BY <1>4, <3>1, <3>2 DEF Newest, Response, AtMost
    <3>4. \A x \in Response : Covers(u, x) => AtMost(served[u], x) /\ AtMost(draft[r], x)
      BY <3>1 DEF Covers
    <3>5. \A v \in Venue \ {u} :
            /\ served'[v] \in Response /\ AtMost(served[v], served'[v])
            /\ \A x \in Response : Covers(v, x) => AtMost(served'[v], x)
      BY <1>4, <3>2, AtMostOrders DEF Covers
    <3> QED
      BY <3>3, <3>4, <3>5
  <2> QED
    BY <2>1, <2>2
<1>6. /\ \A v \in Venue : Upstream(v) \in Response
      /\ \A v \in Venue : cache[v] # None => cache[v] \in Response
      /\ \A q \in Req : Carries(q) => Coming(q) \in Response
  BY AgesAreResponses
<1>7. FloorInv'
  <2>1. \A q \in Req : floor'[q] \in {Nothing, floor[q]}
    BY <1>1
  <2> QED
    BY <1>1, <1>4, <1>5, <2>1, AtMostOrders DEF AgeInv, FloorInv
<1>8. AgreeInv' /\ AnswerInv'
  BY <1>1, <1>2 DEF AgeInv, AgreeInv, AnswerInv
<1>9. UpstreamInv'
  <2>1. ASSUME NEW v \in Venue PROVE Covers(v, Upstream(v))'
    <3>1. Covers(v, Upstream(v)) /\ AtMost(served'[v], Upstream(v))
      BY <1>5, <1>6 DEF AgeInv, UpstreamInv
    <3> QED
      BY <1>1, <1>2, <1>3, <3>1 DEF Covers
  <2> QED
    BY <1>1, <1>2, <1>3, <2>1 DEF AgeInv, UpstreamInv, AtMost
<1>10. ForwardInv'
  <2>1. ASSUME NEW v \in Venue, cache[v] # None PROVE Covers(v, cache[v])'
    <3>1. Covers(v, cache[v]) /\ AtMost(served'[v], cache[v])
      BY <1>5, <1>6, <2>1 DEF AgeInv, ForwardInv
    <3> QED
      BY <1>1, <1>2, <3>1 DEF Covers
  <2>2. ASSUME NEW q \in Req, Carries(q)' PROVE Covers(venue[q], Coming(q))'
    <3>1. Covers(venue[q], Coming(q)) /\ AtMost(served'[venue[q]], Coming(q))
      BY <1>2, <1>4, <1>5, <1>6, <2>2 DEF AgeInv, ForwardInv
    <3> QED
      BY <1>1, <1>2, <2>2, <3>1 DEF Covers
  <2> QED
    BY <1>1, <2>1, <2>2 DEF ForwardInv
<1> QED
  BY <1>7, <1>8, <1>9, <1>10 DEF AgeInv

(* The cache may always be answered from.                                  *)
LEMMA CacheIsCurrent ==
    ASSUME CompositionInv, AgeInv, NEW v \in Venue, cache[v] # None
    PROVE  /\ cache[v] \in Response /\ Covers(v, cache[v])
           /\ AtMost(cache[v], Upstream(v)) /\ AtMost(cache[v], cache[v])
           /\ \A q \in Req : venue[q] = v /\ Carries(q) => AtMost(cache[v], Coming(q))
<1>1. cache[v] \in Response
  BY AgesAreResponses
<1> QED
  BY <1>1, AtMostOrders DEF AgeInv, UpstreamInv, ForwardInv, AgreeInv

LEMMA LookupKeepsAge ==
    ASSUME CompositionInv, AgeInv, NEW r \in Req, Lookup(r)
    PROVE  AgeInv'
<1>1. /\ pc[r] = "lookup" /\ venue[r] \in Venue
      /\ UNCHANGED <<upstream, cache, inFlight, deferred, venue, history>>
  BY DEF Lookup, CompositionInv, CompositionTypeOK
<1>2. ASSUME NEW result \in Response \cup {Failed}, Return(r, result),
             result # Failed => cache[venue[r]] # None /\ result = cache[venue[r]]
      PROVE  AgeInv'
  <2>1. /\ pc'[r] = "done" /\ draft'[r] = result
        /\ \A q \in Req \ {r} : pc'[q] = pc[q] /\ draft'[q] = draft[q]
    BY <1>2 DEF Return, CompositionInv, CompositionTypeOK
  <2>2. result # Failed =>
           /\ Covers(venue[r], result) /\ AtMost(result, Upstream(venue[r]))
           /\ cache[venue[r]] # None => AtMost(result, cache[venue[r]])
           /\ \A q \in Req \ {r} : venue[q] = venue[r] /\ Carries(q)
                                     => AtMost(result, Coming(q))
    BY <1>1, <1>2, CacheIsCurrent
  <2> QED
    BY <1>1, <1>2, <2>1, <2>2, OneAnswerKeepsAge
<1>3. CASE Goto(r, "join") /\ UNCHANGED draft
  <2>1. /\ pc'[r] = "join" /\ \A q \in Req \ {r} : pc'[q] = pc[q]
    BY <1>3 DEF Goto, CompositionInv, CompositionTypeOK
  <2> QED
    BY <1>1, <1>3, <2>1, WaitingKeepsAge
<1> QED
  BY <1>1, <1>2, <1>3, CacheIsCurrent DEF Lookup

LEMMA JoinKeepsAge ==
    ASSUME CompositionInv, AgeInv, NEW r \in Req, Join(r)
    PROVE  AgeInv'
<1> DEFINE leader == inFlight[venue[r]]
<1>1. /\ pc[r] = "join" /\ venue[r] \in Venue /\ leader \in Req \cup {None} /\ None \notin Req
      /\ UNCHANGED <<upstream, cache, venue, history>>
  BY CompositionAssumption DEF Join, CompositionInv, CompositionTypeOK
<1>2. CASE \/ Goto(r, "recheck") /\ UNCHANGED draft /\ deferred' = [deferred EXCEPT ![r] = Pending]
           \/ Goto(r, "await") /\ UNCHANGED <<draft, deferred>>
  <2>1. /\ pc'[r] \in {"recheck", "await"}
        /\ \A q \in Req \ {r} : pc'[q] = pc[q] /\ deferred'[q] = deferred[q]
    BY <1>2 DEF Goto, CompositionInv, CompositionTypeOK
  <2> QED
    BY <1>1, <1>2, <2>1, WaitingKeepsAge
<1>3. CASE leader # None /\ deferred[leader] # Pending /\ Return(r, deferred[leader])
           /\ UNCHANGED deferred
  <2>1. /\ pc'[r] = "done" /\ draft'[r] = deferred[leader]
        /\ \A q \in Req \ {r} : pc'[q] = pc[q] /\ draft'[q] = draft[q]
    BY <1>3 DEF Return, CompositionInv, CompositionTypeOK
  <2>2. leader \in Req /\ pc[leader] = "leave" /\ venue[leader] = venue[r] /\ InMap(leader)
    BY <1>1, <1>3 DEF CompositionInv, FlightInv, LeaderInv, InMap
  <2>3. deferred[leader] = draft[leader] /\ deferred[leader] \in Response \cup {Failed}
    BY <1>1, <1>3, <2>2 DEF AgeInv, AgreeInv, CompositionInv, CompositionTypeOK
  <2>4. ASSUME deferred[leader] # Failed
        PROVE  /\ Covers(venue[r], deferred[leader])
               /\ AtMost(deferred[leader], Upstream(venue[r]))
               /\ cache[venue[r]] # None => AtMost(deferred[leader], cache[venue[r]])
               /\ \A q \in Req : venue[q] = venue[r] /\ Carries(q)
                                    => AtMost(deferred[leader], Coming(q))
    <3>1. Carries(leader) /\ Coming(leader) = deferred[leader]
      BY <2>2, <2>3, <2>4 DEF Carries, Coming
    <3>2. deferred[leader] \in Response
      BY <2>3, <2>4
    <3>3. \A q \in Req : venue[q] = venue[r] /\ Carries(q) => q = leader
      BY <2>2, OneInMap, CarriersAreInMap
    <3> QED
      BY <2>2, <3>1, <3>2, <3>3, AtMostOrders DEF AgeInv, UpstreamInv, ForwardInv, AgreeInv
  <2> HIDE DEF leader
  <2> QED
    BY <1>1, <1>3, <2>1, <2>3, <2>4, OneAnswerKeepsAge
<1> QED
  BY <1>2, <1>3 DEF Join

(* A leader completes its deferred: it and its waiters have the result.    *)
LEMMA CompletingKeepsAge ==
    ASSUME CompositionInv, AgeInv, NEW r \in Req, NEW result \in Response \cup {Failed},
           pc[r] \in Leading, Complete(r, result), UNCHANGED <<upstream, venue, history>>,
           \/ UNCHANGED cache
           \/ /\ result = Failed /\ pc[r] = "put"
              /\ cache' = [cache EXCEPT ![venue[r]] = draft[r]],
           result # Failed =>
              /\ Covers(venue[r], result) /\ AtMost(result, Upstream(venue[r]))
              /\ cache[venue[r]] \in {None, result}
    PROVE  AgeInv'
<1> DEFINE G == {r} \cup Waiters(r)
<1>1. G \in SUBSET Req /\ venue[r] \in Venue /\ InMap(r)
  BY DEF Waiters, InMap, CompositionInv, CompositionTypeOK
<1>2. \A q \in G : /\ venue[q] = venue[r] /\ pc'[q] \in {"leave", "done"} /\ draft'[q] = result
                   /\ pc'[q] = "leave" => q = r
  BY DEF Complete, Waiters, CompositionInv, CompositionTypeOK
<1>3. deferred'[r] = result /\ \A q \in Req \ {r} : deferred'[q] = deferred[q]
  BY DEF Complete, CompositionInv, CompositionTypeOK
<1>4. \A q \in Req \ G : pc'[q] = pc[q] /\ draft'[q] = draft[q]
  BY DEF Complete, CompositionInv, CompositionTypeOK
<1>5. \A q \in Req \ G : ~(venue[q] = venue[r] /\ Carries(q))
  BY <1>1, OneInMap, CarriersAreInMap
<1>6. result # Failed => (cache[venue[r]] # None => AtMost(result, cache[venue[r]]))
  BY AtMostOrders
<1> HIDE DEF G
<1>7. r \in G
  BY DEF G
<1> QED
  BY <1>1, <1>2, <1>3, <1>4, <1>5, <1>6, <1>7, AnsweringKeepsAge

LEMMA RecheckKeepsAge ==
    ASSUME CompositionInv, AgeInv, NEW r \in Req, Recheck(r)
    PROVE  AgeInv'
<1>1. /\ pc[r] \in Leading /\ venue[r] \in Venue
      /\ UNCHANGED <<upstream, cache, inFlight, venue, history>>
  BY DEF Recheck, Leading, CompositionInv, CompositionTypeOK
<1>2. CASE cache[venue[r]] # None /\ Complete(r, cache[venue[r]])
  BY <1>1, <1>2, CacheIsCurrent, CompletingKeepsAge
<1>3. CASE Complete(r, Failed)
  BY <1>1, <1>3, CompletingKeepsAge
<1>4. CASE Goto(r, "items") /\ UNCHANGED <<deferred, draft>>
  <2>1. pc'[r] = "items" /\ \A q \in Req \ {r} : pc'[q] = pc[q]
    BY <1>4 DEF Goto, CompositionInv, CompositionTypeOK
  <2> QED
    BY <1>1, <1>4, <2>1, WaitingKeepsAge
<1> QED
  BY <1>2, <1>3, <1>4 DEF Recheck

LEMMA FetchKeepsAge ==
    ASSUME CompositionInv, AgeInv, NEW r \in Req, FetchItems(r) \/ FetchAvailability(r)
    PROVE  AgeInv'
<1>1. /\ pc[r] \in Leading /\ InMap(r) /\ venue[r] \in Venue
      /\ UNCHANGED <<upstream, cache, inFlight, venue, history>>
      /\ cache[venue[r]] = None
  BY DEF FetchItems, FetchAvailability, Leading, Fetching, InMap,
         CompositionInv, CompositionTypeOK, CacheInv
<1>2. CASE Complete(r, Failed)
  BY <1>1, <1>2, CompletingKeepsAge
<1>3. CASE ~Complete(r, Failed) /\ FetchItems(r)
  <2>1. /\ deferred' = deferred
        /\ pc'[r] = "availability" /\ \A q \in Req \ {r} : pc'[q] = pc[q] /\ draft'[q] = draft[q]
        /\ draft'[r] = [menu |-> menu[venue[r]], availability |-> 0]
    BY <1>3 DEF FetchItems, Goto, CompositionInv, CompositionTypeOK
  <2>2. Coming(r)' = Upstream(venue[r])
    BY <1>1, <2>1 DEF Coming, Upstream, upstream
  <2> QED
    BY <1>1, <2>1, <2>2, CarryingKeepsAge
<1>4. CASE ~Complete(r, Failed) /\ FetchAvailability(r)
  <2>1. /\ deferred' = deferred /\ pc[r] = "availability"
        /\ pc'[r] = "put" /\ \A q \in Req \ {r} : pc'[q] = pc[q] /\ draft'[q] = draft[q]
        /\ draft'[r] = [draft[r] EXCEPT !.availability = availability[venue[r]]]
    BY <1>4 DEF FetchAvailability, Goto, CompositionInv, CompositionTypeOK
  <2>2. Carries(r) /\ Coming(r)' = Coming(r)
    BY <1>1, <2>1 DEF Carries, Coming
  <2> QED
    BY <1>1, <2>1, <2>2, CarryingKeepsAge
<1> QED
  BY <1>2, <1>3, <1>4

LEMMA CachePutKeepsAge ==
    ASSUME CompositionInv, AgeInv, NEW r \in Req, CachePut(r)
    PROVE  AgeInv'
<1>1. /\ pc[r] = "put" /\ pc[r] \in Leading /\ InMap(r) /\ venue[r] \in Venue
      /\ UNCHANGED <<upstream, inFlight, venue, history>>
  BY DEF CachePut, Leading, Fetching, InMap, CompositionInv, CompositionTypeOK
<1>2. CASE Complete(r, Failed) /\ cache' \in {cache, [cache EXCEPT ![venue[r]] = draft[r]]}
  BY <1>1, <1>2, CompletingKeepsAge
<1>3. CASE /\ cache' = [cache EXCEPT ![venue[r]] = draft[r]]
           /\ Goto(r, "complete") /\ UNCHANGED <<deferred, draft>>
  <2>1. pc'[r] = "complete" /\ \A q \in Req \ {r} : pc'[q] = pc[q] /\ draft'[q] = draft[q]
    BY <1>3 DEF Goto, CompositionInv, CompositionTypeOK
  <2>2. Carries(r) /\ Coming(r) = draft[r] /\ Coming(r)' = draft[r]
    BY <1>1, <1>3, <2>1 DEF Carries, Coming
  <2> QED
    BY <1>1, <1>3, <2>1, <2>2, CarryingKeepsAge
<1> QED
  BY <1>2, <1>3 DEF CachePut

LEMMA CompleteDeferredKeepsAge ==
    ASSUME CompositionInv, AgeInv, NEW r \in Req, CompleteDeferred(r)
    PROVE  AgeInv'
<1>1. /\ pc[r] = "complete" /\ pc[r] \in Leading /\ Complete(r, draft[r])
      /\ UNCHANGED <<upstream, cache, inFlight, venue, history>>
  BY DEF CompleteDeferred, Leading
<1>2. Carries(r) /\ Coming(r) = draft[r]
  BY <1>1 DEF Carries, Coming
<1>3. draft[r] \in Response
  BY <1>2, AgesAreResponses
<1>4. /\ Covers(venue[r], draft[r]) /\ AtMost(draft[r], Upstream(venue[r]))
      /\ cache[venue[r]] \in {None, draft[r]}
  BY <1>2 DEF AgeInv, UpstreamInv, ForwardInv, AgreeInv
<1> QED
  BY <1>1, <1>3, <1>4, CompletingKeepsAge

(* What can still be given covers what was given, through every expiry,    *)
(* failure, lost put and restart.                                          *)
THEOREM AgeInvariance == CompositionSpec => []AgeInv
<1>1. CompositionInit => AgeInv
  BY AgeInitial
<1>2. CompositionInv /\ AgeInv /\ [CompositionNext]_vars => AgeInv'
  <2> SUFFICES ASSUME CompositionInv, AgeInv, [CompositionNext]_vars PROVE AgeInv'
    OBVIOUS
  <2>1. ASSUME NEW r \in Req, RequestStep(r) PROVE AgeInv'
    BY <2>1, LookupKeepsAge, JoinKeepsAge, RecheckKeepsAge, FetchKeepsAge, CachePutKeepsAge,
       CompleteDeferredKeepsAge, LeaveKeepsAge, RespondKeepsAge DEF RequestStep
  <2>2. CASE UNCHANGED vars
    BY <2>2 DEF vars, upstream, history, AgeInv, FloorInv, UpstreamInv, ForwardInv, AgreeInv,
                AnswerInv, Answered, Carries, Coming, Covers, Upstream, AtMost
  <2> QED
    BY <2>1, <2>2, OutsideKeepsAge, BeginKeepsAge, RestartKeepsAge DEF CompositionNext
<1> QED
  BY <1>1, <1>2, CompositionInvariance, PTL DEF CompositionSpec

(* A storefront never goes back: whoever asks after a response was given   *)
(* is not given an older menu or older availability.                       *)
THEOREM StorefrontNeverGoesBack == CompositionSpec => []NeverOlder
<1>1. CompositionInv /\ AgeInv => NeverOlder
  <2> SUFFICES ASSUME CompositionInv, AgeInv, NEW r \in Req, pc[r] = "done", draft[r] # Failed
               PROVE  /\ draft[r].menu >= floor[r].menu
                      /\ draft[r].availability >= floor[r].availability
    BY DEF NeverOlder
  <2>1. Answered(r)
    BY DEF Answered
  <2>2. AtMost(floor[r], draft[r]) /\ floor[r] \in Response /\ draft[r] \in Response
    BY <2>1, AgesAreResponses DEF AgeInv, AnswerInv
  <2> QED
    BY <2>2 DEF AtMost, Response
<1> QED
  BY <1>1, AgeInvariance, CompositionInvariance, PTL
=============================================================================
