----------------------- MODULE AvailabilityBoardProofs -----------------------
(***************************************************************************)
(* The availability board at rest shows an answer of the service that no   *)
(* settled write is missing from; it has one PUT under way at most, as     *)
(* long as no button is pressed with a second popover open; and the        *)
(* replay's verdict has a cause: for every number of items, writes and     *)
(* acts. The first needs that a GET asked for or answered is recent        *)
(* enough, the second that the hook follows every PUT of the board, the    *)
(* last that two lists of the same age are the same list.                  *)
(***************************************************************************)
EXTENDS AvailabilityBoard, FiniteSetTheorems, TLAPS

USE BoardAssumption

(* The PUTs that the service may still do.                                 *)
Unserved == {m \in Mutation : Pending(m) /\ mutation[m].reply = "none"}

(* Every write of Redis was an act, and each that is to come is one too.   *)
ActsInv == writes + Cardinality(Unserved) + (IF replay.phase = "posted" THEN 1 ELSE 0) <= acts

(* What a pending PUT needs for its rollback, and who it is.               *)
PendingInv ==
    \A m \in Mutation : Pending(m) =>
        /\ mutation[m].item \in Item /\ mutation[m].status \in Status
        /\ mutation[m].previous # Loading

(* An open popover belongs to a board that shows rows.                     *)
PopoverInv == popovers # {} => Shown

(* PUTs are numbered in the order in which they begin.                     *)
FreshInv ==
    /\ \A m \in Mutation : mutation[m].phase = "new" => ~mutation[m].here
    /\ \A m, n \in Mutation : m < n /\ mutation[m].phase = "new" => mutation[n].phase = "new"

(* While no button was pressed with a second popover open, the board's     *)
(* hook follows every PUT of the board, and waits for none with a popover  *)
(* open.                                                                   *)
WriteInv ==
    ~leftOpen =>
        /\ \A m \in Mutation : Pending(m) /\ mutation[m].here => Followed(m)
        /\ popovers # {} => \A m \in Mutation : ~(Pending(m) /\ mutation[m].here)

(* A list that was once loaded stays loaded.                               *)
LoadedInv ==
    cache = Loading => /\ replay.before = Loading
                       /\ \A m \in Mutation : ~Pending(m)

Recent(list) == list.asOf # None /\ mustSee <= list.asOf

(* What the cache misses is on its way, or will be asked for when a PUT of *)
(* this venue settles.                                                     *)
RecentInv ==
    /\ mustSee <= writes
    /\ fetch.state = "answered" => Recent(fetch.list)
    /\ Active /\ fetch = NoFetch /\ ~failed /\ cache # Loading =>
          \/ Recent(cache)
          \/ \E m \in Mutation : Pending(m) /\ mutation[m].venue = Home

Held == {cache, fetch.list, replay.before} \cup {mutation[m].previous : m \in Mutation}

(* The lists that were answers, wherever they are kept.                    *)
Kept == {list \in Held \cup {Answer} : list # Loading /\ list.asOf # None}

(* Lists of the same age are one.                                          *)
SameAgeInv ==
    /\ \A list \in Kept : list.asOf <= writes
    /\ \A list, other \in Kept : list.asOf = other.asOf => list.rows = other.rows

BoardInv ==
    /\ BoardTypeOK
    /\ ActsInv
    /\ PendingInv
    /\ PopoverInv
    /\ FreshInv
    /\ WriteInv
    /\ LoadedInv
    /\ RecentInv
    /\ SameAgeInv

-----------------------------------------------------------------------------
LEMMA Lists ==
  \A list \in List : /\ list # Loading /\ list.rows \in Rows
                     /\ list.asOf \in 0 .. MaxActs \cup {None}
                     /\ list.asOf # None => list.asOf \in Nat
BY DEF List

LEMMA Typed ==
  ASSUME BoardTypeOK
  PROVE  /\ writes \in Nat /\ mustSee \in Nat /\ acts \in Nat
         /\ Answer \in List /\ Answer.rows = redis /\ Answer.asOf = writes
         /\ Answer # Loading /\ Answer.asOf # None
         /\ Held \subseteq List \cup {Loading}
<1>1. /\ writes \in Nat /\ mustSee \in Nat /\ acts \in Nat
      /\ Answer \in List /\ Answer.rows = redis /\ Answer.asOf = writes
      /\ Answer # Loading /\ Answer.asOf # None
  BY Lists DEF BoardTypeOK, Answer, List
<1>2. cache \in List \cup {Loading} /\ replay.before \in List \cup {Loading}
  BY DEF BoardTypeOK, Replay
<1>3. fetch.list \in List \cup {Loading}
  BY DEF BoardTypeOK, NoFetch, Sent
<1>4. \A m \in Mutation : mutation[m].previous \in List \cup {Loading}
  BY DEF BoardTypeOK, Put
<1>. QED
  BY <1>1, <1>2, <1>3, <1>4 DEF Held

(* A fetch by its state.                                                   *)
LEMMA Fetches ==
  ASSUME BoardTypeOK
  PROVE  /\ fetch.state = "answered" => fetch.list \in List
         /\ fetch.state # "answered" => fetch \in {NoFetch, Sent}
         /\ NoFetch # Sent /\ NoFetch.state # "answered" /\ Sent.state # "answered"
         /\ NoFetch.list = Loading /\ Sent.list = Loading
BY DEF BoardTypeOK, NoFetch, Sent

LEMMA UnservedIsFinite == IsFiniteSet(Unserved) /\ Cardinality(Unserved) \in Nat
<1>1. IsFiniteSet(Mutation)
  BY FS_Interval DEF Mutation
<1>2. IsFiniteSet(Unserved)
  BY <1>1, FS_Subset DEF Unserved
<1>. QED
  BY <1>2, FS_CardinalityType

(* Nothing that is held becomes known of an age but answers.               *)
LEMMA AgesKept ==
  ASSUME BoardTypeOK, BoardTypeOK', SameAgeInv,
         \/ redis' = redis /\ writes' = writes
         \/ writes' = writes + 1,
         \A list \in Held' : list \in Held \cup {Answer, Loading} \/ list.asOf = None
  PROVE  SameAgeInv'
<1>1. /\ Answer' # Loading /\ Answer.asOf = writes /\ writes \in Nat
      /\ Answer'.rows = redis' /\ Answer'.asOf = writes'
      /\ Answer # Loading /\ Answer.asOf # None /\ Answer.rows = redis
  <2>1. Answer' \in List
    BY DEF BoardTypeOK, Answer, List
  <2>. QED
    BY <2>1, Typed, Lists DEF Answer
<1>2. Kept' \subseteq Kept \cup {Answer'}
  BY <1>1 DEF Kept
<1>3. \A list \in Kept : list.asOf \in Nat
  BY Typed, Lists DEF Kept
<1>4. Answer \in Kept
  BY <1>1 DEF Kept
<1>5. CASE redis' = redis /\ writes' = writes
  BY <1>1, <1>2, <1>4, <1>5 DEF SameAgeInv
<1>6. CASE writes' = writes + 1
  <2>1. \A list \in Kept : list.asOf < writes'
    BY <1>1, <1>3, <1>6 DEF SameAgeInv
  <2>. QED
    BY <1>1, <1>2, <1>3, <1>6, <2>1 DEF SameAgeInv
<1>. QED
  BY <1>5, <1>6

(* Most steps leave the PUTs as they are.                                  *)
LEMMA PutsKept ==
  ASSUME BoardInv, mutation' = mutation
  PROVE  /\ Unserved' = Unserved /\ FreshInv' /\ PendingInv'
         /\ \A m \in Mutation : Pending(m)' = Pending(m)
BY DEF BoardInv, Unserved, Pending, FreshInv, PendingInv

LEMMA FreshKept ==
  ASSUME FreshInv,
         \A m \in Mutation : mutation'[m].phase = mutation[m].phase,
         \A m \in Mutation : mutation'[m].here => mutation[m].here
  PROVE  FreshInv'
BY DEF FreshInv

(* What matters of them to a board whose popovers stay or close.           *)
LEMMA WritesKept ==
  ASSUME BoardInv, leftOpen' = leftOpen, popovers' \in {popovers, {}},
         \A m \in Mutation : Pending(m)' => Pending(m),
         \A m \in Mutation : mutation'[m].here = mutation[m].here
  PROVE  WriteInv'
<1>1. \A m \in Mutation : Followed(m)' <=> Followed(m)
  BY DEF Followed, Mutation
<1>. QED
  BY <1>1 DEF BoardInv, WriteInv

-----------------------------------------------------------------------------
LEMMA BoardInitial == ASSUME BoardInit PROVE BoardInv
<1>. USE DEF BoardInit
<1>1. \A m \in Mutation : mutation[m] = Idle /\ ~Pending(m)
  BY DEF Idle, Pending
<1>2. BoardTypeOK
  <2>1. redis \in Rows /\ lastEvent \in {None} \cup [item : Item, status : Status, marked : BOOLEAN]
    BY DEF Rows, NoRows
  <2>2. Idle \in Put
    BY DEF Idle, Put
  <2>3. mutation \in [Mutation -> Put]
    BY <2>2
  <2>4. replay \in Replay
    BY DEF NoReplay, Replay
  <2>5. faults \in Faults
    BY DEF Faults, NoFaults
  <2>6. writes \in 0 .. MaxActs /\ acts \in 0 .. MaxActs /\ mustSee \in 0 .. MaxActs
    OBVIOUS
  <2>7. cache \in List \cup {Loading} /\ venue \in Venue /\ popovers \subseteq Item
    OBVIOUS
  <2>. QED
    BY <2>1, <2>3, <2>4, <2>5, <2>6, <2>7 DEF BoardTypeOK
<1>3. ActsInv
  <2>1. Unserved = {}
    BY <1>1 DEF Unserved
  <2>. QED
    BY <2>1, FS_EmptySet DEF ActsInv, NoReplay
<1>4. PendingInv /\ PopoverInv /\ FreshInv /\ WriteInv /\ LoadedInv
  BY <1>1 DEF PendingInv, PopoverInv, FreshInv, WriteInv, LoadedInv, NoReplay, Idle
<1>5. RecentInv
  BY DEF RecentInv, Sent, NoFetch
<1>6. SameAgeInv
  <2>1. Held \subseteq {Loading}
    BY <1>1 DEF Held, Sent, NoReplay, Idle
  <2>2. Kept \subseteq {Answer}
    BY <2>1 DEF Kept
  <2>. QED
    BY <2>2, <1>2, Typed DEF SameAgeInv
<1>. QED
  BY <1>2, <1>3, <1>4, <1>5, <1>6 DEF BoardInv

LEMMA PollKeeps == ASSUME BoardInv, Poll PROVE BoardInv'
<1>. USE DEF Poll, server, page
<1>1. BoardTypeOK'
  BY DEF BoardInv, BoardTypeOK
<1>2. ActsInv' /\ PendingInv' /\ FreshInv'
  BY PutsKept DEF BoardInv, ActsInv
<1>3. PopoverInv' /\ WriteInv'
  BY PutsKept, WritesKept DEF BoardInv, PopoverInv, Shown
<1>4. LoadedInv'
  BY PutsKept DEF BoardInv, LoadedInv
<1>5. RecentInv'
  BY DEF BoardInv, RecentInv, Sent, NoFetch
<1>6. SameAgeInv'
  BY <1>1, AgesKept DEF BoardInv, Held, Sent
<1>. QED
  BY <1>1, <1>2, <1>3, <1>4, <1>5, <1>6 DEF BoardInv

LEMMA FetchAnsweredKeeps == ASSUME BoardInv, FetchAnswered PROVE BoardInv'
<1>. USE DEF FetchAnswered, server, page
<1>1. BoardTypeOK'
  BY Typed DEF BoardInv, BoardTypeOK
<1>2. ActsInv' /\ PendingInv' /\ FreshInv'
  BY PutsKept DEF BoardInv, ActsInv
<1>3. PopoverInv' /\ WriteInv'
  BY PutsKept, WritesKept DEF BoardInv, PopoverInv, Shown
<1>4. LoadedInv'
  BY PutsKept DEF BoardInv, LoadedInv
<1>5. RecentInv'
  BY Typed DEF BoardInv, RecentInv, Recent, NoFetch
<1>6. SameAgeInv'
  BY <1>1, AgesKept DEF BoardInv, Held
<1>. QED
  BY <1>1, <1>2, <1>3, <1>4, <1>5, <1>6 DEF BoardInv

(* The list a GET brings is loaded.                                        *)
LEMMA ReplayTyped ==
  ASSUME BoardTypeOK, ReplayGoesOn
  PROVE  /\ replay' \in Replay
         /\ replay'.before \in {replay.before, Loading}
         /\ replay'.phase = "posted" <=> replay.phase = "posted"
BY DEF BoardTypeOK, Replay, ReplayGoesOn, NoReplay, SameStatus

LEMMA FetchLandsKeeps == ASSUME BoardInv, FetchLands PROVE BoardInv'
<1>. USE DEF FetchLands, server, page, SetList
<1>0. BoardTypeOK /\ fetch.list \in List /\ fetch.list # Loading
  BY Fetches, Lists DEF BoardInv
<1>1. BoardTypeOK'
  BY <1>0, ReplayTyped DEF BoardTypeOK
<1>2. ActsInv' /\ PendingInv' /\ FreshInv'
  BY <1>0, PutsKept, ReplayTyped DEF BoardInv, ActsInv
<1>3. PopoverInv' /\ WriteInv'
  BY <1>0, PutsKept, WritesKept DEF BoardInv, PopoverInv, Shown
<1>4. LoadedInv'
  BY <1>0 DEF LoadedInv
<1>5. RecentInv'
  BY DEF BoardInv, RecentInv, Recent, NoFetch
<1>6. SameAgeInv'
  BY <1>0, <1>1, AgesKept, ReplayTyped DEF BoardInv, Held, NoFetch
<1>. QED
  BY <1>1, <1>2, <1>3, <1>4, <1>5, <1>6 DEF BoardInv

LEMMA FetchFailsKeeps == ASSUME BoardInv, FetchFails PROVE BoardInv'
<1>. USE DEF FetchFails, server
<1>0. BoardTypeOK
  BY DEF BoardInv
<1>1. BoardTypeOK'
  BY <1>0, ReplayTyped DEF BoardTypeOK
<1>2. ActsInv' /\ PendingInv' /\ FreshInv'
  BY <1>0, PutsKept, ReplayTyped DEF BoardInv, ActsInv
<1>3. PopoverInv' /\ WriteInv'
  BY PutsKept, WritesKept DEF PopoverInv
<1>4. LoadedInv'
  BY <1>0, PutsKept, ReplayTyped DEF BoardInv, LoadedInv
<1>5. RecentInv'
  BY DEF BoardInv, RecentInv, NoFetch
<1>6. SameAgeInv'
  BY <1>0, <1>1, AgesKept, ReplayTyped DEF BoardInv, Held, NoFetch
<1>. QED
  BY <1>1, <1>2, <1>3, <1>4, <1>5, <1>6 DEF BoardInv

LEMMA GoKeeps == ASSUME BoardInv, NEW to \in {"board", "panel"}, Go(to) PROVE BoardInv'
<1>. USE DEF Go, server
<1>0. BoardTypeOK
  BY DEF BoardInv
<1>a. \A m \in Mutation :
        /\ mutation'[m] = [mutation[m] EXCEPT !.here = FALSE]
        /\ Pending(m)' = Pending(m)
        /\ mutation'[m].reply = mutation[m].reply /\ mutation'[m].item = mutation[m].item
        /\ mutation'[m].status = mutation[m].status
        /\ mutation'[m].previous = mutation[m].previous
        /\ mutation'[m].venue = mutation[m].venue /\ ~mutation'[m].here
        /\ mutation'[m].phase = mutation[m].phase
  BY <1>0 DEF BoardTypeOK, Put, Pending
<1>b. fetch' = fetch \/ (fetch = NoFetch /\ fetch' = Sent)
  BY DEF Observe
<1>1. BoardTypeOK'
  <2>1. mutation' \in [Mutation -> Put]
    <3>1. \A put \in Put : [put EXCEPT !.here = FALSE] \in Put
      <4>1. FALSE \in BOOLEAN
        OBVIOUS
      <4>. QED
        BY <4>1, Zenon DEF Put
    <3>. QED
      BY <1>0, <3>1 DEF BoardTypeOK
  <2>2. fetch' \in {NoFetch, Sent} \cup [state : {"answered"}, list : List]
    BY <1>0, <1>b DEF BoardTypeOK
  <2>. QED
    BY <1>0, <2>1, <2>2 DEF BoardTypeOK
<1>2. ActsInv'
  <2>1. Unserved' = Unserved
    BY <1>a DEF Unserved
  <2>. QED
    BY <2>1 DEF BoardInv, ActsInv
<1>3. PendingInv' /\ PopoverInv' /\ WriteInv' /\ LoadedInv'
  BY <1>a DEF BoardInv, PendingInv, PopoverInv, WriteInv, LoadedInv
<1>c. FreshInv'
  BY <1>a, FreshKept DEF BoardInv
<1>4. RecentInv'
  BY <1>a, <1>b, Fetches DEF BoardInv, RecentInv, Recent, Active, Observe
<1>5. SameAgeInv'
  BY <1>a, <1>b, <1>1, AgesKept, Fetches DEF BoardInv, Held
<1>. QED
  BY <1>1, <1>2, <1>3, <1>c, <1>4, <1>5 DEF BoardInv

LEMMA PickKeeps == ASSUME BoardInv, NEW v \in Venue, Pick(v) PROVE BoardInv'
<1>. USE DEF Pick, server
<1>0. BoardTypeOK
  BY DEF BoardInv
<1>a. \A m \in Mutation :
        /\ Pending(m)' = Pending(m)
        /\ mutation'[m].reply = mutation[m].reply /\ mutation'[m].item = mutation[m].item
        /\ mutation'[m].status = mutation[m].status
        /\ mutation'[m].previous = mutation[m].previous
        /\ mutation'[m].here = mutation[m].here
        /\ mutation'[m].phase = mutation[m].phase
  BY <1>0 DEF BoardTypeOK, Put, Pending
<1>b. /\ fetch' = fetch \/ (fetch = NoFetch /\ fetch' = Sent)
      /\ Active' => fetch' # NoFetch
  BY Fetches, <1>0 DEF Observe
<1>1. BoardTypeOK'
  <2>1. mutation' \in [Mutation -> Put]
    <3>1. \A m \in Mutation : [mutation[m] EXCEPT !.venue = v] \in Put
      BY <1>0 DEF BoardTypeOK, Put
    <3>. QED
      BY <1>0, <3>1 DEF BoardTypeOK
  <2>2. fetch' \in {NoFetch, Sent} \cup [state : {"answered"}, list : List]
    BY <1>0, <1>b DEF BoardTypeOK
  <2>. QED
    BY <1>0, <2>1, <2>2 DEF BoardTypeOK
<1>2. ActsInv'
  <2>1. Unserved' = Unserved
    BY <1>a DEF Unserved
  <2>. QED
    BY <2>1 DEF BoardInv, ActsInv
<1>3. PendingInv' /\ PopoverInv' /\ WriteInv' /\ LoadedInv'
  BY <1>a, WritesKept DEF BoardInv, PendingInv, PopoverInv, LoadedInv
<1>c. FreshInv'
  BY <1>a, FreshKept DEF BoardInv
<1>4. RecentInv'
  BY <1>b, Fetches DEF BoardInv, RecentInv, Recent
<1>5. SameAgeInv'
  BY <1>a, <1>b, <1>1, AgesKept, Fetches DEF BoardInv, Held
<1>. QED
  BY <1>1, <1>2, <1>3, <1>c, <1>4, <1>5 DEF BoardInv

LEMMA PopoverKeeps ==
  ASSUME BoardInv, \E i \in Item : OpenPopover(i) \/ DismissPopover(i)
  PROVE  BoardInv'
<1>. USE DEF DismissPopover, OpenPopover, server, query
<1>1. BoardTypeOK'
  BY DEF BoardInv, BoardTypeOK
<1>2. ActsInv' /\ PendingInv' /\ FreshInv'
  BY PutsKept DEF BoardInv, ActsInv
<1>3. PopoverInv'
  BY DEF BoardInv, PopoverInv, Shown
<1>7. WriteInv'
  <2>1. \A m \in Mutation : Followed(m)' <=> Followed(m)
    BY DEF Followed
  <2>2. ~leftOpen /\ popovers' # {} => \A m \in Mutation : ~(Pending(m) /\ mutation[m].here)
    BY DEF BoardInv, WriteInv, Disabled
  <2>. QED
    BY <2>1, <2>2, PutsKept DEF BoardInv, WriteInv
<1>4. LoadedInv'
  BY PutsKept DEF BoardInv, LoadedInv
<1>5. RecentInv'
  BY PutsKept DEF BoardInv, RecentInv, Recent, Active
<1>6. SameAgeInv'
  BY <1>1, AgesKept DEF BoardInv, Held
<1>. QED
  BY <1>1, <1>2, <1>3, <1>4, <1>5, <1>6, <1>7 DEF BoardInv

(* The optimistic list is the cached one or one that the browser made.     *)
LEMMA OptimisticTyped ==
  ASSUME NEW i \in Item, NEW s \in Status, cache \in List
  PROVE  Optimistic(i, s) \in List /\ (Optimistic(i, s) = cache \/ Optimistic(i, s).asOf = None)
BY DEF Optimistic, List, Rows

LEMMA ApplyKeeps ==
  ASSUME BoardInv, NEW m \in Mutation, NEW i \in Item, NEW s \in Status, Apply(m, i, s)
  PROVE  BoardInv'
<1>. USE DEF Apply, Mutate, SetList, server
<1>0. BoardTypeOK /\ i \in popovers /\ Shown /\ cache \in List
  BY DEF BoardInv, PopoverInv, Shown, BoardTypeOK
<1>a. /\ mutation[m].phase = "new" /\ ~Pending(m)
      /\ mutation'[m] = [phase |-> "running", item |-> i, status |-> s, reply |-> "none",
                         previous |-> cache, here |-> TRUE, venue |-> venue]
      /\ Pending(m)'
      /\ \A n \in Mutation \ {m} : mutation'[n] = mutation[n] /\ Pending(n)' = Pending(n)
  BY <1>0 DEF BoardTypeOK, Pending
<1>b. cache' \in List /\ cache' # Loading /\ (cache' = cache \/ cache'.asOf = None)
  BY <1>0, OptimisticTyped, Lists
<1>1. BoardTypeOK'
  <2>1. mutation'[m] \in Put
    BY <1>0, <1>a DEF BoardTypeOK, Put
  <2>2. mutation' \in [Mutation -> Put]
    BY <1>0, <2>1 DEF BoardTypeOK
  <2>3. acts' \in 0 .. MaxActs
    BY <1>0 DEF BoardTypeOK, Act
  <2>. QED
    BY <1>0, <1>b, <2>2, <2>3, ReplayTyped DEF BoardTypeOK
<1>2. ActsInv'
  <2>1. Unserved' = Unserved \cup {m} /\ m \notin Unserved
    BY <1>a DEF Unserved
  <2>2. Cardinality(Unserved') = Cardinality(Unserved) + 1
    BY <2>1, UnservedIsFinite, FS_AddElement
  <2>3. replay'.phase = "posted" <=> replay.phase = "posted"
    BY <1>0, ReplayTyped
  <2>. QED
    BY <2>2, <2>3, <1>0, Typed, UnservedIsFinite DEF BoardInv, ActsInv, Act
<1>3. PendingInv'
  BY <1>0, <1>a, Lists DEF BoardInv, PendingInv
<1>4. PopoverInv'
  BY <1>0, <1>b DEF PopoverInv, Shown
<1>5. WriteInv'
  <2>. SUFFICES ASSUME ~leftOpen'
                PROVE  /\ popovers' = {}
                       /\ \A n \in Mutation : (Pending(n) /\ mutation[n].here)' => Followed(n)'
    BY DEF WriteInv
  <2>1. /\ popovers = {i} /\ ~leftOpen /\ popovers' = {}
        /\ \A n \in Mutation : ~(Pending(n) /\ mutation[n].here)
    BY <1>0 DEF BoardInv, WriteInv
  <2>2. \A n \in Mutation : (Pending(n) /\ mutation[n].here)' => n = m
    BY <1>a, <2>1
  <2>3. \A n \in m + 1 .. MaxPuts : n \in Mutation \ {m} /\ ~mutation'[n].here
    <3>1. \A n \in m + 1 .. MaxPuts : n \in Mutation \ {m} /\ m < n
      BY DEF Mutation
    <3>2. \A n \in Mutation : m < n => ~mutation[n].here
      BY <1>a DEF BoardInv, FreshInv
    <3>. QED
      BY <1>a, <3>1, <3>2
  <2>4. Followed(m)'
    BY <1>a, <2>3 DEF Followed
  <2>. QED
    BY <2>1, <2>2, <2>4
<1>9. FreshInv'
  <2>1. mutation'[m].phase = "running"
    BY <1>a
  <2>2. \A n \in Mutation : n < m => mutation[n].phase # "new"
    BY DEF Mutation
  <2>. QED
    BY <1>a, <2>1, <2>2 DEF BoardInv, FreshInv
<1>6. LoadedInv'
  BY <1>b DEF LoadedInv
<1>7. RecentInv'
  <2>1. mutation'[m].venue = Home
    BY <1>0, <1>a DEF Shown
  <2>. QED
    BY <1>a, <2>1 DEF BoardInv, RecentInv, NoFetch
<1>8. SameAgeInv'
  <2>1. \A list \in Held' : list \in Held \cup {Loading} \/ list.asOf = None
    BY <1>0, <1>a, <1>b, ReplayTyped DEF Held, NoFetch
  <2>. QED
    BY <1>1, <2>1, AgesKept DEF BoardInv
<1>. QED
  BY <1>1, <1>2, <1>3, <1>4, <1>5, <1>6, <1>7, <1>8, <1>9 DEF BoardInv

LEMMA SettleKeeps == ASSUME BoardInv, NEW m \in Mutation, Settle(m) PROVE BoardInv'
<1>. USE DEF Settle, SetList, server, page
<1>0. BoardTypeOK /\ Pending(m) /\ cache \in List /\ cache # Loading
  BY Lists DEF BoardInv, BoardTypeOK, LoadedInv
<1>a. /\ mutation[m].previous \in List /\ mutation[m].previous # Loading
      /\ mutation'[m] = Ended(mutation[m]) /\ mutation'[m] \in Put /\ ~Pending(m)'
      /\ mutation'[m].previous = Loading /\ mutation'[m].here = mutation[m].here
      /\ mutation[m].phase # "new" /\ mutation'[m].phase # "new"
      /\ \A n \in Mutation \ {m} : mutation'[n] = mutation[n] /\ Pending(n)' = Pending(n)
  BY <1>0 DEF BoardInv, PendingInv, BoardTypeOK, Put, Pending, Idle, Ended
<1>b. /\ cache' \in {cache, mutation[m].previous} /\ cache' \in List /\ cache' # Loading
      /\ failed' \in {failed, FALSE}
  BY <1>0, <1>a
<1>c. /\ fetch' \in {fetch, Sent}
      /\ mutation[m].venue = Home /\ Active => fetch' = Sent
  BY <1>b DEF Invalidate, Refetch
<1>1. BoardTypeOK'
  <2>2. mutation' \in [Mutation -> Put]
    BY <1>0, <1>a DEF BoardTypeOK
  <2>3. fetch' \in {NoFetch, Sent} \cup [state : {"answered"}, list : List]
    BY <1>0, <1>c DEF BoardTypeOK
  <2>4. mustSee' \in 0 .. MaxActs /\ failed' \in BOOLEAN
    BY <1>0, <1>b DEF BoardTypeOK
  <2>. QED
    BY <1>0, <1>b, <2>2, <2>3, <2>4 DEF BoardTypeOK
<1>2. ActsInv'
  <2>1. Unserved' = Unserved
    BY <1>a DEF Unserved
  <2>. QED
    BY <2>1 DEF BoardInv, ActsInv
<1>3. PendingInv'
  BY <1>a DEF BoardInv, PendingInv
<1>4. PopoverInv'
  <2>1. SUFFICES ASSUME popovers # {}
        PROVE  Shown'
    BY DEF PopoverInv
  <2>2. Shown
    BY <2>1 DEF BoardInv, PopoverInv
  <2>. QED
    BY <1>b, <2>2 DEF Shown
<1>5. WriteInv'
  BY <1>a, WritesKept
<1>9. FreshInv'
  <2>1. \A n \in Mutation :
          /\ mutation'[n].phase = "new" <=> mutation[n].phase = "new"
          /\ mutation[n].phase = "new" => mutation'[n].here = mutation[n].here
    BY <1>a
  <2>2. FreshInv
    BY DEF BoardInv
  <2>. HIDE DEF Settle
  <2>. QED
    BY <2>1, <2>2 DEF FreshInv
<1>6. LoadedInv'
  BY <1>b DEF LoadedInv
<1>7. RecentInv'
  <2>1. CASE mutation[m].venue = Home /\ Active
    BY <1>0, <1>c, <2>1, Fetches, Typed DEF RecentInv
  <2>2. CASE mutation[m].venue = Home /\ ~Active
    <3>1. fetch' = fetch /\ mustSee' = mustSee /\ ~Active'
      BY <2>2 DEF Invalidate, Active
    <3>. QED
      BY <3>1 DEF BoardInv, RecentInv, Recent
  <2>3. CASE mutation[m].venue # Home
    <3>1. fetch' = fetch /\ mustSee' = mustSee /\ cache' = cache /\ failed' = failed
      BY <2>3
    <3>. QED
      BY <1>a, <2>3, <3>1 DEF BoardInv, RecentInv, Recent, Active
  <2>. QED
    BY <2>1, <2>2, <2>3
<1>8. SameAgeInv'
  <2>1. \A list \in Held' : list \in Held \cup {Loading}
    BY <1>a, <1>b, <1>c, Fetches, <1>0 DEF Held
  <2>. QED
    BY <1>0, <1>1, <2>1, AgesKept DEF BoardInv
<1>. QED
  BY <1>1, <1>2, <1>3, <1>4, <1>5, <1>6, <1>7, <1>8, <1>9 DEF BoardInv

(* What only the service does leaves the page's part of the invariant.     *)
LEMMA ServiceKeeps ==
  ASSUME BoardInv, UNCHANGED <<query, page, mustSee>>, BoardTypeOK', ActsInv',
         writes' \in {writes, writes + 1}, writes' = writes => redis' = redis,
         replay' = replay,
         \A m \in Mutation : /\ Pending(m)' = Pending(m)
                             /\ mutation'[m].item = mutation[m].item
                             /\ mutation'[m].status = mutation[m].status
                             /\ mutation'[m].previous = mutation[m].previous
                             /\ mutation'[m].here = mutation[m].here
                             /\ mutation'[m].venue = mutation[m].venue
                             /\ mutation'[m].phase = mutation[m].phase
  PROVE  BoardInv'
<1>. USE DEF query, page
<1>0. BoardTypeOK /\ writes \in Nat /\ mustSee \in Nat
  BY Typed DEF BoardInv
<1>1. PendingInv' /\ PopoverInv' /\ WriteInv' /\ LoadedInv'
  BY WritesKept DEF BoardInv, PendingInv, PopoverInv, Shown, LoadedInv
<1>4. FreshInv'
  BY DEF BoardInv, FreshInv
<1>2. RecentInv'
  BY <1>0 DEF BoardInv, RecentInv, Recent, Active
<1>3. SameAgeInv'
  BY <1>0, AgesKept DEF BoardInv, Held
<1>. QED
  BY <1>1, <1>2, <1>3, <1>4 DEF BoardInv

LEMMA ServePutKeeps == ASSUME BoardInv, NEW m \in Mutation, ServePut(m) PROVE BoardInv'
<1>. USE DEF ServePut, Write
<1>0. /\ BoardTypeOK /\ writes \in Nat /\ acts \in Nat /\ acts <= MaxActs
      /\ mutation[m].item \in Item /\ mutation[m].status \in Status
  BY Typed DEF BoardInv, PendingInv, BoardTypeOK
<1>1. \E r \in {"ok", "error"} : mutation' = [mutation EXCEPT ![m].reply = r]
  OBVIOUS
<1>2. /\ mutation'[m].reply # "none"
      /\ \A n \in Mutation : /\ Pending(n)' = Pending(n)
                             /\ mutation'[n].item = mutation[n].item
                             /\ mutation'[n].status = mutation[n].status
                             /\ mutation'[n].previous = mutation[n].previous
                             /\ mutation'[n].here = mutation[n].here
                             /\ mutation'[n].venue = mutation[n].venue
                             /\ mutation'[n].phase = mutation[n].phase
                             /\ n # m => mutation'[n] = mutation[n]
  BY <1>0, <1>1 DEF BoardTypeOK, Put, Pending
<1>3. ActsInv'
  <2>1. Unserved' = Unserved \ {m} /\ m \in Unserved
    BY <1>2 DEF Unserved
  <2>2. Cardinality(Unserved') = Cardinality(Unserved) - 1
    BY <2>1, UnservedIsFinite, FS_RemoveElement
  <2>. QED
    BY <1>0, <2>2, UnservedIsFinite DEF BoardInv, ActsInv
<1>4. BoardTypeOK'
  <2>1. writes' \in 0 .. MaxActs
    <3>1. Cardinality(Unserved') \in Nat
      <4>1. Unserved' \subseteq Unserved
        BY <1>2 DEF Unserved
      <4>. QED
        BY <4>1, UnservedIsFinite, FS_Subset, FS_CardinalityType
    <3>. QED
      BY <1>0, <1>3, <3>1 DEF ActsInv
  <2>2. redis' \in Rows
    BY <1>0 DEF BoardTypeOK, Rows
  <2>3. mutation' \in [Mutation -> Put]
    BY <1>0, <1>1 DEF BoardTypeOK, Put
  <2>. QED
    BY <1>0, <2>1, <2>2, <2>3 DEF BoardTypeOK, query, page
<1>5. /\ UNCHANGED <<query, page, mustSee>> /\ replay' = replay
      /\ writes' \in {writes, writes + 1} /\ (writes' = writes => redis' = redis)
  BY <1>0
<1>. QED
  BY <1>2, <1>3, <1>4, <1>5, ServiceKeeps

LEMMA EventKeeps ==
  ASSUME BoardInv, NEW i \in Item, NEW s \in Status, Consume(i, s) \/ OtherPut(i, s)
  PROVE  BoardInv'
<1>. USE DEF Consume, OtherPut, Write, Act
<1>0. BoardTypeOK /\ writes \in Nat /\ acts \in Nat
  BY Typed DEF BoardInv
<1>1. /\ UNCHANGED <<query, page, mustSee, faults, mutation>> /\ replay' = replay
      /\ writes' \in {writes, writes + 1} /\ (writes' = writes => redis' = redis)
      /\ acts' = acts + 1 /\ acts < MaxActs
  BY <1>0
<1>2. ActsInv'
  BY <1>0, <1>1, PutsKept, UnservedIsFinite DEF BoardInv, ActsInv
<1>3. BoardTypeOK'
  <2>1. writes' \in 0 .. MaxActs /\ acts' \in 0 .. MaxActs
    BY <1>0, <1>1, UnservedIsFinite DEF BoardInv, ActsInv
  <2>2. redis' \in Rows
    BY <1>0 DEF BoardTypeOK, Rows
  <2>3. lastEvent' \in {None} \cup [item : Item, status : Status, marked : BOOLEAN]
    <3>1. lastEvent \in {None} \cup [item : Item, status : Status, marked : BOOLEAN]
      BY <1>0 DEF BoardTypeOK
    <3>2. \/ lastEvent' = lastEvent
          \/ lastEvent' = [item |-> i, status |-> s, marked |-> ~faults.redisUnreachable]
      OBVIOUS
    <3>3. \A marked \in BOOLEAN :
             [item |-> i, status |-> s, marked |-> marked]
                 \in [item : Item, status : Status, marked : BOOLEAN]
      OBVIOUS
    <3>4. (~faults.redisUnreachable) \in BOOLEAN
      OBVIOUS
    <3>5. [item |-> i, status |-> s, marked |-> ~faults.redisUnreachable]
              \in [item : Item, status : Status, marked : BOOLEAN]
      BY <3>3, <3>4, Zenon
    <3>. QED
      BY <3>1, <3>2, <3>5, Zenon
  <2>. QED
    BY <1>0, <1>1, <2>1, <2>2, <2>3 DEF BoardTypeOK, query, page
<1>. QED
  BY <1>1, <1>2, <1>3, PutsKept, ServiceKeeps DEF Pending

LEMMA ControlKeeps == ASSUME BoardInv, Control PROVE BoardInv'
<1>. USE DEF Control, Act, server
<1>0. BoardTypeOK /\ writes \in Nat /\ acts \in Nat
  BY Typed DEF BoardInv
<1>1. ActsInv'
  BY <1>0, PutsKept, UnservedIsFinite DEF BoardInv, ActsInv
<1>2. BoardTypeOK'
  <2>1. faults' \in Faults
    BY <1>0 DEF BoardTypeOK, Faults, PauseConsumer, ResumeConsumer, BreakRedis, RestoreRedis
  <2>2. acts' \in 0 .. MaxActs
    BY <1>0
  <2>. QED
    BY <1>0, <2>1, <2>2 DEF BoardTypeOK, query, page
<1>. QED
  BY <1>1, <1>2, PutsKept, ServiceKeeps DEF Pending

LEMMA FireKeeps == ASSUME BoardInv, FireDuplicateDelivery PROVE BoardInv'
<1>. USE DEF FireDuplicateDelivery, Act, server, query, page
<1>0. BoardTypeOK /\ writes \in Nat /\ acts \in Nat
  BY Typed DEF BoardInv
<1>a. replay' \in Replay /\ replay'.before = cache /\ replay'.phase = "posted"
  BY <1>0 DEF BoardTypeOK, Replay, NoReplay
<1>1. BoardTypeOK'
  BY <1>0, <1>a DEF BoardTypeOK
<1>2. ActsInv' /\ PendingInv' /\ FreshInv'
  BY <1>0, <1>a, PutsKept, UnservedIsFinite DEF BoardInv, ActsInv
<1>3. PopoverInv' /\ WriteInv'
  BY PutsKept, WritesKept DEF BoardInv, PopoverInv, Shown
<1>4. LoadedInv'
  BY <1>a, PutsKept DEF BoardInv, LoadedInv
<1>5. RecentInv'
  BY PutsKept DEF BoardInv, RecentInv, Recent, Active
<1>6. SameAgeInv'
  BY <1>0, <1>1, <1>a, AgesKept DEF BoardInv, Held
<1>. QED
  BY <1>1, <1>2, <1>3, <1>4, <1>5, <1>6 DEF BoardInv

(* A replay writes at most once, in the place of the act that asked for it.*)
LEMMA ReplayedTyped ==
  ASSUME BoardInv, replay.phase = "posted", lastEvent # None, Replayed
  PROVE  /\ redis' \in Rows
         /\ lastEvent' \in {None} \cup [item : Item, status : Status, marked : BOOLEAN]
         /\ writes' \in {writes, writes + 1} /\ (writes' = writes => redis' = redis)
         /\ writes' \in 0 .. MaxActs
         /\ writes' + Cardinality(Unserved) <= acts
<1>. USE DEF Replayed, Write, server
<1>1. /\ BoardTypeOK /\ writes \in Nat /\ acts \in Nat /\ acts <= MaxActs
      /\ lastEvent \in [item : Item, status : Status, marked : BOOLEAN]
  BY Typed DEF BoardInv, BoardTypeOK
<1>2. writes' \in {writes, writes + 1} /\ (writes' = writes => redis' = redis)
  BY <1>1
<1>3. redis' \in Rows
  BY <1>1 DEF BoardTypeOK, Rows
<1>4. lastEvent' \in {None} \cup [item : Item, status : Status, marked : BOOLEAN]
  BY <1>1
<1>5. writes + Cardinality(Unserved) + 1 <= acts
  BY DEF BoardInv, ActsInv
<1>. QED
  BY <1>1, <1>2, <1>3, <1>4, <1>5, UnservedIsFinite

LEMMA ReplayAnsweredKeeps == ASSUME BoardInv, ReplayAnswered PROVE BoardInv'
<1>. USE DEF ReplayAnswered, page
<1>0. /\ BoardTypeOK /\ writes \in Nat /\ acts \in Nat
      /\ lastEvent \in [item : Item, status : Status, marked : BOOLEAN]
  BY Typed DEF BoardInv, BoardTypeOK
<1>a. replay' \in Replay /\ replay'.before = replay.before /\ replay'.phase = "refetching"
  BY <1>0 DEF BoardTypeOK, Replay
<1>b. /\ fetch' \in {fetch, Sent} /\ fetch' # NoFetch
  BY Fetches, <1>0 DEF Refetch
<1>1. BoardTypeOK'
  <2>1. fetch' \in {NoFetch, Sent} \cup [state : {"answered"}, list : List]
    BY <1>0, <1>b DEF BoardTypeOK
  <2>. QED
    BY <1>0, <1>a, <2>1, ReplayedTyped DEF BoardTypeOK
<1>2. ActsInv' /\ PendingInv' /\ FreshInv'
  BY <1>0, <1>a, PutsKept, ReplayedTyped, UnservedIsFinite DEF ActsInv
<1>3. PopoverInv' /\ WriteInv'
  BY PutsKept, WritesKept DEF BoardInv, PopoverInv, Shown
<1>4. LoadedInv'
  BY <1>a, PutsKept DEF BoardInv, LoadedInv
<1>5. RecentInv'
  BY <1>0, <1>b, ReplayedTyped, Fetches, Typed DEF BoardInv, RecentInv, Recent
<1>6. SameAgeInv'
  <2>1. \A list \in Held' : list \in Held \cup {Loading}
    BY <1>0, <1>a, <1>b, Fetches DEF Held
  <2>. QED
    BY <1>0, <1>1, <2>1, ReplayedTyped, AgesKept DEF BoardInv
<1>. QED
  BY <1>1, <1>2, <1>3, <1>4, <1>5, <1>6 DEF BoardInv

LEMMA ReplayFailsKeeps == ASSUME BoardInv, ReplayFails PROVE BoardInv'
<1>. USE DEF ReplayFails, query, page
<1>0. /\ BoardTypeOK /\ writes \in Nat /\ acts \in Nat /\ mustSee \in Nat
  BY Typed DEF BoardInv
<1>a. replay' \in Replay /\ replay'.before = Loading /\ replay'.phase = "idle"
  BY DEF Replay, NoReplay
<1>b. /\ redis' \in Rows
      /\ lastEvent' \in {None} \cup [item : Item, status : Status, marked : BOOLEAN]
      /\ writes' \in {writes, writes + 1} /\ (writes' = writes => redis' = redis)
      /\ writes' \in 0 .. MaxActs
      /\ writes' + Cardinality(Unserved) <= acts
  <2>1. CASE UNCHANGED server
    <3>1. writes + Cardinality(Unserved) + 1 <= acts
      BY DEF BoardInv, ActsInv
    <3>. QED
      BY <1>0, <2>1, <3>1, UnservedIsFinite DEF server, BoardTypeOK
  <2>2. CASE lastEvent # None /\ Replayed
    BY <2>2, ReplayedTyped
  <2>. QED
    BY <2>1, <2>2
<1>1. BoardTypeOK'
  BY <1>0, <1>a, <1>b DEF BoardTypeOK
<1>2. ActsInv' /\ PendingInv' /\ FreshInv'
  BY <1>0, <1>a, <1>b, PutsKept, UnservedIsFinite DEF ActsInv
<1>3. PopoverInv' /\ WriteInv'
  BY PutsKept, WritesKept DEF BoardInv, PopoverInv, Shown
<1>4. LoadedInv'
  BY <1>a, PutsKept DEF BoardInv, LoadedInv
<1>5. RecentInv'
  BY <1>0, <1>b, PutsKept DEF BoardInv, RecentInv, Recent, Active
<1>6. SameAgeInv'
  BY <1>0, <1>1, <1>a, <1>b, AgesKept DEF BoardInv, Held
<1>. QED
  BY <1>1, <1>2, <1>3, <1>4, <1>5, <1>6 DEF BoardInv

-----------------------------------------------------------------------------
LEMMA BoardStep == ASSUME BoardInv, [BoardNext]_vars PROVE BoardInv'
<1>1. CASE Poll
  BY <1>1, PollKeeps
<1>2. CASE FetchAnswered
  BY <1>2, FetchAnsweredKeeps
<1>3. CASE FetchLands
  BY <1>3, FetchLandsKeeps
<1>4. CASE FetchFails
  BY <1>4, FetchFailsKeeps
<1>5. CASE \E v \in Venue : Pick(v)
  BY <1>5, PickKeeps
<1>6. CASE \E to \in {"board", "panel"} : Go(to)
  BY <1>6, GoKeeps
<1>7. CASE \E i \in Item : OpenPopover(i) \/ DismissPopover(i)
  BY <1>7, PopoverKeeps
<1>8. CASE \E m \in Mutation : ServePut(m)
  BY <1>8, ServePutKeeps
<1>9. CASE \E m \in Mutation : Settle(m)
  BY <1>9, SettleKeeps
<1>10. CASE \E i \in Item, s \in Status : Consume(i, s) \/ OtherPut(i, s)
  BY <1>10, EventKeeps
<1>11. CASE \E i \in Item, s \in Status, m \in Mutation : Apply(m, i, s)
  BY <1>11, ApplyKeeps
<1>12. CASE FireDuplicateDelivery
  BY <1>12, FireKeeps
<1>13. CASE ReplayAnswered
  BY <1>13, ReplayAnsweredKeeps
<1>14. CASE ReplayFails
  BY <1>14, ReplayFailsKeeps
<1>15. CASE Control
  BY <1>15, ControlKeeps
<1>16. CASE UNCHANGED vars
  <2>. USE <1>16 DEF vars, server, query, page
  <2>1. BoardTypeOK'
    BY DEF BoardInv, BoardTypeOK
  <2>2. ActsInv'
    BY PutsKept DEF BoardInv, ActsInv
  <2>. QED
    BY <2>1, <2>2, PutsKept, ServiceKeeps DEF Pending
<1>. QED
  BY <1>1, <1>2, <1>3, <1>4, <1>5, <1>6, <1>7, <1>8, <1>9, <1>10, <1>11, <1>12,
     <1>13, <1>14, <1>15, <1>16 DEF BoardNext

(* The invariant the theorems below are taken from.                        *)
THEOREM BoardInvariance == BoardSpec => []BoardInv
<1>1. BoardInit => BoardInv
  BY BoardInitial
<1>2. BoardInv /\ [BoardNext]_vars => BoardInv'
  BY BoardStep
<1>. QED
  BY <1>1, <1>2, PTL DEF BoardSpec

(* Every reachable state is well formed, the number of writes included:    *)
(* each one is an act of somebody.                                         *)
THEOREM BoardIsTyped == BoardSpec => []BoardTypeOK
<1>1. BoardInv => BoardTypeOK
  BY DEF BoardInv
<1>. QED
  BY <1>1, BoardInvariance, PTL

(* A mounted board has at most one PUT under way, although a popover's     *)
(* buttons are never disabled (AvailabilityCell.tsx), unless one was       *)
(* pressed with a second popover open.                                     *)
THEOREM NoTwoWrites == BoardSpec => []OneWriteAtATime
<1>1. BoardInv => OneWriteAtATime
  <2>. SUFFICES ASSUME BoardInv, ~leftOpen, NEW m \in Mutation, NEW n \in Mutation,
                       Pending(m), mutation[m].here, Pending(n), mutation[n].here
                PROVE  m = n
    BY DEF OneWriteAtATime
  <2>1. Followed(m) /\ Followed(n)
    BY DEF BoardInv, WriteInv
  <2>. QED
    BY <2>1 DEF Followed, Mutation
<1>. QED
  BY <1>1, BoardInvariance, PTL

(* A board at rest shows an answer of the service that no write is missing *)
(* from which settled on screen.                                           *)
THEOREM RestIsRecent == BoardSpec => []QuietBoardIsAnAnswer
<1>1. BoardInv => QuietBoardIsAnAnswer
  BY Typed, Lists DEF BoardInv, RecentInv, Recent, QuietBoardIsAnAnswer, BoardTypeOK
<1>. QED
  BY <1>1, BoardInvariance, PTL

(* The verdict "changed" of a refused replay is never made up by the panel:*)
(* something it compared was no answer, or a write lay between the two.    *)
THEOREM VerdictsHaveACause == BoardSpec => ChangedVerdictHasCause
<1>. DEFINE Verdict ==
       LET before == replay.before IN
       /\ replay.phase = "refetching" /\ replay'.phase = "recorded"
       /\ ~replay'.accepted /\ ~replay'.unchanged
       => \/ before = Loading
          \/ before.asOf = None
          \/ cache'.asOf = None
          \/ before.asOf # cache'.asOf
<1>1. BoardInv /\ [BoardNext]_vars => Verdict
  <2>. SUFFICES ASSUME BoardInv, [BoardNext]_vars,
                       replay.phase = "refetching", replay'.phase = "recorded",
                       ~replay'.unchanged,
                       replay.before # Loading, replay.before.asOf # None,
                       cache'.asOf # None, replay.before.asOf = cache'.asOf
       PROVE  FALSE
    OBVIOUS
  <2>1. BoardTypeOK /\ SameAgeInv /\ cache \in List /\ cache # Loading
    BY Lists DEF BoardInv, BoardTypeOK, LoadedInv
  <2>2. \/ FetchLands
        \/ FetchFails
        \/ \E i \in Item, s \in Status, m \in Mutation : Apply(m, i, s)
    BY DEF BoardNext, vars, server, query, page, Poll, FetchAnswered,
           Pick, Go, OpenPopover, DismissPopover, ServePut, Settle, Consume, OtherPut,
           FireDuplicateDelivery, ReplayAnswered, ReplayFails, Control, NoReplay
  <2>3. ReplayGoesOn
    BY <2>2 DEF FetchLands, FetchFails, Apply, Mutate
  <2>4. RowsOf(replay.before)[replay.item] # RowsOf(cache')[replay.item]
    BY <2>1, <2>3 DEF ReplayGoesOn, SameStatus, NoReplay, BoardTypeOK, Replay
  <2>5. cache' \in Held /\ cache' # Loading
    <3>1. CASE FetchLands
      BY <2>1, <3>1, Fetches, Lists DEF FetchLands, SetList, Held
    <3>2. CASE FetchFails
      BY <2>1, <3>2 DEF FetchFails, Held
    <3>3. ASSUME NEW i \in Item, NEW s \in Status, NEW m \in Mutation, Apply(m, i, s)
          PROVE  cache' \in Held /\ cache' # Loading
      BY <2>1, <3>3, OptimisticTyped, Lists DEF Apply, Mutate, SetList, Held
    <3>. QED
      BY <2>2, <3>1, <3>2, <3>3
  <2>6. replay.before \in Kept /\ cache' \in Kept
    BY <2>5 DEF Kept, Held
  <2>7. replay.before.rows = cache'.rows
    BY <2>1, <2>6 DEF SameAgeInv
  <2>. QED
    BY <2>4, <2>5, <2>7 DEF RowsOf
<1>2. BoardInv /\ [BoardNext]_vars => [Verdict]_vars
  BY <1>1
<1>. QED
  BY <1>2, BoardInvariance, PTL DEF BoardSpec, ChangedVerdictHasCause
=============================================================================
