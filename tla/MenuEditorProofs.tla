-------------------------- MODULE MenuEditorProofs --------------------------
(***************************************************************************)
(* What the menu editor may count on, for any number of items, edits,      *)
(* reorders and other editors, as long as one mutation runs at a time: the *)
(* version stands for the row, a failed reorder is undone, and a PUT of    *)
(* the whole row changes only what the merchant changed.  All three rest   *)
(* on every copy of a row in the browser being one that menu-service had.  *)
(***************************************************************************)
EXTENDS MenuEditor, FiniteSetTheorems, TLAPS

USE EditorAssumption

(* A row that is the server's, or one that an accepted write has replaced. *)
Genuine(rows, i, r) ==
    r # Gone /\ rows[i] # Gone => r.version < rows[i].version \/ r = rows[i]

(* What answers brought is genuine, however late it is used.               *)
AnswersInv ==
    /\ fetch.state = "answered" => \A i \in Item : Genuine(server, i, fetch.rows[i])
    /\ \A i \in Item : conflicts[i] # None => Genuine(server, i, conflicts[i])
    /\ \A m \in Mutation : \A i \in Called(mutation[m].calls) :
          mutation[m].calls[i].reply.kind \in {"ok", "conflict"} =>
              Genuine(server, i, mutation[m].calls[i].reply.row)

(* A mutation has a list to go back to, and every PUT is the row of that   *)
(* list but for the field that the merchant changed.                       *)
Sound(state) ==
    /\ state.previous \in Rows
    /\ state.phase = "undoing" => state.kind = "reorder"
    /\ state.kind = "update" => \A i, j \in Called(state.calls) : i = j
    /\ \A i \in Called(state.calls) :
          LET body == state.calls[i].body
              row == state.previous[i]
          IN  /\ row # Gone /\ body.version = row.version
              /\ IF state.kind = "update" THEN body.pos = row.pos ELSE body.price = row.price

PendingInv ==
    \A m \in Mutation : Pending(m) =>
        cache \in Rows /\ mutation[m].since <= otherWrites /\ Sound(mutation[m])

(* An input is open on a row of the list.                                  *)
EditingInv == editing # None => cache \in Rows /\ cache[editing] # Gone

(* One mutation at a time, and every rollback went into this list.         *)
Trusted == ~overlapped /\ ~strayed

OneInv == ~overlapped => \A m, n \in Mutation : Pending(m) /\ Pending(n) => m = n

(* The list to go back to is genuine.                                      *)
PreviousInv ==
    Trusted => \A m \in Mutation : Pending(m) =>
        \A i \in Item : Genuine(server, i, mutation[m].previous[i])

(* A row of the cache is genuine, or the optimistic one of a PUT that has  *)
(* not succeeded.                                                          *)
Optimistic(i) ==
    \E m \in Mutation :
        /\ Pending(m) /\ i \in Called(mutation[m].calls)
        /\ cache[i] = mutation[m].calls[i].body /\ mutation[m].calls[i].reply.kind # "ok"

CacheInv ==
    Trusted /\ cache # Loading => \A i \in Item : Genuine(server, i, cache[i]) \/ Optimistic(i)

(* While nobody else writes, the server has the row a PUT of the reorder   *)
(* made of it, and then the one its compensation does.                     *)
UndoInv ==
    \A m \in Mutation :
        Pending(m) /\ ~overlapped /\ mutation[m].since = otherWrites =>
            \A i \in Succeeded(mutation[m].calls) :
                LET row == mutation[m].calls[i].reply.row
                    undo == mutation[m].undo[i]
                IN  /\ mutation[m].phase = "running" => server[i] = row
                    /\ mutation[m].phase = "undoing" =>
                          /\ undo # None
                          /\ undo.body = [row EXCEPT !.pos = mutation[m].previous[i].pos]
                          /\ undo.reply.kind \in {"waiting", "ok", "lost"}
                          /\ undo.reply.kind = "waiting" => server[i] = row
                          /\ undo.reply.kind = "ok" =>
                                server[i].pos = mutation[m].previous[i].pos

EditorInv ==
    /\ EditorTypeOK
    /\ AnswersInv
    /\ PendingInv
    /\ EditingInv
    /\ OneInv
    /\ PreviousInv
    /\ CacheInv
    /\ UndoInv

-----------------------------------------------------------------------------
LEMMA IdleTyped ==
  /\ Idle \in MutationState /\ Idle.phase = "new" /\ Called(Idle.calls) = {}
  /\ Ended \in MutationState /\ Ended.phase = "settled" /\ Called(Ended.calls) = {}
<1>1. Idle \in MutationState /\ Idle.phase = "new" /\ Called(Idle.calls) = {}
  BY DEF Idle, MutationState, Called
<1>2. Ended \in MutationState /\ Ended.phase = "settled" /\ Ended.calls = Idle.calls
  BY <1>1 DEF Ended, MutationState
<1>. QED
  BY <1>1, <1>2

LEMMA EditorInitial == ASSUME EditorInit PROVE EditorInv
<1>. USE DEF EditorInit
<1>1. \A m \in Mutation : mutation[m] = Idle
  OBVIOUS
<1>2. Idle \in MutationState /\ Idle.phase = "new" /\ Called(Idle.calls) = {}
  BY IdleTyped
<1>3. EditorTypeOK
  <2>1. FirstRows \in Rows
    BY DEF Rows, Row
  <2>2. mutation \in [Mutation -> MutationState]
    BY <1>2
  <2>3. conflicts \in [Item -> Row \cup {None, Gone}]
    BY DEF NoConflicts
  <2>4. visits \in 0 .. MaxVisits /\ otherWrites \in 0 .. MaxOtherWrites
    OBVIOUS
  <2>. QED
    BY <2>1, <2>2, <2>3, <2>4 DEF EditorTypeOK
<1>4. AnswersInv /\ EditingInv
  BY <1>1, <1>2 DEF AnswersInv, EditingInv, NoFetch, NoConflicts
<1>5. \A m \in Mutation : ~Pending(m)
  BY <1>1, <1>2 DEF Pending
<1>. QED
  BY <1>3, <1>4, <1>5 DEF EditorInv, PendingInv, OneInv, PreviousInv, CacheInv, UndoInv

-----------------------------------------------------------------------------
(* What the browser does to its list while no mutation begins or ends: a   *)
(* row that is new to the cache is genuine.                                *)
LEMMA QuietKeeps ==
  ASSUME EditorInv, UNCHANGED <<server, otherWrites, overlapped, strayed>>,
         \A m \in Mutation :
            /\ mutation'[m].phase = mutation[m].phase /\ mutation'[m].kind = mutation[m].kind
            /\ mutation'[m].previous = mutation[m].previous
            /\ mutation'[m].calls = mutation[m].calls /\ mutation'[m].undo = mutation[m].undo
            /\ mutation'[m].since = mutation[m].since,
         \/ cache' = cache
         \/ /\ cache' \in Rows
            /\ \A i \in Item :
                  Genuine(server, i, cache'[i]) \/ (cache # Loading /\ cache'[i] = cache[i])
  PROVE  PendingInv' /\ OneInv' /\ PreviousInv' /\ CacheInv' /\ UndoInv'
<1>1. \A m \in Mutation : Pending(m)' <=> Pending(m)
  BY DEF Pending
<1>2. PendingInv'
  <2>. SUFFICES ASSUME NEW m \in Mutation, Pending(m)
                PROVE  cache' \in Rows /\ mutation'[m].since <= otherWrites /\ Sound(mutation'[m])
    BY <1>1 DEF PendingInv
  <2>1. cache \in Rows /\ mutation[m].since <= otherWrites /\ Sound(mutation[m])
    BY DEF EditorInv, PendingInv
  <2>2. Sound(mutation'[m])
    BY <2>1 DEF Sound
  <2>. QED
    BY <2>1, <2>2
<1>3. OneInv' /\ PreviousInv'
  BY <1>1 DEF EditorInv, OneInv, PreviousInv, Trusted
<1>4. CacheInv'
  <2>0. Trusted' <=> Trusted
    BY DEF Trusted
  <2>. SUFFICES ASSUME Trusted, cache' # Loading, NEW i \in Item
                PROVE  Genuine(server, i, cache'[i]) \/ Optimistic(i)'
    BY <2>0 DEF CacheInv
  <2>1. CASE Genuine(server, i, cache'[i])
    BY <2>1
  <2>2. CASE cache # Loading /\ cache'[i] = cache[i]
    <3>1. CASE Genuine(server, i, cache[i])
      BY <2>2, <3>1
    <3>2. CASE Optimistic(i)
      BY <1>1, <2>2, <3>2 DEF Optimistic
    <3>. QED
      BY <2>2, <3>1, <3>2 DEF EditorInv, CacheInv
  <2>. QED
    BY <2>1, <2>2
<1>5. UndoInv'
  <2>. DEFINE Compensated(srv, mut, i) ==
         LET row == mut.calls[i].reply.row
             undo == mut.undo[i]
         IN  /\ mut.phase = "running" => srv[i] = row
             /\ mut.phase = "undoing" =>
                   /\ undo # None
                   /\ undo.body = [row EXCEPT !.pos = mut.previous[i].pos]
                   /\ undo.reply.kind \in {"waiting", "ok", "lost"}
                   /\ undo.reply.kind = "waiting" => srv[i] = row
                   /\ undo.reply.kind = "ok" => srv[i].pos = mut.previous[i].pos
  <2>1. ASSUME NEW m \in Mutation, Pending(m)', ~overlapped',
               (mutation[m].since = otherWrites)', NEW i \in Succeeded(mutation'[m].calls)
        PROVE  Compensated(server', mutation'[m], i)
    <3>1. /\ mutation'[m].phase = mutation[m].phase /\ mutation'[m].since = mutation[m].since
          /\ mutation'[m].previous = mutation[m].previous
          /\ mutation'[m].calls = mutation[m].calls /\ mutation'[m].undo = mutation[m].undo
      OBVIOUS
    <3>2. /\ Pending(m) /\ ~overlapped /\ mutation[m].since = otherWrites
          /\ i \in Succeeded(mutation[m].calls)
      BY <1>1, <2>1, <3>1
    <3>3. Compensated(server, mutation[m], i)
      BY <3>2 DEF EditorInv, UndoInv
    <3>4. server' = server
      OBVIOUS
    <3>. QED
      BY <3>1, <3>3, <3>4
  <2>. QED
    BY <2>1 DEF UndoInv
<1>. QED
  BY <1>2, <1>3, <1>4, <1>5

LEMMA AnswersKept ==
  ASSUME EditorInv, UNCHANGED <<server, mutation>>,
         fetch'.state = "answered" => \A i \in Item : Genuine(server, i, fetch'.rows[i]),
         \A i \in Item : conflicts'[i] \in {None, conflicts[i]}
  PROVE  AnswersInv'
<1>1. \A i \in Item : conflicts'[i] # None => Genuine(server, i, conflicts'[i])
  BY DEF EditorInv, AnswersInv
<1>. QED
  BY <1>1 DEF EditorInv, AnswersInv

(* Coming, going and switching: what changes of a mutation is whose        *)
(* callbacks it has.                                                       *)
LEMMA GoKeeps ==
  ASSUME EditorInv, NEW to \in {"nowhere", "home", "elsewhere"}, GoTo(to),
         mutation' \in [Mutation -> MutationState],
         foreign' \in {"none", "elsewhere", "home", "left"},
         \A m \in Mutation :
            /\ mutation'[m].phase = mutation[m].phase /\ mutation'[m].kind = mutation[m].kind
            /\ mutation'[m].previous = mutation[m].previous
            /\ mutation'[m].calls = mutation[m].calls /\ mutation'[m].undo = mutation[m].undo
            /\ mutation'[m].since = mutation[m].since,
         conflicts' \in {conflicts, NoConflicts}
  PROVE  EditorInv'
<1>. USE DEF GoTo
<1>1. EditorTypeOK'
  BY DEF EditorInv, EditorTypeOK, NoConflicts
<1>2. AnswersInv'
  <2>1. fetch'.state = "answered" => fetch' = fetch
    BY DEF Sent
  <2>2. \A i \in Item : conflicts'[i] # None => Genuine(server, i, conflicts'[i])
    BY DEF EditorInv, AnswersInv, NoConflicts
  <2>3. \A m \in Mutation : mutation'[m].calls = mutation[m].calls
    OBVIOUS
  <2>. QED
    BY <2>1, <2>2, <2>3 DEF EditorInv, AnswersInv
<1>3. EditingInv'
  BY DEF EditingInv
<1>. QED
  BY <1>1, <1>2, <1>3, QuietKeeps DEF EditorInv

LEMMA PlaceKeeps ==
  ASSUME EditorInv,
         Leave \/ \E to \in {"home", "elsewhere"} : Open(to) \/ Switch(to)
  PROVE  EditorInv'
<1>0. mutation \in [Mutation -> MutationState] /\ foreign \in {"none", "elsewhere", "home", "left"}
  BY DEF EditorInv, EditorTypeOK
<1>1. ASSUME NEW to \in {"home", "elsewhere"}, Open(to) PROVE EditorInv'
  BY <1>0, <1>1, GoKeeps DEF Open
<1>2. CASE Leave
  <2>. USE <1>2 DEF Leave
  <2>1. \A m \in Mutation : mutation'[m] = [mutation[m] EXCEPT !.here = FALSE]
    OBVIOUS
  <2>2. ASSUME NEW m \in Mutation
        PROVE  /\ mutation'[m] \in MutationState
               /\ mutation'[m].phase = mutation[m].phase /\ mutation'[m].kind = mutation[m].kind
               /\ mutation'[m].previous = mutation[m].previous
               /\ mutation'[m].calls = mutation[m].calls /\ mutation'[m].undo = mutation[m].undo
               /\ mutation'[m].since = mutation[m].since
    <3>1. mutation[m] \in MutationState
      BY <1>0
    <3>. QED
      BY <2>1, <3>1 DEF MutationState
  <2>3. mutation' \in [Mutation -> MutationState]
    BY <2>2
  <2>4. foreign' \in {"none", "elsewhere", "home", "left"}
    BY <1>0
  <2>. QED
    BY <2>2, <2>3, <2>4, GoKeeps
<1>3. ASSUME NEW to \in {"home", "elsewhere"}, Switch(to) PROVE EditorInv'
  <2>. USE <1>3 DEF Switch
  <2>1. \A m \in Mutation :
           mutation'[m] \in {mutation[m], [mutation[m] EXCEPT !.home = (to = "home")]}
    OBVIOUS
  <2>2. ASSUME NEW m \in Mutation
        PROVE  /\ mutation'[m] \in MutationState
               /\ mutation'[m].phase = mutation[m].phase /\ mutation'[m].kind = mutation[m].kind
               /\ mutation'[m].previous = mutation[m].previous
               /\ mutation'[m].calls = mutation[m].calls /\ mutation'[m].undo = mutation[m].undo
               /\ mutation'[m].since = mutation[m].since
    <3>1. mutation[m] \in MutationState /\ (to = "home") \in BOOLEAN
      BY <1>0
    <3>. QED
      BY <2>1, <3>1 DEF MutationState
  <2>3. mutation' \in [Mutation -> MutationState]
    BY <2>2
  <2>4. foreign' \in {"none", "elsewhere", "home", "left"}
    BY <1>0
  <2>. QED
    BY <2>2, <2>3, <2>4, GoKeeps
<1>. QED
  BY <1>1, <1>2, <1>3

LEMMA FetchKeeps ==
  ASSUME EditorInv, FetchAnswered \/ FetchLands \/ FetchFails
  PROVE  EditorInv'
<1>0. UNCHANGED <<server, mutation, foreign, otherWrites, overlapped, conflicts, place, visits>>
  BY DEF FetchAnswered, FetchLands, FetchFails, editor
<1>1. CASE FetchAnswered
  <2>. USE <1>1 DEF FetchAnswered, editor
  <2>1. EditorTypeOK' /\ EditingInv'
    BY DEF EditorInv, EditorTypeOK, EditingInv
  <2>2. AnswersInv'
    BY AnswersKept DEF Genuine
  <2>. QED
    BY <2>1, <2>2, QuietKeeps DEF EditorInv
<1>2. CASE FetchLands
  <2>. USE <1>2 DEF FetchLands
  <2>1. fetch.rows \in Rows /\ \A i \in Item : Genuine(server, i, fetch.rows[i])
    BY DEF EditorInv, EditorTypeOK, AnswersInv, NoFetch, Sent
  <2>2. EditorTypeOK'
    BY <2>1 DEF EditorInv, EditorTypeOK
  <2>3. EditingInv'
    BY <2>1 DEF EditorInv, EditingInv
  <2>4. AnswersInv'
    BY <1>0, AnswersKept DEF NoFetch
  <2>5. CASE strayed' = strayed
    BY <2>1, <2>2, <2>3, <2>4, <2>5, QuietKeeps DEF EditorInv
  <2>6. CASE \A m \in Mutation : ~Pending(m)
    <3>1. \A m \in Mutation : ~Pending(m)'
      BY <2>6 DEF Pending
    <3>2. PendingInv' /\ OneInv' /\ PreviousInv' /\ UndoInv'
      BY <3>1 DEF PendingInv, OneInv, PreviousInv, UndoInv
    <3>3. CacheInv'
      BY <2>1 DEF CacheInv
    <3>. QED
      BY <2>2, <2>3, <2>4, <3>2, <3>3 DEF EditorInv
  <2>. QED
    BY <2>5, <2>6 DEF EditorInv, EditorTypeOK
<1>3. CASE FetchFails
  <2>. USE <1>3 DEF FetchFails
  <2>1. EditorTypeOK' /\ EditingInv'
    BY DEF EditorInv, EditorTypeOK, EditingInv
  <2>2. AnswersInv'
    BY <1>0, AnswersKept DEF NoFetch
  <2>. QED
    BY <2>1, <2>2, QuietKeeps DEF EditorInv
<1>. QED
  BY <1>1, <1>2, <1>3

LEMMA InputKeeps ==
  ASSUME EditorInv, CancelEdit \/ \E i \in Item : BeginEdit(i)
  PROVE  EditorInv'
<1>0. UNCHANGED <<server, cache, failed, fetch, mutation, foreign, otherWrites, overlapped, strayed,
                  conflicts, place, visits>>
  BY DEF CancelEdit, BeginEdit, query
<1>1. editing' = None \/ (editing' \in Item /\ cache # Loading /\ cache[editing'] # Gone)
  BY DEF CancelEdit, BeginEdit, Shown
<1>2. EditorTypeOK'
  BY <1>0, <1>1 DEF EditorInv, EditorTypeOK
<1>3. EditingInv'
  BY <1>0, <1>1 DEF EditorInv, EditorTypeOK, EditingInv
<1>4. AnswersInv'
  BY <1>0, AnswersKept DEF EditorInv, AnswersInv
<1>. QED
  BY <1>0, <1>2, <1>3, <1>4, QuietKeeps DEF EditorInv

(* The row of the 409 is one the server had.                               *)
LEMMA AcknowledgeKeeps ==
  ASSUME EditorInv, NEW i \in Item, AcknowledgeConflict(i)
  PROVE  EditorInv'
<1>. USE DEF AcknowledgeConflict, SetItems, Shown, Offered
<1>1. /\ cache \in Rows /\ conflicts[i] \in Row /\ Genuine(server, i, conflicts[i])
      /\ cache' = [cache EXCEPT ![i] = conflicts[i]]
  BY DEF EditorInv, EditorTypeOK, AnswersInv
<1>2. cache' \in Rows /\ \A j \in Item :
         Genuine(server, j, cache'[j]) \/ (cache # Loading /\ cache'[j] = cache[j])
  BY <1>1 DEF Rows
<1>3. \A j \in Item : conflicts'[j] \in {None, conflicts[j]}
  BY DEF EditorInv, EditorTypeOK
<1>4. EditorTypeOK'
  BY <1>2 DEF EditorInv, EditorTypeOK
<1>5. AnswersInv'
  BY <1>3, AnswersKept DEF EditorInv, AnswersInv
<1>6. EditingInv'
  BY DEF EditingInv
<1>. QED
  BY <1>2, <1>4, <1>5, <1>6, QuietKeeps DEF EditorInv

-----------------------------------------------------------------------------
(* The PUTs of a mutation that change one field of some rows of the list.  *)
Edits(kind, calls, optimistic) ==
    /\ kind = "update" => \A i, j \in Called(calls) : i = j
    /\ \A i \in Called(calls) :
          /\ calls[i].reply = Waiting /\ optimistic[i] = calls[i].body
          /\ cache[i] # Gone /\ calls[i].body.version = cache[i].version
          /\ IF kind = "update" THEN calls[i].body.pos = cache[i].pos
                                ELSE calls[i].body.price = cache[i].price
    /\ \A i \in Item \ Called(calls) : optimistic[i] \in {cache[i], Gone}

(* A mutation begins on a list of which every row is genuine, unless       *)
(* another one is under way.                                               *)
LEMMA MutateKeeps ==
  ASSUME EditorInv, cache \in Rows,
         NEW m \in Mutation, NEW kind \in {"update", "reorder"},
         NEW calls \in [Item -> Call \cup {None}], NEW optimistic \in Rows,
         Mutate(m, kind, calls, optimistic), Edits(kind, calls, optimistic),
         editing' = None, \A i \in Item : conflicts'[i] \in {None, conflicts[i]},
         conflicts' \in [Item -> Row \cup {None, Gone}],
         UNCHANGED <<server, place, visits, otherWrites>>
  PROVE  EditorInv'
<1>0. /\ kind = "update" => \A i, j \in Called(calls) : i = j
      /\ \A i \in Called(calls) :
            /\ calls[i].reply = Waiting /\ optimistic[i] = calls[i].body
            /\ cache[i] # Gone /\ calls[i].body.version = cache[i].version
            /\ IF kind = "update" THEN calls[i].body.pos = cache[i].pos
                                  ELSE calls[i].body.price = cache[i].price
      /\ \A i \in Item \ Called(calls) : optimistic[i] \in {cache[i], Gone}
  BY DEF Edits
<1>. USE <1>0
<1>. DEFINE begun == [phase |-> "running", kind |-> kind, here |-> TRUE, home |-> TRUE,
                      previous |-> cache, calls |-> calls, undo |-> Idle.undo, since |-> otherWrites]
<1>1. /\ mutation' = [mutation EXCEPT ![m] = begun]
      /\ fetch' = NoFetch /\ cache' = optimistic /\ failed' = FALSE
      /\ overlapped' = (overlapped \/ \E n \in Mutation : Pending(n))
      /\ UNCHANGED <<foreign, strayed>>
  BY DEF Mutate, SetItems
<1>2. begun \in MutationState
  BY DEF EditorInv, EditorTypeOK, MutationState, Idle
<1>3. /\ begun.phase = "running" /\ begun.kind = kind /\ begun.previous = cache
      /\ begun.calls = calls /\ begun.since = otherWrites
  OBVIOUS
<1>. HIDE DEF begun
<1>4. mutation'[m] = begun /\ \A n \in Mutation \ {m} : mutation'[n] = mutation[n]
  BY <1>1 DEF EditorInv, EditorTypeOK
<1>5. Pending(m)' /\ \A n \in Mutation \ {m} : Pending(n)' <=> Pending(n)
  BY <1>3, <1>4 DEF Pending
<1>6. ~overlapped' => ~overlapped /\ \A n \in Mutation : ~Pending(n)
  BY <1>1
<1>7. EditorTypeOK'
  BY <1>1, <1>2, <1>6 DEF EditorInv, EditorTypeOK
<1>8. AnswersInv'
  <2>1. \A i \in Called(calls) : calls[i].reply.kind = "waiting"
    BY DEF Waiting
  <2>2. fetch'.state # "answered"
    BY <1>1 DEF NoFetch
  <2>3. \A i \in Item : conflicts'[i] # None => Genuine(server, i, conflicts'[i])
    BY DEF EditorInv, AnswersInv
  <2>4. ASSUME NEW n \in Mutation, NEW i \in Called(mutation'[n].calls),
               mutation'[n].calls[i].reply.kind \in {"ok", "conflict"}
        PROVE  Genuine(server, i, mutation'[n].calls[i].reply.row)
    <3>1. n # m
      BY <1>3, <1>4, <2>1, <2>4
    <3>2. mutation'[n] = mutation[n]
      BY <1>4, <3>1
    <3>. QED
      BY <2>4, <3>2 DEF EditorInv, AnswersInv
  <2>. QED
    BY <2>2, <2>3, <2>4 DEF AnswersInv
<1>9. PendingInv'
  <2>. SUFFICES ASSUME NEW n \in Mutation, Pending(n)'
                PROVE  cache' \in Rows /\ mutation'[n].since <= otherWrites /\ Sound(mutation'[n])
    BY DEF PendingInv
  <2>0. cache' \in Rows
    BY <1>1
  <2>1. CASE n = m
    <3>1. Sound(begun)
      BY <1>3 DEF Sound
    <3>2. begun.since <= otherWrites
      BY <1>3 DEF EditorInv, EditorTypeOK
    <3>. QED
      BY <1>4, <2>0, <2>1, <3>1, <3>2
  <2>2. CASE n # m
    <3>1. mutation'[n] = mutation[n] /\ Pending(n)
      BY <1>4, <1>5, <2>2
    <3>. QED
      BY <2>0, <3>1 DEF EditorInv, PendingInv
  <2>. QED
    BY <2>1, <2>2
<1>10. EditingInv'
  BY DEF EditingInv
<1>11. OneInv'
  BY <1>5, <1>6 DEF OneInv
<1>12. Trusted' => \A i \in Item : Genuine(server, i, cache[i])
  BY <1>1, <1>6 DEF EditorInv, CacheInv, Optimistic, Trusted
<1>13. PreviousInv'
  <2>1. Trusted' => \A n \in Mutation : ~Pending(n)
    BY <1>6 DEF Trusted
  <2>. QED
    BY <1>3, <1>4, <1>5, <1>12, <2>1 DEF PreviousInv
<1>14. CacheInv'
  <2>. SUFFICES ASSUME Trusted', NEW i \in Item
                PROVE  Genuine(server, i, cache'[i]) \/ Optimistic(i)'
    BY DEF CacheInv
  <2>1. CASE i \in Called(calls)
    <3>1. cache'[i] = calls[i].body /\ calls[i].reply.kind # "ok"
      BY <1>1, <2>1 DEF Waiting
    <3>. QED
      BY <1>3, <1>4, <1>5, <2>1, <3>1 DEF Optimistic
  <2>2. CASE i \notin Called(calls)
    BY <1>1, <1>12, <2>2 DEF Genuine
  <2>. QED
    BY <2>1, <2>2
<1>15. UndoInv'
  <2>1. Succeeded(calls) = {}
    BY DEF Succeeded, Waiting
  <2>. QED
    BY <1>3, <1>4, <1>5, <1>6, <2>1 DEF UndoInv
<1>. QED
  BY <1>7, <1>8, <1>9, <1>10, <1>11, <1>13, <1>14, <1>15 DEF EditorInv

LEMMA PutTyped ==
  ASSUME NEW row \in Row
  PROVE  Put(row) \in Call /\ Put(row).body = row /\ Put(row).reply = Waiting /\ Put(row) # None
BY DEF Put, Call, Reply, Waiting

(* A price edit: one PUT, of the row with another price.                   *)
LEMMA CommitKeeps ==
  ASSUME EditorInv, NEW m \in Mutation, NEW i \in Item, NEW price \in Price,
         CommitPrice(m, i, price)
  PROVE  EditorInv'
<1>. DEFINE row == PatchedRow(i, price)
            calls == [Idle.calls EXCEPT ![i] = Put(row)]
            optimistic == [cache EXCEPT ![i] = row]
<1>1. cache \in Rows /\ cache[i] \in Row /\ cache[i] # Gone
  BY DEF EditorInv, EditingInv, CommitPrice, Rows
<1>2. row \in Row /\ row.version = cache[i].version /\ row.pos = cache[i].pos
  BY <1>1 DEF PatchedRow, Row
<1>. HIDE DEF row
<1>3. /\ calls \in [Item -> Call \cup {None}] /\ Called(calls) = {i}
      /\ calls[i].body = row /\ calls[i].reply = Waiting
  BY <1>2, PutTyped DEF Idle, Called
<1>4. /\ optimistic \in Rows /\ optimistic[i] = row
      /\ \A j \in Item \ {i} : optimistic[j] = cache[j]
  BY <1>1, <1>2 DEF Rows
<1>5. Mutate(m, "update", calls, optimistic)
  BY DEF CommitPrice, row
<1>6. /\ conflicts' \in [Item -> Row \cup {None, Gone}]
      /\ \A j \in Item : conflicts'[j] \in {None, conflicts[j]}
  BY DEF EditorInv, EditorTypeOK, CommitPrice
<1>7. editing' = None /\ UNCHANGED <<server, place, visits, otherWrites>>
  BY DEF CommitPrice
<1>. HIDE DEF calls, optimistic
<1>8. Edits("update", calls, optimistic)
  BY <1>1, <1>2, <1>3, <1>4 DEF Edits
<1>. QED
  BY <1>1, <1>3, <1>4, <1>5, <1>6, <1>7, <1>8, MutateKeeps

(* The order of the table names listed rows, each at an index of its own.  *)
LEMMA OrderTyped ==
  ASSUME cache \in Rows, NEW order \in Sorted, NEW k \in 1 .. Len(order) - 1
  PROVE  \A i \in Range(Swapped(order, k)) :
            /\ i \in Item /\ cache[i] # Gone
            /\ IndexIn(Swapped(order, k), i) \in 0 .. Cardinality(Item) - 1
<1>. DEFINE next == Swapped(order, k)
<1>1. Listed(cache) \subseteq Item /\ IsFiniteSet(Listed(cache))
  BY FS_Subset DEF Listed
<1>2. /\ Cardinality(Listed(cache)) \in Nat /\ Cardinality(Item) \in Nat
      /\ Cardinality(Listed(cache)) <= Cardinality(Item)
  BY <1>1, FS_Subset, FS_CardinalityType
<1>3. order \in [1 .. Cardinality(Listed(cache)) -> Listed(cache)]
  BY DEF Sorted, SetToSeqs
<1>4. Len(order) = Cardinality(Listed(cache))
  BY <1>2, <1>3
<1>5. k \in DOMAIN order /\ k + 1 \in DOMAIN order
  BY <1>2, <1>3, <1>4
<1>6. next \in [1 .. Cardinality(Listed(cache)) -> Listed(cache)]
  BY <1>3, <1>5 DEF Swapped
<1>. HIDE DEF next
<1>7. ASSUME NEW i \in Range(next)
      PROVE  /\ i \in Item /\ cache[i] # Gone
             /\ IndexIn(next, i) \in 0 .. Cardinality(Item) - 1
  <2>1. PICK j \in DOMAIN next : next[j] = i
    BY DEF Range
  <2>2. (CHOOSE l \in DOMAIN next : next[l] = i) \in DOMAIN next
    BY <2>1
  <2>3. IndexIn(next, i) \in 0 .. Cardinality(Item) - 1
    BY <1>2, <1>6, <2>2 DEF IndexIn
  <2>. QED
    BY <1>6, <2>1, <2>3 DEF Listed
<1>. QED
  BY <1>7 DEF next

(* A reorder: PUTs of the rows that are not at their index yet.            *)
LEMMA MoveKeeps ==
  ASSUME EditorInv, NEW m \in Mutation, Move(m)
  PROVE  EditorInv'
<1>0. PICK order \in Sorted : \E k \in 1 .. Len(order) - 1 :
        LET next == Swapped(order, k) IN
        Mutate(m, "reorder",
               [i \in Item |-> IF i \in ChangedBy(next) THEN Put(MovedRow(next, i)) ELSE None],
               [i \in Item |-> IF i \in Range(next) THEN MovedRow(next, i) ELSE Gone])
  BY DEF Move
<1>1. PICK k \in 1 .. Len(order) - 1 :
        LET next == Swapped(order, k) IN
        Mutate(m, "reorder",
               [i \in Item |-> IF i \in ChangedBy(next) THEN Put(MovedRow(next, i)) ELSE None],
               [i \in Item |-> IF i \in Range(next) THEN MovedRow(next, i) ELSE Gone])
  BY <1>0
<1>. DEFINE next == Swapped(order, k)
            calls == [i \in Item |-> IF i \in ChangedBy(next) THEN Put(MovedRow(next, i)) ELSE None]
            optimistic == [i \in Item |-> IF i \in Range(next) THEN MovedRow(next, i) ELSE Gone]
<1>2. Mutate(m, "reorder", calls, optimistic)
  BY <1>1
<1>3. cache \in Rows /\ editing = None
  BY DEF EditorInv, EditorTypeOK, Move, Shown
<1>4. \A i \in Range(next) :
        /\ i \in Item /\ cache[i] # Gone /\ IndexIn(next, i) \in 0 .. Cardinality(Item) - 1
  BY <1>3, OrderTyped
<1>. HIDE DEF next
<1>5. \A i \in Range(next) :
        /\ MovedRow(next, i) \in Row /\ MovedRow(next, i).version = cache[i].version
        /\ MovedRow(next, i).price = cache[i].price
        /\ i \notin ChangedBy(next) => MovedRow(next, i) = cache[i]
  <2>. SUFFICES ASSUME NEW i \in Range(next)
                PROVE  /\ MovedRow(next, i) \in Row
                       /\ MovedRow(next, i).version = cache[i].version
                       /\ MovedRow(next, i).price = cache[i].price
                       /\ i \notin ChangedBy(next) => MovedRow(next, i) = cache[i]
    OBVIOUS
  <2>1. cache[i] \in Row /\ IndexIn(next, i) \in 0 .. Cardinality(Item) - 1
    BY <1>3, <1>4 DEF Rows
  <2>2. i \notin ChangedBy(next) => cache[i].pos = IndexIn(next, i)
    BY DEF ChangedBy
  <2>. QED
    BY <2>1, <2>2 DEF MovedRow, Row
<1>6. ChangedBy(next) \subseteq Range(next)
  BY DEF ChangedBy
<1>7. /\ calls \in [Item -> Call \cup {None}] /\ Called(calls) = ChangedBy(next)
      /\ \A i \in ChangedBy(next) : calls[i].body = MovedRow(next, i) /\ calls[i].reply = Waiting
  <2>1. \A i \in ChangedBy(next) : i \in Item /\ MovedRow(next, i) \in Row
    BY <1>4, <1>5, <1>6
  <2>. QED
    BY <2>1, PutTyped DEF Called
<1>8. /\ optimistic \in Rows
      /\ \A i \in ChangedBy(next) : optimistic[i] = MovedRow(next, i)
      /\ \A i \in Item \ ChangedBy(next) : optimistic[i] \in {cache[i], Gone}
  <2>1. optimistic \in Rows
    BY <1>5 DEF Rows
  <2>. QED
    BY <1>4, <1>5, <1>6, <2>1
<1>9. /\ editing' = None /\ conflicts' = conflicts
      /\ UNCHANGED <<server, place, visits, otherWrites>>
  BY <1>3 DEF Move, editor
<1>10. conflicts' \in [Item -> Row \cup {None, Gone}]
  BY <1>9 DEF EditorInv, EditorTypeOK
<1>. HIDE DEF calls, optimistic
<1>11. \A i \in Called(calls) :
         /\ calls[i].reply = Waiting /\ optimistic[i] = calls[i].body
         /\ cache[i] # Gone /\ calls[i].body.version = cache[i].version
         /\ calls[i].body.price = cache[i].price
  BY <1>4, <1>5, <1>6, <1>7, <1>8
<1>12. \A i \in Item \ Called(calls) : optimistic[i] \in {cache[i], Gone}
  BY <1>7, <1>8
<1>13. "reorder" # "update" /\ "reorder" \in {"update", "reorder"}
  OBVIOUS
<1>14. \A i \in Item : conflicts'[i] \in {None, conflicts[i]}
  BY <1>9
<1>15. \A i \in Called(calls) :
         /\ calls[i].reply = Waiting /\ optimistic[i] = calls[i].body
         /\ cache[i] # Gone /\ calls[i].body.version = cache[i].version
         /\ IF "reorder" = "update" THEN calls[i].body.pos = cache[i].pos
                                    ELSE calls[i].body.price = cache[i].price
  BY <1>11, <1>13
<1>16. calls \in [Item -> Call \cup {None}] /\ optimistic \in Rows
  BY <1>7, <1>8
<1>17. "reorder" = "update" => \A i, j \in Called(calls) : i = j
  BY <1>13
<1>18. Edits("reorder", calls, optimistic)
  BY <1>12, <1>15, <1>17 DEF Edits
<1>. QED
  BY <1>2, <1>3, <1>9, <1>10, <1>13, <1>14, <1>16, <1>18, MutateKeeps

-----------------------------------------------------------------------------
(* menu-service writes a row by raising its version, and deletes for good. *)
Advanced(old, new) ==
    \A i \in Item : new[i] = old[i] \/ new[i] = Gone
                    \/ (old[i] # Gone /\ new[i].version = old[i].version + 1)

LEMMA GenuineKept ==
  ASSUME NEW old \in Rows, NEW new \in Rows, Advanced(old, new),
         NEW i \in Item, NEW r \in Row \cup {Gone}, Genuine(old, i, r)
  PROVE  Genuine(new, i, r)
<1>. SUFFICES ASSUME r # Gone, new[i] # Gone, new[i] # old[i]
              PROVE  r.version < new[i].version
  BY DEF Genuine
<1>1. old[i] # Gone /\ new[i].version = old[i].version + 1
  BY DEF Advanced
<1>2. r \in Row /\ old[i] \in Row
  BY <1>1 DEF Rows
<1>3. r.version \in Nat /\ old[i].version \in Nat
  BY <1>2 DEF Row
<1>4. r.version < old[i].version \/ r = old[i]
  BY <1>1 DEF Genuine
<1>. QED
  BY <1>1, <1>3, <1>4

LEMMA WrittenTyped ==
  ASSUME NEW body \in Row
  PROVE  /\ Written(body) \in Row /\ Written(body).version = body.version + 1
         /\ Written(body).price = body.price /\ Written(body).pos = body.pos
BY DEF Written, Row

(* Copies that were genuine stay so while the server advances.             *)
LEMMA CopiesKept ==
  ASSUME EditorInv, server' \in Rows, Advanced(server, server'), UNCHANGED <<query, conflicts>>
  PROVE  /\ fetch'.state = "answered" => \A i \in Item : Genuine(server', i, fetch'.rows[i])
         /\ \A i \in Item : conflicts'[i] # None => Genuine(server', i, conflicts'[i])
         /\ cache # Loading =>
              \A i \in Item : Genuine(server, i, cache[i]) => Genuine(server', i, cache[i])
         /\ \A m \in Mutation : mutation[m].previous \in Rows =>
              \A i \in Item : Genuine(server, i, mutation[m].previous[i])
                                => Genuine(server', i, mutation[m].previous[i])
         /\ \A m \in Mutation : \A i \in Called(mutation[m].calls) :
              mutation[m].calls[i].reply.kind \in {"ok", "conflict"} =>
                  Genuine(server', i, mutation[m].calls[i].reply.row)
<1>. USE DEF query
<1>0. server \in Rows
  BY DEF EditorInv, EditorTypeOK
<1>1. fetch'.state = "answered" => \A i \in Item : Genuine(server', i, fetch'.rows[i])
  <2>. SUFFICES ASSUME fetch.state = "answered", NEW i \in Item
                PROVE  Genuine(server', i, fetch.rows[i])
    OBVIOUS
  <2>1. fetch.rows \in Rows
    BY DEF EditorInv, EditorTypeOK, NoFetch, Sent
  <2>2. fetch.rows[i] \in Row \cup {Gone} /\ Genuine(server, i, fetch.rows[i])
    BY <2>1 DEF Rows, EditorInv, AnswersInv
  <2>. QED
    BY <1>0, <2>2, GenuineKept
<1>2. \A i \in Item : conflicts'[i] # None => Genuine(server', i, conflicts'[i])
  <2>. SUFFICES ASSUME NEW i \in Item, conflicts[i] # None PROVE Genuine(server', i, conflicts[i])
    OBVIOUS
  <2>1. conflicts[i] \in Row \cup {Gone} /\ Genuine(server, i, conflicts[i])
    BY DEF EditorInv, EditorTypeOK, AnswersInv
  <2>. QED
    BY <1>0, <2>1, GenuineKept
<1>3. \A rows \in Rows, i \in Item : Genuine(server, i, rows[i]) => Genuine(server', i, rows[i])
  <2>. SUFFICES ASSUME NEW rows \in Rows, NEW i \in Item, Genuine(server, i, rows[i])
                PROVE  Genuine(server', i, rows[i])
    OBVIOUS
  <2>1. rows[i] \in Row \cup {Gone}
    BY DEF Rows
  <2>. QED
    BY <1>0, <2>1, GenuineKept
<1>4. cache # Loading => cache \in Rows
  BY DEF EditorInv, EditorTypeOK
<1>5. ASSUME NEW m \in Mutation, NEW i \in Called(mutation[m].calls),
             mutation[m].calls[i].reply.kind \in {"ok", "conflict"}
      PROVE  Genuine(server', i, mutation[m].calls[i].reply.row)
  <2>1. i \in Item /\ mutation[m].calls[i] \in Call
    BY DEF Called, EditorInv, EditorTypeOK, MutationState
  <2>2. mutation[m].calls[i].reply.row \in Row \cup {Gone}
    BY <1>5, <2>1 DEF Call, Reply
  <2>3. Genuine(server, i, mutation[m].calls[i].reply.row)
    BY <1>5 DEF EditorInv, AnswersInv
  <2>. QED
    BY <1>0, <2>1, <2>2, <2>3, GenuineKept
<1>. QED
  BY <1>1, <1>2, <1>3, <1>4, <1>5

LEMMA OtherKeeps ==
  ASSUME EditorInv, NEW i \in Item, OtherEdit(i)
  PROVE  EditorInv'
<1>0. /\ server \in Rows /\ server[i] \in Row /\ otherWrites' = otherWrites + 1
      /\ otherWrites \in 0 .. MaxOtherWrites /\ otherWrites < MaxOtherWrites
      /\ UNCHANGED <<query, cache, failed, fetch, mutation, foreign, place, visits, editing,
                     conflicts, overlapped, strayed>>
  BY DEF EditorInv, EditorTypeOK, OtherEdit, Rows, query, editor
<1>1. server' \in Rows /\ Advanced(server, server')
  <2>1. CASE server' = [server EXCEPT ![i] = Gone]
    BY <1>0, <2>1 DEF Rows, Advanced
  <2>2. ASSUME NEW p \in Price,
               server' = [server EXCEPT ![i] = Written([server[i] EXCEPT !.price = p])]
        PROVE  server' \in Rows /\ Advanced(server, server')
    <3>1. /\ [server[i] EXCEPT !.price = p] \in Row
          /\ [server[i] EXCEPT !.price = p].version = server[i].version
      BY <1>0 DEF Row
    <3>2. /\ Written([server[i] EXCEPT !.price = p]) \in Row
          /\ Written([server[i] EXCEPT !.price = p]).version = server[i].version + 1
      BY <3>1, WrittenTyped
    <3>. QED
      BY <1>0, <2>2, <3>2 DEF Rows, Advanced
  <2>. QED
    BY <1>0, <2>1, <2>2 DEF OtherEdit
<1>2. EditorTypeOK'
  BY <1>0, <1>1 DEF EditorInv, EditorTypeOK
<1>3. AnswersInv'
  BY <1>0, <1>1, CopiesKept DEF AnswersInv
<1>4. \A m \in Mutation : Pending(m)' <=> Pending(m)
  BY <1>0 DEF Pending
<1>5. \A m \in Mutation : mutation[m].since \in Nat
  BY DEF EditorInv, EditorTypeOK, MutationState
<1>6. PendingInv' /\ OneInv' /\ EditingInv'
  BY <1>0, <1>4, <1>5 DEF EditorInv, PendingInv, OneInv, EditingInv
<1>7. PreviousInv'
  BY <1>0, <1>1, <1>4, CopiesKept DEF EditorInv, PreviousInv, PendingInv, Sound, Trusted
<1>8. CacheInv'
  <2>. SUFFICES ASSUME Trusted, cache # Loading, NEW j \in Item
                PROVE  Genuine(server', j, cache[j]) \/ Optimistic(j)'
    BY <1>0 DEF CacheInv, Trusted
  <2>1. CASE Genuine(server, j, cache[j])
    BY <1>0, <1>1, <2>1, CopiesKept
  <2>2. CASE Optimistic(j)
    BY <1>0, <1>4, <2>2 DEF Optimistic
  <2>. QED
    BY <2>1, <2>2 DEF EditorInv, CacheInv
<1>9. UndoInv'
  <2>1. \A m \in Mutation : Pending(m)' => mutation'[m].since # otherWrites'
    BY <1>0, <1>4, <1>5 DEF EditorInv, PendingInv
  <2>. QED
    BY <2>1 DEF UndoInv
<1>. QED
  BY <1>2, <1>3, <1>6, <1>7, <1>8, <1>9 DEF EditorInv

-----------------------------------------------------------------------------
(* A mutation ends with a list whose rows are genuine.                     *)
LEMMA EndKeeps ==
  ASSUME EditorInv, NEW m \in Mutation, Pending(m),
         mutation' = [mutation EXCEPT ![m] = Ended],
         cache' \in Rows, failed' \in BOOLEAN, fetch' \in {fetch, Sent},
         conflicts' \in [Item -> Row \cup {None, Gone}],
         \A i \in Item : conflicts'[i] = conflicts[i] \/ Genuine(server, i, conflicts'[i]),
         editing' \in {editing, None}, editing' # None => cache'[editing'] # Gone,
         UNCHANGED <<server, foreign, place, visits, otherWrites, overlapped>>,
         strayed' \in {strayed, TRUE}, Trusted' => \A i \in Item : Genuine(server, i, cache'[i])
  PROVE  EditorInv'
<1>1. Ended \in MutationState /\ Ended.phase = "settled" /\ Called(Ended.calls) = {}
  BY IdleTyped
<1>2. mutation'[m] = Ended /\ \A n \in Mutation \ {m} : mutation'[n] = mutation[n]
  BY DEF EditorInv, EditorTypeOK
<1>3. ~Pending(m)' /\ \A n \in Mutation \ {m} : Pending(n)' <=> Pending(n)
  BY <1>1, <1>2 DEF Pending
<1>4. EditorTypeOK'
  BY <1>1 DEF EditorInv, EditorTypeOK
<1>5. AnswersInv'
  <2>1. fetch'.state = "answered" => fetch' = fetch
    BY DEF Sent
  <2>2. \A i \in Item : conflicts'[i] # None => Genuine(server, i, conflicts'[i])
    BY DEF EditorInv, AnswersInv
  <2>3. \A n \in Mutation : \A i \in Called(mutation'[n].calls) :
          mutation'[n].calls[i].reply.kind \in {"ok", "conflict"} =>
              Genuine(server, i, mutation'[n].calls[i].reply.row)
    BY <1>1, <1>2 DEF EditorInv, AnswersInv
  <2>. QED
    BY <2>1, <2>2, <2>3 DEF EditorInv, AnswersInv
<1>6. PendingInv'
  BY <1>2, <1>3 DEF EditorInv, PendingInv
<1>7. EditingInv'
  BY DEF EditingInv
<1>8. ~overlapped => \A n \in Mutation : ~Pending(n)'
  BY <1>3 DEF EditorInv, OneInv
<1>9. OneInv' /\ PreviousInv' /\ UndoInv' /\ CacheInv'
  BY <1>8 DEF OneInv, PreviousInv, UndoInv, CacheInv, Trusted
<1>. QED
  BY <1>4, <1>5, <1>6, <1>7, <1>9 DEF EditorInv

(* The row that the server returned takes the place of the edited one.     *)
LEMMA UpdateSucceedsKeeps ==
  ASSUME EditorInv, NEW m \in Mutation, UpdateSucceeds(m)
  PROVE  EditorInv'
<1>1. PICK i \in Succeeded(mutation[m].calls) :
        IF ~mutation[m].home \/ cache[i] = Gone
          THEN UNCHANGED <<cache, failed>>
          ELSE SetItems([cache EXCEPT ![i] = mutation[m].calls[i].reply.row])
  BY DEF UpdateSucceeds
<1>2. Pending(m) /\ mutation[m].kind = "update"
  BY DEF UpdateSucceeds, Pending
<1>3. /\ i \in Item /\ i \in Called(mutation[m].calls) /\ mutation[m].calls[i] \in Call
      /\ mutation[m].calls[i].reply.kind = "ok"
  BY DEF Succeeded, Called, EditorInv, EditorTypeOK, MutationState
<1>4. mutation[m].calls[i].reply.row \in Row
  BY <1>3 DEF Call, Reply
<1>5. Genuine(server, i, mutation[m].calls[i].reply.row)
  BY <1>3 DEF EditorInv, AnswersInv
<1>6. cache \in Rows /\ \A j \in Called(mutation[m].calls) : j = i
  BY <1>2, <1>3 DEF EditorInv, PendingInv, Sound
<1>7. /\ cache' \in Rows /\ failed' \in BOOLEAN
      /\ \/ cache' = cache
         \/ cache' = [cache EXCEPT ![i] = mutation[m].calls[i].reply.row]
  BY <1>1, <1>4, <1>6 DEF SetItems, Rows, EditorInv, EditorTypeOK
<1>8. Trusted => \A j \in Item : Genuine(server, j, cache'[j])
  <2>. SUFFICES ASSUME Trusted, NEW j \in Item PROVE Genuine(server, j, cache'[j])
    OBVIOUS
  <2>1. cache'[j] = cache[j] \/ (j = i /\ cache'[j] = mutation[m].calls[i].reply.row)
    BY <1>6, <1>7 DEF Rows
  <2>2. ~Optimistic(j)
    BY <1>2, <1>3, <1>6 DEF Optimistic, EditorInv, OneInv, Trusted
  <2>3. Genuine(server, j, cache[j])
    BY <1>6, <2>2 DEF EditorInv, CacheInv
  <2>. QED
    BY <1>5, <2>1, <2>3
<1>9. editing' # None => cache'[editing'] # Gone
  <2>. SUFFICES ASSUME editing # None PROVE cache'[editing] # Gone
    BY DEF UpdateSucceeds, editor
  <2>1. editing \in Item /\ cache[editing] # Gone
    BY DEF EditorInv, EditorTypeOK, EditingInv
  <2>. QED
    BY <1>4, <1>6, <1>7, <2>1 DEF Rows
<1>10. /\ mutation' = [mutation EXCEPT ![m] = Ended]
       /\ UNCHANGED <<server, fetch, foreign, place, visits, editing, conflicts, otherWrites,
                      overlapped, strayed>>
  BY DEF UpdateSucceeds, editor
<1>11. conflicts' \in [Item -> Row \cup {None, Gone}]
  BY <1>10 DEF EditorInv, EditorTypeOK
<1>12. Trusted' => \A j \in Item : Genuine(server, j, cache'[j])
  BY <1>8, <1>10 DEF Trusted
<1>. QED
  BY <1>2, <1>7, <1>9, <1>10, <1>11, <1>12, EndKeeps

(* The list goes back to what it was, which was genuine, or the rollback   *)
(* went elsewhere.                                                         *)
LEMMA RolledBack ==
  ASSUME EditorInv, NEW m \in Mutation, Pending(m), RollBack(m), CloseInputs,
         UNCHANGED <<server, overlapped>>
  PROVE  /\ cache' \in Rows /\ failed' \in BOOLEAN /\ strayed' \in {strayed, TRUE}
         /\ editing' \in {editing, None} /\ (editing' # None => cache'[editing'] # Gone)
         /\ Trusted' => \A i \in Item : Genuine(server, i, cache'[i])
<1>1. \/ cache' = mutation[m].previous /\ failed' = FALSE /\ strayed' = strayed
      \/ cache' = cache /\ failed' = failed /\ strayed' = TRUE
  BY DEF RollBack, SetItems
<1>2. mutation[m].previous \in Rows /\ cache \in Rows /\ failed \in BOOLEAN
  BY DEF EditorInv, PendingInv, Sound, EditorTypeOK
<1>3. Trusted' => \A i \in Item : Genuine(server, i, cache'[i])
  BY <1>1 DEF EditorInv, PreviousInv, Trusted
<1>4. editing' \in {editing, None} /\ (editing' # None => cache'[editing'] # Gone)
  BY DEF CloseInputs
<1>. QED
  BY <1>1, <1>2, <1>3, <1>4

LEMMA UpdateFailsKeeps ==
  ASSUME EditorInv, NEW m \in Mutation, UpdateFails(m)
  PROVE  EditorInv'
<1>1. PICK i \in Failed(mutation[m].calls) :
        conflicts' = IF mutation[m].calls[i].reply.kind = "conflict" /\ mutation[m].here
                       THEN [conflicts EXCEPT ![i] = mutation[m].calls[i].reply.row] ELSE conflicts
  BY DEF UpdateFails
<1>2. Pending(m) /\ RollBack(m) /\ CloseInputs
  BY DEF UpdateFails, Pending
<1>3. i \in Item /\ i \in Called(mutation[m].calls) /\ mutation[m].calls[i] \in Call
  BY DEF Failed, Called, EditorInv, EditorTypeOK, MutationState
<1>4. mutation[m].calls[i].reply.kind = "conflict" =>
        /\ mutation[m].calls[i].reply.row \in Row \cup {Gone}
        /\ Genuine(server, i, mutation[m].calls[i].reply.row)
  BY <1>3 DEF Call, Reply, EditorInv, AnswersInv
<1>5. /\ conflicts' \in [Item -> Row \cup {None, Gone}]
      /\ \A j \in Item : conflicts'[j] = conflicts[j] \/ Genuine(server, j, conflicts'[j])
  BY <1>1, <1>3, <1>4 DEF EditorInv, EditorTypeOK
<1>6. /\ mutation' = [mutation EXCEPT ![m] = Ended]
      /\ UNCHANGED <<server, fetch, foreign, place, visits, otherWrites, overlapped>>
  BY DEF UpdateFails
<1>. QED
  BY <1>2, <1>5, <1>6, RolledBack, EndKeeps

LEMMA ReorderFailsKeeps ==
  ASSUME EditorInv, NEW m \in Mutation, ReorderFails(m)
  PROVE  EditorInv'
<1>1. Pending(m) /\ RollBack(m) /\ CloseInputs /\ fetch' \in {fetch, Sent}
  BY DEF ReorderFails, Pending, Settled, Invalidate
<1>2. /\ mutation' = [mutation EXCEPT ![m] = Ended]
      /\ UNCHANGED <<server, foreign, place, visits, conflicts, otherWrites, overlapped>>
  BY DEF ReorderFails
<1>3. conflicts' \in [Item -> Row \cup {None, Gone}]
  BY <1>2 DEF EditorInv, EditorTypeOK
<1>. QED
  BY <1>1, <1>2, <1>3, RolledBack, EndKeeps

(* When all PUTs have succeeded no row of the cache is optimistic.         *)
LEMMA ReorderSucceedsKeeps ==
  ASSUME EditorInv, NEW m \in Mutation, ReorderSucceeds(m)
  PROVE  EditorInv'
<1>1. Pending(m) /\ fetch' \in {fetch, Sent} /\ Failed(mutation[m].calls) = {}
  BY DEF ReorderSucceeds, Pending, Settled, Invalidate
<1>2. /\ mutation' = [mutation EXCEPT ![m] = Ended]
      /\ UNCHANGED <<server, cache, failed, foreign, place, visits, editing, conflicts, otherWrites,
                     overlapped, strayed>>
  BY DEF ReorderSucceeds, editor
<1>3. conflicts' \in [Item -> Row \cup {None, Gone}] /\ failed' \in BOOLEAN
  BY <1>2 DEF EditorInv, EditorTypeOK
<1>4. cache' \in Rows
  BY <1>1, <1>2 DEF EditorInv, PendingInv
<1>5. \A i \in Called(mutation[m].calls) : mutation[m].calls[i].reply.kind = "ok"
  BY <1>1 DEF Failed, Succeeded
<1>6. Trusted' => \A i \in Item : Genuine(server, i, cache'[i])
  <2>. SUFFICES ASSUME Trusted, NEW i \in Item PROVE Genuine(server, i, cache[i])
    BY <1>2 DEF Trusted
  <2>1. ~Optimistic(i)
    BY <1>1, <1>5 DEF Optimistic, EditorInv, OneInv, Trusted
  <2>. QED
    BY <1>2, <1>4, <2>1 DEF EditorInv, CacheInv
<1>7. editing' # None => cache'[editing'] # Gone
  BY <1>2 DEF EditorInv, EditingInv
<1>. QED
  BY <1>1, <1>2, <1>3, <1>4, <1>6, <1>7, EndKeeps

-----------------------------------------------------------------------------
(* A reorder of which some PUT failed turns to undoing the others.         *)
LEMMA CompensateKeeps ==
  ASSUME EditorInv, NEW m \in Mutation, Compensate(m)
  PROVE  EditorInv'
<1>. DEFINE calls == mutation[m].calls
            undo == [i \in Item |-> IF i \in Succeeded(calls) THEN UndoOf(m, i) ELSE None]
            now == [mutation[m] EXCEPT !.phase = "undoing", !.undo = undo]
<1>1. /\ mutation[m] \in MutationState /\ calls \in [Item -> Call \cup {None}]
      /\ Pending(m) /\ mutation[m].phase = "running" /\ mutation[m].kind = "reorder"
      /\ Sound(mutation[m])
      /\ UNCHANGED <<server, cache, failed, fetch, foreign, place, visits, editing, conflicts,
                     otherWrites, overlapped, strayed>>
  BY DEF EditorInv, EditorTypeOK, MutationState, Compensate, Pending, PendingInv, query, editor
<1>2. \A i \in Succeeded(calls) :
        /\ i \in Called(calls) /\ i \in Item
        /\ UndoOf(m, i) \in Call /\ UndoOf(m, i) # None /\ UndoOf(m, i).reply = Waiting
        /\ UndoOf(m, i).body = [calls[i].reply.row EXCEPT !.pos = mutation[m].previous[i].pos]
  <2>. SUFFICES ASSUME NEW i \in Succeeded(calls)
                PROVE  /\ i \in Called(calls) /\ i \in Item
                       /\ UndoOf(m, i) \in Call /\ UndoOf(m, i) # None
                       /\ UndoOf(m, i).reply = Waiting
                       /\ UndoOf(m, i).body =
                            [calls[i].reply.row EXCEPT !.pos = mutation[m].previous[i].pos]
    OBVIOUS
  <2>1. i \in Called(calls) /\ i \in Item /\ calls[i] \in Call /\ calls[i].reply.kind = "ok"
    BY <1>1 DEF Succeeded, Called
  <2>2. calls[i].reply.row \in Row
    BY <2>1 DEF Call, Reply
  <2>3. mutation[m].previous[i] \in Row
    BY <1>1, <2>1 DEF Sound, Rows
  <2>4. [calls[i].reply.row EXCEPT !.pos = mutation[m].previous[i].pos] \in Row
    BY <2>2, <2>3 DEF Row
  <2>. QED
    BY <2>1, <2>4, PutTyped DEF UndoOf
<1>3. undo \in [Item -> Call \cup {None}]
  BY <1>2
<1>4. mutation' = [mutation EXCEPT ![m] = now]
  BY <1>1 DEF Compensate, EditorInv, EditorTypeOK
<1>. HIDE DEF undo
<1>5. /\ now \in MutationState /\ now.phase = "undoing" /\ now.undo = undo /\ now.calls = calls
      /\ now.kind = "reorder" /\ now.previous = mutation[m].previous
      /\ now.since = mutation[m].since
  BY <1>1, <1>3 DEF MutationState
<1>. HIDE DEF now
<1>6. mutation'[m] = now /\ \A n \in Mutation \ {m} : mutation'[n] = mutation[n]
  BY <1>4 DEF EditorInv, EditorTypeOK
<1>7. \A n \in Mutation : Pending(n)' <=> Pending(n)
  BY <1>1, <1>5, <1>6 DEF Pending
<1>8. \A n \in Mutation :
        /\ mutation'[n].calls = mutation[n].calls /\ mutation'[n].since = mutation[n].since
        /\ mutation'[n].previous = mutation[n].previous
  BY <1>5, <1>6
<1>9. EditorTypeOK'
  BY <1>1, <1>4, <1>5 DEF EditorInv, EditorTypeOK
<1>10. AnswersInv'
  BY <1>1, <1>8 DEF EditorInv, AnswersInv
<1>11. PendingInv'
  <2>1. Sound(now)
    BY <1>1, <1>5 DEF Sound
  <2>2. \A n \in Mutation : Pending(n) => Sound(mutation'[n])
    BY <1>6, <2>1 DEF EditorInv, PendingInv
  <2>. QED
    BY <1>1, <1>7, <1>8, <2>2 DEF EditorInv, PendingInv
<1>12. EditingInv' /\ OneInv' /\ PreviousInv'
  BY <1>1, <1>7, <1>8 DEF EditorInv, EditingInv, OneInv, PreviousInv, Trusted
<1>13. CacheInv'
  <2>1. \A i \in Item : Optimistic(i) => Optimistic(i)'
    BY <1>1, <1>7, <1>8 DEF Optimistic
  <2>. QED
    BY <1>1, <2>1 DEF EditorInv, CacheInv, Trusted
<1>14. UndoInv'
  <2>. SUFFICES ASSUME NEW n \in Mutation, Pending(n)', ~overlapped',
                       mutation'[n].since = otherWrites', NEW i \in Succeeded(mutation'[n].calls)
                PROVE  LET row == mutation'[n].calls[i].reply.row
                           u == mutation'[n].undo[i]
                       IN  /\ mutation'[n].phase = "running" => server'[i] = row
                           /\ mutation'[n].phase = "undoing" =>
                                 /\ u # None
                                 /\ u.body = [row EXCEPT !.pos = mutation'[n].previous[i].pos]
                                 /\ u.reply.kind \in {"waiting", "ok", "lost"}
                                 /\ u.reply.kind = "waiting" => server'[i] = row
                                 /\ u.reply.kind = "ok" =>
                                       server'[i].pos = mutation'[n].previous[i].pos
    BY DEF UndoInv
  <2>1. n = m
    BY <1>1, <1>7 DEF EditorInv, OneInv
  <2>2. i \in Succeeded(calls) /\ i \in Item
    BY <1>2, <1>8, <2>1
  <2>3. server[i] = calls[i].reply.row
    <3>1. ~overlapped /\ mutation[m].since = otherWrites
      BY <1>1, <1>8, <2>1
    <3>. QED
      BY <1>1, <2>2, <3>1 DEF EditorInv, UndoInv
  <2>4. undo[i] = UndoOf(m, i)
    BY <2>2 DEF undo
  <2>5. undo[i].reply.kind = "waiting"
    <3>1. undo[i].reply = Waiting
      BY <1>2, <2>2, <2>4
    <3>. QED
      BY <3>1 DEF Waiting
  <2>. QED
    BY <1>1, <1>2, <1>5, <1>6, <2>1, <2>2, <2>3, <2>4, <2>5
<1>. QED
  BY <1>9, <1>10, <1>11, <1>12, <1>13, <1>14 DEF EditorInv

-----------------------------------------------------------------------------
(* What menu-service makes of a PUT, and what the browser learns of it.    *)
Outcome(i, body, r) ==
    \/ /\ Accepted(i, body) /\ server' = [server EXCEPT ![i] = Written(body)]
       /\ r = [kind |-> "ok", row |-> Written(body)] \/ r.kind = "lost"
    \/ /\ ~Accepted(i, body) /\ UNCHANGED server
       /\ r \in Refusals(i)
    \/ UNCHANGED server /\ r.kind = "lost"

LEMMA ServeOutcome ==
  ASSUME EditorInv, NEW m \in Mutation, NEW i \in Item, NEW field \in {"calls", "undo"},
         Serve(m, field, i)
  PROVE  LET call == mutation[m][field][i] IN
         /\ call \in Call /\ call # None /\ call.reply = Waiting
         /\ \E r \in Reply : /\ mutation' = [mutation EXCEPT ![m][field][i].reply = r]
                             /\ Outcome(i, call.body, r)
         /\ UNCHANGED <<query, foreign, editor, otherWrites, overlapped, strayed>>
<1>. DEFINE call == mutation[m][field][i]
<1>1. call \in Call /\ call # None /\ call.reply = Waiting /\ call.body \in Row
  BY DEF Serve, EditorInv, EditorTypeOK, MutationState, Call
<1>2. /\ [kind |-> "lost"] \in Reply /\ [kind |-> "lost"].kind = "lost"
      /\ [kind |-> "ok", row |-> Written(call.body)] \in Reply
      /\ Refusals(i) \subseteq Reply
  <2>1. Written(call.body) \in Row
    BY <1>1, WrittenTyped
  <2>2. server[i] \in Row \cup {Gone}
    BY DEF EditorInv, EditorTypeOK, Rows
  <2>. QED
    BY <2>1, <2>2 DEF Refusals, Reply
<1>3. \E r \in Reply : /\ mutation' = [mutation EXCEPT ![m][field][i].reply = r]
                       /\ Outcome(i, call.body, r)
  BY <1>2 DEF Serve, Outcome
<1>. QED
  BY <1>1, <1>3 DEF Serve

(* Only the reply of one PUT changes.                                      *)
LEMMA PutAnswered ==
  ASSUME EditorInv, NEW m \in Mutation, NEW i \in Item, ServePut(m, i)
  PROVE  /\ mutation[m].calls[i] \in Call /\ mutation[m].calls[i] # None
         /\ UNCHANGED <<query, foreign, editor, otherWrites, overlapped, strayed>>
         /\ mutation' \in [Mutation -> MutationState]
         /\ \A n \in Mutation \ {m} : mutation'[n] = mutation[n]
         /\ mutation'[m].phase = mutation[m].phase /\ mutation'[m].kind = mutation[m].kind
         /\ mutation'[m].previous = mutation[m].previous
         /\ mutation'[m].undo = mutation[m].undo /\ mutation'[m].since = mutation[m].since
         /\ Called(mutation'[m].calls) = Called(mutation[m].calls)
         /\ i \in Called(mutation[m].calls)
         /\ mutation'[m].calls[i].body = mutation[m].calls[i].body
         /\ mutation'[m].calls[i].reply \in Reply
         /\ Outcome(i, mutation[m].calls[i].body, mutation'[m].calls[i].reply)
         /\ \A j \in Item \ {i} : mutation'[m].calls[j] = mutation[m].calls[j]
<1>0. /\ mutation[m].calls[i] \in Call /\ mutation[m].calls[i] # None
      /\ UNCHANGED <<query, foreign, editor, otherWrites, overlapped, strayed>>
  BY ServeOutcome DEF ServePut
<1>1. PICK r \in Reply : /\ mutation' = [mutation EXCEPT ![m].calls[i].reply = r]
                         /\ Outcome(i, mutation[m].calls[i].body, r)
  BY ServeOutcome DEF ServePut
<1>. DEFINE call == [mutation[m].calls[i] EXCEPT !.reply = r]
            calls == [mutation[m].calls EXCEPT ![i] = call]
            now == [mutation[m] EXCEPT !.calls = calls]
<1>2. /\ mutation[m] \in MutationState /\ mutation \in [Mutation -> MutationState]
      /\ mutation[m].calls \in [Item -> Call \cup {None}]
  BY DEF EditorInv, EditorTypeOK, MutationState
<1>3. call \in Call /\ call # None /\ call.body = mutation[m].calls[i].body /\ call.reply = r
  BY <1>0 DEF Call
<1>4. mutation' = [mutation EXCEPT ![m] = now]
  BY <1>1
<1>. HIDE DEF call
<1>5. /\ calls \in [Item -> Call \cup {None}] /\ calls[i] = call
      /\ \A j \in Item \ {i} : calls[j] = mutation[m].calls[j]
  BY <1>2, <1>3
<1>. HIDE DEF calls
<1>6. /\ now \in MutationState /\ now.calls = calls
      /\ now.phase = mutation[m].phase /\ now.kind = mutation[m].kind
      /\ now.previous = mutation[m].previous
      /\ now.undo = mutation[m].undo /\ now.since = mutation[m].since
  BY <1>2, <1>5 DEF MutationState
<1>. HIDE DEF now
<1>7. /\ mutation' \in [Mutation -> MutationState] /\ mutation'[m] = now
      /\ \A n \in Mutation \ {m} : mutation'[n] = mutation[n]
  BY <1>2, <1>4, <1>6
<1>8. Called(calls) = Called(mutation[m].calls) /\ i \in Called(mutation[m].calls)
  BY <1>0, <1>3, <1>5 DEF Called
<1>9. Outcome(i, mutation[m].calls[i].body, now.calls[i].reply)
  BY <1>1, <1>3, <1>5, <1>6
<1>. QED
  BY <1>0, <1>1, <1>3, <1>5, <1>6, <1>7, <1>8, <1>9

LEMMA UndoAnswered ==
  ASSUME EditorInv, NEW m \in Mutation, NEW i \in Item, ServeUndo(m, i)
  PROVE  /\ mutation[m].undo[i] \in Call /\ mutation[m].undo[i] # None
         /\ mutation[m].undo[i].reply = Waiting
         /\ UNCHANGED <<query, foreign, editor, otherWrites, overlapped, strayed>>
         /\ mutation' \in [Mutation -> MutationState]
         /\ \A n \in Mutation \ {m} : mutation'[n] = mutation[n]
         /\ mutation'[m].phase = mutation[m].phase /\ mutation'[m].kind = mutation[m].kind
         /\ mutation'[m].previous = mutation[m].previous
         /\ mutation'[m].calls = mutation[m].calls /\ mutation'[m].since = mutation[m].since
         /\ mutation'[m].undo[i] # None
         /\ mutation'[m].undo[i].body = mutation[m].undo[i].body
         /\ mutation'[m].undo[i].reply \in Reply
         /\ Outcome(i, mutation[m].undo[i].body, mutation'[m].undo[i].reply)
         /\ \A j \in Item \ {i} : mutation'[m].undo[j] = mutation[m].undo[j]
<1>0. /\ mutation[m].undo[i] \in Call /\ mutation[m].undo[i] # None
      /\ mutation[m].undo[i].reply = Waiting
      /\ UNCHANGED <<query, foreign, editor, otherWrites, overlapped, strayed>>
  BY ServeOutcome DEF ServeUndo
<1>1. PICK r \in Reply : /\ mutation' = [mutation EXCEPT ![m].undo[i].reply = r]
                         /\ Outcome(i, mutation[m].undo[i].body, r)
  BY ServeOutcome DEF ServeUndo
<1>. DEFINE call == [mutation[m].undo[i] EXCEPT !.reply = r]
            undo == [mutation[m].undo EXCEPT ![i] = call]
            now == [mutation[m] EXCEPT !.undo = undo]
<1>2. /\ mutation[m] \in MutationState /\ mutation \in [Mutation -> MutationState]
      /\ mutation[m].undo \in [Item -> Call \cup {None}]
  BY DEF EditorInv, EditorTypeOK, MutationState
<1>3. call \in Call /\ call # None /\ call.body = mutation[m].undo[i].body /\ call.reply = r
  BY <1>0 DEF Call
<1>4. mutation' = [mutation EXCEPT ![m] = now]
  BY <1>1
<1>. HIDE DEF call
<1>5. /\ undo \in [Item -> Call \cup {None}] /\ undo[i] = call
      /\ \A j \in Item \ {i} : undo[j] = mutation[m].undo[j]
  BY <1>2, <1>3
<1>. HIDE DEF undo
<1>6. /\ now \in MutationState /\ now.undo = undo
      /\ now.phase = mutation[m].phase /\ now.kind = mutation[m].kind
      /\ now.previous = mutation[m].previous
      /\ now.calls = mutation[m].calls /\ now.since = mutation[m].since
  BY <1>2, <1>5 DEF MutationState
<1>. HIDE DEF now
<1>7. /\ mutation' \in [Mutation -> MutationState] /\ mutation'[m] = now
      /\ \A n \in Mutation \ {m} : mutation'[n] = mutation[n]
  BY <1>2, <1>4, <1>6
<1>8. Outcome(i, mutation[m].undo[i].body, now.undo[i].reply)
  BY <1>1, <1>3, <1>5, <1>6
<1>. QED
  BY <1>0, <1>1, <1>3, <1>5, <1>6, <1>7, <1>8

(* However a PUT fares, the server's row advances, and what the browser is *)
(* told of it is the truth.                                                *)
LEMMA OutcomeAdvances ==
  ASSUME EditorInv, NEW i \in Item, NEW body \in Row, NEW r \in Reply, Outcome(i, body, r)
  PROVE  /\ server' \in Rows /\ Advanced(server, server')
         /\ r.kind # "waiting"
         /\ r.kind \in {"ok", "conflict"} => r.row \in Row \cup {Gone} /\ Genuine(server', i, r.row)
         /\ r.kind = "ok" => /\ server'[i] = r.row /\ r.row = Written(body)
                             /\ server[i] # Gone /\ server[i].version = body.version
         /\ server' = server \/ /\ Accepted(i, body)
                                /\ server' = [server EXCEPT ![i] = Written(body)]
<1>0. server \in Rows /\ Written(body) \in Row /\ Written(body).version = body.version + 1
  BY WrittenTyped DEF EditorInv, EditorTypeOK
<1>1. CASE Accepted(i, body) /\ server' = [server EXCEPT ![i] = Written(body)]
           /\ r = [kind |-> "ok", row |-> Written(body)]
  BY <1>0, <1>1 DEF Accepted, Advanced, Genuine, Rows
<1>2. CASE Accepted(i, body) /\ server' = [server EXCEPT ![i] = Written(body)]
           /\ r.kind = "lost"
  BY <1>0, <1>2 DEF Accepted, Advanced, Rows
<1>3. CASE UNCHANGED server /\ r \in Refusals(i)
  BY <1>0, <1>3 DEF Refusals, Advanced, Genuine, Rows
<1>4. CASE UNCHANGED server /\ r.kind = "lost"
  BY <1>0, <1>4 DEF Advanced
<1>. QED
  BY <1>1, <1>2, <1>3, <1>4 DEF Outcome

LEMMA ServePutKeeps ==
  ASSUME EditorInv, NEW m \in Mutation, NEW i \in Item, ServePut(m, i)
  PROVE  EditorInv'
<1>. DEFINE body == mutation[m].calls[i].body
            r == mutation'[m].calls[i].reply
<1>1. /\ Pending(m) /\ mutation[m].phase = "running" /\ body \in Row
      /\ UNCHANGED <<query, editor, cache, failed, fetch, foreign, place, visits, editing,
                     conflicts, otherWrites, overlapped, strayed>>
  BY PutAnswered DEF ServePut, Pending, Call, query, editor
<1>2. r \in Reply /\ Outcome(i, body, r)
  BY PutAnswered
<1>3. /\ mutation' \in [Mutation -> MutationState]
      /\ \A n \in Mutation \ {m} : mutation'[n] = mutation[n]
      /\ mutation'[m].phase = mutation[m].phase /\ mutation'[m].kind = mutation[m].kind
      /\ mutation'[m].previous = mutation[m].previous
      /\ mutation'[m].undo = mutation[m].undo /\ mutation'[m].since = mutation[m].since
      /\ Called(mutation'[m].calls) = Called(mutation[m].calls) /\ i \in Called(mutation[m].calls)
      /\ mutation'[m].calls[i].body = body /\ mutation'[m].calls[i].reply = r
      /\ \A j \in Item \ {i} : mutation'[m].calls[j] = mutation[m].calls[j]
  BY PutAnswered
<1>. HIDE DEF r
<1>4. /\ server' \in Rows /\ Advanced(server, server')
      /\ r.kind \in {"ok", "conflict"} => r.row \in Row \cup {Gone} /\ Genuine(server', i, r.row)
      /\ r.kind = "ok" => server'[i] = r.row /\ r.row = Written(body)
      /\ \A j \in Item \ {i} : server'[j] = server[j]
  BY <1>1, <1>2, OutcomeAdvances DEF EditorInv, EditorTypeOK, Rows
<1>. HIDE DEF body
<1>5. \A n \in Mutation : Pending(n)' <=> Pending(n)
  BY <1>3 DEF Pending
<1>6. \A n \in Mutation : Called(mutation'[n].calls) \subseteq Item
  BY DEF Called
<1>7. EditorTypeOK'
  BY <1>1, <1>3, <1>4 DEF EditorInv, EditorTypeOK
<1>8. AnswersInv'
  <2>1. ASSUME NEW n \in Mutation, NEW j \in Called(mutation'[n].calls),
               mutation'[n].calls[j].reply.kind \in {"ok", "conflict"}
        PROVE  Genuine(server', j, mutation'[n].calls[j].reply.row)
    <3>1. CASE n = m /\ j = i
      BY <1>3, <1>4, <2>1, <3>1
    <3>2. CASE n = m /\ j # i
      <4>1. mutation'[n].calls[j] = mutation[n].calls[j] /\ j \in Called(mutation[n].calls)
        BY <1>3, <1>6, <3>2
      <4>. QED
        BY <1>1, <1>4, <2>1, <4>1, CopiesKept
    <3>3. CASE n # m
      <4>1. mutation'[n] = mutation[n]
        BY <1>3, <3>3
      <4>. QED
        BY <1>1, <1>4, <2>1, <4>1, CopiesKept
    <3>. QED
      BY <3>1, <3>2, <3>3
  <2>. QED
    BY <1>1, <1>4, <2>1, CopiesKept DEF AnswersInv
<1>9. PendingInv'
  <2>. SUFFICES ASSUME NEW n \in Mutation, Pending(n)
                PROVE  cache \in Rows /\ mutation'[n].since <= otherWrites /\ Sound(mutation'[n])
    BY <1>1, <1>5 DEF PendingInv
  <2>1. cache \in Rows /\ mutation[n].since <= otherWrites /\ Sound(mutation[n])
    BY DEF EditorInv, PendingInv
  <2>2. CASE n = m
    <3>1. \A j \in Called(mutation[m].calls) :
            mutation'[m].calls[j].body = mutation[m].calls[j].body
      BY <1>3 DEF Called, body
    <3>2. Sound(mutation'[m])
      BY <1>3, <2>1, <2>2, <3>1 DEF Sound
    <3>. QED
      BY <1>3, <2>1, <2>2, <3>2
  <2>3. CASE n # m
    BY <1>3, <2>1, <2>3
  <2>. QED
    BY <2>2, <2>3
<1>10. EditingInv' /\ OneInv'
  BY <1>1, <1>5 DEF EditorInv, EditingInv, OneInv
<1>11. PreviousInv'
  <2>. SUFFICES ASSUME Trusted, NEW n \in Mutation, Pending(n), NEW j \in Item
                PROVE  Genuine(server', j, mutation'[n].previous[j])
    BY <1>1, <1>5 DEF PreviousInv, Trusted
  <2>1. mutation'[n].previous = mutation[n].previous
    BY <1>3
  <2>2. mutation[n].previous \in Rows /\ Genuine(server, j, mutation[n].previous[j])
    BY DEF EditorInv, PendingInv, Sound, PreviousInv
  <2>. QED
    BY <1>1, <1>4, <2>1, <2>2, CopiesKept
<1>12. CacheInv'
  <2>. SUFFICES ASSUME Trusted, cache # Loading, NEW j \in Item
                PROVE  Genuine(server', j, cache[j]) \/ Optimistic(j)'
    BY <1>1 DEF CacheInv, Trusted
  <2>1. CASE Genuine(server, j, cache[j])
    BY <1>1, <1>4, <2>1, CopiesKept
  <2>2. ASSUME NEW n \in Mutation, Pending(n), j \in Called(mutation[n].calls),
               cache[j] = mutation[n].calls[j].body, mutation[n].calls[j].reply.kind # "ok"
        PROVE  Genuine(server', j, cache[j]) \/ Optimistic(j)'
    <3>1. CASE n = m /\ j = i /\ r.kind = "ok"
      <4>1. cache[i] = body /\ server'[i] = Written(body)
        BY <1>4, <2>2, <3>1 DEF body
      <4>2. body.version \in Nat /\ Written(body).version = body.version + 1
        BY <1>1, WrittenTyped DEF Row
      <4>. QED
        BY <3>1, <4>1, <4>2 DEF Genuine
    <3>2. CASE n = m /\ j = i /\ r.kind # "ok"
      <4>1. cache[i] = body
        BY <2>2, <3>2 DEF body
      <4>. QED
        BY <1>1, <1>3, <1>5, <2>2, <3>2, <4>1 DEF Optimistic
    <3>3. CASE n = m /\ j # i
      BY <1>1, <1>3, <1>5, <2>2, <3>3 DEF Optimistic
    <3>4. CASE n # m
      BY <1>1, <1>3, <1>5, <2>2, <3>4 DEF Optimistic
    <3>. QED
      BY <3>1, <3>2, <3>3, <3>4
  <2>. QED
    BY <2>1, <2>2 DEF EditorInv, CacheInv, Optimistic
<1>13. UndoInv'
  <2>. SUFFICES ASSUME NEW n \in Mutation, Pending(n)', ~overlapped,
                       mutation'[n].since = otherWrites, NEW j \in Succeeded(mutation'[n].calls)
                PROVE  /\ mutation'[n].phase = "running"
                       /\ server'[j] = mutation'[n].calls[j].reply.row
    BY <1>1 DEF UndoInv
  <2>1. n = m /\ mutation'[m].phase = "running" /\ mutation[m].since = otherWrites
    BY <1>1, <1>3, <1>5 DEF EditorInv, OneInv
  <2>2. j \in Item /\ j \in Called(mutation[m].calls) /\ mutation'[m].calls[j].reply.kind = "ok"
    BY <1>3, <1>6, <2>1 DEF Succeeded
  <2>3. CASE j = i
    BY <1>3, <1>4, <2>1, <2>2, <2>3
  <2>4. CASE j # i
    <3>1. mutation'[m].calls[j] = mutation[m].calls[j] /\ server'[j] = server[j]
      BY <1>3, <1>4, <2>2, <2>4
    <3>2. j \in Succeeded(mutation[m].calls)
      BY <2>2, <3>1 DEF Succeeded
    <3>3. server[j] = mutation[m].calls[j].reply.row
      BY <1>1, <2>1, <3>2 DEF EditorInv, UndoInv
    <3>. QED
      BY <2>1, <3>1, <3>3
  <2>. QED
    BY <2>1, <2>3, <2>4
<1>. QED
  BY <1>7, <1>8, <1>9, <1>10, <1>11, <1>12, <1>13 DEF EditorInv

(* While nobody else writes a compensation meets the row it was made from. *)
LEMMA ServeUndoKeeps ==
  ASSUME EditorInv, NEW m \in Mutation, NEW i \in Item, ServeUndo(m, i)
  PROVE  EditorInv'
<1>. DEFINE body == mutation[m].undo[i].body
            r == mutation'[m].undo[i].reply
<1>1. /\ Pending(m) /\ mutation[m].phase = "undoing" /\ body \in Row
      /\ mutation[m].undo[i].reply = Waiting
      /\ UNCHANGED <<query, editor, cache, failed, fetch, foreign, place, visits, editing,
                     conflicts, otherWrites, overlapped, strayed>>
  BY UndoAnswered DEF ServeUndo, Pending, Call, query, editor
<1>2. r \in Reply /\ Outcome(i, body, r)
  BY UndoAnswered
<1>3. /\ mutation' \in [Mutation -> MutationState]
      /\ \A n \in Mutation \ {m} : mutation'[n] = mutation[n]
      /\ mutation'[m].phase = mutation[m].phase /\ mutation'[m].kind = mutation[m].kind
      /\ mutation'[m].previous = mutation[m].previous
      /\ mutation'[m].calls = mutation[m].calls /\ mutation'[m].since = mutation[m].since
      /\ mutation'[m].undo[i] # None
      /\ mutation'[m].undo[i].body = body /\ mutation'[m].undo[i].reply = r
      /\ \A j \in Item \ {i} : mutation'[m].undo[j] = mutation[m].undo[j]
  BY UndoAnswered
<1>. HIDE DEF r
<1>4. /\ server' \in Rows /\ Advanced(server, server')
      /\ r.kind = "ok" => server'[i] = Written(body)
      /\ Accepted(i, body) => r.kind \in {"ok", "lost"}
      /\ \A j \in Item \ {i} : server'[j] = server[j]
  <2>1. Accepted(i, body) => r.kind \in {"ok", "lost"}
    BY <1>2 DEF Outcome
  <2>. QED
    BY <1>1, <1>2, <2>1, OutcomeAdvances DEF EditorInv, EditorTypeOK, Rows
<1>. HIDE DEF body
<1>5. \A n \in Mutation :
        /\ Pending(n)' <=> Pending(n)
        /\ mutation'[n].calls = mutation[n].calls /\ mutation'[n].since = mutation[n].since
        /\ mutation'[n].previous = mutation[n].previous /\ mutation'[n].kind = mutation[n].kind
        /\ mutation'[n].phase = mutation[n].phase
  BY <1>3 DEF Pending
<1>6. EditorTypeOK'
  BY <1>1, <1>3, <1>4 DEF EditorInv, EditorTypeOK
<1>7. AnswersInv'
  BY <1>1, <1>4, <1>5, CopiesKept DEF AnswersInv
<1>8. PendingInv'
  <2>. SUFFICES ASSUME NEW n \in Mutation, Pending(n)
                PROVE  cache \in Rows /\ mutation'[n].since <= otherWrites /\ Sound(mutation'[n])
    BY <1>1, <1>5 DEF PendingInv
  <2>1. cache \in Rows /\ mutation[n].since <= otherWrites /\ Sound(mutation[n])
    BY DEF EditorInv, PendingInv
  <2>2. Sound(mutation'[n])
    BY <1>5, <2>1 DEF Sound
  <2>. QED
    BY <1>5, <2>1, <2>2
<1>9. EditingInv' /\ OneInv'
  BY <1>1, <1>5 DEF EditorInv, EditingInv, OneInv
<1>10. PreviousInv'
  <2>. SUFFICES ASSUME Trusted, NEW n \in Mutation, Pending(n), NEW j \in Item
                PROVE  Genuine(server', j, mutation'[n].previous[j])
    BY <1>1, <1>5 DEF PreviousInv, Trusted
  <2>1. mutation[n].previous \in Rows /\ Genuine(server, j, mutation[n].previous[j])
    BY DEF EditorInv, PendingInv, Sound, PreviousInv
  <2>. QED
    BY <1>1, <1>4, <1>5, <2>1, CopiesKept
<1>11. CacheInv'
  <2>. SUFFICES ASSUME Trusted, cache # Loading, NEW j \in Item
                PROVE  Genuine(server', j, cache[j]) \/ Optimistic(j)'
    BY <1>1 DEF CacheInv, Trusted
  <2>1. CASE Genuine(server, j, cache[j])
    BY <1>1, <1>4, <2>1, CopiesKept
  <2>2. CASE Optimistic(j)
    BY <1>1, <1>5, <2>2 DEF Optimistic
  <2>. QED
    BY <2>1, <2>2 DEF EditorInv, CacheInv
<1>12. UndoInv'
  <2>. SUFFICES ASSUME NEW n \in Mutation, Pending(n)', ~overlapped,
                       mutation'[n].since = otherWrites, NEW j \in Succeeded(mutation'[n].calls)
                PROVE  LET row == mutation'[n].calls[j].reply.row
                           undo == mutation'[n].undo[j]
                       IN  /\ mutation'[n].phase = "undoing"
                           /\ undo # None
                           /\ undo.body = [row EXCEPT !.pos = mutation'[n].previous[j].pos]
                           /\ undo.reply.kind \in {"waiting", "ok", "lost"}
                           /\ undo.reply.kind = "waiting" => server'[j] = row
                           /\ undo.reply.kind = "ok" =>
                                 server'[j].pos = mutation'[n].previous[j].pos
    BY <1>1 DEF UndoInv
  <2>1. n = m /\ mutation[m].since = otherWrites
    BY <1>1, <1>5 DEF EditorInv, OneInv
  <2>2. /\ j \in Item /\ j \in Succeeded(mutation[m].calls) /\ j \in Called(mutation[m].calls)
        /\ mutation[m].calls[j].reply.kind = "ok"
    BY <1>5, <2>1 DEF Succeeded, Called
  <2>. DEFINE row == mutation[m].calls[j].reply.row
              undo == mutation[m].undo[j]
  <2>3. /\ undo # None
        /\ undo.body = [row EXCEPT !.pos = mutation[m].previous[j].pos]
        /\ undo.reply.kind \in {"waiting", "ok", "lost"}
        /\ undo.reply.kind = "waiting" => server[j] = row
        /\ undo.reply.kind = "ok" => server[j].pos = mutation[m].previous[j].pos
    BY <1>1, <2>1, <2>2 DEF EditorInv, UndoInv
  <2>4. CASE j # i
    <3>1. mutation'[m].undo[j] = undo /\ server'[j] = server[j]
      BY <1>3, <1>4, <2>2, <2>4
    <3>. QED
      BY <1>1, <1>5, <2>1, <2>3, <3>1
  <2>5. CASE j = i
    <3>1. mutation[m].calls[i] \in Call
      BY <2>2, <2>5 DEF Called, EditorInv, EditorTypeOK, MutationState
    <3>2. row \in Row
      BY <2>2, <2>5, <3>1 DEF Call, Reply
    <3>3. server[i] = row
      BY <1>1, <2>3, <2>5 DEF Waiting
    <3>4. body.version = row.version /\ body.pos = mutation[m].previous[i].pos
      BY <2>3, <2>5, <3>2 DEF Row, body
    <3>5. Accepted(i, body)
      BY <3>2, <3>3, <3>4 DEF Accepted
    <3>6. r.kind \in {"ok", "lost"} /\ (r.kind = "ok" => server'[i].pos = mutation[m].previous[i].pos)
      BY <1>1, <1>4, <3>4, <3>5, WrittenTyped
    <3>7. mutation'[m].undo[i] # None /\ mutation'[m].undo[i].body = undo.body
      BY <1>3, <2>5 DEF body
    <3>. QED
      BY <1>1, <1>3, <1>5, <2>1, <2>3, <2>5, <3>6, <3>7
  <2>. QED
    BY <2>4, <2>5
<1>. QED
  BY <1>6, <1>7, <1>8, <1>9, <1>10, <1>11, <1>12 DEF EditorInv

-----------------------------------------------------------------------------
(* A mutation of another venue can only take the items out of the list.    *)
LEMMA ElsewhereKeeps ==
  ASSUME EditorInv, MutateElsewhere \/ EndElsewhere
  PROVE  EditorInv'
<1>0. UNCHANGED <<server, mutation, otherWrites, overlapped, strayed, conflicts, place, visits>>
  BY DEF MutateElsewhere, EndElsewhere, editor
<1>1. \/ cache' = cache /\ failed' = failed /\ editing' = editing
      \/ cache' = NoItems /\ failed' = FALSE /\ editing' = None
  <2>1. CASE MutateElsewhere
    BY <2>1 DEF MutateElsewhere, query, editor
  <2>2. CASE EndElsewhere
    BY <2>2 DEF EndElsewhere, SetItems, CloseInputs, NoItems, EditorInv, EditorTypeOK
  <2>. QED
    BY <2>1, <2>2
<1>2. fetch' \in {fetch, Sent} /\ foreign' \in {"none", "elsewhere"}
  BY DEF MutateElsewhere, EndElsewhere, query, Invalidate
<1>3. NoItems \in Rows /\ \A i \in Item : Genuine(server, i, NoItems[i])
  BY DEF NoItems, Rows, Genuine
<1>4. EditorTypeOK'
  BY <1>0, <1>1, <1>2, <1>3 DEF EditorInv, EditorTypeOK
<1>5. AnswersInv'
  <2>1. fetch'.state = "answered" => fetch' = fetch
    BY <1>2 DEF Sent
  <2>. QED
    BY <1>0, <2>1, AnswersKept DEF EditorInv, AnswersInv
<1>6. EditingInv'
  BY <1>0, <1>1 DEF EditorInv, EditingInv
<1>. QED
  BY <1>0, <1>1, <1>3, <1>4, <1>5, <1>6, QuietKeeps DEF EditorInv

LEMMA EditorStep == ASSUME EditorInv, [EditorNext]_vars PROVE EditorInv'
<1>1. CASE UNCHANGED vars
  <2>1. UNCHANGED <<server, cache, failed, fetch, mutation, foreign, place, visits, editing,
                    conflicts, otherWrites, overlapped, strayed>>
    BY <1>1 DEF vars, query, editor
  <2>2. EditorTypeOK' /\ AnswersInv' /\ EditingInv'
    BY <2>1 DEF EditorInv, EditorTypeOK, AnswersInv, EditingInv
  <2>. QED
    BY <2>1, <2>2, QuietKeeps DEF EditorInv
<1>2. CASE Leave \/ \E to \in {"home", "elsewhere"} : Open(to) \/ Switch(to)
  BY <1>2, PlaceKeeps
<1>3. CASE FetchAnswered \/ FetchLands \/ FetchFails
  BY <1>3, FetchKeeps
<1>4. CASE CancelEdit \/ \E i \in Item : BeginEdit(i)
  BY <1>4, InputKeeps
<1>5. CASE \E i \in Item : AcknowledgeConflict(i) \/ OtherEdit(i)
  BY <1>5, AcknowledgeKeeps, OtherKeeps
<1>6. CASE \E m \in Mutation : Move(m) \/ \E i \in Item, p \in Price : CommitPrice(m, i, p)
  BY <1>6, MoveKeeps, CommitKeeps
<1>7. ASSUME NEW m \in Mutation, Step(m) PROVE EditorInv'
  BY <1>7, ServePutKeeps, ServeUndoKeeps, UpdateSucceedsKeeps, UpdateFailsKeeps,
     ReorderSucceedsKeeps, CompensateKeeps, ReorderFailsKeeps DEF Step
<1>8. CASE MutateElsewhere \/ EndElsewhere
  BY <1>8, ElsewhereKeeps
<1>. QED
  BY <1>1, <1>2, <1>3, <1>4, <1>5, <1>6, <1>7, <1>8 DEF EditorNext

(* The inductive invariant holds in every behaviour of the editor, of      *)
(* menu-service and of the other editors.                                  *)
THEOREM EditorInvariance == EditorSpec => []EditorInv
<1>1. EditorInit => EditorInv
  BY EditorInitial
<1>2. EditorInv /\ [EditorNext]_vars => EditorInv'
  BY EditorStep
<1>. QED
  BY <1>1, <1>2, PTL DEF EditorSpec

(* Every variable of the editor keeps values of its kind, however many     *)
(* items, mutations and other editors there are.                           *)
THEOREM EditorIsTyped == EditorSpec => []EditorTypeOK
<1>1. EditorInv => EditorTypeOK
  BY DEF EditorInv
<1>. QED
  BY <1>1, EditorInvariance, PTL

(* With one mutation at a time a row of the browser that has the server's  *)
(* version is the server's row, once nothing is pending, unless a rollback *)
(* went to another venue's list and no GET has replaced this one since.    *)
THEOREM VersionIsTheRow == EditorSpec => []SameVersionSameRow
<1>1. EditorInv => SameVersionSameRow
  <2>. SUFFICES ASSUME EditorInv, Trusted, \A m \in Mutation : ~Pending(m), cache # Loading,
                       NEW i \in Listed(cache) \cap Listed(server),
                       cache[i].version = server[i].version
                PROVE  cache[i] = server[i]
    BY DEF SameVersionSameRow, Trusted
  <2>1. i \in Item /\ cache[i] # Gone /\ server[i] # Gone
    BY DEF Listed
  <2>2. Genuine(server, i, cache[i])
    BY <2>1 DEF EditorInv, CacheInv, Optimistic
  <2>3. server[i].version \in Nat
    BY <2>1 DEF EditorInv, EditorTypeOK, Rows, Row
  <2>. QED
    BY <2>1, <2>2, <2>3 DEF Genuine
<1>. QED
  BY <1>1, EditorInvariance, PTL

(* Only the failure of a reorder ends its undoing.                         *)
LEMMA UndoingEnds ==
  ASSUME EditorInv, EditorNext, NEW m \in Mutation,
         mutation[m].phase = "undoing", mutation'[m].phase # "undoing"
  PROVE  ReorderFails(m)
<1>0. mutation \in [Mutation -> MutationState]
  BY DEF EditorInv, EditorTypeOK
<1>1. mutation' # mutation
  OBVIOUS
<1>2. ASSUME NEW to, Leave \/ Switch(to) PROVE FALSE
  <2>1. mutation'[m] \in {mutation[m], [mutation[m] EXCEPT !.here = FALSE],
                          [mutation[m] EXCEPT !.home = (to = "home")]}
    BY <1>2 DEF Leave, Switch
  <2>2. mutation[m] \in MutationState
    BY <1>0
  <2>. QED
    BY <2>1, <2>2 DEF MutationState
<1>3. ASSUME NEW n \in Mutation, NEW kind, NEW calls, NEW optimistic,
             Mutate(n, kind, calls, optimistic)
      PROVE  FALSE
  <2>1. n # m /\ \E now : mutation' = [mutation EXCEPT ![n] = now]
    BY <1>3 DEF Mutate, Idle
  <2>. QED
    BY <1>0, <2>1
<1>4. ASSUME NEW n \in Mutation, Step(n), ~ReorderFails(m) PROVE FALSE
  <2>1. ASSUME NEW i \in Item, ServePut(n, i) PROVE FALSE
    BY <2>1, PutAnswered
  <2>2. ASSUME NEW i \in Item, ServeUndo(n, i) PROVE FALSE
    BY <2>2, UndoAnswered
  <2>3. ASSUME UpdateSucceeds(n) \/ UpdateFails(n) \/ ReorderSucceeds(n) PROVE FALSE
    <3>1. mutation' = [mutation EXCEPT ![n] = Ended] /\ mutation[n].phase = "running"
      BY <2>3 DEF UpdateSucceeds, UpdateFails, ReorderSucceeds
    <3>. QED
      BY <1>0, <3>1
  <2>4. ASSUME Compensate(n) PROVE FALSE
    <3>1. mutation[n].phase = "running" /\ \E now : mutation' = [mutation EXCEPT ![n] = now]
      BY <1>0, <2>4 DEF Compensate
    <3>. QED
      BY <1>0, <3>1
  <2>5. ASSUME ReorderFails(n) PROVE FALSE
    <3>1. mutation' = [mutation EXCEPT ![n] = Ended] /\ n # m
      BY <1>4, <2>5 DEF ReorderFails
    <3>. QED
      BY <1>0, <3>1
  <2>. QED
    BY <1>4, <2>1, <2>2, <2>3, <2>4, <2>5 DEF Step
<1>5. /\ \A to \in {"home", "elsewhere"} : ~Open(to)
      /\ ~(FetchAnswered \/ FetchLands \/ FetchFails \/ CancelEdit)
      /\ ~(MutateElsewhere \/ EndElsewhere)
  BY <1>1 DEF Open, FetchAnswered, FetchLands, FetchFails, CancelEdit, MutateElsewhere, EndElsewhere
<1>6. \A i \in Item : ~(BeginEdit(i) \/ AcknowledgeConflict(i) \/ OtherEdit(i))
  BY <1>1 DEF BeginEdit, AcknowledgeConflict, OtherEdit
<1>7. \A n \in Mutation : ~Move(n) /\ \A i \in Item, p \in Price : ~CommitPrice(n, i, p)
  BY <1>3 DEF Move, CommitPrice
<1>. QED
  BY <1>2, <1>4, <1>5, <1>6, <1>7 DEF EditorNext

(* A reorder that gives up leaves every row where it was, if no answer was *)
(* lost and neither another editor nor a second mutation came between.     *)
THEOREM ReordersAreUndone == EditorSpec => FailedReorderIsUndone
<1>. DEFINE Undone ==
       \A m \in Mutation :
          /\ mutation[m].phase = "undoing" /\ mutation'[m].phase = "settled"
          /\ Unlost(mutation[m].calls) /\ Unlost(mutation[m].undo)
          /\ mutation[m].since = otherWrites /\ ~overlapped
          => \A i \in Succeeded(mutation[m].calls) :
                server[i].pos = mutation[m].previous[i].pos
<1>1. EditorInv /\ [EditorNext]_vars => [Undone]_vars
  <2>. SUFFICES ASSUME EditorInv, EditorNext, NEW m \in Mutation,
                       mutation[m].phase = "undoing", mutation'[m].phase = "settled",
                       Unlost(mutation[m].undo),
                       mutation[m].since = otherWrites, ~overlapped,
                       NEW i \in Succeeded(mutation[m].calls)
                PROVE  server[i].pos = mutation[m].previous[i].pos
    OBVIOUS
  <2>1. Answered(mutation[m].undo) /\ Pending(m)
    BY UndoingEnds DEF ReorderFails, Pending
  <2>2. /\ mutation[m].undo[i] # None
        /\ mutation[m].undo[i].reply.kind \in {"waiting", "ok", "lost"}
        /\ mutation[m].undo[i].reply.kind = "ok" => server[i].pos = mutation[m].previous[i].pos
    BY <2>1 DEF EditorInv, UndoInv
  <2>3. i \in Called(mutation[m].undo) /\ mutation[m].undo[i] \in Call
    BY <2>2 DEF Called, Succeeded, EditorInv, EditorTypeOK, MutationState
  <2>4. mutation[m].undo[i].reply.kind # "lost" /\ mutation[m].undo[i].reply # Waiting
    BY <2>1, <2>3 DEF Unlost, Answered
  <2>5. mutation[m].undo[i].reply.kind # "waiting"
    BY <2>3, <2>4 DEF Call, Reply, Waiting
  <2>. QED
    BY <2>2, <2>4, <2>5
<1>. QED
  BY <1>1, EditorInvariance, PTL DEF EditorSpec, FailedReorderIsUndone

(* With one mutation at a time a PUT of the whole row out of the cache     *)
(* changes only the field the merchant did.                                *)
THEOREM PutsChangeOneField == EditorSpec => UntouchedFieldsKept
<1>. DEFINE Kept ==
       \A m \in Mutation, i \in Item :
          /\ ~overlapped /\ ~strayed /\ ServePut(m, i) /\ server'[i] # server[i]
          => IF mutation[m].kind = "update" THEN server'[i].pos = server[i].pos
                                            ELSE server'[i].price = server[i].price
<1>1. EditorInv /\ [EditorNext]_vars => [Kept]_vars
  <2>. SUFFICES ASSUME EditorInv, NEW m \in Mutation, NEW i \in Item,
                       Trusted, ServePut(m, i), server'[i] # server[i]
                PROVE  IF mutation[m].kind = "update" THEN server'[i].pos = server[i].pos
                                                      ELSE server'[i].price = server[i].price
    BY DEF Trusted
  <2>. DEFINE body == mutation[m].calls[i].body
              row == mutation[m].previous[i]
  <2>1. /\ i \in Called(mutation[m].calls) /\ body \in Row /\ Pending(m)
        /\ Outcome(i, body, mutation'[m].calls[i].reply)
        /\ mutation'[m].calls[i].reply \in Reply
    BY PutAnswered DEF Call, ServePut, Pending
  <2>2. /\ server[i] # Gone /\ server[i].version = body.version
        /\ server' = [server EXCEPT ![i] = Written(body)]
    BY <2>1, OutcomeAdvances DEF Accepted
  <2>3. /\ row # Gone /\ body.version = row.version
        /\ IF mutation[m].kind = "update" THEN body.pos = row.pos ELSE body.price = row.price
    BY <2>1 DEF EditorInv, PendingInv, Sound
  <2>4. Genuine(server, i, row)
    BY <2>1 DEF EditorInv, PreviousInv
  <2>5. row = server[i]
    <3>1. row.version \in Nat
      BY <2>1, <2>3 DEF Row
    <3>. QED
      BY <2>2, <2>3, <2>4, <3>1 DEF Genuine
  <2>6. server'[i] = Written(body)
    BY <2>2 DEF EditorInv, EditorTypeOK, Rows
  <2>. HIDE DEF body, row
  <2>. QED
    BY <2>1, <2>3, <2>5, <2>6, WrittenTyped
<1>. QED
  BY <1>1, EditorInvariance, PTL DEF EditorSpec, UntouchedFieldsKept
=============================================================================
