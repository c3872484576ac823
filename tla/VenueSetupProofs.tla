-------------------------- MODULE VenueSetupProofs --------------------------
(***************************************************************************)
(* The three promises of the venue setup, for every number of venues,      *)
(* items and creations: what was created is there, links lead to venues    *)
(* that are, and the header names the venue on screen.  The first rests on *)
(* a list that is on its way being asked for after the creation, or being  *)
(* the page's first; the other two on every id of the page but those of    *)
(* the history being the service's.                                        *)
(***************************************************************************)
EXTENDS VenueSetup, SequenceTheorems, TLAPS

USE VenueAssumption

Answered == fetch \notin {None, Loading}

(* The page knows venues of the service only.                              *)
ServedInv ==
    /\ Listed \subseteq Range(server)
    /\ Answered => Range(fetch) \subseteq Range(server)
    /\ \A c \in Creation :
          /\ creation[c].venue # None => creation[c].venue \in Range(server)
          /\ creation[c].get # None \/ creation[c].phase = "done" => creation[c].venue # None

(* After a creation every list that arrives has its venue, but for a first *)
(* one that was answered before.                                           *)
ListInv ==
    \A c \in Creation : creation[c].phase = "done" =>
        /\ Answered => creation[c].venue \in Range(fetch) \cup missed
        /\ fetch = None /\ ~failed => creation[c].venue \in Listed \cup missed

(* The menu of a venue that is created is whole, on its way or crossed.    *)
MenuInv ==
    \A c \in Creation : creation[c].phase = "done" =>
        /\ items[creation[c].venue] = DemoItems
        /\ creation[c].menu \in 0 .. DemoItems - 1 => creation[c].crossed
        /\ creation[c].get \in 0 .. DemoItems - 1 => creation[c].crossed

(* A route that was chosen names the choice.                               *)
ChoiceInv == path.screen \in VenueScreen /\ by = "choice" => path.venue = stored

SetupInv ==
    /\ SetupTypeOK
    /\ ServedInv
    /\ ListInv
    /\ MenuInv
    /\ LinksLeadSomewhere
    /\ ChoiceInv

-----------------------------------------------------------------------------
LEMMA OneMore ==
  ASSUME NEW s \in Seq(Venue), NEW v \in Venue
  PROVE  <<v>> \o s \in Seq(Venue) /\ Range(<<v>> \o s) = {v} \cup Range(s)
<1>1. <<v>> \o s \in Seq(Venue)
  BY ConcatProperties
<1>2. /\ Len(<<v>> \o s) = 1 + Len(s) /\ (<<v>> \o s)[1] = v
      /\ \A k \in 1 .. Len(s) : (<<v>> \o s)[k + 1] = s[k]
  BY Z3
<1>3. \A k \in 1 .. Len(s) + 1 : k = 1 \/ (k - 1 \in 1 .. Len(s) /\ k = (k - 1) + 1)
  BY LenProperties
<1>4. DOMAIN (<<v>> \o s) = 1 .. Len(s) + 1 /\ DOMAIN s = 1 .. Len(s)
  BY <1>1, <1>2, LenProperties
<1>5. Range(<<v>> \o s) \subseteq {v} \cup Range(s)
  BY <1>2, <1>3, <1>4 DEF Range
<1>6. v \in Range(<<v>> \o s)
  BY <1>2, <1>4, LenProperties DEF Range
<1>7. \A k \in 1 .. Len(s) : k + 1 \in 1 .. Len(s) + 1
  BY LenProperties
<1>8. Range(s) \subseteq Range(<<v>> \o s)
  <2>. SUFFICES ASSUME NEW k \in 1 .. Len(s) PROVE s[k] \in Range(<<v>> \o s)
    BY <1>4 DEF Range
  <2>1. s[k] = (<<v>> \o s)[k + 1] /\ k + 1 \in DOMAIN (<<v>> \o s)
    BY <1>2, <1>4, <1>7
  <2>. QED
    BY <2>1 DEF Range
<1>. QED
  BY <1>1, <1>5, <1>6, <1>8

LEMMA RangeTyped == \A s \in Seq(Venue) : Range(s) \subseteq Venue
  BY DEF Range

(* The header names a venue of the list, the choice if it is there.        *)
LEMMA HeaderListed ==
  ASSUME SetupTypeOK
  PROVE  /\ Listed \subseteq Venue
         /\ Header \in Listed \cup {None}
         /\ stored \in Listed => Header = stored
<1>1. Listed \subseteq Venue
  BY RangeTyped DEF SetupTypeOK, Listed
<1>2. Listed # {} => list[1] \in Listed
  <2>. SUFFICES ASSUME Listed # {} PROVE list[1] \in Listed
    OBVIOUS
  <2>1. list # Loading /\ list \in Seq(Venue) /\ Listed = Range(list)
    BY DEF SetupTypeOK, Listed
  <2>2. PICK k \in DOMAIN list : TRUE
    BY <2>1 DEF Range
  <2>3. 1 \in DOMAIN list
    BY <2>1, <2>2
  <2>. QED
    BY <2>1, <2>3 DEF Range
<1>3. Header \in Listed \cup {None}
  BY <1>2 DEF Header, resolveVenueId
<1>4. stored \in Listed => Header = stored
  BY DEF Header, resolveVenueId
<1>. QED
  BY <1>1, <1>3, <1>4

LEMMA SetupInitial == ASSUME SetupInit PROVE SetupInv
<1>. USE DEF SetupInit
<1>1. \A c \in Creation : creation[c] = NotStarted
  OBVIOUS
<1>2. SetupTypeOK
  <2>1. server \in Seq(Venue) /\ items \in [Venue -> Count]
    BY DEF Count
  <2>2. Range(server) \subseteq Venue
    BY RangeTyped
  <2>3. local \in Known \cup {None, Refused} /\ stored \in Known \cup {None}
    BY <2>2 DEF readStored, Known
  <2>4. path \in Path /\ by \in {"choice", "default", "history"}
    BY DEF Path, To
  <2>5. NotStarted \in CreationState
    BY DEF NotStarted, CreationState
  <2>. QED
    BY <2>1, <2>3, <2>4, <2>5 DEF SetupTypeOK
<1>3. ServedInv
  BY <1>1 DEF ServedInv, NotStarted, Listed, Answered
<1>4. ListInv /\ MenuInv
  BY <1>1 DEF ListInv, MenuInv, NotStarted
<1>5. LinksLeadSomewhere /\ ChoiceInv
  BY DEF LinksLeadSomewhere, ChoiceInv, To
<1>. QED
  BY <1>2, <1>3, <1>4, <1>5 DEF SetupInv

(* A step that leaves the route and the choice alone.                      *)
LEMMA RouteKept ==
  ASSUME SetupInv, UNCHANGED <<selection, route>>, Range(server) \subseteq Range(server')
  PROVE  LinksLeadSomewhere' /\ ChoiceInv'
BY DEF SetupInv, LinksLeadSomewhere, ChoiceInv, selection, route

LEMMA FetchKeeps ==
  ASSUME SetupInv, FetchAnswered \/ FetchLands \/ FetchFails
  PROVE  SetupInv'
<1>. USE DEF FetchAnswered, FetchLands, FetchFails, service, selection, route
<1>0. SetupTypeOK /\ server \in Seq(Venue) /\ server # None
  BY DEF SetupInv, SetupTypeOK
<1>1. SetupTypeOK'
  BY <1>0 DEF SetupTypeOK
<1>2. ServedInv'
  BY <1>0 DEF SetupInv, ServedInv, Answered, Listed
<1>3. ListInv'
  BY <1>0 DEF SetupInv, ServedInv, ListInv, Answered, Listed
<1>4. MenuInv'
  BY DEF SetupInv, MenuInv
<1>. QED
  BY <1>1, <1>2, <1>3, <1>4, RouteKept DEF SetupInv

LEMMA MenuKeeps ==
  ASSUME SetupInv, NEW c \in Creation, MenuAnswered(c) \/ MenuLands(c) \/ MenuFails(c)
  PROVE  SetupInv'
<1>. USE DEF MenuAnswered, MenuLands, MenuFails, service, venues, selection, route
<1>0. /\ SetupTypeOK /\ creation[c] \in CreationState
      /\ creation[c].venue \in Venue /\ items[creation[c].venue] \in Count
  BY DEF SetupInv, SetupTypeOK, ServedInv, CreationState
<1>1. PICK menu \in Count \cup {Loading}, get \in Count \cup {None, Loading} :
        /\ creation' = [creation EXCEPT ![c].menu = menu, ![c].get = get]
        /\ \/ menu = creation[c].menu /\ get = items[creation[c].venue]
           \/ menu = creation[c].get /\ get = None
           \/ menu = creation[c].menu /\ get = None
  <2>1. /\ creation[c].menu \in Count \cup {Loading}
        /\ creation[c].get \in Count \cup {None, Loading}
    BY <1>0 DEF CreationState
  <2>2. creation[c] = [creation[c] EXCEPT !.menu = creation[c].menu]
    BY <1>0 DEF CreationState
  <2>3. creation \in [Creation -> CreationState]
    BY <1>0 DEF SetupTypeOK
  <2>4. CASE MenuAnswered(c)
    <3>1. creation' = [creation EXCEPT ![c].menu = creation[c].menu,
                                       ![c].get = items[creation[c].venue]]
      BY <2>2, <2>3, <2>4
    <3>. QED
      BY <1>0, <2>1, <3>1
  <2>5. CASE MenuLands(c)
    <3>1. creation[c].get \in Count
      BY <2>1, <2>5
    <3>. QED
      BY <2>5, <3>1
  <2>6. CASE MenuFails(c)
    <3>1. creation' = [creation EXCEPT ![c].menu = creation[c].menu, ![c].get = None]
      BY <2>2, <2>3, <2>6
    <3>. QED
      BY <2>1, <3>1
  <2>. QED
    BY <2>4, <2>5, <2>6
<1>2. /\ creation'[c].menu = menu /\ creation'[c].get = get
      /\ creation'[c].phase = creation[c].phase /\ creation'[c].venue = creation[c].venue
      /\ creation'[c].crossed = creation[c].crossed
      /\ \A d \in Creation \ {c} : creation'[d] = creation[d]
  BY <1>0, <1>1 DEF SetupTypeOK, CreationState
<1>3. SetupTypeOK'
  <2>1. creation' \in [Creation -> CreationState]
    BY <1>0, <1>1 DEF SetupTypeOK, CreationState
  <2>. QED
    BY <1>0, <2>1 DEF SetupTypeOK
<1>4. ServedInv'
  BY <1>0, <1>2 DEF SetupInv, ServedInv, Answered, Listed
<1>5. ListInv'
  BY <1>2 DEF SetupInv, ListInv, Answered, Listed
<1>6. MenuInv'
  <2>1. None \notin 0 .. DemoItems - 1 /\ DemoItems \notin 0 .. DemoItems - 1
    OBVIOUS
  <2>2. creation[c].phase = "done" =>
          /\ items[creation[c].venue] = DemoItems
          /\ menu \in 0 .. DemoItems - 1 => creation[c].crossed
          /\ get \in 0 .. DemoItems - 1 => creation[c].crossed
    BY <1>1, <2>1 DEF SetupInv, MenuInv
  <2>3. items' = items
    OBVIOUS
  <2>. QED
    BY <1>2, <2>2, <2>3 DEF SetupInv, MenuInv
<1>. QED
  BY <1>3, <1>4, <1>5, <1>6, RouteKept DEF SetupInv

-----------------------------------------------------------------------------
(* Going somewhere changes of a creation only its GET and its card.        *)
LEMMA EnteredKeeps ==
  ASSUME SetupTypeOK, NEW c \in Creation, NEW p \in Path
  PROVE  /\ Entered(c, p) \in CreationState
         /\ Entered(c, p).phase = creation[c].phase /\ Entered(c, p).venue = creation[c].venue
         /\ Entered(c, p).menu = creation[c].menu /\ Entered(c, p).crossed = creation[c].crossed
         /\ \/ Entered(c, p).get = creation[c].get
            \/ /\ Entered(c, p).get = Loading
               /\ creation[c].phase = "posting" /\ creation[c].venue # None
<1>1. creation[c] \in CreationState
  BY DEF SetupTypeOK
<1>2. PICK here \in BOOLEAN, get \in Count \cup {None, Loading} :
        /\ Entered(c, p) = [creation[c] EXCEPT !.here = here, !.get = get]
        /\ \/ get = creation[c].get
           \/ get = Loading /\ creation[c].phase = "posting" /\ creation[c].venue # None
  <2>. DEFINE here == creation[c].here /\ Component(p) = Component(path)
              get == IF /\ p # path /\ p.venue = creation[c].venue /\ p.venue # None
                        /\ creation[c].get = None /\ creation[c].phase = "posting"
                       THEN Loading ELSE creation[c].get
  <2>1. Entered(c, p) = [creation[c] EXCEPT !.here = here, !.get = get]
    BY DEF Entered
  <2>2. here \in BOOLEAN
    OBVIOUS
  <2>3. get \in Count \cup {None, Loading}
    BY <1>1 DEF CreationState
  <2>4. \/ get = creation[c].get
        \/ get = Loading /\ creation[c].phase = "posting" /\ creation[c].venue # None
    OBVIOUS
  <2>. HIDE DEF here, get
  <2>. QED
    BY <2>1, <2>2, <2>3, <2>4
<1>. QED
  BY <1>1, <1>2 DEF CreationState

(* Whatever led to it, a new route leaves what is known of venues and      *)
(* menus as good as it was.                                                *)
LEMMA ArriveKeeps ==
  ASSUME SetupInv, NEW p \in Path, Arrive(p),
         stored' \in Known \cup {None}, local' \in Known \cup {None, Refused},
         by' \in {"choice", "default", "history"}, LinksLeadSomewhere', ChoiceInv'
  PROVE  SetupInv'
<1>0. SetupTypeOK /\ service' = service /\ list' = list /\ path' = p
  BY DEF SetupInv, Arrive
<1>1. \/ fetch' = fetch /\ failed' = failed /\ missed' = missed
      \/ fetch' = Loading /\ failed' \in BOOLEAN /\ missed' = {}
  BY <1>0 DEF Arrive, Fetch, SetupTypeOK
<1>2. /\ creation' \in [Creation -> CreationState]
      /\ \A c \in Creation :
           /\ creation'[c].phase = creation[c].phase /\ creation'[c].venue = creation[c].venue
           /\ creation'[c].menu = creation[c].menu /\ creation'[c].crossed = creation[c].crossed
           /\ \/ creation'[c].get = creation[c].get
              \/ /\ creation'[c].get = Loading
                 /\ creation[c].phase = "posting" /\ creation[c].venue # None
  BY <1>0, EnteredKeeps DEF Arrive
<1>3. SetupTypeOK'
  BY <1>0, <1>1, <1>2 DEF SetupTypeOK, service
<1>4. ServedInv'
  <2>1. Listed' = Listed /\ server' = server /\ (Answered' => Answered /\ fetch' = fetch)
    BY <1>0, <1>1 DEF Listed, Answered, service
  <2>. QED
    BY <1>2, <2>1 DEF SetupInv, ServedInv
<1>5. ListInv'
  <2>1. Listed' = Listed /\ (Answered' => Answered /\ fetch' = fetch /\ missed' = missed)
    BY <1>0, <1>1 DEF Listed, Answered
  <2>2. fetch' = None => fetch = None /\ failed' = failed /\ missed' = missed
    BY <1>1
  <2>. QED
    BY <1>2, <2>1, <2>2 DEF SetupInv, ListInv
<1>6. MenuInv'
  <2>1. items' = items
    BY <1>0 DEF service
  <2>. QED
    BY <1>2, <2>1 DEF SetupInv, MenuInv
<1>. QED
  BY <1>3, <1>4, <1>5, <1>6 DEF SetupInv

LEMMA PlacesArePaths ==
  /\ \A s \in {"overview", "new", "other"} : To(s) \in Path /\ To(s).screen \notin VenueScreen
  /\ \A s \in VenueScreen, v \in Known :
       At(s, v) \in Path /\ At(s, v).venue = v /\ At(s, v).screen = s
BY DEF To, At, Path

(* A link of the navigation leads to a venue the list has.                 *)
LEMMA FollowKeeps ==
  ASSUME SetupInv, NEW screen \in {"overview", "other"} \cup VenueScreen, Follow(screen)
  PROVE  SetupInv'
<1>0. SetupTypeOK /\ UNCHANGED <<stored, local, server>>
  BY DEF SetupInv, Follow, selection, Arrive, service
<1>1. \/ Target(screen) \in Path /\ Target(screen).screen \notin VenueScreen
      \/ /\ Header # None /\ Header \in Venue /\ Header \in Range(server)
         /\ Target(screen) = At(screen, Header) /\ screen \in VenueScreen
  BY <1>0, HeaderListed, PlacesArePaths DEF Target, SetupInv, ServedInv
<1>2. Target(screen) \in Path
  BY <1>1, PlacesArePaths DEF Known
<1>3. path' = Target(screen) /\ Arrive(Target(screen))
  BY DEF Follow, Arrive
<1>4. by' \in {"choice", "default"} /\ (by' = "choice" =>
          stored \in Listed \/ Target(screen).venue = None)
  BY DEF Follow
<1>5. LinksLeadSomewhere'
  BY <1>0, <1>1, <1>3, PlacesArePaths DEF LinksLeadSomewhere, Known
<1>6. ChoiceInv'
  BY <1>0, <1>1, <1>3, <1>4, HeaderListed, PlacesArePaths DEF ChoiceInv, Known
<1>. QED
  BY <1>0, <1>2, <1>3, <1>4, <1>5, <1>6, ArriveKeeps DEF SetupTypeOK

LEMMA HistoryKeeps ==
  ASSUME SetupInv, GoBack
  PROVE  SetupInv'
<1>0. SetupTypeOK /\ Range(server) \subseteq Venue
  BY RangeTyped DEF SetupInv, SetupTypeOK
<1>1. PICK v \in Remembered, screen \in VenueScreen : Arrive(At(screen, v))
  BY DEF GoBack
<1>2. At(screen, v) \in Path
  BY <1>0, PlacesArePaths DEF Remembered, Known
<1>3. UNCHANGED <<stored, local>> /\ by' = "history"
  BY DEF GoBack, selection
<1>4. LinksLeadSomewhere' /\ ChoiceInv'
  BY <1>3 DEF LinksLeadSomewhere, ChoiceInv
<1>. QED
  BY <1>0, <1>1, <1>2, <1>3, <1>4, ArriveKeeps DEF SetupTypeOK

LEMMA NewVenueKeeps ==
  ASSUME SetupInv, NewVenue
  PROVE  SetupInv'
<1>0. SetupTypeOK
  BY DEF SetupInv
<1>1. To("new") \in Path /\ To("new").screen \notin VenueScreen
  BY PlacesArePaths
<1>2. Arrive(To("new")) /\ path' = To("new") /\ UNCHANGED <<stored, local>> /\ by' = "choice"
  BY DEF NewVenue, selection, Arrive
<1>3. LinksLeadSomewhere' /\ ChoiceInv'
  BY <1>1, <1>2 DEF LinksLeadSomewhere, ChoiceInv
<1>. QED
  BY <1>0, <1>1, <1>2, <1>3, ArriveKeeps DEF SetupTypeOK

(* The switcher offers only what the list has.                             *)
LEMMA PickKeeps ==
  ASSUME SetupInv, NEW v \in Venue, Pick(v)
  PROVE  SetupInv'
<1>0. SetupTypeOK /\ v \in Range(server) /\ v \in Known
  BY DEF SetupInv, Pick, ServedInv, Known
<1>1. stored' = v /\ local' \in Known \cup {None, Refused}
  BY <1>0 DEF Pick, selectVenue
<1>2. CASE path.screen \in VenueScreen
  <2>1. Arrive(At(path.screen, v)) /\ path' = At(path.screen, v) /\ by' = "choice"
    BY <1>2 DEF Pick, Arrive
  <2>2. At(path.screen, v) \in Path /\ At(path.screen, v).venue = v
    BY <1>0, <1>2, PlacesArePaths
  <2>3. server' = server
    BY <2>1 DEF Arrive, service
  <2>4. LinksLeadSomewhere' /\ ChoiceInv'
    BY <1>0, <1>1, <2>1, <2>2, <2>3 DEF LinksLeadSomewhere, ChoiceInv
  <2>. QED
    BY <1>0, <1>1, <2>1, <2>2, <2>4, ArriveKeeps
<1>3. CASE path.screen \notin VenueScreen
  <2>1. UNCHANGED <<server, items, list, failed, fetch, missed, path, by, creation>>
    BY <1>3 DEF Pick, service, venues, route
  <2>2. SetupTypeOK'
    BY <1>0, <1>1, <2>1 DEF SetupTypeOK
  <2>3. ServedInv' /\ ListInv' /\ MenuInv'
    BY <2>1 DEF SetupInv, ServedInv, ListInv, MenuInv, Listed, Answered
  <2>4. LinksLeadSomewhere' /\ ChoiceInv'
    BY <1>3, <2>1 DEF LinksLeadSomewhere, ChoiceInv
  <2>. QED
    BY <2>2, <2>3, <2>4 DEF SetupInv
<1>. QED
  BY <1>2, <1>3

LEMMA GivenUpTyped ==
  /\ GivenUp \in CreationState /\ GivenUp.phase = "failed"
  /\ GivenUp.venue = None /\ GivenUp.get = None
BY DEF GivenUp, NotStarted, CreationState

(* A page that is loaded anew knows no list and asks for one.              *)
LEMMA ReloadKeeps ==
  ASSUME SetupInv, Reload
  PROVE  SetupInv'
<1>0. SetupTypeOK /\ UNCHANGED <<server, items, local, path>>
  BY DEF SetupInv, Reload, service
<1>1. \A c \in Creation : Reloaded(c) \in CreationState
  <2>. SUFFICES ASSUME NEW c \in Creation PROVE Reloaded(c) \in CreationState
    OBVIOUS
  <2>1. creation[c] \in CreationState
    BY <1>0 DEF SetupTypeOK
  <2>2. CASE creation[c].phase = "posting"
    BY <2>2, GivenUpTyped DEF Reloaded
  <2>3. CASE creation[c].phase # "posting"
    BY <2>1, <2>3 DEF Reloaded, CreationState
  <2>. QED
    BY <2>2, <2>3
<1>2. \A c \in Creation :
        /\ creation'[c].get = None /\ creation'[c].menu = Loading
        /\ \/ creation'[c].phase = creation[c].phase /\ creation'[c].venue = creation[c].venue
           \/ creation'[c].phase = "failed" /\ creation'[c].venue = None
  <2>. SUFFICES ASSUME NEW c \in Creation
                PROVE  /\ Reloaded(c).get = None /\ Reloaded(c).menu = Loading
                       /\ \/ /\ Reloaded(c).phase = creation[c].phase
                             /\ Reloaded(c).venue = creation[c].venue
                          \/ Reloaded(c).phase = "failed" /\ Reloaded(c).venue = None
    BY DEF Reload
  <2>1. creation[c] \in CreationState
    BY <1>0 DEF SetupTypeOK
  <2>. QED
    BY <2>1 DEF Reloaded, GivenUp, NotStarted, CreationState
<1>3. /\ list' = Loading /\ fetch' = Loading /\ failed' = FALSE /\ missed' = {}
      /\ stored' = readStored
  BY DEF Reload
<1>4. SetupTypeOK'
  <2>1. creation' \in [Creation -> CreationState]
    BY <1>1 DEF Reload
  <2>2. stored' \in Known \cup {None}
    BY <1>0, <1>3 DEF readStored, SetupTypeOK
  <2>3. by' \in {"choice", "default", "history"}
    BY <1>0 DEF Reload, SetupTypeOK
  <2>. QED
    BY <1>0, <1>3, <2>1, <2>2, <2>3 DEF SetupTypeOK
<1>5. ServedInv' /\ ListInv'
  BY <1>0, <1>2, <1>3 DEF SetupInv, ServedInv, ListInv, Listed, Answered
<1>6. MenuInv'
  <2>1. None \notin 0 .. DemoItems - 1 /\ Loading \notin 0 .. DemoItems - 1
    OBVIOUS
  <2>. QED
    BY <1>0, <1>2, <2>1 DEF SetupInv, MenuInv
<1>7. LinksLeadSomewhere' /\ ChoiceInv'
  BY <1>0, <1>3 DEF Reload, SetupInv, LinksLeadSomewhere, ChoiceInv
<1>. QED
  BY <1>4, <1>5, <1>6, <1>7 DEF SetupInv

-----------------------------------------------------------------------------
(* Only the creation c changes, and it is not over: what it knows of a     *)
(* venue is the service's.                                                 *)
LEMMA CreationKeeps ==
  ASSUME SetupInv, NEW c \in Creation, NEW state \in CreationState,
         creation' = [creation EXCEPT ![c] = state],
         state.phase # "done", state.get # None => state.venue # None,
         state.venue # None => state.venue \in Range(server'),
         server' \in Seq(Venue), Range(server) \subseteq Range(server'),
         items' \in [Venue -> Count],
         \A v \in Venue : items[v] = DemoItems => items'[v] = DemoItems,
         UNCHANGED <<venues, selection, route>>
  PROVE  SetupInv'
<1>0. SetupTypeOK /\ UNCHANGED <<list, failed, fetch, missed, stored, local, path, by>>
  BY DEF SetupInv, venues, selection, route
<1>1. creation'[c] = state /\ \A d \in Creation \ {c} : creation'[d] = creation[d]
  BY <1>0 DEF SetupTypeOK
<1>2. SetupTypeOK'
  BY <1>0 DEF SetupTypeOK
<1>3. ServedInv'
  BY <1>0, <1>1 DEF SetupInv, ServedInv, Listed, Answered
<1>4. ListInv'
  BY <1>0, <1>1 DEF SetupInv, ListInv, Listed, Answered
<1>5. MenuInv'
  <2>. SUFFICES ASSUME NEW d \in Creation, creation'[d].phase = "done"
                PROVE  /\ items'[creation'[d].venue] = DemoItems
                       /\ creation'[d].menu \in 0 .. DemoItems - 1 => creation'[d].crossed
                       /\ creation'[d].get \in 0 .. DemoItems - 1 => creation'[d].crossed
    BY DEF MenuInv
  <2>1. d # c /\ creation'[d] = creation[d]
    BY <1>1
  <2>2. creation[d].venue \in Venue
    BY <1>0, <2>1 DEF SetupInv, ServedInv, SetupTypeOK, CreationState
  <2>. QED
    BY <2>1, <2>2 DEF SetupInv, MenuInv
<1>. QED
  BY <1>2, <1>3, <1>4, <1>5, RouteKept DEF SetupInv

LEMMA CreateKeeps ==
  ASSUME SetupInv, NEW c \in Creation, Create(c)
  PROVE  SetupInv'
<1>. DEFINE state == [creation[c] EXCEPT !.phase = "posting", !.here = TRUE]
<1>1. creation[c] = NotStarted /\ creation' = [creation EXCEPT ![c] = state]
  BY DEF Create
<1>2. /\ state \in CreationState
      /\ state.phase = "posting" /\ state.get = None /\ state.venue = None
  <2>1. creation[c] \in CreationState
    BY DEF SetupInv, SetupTypeOK
  <2>2. creation[c].get = None /\ creation[c].venue = None
    BY <1>1 DEF NotStarted
  <2>. QED
    BY <2>1, <2>2 DEF CreationState
<1>3. UNCHANGED <<server, items, venues, selection, route>>
  BY DEF Create, service
<1>4. server \in Seq(Venue) /\ items \in [Venue -> Count]
  BY DEF SetupInv, SetupTypeOK
<1>. HIDE DEF state
<1>. QED
  BY <1>1, <1>2, <1>3, <1>4, CreationKeeps

LEMMA ServeVenueKeeps ==
  ASSUME SetupInv, NEW c \in Creation, ServeVenue(c)
  PROVE  SetupInv'
<1>0. /\ server \in Seq(Venue) /\ items \in [Venue -> Count] /\ creation[c] \in CreationState
      /\ creation \in [Creation -> CreationState]
      /\ creation[c].phase = "posting" /\ creation[c].venue = None
      /\ UNCHANGED <<items, venues, selection, route>>
  BY DEF SetupInv, SetupTypeOK, ServeVenue
<1>1. PICK v \in Venue \ Range(server) :
        /\ server' = <<v>> \o server
        /\ creation' \in {[creation EXCEPT ![c].venue = v], [creation EXCEPT ![c] = GivenUp]}
  BY DEF ServeVenue
<1>2. server' \in Seq(Venue) /\ Range(server') = {v} \cup Range(server)
  BY <1>0, <1>1, OneMore
<1>. DEFINE named == [creation[c] EXCEPT !.venue = v]
<1>3. named \in CreationState /\ named.phase = "posting" /\ named.venue = v
  BY <1>0 DEF CreationState
<1>4. \/ creation' = [creation EXCEPT ![c] = named]
      \/ creation' = [creation EXCEPT ![c] = GivenUp]
  BY <1>0, <1>1
<1>5. v # None /\ v \in Range(server') /\ Range(server) \subseteq Range(server')
  BY <1>2
<1>. HIDE DEF named
<1>. QED
  BY <1>0, <1>2, <1>3, <1>4, <1>5, GivenUpTyped, CreationKeeps

LEMMA PostFailsKeeps ==
  ASSUME SetupInv, NEW c \in Creation, PostFails(c)
  PROVE  SetupInv'
<1>1. /\ creation' = [creation EXCEPT ![c] = GivenUp]
      /\ UNCHANGED <<server, items, venues, selection, route>>
  BY DEF PostFails, service
<1>2. server \in Seq(Venue) /\ items \in [Venue -> Count]
  BY DEF SetupInv, SetupTypeOK
<1>. QED
  BY <1>1, <1>2, GivenUpTyped, CreationKeeps

(* An item more: of a venue whose menu is not whole.                       *)
LEMMA ServeItemKeeps ==
  ASSUME SetupInv, NEW c \in Creation, ServeItem(c)
  PROVE  SetupInv'
<1>. DEFINE v == creation[c].venue
<1>0. /\ server \in Seq(Venue) /\ items \in [Venue -> Count]
      /\ creation \in [Creation -> CreationState] /\ creation[c] \in CreationState
      /\ v \in Venue /\ v \in Range(server) /\ creation[c].phase = "posting"
  BY DEF SetupInv, SetupTypeOK, ServeItem, ServedInv, CreationState
<1>1. /\ items[v] < DemoItems /\ items' = [items EXCEPT ![v] = @ + 1]
      /\ creation' \in {creation, [creation EXCEPT ![c] = GivenUp]}
      /\ UNCHANGED <<server, venues, selection, route>>
  BY DEF ServeItem
<1>2. items' \in [Venue -> Count]
  <2>1. items[v] \in Count
    BY <1>0
  <2>2. items[v] + 1 \in Count
    BY <1>1, <2>1 DEF Count
  <2>. QED
    BY <1>0, <1>1, <2>2
<1>3. \A w \in Venue : items[w] = DemoItems => items'[w] = DemoItems
  <2>1. items[v] # DemoItems
    BY <1>0, <1>1 DEF Count
  <2>. QED
    BY <1>0, <1>1, <2>1
<1>4. \/ creation' = [creation EXCEPT ![c] = creation[c]]
      \/ creation' = [creation EXCEPT ![c] = GivenUp]
  BY <1>0, <1>1
<1>5. creation[c].venue # None /\ creation[c].phase # "done"
  BY <1>0
<1>. QED
  BY <1>0, <1>1, <1>2, <1>3, <1>4, <1>5, GivenUpTyped, CreationKeeps

LEMMA OtherCreateKeeps ==
  ASSUME SetupInv, OtherCreate
  PROVE  SetupInv'
<1>0. /\ SetupTypeOK /\ server \in Seq(Venue)
      /\ UNCHANGED <<items, list, failed, fetch, missed, stored, local, path, by, creation>>
  BY DEF SetupInv, SetupTypeOK, OtherCreate, venues, selection, route
<1>1. PICK v \in Venue \ Range(server) : server' = <<v>> \o server
  BY DEF OtherCreate
<1>2. server' \in Seq(Venue) /\ Range(server) \subseteq Range(server')
  BY <1>0, <1>1, OneMore
<1>3. SetupTypeOK'
  BY <1>0, <1>2 DEF SetupTypeOK
<1>4. ServedInv' /\ ListInv' /\ MenuInv'
  BY <1>0, <1>2 DEF SetupInv, ServedInv, ListInv, MenuInv, Listed, Answered
<1>5. LinksLeadSomewhere' /\ ChoiceInv'
  BY <1>0, <1>2 DEF SetupInv, LinksLeadSomewhere, ChoiceInv
<1>. QED
  BY <1>3, <1>4, <1>5 DEF SetupInv

(* All four POSTs are in: the list is asked for anew or on its way for the *)
(* first time, the choice and the route are the venue that was created.    *)
LEMMA FinishKeeps ==
  ASSUME SetupInv, NEW c \in Creation, Finish(c)
  PROVE  SetupInv'
<1>. DEFINE v == creation[c].venue
            crossed == creation[c].get \in 0 .. DemoItems - 1
            done == [creation[c] EXCEPT
                       !.phase = "done", !.here = FALSE, !.menu = DemoItems,
                       !.crossed = crossed]
<1>0. /\ SetupTypeOK /\ creation \in [Creation -> CreationState]
      /\ creation[c] \in CreationState /\ v \in Venue /\ v \in Range(server)
      /\ v # None /\ items[v] = DemoItems
      /\ UNCHANGED <<server, items, list>>
  BY DEF SetupInv, SetupTypeOK, Finish, ServedInv, CreationState, service
<1>1. /\ failed' \in BOOLEAN /\ missed' \subseteq Venue
      /\ \/ fetch' = Loading
         \/ /\ fetch' = fetch /\ fetch # None /\ missed \subseteq missed'
            /\ Answered => v \in Range(fetch) \cup missed'
  BY <1>0 DEF Finish, Invalidate, Fetch, Share, SetupTypeOK, Answered
<1>2. /\ stored' = v /\ local' \in Known \cup {None, Refused}
      /\ path' = At("menu", v) /\ by' = "choice"
  BY <1>0 DEF Finish, selectVenue, Known
<1>3. At("menu", v) \in Path /\ At("menu", v).venue = v
  BY <1>0, PlacesArePaths DEF Known
<1>4. creation' = [d \in Creation |-> IF d # c THEN Entered(d, At("menu", v)) ELSE done]
  BY DEF Finish
<1>5. /\ done \in CreationState /\ done.phase = "done" /\ done.venue = v
      /\ done.menu = DemoItems /\ done.get = creation[c].get
      /\ creation[c].get \in 0 .. DemoItems - 1 => done.crossed
  <2>1. crossed \in BOOLEAN /\ (creation[c].get \in 0 .. DemoItems - 1 => crossed)
    OBVIOUS
  <2>. HIDE DEF crossed
  <2>2. DemoItems \in Count
    BY DEF Count
  <2>3. done \in CreationState /\ done.crossed = crossed
    BY <1>0, <2>1, <2>2 DEF CreationState
  <2>4. done.phase = "done" /\ done.venue = v /\ done.menu = DemoItems /\ done.get = creation[c].get
    BY <1>0 DEF CreationState
  <2>. QED
    BY <2>1, <2>3, <2>4
<1>. HIDE DEF done
<1>6. /\ creation'[c] = done
      /\ \A d \in Creation \ {c} : creation'[d] = Entered(d, At("menu", v))
      /\ creation' \in [Creation -> CreationState]
  BY <1>0, <1>3, <1>4, <1>5, EnteredKeeps
<1>7. \A d \in Creation \ {c} :
        /\ creation'[d].phase = creation[d].phase /\ creation'[d].venue = creation[d].venue
        /\ creation'[d].menu = creation[d].menu /\ creation'[d].crossed = creation[d].crossed
        /\ \/ creation'[d].get = creation[d].get
           \/ /\ creation'[d].get = Loading
              /\ creation[d].phase = "posting" /\ creation[d].venue # None
  BY <1>0, <1>3, <1>6, EnteredKeeps
<1>8. SetupTypeOK'
  BY <1>0, <1>1, <1>2, <1>3, <1>6 DEF SetupTypeOK, Known
<1>9. ServedInv' /\ ListInv'
  <2>1. Listed' = Listed /\ fetch' # None /\ (Answered' => Answered /\ fetch' = fetch)
    BY <1>0, <1>1 DEF Listed, Answered
  <2>2. ServedInv'
    BY <1>0, <1>5, <1>6, <1>7, <2>1 DEF SetupInv, ServedInv
  <2>3. ListInv'
    <3>. SUFFICES ASSUME NEW d \in Creation, creation'[d].phase = "done", Answered'
                  PROVE  creation'[d].venue \in Range(fetch') \cup missed'
      BY <2>1 DEF ListInv
    <3>1. /\ Answered /\ fetch' = fetch /\ missed \subseteq missed'
          /\ v \in Range(fetch) \cup missed'
      BY <1>1, <2>1 DEF Answered
    <3>. QED
      BY <1>5, <1>6, <1>7, <3>1 DEF SetupInv, ListInv
  <2>. QED
    BY <2>2, <2>3
<1>10. MenuInv'
  <2>1. DemoItems \notin 0 .. DemoItems - 1 /\ Loading \notin 0 .. DemoItems - 1
    OBVIOUS
  <2>. SUFFICES ASSUME NEW d \in Creation, creation'[d].phase = "done"
                PROVE  /\ items'[creation'[d].venue] = DemoItems
                       /\ creation'[d].menu \in 0 .. DemoItems - 1 => creation'[d].crossed
                       /\ creation'[d].get \in 0 .. DemoItems - 1 => creation'[d].crossed
    BY DEF MenuInv
  <2>2. CASE d = c
    BY <1>0, <1>5, <1>6, <2>1, <2>2
  <2>3. CASE d # c
    BY <1>0, <1>7, <2>1, <2>3 DEF SetupInv, MenuInv
  <2>. QED
    BY <2>2, <2>3
<1>11. LinksLeadSomewhere' /\ ChoiceInv'
  BY <1>0, <1>2, <1>3 DEF LinksLeadSomewhere, ChoiceInv
<1>. QED
  BY <1>8, <1>9, <1>10, <1>11 DEF SetupInv

-----------------------------------------------------------------------------
LEMMA SetupStep == ASSUME SetupInv, [SetupNext]_vars PROVE SetupInv'
<1>1. CASE UNCHANGED vars
  BY <1>1 DEF vars, service, venues, selection, route, SetupInv, SetupTypeOK, ServedInv,
              ListInv, MenuInv, LinksLeadSomewhere, ChoiceInv, Listed, Answered
<1>2. CASE FetchAnswered \/ FetchLands \/ FetchFails
  BY <1>2, FetchKeeps
<1>3. CASE \E v \in Venue : Pick(v)
  BY <1>3, PickKeeps
<1>4. CASE \E screen \in {"overview", "other"} \cup VenueScreen : Follow(screen)
  BY <1>4, FollowKeeps
<1>5. CASE GoBack \/ Reload \/ NewVenue \/ OtherCreate
  BY <1>5, HistoryKeeps, ReloadKeeps, NewVenueKeeps, OtherCreateKeeps
<1>6. CASE \E c \in Creation : MenuAnswered(c) \/ MenuLands(c) \/ MenuFails(c)
  BY <1>6, MenuKeeps
<1>7. CASE \E c \in Creation : Create(c) \/ ServeVenue(c) \/ ServeItem(c)
  BY <1>7, CreateKeeps, ServeVenueKeeps, ServeItemKeeps
<1>8. CASE \E c \in Creation : PostFails(c) \/ Finish(c)
  BY <1>8, PostFailsKeeps, FinishKeeps
<1>. QED
  BY <1>1, <1>2, <1>3, <1>4, <1>5, <1>6, <1>7, <1>8 DEF SetupNext

(* The inductive invariant holds in every behaviour of the page, of        *)
(* menu-service and of the other browsers.                                 *)
THEOREM SetupInvariance == SetupSpec => []SetupInv
<1>1. SetupInit => SetupInv
  BY SetupInitial
<1>2. SetupInv /\ [SetupNext]_vars => SetupInv'
  BY SetupStep
<1>. QED
  BY <1>1, <1>2, PTL DEF SetupSpec

(* Every variable of the setup keeps values of its kind, however many      *)
(* venues, items and creations there are.                                  *)
THEOREM SetupIsTyped == SetupSpec => []SetupTypeOK
<1>1. SetupInv => SetupTypeOK
  BY DEF SetupInv
<1>. QED
  BY <1>1, SetupInvariance, PTL

(* What the card reported created is there: all its items at menu-service, *)
(* the venue in every list that is not being fetched or in error, but for  *)
(* a page's first one, answered before the venue was created; and no       *)
(* shorter menu on the page but from a GET answered before the last POST.  *)
THEOREM CreationsAreThere == SetupSpec => []CreatedIsThere
<1>1. SetupInv => CreatedIsThere
  BY DEF SetupInv, ListInv, MenuInv, CreatedIsThere
<1>. QED
  BY <1>1, SetupInvariance, PTL

(* A route to a venue menu-service does not have comes from the history or *)
(* a bookmark: the links, the switcher and the card never make one.        *)
THEOREM NoDeadLinks == SetupSpec => []LinksLeadSomewhere
<1>1. SetupInv => LinksLeadSomewhere
  BY DEF SetupInv
<1>. QED
  BY <1>1, SetupInvariance, PTL

(* While the remembered choice is in the list, a chosen route and the      *)
(* header's switcher name the same venue.                                  *)
THEOREM HeaderIsTheScreen == SetupSpec => []HeaderAgreesWithScreen
<1>1. SetupInv => HeaderAgreesWithScreen
  BY HeaderListed DEF SetupInv, ChoiceInv, HeaderAgreesWithScreen
<1>. QED
  BY <1>1, SetupInvariance, PTL
=============================================================================
