----------------------------- MODULE VenueSetup -----------------------------
(***************************************************************************)
(* merchant-web's venues: the card that creates a venue with its sample    *)
(* menu in four POSTs, the list of venues in the query cache, the choice   *)
(* that is remembered in localStorage, and the route, which names a venue  *)
(* of its own.                                                             *)
(*                                                                         *)
(* A menu is the number of its items: the only items here are those of     *)
(* DEMO_ITEMS. What the cache has of it is kept track of for the venues    *)
(* that this page creates; of others MenuEditor tells. menu-service        *)
(* forgets no venue while a page is open; Stale is a venue of an earlier   *)
(* database that the browser remembers.                                    *)
(***************************************************************************)
EXTENDS Integers, Sequences, FiniteSets, Functions

CONSTANTS
    Venue,          \* the ids menu-service gives out
    FirstVenues,    \* what menu-service has at first, newest first
    VenueScreen,    \* the screens of one venue: "menu", "availability"
    Stale,
    ENV_DEFAULT_VENUE_ID,
    DemoItems,      \* how many DEMO_ITEMS there are
    MaxCreations,   \* clicks on "Create venue with sample menu"
    None, Loading, Refused

ASSUME VenueAssumption ==
    /\ IsFiniteSet(Venue) /\ Stale \notin Venue
    /\ "menu" \in VenueScreen /\ VenueScreen \subseteq {"menu", "availability"}
    /\ FirstVenues \in Seq(Venue)
    /\ ENV_DEFAULT_VENUE_ID \in Venue \cup {Stale, None}
    /\ DemoItems \in Nat \ {0} /\ MaxCreations \in Nat
    /\ None \notin Venue \cup {Stale, Loading, Refused} \cup Nat /\ Loading \notin Nat
    /\ None \notin Seq(Venue)

VARIABLES
    server,     \* menu-service's venues, newest first
    items,      \* how many items each has there
    list,       \* query data of ["menu", "venues"]
    failed,     \* isError of that query
    fetch,      \* its GET: None, Loading when sent, or the answer
    missed,     \* history: creations the first GET was answered before and landed after
    stored,     \* selectedVenueId
    local,      \* the remembered id in localStorage, Refused if that throws
    path,
    creation,   \* with query data and GET of ["menu", "items", venue]
    by          \* history: what led to the route

service == <<server, items>>
venues == <<list, failed, fetch, missed>>
selection == <<stored, local>>
route == <<path, by>>
vars == <<service, venues, selection, route, creation>>

Known == Venue \cup {Stale}
Path == [screen : {"overview", "new", "other"}, venue : {None}]
        \cup [screen : VenueScreen, venue : Known]

To(screen) == [screen |-> screen, venue |-> None]
At(screen, v) == [screen |-> screen, venue |-> v]

Creation == 1 .. MaxCreations

NotStarted == [phase |-> "new", venue |-> None, here |-> FALSE,
               menu |-> Loading, get |-> None, crossed |-> FALSE]
GivenUp == [NotStarted EXCEPT !.phase = "failed"]

readStored == IF local = Refused THEN None ELSE local

SetupInit ==
    /\ server = FirstVenues
    /\ items = [v \in Venue |-> IF v \in Range(server) THEN DemoItems ELSE 0]
    /\ list = Loading /\ failed = FALSE /\ fetch = Loading /\ missed = {}
    /\ local \in Range(server) \cup {Stale, None, Refused}
    /\ stored = readStored
    /\ path = To("overview")
    /\ creation = [c \in Creation |-> NotStarted]
    /\ by = "choice"

Listed == IF list = Loading THEN {} ELSE Range(list)

\* Variant: what was chosen needs no list.
TrustTheChoice(choice) == IF choice # None THEN choice ELSE None

(* The choice, else the build's default, else the newest, if it is listed. *)
resolveVenueId(choice) ==
    CASE choice \in Listed -> choice
      [] choice \notin Listed /\ ENV_DEFAULT_VENUE_ID \in Listed -> ENV_DEFAULT_VENUE_ID
      [] Listed \cap {choice, ENV_DEFAULT_VENUE_ID} = {} /\ Listed # {} -> list[1]
      [] OTHER -> None

(* The venue the header names.                                             *)
Header == resolveVenueId(stored)

-----------------------------------------------------------------------------
(* The venue list. *)

(* The list is fetched. The error stays until an answer comes, unless      *)
(* there never was one.                                                    *)
Fetch == fetch' = Loading /\ failed' = (failed /\ list # Loading) /\ missed' = {}

(* What is under way is as good as a GET of one's own; as history, which   *)
(* of the venues just created its answer does not have.                    *)
Share(created) ==
    /\ missed' = missed \cup (IF fetch = Loading THEN {} ELSE created \ Range(fetch))
    /\ UNCHANGED <<fetch, failed>>

\* Variant: a GET that is under way will do.
ShareRefetch(created) ==
    CASE fetch = None -> Fetch
      [] fetch # None /\ list = Loading -> Share(created)
      [] OTHER -> UNCHANGED <<fetch, failed, missed>>

(* invalidateQueries after a creation: a GET under way is cancelled and    *)
(* sent anew, unless it is the first of the list, which is shared.         *)
Invalidate(created) == IF list = Loading /\ fetch # None THEN Share(created) ELSE Fetch

FetchAnswered ==
    /\ fetch = Loading
    /\ fetch' = server
    /\ UNCHANGED <<service, list, failed, missed, selection, route, creation>>

FetchLands ==
    /\ fetch \notin {None, Loading}
    /\ list' = fetch /\ failed' = FALSE /\ fetch' = None
    /\ UNCHANGED <<service, missed, selection, route, creation>>

(* The one retry failed as well; a list that was there before stays.       *)
FetchFails ==
    /\ fetch = Loading
    /\ failed' = TRUE /\ fetch' = None
    /\ UNCHANGED <<service, list, missed, selection, route, creation>>

MenuAnswered(c) ==
    /\ creation[c].get = Loading
    /\ creation' = [creation EXCEPT ![c].get = items[creation[c].venue]]
    /\ UNCHANGED <<service, venues, selection, route>>

MenuLands(c) ==
    /\ creation[c].get \in Nat
    /\ creation' = [creation EXCEPT ![c].menu = creation[c].get, ![c].get = None]
    /\ UNCHANGED <<service, venues, selection, route>>

MenuFails(c) ==
    /\ creation[c].get = Loading
    /\ creation' = [creation EXCEPT ![c].get = None]
    /\ UNCHANGED <<service, venues, selection, route>>

-----------------------------------------------------------------------------
(* Where the operator goes. *)

(* The two venue screens share RequireVenue, the others have a component   *)
(* of their own; each of those but "other" observes the list of venues.    *)
Component(p) == IF p.screen \in VenueScreen THEN "venue" ELSE p.screen

Mounts(p) == Component(p) # Component(path) /\ p.screen # "other"

(* The route becomes p: what mounts fetches, or shares the GET under way;  *)
(* the card that is left keeps no hold of its creation, which goes on. A   *)
(* GET of a menu that is whole brings the same and is left out.            *)
Entered(c, p) ==
    [creation[c] EXCEPT
        !.here = @ /\ Component(p) = Component(path),
        !.get = IF /\ p # path /\ p.venue = creation[c].venue /\ p.venue # None
                   /\ @ = None /\ creation[c].phase = "posting"
                  THEN Loading ELSE @]

Arrive(p) ==
    /\ path' = p
    /\ creation' = [c \in Creation |-> Entered(c, p)]
    /\ IF Mounts(p) /\ fetch = None
         THEN Fetch
         ELSE UNCHANGED <<fetch, failed, missed>>
    /\ UNCHANGED <<service, list>>

(* The links of the navigation, and the card's "Open menu editor".         *)
Target(screen) ==
    CASE screen \notin VenueScreen -> To(screen)
      [] screen \in VenueScreen /\ Header # None -> At(screen, Header)
      [] OTHER -> To("overview")

Follow(screen) ==
    /\ screen # "new"
    /\ Arrive(Target(screen))
    /\ by' = IF stored \in Listed \/ Target(screen).venue = None THEN "choice" ELSE "default"
    /\ UNCHANGED selection

(* The tab's history and the bookmarks may name any venue of now or before.*)
Remembered == Range(server) \cup {Stale}

(* Back, forward. *)
GoBack ==
    /\ \E v \in Remembered, screen \in VenueScreen : Arrive(At(screen, v))
    /\ by' = "history"
    /\ UNCHANGED selection

Reloaded(c) ==
    IF creation[c].phase = "posting"
      THEN GivenUp
      ELSE [creation[c] EXCEPT !.menu = Loading, !.get = None, !.crossed = FALSE]

(* The page is loaded anew: what was in memory is gone, creations that     *)
(* were under way stop where they are. A bookmark is this and GoBack.      *)
Reload ==
    /\ stored' = readStored
    /\ by' = IF by = "choice" /\ stored # readStored THEN "default" ELSE by
    /\ list' = Loading /\ failed' = FALSE /\ fetch' = Loading /\ missed' = {}
    /\ creation' = [c \in Creation |-> Reloaded(c)]
    /\ UNCHANGED <<service, local, path>>

(* Where localStorage throws the choice is good for this page only.        *)
selectVenue(v) == stored' = v /\ local' = IF local = Refused THEN Refused ELSE v

(* The switcher has a menu.                                                *)
SwitcherOpens == ~(list = Loading /\ fetch # None) /\ (Listed # {} \/ failed)

\* Variant: the screen stays where it is.
PickOnly(v) ==
    /\ SwitcherOpens /\ v \in Listed
    /\ selectVenue(v)
    /\ UNCHANGED <<service, venues, route, creation>>

(* The switcher: the choice, and its place in the route if there is one.   *)
Pick(v) ==
    /\ SwitcherOpens /\ v \in Listed
    /\ selectVenue(v)
    /\ IF path.screen \in VenueScreen
         THEN Arrive(At(path.screen, v)) /\ by' = "choice"
         ELSE UNCHANGED <<service, venues, route, creation>>

NewVenue ==
    /\ SwitcherOpens
    /\ Arrive(To("new")) /\ by' = "choice"
    /\ UNCHANGED selection

-----------------------------------------------------------------------------
(* Creating a venue. *)

(* On the overview the form stands in for a venue: also while the list is  *)
(* on its way, and when it could not be had.                               *)
FormShown == path.screen = "new" \/ (path.screen = "overview" /\ Header = None)

Create(c) ==
    /\ FormShown
    /\ creation[c] = NotStarted /\ \A d \in 1 .. c - 1 : creation[d] # NotStarted
    /\ ~\E d \in Creation : creation[d].here
    /\ creation' = [creation EXCEPT ![c] = [@ EXCEPT !.phase = "posting", !.here = TRUE]]
    /\ UNCHANGED <<service, venues, selection, route>>

(* POST /venues is served; its answer arrives, or is lost.                 *)
ServeVenue(c) ==
    /\ creation[c].phase = "posting" /\ creation[c].venue = None
    /\ \E v \in Venue \ Range(server) :
          /\ server' = <<v>> \o server
          /\ creation' \in {[creation EXCEPT ![c].venue = v], [creation EXCEPT ![c] = GivenUp]}
    /\ UNCHANGED <<items, venues, selection, route>>

(* The next POST /venues/{id}/items is.                                    *)
ServeItem(c) ==
    LET v == creation[c].venue IN
    /\ creation[c].phase = "posting" /\ v # None /\ items[v] < DemoItems
    /\ items' = [items EXCEPT ![v] = @ + 1]
    /\ creation' \in {creation, [creation EXCEPT ![c] = GivenUp]}
    /\ UNCHANGED <<server, venues, selection, route>>

(* Some POST is refused or does not get there: what was made stays made,   *)
(* and the list is not fetched.                                            *)
PostFails(c) ==
    /\ creation[c].phase = "posting"
    /\ creation[c].venue # None => items[creation[c].venue] < DemoItems
    /\ creation' = [creation EXCEPT ![c] = GivenUp]
    /\ UNCHANGED <<service, venues, selection, route>>

(* All four answers are in: onSuccess, then the rest of the card's create, *)
(* whether or not the card is still there. A GET of the items that was     *)
(* answered before will overwrite the seed.                                *)
Finish(c) ==
    LET v == creation[c].venue IN
    /\ creation[c].phase = "posting" /\ v # None /\ items[v] = DemoItems
    /\ Invalidate({v})
    /\ selectVenue(v)
    /\ path' = At("menu", v) /\ by' = "choice"
    /\ creation' = [d \in Creation |->
          IF d # c THEN Entered(d, At("menu", v))
          ELSE [creation[c] EXCEPT
                   !.phase = "done", !.here = FALSE, !.menu = DemoItems,
                   !.crossed = creation[c].get \in 0 .. DemoItems - 1]]
    /\ UNCHANGED <<service, list>>

OtherCreate ==
    /\ \E v \in Venue \ Range(server) : server' = <<v>> \o server
    /\ UNCHANGED <<items, venues, selection, route, creation>>

SetupNext ==
    \/ FetchAnswered \/ FetchLands \/ FetchFails
    \/ \E v \in Venue : Pick(v)
    \/ \E screen \in {"overview", "other"} \cup VenueScreen : Follow(screen)
    \/ GoBack \/ Reload \/ NewVenue \/ OtherCreate
    \/ \E c \in Creation :
          MenuAnswered(c) \/ MenuLands(c) \/ MenuFails(c)
          \/ Create(c) \/ ServeVenue(c) \/ ServeItem(c) \/ PostFails(c) \/ Finish(c)

SetupSpec == SetupInit /\ [][SetupNext]_vars

-----------------------------------------------------------------------------
Count == 0 .. DemoItems

CreationState ==
    [phase : {"new", "posting", "failed", "done"}, venue : Venue \cup {None}, here : BOOLEAN,
     menu : Count \cup {Loading}, get : Count \cup {None, Loading}, crossed : BOOLEAN]

(* Every variable has values of its kind.                                  *)
SetupTypeOK ==
    /\ server \in Seq(Venue) /\ items \in [Venue -> Count]
    /\ list = Loading \/ list \in Seq(Venue)
    /\ failed \in BOOLEAN
    /\ fetch \in {None, Loading} \/ fetch \in Seq(Venue)
    /\ missed \subseteq Venue
    /\ stored \in Known \cup {None} /\ local \in Known \cup {None, Refused}
    /\ path \in Path /\ by \in {"choice", "default", "history"}
    /\ creation \in [Creation -> CreationState]

(* What the operator saw created is there: the whole menu at menu-service, *)
(* the venue in the list whenever that is not being fetched or in error,   *)
(* however the POSTs, the GETs and other browsers' venues interleave,      *)
(* unless it is what the page's first GET brought, answered before the     *)
(* venue was created and landing after the last POST; and no page shows    *)
(* the new menu without some of its items, unless a GET answered before    *)
(* the last POST arrived after it.                                         *)
CreatedIsThere ==
    \A c \in Creation : creation[c].phase = "done" =>
        LET v == creation[c].venue IN
        /\ items[v] = DemoItems
        /\ fetch = None /\ ~failed => v \in Listed \cup missed
        /\ creation[c].menu \in 0 .. DemoItems - 1 => creation[c].crossed

(* The app leads to no screen of a venue that is not there: however old    *)
(* the remembered id, the build's default or the list, a venue route that  *)
(* was not taken from the history or a bookmark names a venue of the       *)
(* service.                                                                *)
LinksLeadSomewhere ==
    path.screen \in VenueScreen /\ path.venue \notin Range(server) => by = "history"

(* The header and the screen agree on the venue once the operator's choice *)
(* is in the list: through switches, creations that end on another screen, *)
(* reloads and venues of other browsers. Back, a bookmark, or a link taken *)
(* while the choice was not listed yet, can part them.                     *)
HeaderAgreesWithScreen ==
    path.screen \in VenueScreen /\ by = "choice" /\ stored \in Listed => path.venue = Header

=============================================================================
