---------------------------- MODULE MenuService ----------------------------
(***************************************************************************)
(* menu-service: the request transactions of ItemRepository and the relay  *)
(* loop of OutboxRelay, which share the outbox table and nothing else.     *)
(***************************************************************************)
EXTENDS MenuRepository, OutboxRelay

relayOwn == <<relayPc, claimedRow, topic, faults, overrun, givenUp>>
repositoryOwn == <<venues, items, nextOutboxId, txVars>>
serviceVars == <<vars, relayOwn>>

ServiceInit == RepositoryInit /\ RelayInit

ServiceNext ==
    \/ RepositoryNext /\ UNCHANGED relayOwn
    \/ RelayNext /\ UNCHANGED repositoryOwn

ServiceSpec == ServiceInit /\ [][ServiceNext]_serviceVars /\ RelayFairness

-----------------------------------------------------------------------------
writes == [i \in Item |-> IF items[i].status = "absent" THEN 0 ELSE items[i].version + 1]

published == [k \in DOMAIN topic |-> [item |-> topic[k].item, version |-> topic[k].version]]

Events == INSTANCE MenuEvents WITH written <- writes, log <- published

(* menu-service keeps the promise of MenuEvents: the items table and the   *)
(* topic never diverge, although the outbox and the relay come between.    *)
ImplementsMenuEvents == Events!EventsSpec

(* Every committed write reaches the topic, through failed sends, failed   *)
(* transactions and crashes of the relay.                                  *)
EveryWritePublished == Events!EveryWritePublished

(* With one relay instance consumers see the events of an item once each   *)
(* and in the order of its versions until the first fault; after that one  *)
(* comes late only as a repetition, or when its row was claimed and not    *)
(* sent: the relay passes by such a row until its lease ends.              *)
PublishedInOrder ==
    \A k \in DOMAIN topic : \A j \in 1 .. k - 1 :
        topic[j].item = topic[k].item /\ topic[j].version >= topic[k].version =>
            /\ faults > 0
            /\ topic[k].eventId \in givenUp \/ \E l \in 1 .. k - 1 : topic[l] = topic[k]
=============================================================================
