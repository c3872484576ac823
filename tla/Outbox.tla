------------------------------- MODULE Outbox -------------------------------
(***************************************************************************)
(* menu-service's outbox table, the one thing its request transactions and *)
(* its relay share.                                                        *)
(***************************************************************************)
EXTENDS Integers

CONSTANT Item    \* the UUIDs create() may draw for new items

VARIABLE outbox  \* committed rows of the outbox table

EventType == {"ItemCreated", "ItemUpdated", "ItemDeleted"}

\* claim abstracts claimed_at: null, within CLAIM_LEASE, or older than it;
\* published abstracts published_at being non-null.
OutboxRow == [id : Nat \ {0}, item : Item, version : Nat, type : EventType,
              claim : {"none", "held", "stale"}, published : BOOLEAN]
=============================================================================
