----------------------------- MODULE WritePath -----------------------------
(***************************************************************************)
(* An edit's way to the availability of its item: menu-service and the     *)
(* consumer of availability-service, which share the menu.events topic and *)
(* nothing else.                                                           *)
(***************************************************************************)
EXTENDS MenuService

CONSTANTS
    Chaos, Overrides, FaultKinds, MaxReplays,  \* of MenuEventConsumer
    MaxConsumerFaults                          \* its MaxFaults

VARIABLES
    committed, position, loop, next, anyFailed, handler, lastEvent, paused,
    redisUnreachable, processed, redis, audited, override, thrown, interrupted,
    overwritten, unanswered, replays,  \* of MenuEventConsumer
    consumerFaults                     \* its faults

\* What a consumer of the topic can meet there.
TopicEvent == [eventId : 1 .. MaxOutboxId, item : Item, version : Nat, type : EventType]

Consumer == INSTANCE MenuEventConsumer
              WITH EventIds <- 1 .. MaxOutboxId, Scripts <- Seq(TopicEvent),
                   faults <- consumerFaults, MaxFaults <- MaxConsumerFaults

ASSUME PathAssumption ==
    /\ Chaos \in BOOLEAN /\ Overrides \subseteq Consumer!Status
    /\ FaultKinds \subseteq Consumer!AllFaults
    /\ MaxConsumerFaults \in Nat /\ MaxReplays \in Nat

consumerOwn == <<committed, position, loop, next, anyFailed, handler, lastEvent, paused,
                 redisUnreachable, processed, redis, audited, override, thrown, interrupted,
                 overwritten, unanswered, replays, consumerFaults>>
serviceOwn == <<vars, relayPc, claimedRow, faults, overrun, givenUp>>

PathInit == ServiceInit /\ Consumer!ConsumerInit

PathNext ==
    \/ ServiceNext /\ UNCHANGED consumerOwn
    \/ Consumer!AvailabilityNext /\ UNCHANGED serviceOwn

PathSpec == PathInit /\ [][PathNext]_<<serviceVars, consumerOwn>>

-----------------------------------------------------------------------------
(* Once its events are published and the consumer has caught up, an item's *)
(* availability is that of its row: the menu and the storefront's answer   *)
(* cannot stay apart, but for what the two services each own up to - a row *)
(* the relay has passed by, an event that threw or was cut off, and a      *)
(* state that a merchant or a replay has put.                              *)
AvailabilityFollowsMenu ==
    Consumer!AtRest => \A i \in Item :
        LET events == {r \in outbox : r.item = i}
        IN  /\ items[i].status # "absent"
            /\ \A r \in events : r.published /\ r.id \notin givenUp \cup thrown \cup interrupted
            /\ i \notin overwritten
            => redis[i] = [status |-> IF items[i].status = "live" THEN "in_stock" ELSE "sold_out",
                           version |-> items[i].version]
=============================================================================
