----------------------------- MODULE MenuEvents -----------------------------
(***************************************************************************)
(* What menu-service promises to the consumers of menu.events: the writes  *)
(* to an item and the events about it never diverge.  An event is only     *)
(* published for a write that was committed, every committed write is      *)
(* published in the end, at least once; nothing is said about order.       *)
(***************************************************************************)
EXTENDS Integers, Sequences

CONSTANTS Item, MaxVersion

VARIABLES
    written,  \* [Item -> Nat]: how many writes of each item were committed
    log       \* the events published, as [item, version] records

eventVars == <<written, log>>

EventsInit ==
    /\ written = [i \in Item |-> 0]
    /\ log = <<>>

Write(i) ==
    /\ written' = [written EXCEPT ![i] = @ + 1]
    /\ UNCHANGED log

Publish(i, n) ==
    /\ log' = Append(log, [item |-> i, version |-> n])
    /\ UNCHANGED written

EventsNext ==
    \E i \in Item : Write(i) \/ \E n \in 0 .. written[i] - 1 : Publish(i, n)

EventsSpec == EventsInit /\ [][EventsNext]_eventVars

(* Every committed write is published in the end.                          *)
EveryWritePublished ==
    \A i \in Item : \A n \in 0 .. MaxVersion :
        n < written[i] ~> \E k \in DOMAIN log : log[k] = [item |-> i, version |-> n]
=============================================================================
