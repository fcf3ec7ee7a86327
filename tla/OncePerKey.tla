----------------------------- MODULE OncePerKey -----------------------------
(***************************************************************************)
(* What every "act once per cause" path of the backend promises: the       *)
(* effect of a key (a Telegram message, an alert, an order) happens at     *)
(* most once, and what happened is never undone.                           *)
(***************************************************************************)
EXTENDS Naturals

CONSTANT Keys

VARIABLE effect     \* effect[k]: how often the outside world has seen key k

Init == effect = [k \in Keys |-> 0]

Act(k) ==
    /\ effect[k] = 0
    /\ effect' = [effect EXCEPT ![k] = 1]

Next == \E k \in Keys : Act(k)

Spec == Init /\ [][Next]_effect
=============================================================================
