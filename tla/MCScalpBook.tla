----------------------------- MODULE MCScalpBook ----------------------------
(* The scalp book's instances for TLC: one coin with every mishap, two at  *)
(* a time with market entries and adds, or one that leaves an entry or a   *)
(* position behind with limit entries; two coins, so that the limits bite, *)
(* with the mishaps of the closes.                                         *)
EXTENDS ScalpBook, TLC

CONSTANTS c1, c2

Setting(mode, adds, coins, mishaps) ==
    [mode |-> mode, open |-> 2, perSide |-> 1, new |-> 1, adds |-> adds, coins |-> coins, mishaps |-> mishaps]

Tried ==
    {Setting("engine", 1, {c1}, AllMishaps),
     Setting("engine", 0, {c1, c2}, {"bare_flip"}),
     Setting("limit", 0, {c1, c2}, {"partial"})}
    \union {Setting("limit", 0, {c1}, {m}) : m \in {"reply", "part_fill", "late_fill", "cancel", "stopped"}}
=============================================================================
