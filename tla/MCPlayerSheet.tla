----------------------------- MODULE MCPlayerSheet -----------------------------
(***************************************************************************)
(* An instance of PlayerSheet for TLC: two abilities of which the first is *)
(* updated, spent, restored and reset by two handlers in every order, and  *)
(* a purse of a few electrum and gold pieces changed into each other.      *)
(***************************************************************************)
EXTENDS PlayerSheet, TLC

CONSTANTS a, b

Rq(op, patch, max, resets) ==
    [op |-> op, id |-> a, patch |-> patch, max |-> max, resets |-> resets]

Plain(op) == Rq(op, {}, 1, FALSE)

AllRequests ==
    {Plain(op) : op \in {"remove", "use", "restore", "reset"}}
    \cup {Rq("add", {}, 2, resets) : resets \in BOOLEAN}
    \cup {Rq("update", {"resets"}, 1, resets) : resets \in BOOLEAN}
    \cup {Rq("update", {"max"}, max, FALSE) : max \in {1, 3}}
    \cup {Rq("update", {"max", "resets"}, 1, FALSE)}

Coin(d, n) == [x \in Denominations |-> IF x = d THEN n ELSE 0]

\* Earned, spent, and changed by hand: two debits at once.
FewAdjustments ==
    {Coin("ep", 1), Coin("ep", -1)} \cup {[Coin("gp", -1) EXCEPT !["ep"] = -1]}

HandlersAlike == Permutations(Handlers)
=============================================================================
