-------------------------- MODULE MCInitiativeTracker --------------------------
(***************************************************************************)
(* Instances of InitiativeTracker for TLC: two characters, one enemy of    *)
(* the roster, one that may be added, and two handlers; for the histories  *)
(* of a fight, one character and two enemies that may be added.            *)
(***************************************************************************)
EXTENDS InitiativeTracker, TLC

CONSTANTS p1, p2, f1, a1, a2, e1, e2, e3

MCIds == {p1, p2, f1, a1}
MCRoster == {p1, p2, f1}
MCPCs == {p1, p2}
MCName == (p1 :> 1) @@ (p2 :> 2) @@ (f1 :> 1)
MCSeat == (p1 :> 1) @@ (p2 :> 2) @@ (f1 :> 3)

FightIds == {p1, f1, a1, a2}
FightRoster == {p1, f1}
FightPCs == {p1}
FightName == (p1 :> 1) @@ (f1 :> 1)
FightSeat == (p1 :> 1) @@ (f1 :> 2)

Rq(op, by, target, roll) ==
    [op |-> op, by |-> by, target |-> target, roll |-> roll, name |-> 1,
     skip |-> op = "skip"]

Plain(op, by) == Rq(op, by, p1, 0)

\* One request of every kind.
AllRequests ==
    {Plain(op, DM) : op \in {"start", "resort", "resolve"}}
    \cup {Plain("endTurn", i) : i \in {DM, p1}}
    \cup {Rq("submit", p1, p1, 2)}
    \cup {Rq("enemy", DM, f1, 2), Rq("addEnemy", DM, p1, 3)}
    \cup {Rq("skip", DM, p1, 0), Rq("remove", DM, f1, 0)}

\* A fight with late enemies: what it takes to roll, freeze, pass, grow and
\* shrink an order, and to end it.
FightRequests ==
    {Plain(op, DM) : op \in {"start", "resolve"}}
    \cup {Plain("endTurn", i) : i \in {DM, p1}}
    \cup {Rq("submit", p1, p1, 2), Rq("addEnemy", DM, p1, 3)}
    \cup {Rq("skip", DM, p1, 0)}

FewRequests ==
    {Plain("start", DM), Plain("resolve", DM), Rq("submit", p1, p1, 2)}

\* Handlers, encounters and the enemies to come are alike.
Alike ==
    Permutations(Handlers) \cup Permutations(Encounters) \cup Permutations({a1, a2})
=============================================================================
