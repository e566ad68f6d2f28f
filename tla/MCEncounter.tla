------------------------------ MODULE MCEncounter ------------------------------
(***************************************************************************)
(* Instances of Encounter for TLC: two characters, one enemy of the roster *)
(* and room for one enemy added mid-fight.  Two rolls and two names, so    *)
(* that ties of roll, and of roll and name, occur.                         *)
(***************************************************************************)
EXTENDS Encounter, TLC

CONSTANTS p1, p2, f1, a1, e1, e2

MCIds == {p1, p2, f1, a1}
MCRoster == {p1, p2, f1}
MCPCs == {p1, p2}
MCName == (p1 :> 1) @@ (p2 :> 2) @@ (f1 :> 1)
MCSeat == (p1 :> 1) @@ (p2 :> 2) @@ (f1 :> 3)
MCEncounters == {e1, e2}

Rq(op, target, roll, name, skip) ==
    [op |-> op, by |-> DM, target |-> target, roll |-> roll, name |-> name,
     skip |-> skip]

Plain(op) == Rq(op, p1, 0, 0, FALSE)

\* What the DM does at the table.
DMRequests ==
    {Plain(op) : op \in {"start", "endTurn", "resolve"}}
    \cup {Rq("submit", i, n, 0, FALSE) : i \in MCPCs, n \in {1, 2}}
    \cup {Rq("enemy", f1, n, 1, FALSE) : n \in {1, 2}}
    \cup {Rq("addEnemy", a1, 2, 1, FALSE)}
    \cup {Rq("skip", i, 0, 0, s) : i \in {p1, f1}, s \in BOOLEAN}
    \cup {Rq("remove", i, 0, 0, FALSE) : i \in {f1, a1}}

\* With re-sorts, rolls that tie and requests the server turns away.
AllRequests ==
    DMRequests \cup {Plain("resort"), Rq("addEnemy", a1, 1, 1, FALSE)}
    \cup {[Plain("endTurn") EXCEPT !.by = i] : i \in MCPCs}
    \cup {[Plain("start") EXCEPT !.by = p1], Rq("enemy", p2, 1, 2, FALSE)}
    \cup {Rq("remove", p1, 0, 0, FALSE)}

=============================================================================
