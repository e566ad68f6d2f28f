--------------------------- MODULE MCContentRequests ---------------------------
(***************************************************************************)
(* Instances of ContentRequests for TLC: two players, one request and two  *)
(* entries at a time, two handlers.                                        *)
(***************************************************************************)
EXTENDS ContentRequests, TLC

CONSTANTS p1, p2, q1, e1, e2, old, new

Plain(op, by) ==
    [op |-> op, by |-> by, request |-> q1, entry |-> e1, kind |-> "create",
     content |-> new, seenBy |-> {p1}, player |-> p1]

Old(c) == [c EXCEPT !.content = old]
Shared(c) == [c EXCEPT !.seenBy = Players]

\* The queue: a proposal, everybody's say in it, and the entry it leads to.
QueueCalls ==
    {Plain("propose", p1), [Plain("propose", p1) EXCEPT !.kind = "edit"]}
    \cup {Plain("withdraw", p1), Old(Plain("revise", p1)), Plain("take", p1)}
    \cup {Shared(Plain("approve", DM)), Plain("approve", DM), Plain("deny", DM)}
    \cup {Plain("delete", DM)}

\* The entries: made, shown, hidden and removed while players hold them.
EntryCalls ==
    {Shared(Plain("create", DM)), Shared(Plain("reshare", DM)), Plain("reshare", DM)}
    \cup {Plain("delete", DM), Old(Plain("rewrite", DM))}
    \cup {[Plain("take", by) EXCEPT !.player = p2] : by \in {DM, p2}}
    \cup {[Plain("drop", p2) EXCEPT !.player = p2]}

AllCalls == QueueCalls \cup EntryCalls

HandlersAlike == Permutations(Handlers)
=============================================================================
