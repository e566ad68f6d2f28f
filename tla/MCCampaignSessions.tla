--------------------------- MODULE MCCampaignSessions ---------------------------
(***************************************************************************)
(* Instances of CampaignSessions for TLC: the DM and one player, two       *)
(* sessions and two handlers; one request of every kind, those that begin  *)
(* a schedule with and without a timezone.                                 *)
(***************************************************************************)
EXTENDS CampaignSessions, TLC

CONSTANTS p1, s1, s2, text, new, early, late, slot

Rq(op, by, session) ==
    [op |-> op, by |-> by, session |-> session, player |-> p1, text |-> new,
     entry |-> early, slot |-> slot, zoned |-> TRUE]

Plain(ops, by) == {Rq(op, by, s) : op \in ops, s \in SessionIds}

Zoneless(requests) == {[r EXCEPT !.zoned = FALSE] : r \in requests}

AllRequests ==
    {[Rq(op, DM, s1) EXCEPT !.text = text] : op \in {"add", "archive", "restore"}}
    \cup {Rq(op, DM, s1) : op \in {"delete", "dropSlot", "putAvail"}} \cup Plain({"putSlot"}, DM)
    \cup Zoneless({Rq("putSlot", DM, s1), Rq("putAvail", DM, s1)})
    \cup Plain({"putAvail"}, p1)
    \cup {[Rq("putAvail", p1, s1) EXCEPT !.entry = late], Rq("edit", DM, s1)}
    \cup {Rq(op, p1, s1) : op \in {"dropAvail", "putNote", "dropNote"}}

Many(ss) == \E s, t \in SessionIds : s # t /\ Exists(ss, s) /\ Exists(ss, t)

\* No array changes while a handler holds a copy of it that it may write.
CopiesAreCurrent ==
    sessions' # sessions =>
        \A h \in Handlers : worker[h].stage = "store" => worker'[h].stage = "idle"

\* A bound: copies are stale, and stale ones written, only while there is one
\* session.
BoundedSpec ==
    Init /\ [][Next /\ (Many(sessions) \/ Many(sessions') => CopiesAreCurrent /\ ~stale')]_vars

HandlersAlike == Permutations(Handlers)
=============================================================================
