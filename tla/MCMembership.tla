------------------------------ MODULE MCMembership -----------------------------
(***************************************************************************)
(* An instance of Membership for TLC: a DM and a player, four player ids,  *)
(* two handlers and every kind of request, some of them overreaching.      *)
(***************************************************************************)
EXTENDS Membership, TLC

CONSTANTS dm, ann

Rq(op, by, player) ==
    [op |-> op, by |-> by, user |-> ann, player |-> player, patch |-> {}]

AllRequests ==
    {Rq(op, dm, NoPlayer) : op \in {"create", "addPlayer", "addNPC", "drop"}}
    \cup {Rq("addPet", dm, i) : i \in PlayerIds}
    \cup {Rq("addPet", ann, NoPlayer)}
    \cup {Rq("delete", by, i) : by \in Users, i \in PlayerIds}
    \cup {[Rq("update", by, i) EXCEPT !.patch = Fields] : by \in Users, i \in PlayerIds}

Alike == Permutations(Handlers) \cup Permutations(PlayerIds)
=============================================================================
