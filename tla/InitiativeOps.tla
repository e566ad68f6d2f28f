----------------------------- MODULE InitiativeOps -----------------------------
(***************************************************************************)
(* What each initiative handler does to the call it has read: the mutate   *)
(* closures that internal/handler/initiative.go passes to mutateWithRetry, *)
(* the fresh call of Start and the write of store.Resolve.                 *)
(*                                                                         *)
(* A player character's participant id is the id of its player here (the   *)
(* code prefixes it with "player-"), so PlayerID needs no field of its own *)
(* and the members who may call are the DM and the player characters.      *)
(***************************************************************************)
EXTENDS TurnOrder

CONSTANTS
    PCs,          \* participants of kind "player": the campaign's characters
    Roster,       \* what Start puts into a call: PCs and the DM's NPCs, enemies
    RosterName,   \* the name of each roster member
    RosterSeat,   \* its place in the list Start builds
    RosterSize,   \* the number of places in that list
    DM,           \* the member with IsDM
    Requests      \* the requests clients may send

Members == PCs \cup {DM}

Ops == {"start", "submit", "enemy", "addEnemy", "endTurn", "resort", "skip",
        "remove", "resolve"}

\* One shape for every request; an operation reads the fields it needs.
Request == [op : Ops, by : Members, target : Ids, roll : Int, name : Nat,
            skip : BOOLEAN]

ASSUME RosterAssumption ==
    /\ PCs \subseteq Roster /\ Roster \subseteq Ids /\ DM \notin Ids
    /\ IsFiniteSet(Roster)
    /\ RosterSize \in Nat
    /\ RosterName \in [Roster -> Nat]
    /\ RosterSeat \in [Roster -> 1 .. RosterSize]
    /\ \A i, j \in Roster : RosterSeat[i] = RosterSeat[j] => i = j

ASSUME RequestsAssumption == Requests \subseteq Request

-----------------------------------------------------------------------------
\* The handlers answer 403 to anyone else before they look at the call.
Authorised(r) ==
    \/ r.by = DM
    \/ r.op = "submit" /\ r.by = r.target
    \/ r.op = "endTurn"

\* Whether the closure lets the request go on, given the call it has read.
Accepts(r, c) ==
    \/ r.op = "submit" /\ r.target \in Present(c) /\ r.target \in PCs
    \/ r.op = "enemy" /\ r.target \in Present(c)
    \/ r.op = "addEnemy"
    \/ /\ r.op = "endTurn"
       /\ TurnOrderIds(c) # <<>>
       /\ r.by \in {DM, Head(TurnOrderIds(c))}
    \/ r.op = "resort"
    \/ r.op = "skip" /\ r.target \in Present(c)
    \/ /\ r.op = "remove" /\ r.target \in Present(c)
       /\ c.parts[r.target].kind = "enemy"

SubmitRoll(c, r) == [c EXCEPT !.parts[r.target].roll = r.roll]

SetEnemy(c, r) == [c EXCEPT !.parts[r.target].roll = r.roll,
                            !.parts[r.target].name = r.name]

\* id is the uuid of the new participant.
AddEnemy(c, r, id) ==
    LET enemy == [kind |-> "enemy", name |-> r.name, roll |-> r.roll,
                  skipped |-> FALSE, seat |-> c.seats + 1]
    IN  [c EXCEPT !.parts[id] = enemy, !.seats = @ + 1]

\* A mutant: the first two merely change places.
PassBySwap(c) ==
    LET ids == TurnOrderIds(c)
        next == IF Len(ids) = 1 THEN ids
                ELSE <<ids[2], ids[1]>> \o SubSeq(ids, 3, Len(ids))
    IN  [c EXCEPT !.order = next, !.current = Head(next), !.started = TRUE]

PassTurn(c) ==
    LET ids == TurnOrderIds(c)
        next == Tail(ids) \o <<Head(ids)>>
    IN  [c EXCEPT !.order = next, !.current = Head(next), !.started = TRUE]

SetSkipped(c, r) == [c EXCEPT !.parts[r.target].skipped = r.skip]

\* An id occurs in an order at most once, so dropping it is dropping one place.
Without(s, x) ==
    IF x \in Range(s)
    THEN LET k == PositionOf(x, s)
         IN  SubSeq(s, 1, k - 1) \o SubSeq(s, k + 1, Len(s))
    ELSE s

\* A mutant: tidies up by dropping the whole order.
RemoveAndResort(c, r) ==
    [c EXCEPT !.parts[r.target] = Absent, !.order = <<>>,
              !.current = IF @ = r.target THEN NoId ELSE @]

RemoveEnemy(c, r) ==
    [c EXCEPT !.parts[r.target] = Absent,
              !.order = Without(@, r.target),
              !.current = IF @ = r.target THEN NoId ELSE @]

FreshCall(e) ==
    [enc |-> e, version |-> 1, status |-> "open",
     parts |-> [i \in Ids |->
                   IF i \in Roster
                   THEN [kind |-> IF i \in PCs THEN "player" ELSE "enemy",
                         name |-> RosterName[i], roll |-> NoRoll,
                         skipped |-> FALSE, seat |-> RosterSeat[i]]
                   ELSE Absent],
     seats |-> RosterSize, order |-> <<>>, current |-> NoId, started |-> FALSE,
     expires |-> FALSE]

Resolved(c) == [c EXCEPT !.status = "resolved", !.expires = TRUE]

-----------------------------------------------------------------------------
\* Ending as many turns as there are participants is a round: everybody acts
\* exactly once in it and the order comes back.
RoundIsFair(c) ==
    LET takers == Eligible(c)
        n == Cardinality(takers)
        after[k \in Nat] ==
            IF k = 0 THEN c ELSE SyncTurnState(PassTurn(after[k - 1]))
    IN  takers # {}
        => /\ {after[k].current : k \in 0 .. n - 1} = takers
           /\ after[n].order = c.order

=============================================================================
