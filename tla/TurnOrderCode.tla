----------------------------- MODULE TurnOrderCode -----------------------------
(***************************************************************************)
(* internal/initiative/turnorder.go step by step, on sequences as the Go   *)
(* code builds them, next to the declarative TurnOrder that the tracker    *)
(* modules and the proofs use.  A Go loop over a slice is a function of    *)
(* the number of elements it has passed.                                   *)
(***************************************************************************)
EXTENDS InitiativeOps

-----------------------------------------------------------------------------
\* c.Participants, the Go slice.
Participants(c) ==
    Listing(Present(c),
            {e \in Present(c) \X Present(c) : c.parts[e[1]].seat < c.parts[e[2]].seat})

\* The loops that append what is in the set keep to a new slice.
Filtered(s, keep) ==
    LET out[n \in 0 .. Len(s)] ==
            IF n = 0 THEN <<>>
            ELSE IF s[n] \in keep THEN Append(out[n - 1], s[n]) ELSE out[n - 1]
    IN  out[Len(s)]

\* The less function that sort.SliceStable gets.
Less(c, i, j) ==
    LET p == c.parts[i]
        q == c.parts[j]
    IN  IF p.roll # q.roll THEN p.roll > q.roll ELSE p.name < q.name

\* A stable sort: each one goes in behind all that are not greater.
Inserted(c, s, i) ==
    LET greater == {j \in Range(s) : Less(c, i, j)}
    IN  Append(Filtered(s, Range(s) \ greater), i) \o Filtered(s, greater)

SortParticipants(c, s) ==
    LET out[n \in 0 .. Len(s)] ==
            IF n = 0 THEN <<>> ELSE Inserted(c, out[n - 1], s[n])
    IN  out[Len(s)]

\* idx <= 0 leaves the ids alone: not there, or in front already.
RotateIDsToFront(s, x) ==
    LET places == {k \in DOMAIN s : s[k] = x}
        at == CHOOSE k \in places : \A j \in places : k <= j
    IN  IF places = {} \/ 1 \in places THEN s
        ELSE SubSeq(s, at, Len(s)) \o SubSeq(s, 1, at - 1)

TurnOrderParticipantIDs(c) ==
    LET submitted == {i \in Present(c) : c.parts[i].roll # NoRoll /\ ~c.parts[i].skipped}
        sorted == SortParticipants(c, Filtered(Participants(c), submitted))
        persisted == Filtered(c.order, Range(sorted))
        missing == Filtered(sorted, Range(sorted) \ Range(persisted))
        merged == IF persisted = <<>> THEN sorted ELSE persisted \o missing
    IN  IF c.status # "open" \/ sorted = <<>> THEN <<>>
        ELSE IF c.started THEN RotateIDsToFront(merged, c.current) ELSE sorted

-----------------------------------------------------------------------------
\* The calls that the closure of r makes of c and hands to SyncTurnState.
ClosureOf(r, c) ==
    CASE r.op = "submit" -> {SubmitRoll(c, r)}
      [] r.op = "enemy" -> {SetEnemy(c, r)}
      [] r.op = "addEnemy" -> {AddEnemy(c, r, id) : id \in Ids \ (Roster \cup Present(c))}
      [] r.op = "endTurn" -> {PassTurn(c)}
      [] r.op = "resort" -> {DropOrder(c)}
      [] r.op = "skip" -> {SetSkipped(c, r)}
      [] r.op = "remove" -> {RemoveEnemy(c, r)}
      [] OTHER -> {}

Edited(c) == UNION {ClosureOf(r, c) : r \in {r \in Requests : Authorised(r) /\ Accepts(r, c)}}

\* The order along Merge is the one the Go code arrives at by filtering,
\* sorting, splitting and appending, ties and absent ids included.
OrderAgreesWithCode(c) ==
    \A d \in {c} \cup Edited(c) : TurnOrderIds(d) = TurnOrderParticipantIDs(d)

=============================================================================
