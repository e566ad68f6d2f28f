------------------------------- MODULE TurnOrder -------------------------------
(***************************************************************************)
(* The turn order of an initiative call: internal/initiative/turnorder.go  *)
(* over the documents of internal/model/initiative.go.                     *)
(*                                                                         *)
(* A participant list is a function from ids to participants, Absent where *)
(* the list has no such id.  The position in the Go slice survives as the  *)
(* field seat, because the stable sort breaks a tie of roll and name with  *)
(* it.  A name is a number: only the order of two names matters.  The      *)
(* field expires stands for a present resolvedAt, the key of the store's   *)
(* TTL index.                                                              *)
(***************************************************************************)
EXTENDS Integers, Sequences, FiniteSets, Functions

CONSTANTS
    Ids,         \* participant ids that may occur in a call
    Encounters,  \* values of InitiativeCall.ID (a fresh uuid per Start)
    NoId,        \* the empty CurrentTurnParticipantID
    NoRoll,      \* a nil Initiative
    Absent       \* stands for the participant of an id that is not listed

ASSUME NoIdAssumption == NoId \notin Ids
ASSUME NoRollAssumption == NoRoll \notin Int

Participant == [kind : {"player", "enemy"}, name : Nat, roll : Int \cup {NoRoll},
                skipped : BOOLEAN, seat : Nat]

ASSUME AbsentAssumption == Absent \notin Participant

\* seats counts the places ever given in the participant list of this call.
Call == [enc : Encounters, version : Nat, status : {"open", "resolved"},
         parts : [Ids -> Participant \cup {Absent}], seats : Nat,
         order : Seq(Ids), current : Ids \cup {NoId}, started : BOOLEAN,
         expires : BOOLEAN]

-----------------------------------------------------------------------------
Present(c) == {i \in Ids : c.parts[i] # Absent}

\* Rolled and not skipped: the participants that take turns.
Eligible(c) ==
    {i \in Present(c) : c.parts[i].roll # NoRoll /\ ~c.parts[i].skipped}

\* SortParticipants: higher roll first, then name, then list position.
SortsBefore(p, q) ==
    \/ p.roll > q.roll
    \/ p.roll = q.roll /\ p.name < q.name
    \/ p.roll = q.roll /\ p.name = q.name /\ p.seat < q.seat

\* The finite set S written out along the strict order R, first to last: the
\* element in place k is the one that k - 1 others precede.
Listing(S, R) ==
    [k \in 1 .. Cardinality(S) |->
        CHOOSE x \in S : Cardinality({y \in S : <<y, x>> \in R}) = k - 1]

\* The frozen part of the order: nothing before the first turn has ended.
Frozen(c) == IF c.started THEN c.order ELSE <<>>

\* persisted before missing: ids of the frozen order keep their places, the
\* others follow them by initiative.
Merge(c) ==
    LET frozen == Frozen(c)
        Precedes(x, y) ==
            \/ \E i, j \in DOMAIN frozen :
                   i < j /\ frozen[i] = x /\ frozen[j] = y
            \/ x \in Range(frozen) /\ y \notin Range(frozen)
            \/ /\ {x, y} \cap Range(frozen) = {}
               /\ SortsBefore(c.parts[x], c.parts[y])
    IN  {e \in Eligible(c) \X Eligible(c) : Precedes(e[1], e[2])}

PositionOf(x, s) == CHOOSE k \in DOMAIN s : s[k] = x

\* A mutant: rotates one place too far.
RotatePastFront(s, x) ==
    IF x \in Range(s)
    THEN LET k == PositionOf(x, s)
         IN  SubSeq(s, k + 1, Len(s)) \o SubSeq(s, 1, k)
    ELSE s

RotateToFront(s, x) ==
    IF x \in Range(s)
    THEN LET k == PositionOf(x, s)
         IN  SubSeq(s, k, Len(s)) \o SubSeq(s, 1, k - 1)
    ELSE s

TurnOrderIds(c) ==
    IF c.status # "open" THEN <<>>
    ELSE LET merged == Listing(Eligible(c), Merge(c))
         IN  IF c.started THEN RotateToFront(merged, c.current) ELSE merged

\* Resort: forget the frozen order; the next SyncTurnState rebuilds it.
DropOrder(c) == [c EXCEPT !.order = <<>>]

\* A mutant: an empty order leaves the turn where it was.
SyncKeepingTurn(c) ==
    LET ids == TurnOrderIds(c)
    IN  [c EXCEPT !.order = ids,
                  !.current = IF ids = <<>> THEN @ ELSE Head(ids)]

SyncTurnState(c) ==
    LET ids == TurnOrderIds(c)
    IN  [c EXCEPT !.order = ids,
                  !.current = IF ids = <<>> THEN NoId ELSE Head(ids)]

-----------------------------------------------------------------------------
IsListingOf(s, S) ==
    /\ Len(s) = Cardinality(S)
    /\ Range(s) = S

\* What SyncTurnState establishes: the stored order names each participant that
\* takes turns exactly once and the current turn is its head.
TurnStateInSync(c) ==
    /\ IsListingOf(c.order, Eligible(c))
    /\ c.current = IF c.order = <<>> THEN NoId ELSE Head(c.order)

=============================================================================
