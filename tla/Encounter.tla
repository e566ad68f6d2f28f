------------------------------- MODULE Encounter -------------------------------
(***************************************************************************)
(* What the initiative tracker promises its clients: one call per campaign *)
(* that changes as if every accepted request were carried out in a single  *)
(* step on the stored call.  InitiativeTracker shows how far the handlers, *)
(* which read, compute and write in separate steps, keep that promise.     *)
(* The optimistic-concurrency version is no part of it and stays 1.        *)
(***************************************************************************)
EXTENDS InitiativeOps

CONSTANTS
    NoCall,   \* no call stored for the campaign
    Seats     \* how many places a call has when an enemy may still be added

VARIABLE call

ASSUME NoCallAssumption == NoCall \notin Call
ASSUME SeatsAssumption == Seats \subseteq Nat

Init == call = NoCall

IsOpen == call # NoCall /\ call.status = "open"

Start ==
    \E r \in Requests, e \in Encounters :
        /\ r.op = "start" /\ Authorised(r)
        /\ IF call = NoCall THEN TRUE ELSE e # call.enc
        /\ call' = FreshCall(e)

\* c is the call the mutation starts from.
Accepted(r, c, op) == r.op = op /\ Authorised(r) /\ Accepts(r, c)

Submit(c) == \E r \in Requests :
    Accepted(r, c, "submit") /\ call' = SyncTurnState(SubmitRoll(c, r))

Enemy(c) == \E r \in Requests :
    Accepted(r, c, "enemy") /\ call' = SyncTurnState(SetEnemy(c, r))

\* Seats is a bound of the model: the server sets none, so it stands for Nat.
NewEnemy(c) == \E r \in Requests, id \in Ids \ (Roster \cup Present(c)) :
    /\ Accepted(r, c, "addEnemy")
    /\ c.seats \in Seats
    /\ call' = SyncTurnState(AddEnemy(c, r, id))

EndTurn(c) == \E r \in Requests :
    Accepted(r, c, "endTurn") /\ call' = SyncTurnState(PassTurn(c))

Resort(c) == \E r \in Requests :
    Accepted(r, c, "resort") /\ call' = SyncTurnState(DropOrder(c))

Skip(c) == \E r \in Requests :
    Accepted(r, c, "skip") /\ call' = SyncTurnState(SetSkipped(c, r))

Remove(c) == \E r \in Requests :
    Accepted(r, c, "remove") /\ call' = SyncTurnState(RemoveEnemy(c, r))

Mutation(c) ==
    \/ Submit(c) \/ Enemy(c) \/ NewEnemy(c) \/ EndTurn(c)
    \/ Resort(c) \/ Skip(c) \/ Remove(c)

Mutate == IsOpen /\ Mutation(call)

Resolve ==
    /\ \E r \in Requests : r.op = "resolve" /\ Authorised(r)
    /\ IsOpen
    /\ call' = Resolved(call)

\* MongoDB's TTL index deletes the call once resolvedAt is a day old.
Expire ==
    /\ call # NoCall /\ call.expires
    /\ call' = NoCall

Next == Start \/ Mutate \/ Resolve \/ Expire

Spec == Init /\ [][Next]_call

(***************************************************************************)
(* Play goes on: as long as two or more take turns, somebody keeps ending  *)
(* them (weak fairness of EndTurn, with its enabling condition spelt out). *)
(* Only the liveness property below uses this; it is an assumption about   *)
(* the table, not the server.                                              *)
(***************************************************************************)
TurnsToEnd == IsOpen /\ Cardinality(Eligible(call)) > 1

PlayedSpec == Spec /\ ([]<>~TurnsToEnd \/ []<><<IsOpen /\ EndTurn(call)>>_call)

(***************************************************************************)
(* A mutation that was computed from the call while it was open and is     *)
(* written after it was resolved: Resolve leaves the version alone, so the *)
(* write goes through and the call is open again.                          *)
(***************************************************************************)
AsOpen(c) == [c EXCEPT !.status = "open", !.expires = FALSE]

Reopen ==
    /\ call # NoCall /\ call.status = "resolved"
    /\ Mutation(AsOpen(call))

LateSpec == Init /\ [][Next \/ Reopen]_call

-----------------------------------------------------------------------------
SameEncounter == call # NoCall /\ call'# NoCall /\ call'.enc = call.enc

\* In a running cycle only Resort moves anyone forward, and it leaves the turn
\* where it is: whoever stays keeps his place among those who stay, and whoever
\* joins, or rejoins after having been skipped, queues up behind all of them
\* ("later additions are appended again rather than silently reshuffling the
\* round").  As the first in the order acts, the one who acts keeps the turn,
\* and when he is skipped or removed it goes to the next who still takes part.
\* A late write that reopens a resolved call is bound by it as well.
OrderIsFrozen ==
    [][ /\ SameEncounter /\ call.started
        => \/ EndTurn(AsOpen(call))
           \/ Resort(AsOpen(call)) /\ call'.current = call.current
           \/ \A i, j \in DOMAIN call'.order :
                 i < j /\ call'.order[j] \in Range(call.order)
                 => /\ call'.order[i] \in Range(call.order)
                    /\ PositionOf(call'.order[i], call.order)
                         < PositionOf(call'.order[j], call.order) ]_call

\* Nobody who takes part waits for ever while turns are being ended, whoever is
\* added, skipped, resumed or re-rolled meanwhile, unless the DM re-sorts again
\* and again (each re-sort can move the same participant back).
TakesPart(i) == IsOpen /\ i \in Eligible(call)
ActsNow(i) == call # NoCall /\ call.current = i
EveryoneGetsATurn ==
    \/ []<><<IsOpen /\ Resort(call)>>_call
    \/ \A i \in Ids : []<>(TakesPart(i) => ActsNow(i))

=============================================================================
