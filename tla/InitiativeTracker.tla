--------------------------- MODULE InitiativeTracker ---------------------------
(***************************************************************************)
(* The initiative tracker as it runs: request handlers (goroutines) of     *)
(* internal/handler/initiative.go against the one call document of         *)
(* internal/store/initiative.go.  A mutation is a Get, the closure on the  *)
(* copy, and UpdateWithVersion, which replaces the whole document if the   *)
(* stored version is still the one read; three tries, then 409.  Start     *)
(* replaces the document whatever is there; Resolve updates it in place    *)
(* without touching the version.                                           *)
(***************************************************************************)
EXTENDS TurnOrderCode

CONSTANTS
    Handlers,    \* requests served at the same time
    NoCall,      \* no document stored for the campaign
    NoRequest,   \* the request of an idle handler
    MaxVersion   \* bound of the model: no mutation is sent from this version on

VARIABLES
    call,        \* the stored document
    worker       \* what each handler is doing

vars == <<call, worker>>

MaxTries == 3

Stages == {"idle", "load", "commit", "start", "resolve", "reread", "publish"}

Worker == [stage : Stages, rq : Requests \cup {NoRequest},
           attempt : 0 .. MaxTries - 1, snap : Call \cup {NoCall}]

Idle == [stage |-> "idle", rq |-> NoRequest, attempt |-> 0, snap |-> NoCall]

ASSUME SentinelAssumption == NoCall \notin Call /\ NoRequest \notin Requests
ASSUME MaxVersionAssumption == MaxVersion \in Nat

TypeOK ==
    /\ call \in Call \cup {NoCall}
    /\ worker \in [Handlers -> Worker]

Init ==
    /\ call = NoCall
    /\ worker = [h \in Handlers |-> Idle]

-----------------------------------------------------------------------------
IsOpen(c) == c # NoCall /\ c.status = "open"

Become(h, stage, snap) ==
    worker' = [worker EXCEPT ![h].stage = stage, ![h].snap = snap]

Answer(h) == worker' = [worker EXCEPT ![h] = Idle]

FirstStage(r) ==
    IF r.op \in {"start", "resolve"} THEN r.op ELSE "load"

\* An authorised request comes in; any other is answered 403 at once.
Receive(h, r) ==
    /\ worker[h].stage = "idle"
    /\ Authorised(r)
    /\ FirstStage(r) = "load" /\ call # NoCall => call.version < MaxVersion
    /\ worker' = [worker EXCEPT ![h].stage = FirstStage(r), ![h].rq = r]
    /\ UNCHANGED call

\* A fresh uuid: no document, stored or in a handler's hands, carries it.
FreshEncounter(e) ==
    /\ call # NoCall => call.enc # e
    /\ \A h \in Handlers : worker[h].snap # NoCall => worker[h].snap.enc # e

StartReplace(h) ==
    /\ worker[h].stage = "start"
    /\ \E e \in Encounters :
          /\ FreshEncounter(e)
          /\ call' = FreshCall(e)
          /\ Become(h, "publish", FreshCall(e))

\* FindOneAndUpdate on {_id, status: open}; without a match the document is
\* read again, in a second round trip.
ResolveOpen(h) ==
    /\ worker[h].stage = "resolve"
    /\ IF IsOpen(call)
       THEN call' = Resolved(call) /\ Become(h, "publish", Resolved(call))
       ELSE UNCHANGED call /\ Become(h, "reread", NoCall)

ResolveReread(h) ==
    /\ worker[h].stage = "reread"
    /\ IF call = NoCall THEN Answer(h) ELSE Become(h, "publish", call)
    /\ UNCHANGED call

\* 404 without an open call, or whatever the closure answers to reject.
LoadRejected(h) ==
    /\ worker[h].stage = "load"
    /\ IsOpen(call) => ~Accepts(worker[h].rq, call)
    /\ Answer(h)
    /\ UNCHANGED call

Load(h) ==
    /\ worker[h].stage = "load"
    /\ IsOpen(call) /\ Accepts(worker[h].rq, call)
    /\ Become(h, "commit", call)
    /\ UNCHANGED call

\* Mutants: a filter on the id only, and one with $gte.
StillThere(h) == call # NoCall

NotOlder(h) == call # NoCall /\ call.version >= worker[h].snap.version

VersionMatches(h) == call # NoCall /\ call.version = worker[h].snap.version

\* A mutant: a $set of the fields, which leaves resolvedAt there.
WriteFields(h, c) ==
    LET next == [SyncTurnState(c) EXCEPT !.version = worker[h].snap.version + 1,
                                         !.expires = call.expires]
    IN  /\ VersionMatches(h)
        /\ call' = next
        /\ Become(h, "publish", next)

\* UpdateWithVersion of the mutated copy c, with its turn state synced.
Write(h, c) ==
    LET next == [SyncTurnState(c) EXCEPT !.version = worker[h].snap.version + 1]
    IN  /\ VersionMatches(h)
        /\ call' = next
        /\ Become(h, "publish", next)

Committing(h, op) == worker[h].stage = "commit" /\ worker[h].rq.op = op

CommitSubmit(h) == Committing(h, "submit")
    /\ Write(h, SubmitRoll(worker[h].snap, worker[h].rq))

CommitEnemy(h) == Committing(h, "enemy")
    /\ Write(h, SetEnemy(worker[h].snap, worker[h].rq))

\* The new uuid is in no document and no request.
FreshId(id) ==
    /\ id \notin Roster
    /\ call # NoCall => id \notin Present(call)
    /\ \A h \in Handlers :
          /\ worker[h].snap # NoCall => id \notin Present(worker[h].snap)
          /\ worker[h].rq # NoRequest => worker[h].rq.target # id

CommitNewEnemy(h) == Committing(h, "addEnemy")
    /\ \E id \in Ids : FreshId(id)
          /\ Write(h, AddEnemy(worker[h].snap, worker[h].rq, id))

CommitEndTurn(h) == Committing(h, "endTurn")
    /\ Write(h, PassTurn(worker[h].snap))

CommitResort(h) == Committing(h, "resort")
    /\ Write(h, DropOrder(worker[h].snap))

CommitSkip(h) == Committing(h, "skip")
    /\ Write(h, SetSkipped(worker[h].snap, worker[h].rq))

CommitRemove(h) == Committing(h, "remove")
    /\ Write(h, RemoveEnemy(worker[h].snap, worker[h].rq))

Commit(h) ==
    \/ CommitSubmit(h) \/ CommitEnemy(h) \/ CommitNewEnemy(h)
    \/ CommitEndTurn(h) \/ CommitResort(h) \/ CommitSkip(h) \/ CommitRemove(h)

\* A mutant: no end of tries.
RetryForever(h) ==
    /\ worker[h].stage = "commit"
    /\ ~VersionMatches(h)
    /\ worker' = [worker EXCEPT ![h].stage = "load", ![h].snap = NoCall]
    /\ UNCHANGED call

\* ErrInitiativeVersionConflict: load again, or answer 409 after the third try.
Conflict(h) ==
    /\ worker[h].stage = "commit"
    /\ ~VersionMatches(h)
    /\ IF worker[h].attempt < MaxTries - 1
       THEN worker' = [worker EXCEPT ![h].stage = "load", ![h].snap = NoCall,
                                     ![h].attempt = @ + 1]
       ELSE Answer(h)
    /\ UNCHANGED call

\* hub.Publish of the snapshot, then 200 (InitiativeHub has the rest).
Publish(h) ==
    /\ worker[h].stage = "publish"
    /\ Answer(h)
    /\ UNCHANGED call

\* A store call fails (500), the client goes away, or the process dies.  After
\* a write this is a write that took effect but is neither published nor
\* acknowledged.
Abort(h) ==
    /\ worker[h].stage # "idle"
    /\ Answer(h)
    /\ UNCHANGED call

\* MongoDB's TTL index deletes the document a day after resolvedAt.
Expire ==
    /\ call # NoCall /\ call.expires
    /\ call' = NoCall
    /\ UNCHANGED worker

Serve(h) ==
    \/ StartReplace(h) \/ ResolveOpen(h) \/ ResolveReread(h)
    \/ LoadRejected(h) \/ Load(h) \/ Commit(h) \/ Conflict(h) \/ Publish(h)

Next ==
    \/ \E h \in Handlers :
          Serve(h) \/ Abort(h) \/ (\E r \in Requests : Receive(h, r))
    \/ Expire

Spec == Init /\ [][Next]_vars

(***************************************************************************)
(* The scheduler runs every goroutine and MongoDB answers every call;      *)
(* nothing obliges clients to send requests.  This is weak fairness of     *)
(* Serve(h), with its enabling condition spelt out: a busy handler always  *)
(* has a next step, since uuids do not run out.                            *)
(***************************************************************************)
FairSpec == Spec /\ \A h \in Handlers :
    []<>(worker[h].stage = "idle") \/ []<><<Serve(h)>>_vars

(***************************************************************************)
(* A handler that has loaded a call writes it before the next Start.  Two  *)
(* encounters number their versions from 1, so without this a write for    *)
(* the previous encounter can match the version of the new one and puts    *)
(* the old one back.  The properties that speak of one encounter's history *)
(* are claimed under QuietSpec.                                            *)
(***************************************************************************)
Starts(h) == worker[h].stage = "start" /\ worker'[h].stage = "publish"

QuietStart ==
    \A h, g \in Handlers : Starts(h) => worker[g].stage # "commit"

QuietSpec == Init /\ [][Next /\ QuietStart]_vars

-----------------------------------------------------------------------------
\* Whatever handlers overlap, the stored order lists exactly the participants
\* that have rolled and are not skipped, and the turn is with the first.
TurnInSync == call # NoCall => TurnStateInSync(call)

\* "Open calls have no resolvedAt, so Mongo's TTL never touches them", also
\* when a stale write has reopened a call that was resolved and armed.
OpenCallsNeverExpire == call # NoCall /\ call.expires => call.status = "resolved"

\* A stored order is stable: who reads the call derives the order stored in it
\* (end-turn starts from the derived one, clients see the stored one).
StoredOrderIsStable == IsOpen(call) => SyncTurnState(call) = call

\* From every call the tracker stores, a round of ended turns is fair, whoever
\* was added, skipped or removed before, and whether it has started yet or not.
ARoundIsFair == IsOpen(call) => RoundIsFair(call)

\* For every call the tracker stores, and every edit of it about to be synced,
\* the order along Merge is the one turnorder.go computes slice by slice.
AgreesWithCode == IsOpen(call) => OrderAgreesWithCode(call)

Commits(h) == worker[h].stage = "commit" /\ worker'[h].stage = "publish"

Content(c) == [c EXCEPT !.status = "open", !.expires = FALSE]

\* A write replaces the very document it was computed from, but for a Resolve
\* in between: no accepted roll, turn, skip or removal is overwritten unseen.
NoLostUpdate ==
    [][\A h \in Handlers :
          Commits(h) => call # NoCall /\ Content(worker[h].snap) = Content(call)]_vars

\* A player's end-turn goes through only while the stored turn is theirs, so
\* sending it twice, or racing the DM, cannot end somebody else's turn.
PlayersEndOnlyTheirTurn ==
    [][\A h \in Handlers :
          Commits(h) /\ worker[h].rq.op = "endTurn" /\ worker[h].rq.by # DM
          => call # NoCall /\ call.current = worker[h].rq.by]_vars

\* Every request is answered, however long others keep winning the race.
EveryRequestAnswered ==
    \A h \in Handlers : worker[h].stage # "idle" ~> worker[h].stage = "idle"

\* The handlers together look like the single steps of Encounter, a Resolve
\* undone by a late write included.
Abstract == INSTANCE Encounter
    WITH call <- IF call = NoCall THEN NoCall ELSE [call EXCEPT !.version = 1],
         Seats <- Nat

ImplementsEncounter == Abstract!LateSpec

-----------------------------------------------------------------------------
\* store.Resolve: "DM-only and terminal".
ResolveIsTerminal ==
    [][ call # NoCall /\ call' # NoCall /\ call'.enc = call.enc
        /\ call.status = "resolved" => call'.status = "resolved" ]_call

=============================================================================
