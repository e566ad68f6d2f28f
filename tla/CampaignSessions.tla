---------------------------- MODULE CampaignSessions ----------------------------
(***************************************************************************)
(* The sessions embedded in one campaign document, their schedules and the *)
(* members' private notes: internal/store/campaign.go behind the handlers  *)
(* of session.go, session_schedule.go, session_notes.go and SetPlayerActive*)
(* of campaign.go.                                                         *)
(*                                                                         *)
(* A handler first reads the campaign to see who calls                     *)
(* (resolveCampaignMembership).  Most operations then read it again, edit  *)
(* the copy and $set the whole sessions array, with nothing that tells     *)
(* whether the array has changed meanwhile; the others are single updates. *)
(* Timestamps are left out: nothing reads them back.                       *)
(***************************************************************************)
EXTENDS FiniteSets, Functions

CONSTANTS
    Players,      \* members with role "player"; a member is its playerId here
    DM,           \* the member with role "dm", who is always active
    SessionIds,   \* session uuids
    Handlers,     \* requests served at the same time
    Requests,     \* the requests clients may send
    Texts,        \* values of a session's name and description
    Entries,      \* availabilities by date
    Slots,        \* dates and parts of day that may be confirmed
    Absent,       \* no such session
    NoSchedule, NoSlot, NoEntry, NoRequest   \* nil pointers, no array element

ASSUME DMAssumption == DM \notin Players
ASSUME SentinelAssumption ==
    /\ NoEntry \notin Entries /\ NoSlot \notin Slots /\ NoRequest \notin Requests

Members == Players \cup {DM}

Availabilities == [Members -> Entries \cup {NoEntry}]

\* zoned: dmTimezone is not the empty string.  shown is history: what the DM
\* has confirmed the slot over.
Schedule == [zoned : BOOLEAN, avail : Availabilities, slot : Slots \cup {NoSlot},
             shown : Availabilities]

Session == [text : Texts, schedule : Schedule \cup {NoSchedule}]

ASSUME NilAssumption == NoSchedule \notin Schedule /\ Absent \notin Session

Sessions == [SessionIds -> Session \cup {Absent}]

DMOps == {"add", "edit", "delete", "putSlot", "dropSlot", "archive", "restore"}
OwnOps == {"putAvail", "dropAvail", "putNote", "dropNote"}

\* One shape for every request; zoned tells whether it carries X-Timezone.
Request == [op : DMOps \cup OwnOps, by : Members, session : SessionIds,
            player : Players, text : Texts, entry : Entries, slot : Slots,
            zoned : BOOLEAN]

ASSUME RequestsAssumption == Requests \subseteq Request

VARIABLES
    sessions,   \* the embedded array, by session id
    active,     \* the players with isActive
    notes,      \* the sessions each member keeps a note on
    worker,     \* what each handler is doing
    excused,    \* history: archived players whose cascade need not be complete
    stale       \* history: an array was written that had changed since it was read

vars == <<sessions, active, notes, worker, excused, stale>>

\* snap is the handler's copy of the sessions, Nowhere while it has none.
Nowhere == [s \in SessionIds |-> Absent]

Stages == {"idle", "fetch", "store", "push", "pull", "strip", "note", "flip"}

Worker == [stage : Stages, rq : Requests \cup {NoRequest}, snap : Sessions]

Idle == [stage |-> "idle", rq |-> NoRequest, snap |-> Nowhere]

TypeOK ==
    /\ sessions \in Sessions
    /\ active \subseteq Players
    /\ notes \in [Members -> SUBSET SessionIds]
    /\ worker \in [Handlers -> Worker]
    /\ excused \subseteq Players
    /\ stale \in BOOLEAN

Init ==
    /\ sessions = Nowhere
    /\ active = Players
    /\ notes = [m \in Members |-> {}]
    /\ worker = [h \in Handlers |-> Idle]
    /\ excused = {} /\ stale = FALSE

-----------------------------------------------------------------------------
Exists(ss, s) == ss[s] # Absent
HasSchedule(ss, s) == Exists(ss, s) /\ ss[s].schedule # NoSchedule
Locked(ss, s) == HasSchedule(ss, s) /\ ss[s].schedule.slot # NoSlot
HasEntry(ss, s, m) == HasSchedule(ss, s) /\ ss[s].schedule.avail[m] # NoEntry

\* 403 but for the DM, or but for an active member's own entry or note.
Authorised(r) ==
    \/ r.op \in DMOps /\ r.by = DM
    \/ r.op \in OwnOps /\ r.by \in active \cup {DM}

\* A mutant: only the availability write asks for a zone.
ChecksZoneOnce(r) ==
    /\ r.op = "putAvail" /\ r.by = DM => HasSchedule(sessions, r.session) \/ r.zoned
    /\ r.op \in {"putNote", "dropNote"} => Exists(sessions, r.session)

\* What the handlers check on the campaign they have read first: a schedule
\* that is missing there needs a zone, a note needs its session.
PassesChecks(r) ==
    /\ r.op = "putAvail" /\ r.by = DM => HasSchedule(sessions, r.session) \/ r.zoned
    /\ r.op = "putSlot" => HasSchedule(sessions, r.session) \/ r.zoned
    /\ r.op \in {"putNote", "dropNote"} => Exists(sessions, r.session)

FirstStage(r) ==
    CASE r.op = "add" -> "push"
      [] r.op = "delete" -> "pull"
      [] r.op \in {"putNote", "dropNote"} -> "note"
      [] r.op \in {"archive", "restore"} -> "flip"
      [] OTHER -> "fetch"

Receive(h, r) ==
    /\ worker[h].stage = "idle"
    /\ Authorised(r) /\ PassesChecks(r)
    /\ worker' = [worker EXCEPT ![h].stage = FirstStage(r), ![h].rq = r]
    /\ UNCHANGED <<sessions, active, notes, excused, stale>>

Answer(h) == worker' = [worker EXCEPT ![h] = Idle]

-----------------------------------------------------------------------------
\* AddSession: a $push under a new uuid, of which there is no trace.
Fresh(h, s) ==
    /\ ~Exists(sessions, s)
    /\ \A m \in Members : s \notin notes[m]
    /\ \A g \in Handlers \ {h} :
          worker[g].rq # NoRequest => worker[g].rq.session # s /\ ~Exists(worker[g].snap, s)

Add(h) ==
    /\ worker[h].stage = "push"
    /\ \E s \in SessionIds :
          /\ Fresh(h, s)
          /\ sessions' = [sessions EXCEPT ![s] =
                             [text |-> worker[h].rq.text, schedule |-> NoSchedule]]
    /\ Answer(h)
    /\ UNCHANGED <<active, notes, excused, stale>>

\* DeleteSession: a $pull, and in a second update the notes.  The first also
\* sets updatedAt, so it always counts as modified and the second follows.
Pull(h) ==
    /\ worker[h].stage = "pull"
    /\ sessions' = [sessions EXCEPT ![worker[h].rq.session] = Absent]
    /\ worker' = [worker EXCEPT ![h].stage = "strip"]
    /\ UNCHANGED <<active, notes, excused, stale>>

StripNotes(h) ==
    /\ worker[h].stage = "strip"
    /\ notes' = [m \in Members |-> notes[m] \ {worker[h].rq.session}]
    /\ Answer(h)
    /\ UNCHANGED <<sessions, active, excused, stale>>

WriteNote(h) ==
    /\ worker[h].stage = "note"
    /\ LET r == worker[h].rq
       IN  notes' = [notes EXCEPT ![r.by] =
                        IF r.op = "putNote" THEN @ \cup {r.session} ELSE @ \ {r.session}]
    /\ Answer(h)
    /\ UNCHANGED <<sessions, active, excused, stale>>

-----------------------------------------------------------------------------
\* SetPlayerActive: an update of the member, then on archive the cascade over
\* the schedules.  A player whose availability is just being written, or whose
\* cascade does not come to its end, may be left in them: excused.
PutInFlight(p) ==
    \E g \in Handlers : /\ worker[g].rq # NoRequest
                        /\ worker[g].rq.op = "putAvail" /\ worker[g].rq.by = p

Archive(h) ==
    /\ worker[h].stage = "flip" /\ worker[h].rq.op = "archive"
    /\ LET p == worker[h].rq.player
       IN  /\ active' = active \ {p}
           /\ excused' = IF PutInFlight(p) THEN excused \cup {p} ELSE excused
    /\ worker' = [worker EXCEPT ![h].stage = "fetch"]
    /\ UNCHANGED <<sessions, notes, stale>>

Restore(h) ==
    /\ worker[h].stage = "flip" /\ worker[h].rq.op = "restore"
    /\ active' = active \cup {worker[h].rq.player}
    /\ Answer(h)
    /\ UNCHANGED <<sessions, notes, excused, stale>>

CascadeEnds(h) ==
    LET p == worker[h].rq.player
    IN  excused' = IF worker[h].rq.op = "archive" /\ ~PutInFlight(p)
                   THEN excused \ {p} ELSE excused

-----------------------------------------------------------------------------
\* A mutant: the store leaves the lock to the handler.
GoesAheadUnlocked(r, ss) ==
    CASE r.op = "archive"  -> \E s \in SessionIds : HasEntry(ss, s, r.player)
      [] r.op \in {"edit", "putSlot"} -> Exists(ss, r.session)
      [] r.op = "putAvail" -> /\ Exists(ss, r.session)
                              /\ HasSchedule(ss, r.session) \/ r.by = DM
      [] OTHER -> HasSchedule(ss, r.session)

\* What a store operation wants to find in the copy it edits.
GoesAhead(r, ss) ==
    CASE r.op = "archive"  -> \E s \in SessionIds : HasEntry(ss, s, r.player)
      [] r.op \in {"edit", "putSlot"} -> Exists(ss, r.session)
      [] r.op = "putAvail" -> /\ Exists(ss, r.session) /\ ~Locked(ss, r.session)
                              /\ HasSchedule(ss, r.session) \/ r.by = DM
      [] OTHER -> HasSchedule(ss, r.session)

Fetch(h) ==
    /\ worker[h].stage = "fetch"
    /\ GoesAhead(worker[h].rq, sessions)
    /\ worker' = [worker EXCEPT ![h].stage = "store", ![h].snap = sessions]
    /\ UNCHANGED <<sessions, active, notes, excused, stale>>

\* 404, 409, or nothing to do.
FetchEnds(h) ==
    /\ worker[h].stage = "fetch"
    /\ ~GoesAhead(worker[h].rq, sessions)
    /\ Answer(h)
    /\ CascadeEnds(h)
    /\ UNCHANGED <<sessions, active, notes, stale>>

\* The $set of the edited copy ss, whatever is stored by now.
Store(h, op, ss) ==
    /\ worker[h].stage = "store" /\ worker[h].rq.op = op
    /\ sessions' = ss
    /\ stale' = (stale \/ worker[h].snap # sessions)
    /\ Answer(h)
    /\ CascadeEnds(h)
    /\ UNCHANGED <<active, notes>>

Nobody == [m \in Members |-> NoEntry]

\* A schedule begins with the first write of the DM.
Begun(schedule, r) ==
    IF schedule # NoSchedule THEN schedule
    ELSE [zoned |-> r.zoned, avail |-> Nobody, slot |-> NoSlot, shown |-> Nobody]

Confirmed(schedule, slot) == [schedule EXCEPT !.slot = slot, !.shown = schedule.avail]

Edit(h) ==
    LET r == worker[h].rq
    IN  Store(h, "edit", [worker[h].snap EXCEPT ![r.session].text = r.text])

PutAvailability(h) ==
    LET r == worker[h].rq
    IN  Store(h, "putAvail", [worker[h].snap EXCEPT ![r.session].schedule =
                                 [Begun(@, r) EXCEPT !.avail[r.by] = r.entry]])

DropAvailability(h) ==
    LET r == worker[h].rq
    IN  Store(h, "dropAvail",
              [worker[h].snap EXCEPT ![r.session].schedule.avail[r.by] = NoEntry])

PutSlot(h) ==
    LET r == worker[h].rq
    IN  Store(h, "putSlot", [worker[h].snap EXCEPT ![r.session].schedule =
                                Confirmed(Begun(@, r), r.slot)])

DropSlot(h) ==
    Store(h, "dropSlot", [worker[h].snap EXCEPT ![worker[h].rq.session].schedule =
                             [@ EXCEPT !.slot = NoSlot, !.shown = Nobody]])

\* A mutant: what is locked is left alone.
WithoutOpenEntry(ss, p) ==
    [s \in SessionIds |-> IF HasEntry(ss, s, p) /\ ~Locked(ss, s)
                          THEN [ss[s] EXCEPT !.schedule.avail[p] = NoEntry]
                          ELSE ss[s]]

WithoutEntry(ss, p) ==
    [s \in SessionIds |-> IF HasEntry(ss, s, p)
                          THEN [ss[s] EXCEPT !.schedule.avail[p] = NoEntry]
                          ELSE ss[s]]

Prune(h) == Store(h, "archive", WithoutEntry(worker[h].snap, worker[h].rq.player))

\* A store call fails, the client goes away or the process dies.
Abort(h) ==
    /\ worker[h].stage # "idle"
    /\ Answer(h)
    /\ excused' = IF worker[h].rq.op = "archive" /\ worker[h].stage # "flip"
                  THEN excused \cup {worker[h].rq.player} ELSE excused
    /\ UNCHANGED <<sessions, active, notes, stale>>

Serve(h) ==
    \/ Add(h) \/ Pull(h) \/ StripNotes(h) \/ WriteNote(h)
    \/ Archive(h) \/ Restore(h) \/ Fetch(h) \/ FetchEnds(h)
    \/ Edit(h) \/ PutAvailability(h) \/ DropAvailability(h)
    \/ PutSlot(h) \/ DropSlot(h) \/ Prune(h)

Next == \E h \in Handlers :
    Serve(h) \/ Abort(h) \/ (\E r \in Requests : Receive(h, r))

Spec == Init /\ [][Next]_vars

-----------------------------------------------------------------------------
ZonedSchedules == \A s \in SessionIds : HasSchedule(sessions, s) => sessions[s].schedule.zoned

\* "Bootstrap-path requires a timezone": whichever of the two DM writes creates
\* a schedule, and whatever happened since the handler looked for one, the
\* schedule it creates has the DM's timezone, until a stale array is written.
EveryScheduleHasATimezone == stale \/ ZonedSchedules

\* "A confirmed slot locks scheduling": until a stale array is written, nobody
\* adds an availability or changes one while a slot is set, though he was let
\* in before it was.
LockedScheduleTakesNoEntry ==
    [][~stale' => \A s \in SessionIds, m \in Members :
          Locked(sessions, s) /\ HasEntry(sessions', s, m)
          => HasEntry(sessions, s, m)
             /\ sessions'[s].schedule.avail[m] = sessions[s].schedule.avail[m]]_vars

LockedAsConfirmed(ss) ==
    \A s \in SessionIds, m \in Members :
        Locked(ss, s) /\ HasEntry(ss, s, m) =>
            ss[s].schedule.avail[m] = ss[s].schedule.shown[m]

\* What the lock is worth when stale arrays are written.  Such a write may
\* bring back an earlier array or erase the slot itself, but the slot and the
\* availabilities of one schedule stay together: beside a confirmed slot there
\* is no entry but those that the DM confirmed it over.
SlotStandsOnWhatWasShown == LockedAsConfirmed(sessions)

NoArchivedEntries ==
    \A p \in Players \ (active \cup excused), s \in SessionIds :
        HasEntry(sessions, s, p) =>
            \E h \in Handlers : /\ worker[h].stage \in {"fetch", "store"}
                                /\ worker[h].rq.op = "archive" /\ worker[h].rq.player = p

\* The archive cascade reaches every schedule, and repeating it after a failure
\* is safe: an archived player is in none, unless a cascade is still under way,
\* until a stale array is written.
ArchivedPlayersAreOut == stale \/ NoArchivedEntries

-----------------------------------------------------------------------------
\* PutAvailability: "only their own entry is replaced", in no schedule anybody
\* else's.
OnlyOwnEntryReplaced ==
    [][\A h \in Handlers, s \in SessionIds, m \in Members :
          LET r == worker[h].rq
          IN  worker[h].stage = "store" /\ worker'[h].stage = "idle"
              /\ r.op = "putAvail" /\ (s # r.session \/ m # r.by) /\ HasEntry(sessions, s, m)
              => HasEntry(sessions', s, m)
                 /\ sessions'[s].schedule.avail[m] = sessions[s].schedule.avail[m]]_vars
=============================================================================
