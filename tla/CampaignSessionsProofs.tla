------------------------- MODULE CampaignSessionsProofs -------------------------
(***************************************************************************)
(* For any players, sessions, requests and number of handlers: the campaign*)
(* document keeps its shape and shows beside a confirmed slot only what the*)
(* slot was confirmed over; and until an array is written that has changed *)
(* since it was read (stale), schedules have a timezone and archived       *)
(* players are in no schedule.                                             *)
(***************************************************************************)
EXTENDS CampaignSessions, TLAPS

\* The operations that write back an edited copy, but for the archive cascade.
Edits == {"edit", "putAvail", "dropAvail", "putSlot", "dropSlot"}

Edited(r, ss) ==
    CASE r.op = "edit" -> [ss EXCEPT ![r.session].text = r.text]
      [] r.op = "putAvail" -> [ss EXCEPT ![r.session].schedule =
                                  [Begun(@, r) EXCEPT !.avail[r.by] = r.entry]]
      [] r.op = "dropAvail" -> [ss EXCEPT ![r.session].schedule.avail[r.by] = NoEntry]
      [] r.op = "putSlot" -> [ss EXCEPT ![r.session].schedule =
                                 Confirmed(Begun(@, r), r.slot)]
      [] r.op = "dropSlot" -> [ss EXCEPT ![r.session].schedule =
                                  [@ EXCEPT !.slot = NoSlot, !.shown = Nobody]]

\* What a stage says of the request and of the copy.
Knows(w) ==
    /\ w.stage # "idle" => w.rq \in Requests
    /\ w.stage \in {"push", "pull", "strip", "note", "flip"} => w.rq.op \notin Edits
    /\ w.stage \in {"fetch", "store"} => w.rq.op \in Edits \cup {"archive"}
    /\ w.stage = "flip" => w.rq.op \in {"archive", "restore"}
    /\ w.stage = "idle" => w.rq = NoRequest
    /\ w.stage = "store" => GoesAhead(w.rq, w.snap)

TypeInv == TypeOK /\ \A h \in Handlers : Knows(worker[h])

USE DMAssumption, SentinelAssumption, NilAssumption, RequestsAssumption

-----------------------------------------------------------------------------
\* Of session s, tt shows beside its slot what ss does, or what it was confirmed over.
KeepsTheLock(ss, tt, s) ==
    \A m \in Members :
        Locked(tt, s) /\ HasEntry(tt, s, m) =>
            \/ tt[s].schedule.avail[m] = tt[s].schedule.shown[m]
            \/ /\ Locked(ss, s) /\ HasEntry(ss, s, m)
               /\ tt[s].schedule.avail[m] = ss[s].schedule.avail[m]
               /\ tt[s].schedule.shown[m] = ss[s].schedule.shown[m]

\* What an edit does to the session it is about, ss before and tt after it.
Changes(r, ss, tt) ==
    LET s == r.session
    IN  /\ \A t \in SessionIds \ {s} : tt[t] = ss[t]
        /\ Exists(ss, s) /\ Exists(tt, s)
        /\ HasSchedule(ss, s) =>
              /\ HasSchedule(tt, s)
              /\ tt[s].schedule.zoned = ss[s].schedule.zoned
              /\ \A m \in Members :
                    \/ m = r.by /\ r.op \in {"putAvail", "dropAvail"}
                    \/ tt[s].schedule.avail[m] = ss[s].schedule.avail[m]
        /\ HasSchedule(tt, s) /\ ~HasSchedule(ss, s) =>
              /\ r.op = "putSlot" \/ (r.op = "putAvail" /\ r.by = DM)
              /\ tt[s].schedule.zoned = r.zoned
              /\ \A m \in Members : HasEntry(tt, s, m) => m = r.by /\ r.op = "putAvail"
        /\ r.op = "putAvail" => ~Locked(ss, s)
        /\ r.op = "dropAvail" => ~HasEntry(tt, s, r.by)
        /\ KeepsTheLock(ss, tt, s)

LEMMA BegunIsASchedule ==
    ASSUME NEW r \in Request, NEW sch \in Schedule \cup {NoSchedule}
    PROVE  /\ Begun(sch, r) \in Schedule
           /\ sch # NoSchedule => Begun(sch, r) = sch
           /\ sch = NoSchedule => /\ Begun(sch, r).zoned = r.zoned
                                  /\ Begun(sch, r).slot = NoSlot
                                  /\ \A m \in Members : Begun(sch, r).avail[m] = NoEntry
BY DEF Begun, Nobody, Schedule, Availabilities, Request

LEMMA EditChanges ==
    ASSUME NEW ss \in Sessions, NEW r \in Request, r.op \in Edits, GoesAhead(r, ss)
    PROVE  Edited(r, ss) \in Sessions /\ Changes(r, ss, Edited(r, ss))
<1> DEFINE s == r.session
           tt == Edited(r, ss)
           sch == ss[s].schedule
<1>1. s \in SessionIds /\ r.by \in Members /\ ss[s] \in Session \cup {Absent}
  BY DEF Request, Sessions
<1>2. Exists(ss, s) /\ ss[s] \in Session
  BY <1>1 DEF GoesAhead, Edits, HasSchedule, Exists
<1>3. /\ sch \in Schedule \cup {NoSchedule} /\ ss[s].text \in Texts
      /\ HasSchedule(ss, s) <=> sch # NoSchedule
  BY <1>2 DEF Session, HasSchedule
<1>4. ASSUME NEW new \in Session, tt = [ss EXCEPT ![s] = new]
      PROVE  /\ tt \in Sessions /\ tt[s] = new /\ Exists(tt, s)
             /\ \A t \in SessionIds \ {s} : tt[t] = ss[t]
             /\ HasSchedule(tt, s) <=> new.schedule # NoSchedule
  BY <1>1, <1>4 DEF Sessions, Exists, HasSchedule
<1> SUFFICES tt \in Sessions /\ Changes(r, ss, tt)
  OBVIOUS
<1> HIDE DEF tt
<1>5. CASE r.op = "edit"
  <2> DEFINE new == [ss[s] EXCEPT !.text = r.text]
  <2>1. tt = [ss EXCEPT ![s] = new]
    BY <1>5, <1>2 DEF Edited, tt, Sessions
  <2>2. new \in Session /\ new.schedule = sch
    BY <1>2 DEF Session, Request
  <2> HIDE DEF new
  <2>3. tt[s].schedule = sch /\ (HasSchedule(tt, s) <=> HasSchedule(ss, s))
    BY <1>3, <1>4, <2>1, <2>2
  <2>4. KeepsTheLock(ss, tt, s)
    BY <2>3 DEF KeepsTheLock, Locked, HasEntry
  <2> QED
    BY <1>2, <1>4, <1>5, <2>1, <2>2, <2>3, <2>4 DEF Changes
<1>6. CASE r.op \in {"putAvail", "dropAvail", "putSlot", "dropSlot"}
  <2>1. ASSUME NEW new \in Schedule, tt = [ss EXCEPT ![s].schedule = new]
        PROVE  /\ tt \in Sessions /\ Exists(tt, s) /\ HasSchedule(tt, s)
               /\ \A t \in SessionIds \ {s} : tt[t] = ss[t]
               /\ tt[s].text = ss[s].text /\ tt[s].schedule = new
    <3> DEFINE ses == [ss[s] EXCEPT !.schedule = new]
    <3>1. tt = [ss EXCEPT ![s] = ses]
      BY <2>1 DEF Sessions
    <3>2. ses \in Session /\ ses.schedule = new /\ ses.text = ss[s].text
      BY <1>2 DEF Session
    <3> HIDE DEF ses
    <3> QED
      BY <1>4, <3>1, <3>2
  <2> DEFINE b == Begun(sch, r)
  <2>2. /\ b \in Schedule
        /\ HasSchedule(ss, s) => b = sch
        /\ ~HasSchedule(ss, s) =>
              b.zoned = r.zoned /\ b.slot = NoSlot /\ \A m \in Members : b.avail[m] = NoEntry
    BY <1>3, BegunIsASchedule
  <2> HIDE DEF b
  <2>3. CASE r.op = "putAvail"
    <3> DEFINE new == [b EXCEPT !.avail[r.by] = r.entry]
    <3>1. tt = [ss EXCEPT ![s].schedule = new]
      BY <2>3 DEF Edited, tt, b
    <3>2. /\ new \in Schedule /\ new.zoned = b.zoned /\ new.slot = b.slot
          /\ \A m \in Members \ {r.by} : new.avail[m] = b.avail[m]
      BY <1>1, <2>2 DEF Schedule, Availabilities, Request
    <3> HIDE DEF new
    <3>3. ~Locked(ss, s) /\ (HasSchedule(ss, s) \/ r.by = DM)
      BY <2>3 DEF GoesAhead
    <3>4. KeepsTheLock(ss, tt, s)
      BY <2>1, <2>2, <3>1, <3>2, <3>3 DEF KeepsTheLock, Locked
    <3> QED
      BY <1>2, <2>1, <2>2, <2>3, <3>1, <3>2, <3>3, <3>4 DEF Changes, HasEntry
  <2>4. CASE r.op = "dropAvail"
    <3> DEFINE new == [sch EXCEPT !.avail[r.by] = NoEntry]
    <3>1. HasSchedule(ss, s) /\ sch \in Schedule
      BY <1>3, <2>4 DEF GoesAhead
    <3>2. tt = [ss EXCEPT ![s].schedule = new]
      BY <2>4, <3>1 DEF Edited, tt, Sessions
    <3>3. /\ new \in Schedule /\ new.zoned = sch.zoned /\ new.slot = sch.slot
          /\ new.avail[r.by] = NoEntry /\ new.shown = sch.shown
          /\ \A m \in Members \ {r.by} : new.avail[m] = sch.avail[m]
      BY <1>1, <3>1 DEF Schedule, Availabilities
    <3> HIDE DEF new
    <3>4. tt[s].schedule = new /\ (Locked(tt, s) => Locked(ss, s))
      BY <2>1, <3>1, <3>2, <3>3 DEF Locked
    <3>5. KeepsTheLock(ss, tt, s)
      BY <3>1, <3>3, <3>4 DEF KeepsTheLock, HasEntry
    <3> QED
      BY <1>2, <2>1, <2>4, <3>1, <3>2, <3>3, <3>5 DEF Changes, HasEntry
  <2>5. CASE r.op = "putSlot"
    <3> DEFINE new == Confirmed(b, r.slot)
    <3>1. tt = [ss EXCEPT ![s].schedule = new]
      BY <2>5 DEF Edited, tt, b
    <3>2. new \in Schedule /\ new.zoned = b.zoned /\ new.avail = b.avail /\ new.shown = b.avail
      BY <1>1, <2>2 DEF Schedule, Request, Confirmed
    <3> HIDE DEF new
    <3>3. tt[s].schedule = new
      BY <2>1, <3>1, <3>2
    <3>4. ~HasSchedule(ss, s) => \A m \in Members : ~HasEntry(tt, s, m)
      BY <2>2, <3>2, <3>3 DEF HasEntry
    <3>5. KeepsTheLock(ss, tt, s)
      BY <3>2, <3>3 DEF KeepsTheLock
    <3> QED
      BY <1>2, <2>1, <2>2, <2>5, <3>1, <3>2, <3>3, <3>4, <3>5 DEF Changes
  <2>6. CASE r.op = "dropSlot"
    <3> DEFINE new == [sch EXCEPT !.slot = NoSlot, !.shown = Nobody]
    <3>1. HasSchedule(ss, s) /\ sch \in Schedule
      BY <1>3, <2>6 DEF GoesAhead
    <3>2. tt = [ss EXCEPT ![s].schedule = new]
      BY <2>6, <3>1 DEF Edited, tt, Sessions
    <3>3. new \in Schedule /\ new.zoned = sch.zoned /\ new.avail = sch.avail /\ new.slot = NoSlot
      BY <1>1, <3>1 DEF Schedule, Availabilities, Nobody
    <3> HIDE DEF new
    <3>4. KeepsTheLock(ss, tt, s)
      BY <2>1, <3>2, <3>3 DEF KeepsTheLock, Locked
    <3> QED
      BY <1>2, <2>1, <2>6, <3>1, <3>2, <3>3, <3>4 DEF Changes
  <2> QED
    BY <1>6, <2>3, <2>4, <2>5, <2>6
<1> QED
  BY <1>5, <1>6 DEF Edits

LEMMA CascadeChanges ==
    ASSUME NEW ss \in Sessions, NEW p \in Players
    PROVE  LET tt == WithoutEntry(ss, p)
           IN  /\ tt \in Sessions
               /\ \A s \in SessionIds :
                     /\ Exists(tt, s) <=> Exists(ss, s)
                     /\ HasSchedule(tt, s) <=> HasSchedule(ss, s)
                     /\ HasSchedule(ss, s) =>
                           /\ tt[s].schedule.zoned = ss[s].schedule.zoned
                           /\ tt[s].schedule.slot = ss[s].schedule.slot
                           /\ tt[s].schedule.shown = ss[s].schedule.shown
                           /\ \A m \in Members \ {p} :
                                 tt[s].schedule.avail[m] = ss[s].schedule.avail[m]
                     /\ ~HasEntry(tt, s, p)
<1> DEFINE tt == WithoutEntry(ss, p)
<1>1. ASSUME NEW s \in SessionIds, HasEntry(ss, s, p)
      PROVE  /\ tt[s] \in Session /\ tt[s].schedule \in Schedule
             /\ HasSchedule(ss, s) /\ HasSchedule(tt, s)
             /\ tt[s].schedule.zoned = ss[s].schedule.zoned
             /\ tt[s].schedule.slot = ss[s].schedule.slot
             /\ tt[s].schedule.shown = ss[s].schedule.shown
             /\ tt[s].schedule.avail[p] = NoEntry
             /\ \A m \in Members \ {p} : tt[s].schedule.avail[m] = ss[s].schedule.avail[m]
  <2> DEFINE sch == ss[s].schedule
             new == [sch EXCEPT !.avail[p] = NoEntry]
  <2>1. /\ ss[s] \in Session /\ sch \in Schedule /\ p \in Members /\ HasSchedule(ss, s)
        /\ tt[s] = [ss[s] EXCEPT !.schedule.avail[p] = NoEntry]
    BY <1>1 DEF HasEntry, HasSchedule, Exists, Sessions, Session, Members, WithoutEntry
  <2>2. /\ new \in Schedule /\ new.zoned = sch.zoned /\ new.avail[p] = NoEntry
        /\ new.slot = sch.slot /\ new.shown = sch.shown
        /\ \A m \in Members \ {p} : new.avail[m] = sch.avail[m]
    BY <2>1 DEF Schedule, Availabilities
  <2>3. tt[s] = [ss[s] EXCEPT !.schedule = new]
    BY <2>1 DEF Session
  <2> HIDE DEF new, tt
  <2>4. tt[s] \in Session /\ tt[s].schedule = new
    BY <2>1, <2>2, <2>3 DEF Session
  <2> QED
    BY <2>1, <2>2, <2>4 DEF HasSchedule, Exists
<1>2. ASSUME NEW s \in SessionIds, ~HasEntry(ss, s, p) PROVE tt[s] = ss[s]
  BY <1>2 DEF WithoutEntry
<1>3. tt = [s \in SessionIds |-> tt[s]]
  BY DEF WithoutEntry
<1> HIDE DEF tt
<1>4. tt \in Sessions
  BY <1>1, <1>2, <1>3 DEF Sessions
<1>5. ASSUME NEW s \in SessionIds
      PROVE  /\ Exists(tt, s) <=> Exists(ss, s)
             /\ HasSchedule(tt, s) <=> HasSchedule(ss, s)
             /\ HasSchedule(ss, s) =>
                   /\ tt[s].schedule.zoned = ss[s].schedule.zoned
                   /\ tt[s].schedule.slot = ss[s].schedule.slot
                   /\ tt[s].schedule.shown = ss[s].schedule.shown
                   /\ \A m \in Members \ {p} :
                         tt[s].schedule.avail[m] = ss[s].schedule.avail[m]
             /\ ~HasEntry(tt, s, p)
  BY <1>1, <1>2 DEF HasEntry, HasSchedule, Exists
<1> QED
  BY <1>4, <1>5 DEF tt

-----------------------------------------------------------------------------
LEMMA IdleIsAWorker == Idle \in Worker /\ Knows(Idle) /\ Nowhere \in Sessions
BY DEF Idle, Worker, Stages, Nowhere, Sessions, Knows

\* What the operations on a copy write, be it fresh or not.
Written(h) == IF worker[h].rq.op = "archive"
              THEN WithoutEntry(worker[h].snap, worker[h].rq.player)
              ELSE Edited(worker[h].rq, worker[h].snap)

Writes(h) == Edit(h) \/ PutAvailability(h) \/ DropAvailability(h)
             \/ PutSlot(h) \/ DropSlot(h) \/ Prune(h)

LEMMA WriteIsWritten ==
    ASSUME NEW h \in Handlers, Writes(h)
    PROVE  /\ worker[h].stage = "store" /\ sessions' = Written(h)
           /\ Answer(h) /\ CascadeEnds(h) /\ UNCHANGED <<active, notes>>
           /\ stale' = (stale \/ worker[h].snap # sessions)
BY DEF Writes, Written, Edited, Edit, PutAvailability, DropAvailability, PutSlot,
   DropSlot, Prune, Store

LEMMA WrittenIsTyped ==
    ASSUME TypeInv, NEW h \in Handlers, worker[h].stage = "store"
    PROVE  Written(h) \in Sessions
<1> DEFINE w == worker[h]
<1>1. /\ w.rq \in Request /\ w.snap \in Sessions /\ w.rq.op \in Edits \cup {"archive"}
      /\ GoesAhead(w.rq, w.snap)
  BY DEF TypeInv, TypeOK, Knows, Worker
<1>2. CASE w.rq.op = "archive"
  BY <1>1, <1>2, CascadeChanges DEF Written, Request
<1>3. CASE w.rq.op \in Edits
  BY <1>1, <1>3, EditChanges DEF Written, Edits
<1> QED
  BY <1>1, <1>2, <1>3

LEMMA StepIsTyped ==
    ASSUME TypeInv, NEW h \in Handlers, NEW w \in Worker, Knows(w),
           worker' = [worker EXCEPT ![h] = w], sessions' \in Sessions,
           active' \subseteq Players, notes' \in [Members -> SUBSET SessionIds],
           excused' \subseteq Players, stale' \in BOOLEAN
    PROVE  TypeInv'
BY DEF TypeInv, TypeOK

LEMMA TypesStart == Init => TypeInv
BY IdleIsAWorker DEF Init, TypeInv, TypeOK

LEMMA TypesStep == TypeInv /\ [Next]_vars => TypeInv'
<1> SUFFICES ASSUME TypeInv, [Next]_vars PROVE TypeInv'
  OBVIOUS
<1>1. CASE UNCHANGED vars
  BY <1>1 DEF vars, TypeInv, TypeOK
<1>2. ASSUME NEW h \in Handlers, Serve(h) \/ Abort(h) \/ \E r \in Requests : Receive(h, r)
      PROVE  TypeInv'
  <2> DEFINE w == worker[h]
  <2>1. /\ TypeOK /\ w \in Worker /\ Knows(w)
        /\ w.stage # "idle" => w.rq \in Request /\ w.rq \in Requests
    BY DEF TypeInv, TypeOK, Knows
  <2>2. ASSUME Answer(h), sessions' \in Sessions, active' \subseteq Players,
               notes' \in [Members -> SUBSET SessionIds], excused' \subseteq Players,
               stale' \in BOOLEAN
        PROVE  TypeInv'
    BY <2>2, IdleIsAWorker, StepIsTyped DEF Answer
  <2>3. ASSUME w.stage # "idle", CascadeEnds(h) PROVE excused' \subseteq Players
    BY <2>1, <2>3 DEF CascadeEnds, TypeOK
  <2>4. CASE Add(h)
    <3>1. [text |-> w.rq.text, schedule |-> NoSchedule] \in Session
      BY <2>1, <2>4 DEF Add, Session, Request
    <3>2. sessions' \in Sessions
      BY <2>1, <2>4, <3>1 DEF Add, TypeOK, Sessions
    <3> QED
      BY <2>1, <2>2, <2>4, <3>2 DEF Add, TypeOK
  <2>5. CASE Pull(h)
    <3> DEFINE v == [w EXCEPT !.stage = "strip"]
    <3>1. worker' = [worker EXCEPT ![h] = v]
      BY <2>5 DEF Pull, TypeInv, TypeOK
    <3>2. v \in Worker /\ v.stage = "strip" /\ v.rq = w.rq
      BY <2>1 DEF Worker, Stages
    <3> HIDE DEF v
    <3>3. Knows(v)
      BY <2>1, <2>5, <3>2 DEF Knows, Pull
    <3> QED
      BY <2>1, <2>5, <3>1, <3>2, <3>3, StepIsTyped DEF Pull, TypeOK, Sessions
  <2>6. CASE StripNotes(h)
    BY <2>1, <2>2, <2>6 DEF StripNotes, TypeOK
  <2>7. CASE WriteNote(h)
    BY <2>1, <2>2, <2>7 DEF WriteNote, TypeOK, Request
  <2>8. CASE Archive(h)
    <3> DEFINE v == [w EXCEPT !.stage = "fetch"]
    <3>1. worker' = [worker EXCEPT ![h] = v]
      BY <2>8 DEF Archive, TypeInv, TypeOK
    <3>2. v \in Worker /\ v.stage = "fetch" /\ v.rq = w.rq
      BY <2>1 DEF Worker, Stages
    <3> HIDE DEF v
    <3>3. Knows(v)
      BY <2>1, <2>8, <3>2 DEF Knows, Archive
    <3>4. active' \subseteq Players /\ excused' \subseteq Players
      BY <2>1, <2>8 DEF Archive, TypeOK, Request
    <3> QED
      BY <2>1, <2>8, <3>1, <3>2, <3>3, <3>4, StepIsTyped DEF Archive, TypeOK
  <2>9. CASE Restore(h)
    BY <2>1, <2>2, <2>9 DEF Restore, TypeOK, Request
  <2>10. CASE Fetch(h)
    <3> DEFINE v == [w EXCEPT !.stage = "store", !.snap = sessions]
    <3>1. worker' = [worker EXCEPT ![h] = v]
      BY <2>10 DEF Fetch, TypeInv, TypeOK
    <3>2. v \in Worker /\ v.stage = "store" /\ v.rq = w.rq /\ v.snap = sessions
      BY <2>1 DEF Worker, Stages, TypeOK
    <3> HIDE DEF v
    <3>3. Knows(v)
      BY <2>1, <2>10, <3>2 DEF Knows, Fetch
    <3> QED
      BY <2>1, <2>10, <3>1, <3>2, <3>3, StepIsTyped DEF Fetch, TypeOK
  <2>11. CASE FetchEnds(h)
    BY <2>1, <2>2, <2>3, <2>11 DEF FetchEnds, TypeOK
  <2>12. CASE Writes(h)
    BY <2>1, <2>2, <2>3, <2>12, WriteIsWritten, WrittenIsTyped DEF TypeOK
  <2>13. CASE Abort(h)
    BY <2>1, <2>2, <2>13 DEF Abort, TypeOK, Request
  <2>14. ASSUME NEW r \in Requests, Receive(h, r) PROVE TypeInv'
    <3> DEFINE v == [w EXCEPT !.stage = FirstStage(r), !.rq = r]
    <3>1. worker' = [worker EXCEPT ![h] = v]
      BY <2>14 DEF Receive, TypeInv, TypeOK
    <3>2. /\ FirstStage(r) \in {"push", "pull", "note", "flip", "fetch"}
          /\ FirstStage(r) = "fetch" <=> r.op \in Edits
          /\ FirstStage(r) = "flip" => r.op \in {"archive", "restore"}
      BY DEF FirstStage, Request, DMOps, OwnOps, Edits
    <3>3. v \in Worker /\ v.stage = FirstStage(r) /\ v.rq = r
      BY <2>1, <3>2 DEF Worker, Stages
    <3> HIDE DEF v
    <3>4. Knows(v)
      BY <3>2, <3>3 DEF Knows
    <3> QED
      BY <2>1, <2>14, <3>1, <3>3, <3>4, StepIsTyped DEF Receive, TypeOK
  <2> QED
    BY <1>2, <2>4, <2>5, <2>6, <2>7, <2>8, <2>9, <2>10, <2>11, <2>12, <2>13, <2>14
       DEF Serve, Writes
<1> QED
  BY <1>1, <1>2 DEF Next

\* The document, its members' notes and every handler's copy keep their shape,
\* also under lost updates: no edit of a stale copy leaves half a schedule.
THEOREM TypesHold == Spec => []TypeOK
<1>1. TypeInv => TypeOK
  BY DEF TypeInv
<1> QED
  BY <1>1, TypesStart, TypesStep, PTL DEF Spec

-----------------------------------------------------------------------------
\* One step of one handler, on its own behalf.
Steps(h) == Serve(h) \/ Abort(h) \/ \E r \in Requests : Receive(h, r)

LEMMA HandlerSteps ==
    ASSUME TypeInv, NEW h \in Handlers, Steps(h)
    PROVE  /\ \A g \in Handlers \ {h} : worker'[g] = worker[g]
           /\ \/ worker'[h] = Idle
              \/ /\ Fetch(h) \/ Pull(h) \/ Archive(h)
                 /\ worker'[h].rq = worker[h].rq
                 /\ Pull(h) => worker'[h].stage = "strip"
                 /\ Archive(h) => worker'[h].stage = "fetch"
                 /\ Fetch(h) => worker'[h].stage = "store" /\ worker'[h].snap = sessions
              \/ \E r \in Requests : /\ Receive(h, r)
                                     /\ worker'[h].rq = r
                                     /\ worker'[h].stage = FirstStage(r)
                                     /\ worker'[h].stage # "store"
<1>1. worker \in [Handlers -> Worker] /\ worker[h] \in Worker
  BY DEF TypeInv, TypeOK
<1>2. CASE Answer(h)
  BY <1>1, <1>2 DEF Answer
<1>3. CASE Fetch(h)
  BY <1>1, <1>3 DEF Fetch, Pull, Archive, Worker
<1>4. CASE Pull(h)
  BY <1>1, <1>4 DEF Fetch, Pull, Archive, Worker
<1>5. CASE Archive(h)
  BY <1>1, <1>5 DEF Fetch, Pull, Archive, Worker
<1>6. ASSUME NEW r \in Requests, Receive(h, r)
      PROVE  /\ \A g \in Handlers \ {h} : worker'[g] = worker[g]
             /\ worker'[h].rq = r /\ worker'[h].stage = FirstStage(r)
             /\ FirstStage(r) # "store"
  BY <1>1, <1>6 DEF Receive, Worker, FirstStage
<1>7. Answer(h) \/ Fetch(h) \/ Pull(h) \/ Archive(h) \/ \E r \in Requests : Receive(h, r)
  BY DEF Steps, Serve, Add, StripNotes, WriteNote, Restore, FetchEnds, Edit,
     PutAvailability, DropAvailability, PutSlot, DropSlot, Prune, Store, Abort
<1> QED
  BY <1>2, <1>3, <1>4, <1>5, <1>6, <1>7

\* With lost updates and all, every array that is stored or that some handler
\* holds shows beside a confirmed slot what the slot was confirmed over.
LockInv ==
    /\ TypeInv
    /\ LockedAsConfirmed(sessions)
    /\ \A h \in Handlers : worker[h].stage = "store" => LockedAsConfirmed(worker[h].snap)

LEMMA WrittenIsLockedAsConfirmed ==
    ASSUME LockInv, NEW h \in Handlers, worker[h].stage = "store"
    PROVE  LockedAsConfirmed(Written(h))
<1> DEFINE r == worker[h].rq
           ss == worker[h].snap
           tt == Written(h)
<1>1. /\ r \in Request /\ ss \in Sessions /\ r.op \in Edits \cup {"archive"}
      /\ GoesAhead(r, ss) /\ LockedAsConfirmed(ss)
  BY DEF LockInv, TypeInv, TypeOK, Knows, Worker
<1> SUFFICES ASSUME NEW s \in SessionIds, NEW m \in Members, Locked(tt, s), HasEntry(tt, s, m)
             PROVE  tt[s].schedule.avail[m] = tt[s].schedule.shown[m]
  BY DEF LockedAsConfirmed
<1>2. CASE r.op = "archive"
  <2>1. tt = WithoutEntry(ss, r.player) /\ r.player \in Players
    BY <1>1, <1>2 DEF Written, Request
  <2> HIDE DEF tt
  <2>2. /\ HasSchedule(ss, s) /\ m # r.player
        /\ tt[s].schedule.slot = ss[s].schedule.slot
        /\ tt[s].schedule.shown = ss[s].schedule.shown
        /\ tt[s].schedule.avail[m] = ss[s].schedule.avail[m]
    BY <1>1, <2>1, CascadeChanges DEF HasEntry
  <2> QED
    <3>1. Locked(ss, s) /\ HasEntry(ss, s, m)
      BY <2>2 DEF Locked, HasEntry
    <3> QED
      BY <1>1, <2>2, <3>1 DEF LockedAsConfirmed
<1>3. CASE r.op \in Edits
  <2>1. Changes(r, ss, tt)
    BY <1>1, <1>3, EditChanges DEF Written, Edits
  <2> HIDE DEF tt
  <2>2. CASE s # r.session
    <3>1. tt[s] = ss[s]
      BY <2>1, <2>2 DEF Changes
    <3>2. Locked(ss, s) /\ HasEntry(ss, s, m)
      BY <3>1 DEF Locked, HasEntry, HasSchedule, Exists
    <3> QED
      BY <1>1, <3>1, <3>2 DEF LockedAsConfirmed
  <2>3. CASE s = r.session
    <3>1. KeepsTheLock(ss, tt, s)
      BY <2>1, <2>3 DEF Changes
    <3>2. CASE tt[s].schedule.avail[m] = tt[s].schedule.shown[m]
      BY <3>2
    <3>3. CASE /\ Locked(ss, s) /\ HasEntry(ss, s, m)
               /\ tt[s].schedule.avail[m] = ss[s].schedule.avail[m]
               /\ tt[s].schedule.shown[m] = ss[s].schedule.shown[m]
      BY <1>1, <3>3 DEF LockedAsConfirmed
    <3> QED
      BY <3>1, <3>2, <3>3 DEF KeepsTheLock
  <2> QED
    BY <2>2, <2>3
<1> QED
  BY <1>1, <1>2, <1>3

LEMMA LockStep == LockInv /\ [Next]_vars => LockInv'
<1> SUFFICES ASSUME LockInv, [Next]_vars PROVE LockInv'
  OBVIOUS
<1>1. TypeInv'
  BY TypesStep DEF LockInv
<1>2. CASE UNCHANGED vars
  BY <1>1, <1>2 DEF vars, LockInv
<1>3. ASSUME NEW h \in Handlers, Steps(h) PROVE LockInv'
  <2>1. TypeInv /\ sessions \in Sessions
    BY DEF LockInv, TypeInv, TypeOK
  <2>2. LockedAsConfirmed(sessions)'
    <3>1. CASE Writes(h)
      BY <3>1, WriteIsWritten, WrittenIsLockedAsConfirmed DEF LockedAsConfirmed
    <3>2. CASE Add(h)
      BY <2>1, <3>2 DEF Add, LockInv, LockedAsConfirmed, Locked, HasEntry, HasSchedule,
         Exists, Sessions
    <3>3. CASE Pull(h)
      BY <2>1, <3>3 DEF Pull, LockInv, LockedAsConfirmed, Locked, HasEntry, HasSchedule,
         Exists, Sessions
    <3>4. CASE ~Writes(h) /\ ~Add(h) /\ ~Pull(h)
      <4>1. sessions' = sessions
        BY <1>3, <3>4 DEF Steps, Serve, Writes, StripNotes, WriteNote, Archive, Restore,
           Fetch, FetchEnds, Abort, Receive
      <4> QED
        BY <4>1 DEF LockInv
    <3> QED
      BY <3>1, <3>2, <3>3, <3>4
  <2>3. ASSUME NEW g \in Handlers, worker'[g].stage = "store"
        PROVE  LockedAsConfirmed(worker'[g].snap)
    <3>1. CASE g # h
      BY <1>3, <2>1, <2>3, <3>1, HandlerSteps DEF LockInv
    <3>2. CASE g = h
      <4>1. Fetch(h) /\ worker'[h].snap = sessions
        BY <1>3, <2>1, <2>3, <3>2, HandlerSteps DEF Idle, Fetch, Pull, Archive
      <4> QED
        BY <3>2, <4>1 DEF LockInv
    <3> QED
      BY <3>1, <3>2
  <2> QED
    BY <1>1, <2>2, <2>3 DEF LockInv
<1> QED
  BY <1>2, <1>3 DEF Next, Steps

\* Whatever writes overlap, and whichever of them are lost: beside a confirmed
\* slot a schedule shows no availability but those the DM confirmed it over.
THEOREM ConfirmedSlotsHold == Spec => []SlotStandsOnWhatWasShown
<1>1. Init => LockInv
  BY TypesStart DEF Init, LockInv, LockedAsConfirmed, Locked, HasSchedule, Exists, Nowhere, Idle
<1>2. LockInv => SlotStandsOnWhatWasShown
  BY DEF LockInv, SlotStandsOnWhatWasShown
<1> QED
  BY <1>1, <1>2, LockStep, PTL DEF Spec

-----------------------------------------------------------------------------
\* A write that is not stale: the copy is the array itself.
Current(h) == Writes(h) => worker[h].snap = sessions

\* The writes that may begin a schedule.
Begins(r) == r.op = "putSlot" \/ (r.op = "putAvail" /\ r.by = DM)

\* A handler that may begin a schedule has a timezone for it, as far as there
\* is anything to begin.
ZoneKnown ==
    \A h \in Handlers :
        LET r == worker[h].rq
        IN  worker[h].stage \in {"fetch", "store"} /\ Begins(r) =>
                r.zoned \/ HasSchedule(sessions, r.session) \/ ~Exists(sessions, r.session)

\* Who is just writing his availability is active, or excused.
PutsAreKnown == \A p \in Players : PutInFlight(p) => p \in active \cup excused

FreshInv ==
    /\ TypeInv
    /\ ~stale => /\ ZoneKnown /\ ZonedSchedules
                 /\ PutsAreKnown /\ NoArchivedEntries

\* What a step does to the array, when it writes a current copy.
Adds(h) == Add(h) /\ \E s \in SessionIds :
              /\ Fresh(h, s)
              /\ Exists(sessions', s) /\ ~HasSchedule(sessions', s)
              /\ \A t \in SessionIds \ {s} : sessions'[t] = sessions[t]

Pulls(h) == Pull(h) /\ LET s == worker[h].rq.session
                       IN  /\ s \in SessionIds /\ ~Exists(sessions', s)
                           /\ \A t \in SessionIds \ {s} : sessions'[t] = sessions[t]

EditsInPlace(h) == /\ Writes(h) /\ worker[h].rq \in Request /\ worker[h].rq.op \in Edits
                   /\ Changes(worker[h].rq, sessions, sessions')

Cascades(h) == /\ Prune(h) /\ worker[h].rq \in Request /\ worker[h].rq.op = "archive"
               /\ sessions' = WithoutEntry(sessions, worker[h].rq.player)

LEMMA ArraySteps ==
    ASSUME TypeInv, NEW h \in Handlers, Steps(h), Current(h)
    PROVE  \/ sessions' = sessions /\ ~Writes(h)
           \/ Adds(h) \/ Pulls(h) \/ EditsInPlace(h) \/ Cascades(h)
<1> DEFINE w == worker[h]
<1>1. /\ sessions \in Sessions /\ w \in Worker
      /\ w.stage # "idle" => w.rq \in Request
      /\ w.stage = "store" => GoesAhead(w.rq, w.snap)
      /\ w.stage = "store" => w.rq.op \in Edits \cup {"archive"}
  BY DEF TypeInv, TypeOK, Knows
<1>2. CASE Add(h)
  <2>1. PICK s \in SessionIds :
           Fresh(h, s) /\ sessions' = [sessions EXCEPT ![s] =
                                          [text |-> w.rq.text, schedule |-> NoSchedule]]
    BY <1>2 DEF Add
  <2>2. [text |-> w.rq.text, schedule |-> NoSchedule] \in Session
    BY <1>1, <1>2 DEF Add, Session, Request
  <2>3. Exists(sessions', s) /\ ~HasSchedule(sessions', s)
    BY <1>1, <2>1, <2>2 DEF Exists, HasSchedule, Sessions
  <2>4. \A t \in SessionIds \ {s} : sessions'[t] = sessions[t]
    BY <1>1, <2>1 DEF Sessions
  <2> QED
    BY <1>2, <2>1, <2>3, <2>4 DEF Adds
<1>3. CASE Pull(h)
  BY <1>1, <1>3 DEF Pull, Pulls, Exists, Sessions, Request
<1>4. CASE Writes(h)
  <2>1. w.stage = "store" /\ sessions' = Written(h) /\ w.snap = sessions
    BY <1>4, WriteIsWritten DEF Current
  <2>2. CASE w.rq.op = "archive"
    <3>1. Prune(h)
      BY <1>4, <2>2 DEF Writes, Edit, PutAvailability, DropAvailability, PutSlot, DropSlot, Store
    <3> QED
      BY <1>1, <2>1, <2>2, <3>1 DEF Written, Cascades
  <2>3. CASE w.rq.op \in Edits
    <3>1. sessions' = Edited(w.rq, sessions)
      BY <1>1, <2>1, <2>3 DEF Written, Edits
    <3> QED
      BY <1>1, <1>4, <2>1, <2>3, <3>1, EditChanges DEF EditsInPlace
  <2> QED
    BY <1>1, <2>1, <2>2, <2>3
<1>5. CASE ~Writes(h) /\ ~Add(h) /\ ~Pull(h)
  BY <1>5 DEF Steps, Serve, Writes, StripNotes, WriteNote, Archive, Restore, Fetch,
     FetchEnds, Abort, Receive
<1> QED
  BY <1>2, <1>3, <1>4, <1>5

-----------------------------------------------------------------------------
LEMMA ZonesStep ==
    ASSUME TypeInv, ZoneKnown, ZonedSchedules, NEW h \in Handlers, Steps(h), Current(h)
    PROVE  ZoneKnown' /\ ZonedSchedules'
<1>1. sessions \in Sessions
  BY DEF TypeInv, TypeOK
<1>2. ASSUME NEW p \in Players, sessions' = WithoutEntry(sessions, p), NEW s \in SessionIds
      PROVE  /\ Exists(sessions', s) <=> Exists(sessions, s)
             /\ HasSchedule(sessions', s) <=> HasSchedule(sessions, s)
             /\ HasSchedule(sessions, s) =>
                   sessions'[s].schedule.zoned = sessions[s].schedule.zoned
  BY <1>1, <1>2, CascadeChanges
<1>3. ZonedSchedules'
  <2> SUFFICES ASSUME NEW s \in SessionIds, HasSchedule(sessions', s)
               PROVE  sessions'[s].schedule.zoned
    BY DEF ZonedSchedules
  <2>1. CASE sessions' = sessions
    BY <2>1 DEF ZonedSchedules
  <2>2. CASE Adds(h) \/ Pulls(h)
    BY <2>2 DEF Adds, Pulls, ZonedSchedules, HasSchedule, Exists
  <2>3. CASE EditsInPlace(h)
    <3> DEFINE r == worker[h].rq
    <3>1. CASE s # r.session
      BY <2>3, <3>1 DEF EditsInPlace, Changes, ZonedSchedules, HasSchedule, Exists
    <3>2. CASE s = r.session /\ HasSchedule(sessions, s)
      BY <2>3, <3>2 DEF EditsInPlace, Changes, ZonedSchedules
    <3>3. CASE s = r.session /\ ~HasSchedule(sessions, s)
      <4>1. Begins(r) /\ Exists(sessions, s) /\ sessions'[s].schedule.zoned = r.zoned
        BY <2>3, <3>3 DEF EditsInPlace, Changes, Begins
      <4>2. worker[h].stage = "store"
        BY <2>3, WriteIsWritten DEF EditsInPlace
      <4> QED
        BY <3>3, <4>1, <4>2 DEF ZoneKnown
    <3> QED
      BY <3>1, <3>2, <3>3
  <2>4. CASE Cascades(h)
    BY <1>2, <2>4 DEF Cascades, Request, ZonedSchedules
  <2> QED
    BY <2>1, <2>2, <2>3, <2>4, ArraySteps
<1>4. ZoneKnown'
  <2> SUFFICES ASSUME NEW g \in Handlers, worker'[g].stage \in {"fetch", "store"},
                      Begins(worker'[g].rq)
               PROVE  LET r == worker'[g].rq
                      IN  r.zoned \/ HasSchedule(sessions', r.session)
                                  \/ ~Exists(sessions', r.session)
    BY DEF ZoneKnown
  <2>1. CASE g = h
    <3>1. \/ Fetch(h) /\ worker'[h].rq = worker[h].rq
          \/ \E r \in Requests : Receive(h, r) /\ worker'[h].rq = r
      <4>1. worker'[h] # Idle /\ worker'[h].stage # "strip" /\ worker'[h].rq.op # "archive"
        BY <2>1 DEF Idle, Begins
      <4>2. Archive(h) => worker[h].rq.op = "archive"
        BY DEF Archive
      <4> QED
        BY <4>1, <4>2, HandlerSteps
    <3>2. CASE Fetch(h) /\ worker'[h].rq = worker[h].rq
      BY <2>1, <3>2 DEF Fetch, ZoneKnown
    <3>3. ASSUME NEW r \in Requests, Receive(h, r), worker'[h].rq = r
          PROVE  r.zoned \/ HasSchedule(sessions', r.session)
      BY <2>1, <3>3 DEF Receive, PassesChecks, Begins
    <3> QED
      BY <2>1, <3>1, <3>2, <3>3
  <2>2. CASE g # h
    <3> DEFINE r == worker[g].rq
               s == r.session
    <3>1. /\ worker'[g] = worker[g] /\ r \in Request /\ r # NoRequest /\ s \in SessionIds
          /\ r.zoned \/ HasSchedule(sessions, s) \/ ~Exists(sessions, s)
      BY <2>2, HandlerSteps DEF TypeInv, Knows, ZoneKnown, Request
    <3>2. CASE sessions' = sessions
      BY <3>1, <3>2
    <3>3. CASE Adds(h) \/ Pulls(h)
      BY <2>2, <3>1, <3>3 DEF Adds, Pulls, Fresh, HasSchedule, Exists
    <3>4. CASE EditsInPlace(h)
      BY <3>1, <3>4 DEF EditsInPlace, Changes, HasSchedule, Exists
    <3>5. CASE Cascades(h)
      BY <1>2, <3>1, <3>5 DEF Cascades, Request
    <3> QED
      BY <3>1, <3>2, <3>3, <3>4, <3>5, ArraySteps
  <2> QED
    BY <2>1, <2>2
<1> QED
  BY <1>3, <1>4

-----------------------------------------------------------------------------
\* What becomes of the entries: only a write of one's own availability adds one,
\* and the cascade leaves none of its player's.
LEMMA EntrySteps ==
    ASSUME TypeInv, NEW h \in Handlers, Steps(h), Current(h),
           NEW s \in SessionIds, NEW m \in Members, HasEntry(sessions', s, m)
    PROVE  /\ \/ HasEntry(sessions, s, m)
                 /\ sessions'[s].schedule.avail[m] = sessions[s].schedule.avail[m]
              \/ /\ EditsInPlace(h) /\ worker[h].rq.session = s
                 /\ worker[h].rq.op = "putAvail" /\ worker[h].rq.by = m
                 /\ ~Locked(sessions, s)
           /\ Cascades(h) => m # worker[h].rq.player
<1>1. sessions \in Sessions
  BY DEF TypeInv, TypeOK
<1>2. CASE sessions' = sessions /\ ~Writes(h)
  BY <1>2 DEF Cascades, Writes
<1>3. CASE Adds(h) \/ Pulls(h)
  BY <1>3 DEF Adds, Pulls, Add, Pull, Cascades, Prune, Store, HasEntry, HasSchedule, Exists
<1>4. CASE EditsInPlace(h)
  BY <1>4 DEF EditsInPlace, Changes, Cascades, Edits, HasEntry, HasSchedule, Exists
<1>5. CASE Cascades(h)
  <2>1. worker[h].rq.player \in Players
    BY <1>5 DEF Cascades, Request
  <2>2. m # worker[h].rq.player
    BY <1>1, <1>5, <2>1, CascadeChanges DEF Cascades
  <2>3. /\ HasSchedule(sessions, s)
        /\ sessions'[s].schedule.avail[m] = sessions[s].schedule.avail[m]
    BY <1>1, <1>5, <2>1, <2>2, CascadeChanges DEF Cascades, HasEntry
  <2> QED
    BY <2>2, <2>3 DEF HasEntry
<1> QED
  BY <1>2, <1>3, <1>4, <1>5, ArraySteps

\* Who stops being active or excused, and how.
LEMMA MemberSteps ==
    ASSUME TypeInv, NEW h \in Handlers, Steps(h), NEW p \in Players
    PROVE  /\ \/ p \in active => p \in active'
              \/ /\ Archive(h) /\ worker[h].rq.player = p
                 /\ PutInFlight(p) => p \in excused'
           /\ p \in excused /\ p \notin excused' =>
                 /\ FetchEnds(h) \/ Prune(h)
                 /\ worker[h].rq.op = "archive" /\ worker[h].rq.player = p
                 /\ ~PutInFlight(p)
<1>1. CASE Archive(h)
  BY <1>1 DEF Archive
<1>2. CASE FetchEnds(h)
  BY <1>2 DEF FetchEnds, CascadeEnds
<1>3. CASE Writes(h)
  <2>1. CASE worker[h].rq.op = "archive"
    BY <1>3, <2>1, WriteIsWritten DEF CascadeEnds, Writes, Edit, PutAvailability,
       DropAvailability, PutSlot, DropSlot, Store
  <2>2. CASE worker[h].rq.op # "archive"
    BY <1>3, <2>2, WriteIsWritten DEF CascadeEnds
  <2> QED
    BY <2>1, <2>2
<1>4. CASE ~Archive(h) /\ ~FetchEnds(h) /\ ~Writes(h)
  <2>1. active \subseteq active' /\ excused \subseteq excused'
    BY <1>4 DEF Steps, Serve, Writes, Add, Pull, StripNotes, WriteNote, Restore, Fetch,
       Abort, Receive
  <2> QED
    BY <2>1
<1> QED
  BY <1>1, <1>2, <1>3, <1>4

LEMMA ArchiveStep ==
    ASSUME TypeInv, PutsAreKnown, NoArchivedEntries,
           NEW h \in Handlers, Steps(h), Current(h)
    PROVE  PutsAreKnown' /\ NoArchivedEntries'
<1> DEFINE w == worker[h]
<1>1. ASSUME NEW p \in Players, PutInFlight(p)' PROVE p \in active' \cup excused'
  <2>1. PICK g \in Handlers : /\ worker'[g].rq # NoRequest
                              /\ worker'[g].rq.op = "putAvail" /\ worker'[g].rq.by = p
    BY <1>1 DEF PutInFlight
  <2>2. CASE PutInFlight(p)
    BY <2>2, MemberSteps DEF PutsAreKnown
  <2>3. CASE ~PutInFlight(p)
    <3>1. worker'[g].rq # worker[g].rq
      BY <2>1, <2>3 DEF PutInFlight
    <3>2. PICK r \in Requests : Receive(h, r) /\ worker'[h].rq = r /\ g = h
      BY <2>1, <3>1, HandlerSteps DEF Idle
    <3> QED
      BY <2>1, <3>2 DEF Receive, Authorised, DMOps
  <2> QED
    BY <2>2, <2>3
<1>2. ASSUME NEW p \in Players, p \notin active' \cup excused',
             NEW s \in SessionIds, HasEntry(sessions', s, p)
      PROVE  \E g \in Handlers : /\ worker'[g].stage \in {"fetch", "store"}
                                 /\ worker'[g].rq.op = "archive"
                                 /\ worker'[g].rq.player = p
  <2>1. p \in Members
    BY DEF Members
  <2>2. ASSUME FetchEnds(h) \/ Prune(h), w.rq.op = "archive", w.rq.player = p PROVE FALSE
    <3>1. CASE FetchEnds(h)
      BY <1>2, <2>2, <3>1 DEF FetchEnds, GoesAhead
    <3>2. CASE Prune(h)
      <4>1. Writes(h) /\ w.stage = "store"
        BY <3>2 DEF Writes, Prune, Store
      <4>2. Cascades(h)
        BY <2>2, <4>1, ArraySteps DEF Adds, Pulls, Add, Pull, EditsInPlace, Edits
      <4> QED
        BY <1>2, <2>1, <2>2, <4>2, EntrySteps
    <3> QED
      BY <2>2, <3>1, <3>2
  <2>3. CASE Archive(h) /\ w.rq.player = p
    <3>1. worker'[h].stage = "fetch" /\ worker'[h].rq = w.rq
      BY <2>3 DEF Archive, TypeInv, TypeOK, Worker
    <3> QED
      BY <2>3, <3>1 DEF Archive
  <2>4. CASE p \notin active \cup excused
    <3>1. ~PutInFlight(p)
      BY <2>4 DEF PutsAreKnown
    <3>2. ASSUME EditsInPlace(h), w.rq.op = "putAvail", w.rq.by = p PROVE FALSE
      <4>1. w.stage = "store" /\ w.rq # NoRequest
        BY <3>2, WriteIsWritten DEF EditsInPlace, TypeInv, Knows
      <4> QED
        BY <3>1, <3>2, <4>1 DEF PutInFlight
    <3>3. HasEntry(sessions, s, p)
      BY <1>2, <2>1, <3>2, EntrySteps
    <3>4. PICK g \in Handlers : /\ worker[g].stage \in {"fetch", "store"}
                                /\ worker[g].rq.op = "archive" /\ worker[g].rq.player = p
      BY <2>4, <3>3 DEF NoArchivedEntries
    <3>5. CASE g # h
      BY <3>4, <3>5, HandlerSteps
    <3>6. CASE g = h
      <4>1. ~Abort(h)
        BY <1>2, <3>4, <3>6 DEF Abort
      <4>2. ~FetchEnds(h) /\ ~Prune(h)
        BY <2>2, <3>4, <3>6
      <4>3. Fetch(h)
        BY <3>4, <3>6, <4>1, <4>2 DEF Steps, Serve, Add, Pull, StripNotes, WriteNote,
           Archive, Restore, Edit, PutAvailability, DropAvailability, PutSlot, DropSlot,
           Store, Receive
      <4>4. worker'[h].stage = "store" /\ worker'[h].rq = w.rq
        BY <4>3 DEF Fetch, TypeInv, TypeOK, Worker
      <4> QED
        BY <3>4, <3>6, <4>4
    <3> QED
      BY <3>5, <3>6
  <2> QED
    BY <1>2, <2>2, <2>3, <2>4, MemberSteps
<1>3. PutsAreKnown'
  BY <1>1 DEF PutsAreKnown
<1> QED
  BY <1>2, <1>3 DEF NoArchivedEntries

-----------------------------------------------------------------------------
LEMMA FreshStarts == Init => FreshInv
<1> SUFFICES ASSUME Init PROVE FreshInv
  OBVIOUS
<1>1. \A h \in Handlers : worker[h].stage = "idle" /\ worker[h].rq = NoRequest
  BY DEF Init, Idle
<1>2. \A s \in SessionIds : ~Exists(sessions, s)
  BY DEF Init, Nowhere, Exists
<1> QED
  BY <1>1, <1>2, TypesStart DEF FreshInv, ZoneKnown, ZonedSchedules,
     PutsAreKnown, PutInFlight, NoArchivedEntries, HasEntry, HasSchedule

LEMMA FreshStep == FreshInv /\ [Next]_vars => FreshInv'
<1> SUFFICES ASSUME FreshInv, [Next]_vars PROVE FreshInv'
  OBVIOUS
<1>1. CASE UNCHANGED vars
  BY <1>1 DEF vars, FreshInv, TypeInv, TypeOK, ZoneKnown, ZonedSchedules,
     PutsAreKnown, PutInFlight, NoArchivedEntries
<1>2. ASSUME NEW h \in Handlers, Steps(h) PROVE FreshInv'
  <2>1. TypeInv'
    BY <1>2, TypesStep DEF FreshInv, Next, Steps
  <2>2. ASSUME ~stale' PROVE ~stale /\ Current(h)
    <3>1. CASE Writes(h)
      <4>1. ~(stale \/ worker[h].snap # sessions)
        BY <2>2, <3>1, WriteIsWritten
      <4> QED
        BY <4>1 DEF Current
    <3>2. CASE ~Writes(h)
      <4>1. stale' = stale
        BY <1>2, <3>2 DEF Steps, Serve, Writes, Add, Pull, StripNotes, WriteNote,
           Archive, Restore, Fetch, FetchEnds, Abort, Receive
      <4> QED
        BY <2>2, <3>2, <4>1 DEF Current
    <3> QED
      BY <3>1, <3>2
  <2> QED
    BY <1>2, <2>1, <2>2, ZonesStep, ArchiveStep DEF FreshInv
<1> QED
  BY <1>1, <1>2 DEF Next, Steps

LEMMA FreshInvHolds == Spec => []FreshInv
BY FreshStarts, FreshStep, PTL DEF Spec

\* Whichever write begins a schedule, and whatever was deleted, added or begun
\* since its handler looked for one, the schedule carries the DM's timezone,
\* until an array is written that has changed since it was read.
THEOREM SchedulesHaveATimezone == Spec => []EveryScheduleHasATimezone
<1>1. FreshInv => EveryScheduleHasATimezone
  BY DEF FreshInv, EveryScheduleHasATimezone
<1> QED
  BY <1>1, FreshInvHolds, PTL

\* No entry of an archived player is left, nor comes back, outside of a cascade
\* under way, but for a player whose own write raced the archiving or whose
\* cascade failed and was not repeated, until an array is written that has
\* changed since it was read.
THEOREM ArchivedPlayersStayOut == Spec => []ArchivedPlayersAreOut
<1>1. FreshInv => ArchivedPlayersAreOut
  BY DEF FreshInv, ArchivedPlayersAreOut
<1> QED
  BY <1>1, FreshInvHolds, PTL

=============================================================================
