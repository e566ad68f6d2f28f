------------------------- MODULE ContentRequestsProofs -------------------------
(***************************************************************************)
(* For any players, proposals, entries, calls and number of handlers: an   *)
(* approved proposal names its entry, an entry comes out of the approval   *)
(* its record tells of, what is decided stays, and bags follow what their  *)
(* players may see.                                                        *)
(***************************************************************************)
EXTENDS ContentRequests, TLAPS

RequestOps == {"withdraw", "approve", "deny", "revise"}

\* The stages at which a handler works on a live entry.
OnEntry == {"apply", "cascade", "rewrite", "reshare", "delete", "purge", "take", "drop"}

\* What a stage says of the call, of the proposal read and of the entry.
Knows(w) ==
    /\ w.stage = "idle" => w = Idle
    /\ w.stage # "idle" => w.call \in Calls
    /\ w.stage = "insert" => /\ w.call.op = "propose"
                             /\ w.call.kind = "edit" => w.entry \in EntryIds
    /\ w.stage \in {"withdraw", "revise", "create", "rewrite", "reshare", "delete",
                    "take", "drop"} => w.call.op = w.stage
    /\ w.stage \in {"materialise", "apply"} => w.call.op = "approve"
    /\ w.stage = "cascade" => w.call.op \in {"approve", "reshare"}
    /\ w.stage = "purge" => w.call.op = "delete"
    /\ w.stage = "resolve" => w.call.op \in {"approve", "deny"}
    /\ w.stage \in OnEntry => w.entry \in EntryIds
    /\ w.stage # "idle" /\ w.call.op \in RequestOps =>
          /\ w.snap \in Proposal /\ w.snap.status = "pending"
          /\ w.stage \in {"apply", "cascade"} => w.snap.kind = "edit"
          /\ w.stage = "materialise" => w.snap.kind = "create"
          /\ w.stage = "resolve" => (w.entry \in EntryIds <=> w.call.op = "approve")

\* A proposal to edit names what it edits, whatever becomes of it.
EditsNameEntries ==
    \A q \in RequestIds :
        requests[q] # Absent /\ requests[q].kind = "edit" => requests[q].result \in EntryIds

TypeInv == TypeOK /\ (\A h \in Handlers : Knows(worker[h])) /\ EditsNameEntries

\* A handler alone with a proposal works on what it has read.
OneAtATime ==
    \A q \in RequestIds \ disputed, g, h \in Handlers :
        WorksOn(g, q) /\ WorksOn(h, q) => g = h

ReadIsCurrent ==
    \A q \in RequestIds \ disputed, h \in Handlers :
        WorksOn(h, q) => requests[q] = worker[h].snap

\* Whatever others do, a proposal does not change from a creation to an edit.
KindIsKept ==
    \A q \in RequestIds, h \in Handlers :
        WorksOn(h, q) /\ requests[q] # Absent => requests[q].kind = worker[h].snap.kind

MadeFromCreations ==
    \A e \in EntryIds, q \in RequestIds :
        entries[e] # Absent /\ entries[e].from = q /\ requests[q] # Absent
        => requests[q].kind = "create"

\* The entry an approval is about to record is the one it has made.
ResolvesItsEntry ==
    \A h \in Handlers :
        LET w == worker[h]
        IN  w.stage = "resolve" /\ w.call.op = "approve" /\ w.snap.kind = "create"
            /\ entries[w.entry] # Absent =>
                /\ entries[w.entry].from = w.call.request
                /\ ~entries[w.entry].touched => entries[w.entry].content = w.snap.payload

\* What a player is about to take he sees, or is excused for.
TakesAreKnown ==
    \A h \in Handlers :
        LET c == worker[h].call
        IN  worker[h].stage = "take" /\ c.by # DM =>
                CanSee(worker[h].entry, c.player) \/ <<c.player, worker[h].entry>> \in excused

QueueInv ==
    /\ TypeInv
    /\ OneAtATime /\ ReadIsCurrent /\ KindIsKept
    /\ MadeFromCreations /\ ResolvesItsEntry
    /\ ApprovedNamesItsEntry /\ OutcomeMatchesRequest

BagInv == TypeInv /\ TakesAreKnown /\ BagsFollowVisibility

USE SentinelAssumption, DMIsNoRequest, AbsentAssumption, CallsAssumption

-----------------------------------------------------------------------------
\* One step of one handler, on its own behalf.
Steps(h) == Serve(h) \/ Abort(h) \/ \E c \in Calls : Receive(h, c)

\* What a handler knows of its call, whatever the stage.
LEMMA BusyFacts ==
    ASSUME TypeInv, NEW h \in Handlers
    PROVE  LET w == worker[h]
           IN  /\ w \in Worker /\ Knows(w)
               /\ w.stage # "idle" => w.call \in Call /\ w.call \in Calls /\ w.call # NoCall
BY DEF TypeInv, TypeOK, Knows

LEMMA IdleIsAWorker == Idle \in Worker /\ Knows(Idle)
BY DEF Idle, Worker, Stages, Knows, OnEntry

LEMMA ExcusesAreTyped ==
    ASSUME TypeInv, NEW e \in EntryIds
    PROVE  /\ TakenMeanwhile(e) \subseteq Players \X EntryIds
           /\ Leftovers(e) \subseteq Players \X EntryIds
           /\ \A cleaned : Settled(e, cleaned) \subseteq Players \X EntryIds
BY DEF TakenMeanwhile, Leftovers, Settled, TypeInv, TypeOK

\* The updates of a handler that goes on to another stage of the same call.
Moves(h, stage) == worker' = [worker EXCEPT ![h] = [worker[h] EXCEPT !.stage = stage]]

LEMMA ProceedMoves ==
    ASSUME TypeInv, NEW h \in Handlers, NEW stage, Proceed(h, stage) PROVE Moves(h, stage)
BY DEF Proceed, Moves, TypeInv, TypeOK

LEMMA CascadeMoves ==
    ASSUME TypeInv, NEW h \in Handlers, AfterCascade(h)
    PROVE  \/ worker[h].call.op = "approve" /\ Moves(h, "resolve")
           \/ worker[h].call.op # "approve" /\ Answer(h)
BY ProceedMoves DEF AfterCascade

LEMMA StepIsTyped ==
    ASSUME TypeInv, NEW h \in Handlers, NEW w \in Worker, Knows(w),
           worker' = [worker EXCEPT ![h] = w],
           requests' \in [RequestIds -> Proposal \cup {Absent}], EditsNameEntries',
           entries' \in [EntryIds -> Entry \cup {Absent}],
           bags' \in [Players -> SUBSET EntryIds],
           disputed' \subseteq RequestIds, excused' \subseteq Players \X EntryIds
    PROVE  TypeInv'
BY DEF TypeInv, TypeOK

LEMMA MoveIsTyped ==
    ASSUME TypeInv, NEW h \in Handlers, NEW stage, Moves(h, stage),
           \/ worker[h].stage \in {"apply", "reshare"} /\ stage = "cascade"
           \/ worker[h].stage = "cascade" /\ worker[h].call.op = "approve" /\ stage = "resolve"
           \/ worker[h].stage = "delete" /\ stage = "purge",
           UNCHANGED requests,
           entries' \in [EntryIds -> Entry \cup {Absent}],
           bags' \in [Players -> SUBSET EntryIds],
           disputed' \subseteq RequestIds, excused' \subseteq Players \X EntryIds
    PROVE  TypeInv'
<1> DEFINE w == [worker[h] EXCEPT !.stage = stage]
<1>1. w \in Worker /\ Knows(w)
  <2>1. worker[h] \in Worker /\ Knows(worker[h])
    BY BusyFacts
  <2>2. w \in Worker
    BY <2>1 DEF Worker, Stages
  <2>3. /\ w.stage = stage /\ w.call = worker[h].call /\ w.snap = worker[h].snap
        /\ w.entry = worker[h].entry /\ stage \in {"cascade", "resolve", "purge"}
    BY <2>1 DEF Worker
  <2> HIDE DEF w
  <2>4. Knows(w)
    BY <2>1, <2>3 DEF Knows, OnEntry, RequestOps
  <2> QED
    BY <2>2, <2>4
<1>2. EditsNameEntries'
  BY DEF TypeInv, EditsNameEntries
<1>3. requests' \in [RequestIds -> Proposal \cup {Absent}]
  BY DEF TypeInv, TypeOK
<1> QED
  BY <1>1, <1>2, <1>3, StepIsTyped DEF Moves

LEMMA AnswerIsTyped ==
    ASSUME TypeInv, NEW h \in Handlers, Answer(h),
           requests' \in [RequestIds -> Proposal \cup {Absent}], EditsNameEntries',
           entries' \in [EntryIds -> Entry \cup {Absent}],
           bags' \in [Players -> SUBSET EntryIds],
           disputed' \subseteq RequestIds, excused' \subseteq Players \X EntryIds
    PROVE  TypeInv'
BY IdleIsAWorker, StepIsTyped DEF Answer

LEMMA TypesStart == Init => TypeInv
BY IdleIsAWorker DEF Init, TypeInv, TypeOK, EditsNameEntries

-----------------------------------------------------------------------------
\* What the four operations on a proposal do to it.
Resolved(w, r) == [r EXCEPT !.status = Verdict(w.call),
                            !.result = IF w.call.op = "approve" THEN w.entry ELSE @]

Touches(h) == Insert(h) \/ Withdraw(h) \/ Revise(h) \/ Resolve(h)

LEMMA ProposalSteps ==
    ASSUME TypeInv, NEW h \in Handlers, Touches(h)
    PROVE  LET w == worker[h]
               p == w.call.request
           IN  /\ Answer(h) /\ UNCHANGED <<entries, bags, disputed, excused>>
               /\ \/ /\ Insert(h)
                     /\ \E q \in RequestIds :
                           /\ FreshRequest(q)
                           /\ requests'[q] \in Proposal /\ requests'[q].status = "pending"
                           /\ requests'[q].kind = "edit" => requests'[q].result \in EntryIds
                           /\ \A r \in RequestIds \ {q} : requests'[r] = requests[r]
                  \/ /\ ~Insert(h) /\ WorksOn(h, p) /\ p \in RequestIds
                     /\ \A r \in RequestIds \ {p} : requests'[r] = requests[r]
                     /\ \/ Withdraw(h) /\ requests'[p] = Absent
                        \/ (Revise(h) \/ Resolve(h)) /\ requests[p] = Absent /\ requests'[p] = Absent
                        \/ /\ Revise(h) /\ requests[p] \in Proposal
                           /\ requests'[p] = [requests[p] EXCEPT !.payload = w.call.content]
                        \/ /\ Resolve(h) /\ requests[p] \in Proposal
                           /\ requests'[p] = Resolved(w, requests[p])
               /\ requests' \in [RequestIds -> Proposal \cup {Absent}]
<1> DEFINE w == worker[h]
           p == w.call.request
<1>1. /\ requests \in [RequestIds -> Proposal \cup {Absent}]
      /\ w \in Worker /\ Knows(w) /\ w.call \in Call /\ p \in RequestIds /\ w.call # NoCall
  <2>1. w.stage # "idle"
    BY DEF Touches, Insert, Withdraw, Revise, Resolve
  <2> QED
    BY <2>1, BusyFacts DEF TypeInv, TypeOK, Call
<1>2. CASE Insert(h)
  <2>1. PICK q \in RequestIds :
           /\ FreshRequest(q)
           /\ requests' = [requests EXCEPT ![q] =
                 [kind |-> w.call.kind, status |-> "pending", by |-> w.call.by,
                  payload |-> w.call.content, result |-> w.entry]]
    BY <1>2 DEF Insert
  <2> DEFINE new == [kind |-> w.call.kind, status |-> "pending", by |-> w.call.by,
                     payload |-> w.call.content, result |-> w.entry]
  <2>2. /\ new \in Proposal /\ new.status = "pending"
        /\ new.kind = "edit" => new.result \in EntryIds
    BY <1>1, <1>2 DEF Insert, Knows, Proposal, Call, Worker
  <2> HIDE DEF new
  <2>3. /\ requests'[q] = new /\ \A r \in RequestIds \ {q} : requests'[r] = requests[r]
        /\ requests' \in [RequestIds -> Proposal \cup {Absent}]
    BY <1>1, <2>1, <2>2 DEF new
  <2> QED
    BY <1>2, <2>1, <2>2, <2>3 DEF Insert
<1>3. CASE Withdraw(h)
  BY <1>1, <1>3 DEF Withdraw, Insert, Knows, WorksOn
<1>4. CASE Revise(h)
  <2>1. [requests[p] EXCEPT !.payload = w.call.content] \in Proposal \/ requests[p] = Absent
    BY <1>1 DEF Proposal, Call
  <2> QED
    BY <1>1, <1>4, <2>1 DEF Revise, Insert, Knows, WorksOn
<1>5. CASE Resolve(h)
  <2> DEFINE new == Resolved(w, requests[p])
  <2>1. new \in Proposal \/ requests[p] = Absent
    BY <1>1 DEF Proposal, Resolved, Verdict, Worker
  <2>2. requests' = IF requests[p] = Absent THEN requests ELSE [requests EXCEPT ![p] = new]
    BY <1>1, <1>5 DEF Resolve, Resolved, Proposal
  <2> HIDE DEF new
  <2>3. /\ requests' \in [RequestIds -> Proposal \cup {Absent}]
        /\ \A r \in RequestIds \ {p} : requests'[r] = requests[r]
        /\ requests'[p] = IF requests[p] = Absent THEN Absent ELSE new
    BY <1>1, <2>1, <2>2
  <2>4. WorksOn(h, p) /\ ~Insert(h)
    BY <1>1, <1>5 DEF Resolve, Insert, Knows, WorksOn
  <2> QED
    BY <1>1, <1>5, <2>3, <2>4 DEF Resolve, new
<1> QED
  BY <1>2, <1>3, <1>4, <1>5 DEF Touches

LEMMA EditsStep ==
    ASSUME TypeInv, NEW h \in Handlers, Touches(h)
    PROVE  EditsNameEntries'
<1> DEFINE w == worker[h]
           p == w.call.request
<1> SUFFICES ASSUME NEW q \in RequestIds, requests'[q] # Absent, requests'[q].kind = "edit"
             PROVE  requests'[q].result \in EntryIds
  BY DEF EditsNameEntries
<1>1. EditsNameEntries /\ requests \in [RequestIds -> Proposal \cup {Absent}]
  BY DEF TypeInv, TypeOK
<1>2. CASE requests'[q] = requests[q]
  BY <1>1, <1>2 DEF EditsNameEntries
<1>3. CASE /\ requests[q] \in Proposal
           /\ requests'[q] = [requests[q] EXCEPT !.payload = w.call.content]
  BY <1>1, <1>3 DEF EditsNameEntries, Proposal
<1>4. CASE /\ Resolve(h) /\ requests[q] \in Proposal
           /\ requests'[q] = Resolved(w, requests[q])
  <2>1. w.call.op = "approve" => w.entry \in EntryIds
    BY <1>4, BusyFacts DEF Resolve, Knows, RequestOps
  <2> QED
    BY <1>1, <1>4, <2>1 DEF EditsNameEntries, Proposal, Resolved
<1> QED
  BY <1>2, <1>3, <1>4, ProposalSteps

-----------------------------------------------------------------------------
\* What the operations on a live entry do to the collection.
Makes(h, e, stage, content, from) ==
    /\ worker[h].stage = stage /\ FreshEntry(e)
    /\ entries'[e] = [content |-> content, seenBy |-> worker[h].call.seenBy,
                      from |-> from, touched |-> FALSE]
    /\ \A f \in EntryIds \ {e} : entries'[f] = entries[f]

Turns(h) ==
    LET e == worker[h].entry
    IN  /\ e \in EntryIds /\ entries[e] \in Entry /\ entries'[e] \in Entry
        /\ entries'[e].from = entries[e].from
        /\ \/ entries'[e].touched
           \/ /\ entries'[e].touched = entries[e].touched
              /\ entries'[e].content = entries[e].content
        /\ \A f \in EntryIds \ {e} : entries'[f] = entries[f]
        /\ \/ Rewrite(h) /\ Answer(h) /\ entries'[e].seenBy = entries[e].seenBy
           \/ /\ ApplyEdit(h) \/ Reshare(h)
              /\ Moves(h, "cascade") /\ entries'[e].seenBy = worker[h].call.seenBy

Deletes(h) == LET e == worker[h].entry
              IN  /\ Delete(h) /\ e \in EntryIds /\ entries'[e] = Absent
                  /\ \A f \in EntryIds \ {e} : entries'[f] = entries[f]

OnEntries(h) == Materialise(h) \/ Create(h) \/ ApplyEdit(h) \/ Reshare(h) \/ Rewrite(h) \/ Delete(h)

LEMMA EntrySteps ==
    ASSUME TypeInv, NEW h \in Handlers, OnEntries(h)
    PROVE  /\ entries' \in [EntryIds -> Entry \cup {Absent}]
           /\ UNCHANGED <<requests, bags, disputed>>
           /\ \/ /\ Materialise(h) /\ UNCHANGED excused
                 /\ \E e \in EntryIds :
                       /\ Makes(h, e, "materialise", worker[h].snap.payload, worker[h].call.request)
                       /\ worker' = [worker EXCEPT ![h] =
                             [worker[h] EXCEPT !.stage = "resolve", !.entry = e]]
              \/ /\ Create(h) /\ Answer(h) /\ UNCHANGED excused
                 /\ \E e \in EntryIds : Makes(h, e, "create", worker[h].call.content, DM)
              \/ Turns(h) \/ Deletes(h)
<1> DEFINE w == worker[h]
           e == w.entry
<1>1. /\ entries \in [EntryIds -> Entry \cup {Absent}]
      /\ w \in Worker /\ Knows(w) /\ w.call \in Call
  <2>1. w.stage # "idle"
    BY DEF OnEntries, Materialise, Create, NewEntry, ApplyEdit, Reshare, Rewrite, Update, Delete
  <2> QED
    BY <2>1, BusyFacts DEF TypeInv, TypeOK, Call
<1>2. CASE Materialise(h)
  <2> DEFINE new == [content |-> w.snap.payload, seenBy |-> w.call.seenBy,
                     from |-> w.call.request, touched |-> FALSE]
  <2>1. w.stage = "materialise" /\ UNCHANGED <<requests, bags, disputed, excused>>
    BY <1>2 DEF Materialise, NewEntry
  <2>2. PICK f \in EntryIds :
           /\ FreshEntry(f) /\ entries' = [entries EXCEPT ![f] = new]
           /\ worker' = [worker EXCEPT ![h] =
                  [worker[h] EXCEPT !.stage = "resolve", !.entry = f]]
    BY <1>2 DEF Materialise, NewEntry
  <2>3. new \in Entry
    BY <1>1, <2>1 DEF Knows, RequestOps, Proposal, Entry, Call
  <2> QED
    BY <1>1, <1>2, <2>1, <2>2, <2>3 DEF Makes
<1>3. CASE Create(h)
  <2> DEFINE new == [content |-> w.call.content, seenBy |-> w.call.seenBy,
                     from |-> DM, touched |-> FALSE]
  <2>1. w.stage = "create" /\ UNCHANGED <<requests, bags, disputed, excused>>
    BY <1>3 DEF Create, NewEntry
  <2>2. PICK f \in EntryIds :
           FreshEntry(f) /\ entries' = [entries EXCEPT ![f] = new] /\ Answer(h)
    BY <1>3 DEF Create, NewEntry, Answer
  <2>3. new \in Entry
    BY <1>1 DEF Entry, Call
  <2> QED
    BY <1>1, <1>3, <2>1, <2>2, <2>3 DEF Makes
<1>4. ASSUME NEW new \in Entry, NEW stage \in OnEntry, Update(h, stage, new)
      PROVE  /\ e \in EntryIds /\ entries[e] \in Entry /\ entries'[e] = new
             /\ \A f \in EntryIds \ {e} : entries'[f] = entries[f]
             /\ entries' \in [EntryIds -> Entry \cup {Absent}]
             /\ UNCHANGED <<requests, bags, disputed>>
  BY <1>1, <1>4 DEF Update, Knows
<1>5. CASE ApplyEdit(h)
  <2> DEFINE new == [entries[e] EXCEPT !.content = w.snap.payload, !.touched = TRUE,
                                       !.seenBy = w.call.seenBy]
  <2>1. w.stage = "apply" /\ entries[e] # Absent /\ Update(h, "apply", new) /\ Moves(h, "cascade")
    BY <1>5, ProceedMoves DEF ApplyEdit, Update
  <2>2. entries[e] \in Entry
    BY <1>1, <2>1 DEF Knows, OnEntry
  <2>3. /\ new \in Entry /\ new.from = entries[e].from /\ new.touched
        /\ new.seenBy = w.call.seenBy
    BY <1>1, <2>1, <2>2 DEF Knows, RequestOps, Proposal, Entry, Call
  <2> HIDE DEF new
  <2> QED
    BY <1>4, <1>5, <2>1, <2>3 DEF Turns, OnEntry
<1>6. CASE Reshare(h)
  <2> DEFINE new == [entries[e] EXCEPT !.seenBy = w.call.seenBy]
  <2>1. w.stage = "reshare" /\ entries[e] # Absent /\ Update(h, "reshare", new) /\ Moves(h, "cascade")
    BY <1>6, ProceedMoves DEF Reshare, Update
  <2>2. entries[e] \in Entry
    BY <1>1, <2>1 DEF Knows, OnEntry
  <2>3. /\ new \in Entry /\ new.from = entries[e].from /\ new.seenBy = w.call.seenBy
        /\ new.touched = entries[e].touched /\ new.content = entries[e].content
    BY <1>1, <2>1, <2>2 DEF Entry, Call
  <2> HIDE DEF new
  <2> QED
    BY <1>4, <1>6, <2>1, <2>3 DEF Turns, OnEntry
<1>7. CASE Rewrite(h)
  <2> DEFINE new == [entries[e] EXCEPT !.content = w.call.content, !.touched = TRUE]
  <2>1. w.stage = "rewrite" /\ entries[e] # Absent /\ Update(h, "rewrite", new) /\ Answer(h)
    BY <1>7 DEF Rewrite, Update
  <2>2. entries[e] \in Entry
    BY <1>1, <2>1 DEF Knows, OnEntry
  <2>3. /\ new \in Entry /\ new.from = entries[e].from /\ new.touched
        /\ new.seenBy = entries[e].seenBy
    BY <1>1, <2>1, <2>2 DEF Entry, Call
  <2> HIDE DEF new
  <2> QED
    BY <1>4, <1>7, <2>1, <2>3 DEF Turns, OnEntry
<1>8. CASE Delete(h)
  BY <1>1, <1>8 DEF Delete, Deletes, Knows, OnEntry
<1> QED
  BY <1>2, <1>3, <1>5, <1>6, <1>7, <1>8 DEF OnEntries

-----------------------------------------------------------------------------
\* The remaining operations, which leave proposals and entries alone.
OnBags(h) == Cascade(h) \/ CascadeFails(h) \/ Purge(h) \/ PurgeFails(h) \/ Take(h) \/ Drop(h)

LEMMA StepsAre ==
    ASSUME NEW h \in Handlers, Steps(h)
    PROVE  \/ Touches(h) \/ OnEntries(h) \/ OnBags(h) \/ UpdateGone(h) \/ Abort(h)
           \/ \E c \in Calls : Receive(h, c)
BY DEF Steps, Serve, Touches, OnEntries, OnBags

LEMMA BagSteps ==
    ASSUME TypeInv, NEW h \in Handlers, OnBags(h)
    PROVE  /\ UNCHANGED <<requests, entries, disputed>>
           /\ worker[h].entry \in EntryIds
           /\ bags' \in [Players -> SUBSET EntryIds]
           /\ excused' \subseteq Players \X EntryIds
           /\ \/ Answer(h) /\ ~(worker[h].stage = "cascade" /\ worker[h].call.op = "approve")
              \/ /\ worker[h].stage = "cascade" /\ worker[h].call.op = "approve"
                 /\ Moves(h, "resolve")
<1> DEFINE w == worker[h]
<1>1. /\ w.stage \in {"cascade", "purge", "take", "drop"} /\ w.entry \in EntryIds
      /\ w.call \in Call
      /\ bags \in [Players -> SUBSET EntryIds] /\ excused \subseteq Players \X EntryIds
  BY BusyFacts DEF OnBags, Cascade, CascadeFails, Purge, PurgeFails, Take, Drop,
     Knows, OnEntry, TypeInv, TypeOK
<1>2. CASE Cascade(h)
  BY <1>1, <1>2, CascadeMoves, ExcusesAreTyped DEF Cascade
<1>3. CASE CascadeFails(h)
  BY <1>1, <1>3, CascadeMoves, ExcusesAreTyped DEF CascadeFails
<1>4. CASE Purge(h)
  BY <1>1, <1>4, ExcusesAreTyped DEF Purge
<1>5. CASE PurgeFails(h)
  BY <1>1, <1>5, ExcusesAreTyped DEF PurgeFails
<1>6. CASE Take(h)
  BY <1>1, <1>6 DEF Take, Call
<1>7. CASE Drop(h)
  BY <1>1, <1>7, ExcusesAreTyped DEF Drop
<1> QED
  BY <1>2, <1>3, <1>4, <1>5, <1>6, <1>7 DEF OnBags

\* What a handler has in hand once it has let a call in.
LEMMA ReceiveSteps ==
    ASSUME TypeInv, NEW h \in Handlers, NEW c \in Calls, Receive(h, c)
    PROVE  /\ UNCHANGED <<requests, entries, bags, excused>>
           /\ worker[h].stage = "idle" /\ Admits(c)
           /\ disputed' = IF c.op \in RequestOps /\ \E g \in Handlers : WorksOn(g, c.request)
                          THEN disputed \cup {c.request} ELSE disputed
           /\ \E w \in Worker :
                 /\ worker' = [worker EXCEPT ![h] = w] /\ Knows(w)
                 /\ w.call = c /\ w.stage \notin {"idle", "cascade", "purge"}
                 /\ w.stage = "resolve" => c.op = "deny"
                 /\ c.op \in RequestOps => w.snap = requests[c.request]
                 /\ w.stage = "take" => w.entry = c.entry
<1> DEFINE onRequest == c.op \in RequestOps
           snap == IF onRequest THEN requests[c.request] ELSE Absent
           target == CASE c.op = "approve" /\ snap.kind = "edit" -> snap.result
                       [] c.op = "propose" /\ c.kind = "edit" -> c.entry
                       [] c.op \in {"rewrite", "reshare", "delete", "take", "drop"} -> c.entry
                       [] OTHER -> NoEntry
           w == [stage |-> FirstStage(c, snap), call |-> c, snap |-> snap, entry |-> target]
<1>1. /\ UNCHANGED <<requests, entries, bags, excused>>
      /\ worker[h].stage = "idle" /\ Admits(c) /\ worker' = [worker EXCEPT ![h] = w]
      /\ disputed' = IF onRequest /\ \E g \in Handlers : WorksOn(g, c.request)
                     THEN disputed \cup {c.request} ELSE disputed
  BY DEF Receive, RequestOps
<1>2. c \in Call /\ c.request \in RequestIds /\ c.entry \in EntryIds /\ c.op \in Ops
  BY DEF Call
<1>3. onRequest => /\ snap = requests[c.request] /\ snap \in Proposal
                   /\ snap.status = "pending"
  BY <1>1, <1>2 DEF Admits, Pending, RequestOps, TypeInv, TypeOK
<1>4. snap \in Proposal \cup {Absent}
  BY <1>3
<1>5. onRequest /\ snap.kind = "edit" => snap.result \in EntryIds
  BY <1>2, <1>3 DEF TypeInv, EditsNameEntries
<1> HIDE DEF snap
<1>6. FirstStage(c, snap) \in Stages \ {"idle", "cascade", "purge"}
  BY <1>2 DEF FirstStage, Ops, Stages
<1>7. CASE c.op = "approve"
  <2>1. /\ FirstStage(c, snap) = IF snap.kind = "edit" THEN "apply" ELSE "materialise"
        /\ target = IF snap.kind = "edit" THEN snap.result ELSE NoEntry
        /\ snap.kind \in {"create", "edit"}
    BY <1>3, <1>7 DEF FirstStage, RequestOps, Proposal
  <2>2. w \in Worker
    BY <1>2, <1>4, <1>5, <1>6, <1>7, <2>1 DEF Worker, RequestOps
  <2> HIDE DEF target
  <2>3. Knows(w)
    BY <1>3, <1>5, <1>7, <2>1 DEF Knows, OnEntry, RequestOps
  <2> QED
    BY <1>1, <1>3, <1>6, <1>7, <2>1, <2>2, <2>3
<1>8. CASE c.op \in {"withdraw", "deny", "revise"}
  <2>1. /\ FirstStage(c, snap) = IF c.op = "deny" THEN "resolve" ELSE c.op
        /\ target = NoEntry
    BY <1>8 DEF FirstStage, RequestOps
  <2>2. w \in Worker
    BY <1>2, <1>4, <1>6, <2>1 DEF Worker
  <2> HIDE DEF target
  <2>3. Knows(w)
    BY <1>3, <1>8, <2>1 DEF Knows, OnEntry, RequestOps
  <2> QED
    BY <1>1, <1>3, <1>6, <1>8, <2>1, <2>2, <2>3
<1>9. CASE c.op \in Ops \ RequestOps
  <2>1. /\ FirstStage(c, snap) = IF c.op = "propose" THEN "insert" ELSE c.op
        /\ target = IF c.op = "create" \/ (c.op = "propose" /\ c.kind # "edit")
                    THEN NoEntry ELSE c.entry
    BY <1>9 DEF FirstStage, RequestOps, Ops
  <2>2. w \in Worker
    BY <1>2, <1>4, <1>6, <2>1 DEF Worker
  <2> HIDE DEF target
  <2>3. Knows(w)
    BY <1>2, <1>9, <2>1 DEF Knows, OnEntry, RequestOps, Ops
  <2> QED
    BY <1>1, <1>3, <1>6, <1>9, <2>1, <2>2, <2>3 DEF RequestOps, Ops
<1> QED
  BY <1>2, <1>7, <1>8, <1>9 DEF RequestOps

LEMMA TypesStep == TypeInv /\ [Next]_vars => TypeInv'
<1> SUFFICES ASSUME TypeInv, [Next]_vars PROVE TypeInv'
  OBVIOUS
<1>1. CASE UNCHANGED vars
  BY <1>1 DEF vars, TypeInv, TypeOK, EditsNameEntries
<1>2. ASSUME NEW h \in Handlers, Steps(h) PROVE TypeInv'
  <2>1. TypeOK /\ EditsNameEntries
    BY DEF TypeInv
  <2>2. UNCHANGED requests => /\ EditsNameEntries'
                              /\ requests' \in [RequestIds -> Proposal \cup {Absent}]
    BY <2>1 DEF EditsNameEntries, TypeOK
  <2>3. CASE Touches(h)
    BY <2>1, <2>3, ProposalSteps, EditsStep, AnswerIsTyped DEF TypeOK
  <2>4. CASE OnEntries(h)
    <3> DEFINE w == worker[h]
    <3>1. /\ entries' \in [EntryIds -> Entry \cup {Absent}]
          /\ UNCHANGED <<requests, bags, disputed>>
      BY <2>4, EntrySteps
    <3>2. CASE Materialise(h)
      <4>1. w.stage = "materialise"
        BY <3>2 DEF Materialise, NewEntry
      <4>2. PICK e \in EntryIds : worker' = [worker EXCEPT ![h] =
                                         [w EXCEPT !.stage = "resolve", !.entry = e]]
        BY <3>2, <4>1 DEF Materialise, NewEntry
      <4> DEFINE v == [w EXCEPT !.stage = "resolve", !.entry = e]
      <4>3. v \in Worker /\ v.stage = "resolve" /\ v.call = w.call /\ v.snap = w.snap /\ v.entry = e
        BY BusyFacts DEF Worker, Stages
      <4> HIDE DEF v
      <4>4. Knows(v)
        BY <4>1, <4>3, BusyFacts DEF Knows, OnEntry, RequestOps
      <4>5. UNCHANGED excused
        BY <3>2 DEF Materialise, NewEntry
      <4> QED
        BY <2>1, <2>2, <3>1, <4>2, <4>3, <4>4, <4>5, StepIsTyped DEF v, TypeOK
    <3>3. CASE Create(h)
      <4>1. Answer(h) /\ UNCHANGED excused
        BY <3>3 DEF Create, NewEntry, Answer
      <4> QED
        BY <2>1, <2>2, <3>1, <4>1, AnswerIsTyped DEF TypeOK
    <3>4. CASE ApplyEdit(h) \/ Reshare(h)
      <4>1. w.stage \in {"apply", "reshare"} /\ Moves(h, "cascade") /\ w.entry \in EntryIds
        BY <3>4, ProceedMoves, BusyFacts DEF ApplyEdit, Reshare, Update, Knows, OnEntry
      <4>2. excused' \subseteq Players \X EntryIds
        BY <2>1, <3>4, <4>1, ExcusesAreTyped DEF ApplyEdit, Reshare, TypeOK
      <4> QED
        BY <2>1, <3>1, <4>1, <4>2, MoveIsTyped DEF TypeOK
    <3>5. CASE Rewrite(h)
      BY <2>1, <2>2, <3>1, <3>5, AnswerIsTyped DEF Rewrite, TypeOK
    <3>6. CASE Delete(h)
      <4>1. w.stage = "delete" /\ Moves(h, "purge") /\ w.entry \in EntryIds
        BY <3>6, ProceedMoves, BusyFacts DEF Delete, Knows, OnEntry
      <4>2. excused' \subseteq Players \X EntryIds
        BY <2>1, <3>6, <4>1, ExcusesAreTyped DEF Delete, TypeOK
      <4> QED
        BY <2>1, <3>1, <4>1, <4>2, MoveIsTyped DEF TypeOK
    <3> QED
      BY <2>4, <3>2, <3>3, <3>4, <3>5, <3>6 DEF OnEntries
  <2>5. CASE OnBags(h)
    BY <2>1, <2>2, <2>5, BagSteps, AnswerIsTyped, MoveIsTyped DEF TypeOK
  <2>6. CASE UpdateGone(h)
    BY <2>1, <2>2, <2>6, AnswerIsTyped DEF UpdateGone, Gone, TypeOK
  <2>7. CASE Abort(h)
    <3>1. disputed' \subseteq RequestIds
      BY <2>1, <2>7, BusyFacts DEF Abort, TypeOK, Call
    <3>2. excused' \subseteq Players \X EntryIds
      BY <2>1, <2>7, BusyFacts, ExcusesAreTyped DEF Abort, TypeOK, Knows, OnEntry
    <3> QED
      BY <2>1, <2>2, <2>7, <3>1, <3>2, AnswerIsTyped DEF Abort, TypeOK
  <2>8. ASSUME NEW c \in Calls, Receive(h, c) PROVE TypeInv'
    <3>1. disputed' \subseteq RequestIds
      BY <2>1, <2>8, ReceiveSteps DEF TypeOK, Call
    <3> QED
      BY <2>1, <2>2, <2>8, <3>1, ReceiveSteps, StepIsTyped DEF TypeOK
  <2> QED
    BY <1>2, <2>3, <2>4, <2>5, <2>6, <2>7, <2>8, StepsAre
<1> QED
  BY <1>1, <1>2 DEF Next, Steps

\* Proposals, entries, bags and what handlers hold keep their shape: what an
\* approval, an edit or a cascade works on is an entry's id at every stage.
THEOREM TypesHold == Spec => []TypeOK
<1>1. TypeInv => TypeOK
  BY DEF TypeInv
<1> QED
  BY <1>1, TypesStart, TypesStep, PTL DEF Spec

-----------------------------------------------------------------------------
\* What a step does to the handlers: to the one that takes it, and what it has
\* to resolve afterwards.
LEMMA HandlerSteps ==
    ASSUME TypeInv, NEW h \in Handlers, Steps(h)
    PROVE  /\ \A g \in Handlers \ {h} : worker'[g] = worker[g]
           /\ \/ worker'[h] = Idle
              \/ /\ worker[h].stage # "idle" /\ ~Touches(h)
                 /\ worker'[h].call = worker[h].call /\ worker'[h].snap = worker[h].snap
                 /\ worker'[h].stage \notin {"apply", "take"}
                 /\ worker'[h].stage = "resolve" => Materialise(h) \/ worker[h].stage = "cascade"
                 /\ Materialise(h) \/ worker'[h].entry = worker[h].entry
              \/ \E c \in Calls : /\ Receive(h, c) /\ worker'[h].call = c
                                  /\ worker'[h].stage = "resolve" => c.op = "deny"
                                  /\ c.op \in RequestOps => worker'[h].snap = requests[c.request]
                                  /\ worker'[h].stage = "take" => worker'[h].entry = c.entry
           /\ disputed \subseteq disputed'
<1>1. worker \in [Handlers -> Worker] /\ worker[h] \in Worker
  BY DEF TypeInv, TypeOK
<1>2. ASSUME Answer(h)
      PROVE  worker'[h] = Idle /\ \A g \in Handlers \ {h} : worker'[g] = worker[g]
  BY <1>1, <1>2 DEF Answer
<1>3. ASSUME NEW stage \in {"resolve", "cascade", "purge"}, Moves(h, stage)
      PROVE  /\ \A g \in Handlers \ {h} : worker'[g] = worker[g]
             /\ worker'[h].call = worker[h].call /\ worker'[h].snap = worker[h].snap
             /\ worker'[h].stage = stage /\ worker'[h].entry = worker[h].entry
  BY <1>1, <1>3 DEF Moves, Worker
<1>4. CASE Touches(h)
  BY <1>2, <1>4, ProposalSteps
<1>5. CASE OnEntries(h)
  <2>1. disputed' = disputed
    BY <1>5, EntrySteps
  <2>2. CASE Materialise(h)
    <3>1. PICK e : worker' = [worker EXCEPT ![h] =
                                [worker[h] EXCEPT !.stage = "resolve", !.entry = e]]
      BY <2>2 DEF Materialise, NewEntry
    <3>2. worker[h].stage = "materialise"
      BY <2>2 DEF Materialise, NewEntry
    <3>3. ~Touches(h)
      BY <3>2 DEF Touches, Insert, Withdraw, Revise, Resolve
    <3> QED
      BY <1>1, <2>1, <2>2, <3>1, <3>2, <3>3 DEF Worker
  <2>3. CASE Create(h) \/ Rewrite(h)
    <3>1. Answer(h)
      BY <2>3 DEF Create, NewEntry, Rewrite, Answer
    <3> QED
      BY <1>2, <2>1, <3>1
  <2>4. CASE ApplyEdit(h) \/ Reshare(h) \/ Delete(h)
    <3>1. PICK stage \in {"cascade", "purge"} : Moves(h, stage)
      BY <2>4, ProceedMoves DEF ApplyEdit, Reshare, Delete
    <3>2. worker[h].stage \in {"apply", "reshare", "delete"}
      BY <2>4 DEF ApplyEdit, Reshare, Delete, Update
    <3>3. ~Touches(h)
      BY <3>2 DEF Touches, Insert, Withdraw, Revise, Resolve
    <3> QED
      BY <1>3, <2>1, <3>1, <3>2, <3>3
  <2> QED
    BY <1>5, <2>2, <2>3, <2>4 DEF OnEntries
<1>6. CASE OnBags(h)
  <2>1. disputed' = disputed
    BY <1>6, BagSteps
  <2>2. CASE Answer(h)
    BY <1>2, <2>1, <2>2
  <2>3. CASE Moves(h, "resolve") /\ worker[h].stage = "cascade"
    <3>1. ~Touches(h)
      BY <2>3 DEF Touches, Insert, Withdraw, Revise, Resolve
    <3>2. /\ worker'[h].stage = "resolve" /\ worker'[h].entry = worker[h].entry
          /\ worker'[h].call = worker[h].call /\ worker'[h].snap = worker[h].snap
          /\ \A g \in Handlers \ {h} : worker'[g] = worker[g]
      BY <1>3, <2>3
    <3> QED
      BY <2>1, <2>3, <3>1, <3>2
  <2> QED
    BY <1>6, <2>2, <2>3, BagSteps
<1>7. CASE UpdateGone(h) \/ Abort(h)
  BY <1>2, <1>7 DEF UpdateGone, Gone, Abort
<1>8. ASSUME NEW c \in Calls, Receive(h, c)
      PROVE  /\ \A g \in Handlers \ {h} : worker'[g] = worker[g]
             /\ worker'[h].call = c
             /\ worker'[h].stage = "resolve" => c.op = "deny"
             /\ c.op \in RequestOps => worker'[h].snap = requests[c.request]
             /\ worker'[h].stage = "take" => worker'[h].entry = c.entry
             /\ disputed \subseteq disputed'
  BY <1>1, <1>8, ReceiveSteps
<1> QED
  BY <1>4, <1>5, <1>6, <1>7, <1>8, StepsAre

\* Whoever works on a proposal after a step did so before, or has just come in.
LEMMA WorkSteps ==
    ASSUME TypeInv, NEW h \in Handlers, Steps(h), NEW g \in Handlers, NEW q \in RequestIds,
           WorksOn(g, q)'
    PROVE  \/ /\ WorksOn(g, q) /\ worker'[g].snap = worker[g].snap
              /\ g = h => ~Touches(h)
           \/ /\ g = h /\ worker'[g].snap = requests[q]
              /\ \E c \in Calls : Receive(h, c) /\ c.request = q /\ c.op \in RequestOps
<1>1. CASE g # h
  BY <1>1, HandlerSteps DEF WorksOn
<1>2. CASE g = h
  <2>1. worker'[h] # Idle
    BY <1>2 DEF WorksOn, Idle
  <2>2. worker[h].call = worker'[h].call => WorksOn(h, q)
    BY <1>2 DEF WorksOn
  <2> QED
    BY <1>2, <2>1, <2>2, HandlerSteps DEF WorksOn, RequestOps
<1> QED
  BY <1>1, <1>2

\* What becomes of a proposal in a step.
LEMMA ProposalChanges ==
    ASSUME TypeInv, NEW h \in Handlers, Steps(h), NEW q \in RequestIds
    PROVE  \/ requests'[q] = requests[q]
           \/ /\ FreshRequest(q) /\ UNCHANGED entries
              /\ requests'[q] \in Proposal /\ requests'[q].status = "pending"
           \/ /\ Touches(h) /\ ~Insert(h) /\ WorksOn(h, q) /\ UNCHANGED entries
              /\ worker[h].call.request = q
              /\ \/ requests'[q] = Absent
                 \/ /\ requests[q] \in Proposal /\ requests'[q] \in Proposal
                    /\ requests'[q].kind = requests[q].kind
                    /\ \/ /\ Resolve(h) /\ worker[h].stage = "resolve"
                          /\ requests'[q] = Resolved(worker[h], requests[q])
                       \/ /\ Revise(h)
                          /\ requests'[q].status = requests[q].status
                          /\ requests'[q].result = requests[q].result
<1>1. CASE Touches(h)
  <2>1. requests \in [RequestIds -> Proposal \cup {Absent}]
    BY DEF TypeInv, TypeOK
  <2>2. \A r \in Proposal : Resolved(worker[h], r).kind = r.kind
    BY DEF Resolved, Proposal
  <2>3. \A c : \A r \in Proposal : /\ [r EXCEPT !.payload = c].kind = r.kind
                                    /\ [r EXCEPT !.payload = c].status = r.status
                                    /\ [r EXCEPT !.payload = c].result = r.result
    BY DEF Proposal
  <2>4. Resolve(h) => worker[h].stage = "resolve"
    BY DEF Resolve
  <2>5. CASE Insert(h)
    <3>1. Answer(h) /\ UNCHANGED entries
      BY <1>1, ProposalSteps
    <3>2. PICK p \in RequestIds :
             /\ FreshRequest(p) /\ requests'[p] \in Proposal /\ requests'[p].status = "pending"
             /\ \A r \in RequestIds \ {p} : requests'[r] = requests[r]
      BY <1>1, <2>5, ProposalSteps
    <3> QED
      BY <3>1, <3>2
  <2>6. CASE ~Insert(h) /\ q # worker[h].call.request
    BY <1>1, <2>6, ProposalSteps
  <2>7. CASE ~Insert(h) /\ q = worker[h].call.request
    <3>1. /\ UNCHANGED entries /\ WorksOn(h, q)
          /\ requests' \in [RequestIds -> Proposal \cup {Absent}]
      BY <1>1, <2>7, ProposalSteps
    <3>2. CASE requests'[q] = Absent
      BY <1>1, <2>7, <3>1, <3>2
    <3>3. CASE /\ Revise(h) /\ requests[q] \in Proposal
               /\ requests'[q] = [requests[q] EXCEPT !.payload = worker[h].call.content]
      BY <1>1, <2>3, <2>7, <3>1, <3>3
    <3>4. CASE /\ Resolve(h) /\ requests[q] \in Proposal
               /\ requests'[q] = Resolved(worker[h], requests[q])
      BY <1>1, <2>2, <2>4, <2>7, <3>1, <3>4
    <3> QED
      BY <1>1, <2>7, <3>2, <3>3, <3>4, ProposalSteps
  <2> QED
    BY <2>5, <2>6, <2>7
<1>2. CASE ~Touches(h)
  <2>1. UNCHANGED requests
    BY <1>2, StepsAre, EntrySteps, BagSteps DEF UpdateGone, Gone, Abort, Receive
  <2> QED
    BY <2>1
<1> QED
  BY <1>1, <1>2

\* What becomes of an entry in a step.
LEMMA EntryChanges ==
    ASSUME TypeInv, NEW h \in Handlers, Steps(h), NEW e \in EntryIds, entries'[e] # Absent
    PROVE  \/ entries'[e] = entries[e]
           \/ /\ UNCHANGED <<requests, disputed>> /\ Materialise(h) /\ worker'[h].entry = e
              /\ worker'[h].stage = "resolve"
              /\ Makes(h, e, "materialise", worker[h].snap.payload, worker[h].call.request)
           \/ /\ UNCHANGED <<requests, disputed>>
              /\ Makes(h, e, "create", worker[h].call.content, DM)
           \/ /\ UNCHANGED <<requests, disputed>>
              /\ entries[e] # Absent /\ entries'[e].from = entries[e].from
              /\ \/ entries'[e].touched
                 \/ /\ entries'[e].touched = entries[e].touched
                    /\ entries'[e].content = entries[e].content
<1>1. worker \in [Handlers -> Worker]
  BY DEF TypeInv, TypeOK
<1>2. CASE OnEntries(h)
  <2>1. UNCHANGED <<requests, disputed>>
    BY <1>2, EntrySteps
  <2>2. CASE Materialise(h)
    <3>1. PICK f \in EntryIds :
             /\ Makes(h, f, "materialise", worker[h].snap.payload, worker[h].call.request)
             /\ worker' = [worker EXCEPT ![h] =
                              [worker[h] EXCEPT !.stage = "resolve", !.entry = f]]
      BY <1>2, <2>2, EntrySteps DEF Materialise, Create, NewEntry, Turns, Rewrite, ApplyEdit,
         Reshare, Update, Deletes, Delete
    <3>2. worker'[h].entry = f /\ worker'[h].stage = "resolve"
      BY <1>1, <3>1 DEF Worker
    <3> QED
      BY <2>1, <2>2, <3>1, <3>2 DEF Makes
  <2>3. CASE ~Materialise(h)
    BY <1>2, <2>1, <2>3, EntrySteps DEF Makes, Turns, Deletes
  <2> QED
    BY <2>2, <2>3
<1>3. CASE ~OnEntries(h)
  BY <1>3, StepsAre, ProposalSteps, BagSteps DEF UpdateGone, Gone, Abort, Receive
<1> QED
  BY <1>2, <1>3

-----------------------------------------------------------------------------
LEMMA WorkStep ==
    ASSUME TypeInv, OneAtATime, ReadIsCurrent, KindIsKept, NEW h \in Handlers, Steps(h)
    PROVE  OneAtATime' /\ ReadIsCurrent' /\ KindIsKept'
<1>1. disputed \subseteq disputed'
  BY HandlerSteps
<1>2. ASSUME NEW q \in RequestIds \ disputed', NEW g \in Handlers, NEW f \in Handlers,
             WorksOn(g, q)', WorksOn(f, q)'
      PROVE  g = f
  <2>1. ASSUME NEW c \in Calls, Receive(h, c), c.request = q, c.op \in RequestOps,
               NEW k \in Handlers, WorksOn(k, q)
        PROVE  FALSE
    BY <1>2, <2>1, ReceiveSteps
  <2> QED
    BY <1>1, <1>2, <2>1, WorkSteps DEF OneAtATime
<1>3. ASSUME NEW q \in RequestIds \ disputed', NEW g \in Handlers, WorksOn(g, q)'
      PROVE  requests'[q] = worker'[g].snap
  <2>1. CASE WorksOn(g, q) /\ worker'[g].snap = worker[g].snap /\ (g = h => ~Touches(h))
    <3>1. requests[q] = worker[g].snap
      BY <1>1, <1>3, <2>1 DEF ReadIsCurrent
    <3>2. ~FreshRequest(q)
      BY <2>1 DEF FreshRequest
    <3>3. ~(Touches(h) /\ WorksOn(h, q))
      BY <1>1, <1>3, <2>1 DEF OneAtATime
    <3>4. requests'[q] = requests[q]
      BY <3>2, <3>3, ProposalChanges
    <3> QED
      BY <2>1, <3>1, <3>4
  <2>2. ASSUME NEW c \in Calls, Receive(h, c), worker'[g].snap = requests[q]
        PROVE  requests'[q] = worker'[g].snap
    BY <2>2, ReceiveSteps
  <2> QED
    BY <1>3, <2>1, <2>2, WorkSteps
<1>4. ASSUME NEW q \in RequestIds, NEW g \in Handlers, WorksOn(g, q)', requests'[q] # Absent
      PROVE  requests'[q].kind = worker'[g].snap.kind
  <2>1. CASE WorksOn(g, q) /\ worker'[g].snap = worker[g].snap
    <3>1. ~FreshRequest(q)
      BY <2>1 DEF FreshRequest
    <3>2. requests[q] # Absent /\ requests'[q].kind = requests[q].kind
      BY <1>4, <3>1, ProposalChanges
    <3> QED
      BY <2>1, <3>2 DEF KindIsKept
  <2>2. ASSUME NEW c \in Calls, Receive(h, c), worker'[g].snap = requests[q]
        PROVE  requests'[q].kind = worker'[g].snap.kind
    BY <2>2, ReceiveSteps
  <2> QED
    BY <1>4, <2>1, <2>2, WorkSteps
<1> QED
  BY <1>2, <1>3, <1>4 DEF OneAtATime, ReadIsCurrent, KindIsKept

LEMMA MadeStep ==
    ASSUME TypeInv, KindIsKept, MadeFromCreations, NEW h \in Handlers, Steps(h)
    PROVE  MadeFromCreations'
<1> SUFFICES ASSUME NEW e \in EntryIds, NEW q \in RequestIds, entries'[e] # Absent,
                    entries'[e].from = q, requests'[q] # Absent
             PROVE  requests'[q].kind = "create"
  BY DEF MadeFromCreations
<1>1. CASE entries[e] # Absent /\ entries[e].from = q
  <2>1. ~FreshRequest(q)
    BY <1>1 DEF FreshRequest
  <2>2. requests[q] # Absent /\ requests'[q].kind = requests[q].kind
    BY <2>1, ProposalChanges
  <2> QED
    BY <1>1, <2>2 DEF MadeFromCreations
<1>2. CASE /\ UNCHANGED <<requests, disputed>> /\ worker[h].call.request = q
           /\ worker[h].stage = "materialise"
  <2>1. WorksOn(h, q) /\ worker[h].snap.kind = "create"
    BY <1>2, BusyFacts DEF WorksOn, Knows, RequestOps
  <2> QED
    BY <1>2, <2>1 DEF KindIsKept
<1>3. ASSUME NEW stage, NEW content, NEW from, Makes(h, e, stage, content, from)
      PROVE  worker[h].stage = stage /\ from = q
  BY <1>3 DEF Makes
<1>4. DM # q
  OBVIOUS
<1> QED
  BY <1>1, <1>2, <1>3, <1>4, EntryChanges

LEMMA ResolvesStep ==
    ASSUME TypeInv, ResolvesItsEntry, NEW h \in Handlers, Steps(h)
    PROVE  ResolvesItsEntry'
<1> SUFFICES ASSUME NEW g \in Handlers, worker'[g].stage = "resolve",
                    worker'[g].call.op = "approve", worker'[g].snap.kind = "create",
                    entries'[worker'[g].entry] # Absent
             PROVE  LET w == worker'[g]
                        e == w.entry
                    IN  /\ entries'[e].from = w.call.request
                        /\ ~entries'[e].touched => entries'[e].content = w.snap.payload
  BY DEF ResolvesItsEntry
<1>1. CASE g # h
  <2> DEFINE w == worker[g]
             e == w.entry
  <2>1. worker'[g] = w
    BY <1>1, HandlerSteps
  <2>2. e \in EntryIds /\ w.stage # "idle"
    BY <2>1, BusyFacts DEF Knows, RequestOps
  <2>3. ~FreshEntry(e)
    BY DEF FreshEntry
  <2>4. /\ entries[e] # Absent /\ entries'[e].from = entries[e].from
        /\ \/ entries'[e].touched
           \/ /\ entries'[e].touched = entries[e].touched
              /\ entries'[e].content = entries[e].content
    BY <2>1, <2>2, <2>3, EntryChanges DEF Makes
  <2>5. /\ entries[e].from = w.call.request
        /\ ~entries[e].touched => entries[e].content = w.snap.payload
    BY <2>1, <2>4 DEF ResolvesItsEntry
  <2> QED
    BY <2>1, <2>4, <2>5
<1>2. CASE g = h
  <2> DEFINE e == worker'[h].entry
  <2>1. worker'[h] # Idle
    BY <1>2 DEF Idle
  <2>2. CASE Materialise(h) /\ worker'[h].call = worker[h].call /\ worker'[h].snap = worker[h].snap
    <3>1. PICK f \in EntryIds :
             /\ Makes(h, f, "materialise", worker[h].snap.payload, worker[h].call.request)
             /\ worker' = [worker EXCEPT ![h] =
                              [worker[h] EXCEPT !.stage = "resolve", !.entry = f]]
      BY <2>2, EntrySteps DEF OnEntries, Materialise, Create, NewEntry, Turns, Rewrite,
         ApplyEdit, Reshare, Update, Deletes, Delete
    <3>2. e = f
      BY <3>1 DEF TypeInv, TypeOK, Worker
    <3> QED
      BY <1>2, <2>2, <3>1, <3>2 DEF Makes
  <2>3. CASE worker[h].stage = "cascade" /\ worker'[h].call = worker[h].call
             /\ worker'[h].snap = worker[h].snap
    BY <1>2, <2>3, BusyFacts DEF Knows, RequestOps
  <2> QED
    BY <1>2, <2>1, <2>2, <2>3, HandlerSteps
<1> QED
  BY <1>1, <1>2

LEMMA ApprovedStep ==
    ASSUME TypeInv, KindIsKept, ResolvesItsEntry, ApprovedNamesItsEntry,
           NEW h \in Handlers, Steps(h)
    PROVE  ApprovedNamesItsEntry'
<1> SUFFICES ASSUME NEW q \in RequestIds, requests'[q] # Absent,
                    requests'[q].status = "approved"
             PROVE  /\ requests'[q].result # NoEntry
                    /\ LET e == requests'[q].result
                       IN  requests'[q].kind = "create" /\ entries'[e] # Absent
                           => entries'[e].from = q
  BY DEF ApprovedNamesItsEntry
<1> DEFINE w == worker[h]
           e == requests'[q].result
<1>1. CASE /\ requests[q] # Absent /\ requests[q].status = "approved"
           /\ requests[q].result = e /\ requests'[q].kind = requests[q].kind
  <2>1. /\ e # NoEntry
        /\ requests[q].kind = "create" /\ entries[e] # Absent => entries[e].from = q
    BY <1>1 DEF ApprovedNamesItsEntry
  <2>2. e \in EntryIds
    BY <1>1, <2>1 DEF TypeInv, TypeOK, Proposal
  <2>3. ~FreshEntry(e)
    BY <1>1 DEF FreshEntry
  <2>4. entries'[e] # Absent => entries[e] # Absent /\ entries'[e].from = entries[e].from
    BY <2>2, <2>3, EntryChanges DEF Makes
  <2> QED
    BY <1>1, <2>1, <2>4
<1>2. CASE /\ w.stage = "resolve" /\ WorksOn(h, q) /\ w.call.request = q
           /\ requests[q] \in Proposal /\ requests'[q].kind = requests[q].kind
           /\ requests'[q] = Resolved(w, requests[q]) /\ UNCHANGED entries
  <2>1. w.call.op = "approve" /\ e = w.entry
    BY <1>2 DEF Resolved, Verdict, Proposal
  <2>2. e \in EntryIds
    BY <1>2, <2>1, BusyFacts DEF Knows, RequestOps
  <2>3. requests[q].kind = w.snap.kind
    BY <1>2 DEF KindIsKept
  <2> QED
    BY <1>2, <2>1, <2>2, <2>3 DEF ResolvesItsEntry
<1> QED
  BY <1>1, <1>2, ProposalChanges

\* What accounts for an entry made from a proposal: its record, or an approval
\* about to be recorded.
Recorded(e, q) == /\ requests[q] # Absent
                  /\ requests[q].status = "approved" /\ requests[q].result = e
                  /\ ~entries[e].touched => entries[e].content = requests[q].payload

Resolving(h, e, q) == /\ worker[h].stage = "resolve"
                      /\ worker[h].call.request = q /\ worker[h].entry = e

LEMMA OutcomeStep ==
    ASSUME TypeInv, OneAtATime, ReadIsCurrent, KindIsKept, MadeFromCreations,
           ResolvesItsEntry, OutcomeMatchesRequest, NEW h \in Handlers, Steps(h)
    PROVE  OutcomeMatchesRequest'
<1> SUFFICES ASSUME NEW e \in EntryIds, NEW q \in RequestIds \ disputed',
                    entries'[e] # Absent, entries'[e].from = q
             PROVE  Recorded(e, q)' \/ \E g \in Handlers : Resolving(g, e, q)'
  BY DEF OutcomeMatchesRequest, Recorded, Resolving
<1> DEFINE w == worker[h]
<1>1. q \notin disputed
  BY HandlerSteps
<1>2. CASE Materialise(h) /\ worker'[h].entry = e /\ worker'[h].stage = "resolve"
           /\ Makes(h, e, "materialise", w.snap.payload, w.call.request)
  <2>1. worker'[h].call = w.call
    <3>1. PICK f : worker' = [worker EXCEPT ![h] = [w EXCEPT !.stage = "resolve", !.entry = f]]
      BY <1>2 DEF Materialise, NewEntry
    <3> QED
      BY <3>1 DEF TypeInv, TypeOK, Worker
  <2>2. w.call.request = q
    BY <1>2 DEF Makes
  <2> QED
    BY <1>2, <2>1, <2>2 DEF Resolving
<1>3. CASE /\ entries[e] # Absent /\ entries'[e].from = entries[e].from
           /\ \/ entries'[e].touched
              \/ /\ entries'[e].touched = entries[e].touched
                 /\ entries'[e].content = entries[e].content
  <2>1. Recorded(e, q) \/ \E g \in Handlers : Resolving(g, e, q)
    BY <1>1, <1>3 DEF OutcomeMatchesRequest, Recorded, Resolving
  <2>2. ~FreshRequest(q)
    BY <1>3 DEF FreshRequest
  <2>3. WorksOn(h, q) => requests[q] = w.snap /\ w.snap.status = "pending"
    BY <1>1, BusyFacts DEF ReadIsCurrent, WorksOn, Knows, RequestOps, Idle
  <2>4. CASE Recorded(e, q)
    <3>1. requests'[q] = requests[q]
      BY <2>2, <2>3, <2>4, ProposalChanges DEF Recorded
    <3> QED
      BY <1>3, <2>4, <3>1 DEF Recorded
  <2>5. ASSUME NEW g \in Handlers, Resolving(g, e, q)
        PROVE  Recorded(e, q)' \/ \E k \in Handlers : Resolving(k, e, q)'
    <3>1. /\ WorksOn(g, q) /\ worker[g].call.op = "approve"
          /\ worker[g].snap \in Proposal /\ worker[g].stage # "idle"
      BY <2>5, BusyFacts DEF Resolving, WorksOn, Knows, RequestOps
    <3>2. CASE g # h
      <4>1. worker'[g] = worker[g]
        BY <3>2, HandlerSteps
      <4> QED
        BY <2>5, <4>1 DEF Resolving
    <3>3. CASE g = h
      <4>1. ~Abort(h)
        BY <2>5, <3>1, <3>3 DEF Resolving, Abort
      <4>2. Resolve(h)
        BY <2>5, <3>3, <4>1, StepsAre DEF Resolving, Touches, Insert, Withdraw, Revise,
           OnEntries, Materialise, Create, NewEntry, ApplyEdit, Reshare, Rewrite, Update,
           Delete, OnBags, Cascade, CascadeFails, Purge, PurgeFails, Take, Drop,
           UpdateGone, Gone, Receive
      <4>3. /\ requests[q] = w.snap /\ requests[q] \in Proposal
            /\ w.call.request = q /\ w.entry = e
        BY <2>3, <2>5, <3>1, <3>3 DEF Resolving
      <4>4. requests[q].kind = "create"
        BY <1>3, <4>3 DEF MadeFromCreations
      <4>5. requests'[q] = Resolved(w, requests[q]) /\ UNCHANGED entries
        <5>1. ~Insert(h) /\ ~Withdraw(h) /\ ~Revise(h) /\ requests[q] # Absent
          BY <4>2, <4>3 DEF Resolve, Insert, Withdraw, Revise
        <5> QED
          BY <4>2, <4>3, <5>1, ProposalSteps DEF Touches
      <4>6. /\ requests'[q].status = "approved" /\ requests'[q].result = e
            /\ requests'[q].payload = w.snap.payload /\ requests'[q] \in Proposal
        BY <3>1, <3>3, <4>3, <4>5 DEF Resolved, Verdict, Proposal
      <4>7. ~entries[e].touched => entries[e].content = w.snap.payload
        BY <1>3, <2>5, <3>1, <3>3, <4>3, <4>4 DEF ResolvesItsEntry, Resolving
      <4> QED
        BY <4>5, <4>6, <4>7 DEF Recorded
    <3> QED
      BY <3>2, <3>3
  <2> QED
    BY <2>1, <2>4, <2>5
<1>4. ASSUME NEW content, Makes(h, e, "create", content, DM) PROVE FALSE
  BY <1>4 DEF Makes
<1> QED
  BY <1>2, <1>3, <1>4, EntryChanges

-----------------------------------------------------------------------------
LEMMA QueueStarts == Init => QueueInv
<1> SUFFICES ASSUME Init PROVE QueueInv
  OBVIOUS
<1>1. \A h \in Handlers : worker[h].stage = "idle" /\ worker[h].call = NoCall
  BY DEF Init, Idle
<1> QED
  BY <1>1, TypesStart DEF Init, QueueInv, OneAtATime, ReadIsCurrent, KindIsKept, WorksOn,
     MadeFromCreations, ResolvesItsEntry, ApprovedNamesItsEntry, OutcomeMatchesRequest

LEMMA QueueStep == QueueInv /\ [Next]_vars => QueueInv'
<1> SUFFICES ASSUME QueueInv, [Next]_vars PROVE QueueInv'
  OBVIOUS
<1>1. TypeInv'
  BY TypesStep DEF QueueInv
<1>2. CASE UNCHANGED vars
  BY <1>1, <1>2 DEF vars, QueueInv, OneAtATime, ReadIsCurrent, KindIsKept, WorksOn,
     MadeFromCreations, ResolvesItsEntry, ApprovedNamesItsEntry, OutcomeMatchesRequest
<1>3. ASSUME NEW h \in Handlers, Steps(h) PROVE QueueInv'
  BY <1>1, <1>3, WorkStep, MadeStep, ResolvesStep, ApprovedStep, OutcomeStep DEF QueueInv
<1> QED
  BY <1>2, <1>3 DEF Next, Steps

LEMMA QueueInvHolds == Spec => []QueueInv
BY QueueStarts, QueueStep, PTL DEF Spec

\* However approvals, denials, revisions and withdrawals overlap, an approved
\* request names an entry made from it, or the entry it edits.
THEOREM ApprovalsNameTheirEntry == Spec => []ApprovedNamesItsEntry
<1>1. QueueInv => ApprovedNamesItsEntry
  BY DEF QueueInv
<1> QED
  BY <1>1, QueueInvHolds, PTL

\* Outside of disputes each entry made from a proposal is the one its approved
\* record names, with the contents of the record as long as nobody rewrites it.
THEOREM OutcomesMatchRequests == Spec => []OutcomeMatchesRequest
<1>1. QueueInv => OutcomeMatchesRequest
  BY DEF QueueInv
<1> QED
  BY <1>1, QueueInvHolds, PTL

\* A handler alone with a proposal has read it pending, and it is so still.
LEMMA FinalStep == QueueInv /\ [Next]_vars => [OnlyPendingChange]_vars
<1> SUFFICES ASSUME QueueInv, NEW h \in Handlers, Steps(h),
                    NEW q \in RequestIds \ disputed',
                    requests[q] # Absent, requests'[q] # requests[q]
             PROVE  /\ requests[q].status = "pending"
                    /\ requests'[q] # Absent /\ requests'[q].status # "pending" =>
                          /\ worker[h].stage = "resolve" /\ worker[h].call.request = q
                          /\ worker[h].snap = requests[q]
  BY DEF Next, Steps, OnlyPendingChange
<1>1. TypeInv /\ ReadIsCurrent /\ q \notin disputed
  BY HandlerSteps DEF QueueInv
<1>2. ~FreshRequest(q)
  BY DEF FreshRequest
<1>3. WorksOn(h, q)
  BY <1>1, <1>2, ProposalChanges
<1>4. requests[q] = worker[h].snap
  BY <1>1, <1>3 DEF ReadIsCurrent
<1>5. requests[q].status = "pending"
  <2>1. worker[h].stage # "idle" /\ worker[h].call.op \in RequestOps
    BY <1>1, <1>3, BusyFacts DEF WorksOn, RequestOps, Knows, Idle
  <2> QED
    BY <1>1, <1>4, <2>1, BusyFacts DEF Knows
<1>6. ASSUME requests'[q] # Absent, requests'[q].status # "pending"
      PROVE  worker[h].stage = "resolve" /\ worker[h].call.request = q
  BY <1>1, <1>2, <1>5, <1>6, ProposalChanges
<1> QED
  BY <1>4, <1>5, <1>6

\* Outside of disputes a decision is made on what was read of the proposal, and
\* no later call changes or removes what is decided.
THEOREM DecisionsAreFinal == Spec => DecidedIsFinal
BY QueueInvHolds, FinalStep, PTL DEF Spec, DecidedIsFinal

-----------------------------------------------------------------------------
\* The bags a cascade, a purge or a drop takes an entry out of.
Cleans(h, p) == \/ Cascade(h) /\ p \notin worker[h].call.seenBy
                \/ Purge(h)
                \/ Drop(h) /\ p = worker[h].call.player

\* An excuse goes with what it excuses, unless the entry is on its way again.
LEMMA ExcuseSteps ==
    ASSUME TypeInv, NEW h \in Handlers, Steps(h), NEW p \in Players, NEW e \in EntryIds,
           <<p, e>> \in excused, <<p, e>> \notin excused'
    PROVE  Cleans(h, p) /\ e = worker[h].entry /\ <<p, e>> \notin TakenMeanwhile(e)
<1>1. CASE Touches(h)
  BY <1>1, ProposalSteps
<1>2. CASE OnEntries(h)
  <2>1. excused \subseteq excused'
    BY <1>2 DEF OnEntries, Materialise, Create, NewEntry, ApplyEdit, Reshare, Rewrite, Delete
  <2> QED
    BY <2>1
<1>3. CASE OnBags(h)
  BY <1>3 DEF OnBags, Cascade, CascadeFails, Purge, PurgeFails, Take, Drop, Settled, Cleans
<1>4. CASE UpdateGone(h) \/ Abort(h)
  BY <1>4 DEF UpdateGone, Gone, Abort
<1>5. ASSUME NEW c \in Calls, Receive(h, c) PROVE FALSE
  BY <1>5 DEF Receive
<1> QED
  BY <1>1, <1>2, <1>3, <1>4, <1>5, StepsAre

LEMMA BagChanges ==
    ASSUME TypeInv, NEW h \in Handlers, Steps(h), NEW p \in Players, NEW e \in EntryIds,
           e \in bags'[p]
    PROVE  /\ e \in bags[p] \/ (Take(h) /\ e = worker[h].entry /\ p = worker[h].call.player)
           /\ ~(Cleans(h, p) /\ e = worker[h].entry)
<1>1. bags \in [Players -> SUBSET EntryIds]
  BY DEF TypeInv, TypeOK
<1>2. CASE OnBags(h)
  <2>1. Cascade(h) \/ CascadeFails(h) => worker[h].stage = "cascade"
    BY DEF Cascade, CascadeFails
  <2>2. Purge(h) \/ PurgeFails(h) => worker[h].stage = "purge"
    BY DEF Purge, PurgeFails
  <2>3. /\ Take(h) => worker[h].stage = "take"
        /\ Drop(h) => worker[h].stage = "drop"
    BY DEF Take, Drop
  <2>4. CASE Cascade(h)
    BY <1>1, <2>1, <2>2, <2>3, <2>4 DEF Cascade, Cleans
  <2>5. CASE CascadeFails(h) \/ PurgeFails(h)
    BY <2>5 DEF CascadeFails, PurgeFails, Cleans, Cascade, Purge, Drop
  <2>6. CASE Purge(h)
    BY <1>1, <2>6 DEF Purge
  <2>7. CASE Take(h)
    BY <1>1, <2>1, <2>2, <2>3, <2>7 DEF Take, Cleans
  <2>8. CASE Drop(h)
    BY <1>1, <2>1, <2>2, <2>3, <2>8 DEF Drop, Cleans
  <2> QED
    BY <1>2, <2>4, <2>5, <2>6, <2>7, <2>8 DEF OnBags
<1>3. CASE ~OnBags(h)
  <2>1. UNCHANGED bags
    BY <1>3, StepsAre, ProposalSteps, EntrySteps DEF UpdateGone, Gone, Abort, Receive
  <2> QED
    BY <1>3, <2>1 DEF Cleans, OnBags
<1> QED
  BY <1>2, <1>3

\* An entry goes out of a player's sight when it is hidden, or deleted.
LEMMA SightSteps ==
    ASSUME TypeInv, NEW h \in Handlers, Steps(h), NEW p \in Players, NEW e \in EntryIds,
           CanSee(e, p), ~CanSee(e, p)'
    PROVE  /\ e = worker[h].entry
           /\ TakenMeanwhile(e) \subseteq excused'
           /\ worker'[h].entry = e
           /\ \/ worker'[h].stage = "purge"
              \/ worker'[h].stage = "cascade" /\ p \notin worker'[h].call.seenBy
<1>1. entries[e] # Absent /\ p # DM /\ p \in entries[e].seenBy
  BY DEF CanSee
<1>2. ~FreshEntry(e)
  BY <1>1 DEF FreshEntry
<1>3. entries'[e] # entries[e]
  BY DEF CanSee
<1>4. OnEntries(h)
  BY <1>3, StepsAre, ProposalSteps, BagSteps DEF UpdateGone, Gone, Abort, Receive
<1>5. ASSUME NEW stage, Moves(h, stage)
      PROVE  /\ worker'[h].stage = stage /\ worker'[h].entry = worker[h].entry
             /\ worker'[h].call = worker[h].call
  BY <1>5 DEF Moves, TypeInv, TypeOK, Worker
<1>6. CASE Turns(h)
  <2>1. e = worker[h].entry /\ entries'[e] \in Entry
    BY <1>3, <1>6 DEF Turns
  <2>2. p \notin entries'[e].seenBy
    BY <1>1, <2>1 DEF CanSee
  <2>3. /\ ApplyEdit(h) \/ Reshare(h)
        /\ Moves(h, "cascade") /\ entries'[e].seenBy = worker[h].call.seenBy
    BY <1>1, <1>6, <2>1, <2>2 DEF Turns
  <2>4. TakenMeanwhile(e) \subseteq excused'
    BY <2>1, <2>3 DEF ApplyEdit, Reshare
  <2> QED
    BY <1>5, <2>1, <2>2, <2>3, <2>4
<1>7. CASE Deletes(h)
  <2>1. e = worker[h].entry /\ Moves(h, "purge") /\ TakenMeanwhile(e) \subseteq excused'
    BY <1>3, <1>7, ProceedMoves DEF Deletes, Delete
  <2> QED
    BY <1>5, <2>1
<1> QED
  BY <1>2, <1>3, <1>4, <1>6, <1>7, EntrySteps DEF Makes

LEMMA TakesStep ==
    ASSUME TypeInv, TakesAreKnown, NEW h \in Handlers, Steps(h)
    PROVE  TakesAreKnown'
<1> SUFFICES ASSUME NEW g \in Handlers, worker'[g].stage = "take", worker'[g].call.by # DM,
                    NEW p, p = worker'[g].call.player, NEW e, e = worker'[g].entry
             PROVE  CanSee(e, p)' \/ <<p, e>> \in excused'
  BY DEF TakesAreKnown, CanSee
<1>1. CASE g # h
  <2>1. worker'[g] = worker[g]
    BY <1>1, HandlerSteps
  <2>2. p \in Players /\ e \in EntryIds
    BY <2>1, BusyFacts DEF Knows, OnEntry, Call
  <2>3. <<p, e>> \in TakenMeanwhile(e)
    BY <2>1, <2>2 DEF TakenMeanwhile
  <2>4. CanSee(e, p) \/ <<p, e>> \in excused
    BY <2>1 DEF TakesAreKnown
  <2> QED
    BY <2>2, <2>3, <2>4, ExcuseSteps, SightSteps
<1>2. CASE g = h
  <2>1. PICK c \in Calls : Receive(h, c) /\ worker'[h].call = c /\ worker'[h].entry = c.entry
    BY <1>2, HandlerSteps DEF Idle
  <2>2. \E w \in Worker : worker' = [worker EXCEPT ![h] = w] /\ Knows(w)
    BY <2>1, ReceiveSteps
  <2>3. Knows(worker'[h])
    BY <2>2 DEF TypeInv, TypeOK
  <2>4. c.op = "take"
    BY <1>2, <2>1, <2>3 DEF Knows
  <2>5. CanSee(c.entry, c.player) /\ UNCHANGED entries
    BY <1>2, <2>1, <2>4, ReceiveSteps DEF Admits
  <2> QED
    BY <1>2, <2>1, <2>5 DEF CanSee
<1> QED
  BY <1>1, <1>2

LEMMA BagsStep ==
    ASSUME TypeInv, TakesAreKnown, BagsFollowVisibility, NEW h \in Handlers, Steps(h)
    PROVE  BagsFollowVisibility'
<1> SUFFICES ASSUME NEW p \in Players, NEW e \in EntryIds, e \in bags'[p],
                    ~CanSee(e, p)', <<p, e>> \notin excused'
             PROVE  \E g \in Handlers :
                       /\ worker'[g].entry = e
                       /\ \/ worker'[g].stage = "purge"
                          \/ worker'[g].stage = "cascade" /\ p \notin worker'[g].call.seenBy
  BY DEF BagsFollowVisibility
<1> DEFINE w == worker[h]
<1>1. <<p, e>> \notin excused
  BY BagChanges, ExcuseSteps
<1>2. CASE CanSee(e, p)
  BY <1>2, SightSteps
<1>3. CASE ~CanSee(e, p) /\ e \in bags[p]
  <2>1. PICK g \in Handlers : /\ worker[g].entry = e
                              /\ \/ worker[g].stage = "purge"
                                 \/ worker[g].stage = "cascade" /\ p \notin worker[g].call.seenBy
    BY <1>1, <1>3 DEF BagsFollowVisibility
  <2>2. CASE g # h
    <3>1. worker'[g] = worker[g]
      BY <2>2, HandlerSteps
    <3> QED
      BY <2>1, <3>1
  <2>3. CASE g = h
    <3>1. <<p, e>> \in Leftovers(e)
      BY <1>3 DEF Leftovers
    <3>2. ~Abort(h) /\ ~CascadeFails(h) /\ ~PurgeFails(h)
      BY <2>1, <2>3, <3>1 DEF Abort, CascadeFails, PurgeFails
    <3>3. ~Cascade(h) /\ ~Purge(h)
      BY <2>1, <2>3, BagChanges DEF Cleans, Cascade
    <3> QED
      BY <2>1, <2>3, <3>2, <3>3, StepsAre DEF Touches, Insert, Withdraw, Revise, Resolve,
         OnEntries, Materialise, Create, NewEntry, ApplyEdit, Reshare, Rewrite, Update,
         Delete, OnBags, Take, Drop, UpdateGone, Gone, Receive
  <2> QED
    BY <2>2, <2>3
<1>4. CASE ~CanSee(e, p) /\ e \notin bags[p]
  <2>1. Take(h) /\ e = w.entry /\ p = w.call.player
    BY <1>4, BagChanges
  <2>2. w.call.by # DM
    BY <2>1 DEF Take
  <2> QED
    BY <1>1, <1>4, <2>1, <2>2 DEF TakesAreKnown, Take
<1> QED
  BY <1>2, <1>3, <1>4

LEMMA BagStarts == Init => BagInv
<1> SUFFICES ASSUME Init PROVE BagInv
  OBVIOUS
<1>1. \A h \in Handlers : worker[h].stage = "idle"
  BY DEF Init, Idle
<1> QED
  BY <1>1, TypesStart DEF Init, BagInv, TakesAreKnown, BagsFollowVisibility

LEMMA BagStep == BagInv /\ [Next]_vars => BagInv'
<1> SUFFICES ASSUME BagInv, [Next]_vars PROVE BagInv'
  OBVIOUS
<1>1. TypeInv'
  BY TypesStep DEF BagInv
<1>2. CASE UNCHANGED vars
  BY <1>1, <1>2 DEF vars, BagInv, TakesAreKnown, BagsFollowVisibility, CanSee
<1>3. ASSUME NEW h \in Handlers, Steps(h) PROVE BagInv'
  BY <1>1, <1>3, TakesStep, BagsStep DEF BagInv
<1> QED
  BY <1>2, <1>3 DEF Next, Steps

\* A player keeps nothing he may not see but for what the DM gave him, he took
\* at that very moment, or a cascade about to run, or failed, has left him.
THEOREM BagsFollowSight == Spec => []BagsFollowVisibility
<1>1. BagInv => BagsFollowVisibility
  BY DEF BagInv
<1> QED
  BY <1>1, BagStarts, BagStep, PTL DEF Spec
=============================================================================
