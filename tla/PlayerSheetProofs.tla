-------------------------- MODULE PlayerSheetProofs ---------------------------
(***************************************************************************)
(* Facts about every sheet: any number of handlers and entries, every      *)
(* purse and every limit on requests.  The invariant of the limited uses   *)
(* adds what a handler that is about to write knows of the entry it has    *)
(* read.  The two parts are proved apart, and the last theorems carry the  *)
(* results over to the document they share.                                *)
(***************************************************************************)
EXTENDS PlayerSheet, TLAPS

\* What the stage of a handler says of its request and of what it has read.
WorkerKnows(h) ==
    LET w == worker[h]
    IN  /\ w.stage # "idle" => w.rq \in Requests
        /\ w.stage \in {"read", "write"} => w.rq.op \in {"restore", "reset"}
        /\ w.stage = "write" => /\ w.snap \in Entry
                                /\ w.rq.op = "restore" => w.snap.remaining < w.snap.max

UsesInv ==
    /\ TypeOK
    /\ WithinMax
    /\ OneTimeEntriesEnd
    /\ \A h \in Handlers : WorkerKnows(h)

USE LimitsAssumption, RequestsAssumption, AbsentAssumption

\* Every write is of one entry, which keeps the uses and the histories typed.
LEMMA PutType ==
    ASSUME TypeOK, NEW h \in Handlers, NEW i \in Ids, NEW entry \in Entry \cup {Absent},
           Put(h, i, entry)
    PROVE  /\ uses' \in [Ids -> Entry \cup {Absent}]
           /\ changes' \in [Handlers -> 0 .. 2]
           /\ uses'[i] = entry
           /\ \A j \in Ids \ {i} : uses'[j] = uses[j]
<1>1. uses' = [uses EXCEPT ![i] = entry]
  BY DEF Put
<1>2. ASSUME NEW g \in Handlers
      PROVE  (IF g # h /\ Is(g, "use") /\ Target(g) = i /\ changes[g] < 2
              THEN changes[g] + 1 ELSE changes[g]) \in 0 .. 2
  BY DEF TypeOK
<1>3. changes' \in [Handlers -> 0 .. 2]
  BY <1>2 DEF Put
<1> QED
  BY <1>1, <1>3 DEF TypeOK

\* A handler that answers is idle; the others are where they were.
LEMMA AnswerKnows ==
    ASSUME TypeOK, \A g \in Handlers : WorkerKnows(g), NEW h \in Handlers, Answer(h)
    PROVE  /\ worker' \in [Handlers -> Worker]
           /\ \A g \in Handlers : WorkerKnows(g)'
<1>1. Idle \in Worker /\ Idle.stage = "idle"
  BY DEF Idle, Worker, Stages, MaxTries
<1>2. worker' = [worker EXCEPT ![h] = Idle]
  BY DEF Answer
<1> QED
  BY <1>1, <1>2 DEF TypeOK, WorkerKnows

\* What a write stores must be within its maximum and, for good, not used up.
LEMMA PutKeeps ==
    ASSUME UsesInv, NEW h \in Handlers, NEW i \in Ids, NEW entry \in Entry \cup {Absent},
           Put(h, i, entry), Answer(h), flipped' \subseteq Ids, flipped \subseteq flipped',
           entry # Absent => /\ entry.remaining <= entry.max
                             /\ entry.resets \/ entry.remaining > 0 \/ i \in flipped'
    PROVE  UsesInv'
<1>1. TypeOK'
  BY PutType, AnswerKnows DEF UsesInv, TypeOK
<1>2. WithinMax' /\ OneTimeEntriesEnd'
  BY PutType DEF UsesInv, WithinMax, OneTimeEntriesEnd, Present
<1> QED
  BY <1>1, <1>2, AnswerKnows DEF UsesInv

\* A step that leaves the array alone keeps what is said of it.
LEMMA QuietKeeps ==
    ASSUME UsesInv, UNCHANGED <<uses, flipped>>, changes' \in [Handlers -> 0 .. 2],
           worker' \in [Handlers -> Worker], \A g \in Handlers : WorkerKnows(g)'
    PROVE  UsesInv'
BY DEF UsesInv, TypeOK, WithinMax, OneTimeEntriesEnd, Present

LEMMA SingleKeeps ==
    ASSUME UsesInv, NEW h \in Handlers,
           AddLimitedUse(h) \/ UpdateLimitedUse(h) \/ RemoveLimitedUse(h)
    PROVE  UsesInv'
<1> DEFINE r == worker[h].rq
<1>1. r \in Requests /\ r \in Request /\ Target(h) \in Ids
  BY DEF UsesInv, WorkerKnows, AddLimitedUse, UpdateLimitedUse, RemoveLimitedUse, Request,
         Target
<1>2. CASE AddLimitedUse(h)
  <2>1. PICK i \in Ids : Put(h, i, [max |-> r.max, remaining |-> r.max, resets |-> r.resets])
    BY <1>2 DEF AddLimitedUse
  <2> DEFINE entry == [max |-> r.max, remaining |-> r.max, resets |-> r.resets]
  <2>2. entry \in Entry /\ entry.remaining <= entry.max /\ entry.remaining > 0
    BY <1>1 DEF Request, Entry
  <2>3. Answer(h) /\ flipped' = flipped
    BY <1>2 DEF AddLimitedUse
  <2> HIDE DEF entry
  <2>4. flipped' \subseteq Ids /\ Put(h, i, entry)
    BY <2>1, <2>3 DEF UsesInv, TypeOK, entry
  <2> QED
    BY <2>2, <2>3, <2>4, PutKeeps
<1>3. CASE UpdateLimitedUse(h)
  <2> DEFINE i == Target(h)  entry == Patched(uses[i], r)
  <2>1. /\ uses[i] # Absent /\ Put(h, i, entry) /\ Answer(h)
        /\ flipped' = IF entry.remaining = 0 /\ ~entry.resets
                      THEN flipped \cup {i} ELSE flipped
    BY <1>3 DEF UpdateLimitedUse
  <2>2. uses[i] \in Entry /\ uses[i].remaining <= uses[i].max
    BY <1>1, <2>1 DEF UsesInv, TypeOK, WithinMax, Present
  <2>3. entry \in Entry /\ entry.remaining <= entry.max
    BY <1>1, <2>2 DEF Patched, Request, Entry
  <2>4. entry.resets \/ entry.remaining > 0 \/ i \in flipped'
    BY <2>1, <2>3 DEF Entry
  <2>5. flipped' \subseteq Ids /\ flipped \subseteq flipped'
    BY <1>1, <2>1 DEF UsesInv, TypeOK
  <2> HIDE DEF entry, i
  <2> QED
    BY <1>1, <2>1, <2>3, <2>4, <2>5, PutKeeps DEF i
<1>4. CASE RemoveLimitedUse(h)
  <2>1. Put(h, Target(h), Absent) /\ Answer(h) /\ flipped' = flipped
    BY <1>4 DEF RemoveLimitedUse
  <2>2. flipped' \subseteq Ids
    BY <2>1 DEF UsesInv, TypeOK
  <2> QED
    BY <1>1, <2>1, <2>2, PutKeeps
<1> QED
  BY <1>2, <1>3, <1>4

\* The writes are of an entry of the array.
LEMMA SingleWrites ==
    ASSUME UsesInv, NEW h \in Handlers,
           AddLimitedUse(h) \/ UpdateLimitedUse(h) \/ RemoveLimitedUse(h)
    PROVE  \E i \in Ids, entry \in Entry \cup {Absent} : Put(h, i, entry)
<1> DEFINE r == worker[h].rq
<1>1. r \in Request /\ Target(h) \in Ids
  BY DEF UsesInv, WorkerKnows, AddLimitedUse, UpdateLimitedUse, RemoveLimitedUse, Request,
         Target
<1>2. CASE AddLimitedUse(h)
  <2>1. [max |-> r.max, remaining |-> r.max, resets |-> r.resets] \in Entry
    BY <1>1 DEF Request, Entry
  <2> QED
    BY <1>2, <2>1 DEF AddLimitedUse
<1>3. CASE UpdateLimitedUse(h)
  <2>1. uses[Target(h)] \in Entry
    BY <1>1, <1>3 DEF UpdateLimitedUse, UsesInv, TypeOK
  <2>2. Patched(uses[Target(h)], r) \in Entry
    BY <1>1, <2>1 DEF Patched, Request, Entry
  <2> QED
    BY <1>1, <1>3, <2>2 DEF UpdateLimitedUse
<1>4. CASE RemoveLimitedUse(h)
  BY <1>1, <1>4 DEF RemoveLimitedUse
<1> QED
  BY <1>2, <1>3, <1>4

LEMMA SpendKeeps ==
    ASSUME UsesInv, NEW h \in Handlers, SpendLast(h) \/ Spend(h) \/ Look(h)
    PROVE  UsesInv'
<1> DEFINE i == Target(h)
<1>1. i \in Ids /\ worker \in [Handlers -> Worker] /\ flipped' = flipped
  BY DEF UsesInv, TypeOK, WorkerKnows, SpendLast, Spend, Look, Request, Target
<1>2. ASSUME NEW stage \in {"last", "spend", "look"}, NEW try \in 1 .. MaxTries,
             worker' = [worker EXCEPT ![h].stage = stage, ![h].try = try],
             worker[h].stage # "idle", UNCHANGED <<uses, changes>>
      PROVE  UsesInv'
  <2>1. worker' \in [Handlers -> Worker]
    BY <1>1, <1>2 DEF Worker, Stages
  <2>2. \A g \in Handlers : WorkerKnows(g)'
    BY <1>1, <1>2 DEF UsesInv, WorkerKnows, Worker
  <2> QED
    BY <1>1, <1>2, <2>1, <2>2, QuietKeeps DEF UsesInv, TypeOK
<1>3. worker[h].try \in 1 .. MaxTries
  BY <1>1 DEF Worker
<1>4. ASSUME NEW stage \in {"spend", "look"}, Proceed(h, stage),
             worker[h].stage # "idle", UNCHANGED <<uses, changes>>
      PROVE  UsesInv'
  <2>1. worker' = [worker EXCEPT ![h].stage = stage, ![h].try = worker[h].try]
    BY <1>1, <1>4 DEF Proceed, Worker
  <2> QED
    BY <1>2, <1>3, <1>4, <2>1
<1>5. CASE SpendLast(h)
  <2>1. CASE IsLastOnce(i)
    BY <1>1, <1>5, <2>1, PutKeeps DEF SpendLast, UsesInv, TypeOK
  <2>2. CASE ~IsLastOnce(i)
    BY <1>4, <1>5, <2>2 DEF SpendLast
  <2> QED
    BY <2>1, <2>2
<1>6. CASE Spend(h)
  <2>1. CASE HasMore(i)
    <3> DEFINE entry == [uses[i] EXCEPT !.remaining = uses[i].remaining - 1]
    <3>1. Put(h, i, entry) /\ Answer(h)
      BY <1>6, <2>1 DEF Spend
    <3>2. uses[i] \in Entry /\ uses[i].remaining <= uses[i].max
      BY <1>1, <2>1 DEF UsesInv, TypeOK, WithinMax, Present, HasMore
    <3>3. /\ entry \in Entry /\ entry.remaining <= entry.max
          /\ entry.resets \/ entry.remaining > 0
      BY <2>1, <3>2 DEF Entry, HasMore
    <3> HIDE DEF entry
    <3> QED
      BY <1>1, <3>1, <3>3, PutKeeps DEF UsesInv, TypeOK
  <2>2. CASE ~HasMore(i)
    BY <1>4, <1>6, <2>2 DEF Spend
  <2> QED
    BY <2>1, <2>2
<1>7. CASE Look(h)
  <2>1. CASE MayTryAgain(h)
    <3>1. worker' = [worker EXCEPT ![h].stage = "last", ![h].try = worker[h].try + 1]
      BY <1>7, <2>1 DEF Look
    <3>2. worker[h].try + 1 \in 1 .. MaxTries
      BY <1>3, <2>1 DEF MayTryAgain, MaxTries
    <3> QED
      BY <1>2, <1>7, <3>1, <3>2 DEF Look
  <2>2. CASE ~MayTryAgain(h)
    BY <1>1, <1>7, <2>2, AnswerKnows, QuietKeeps DEF Look, UsesInv, TypeOK
  <2> QED
    BY <2>1, <2>2
<1> QED
  BY <1>5, <1>6, <1>7

\* What Refill writes, of an entry that is as it was read.
LEMMA RefillWrites ==
    ASSUME UsesInv, NEW h \in Handlers, worker[h].stage = "write",
           Unchanged(h, uses[Target(h)])
    PROVE  /\ Target(h) \in Ids /\ uses[Target(h)] \in Entry
           /\ Refilled(h) \in 1 .. uses[Target(h)].max
           /\ Is(h, "restore") => Refilled(h) = uses[Target(h)].remaining + 1
           /\ Is(h, "reset") => Refilled(h) = uses[Target(h)].max
<1>1. /\ worker[h].rq \in Requests /\ worker[h].rq.op \in {"restore", "reset"}
      /\ worker[h].snap \in Entry
      /\ worker[h].rq.op = "restore" => worker[h].snap.remaining < worker[h].snap.max
  BY DEF UsesInv, WorkerKnows
<1>2. Target(h) \in Ids /\ uses[Target(h)] \in Entry
  BY <1>1 DEF Target, Request, UsesInv, TypeOK, Unchanged
<1> QED
  BY <1>1, <1>2 DEF Unchanged, Refilled, Is, Entry

LEMMA RefillKeeps ==
    ASSUME UsesInv, NEW h \in Handlers, Read(h) \/ Refill(h) \/ RefillMisses(h)
    PROVE  UsesInv'
<1> DEFINE i == Target(h)
<1>1. /\ worker[h].rq \in Requests /\ worker[h].rq.op \in {"restore", "reset"}
      /\ worker \in [Handlers -> Worker] /\ flipped' = flipped
      /\ i \in Ids
  BY DEF UsesInv, TypeOK, WorkerKnows, Read, Refill, RefillMisses, Target, Request
<1>2. CASE Read(h)
  <2>1. CASE Refillable(h, uses[i])
    <3>1. worker' = [worker EXCEPT ![h].stage = "write", ![h].snap = uses[i]]
      BY <1>2, <2>1 DEF Read
    <3>2. /\ uses[i] \in Entry
          /\ worker[h].rq.op = "restore" => uses[i].remaining < uses[i].max
      BY <1>1, <2>1 DEF Refillable, UsesInv, TypeOK, Is
    <3>3. worker' \in [Handlers -> Worker]
      <4>1. worker[h] \in Worker
        BY <1>1
      <4>2. [worker[h] EXCEPT !.stage = "write", !.snap = uses[i]] \in Worker
        BY <3>2, <4>1 DEF Worker, Stages
      <4>3. worker' = [worker EXCEPT ![h] =
                          [worker[h] EXCEPT !.stage = "write", !.snap = uses[i]]]
        BY <1>1, <3>1
      <4> QED
        BY <1>1, <4>2, <4>3
    <3>4. \A g \in Handlers : WorkerKnows(g)'
      BY <1>1, <3>1, <3>2 DEF UsesInv, WorkerKnows, Worker
    <3> QED
      BY <1>2, <3>3, <3>4, QuietKeeps DEF Read, UsesInv, TypeOK
  <2>2. CASE ~Refillable(h, uses[i])
    BY <1>2, <2>2, AnswerKnows, QuietKeeps DEF Read, UsesInv, TypeOK
  <2> QED
    BY <2>1, <2>2
<1>3. CASE Refill(h)
  <2> DEFINE entry == [uses[i] EXCEPT !.remaining = Refilled(h)]
  <2>1. worker[h].stage = "write" /\ Unchanged(h, uses[i]) /\ Put(h, i, entry) /\ Answer(h)
    BY <1>3 DEF Refill
  <2>2. uses[i] \in Entry /\ Refilled(h) \in 1 .. uses[i].max
    BY <2>1, RefillWrites
  <2>3. entry \in Entry /\ entry.remaining <= entry.max /\ entry.remaining > 0
    BY <2>2 DEF Entry
  <2> HIDE DEF entry
  <2> QED
    BY <1>1, <2>1, <2>3, PutKeeps DEF UsesInv, TypeOK
<1>4. CASE RefillMisses(h)
  <2>1. CASE worker[h].try < MaxTries
    <3>1. worker' = [worker EXCEPT ![h].stage = "read", ![h].try = worker[h].try + 1]
      BY <1>4, <2>1 DEF RefillMisses
    <3>2. worker[h].try + 1 \in 1 .. MaxTries
      BY <1>1, <2>1 DEF Worker, MaxTries
    <3>3. worker' \in [Handlers -> Worker]
      BY <1>1, <3>1, <3>2 DEF Worker, Stages
    <3>4. \A g \in Handlers : WorkerKnows(g)'
      BY <1>1, <3>1 DEF UsesInv, WorkerKnows, Worker
    <3> QED
      BY <1>4, <3>3, <3>4, QuietKeeps DEF RefillMisses, UsesInv, TypeOK
  <2>2. CASE ~(worker[h].try < MaxTries)
    BY <1>4, <2>2, AnswerKnows, QuietKeeps DEF RefillMisses, UsesInv, TypeOK
  <2> QED
    BY <2>1, <2>2
<1> QED
  BY <1>2, <1>3, <1>4

LEMMA SpendWrites ==
    ASSUME UsesInv, NEW h \in Handlers, SpendLast(h) \/ Spend(h) \/ Refill(h)
    PROVE  \/ \E i \in Ids, entry \in Entry \cup {Absent} : Put(h, i, entry)
           \/ UNCHANGED <<uses, changes>>
<1> DEFINE i == Target(h)
<1>1. i \in Ids
  BY DEF UsesInv, WorkerKnows, SpendLast, Spend, Refill, Request, Target
<1>2. CASE SpendLast(h)
  BY <1>1, <1>2 DEF SpendLast
<1>3. CASE Spend(h)
  <2>1. ASSUME HasMore(i)
        PROVE  [uses[i] EXCEPT !.remaining = @ - 1] \in Entry
    BY <1>1, <2>1 DEF UsesInv, TypeOK, HasMore, Entry
  <2> QED
    BY <1>1, <1>3, <2>1 DEF Spend
<1>4. CASE Refill(h)
  <2>1. worker[h].stage = "write" /\ Unchanged(h, uses[i])
    BY <1>4 DEF Refill
  <2>2. uses[i] \in Entry /\ Refilled(h) \in 1 .. uses[i].max
    BY <2>1, RefillWrites
  <2>3. [uses[i] EXCEPT !.remaining = Refilled(h)] \in Entry
    BY <2>2 DEF Entry
  <2> QED
    BY <1>1, <1>4, <2>3 DEF Refill
<1> QED
  BY <1>2, <1>3, <1>4

LEMMA ReceiveKeeps ==
    ASSUME UsesInv, NEW h \in Handlers, NEW r \in Requests, Receive(h, r)
    PROVE  UsesInv'
<1> DEFINE w == [stage |-> FirstStage(r), rq |-> r, snap |-> Absent, try |-> 1]
<1>1. worker' = [worker EXCEPT ![h] = w]
  BY DEF Receive
<1>2. /\ FirstStage(r) \in {"single", "last", "read"}
      /\ FirstStage(r) = "read" => r.op \in {"restore", "reset"}
  BY DEF FirstStage, Request
<1>3. w \in Worker
  BY <1>2 DEF Worker, Stages, MaxTries
<1>4. worker' \in [Handlers -> Worker] /\ \A g \in Handlers : WorkerKnows(g)'
  BY <1>1, <1>2, <1>3 DEF UsesInv, TypeOK, WorkerKnows
<1>5. changes' \in [Handlers -> 0 .. 2]
  BY DEF Receive, UsesInv, TypeOK
<1> QED
  BY <1>4, <1>5, QuietKeeps DEF Receive

LEMMA UsesInvStep == UsesInv /\ [Next]_vars => UsesInv'
<1> SUFFICES ASSUME UsesInv, [Next]_vars PROVE UsesInv'
  OBVIOUS
<1>1. ASSUME NEW h \in Handlers, Serve(h) PROVE UsesInv'
  <2>1. CASE SingleMisses(h)
    BY <2>1, AnswerKnows, QuietKeeps DEF SingleMisses, UsesInv, TypeOK
  <2> QED
    BY <1>1, <2>1, SingleKeeps, SpendKeeps, RefillKeeps DEF Serve
<1>2. ASSUME NEW h \in Handlers, Abort(h) PROVE UsesInv'
  BY <1>2, AnswerKnows, QuietKeeps DEF Abort, UsesInv, TypeOK
<1>3. CASE UNCHANGED vars
  BY <1>3 DEF vars, UsesInv, TypeOK, WithinMax, OneTimeEntriesEnd, Present, WorkerKnows
<1> QED
  BY <1>1, <1>2, <1>3, ReceiveKeeps DEF Next

LEMMA UsesInvInit == Init => UsesInv
<1> SUFFICES ASSUME Init PROVE UsesInv
  OBVIOUS
<1>1. Idle \in Worker /\ Idle.stage = "idle"
  BY DEF Idle, Worker, Stages, MaxTries
<1> QED
  BY <1>1 DEF Init, UsesInv, TypeOK, WithinMax, OneTimeEntriesEnd, Present, WorkerKnows

\* Through every overlap of spends, restores, resets and updates
\* (SpendLimitedUse, casLimitedUse, UpdateLimitedUse) an entry keeps within its
\* maximum, and a one-time entry that is used up is gone.
THEOREM UsesStayWithinMax == Spec => [](TypeOK /\ WithinMax)
<1>1. UsesInv => TypeOK /\ WithinMax
  BY DEF UsesInv
<1> QED
  BY <1>1, UsesInvInit, UsesInvStep, PTL DEF Spec

\* "The last use of a one-time (non-resetting) entry removes it"
\* (SpendLimitedUse), whoever spends it and whoever restores meanwhile.
THEOREM LastUseEndsTheEntry == Spec => []OneTimeEntriesEnd
<1>1. UsesInv => OneTimeEntriesEnd
  BY DEF UsesInv
<1> QED
  BY <1>1, UsesInvInit, UsesInvStep, PTL DEF Spec

-----------------------------------------------------------------------------
(***************************************************************************)
(* A spend refused.  Each of the two updates of a try misses only where    *)
(* the entry leaves no use for it, so a use seen after both have missed is *)
(* another request's doing, in that very try; with the second try there    *)
(* have been two.  The invariant counts them along the steps of a spend.   *)
(***************************************************************************)
Spending == {"last", "spend", "look"}

HasUses(i) == uses[i] # Absent /\ uses[i].remaining > 0

SpendKnows(h) ==
    LET w == worker[h]
        i == Target(h)
    IN  w.stage \in Spending =>
           /\ w.rq \in Requests /\ w.rq.op = "use"
           /\ changes[h] >= w.try - 1
           /\ w.stage = "spend" /\ IsLastOnce(i) => changes[h] >= w.try
           /\ w.stage = "look" /\ HasUses(i) => changes[h] >= w.try

SpendInv == UsesInv /\ \A h \in Handlers : SpendKnows(h)

\* A spend that others leave alone knows what it knew.
LEMMA SpendWaits ==
    ASSUME SpendInv, NEW g \in Handlers, worker'[g] = worker[g],
           uses'[Target(g)] = uses[Target(g)], changes'[g] = changes[g]
    PROVE  SpendKnows(g)'
BY DEF SpendInv, SpendKnows, Target, HasUses, IsLastOnce

\* A write of another request is counted.
LEMMA PutIsCounted ==
    ASSUME SpendInv, NEW h \in Handlers, NEW i \in Ids, NEW entry \in Entry \cup {Absent},
           Put(h, i, entry), NEW g \in Handlers, g # h, worker'[g] = worker[g]
    PROVE  SpendKnows(g)'
<1>1. CASE ~(worker[g].stage \in Spending)
  BY <1>1 DEF SpendKnows
<1>2. CASE worker[g].stage \in Spending
  <2>1. /\ worker[g].rq \in Requests /\ worker[g].rq.op = "use"
        /\ Target(g) \in Ids /\ Is(g, "use")
        /\ changes[g] \in 0 .. 2 /\ worker[g].try \in 1 .. MaxTries
        /\ changes[g] >= worker[g].try - 1
    BY <1>2 DEF SpendInv, SpendKnows, UsesInv, TypeOK, Worker, Is, Target, Request
  <2>2. CASE Target(g) = i
    <3>1. changes'[g] = IF changes[g] < 2 THEN changes[g] + 1 ELSE changes[g]
      BY <2>1, <2>2 DEF Put
    <3>2. changes'[g] >= worker[g].try
      BY <2>1, <3>1 DEF MaxTries
    <3>3. changes'[g] \in 0 .. 2 /\ changes'[g] >= worker[g].try - 1
      BY <2>1, <3>1
    <3> QED
      BY <2>1, <3>2, <3>3 DEF SpendKnows
  <2>3. CASE Target(g) # i
    <3>1. uses'[Target(g)] = uses[Target(g)]
      BY <2>1, <2>3, PutType DEF SpendInv, UsesInv
    <3>2. changes'[g] = changes[g]
      BY <2>3 DEF Put
    <3> QED
      BY <3>1, <3>2, SpendWaits
  <2> QED
    BY <2>2, <2>3
<1> QED
  BY <1>1, <1>2

\* Who is at no stage of a spend has nothing to know.
LEMMA OthersKnowNothing ==
    ASSUME NEW h \in Handlers, ~(worker'[h].stage \in Spending)
    PROVE  SpendKnows(h)'
BY DEF SpendKnows

\* What a handler's own step does to what it knows.
LEMMA OwnStepKnows ==
    ASSUME SpendInv, NEW h \in Handlers,
           Serve(h) \/ Abort(h) \/ (\E r \in Requests : Receive(h, r))
    PROVE  SpendKnows(h)'
<1> DEFINE i == Target(h)
<1>1. /\ worker \in [Handlers -> Worker] /\ worker[h] \in Worker
      /\ worker[h].try \in 1 .. MaxTries /\ changes \in [Handlers -> 0 .. 2]
      /\ changes[h] \in 0 .. 2 /\ WorkerKnows(h) /\ SpendKnows(h)
  BY DEF SpendInv, UsesInv, TypeOK, Worker
<1>2. ASSUME Answer(h) PROVE SpendKnows(h)'
  <2>1. worker'[h].stage = "idle"
    BY <1>1, <1>2 DEF Answer, Idle
  <2> QED
    BY <2>1, OthersKnowNothing DEF Spending
<1>3. ASSUME SpendLast(h), ~IsLastOnce(i) PROVE SpendKnows(h)'
  <2>1. /\ worker[h].stage = "last" /\ worker' = [worker EXCEPT ![h].stage = "spend"]
        /\ UNCHANGED <<uses, changes>>
    BY <1>3 DEF SpendLast, Proceed
  <2>2. /\ worker'[h].stage = "spend" /\ worker'[h].rq = worker[h].rq
        /\ worker'[h].try = worker[h].try
    BY <1>1, <2>1 DEF Worker
  <2> QED
    BY <1>1, <1>3, <2>1, <2>2 DEF SpendKnows, Spending, Target, IsLastOnce
<1>4. ASSUME Spend(h), ~HasMore(i) PROVE SpendKnows(h)'
  <2>1. /\ worker[h].stage = "spend" /\ worker' = [worker EXCEPT ![h].stage = "look"]
        /\ UNCHANGED <<uses, changes>>
    BY <1>4 DEF Spend, Proceed
  <2>2. /\ worker'[h].stage = "look" /\ worker'[h].rq = worker[h].rq
        /\ worker'[h].try = worker[h].try
    BY <1>1, <2>1 DEF Worker
  <2>3. i \in Ids /\ uses[i] \in Entry \cup {Absent}
    BY <1>1, <2>1 DEF WorkerKnows, Target, Request, SpendInv, UsesInv, TypeOK
  <2>4. HasUses(i) => IsLastOnce(i)
    BY <1>4, <2>3 DEF HasMore, HasUses, IsLastOnce, Entry
  <2> QED
    BY <1>1, <2>1, <2>2, <2>4 DEF SpendKnows, Spending, Target, HasUses, IsLastOnce
<1>5. ASSUME Look(h), MayTryAgain(h) PROVE SpendKnows(h)'
  <2>1. /\ worker[h].stage = "look" /\ UNCHANGED <<uses, changes>>
        /\ worker' = [worker EXCEPT ![h].stage = "last", ![h].try = @ + 1]
    BY <1>5 DEF Look
  <2>2. /\ worker'[h].stage = "last" /\ worker'[h].rq = worker[h].rq
        /\ worker'[h].try = worker[h].try + 1
    BY <1>1, <2>1 DEF Worker
  <2>3. changes[h] >= worker[h].try
    BY <1>1, <1>5, <2>1 DEF MayTryAgain, SpendKnows, Spending, HasUses
  <2> QED
    BY <1>1, <2>1, <2>2, <2>3 DEF SpendKnows, Spending
<1>6. ASSUME Read(h) \/ RefillMisses(h) PROVE SpendKnows(h)'
  <2>1. worker'[h].stage \in {"idle", "read", "write"}
    BY <1>1, <1>6 DEF Read, RefillMisses, Answer, Idle, Worker
  <2> QED
    BY <2>1, OthersKnowNothing DEF Spending
<1>7. ASSUME NEW r \in Requests, Receive(h, r) PROVE SpendKnows(h)'
  <2>1. /\ worker'[h] = [stage |-> FirstStage(r), rq |-> r, snap |-> Absent, try |-> 1]
        /\ changes'[h] = 0
    BY <1>1, <1>7 DEF Receive
  <2>2. FirstStage(r) \in {"single", "last", "read"} /\ (FirstStage(r) = "last" => r.op = "use")
    BY DEF FirstStage, Request
  <2> QED
    BY <2>1, <2>2 DEF SpendKnows, Spending
<1>8. ASSUME SpendLast(h) \/ Spend(h) \/ Look(h) PROVE SpendKnows(h)'
  BY <1>2, <1>3, <1>4, <1>5, <1>8 DEF SpendLast, Spend, Look
<1>9. ASSUME AddLimitedUse(h) \/ UpdateLimitedUse(h) \/ RemoveLimitedUse(h)
             \/ SingleMisses(h) \/ Refill(h) \/ Abort(h)
      PROVE  SpendKnows(h)'
  BY <1>2, <1>9 DEF AddLimitedUse, UpdateLimitedUse, RemoveLimitedUse, SingleMisses,
     Refill, Abort
<1> QED
  BY <1>6, <1>7, <1>8, <1>9 DEF Serve

\* What another's step does to it.
LEMMA OthersStepKnows ==
    ASSUME SpendInv, NEW h \in Handlers,
           Serve(h) \/ Abort(h) \/ (\E r \in Requests : Receive(h, r)),
           NEW g \in Handlers, g # h
    PROVE  SpendKnows(g)'
<1>1. worker'[g] = worker[g]
  BY DEF SpendInv, UsesInv, TypeOK, Serve, Abort, Receive, AddLimitedUse, UpdateLimitedUse,
     RemoveLimitedUse, SingleMisses, SpendLast, Spend, Look, Read, Refill, RefillMisses,
     Answer, Proceed
<1>2. CASE \E i \in Ids, entry \in Entry \cup {Absent} : Put(h, i, entry)
  BY <1>1, <1>2, PutIsCounted
<1>3. CASE uses' = uses /\ changes'[g] = changes[g]
  BY <1>1, <1>3, SpendWaits
<1>4. \/ \E i \in Ids, entry \in Entry \cup {Absent} : Put(h, i, entry)
      \/ uses' = uses /\ changes'[g] = changes[g]
  <2>1. CASE AddLimitedUse(h) \/ UpdateLimitedUse(h) \/ RemoveLimitedUse(h)
    BY <2>1, SingleWrites DEF SpendInv
  <2>2. CASE SpendLast(h) \/ Spend(h) \/ Refill(h)
    BY <2>2, SpendWrites DEF SpendInv
  <2>3. CASE SingleMisses(h) \/ Look(h) \/ Read(h) \/ RefillMisses(h) \/ Abort(h)
    BY <2>3 DEF SingleMisses, Look, Read, RefillMisses, Abort
  <2>4. CASE \E r \in Requests : Receive(h, r)
    BY <2>4 DEF Receive, SpendInv, UsesInv, TypeOK
  <2> QED
    BY <2>1, <2>2, <2>3, <2>4 DEF Serve
<1> QED
  BY <1>2, <1>3, <1>4

LEMMA SpendInvStep == SpendInv /\ [Next]_vars => SpendInv'
<1> SUFFICES ASSUME SpendInv, [Next]_vars PROVE SpendInv'
  OBVIOUS
<1>1. UsesInv'
  BY UsesInvStep DEF SpendInv
<1>2. CASE UNCHANGED vars
  BY <1>1, <1>2, SpendWaits DEF vars, SpendInv
<1>3. CASE Next
  BY <1>1, <1>3, OwnStepKnows, OthersStepKnows DEF Next, SpendInv
<1> QED
  BY <1>2, <1>3

LEMMA SpendInvInit == Init => SpendInv
<1> SUFFICES ASSUME Init PROVE SpendInv
  OBVIOUS
<1>1. \A h \in Handlers : ~(worker[h].stage \in Spending)
  BY DEF Init, Idle, Spending
<1> QED
  BY <1>1, UsesInvInit DEF SpendInv, SpendKnows

\* "A concurrent change made both attempts miss although uses remain: retry the
\* sequence once" (SpendLimitedUse): a spend is refused with uses left only if
\* others have written to the entry twice meanwhile, whatever they wrote.
THEOREM SpendsAreNotRefused == Spec => []RefusedOnlyWhenEmpty
<1>1. SpendInv => RefusedOnlyWhenEmpty
  <2> SUFFICES ASSUME SpendInv, NEW h \in Handlers, worker[h].stage = "look",
                      ~MayTryAgain(h), changes[h] < 2, uses[Target(h)] # Absent
               PROVE  uses[Target(h)].remaining = 0
    BY DEF RefusedOnlyWhenEmpty
  <2>1. /\ worker[h].try \in 1 .. MaxTries /\ changes[h] \in 0 .. 2
        /\ WorkerKnows(h) /\ SpendKnows(h)
    BY DEF SpendInv, UsesInv, TypeOK, Worker
  <2>2. Target(h) \in Ids /\ uses[Target(h)] \in Entry
    BY <2>1 DEF WorkerKnows, Target, Request, SpendInv, UsesInv, TypeOK
  <2>3. ~HasUses(Target(h))
    BY <2>1 DEF HasUses, MayTryAgain, SpendKnows, Spending, MaxTries
  <2> QED
    BY <2>2, <2>3 DEF HasUses, Entry
<1> QED
  BY <1>1, SpendInvInit, SpendInvStep, PTL DEF Spec

-----------------------------------------------------------------------------
\* casLimitedUse writes only over the count it has read, so that a restore gives
\* back one use of what is stored and a reset all of it.
THEOREM RefillIsOfTheStored == Spec => RefillActsOnTheStored
<1> DEFINE A == \A h \in Handlers :
          LET i == Target(h)
          IN  worker[h].stage = "write" /\ worker'[h].stage = "idle" /\ uses' # uses
              => /\ uses'[i].max = uses[i].max
                 /\ Is(h, "restore") => uses'[i].remaining = uses[i].remaining + 1
                 /\ Is(h, "reset") => uses'[i].remaining = uses[i].max
<1>1. UsesInv /\ [Next]_vars => [A]_vars
  <2> SUFFICES ASSUME UsesInv, Next, NEW h \in Handlers, worker[h].stage = "write",
                      worker'[h].stage = "idle", uses' # uses
               PROVE  LET i == Target(h)
                      IN  /\ uses'[i].max = uses[i].max
                          /\ Is(h, "restore") => uses'[i].remaining = uses[i].remaining + 1
                          /\ Is(h, "reset") => uses'[i].remaining = uses[i].max
    OBVIOUS
  <2>1. PICK g \in Handlers : Serve(g) \/ Abort(g) \/ (\E r \in Requests : Receive(g, r))
    BY DEF Next
  <2>2. \E w : worker' = [worker EXCEPT ![g] = w]
    <3>1. worker \in [Handlers -> Worker]
      BY DEF UsesInv, TypeOK
    <3>2. worker' = [worker EXCEPT ![g] = worker'[g]]
      BY <2>1, <3>1 DEF Serve, Abort, Receive, AddLimitedUse, UpdateLimitedUse,
         RemoveLimitedUse, SingleMisses, SpendLast, Spend, Look, Read, Refill,
         RefillMisses, Answer, Proceed
    <3> QED
      BY <3>2
  <2>3. g = h
    BY <2>2 DEF UsesInv, TypeOK
  <2>4. Refill(h)
    BY <2>1, <2>3 DEF Serve, Abort, Receive, AddLimitedUse, UpdateLimitedUse,
       RemoveLimitedUse, SingleMisses, SpendLast, Spend, Look, Read, RefillMisses
  <2> DEFINE i == Target(h)
  <2>5. Unchanged(h, uses[i]) /\ uses' = [uses EXCEPT ![i] =
            [uses[i] EXCEPT !.remaining = Refilled(h)]]
    BY <2>4 DEF Refill, Put
  <2>6. /\ i \in Ids /\ uses[i] \in Entry
        /\ Is(h, "restore") => Refilled(h) = uses[i].remaining + 1
        /\ Is(h, "reset") => Refilled(h) = uses[i].max
    BY <2>5, RefillWrites
  <2>7. uses'[i] = [uses[i] EXCEPT !.remaining = Refilled(h)]
    BY <2>5, <2>6 DEF UsesInv, TypeOK
  <2>8. uses'[i].max = uses[i].max /\ uses'[i].remaining = Refilled(h)
    BY <2>6, <2>7 DEF Entry
  <2> QED
    BY <2>6, <2>8
<1> QED
  BY <1>1, UsesInvInit, UsesInvStep, PTL DEF Spec, RefillActsOnTheStored

-----------------------------------------------------------------------------
USE DEF Denominations

\* A converted amount is a natural number: every denomination has a value.
LEMMA ConvertedAmountType ==
    ASSUME NEW from \in Denominations, NEW to \in Denominations,
           NEW amount \in 1 .. MaxCoinAmount
    PROVE  ConvertedAmount(from, to, amount) \in Nat
<1>1. CoinValueCP[from] \in Nat \ {0} /\ CoinValueCP[to] \in Nat \ {0}
  BY DEF CoinValueCP
<1>2. amount \in Nat
  BY MaxCoinAmountAssumption
<1>3. \A v, w \in Nat \ {0}, n \in Nat : (n * v) \div w \in Nat
  OBVIOUS
<1> QED
  BY <1>1, <1>2, <1>3 DEF ConvertedAmount

\* What is converted without a remainder is worth what it was.
LEMMA ConvertedAmountIsExact ==
    ASSUME NEW from \in Denominations, NEW to \in Denominations,
           NEW amount \in 1 .. MaxCoinAmount, Converts(from, to, amount)
    PROVE  ConvertedAmount(from, to, amount) * CoinValueCP[to]
               = amount * CoinValueCP[from]
<1>1. amount \in Nat /\ (amount * CoinValueCP[from]) % CoinValueCP[to] = 0
  BY MaxCoinAmountAssumption DEF Converts
<1>2. CASE to = "cp"
  BY <1>1, <1>2 DEF ConvertedAmount, CoinValueCP
<1>3. CASE to = "sp"
  BY <1>1, <1>3 DEF ConvertedAmount, CoinValueCP
<1>4. CASE to = "ep"
  BY <1>1, <1>4 DEF ConvertedAmount, CoinValueCP
<1>5. CASE to = "gp"
  BY <1>1, <1>5 DEF ConvertedAmount, CoinValueCP
<1>6. CASE to = "pp"
  BY <1>1, <1>6 DEF ConvertedAmount, CoinValueCP
<1> QED
  BY <1>2, <1>3, <1>4, <1>5, <1>6

PurseInv == PurseTypeOK /\ NeverOverdrawn

LEMMA PurseInvStep == PurseInv /\ [PurseNext]_purse => PurseInv'
<1> SUFFICES ASSUME PurseInv, [PurseNext]_purse PROVE PurseInv'
  OBVIOUS
<1> USE DEF PurseInv, PurseTypeOK, NeverOverdrawn
<1>1. CASE Convert
  <2>1. PICK from \in Denominations, to \in Denominations, amount \in 1 .. MaxCoinAmount :
           ConvertCoins(from, to, amount)
    BY <1>1 DEF Convert
  <2>2. amount \in Nat /\ ConvertedAmount(from, to, amount) \in Nat
    BY <2>1, ConvertedAmountType, MaxCoinAmountAssumption
  <2>3. from # to /\ purse[from] >= amount
        /\ purse' = [purse EXCEPT ![from] = purse[from] - amount,
                                  ![to] = purse[to] + ConvertedAmount(from, to, amount)]
    BY <2>1 DEF ConvertCoins, Converts
  <2> QED
    BY <2>2, <2>3
<1>2. CASE \E deltas \in Adjustments : AdjustCoins(deltas)
  <2>1. PICK deltas \in Adjustments : AdjustCoins(deltas)
    BY <1>2
  <2>2. \A d \in Denominations : deltas[d] \in Int
    BY AdjustmentsAssumption, MaxCoinAmountAssumption
  <2> QED
    BY <2>1, <2>2 DEF AdjustCoins, Covers
<1>3. CASE UNCHANGED purse
  BY <1>3
<1> QED
  BY <1>1, <1>2, <1>3 DEF PurseNext

\* "the whole adjustment applies or none of it does" (AdjustCoins), and a
\* conversion is guarded alike: no purse is ever overdrawn.
THEOREM PurseIsNeverOverdrawn == PurseSpec => [](PurseTypeOK /\ NeverOverdrawn)
<1>1. PurseInit => PurseInv
  BY DEF PurseInit, PurseInv, PurseTypeOK, NeverOverdrawn
<1> QED
  BY <1>1, PurseInvStep, PTL DEF PurseSpec, PurseInv

\* Changing coins (ConvertCoins of what ConvertedAmount allows) leaves the worth
\* of the purse as it was.
THEOREM ConvertingKeepsWorth == PurseSpec => ConversionKeepsWorth
<1>1. PurseInv /\ [PurseNext]_purse => [Convert => Worth(purse') = Worth(purse)]_purse
  <2> SUFFICES ASSUME PurseInv, Convert PROVE Worth(purse') = Worth(purse)
    OBVIOUS
  <2>1. PICK from \in Denominations, to \in Denominations, amount \in 1 .. MaxCoinAmount :
           ConvertCoins(from, to, amount)
    BY DEF Convert
  <2> DEFINE got == ConvertedAmount(from, to, amount)
  <2>2. amount \in Nat /\ got \in Nat /\ purse \in [Denominations -> Int]
    BY <2>1, ConvertedAmountType, MaxCoinAmountAssumption DEF PurseInv, PurseTypeOK
  <2>3. got * CoinValueCP[to] = amount * CoinValueCP[from]
    BY <2>1, ConvertedAmountIsExact DEF ConvertCoins
  <2>4. from # to /\ purse' = [purse EXCEPT ![from] = purse[from] - amount,
                                            ![to] = purse[to] + got]
    BY <2>1 DEF ConvertCoins, Converts
  <2> HIDE DEF got
  <2>5. CASE from = "cp"
    BY <2>2, <2>3, <2>4, <2>5 DEF Worth, CoinValueCP
  <2>6. CASE from = "sp"
    BY <2>2, <2>3, <2>4, <2>6 DEF Worth, CoinValueCP
  <2>7. CASE from = "ep"
    BY <2>2, <2>3, <2>4, <2>7 DEF Worth, CoinValueCP
  <2>8. CASE from = "gp"
    BY <2>2, <2>3, <2>4, <2>8 DEF Worth, CoinValueCP
  <2>9. CASE from = "pp"
    BY <2>2, <2>3, <2>4, <2>9 DEF Worth, CoinValueCP
  <2> QED
    BY <2>5, <2>6, <2>7, <2>8, <2>9
<1>2. PurseInit => PurseInv
  BY DEF PurseInit, PurseInv, PurseTypeOK, NeverOverdrawn
<1> QED
  BY <1>1, <1>2, PurseInvStep, PTL DEF PurseSpec, ConversionKeepsWorth

-----------------------------------------------------------------------------
\* The document behaves as its limited uses do and as its purse does: the
\* updates of one part ($inc, $set, $pull on its own fields) are no step of the
\* other, and so what is proved of each part holds of the document.
THEOREM PartsAreIndependent == SheetSpec => Spec /\ PurseSpec
<1>1. SheetInit => Init /\ PurseInit
  BY DEF SheetInit
<1>2. [SheetNext]_sheet => [Next]_vars /\ [PurseNext]_purse
  BY DEF SheetNext, sheet
<1> QED
  BY <1>1, <1>2, PTL DEF SheetSpec, Spec, PurseSpec

\* The type invariant of the document.
THEOREM SheetTypes == SheetSpec => []SheetTypeOK
<1>1. (TypeOK /\ WithinMax) /\ (PurseTypeOK /\ NeverOverdrawn) => SheetTypeOK
  BY DEF SheetTypeOK
<1> QED
  BY <1>1, PartsAreIndependent, UsesStayWithinMax, PurseIsNeverOverdrawn, PTL
=============================================================================
