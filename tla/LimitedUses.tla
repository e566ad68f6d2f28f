------------------------------ MODULE LimitedUses ------------------------------
(***************************************************************************)
(* A player's abilities with a finite number of uses, an array embedded in *)
(* the player document: internal/store/player_limited_uses.go behind       *)
(* handler/limited_uses.go.                                                *)
(*                                                                         *)
(* Adding, updating and removing are single guarded updates.  Spending     *)
(* tries two of them and looks when both miss; restoring and resetting     *)
(* read an entry and write it on condition that it still counts the same.  *)
(* Names and notes are left out.                                           *)
(***************************************************************************)
EXTENDS Naturals, FiniteSets

CONSTANTS
    Ids,         \* uuids of entries
    Handlers,    \* requests served at the same time
    Requests,    \* the requests clients may send
    MaxUses,     \* LimitedUseMaxUses
    MaxCount,    \* LimitedUseMaxCount
    Absent,      \* no element of that id
    NoRequest    \* the request of an idle handler

ASSUME LimitsAssumption == MaxUses \in Nat /\ MaxCount \in Nat

Entry == [max : 1 .. MaxUses, remaining : 0 .. MaxUses, resets : BOOLEAN]

\* One shape for every request; patch names the fields an update carries.
Request == [op : {"add", "update", "remove", "use", "restore", "reset"}, id : Ids,
            patch : SUBSET {"max", "resets"}, max : 1 .. MaxUses, resets : BOOLEAN]

ASSUME RequestsAssumption == Requests \subseteq Request /\ NoRequest \notin Request
ASSUME AbsentAssumption == Absent \notin Entry

VARIABLES
    uses,      \* the array, by id
    worker,    \* what each handler is doing
    changes,   \* history: other writes to the entry a use is about, two at most
    flipped    \* history: entries made one-time while they had nothing left

vars == <<uses, worker, changes, flipped>>

MaxTries == 2

Stages == {"idle", "single", "last", "spend", "look", "read", "write"}

\* snap is the entry as restore or reset read it.
Worker == [stage : Stages, rq : Requests \cup {NoRequest}, snap : Entry \cup {Absent},
           try : 1 .. MaxTries]

Idle == [stage |-> "idle", rq |-> NoRequest, snap |-> Absent, try |-> 1]

TypeOK ==
    /\ uses \in [Ids -> Entry \cup {Absent}]
    /\ worker \in [Handlers -> Worker]
    /\ changes \in [Handlers -> 0 .. 2]
    /\ flipped \subseteq Ids

Init ==
    /\ uses = [i \in Ids |-> Absent]
    /\ worker = [h \in Handlers |-> Idle]
    /\ changes = [h \in Handlers |-> 0]
    /\ flipped = {}

-----------------------------------------------------------------------------
Present == {i \in Ids : uses[i] # Absent}

Target(h) == worker[h].rq.id
Is(h, op) == worker[h].rq # NoRequest /\ worker[h].rq.op = op

FirstStage(r) ==
    CASE r.op \in {"add", "update", "remove"} -> "single"
      [] r.op = "use" -> "last"
      [] OTHER -> "read"

Receive(h, r) ==
    /\ worker[h].stage = "idle"
    /\ worker' = [worker EXCEPT ![h] = [stage |-> FirstStage(r), rq |-> r,
                                        snap |-> Absent, try |-> 1]]
    /\ changes' = [changes EXCEPT ![h] = 0]
    /\ UNCHANGED <<uses, flipped>>

Answer(h) == worker' = [worker EXCEPT ![h] = Idle]
Proceed(h, stage) == worker' = [worker EXCEPT ![h].stage = stage]

\* What the entry i becomes, and the uses under way that this overlaps.
Put(h, i, entry) ==
    /\ uses' = [uses EXCEPT ![i] = entry]
    /\ changes' = [g \in Handlers |->
                      IF g # h /\ Is(g, "use") /\ Target(g) = i /\ changes[g] < 2
                      THEN changes[g] + 1 ELSE changes[g]]

-----------------------------------------------------------------------------
\* A uuid of which there is no trace.
Fresh(i) ==
    /\ i \notin Present \cup flipped
    /\ \A g \in Handlers : worker[g].rq # NoRequest => Target(g) # i \/ Is(g, "add")

\* The element at index MaxCount - 1 must not exist.
AddLimitedUse(h) ==
    /\ worker[h].stage = "single" /\ Is(h, "add")
    /\ Cardinality(Present) < MaxCount
    /\ LET r == worker[h].rq
       IN  \E i \in Ids :
              /\ Fresh(i)
              /\ Put(h, i, [max |-> r.max, remaining |-> r.max, resets |-> r.resets])
    /\ Answer(h)
    /\ UNCHANGED flipped

Patched(entry, r) ==
    [max |-> IF "max" \in r.patch THEN r.max ELSE entry.max,
     remaining |-> IF "max" \in r.patch /\ r.max < entry.remaining
                   THEN r.max ELSE entry.remaining,
     resets |-> IF "resets" \in r.patch THEN r.resets ELSE entry.resets]

UpdateLimitedUse(h) ==
    /\ worker[h].stage = "single" /\ Is(h, "update")
    /\ LET i == Target(h)
           entry == Patched(uses[i], worker[h].rq)
       IN  /\ uses[i] # Absent
           /\ Put(h, i, entry)
           /\ flipped' = IF entry.remaining = 0 /\ ~entry.resets
                         THEN flipped \cup {i} ELSE flipped
    /\ Answer(h)

RemoveLimitedUse(h) ==
    /\ worker[h].stage = "single" /\ Is(h, "remove")
    /\ uses[Target(h)] # Absent
    /\ Put(h, Target(h), Absent)
    /\ Answer(h)
    /\ UNCHANGED flipped

\* 404, or 400 when the list is full.
SingleMisses(h) ==
    /\ worker[h].stage = "single"
    /\ IF Is(h, "add") THEN Cardinality(Present) >= MaxCount
                       ELSE uses[Target(h)] = Absent
    /\ Answer(h)
    /\ UNCHANGED <<uses, changes, flipped>>

-----------------------------------------------------------------------------
\* The first update of a spend: the last use of a one-time entry removes it.
IsLastOnce(i) == uses[i] # Absent /\ ~uses[i].resets /\ uses[i].remaining = 1

SpendLast(h) ==
    /\ worker[h].stage = "last"
    /\ IF IsLastOnce(Target(h))
       THEN Put(h, Target(h), Absent) /\ Answer(h)
       ELSE Proceed(h, "spend") /\ UNCHANGED <<uses, changes>>
    /\ UNCHANGED flipped

\* A mutant: the second update spends the last use of a one-time entry.
HasSome(i) == uses[i] # Absent /\ uses[i].remaining > 0

\* The second: one use less where some are left after it, or it may run out.
HasMore(i) ==
    /\ uses[i] # Absent /\ uses[i].remaining > 0
    /\ uses[i].resets \/ uses[i].remaining > 1

Spend(h) ==
    /\ worker[h].stage = "spend"
    /\ LET i == Target(h)
       IN  IF HasMore(i)
           THEN /\ Put(h, i, [uses[i] EXCEPT !.remaining = @ - 1])
                /\ Answer(h)
           ELSE Proceed(h, "look") /\ UNCHANGED <<uses, changes>>
    /\ UNCHANGED flipped

\* A mutant: both misses mean that nothing is left.
NeverAgain(h) == FALSE

MayTryAgain(h) ==
    /\ uses[Target(h)] # Absent /\ uses[Target(h)].remaining > 0
    /\ worker[h].try < MaxTries

\* Both missed: 404, 409, or once more if uses remain after all.
Look(h) ==
    /\ worker[h].stage = "look"
    /\ IF MayTryAgain(h)
       THEN worker' = [worker EXCEPT ![h].stage = "last", ![h].try = @ + 1]
       ELSE Answer(h)
    /\ UNCHANGED <<uses, changes, flipped>>

-----------------------------------------------------------------------------
\* Whether restore or reset goes on with the entry it has read.
Refillable(h, entry) ==
    /\ entry # Absent
    /\ Is(h, "restore") => entry.remaining < entry.max
    /\ Is(h, "reset") => entry.resets

Read(h) ==
    /\ worker[h].stage = "read"
    /\ LET entry == uses[Target(h)]
       IN  IF Refillable(h, entry)
           THEN worker' = [worker EXCEPT ![h].stage = "write", ![h].snap = entry]
           ELSE Answer(h)
    /\ UNCHANGED <<uses, changes, flipped>>

\* Mutants: the compare-and-set forgets a part of the count.
SameMax(h, entry) == entry # Absent /\ entry.max = worker[h].snap.max
                     /\ (Is(h, "reset") => entry.resets)

SameRemaining(h, entry) == entry # Absent /\ entry.remaining = worker[h].snap.remaining
                           /\ (Is(h, "reset") => entry.resets)

\* The filter of the write.
Unchanged(h, entry) ==
    /\ entry # Absent
    /\ entry.remaining = worker[h].snap.remaining /\ entry.max = worker[h].snap.max
    /\ Is(h, "reset") => entry.resets

Refilled(h) ==
    IF Is(h, "restore") THEN worker[h].snap.remaining + 1 ELSE worker[h].snap.max

Refill(h) ==
    /\ worker[h].stage = "write"
    /\ LET i == Target(h)
       IN  /\ Unchanged(h, uses[i])
           /\ Put(h, i, [uses[i] EXCEPT !.remaining = Refilled(h)])
    /\ Answer(h)
    /\ UNCHANGED flipped

\* Once more, or 409 LIMITED_USE_CHANGED.
RefillMisses(h) ==
    /\ worker[h].stage = "write"
    /\ ~Unchanged(h, uses[Target(h)])
    /\ IF worker[h].try < MaxTries
       THEN worker' = [worker EXCEPT ![h].stage = "read", ![h].try = @ + 1]
       ELSE Answer(h)
    /\ UNCHANGED <<uses, changes, flipped>>

\* A store call fails or the client goes away.
Abort(h) ==
    /\ worker[h].stage # "idle"
    /\ Answer(h)
    /\ UNCHANGED <<uses, changes, flipped>>

Serve(h) ==
    \/ AddLimitedUse(h) \/ UpdateLimitedUse(h) \/ RemoveLimitedUse(h) \/ SingleMisses(h)
    \/ SpendLast(h) \/ Spend(h) \/ Look(h)
    \/ Read(h) \/ Refill(h) \/ RefillMisses(h)

Next == \E h \in Handlers :
    Serve(h) \/ Abort(h) \/ (\E r \in Requests : Receive(h, r))

Spec == Init /\ [][Next]_vars

-----------------------------------------------------------------------------
\* However updates of the maximum, spends, restores and resets overlap, no entry
\* has more uses left than its maximum.
WithinMax == \A i \in Present : uses[i].remaining <= uses[i].max

\* "The last use of a one-time (non-resetting) entry removes it": none is left
\* at zero, unless it became one-time when it was there already.
OneTimeEntriesEnd ==
    \A i \in Present \ flipped : uses[i].resets \/ uses[i].remaining > 0

\* A restore or a reset acts on the count that is stored, not on the one it has
\* read: no use spent in between is given back or taken twice.
RefillActsOnTheStored ==
    [][\A h \in Handlers :
          LET i == Target(h)
          IN  worker[h].stage = "write" /\ worker'[h].stage = "idle" /\ uses' # uses
              => /\ uses'[i].max = uses[i].max
                 /\ Is(h, "restore") => uses'[i].remaining = uses[i].remaining + 1
                 /\ Is(h, "reset") => uses'[i].remaining = uses[i].max]_vars

\* "A concurrent change made both attempts miss although uses remain: retry the
\* sequence once": one other write during a spend never has it refused with
\* uses left.
RefusedOnlyWhenEmpty ==
    \A h \in Handlers :
        worker[h].stage = "look" /\ ~MayTryAgain(h) /\ changes[h] < 2
        => uses[Target(h)] = Absent \/ uses[Target(h)].remaining = 0

=============================================================================
