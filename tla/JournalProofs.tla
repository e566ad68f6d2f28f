----------------------------- MODULE JournalProofs ------------------------------
(***************************************************************************)
(* Facts about every journal: any players, entries, pins and images, any   *)
(* number of requests at a time, and whatever scenario it starts from.     *)
(***************************************************************************)
EXTENDS Journal, FiniteSetTheorems, TLAPS

\* What the stage of a request says of what it holds.
Knows(w) ==
    /\ w.stage \in {"delete", "sweep", "patch", "unstore", "clone", "pins"} => w.src \in Ids
    /\ w.stage \in {"link", "copy", "place", "clone_pin", "pins"} => w.entity \in Ids
    /\ w.stage \in {"link", "copy", "place", "clone", "clone_pin", "pins"}
          => w.to \in Players
    /\ w.stage = "pins" => w.pin \in PinIds

WorkersKnow == \A h \in Handlers : worker[h] \in Worker /\ Knows(worker[h])

\* What TypeOK says of the variables that are no documents.
RestTyped ==
    /\ objects \subseteq Keys
    /\ used \subseteq Ids \cup PinIds
    /\ serves \in {s.serves : s \in Scenarios}
    /\ raced \subseteq (Ids \cup PinIds) \X Players
    /\ late \subseteq PinIds
    /\ unswept \subseteq Ids
    /\ holders \in [Keys -> SUBSET (Ids \cup {Elsewhere})]
    /\ blind \subseteq Ids \X Keys
    /\ overlapped \subseteq Ids

JournalInv == TypeOK /\ PinsFollowEntities /\ WorkersKnow

-----------------------------------------------------------------------------
\* Who was given an image is remembered, and nothing else changes.
LEMMA HeldGrows ==
    ASSUME holders \in [Keys -> SUBSET (Ids \cup {Elsewhere})],
           NEW i \in Ids \cup {Elsewhere}, NEW k \in Keys \cup {None}
    PROVE  /\ Held(i, k) \in [Keys -> SUBSET (Ids \cup {Elsewhere})]
           /\ \A n \in Keys : /\ holders[n] \subseteq Held(i, k)[n]
                              /\ Held(i, k)[n] \subseteq holders[n] \cup {i}
           /\ k # None => i \in Held(i, k)[k]
BY DEF Held

LEMMA RestIsTyped == TypeOK => RestTyped
  BY DEF TypeOK, RestTyped

\* A handler that goes on, if it was not about to delete pins, takes no
\* excuse from a pin.
LEMMA WorkerGoesOn ==
    ASSUME JournalInv, NEW h \in Handlers, NEW w \in Worker, Knows(w),
           worker' = [worker EXCEPT ![h] = w], worker[h].stage # "sweep"
    PROVE  /\ worker' \in [Handlers -> Worker] /\ WorkersKnow'
           /\ \A g \in Handlers, i \in Ids :
                 At(g, "sweep") /\ worker[g].src = i
                    => worker'[g].stage = "sweep" /\ worker'[g].src = i
  BY DEF JournalInv, TypeOK, WorkersKnow, At

\* A step that deletes no entry, stores no pin but one whose entry is there
\* or that counts as late, and forgets no excuse.
LEMMA PinsStayExcused ==
    ASSUME JournalInv,
           \A i \in Ids : There(i) => entries'[i] # None,
           \A x \in PinIds : pins'[x] # None =>
               \/ pins'[x] = pins[x]
               \/ pins'[x].entity \in Ids /\ entries'[pins'[x].entity] # None
               \/ x \in late',
           late \subseteq late', unswept \subseteq unswept',
           \A g \in Handlers, i \in Ids :
               At(g, "sweep") /\ worker[g].src = i
                  => \/ worker'[g].stage = "sweep" /\ worker'[g].src = i
                     \/ i \in unswept'
    PROVE  PinsFollowEntities'
<1> SUFFICES ASSUME NEW x \in PinIds, pins'[x] # None
             PROVE  \/ entries'[pins'[x].entity] # None
                    \/ x \in late'
                    \/ pins'[x].entity \in unswept'
                    \/ \E h \in Handlers : /\ worker'[h].stage = "sweep"
                                           /\ worker'[h].src = pins'[x].entity
  BY DEF PinsFollowEntities, Pinned, There, At
<1>1. CASE pins'[x] = pins[x]
  <2>1. pins[x] \in Pin /\ pins[x].entity \in Ids
    BY <1>1 DEF JournalInv, TypeOK, Pin
  <2>2. \/ There(pins[x].entity) \/ x \in late \/ pins[x].entity \in unswept
        \/ \E h \in Handlers : At(h, "sweep") /\ worker[h].src = pins[x].entity
    BY <1>1 DEF JournalInv, PinsFollowEntities, Pinned
  <2> QED
    BY <1>1, <2>1, <2>2
<1>2. CASE pins'[x] # pins[x]
  BY <1>2
<1> QED
  BY <1>1, <1>2

\* A step of one handler that changes no document.
LEMMA DocumentsStay ==
    ASSUME JournalInv, NEW h \in Handlers, NEW w \in Worker, Knows(w),
           worker' = [worker EXCEPT ![h] = w], worker[h].stage # "sweep",
           RestTyped', UNCHANGED <<entries, pins, late, unswept>>
    PROVE  JournalInv'
<1>1. PinsFollowEntities'
  BY WorkerGoesOn, PinsStayExcused DEF There
<1> QED
  BY <1>1, WorkerGoesOn DEF JournalInv, TypeOK, RestTyped

\* A step of one handler that stores entries and leaves the pins.
LEMMA EntriesChange ==
    ASSUME JournalInv, NEW h \in Handlers, NEW w \in Worker, Knows(w),
           worker' = [worker EXCEPT ![h] = w], worker[h].stage # "sweep",
           entries' \in [Ids -> Entry \cup {None}],
           \A i \in Ids : There(i) => entries'[i] # None,
           RestTyped', UNCHANGED <<pins, late, unswept>>
    PROVE  JournalInv'
<1>1. PinsFollowEntities'
  BY WorkerGoesOn, PinsStayExcused
<1> QED
  BY <1>1, WorkerGoesOn DEF JournalInv, TypeOK, RestTyped

LEMMA IdleKnows == Idle \in Worker /\ Knows(Idle) /\ Idle.stage = "idle"
  BY DEF Idle, Worker, Stages, Knows

\* Looking for a clone leaves the history typed.
LEMMA SoughtTyped ==
    ASSUME TypeOK, NEW h, NEW s \in Ids \cup PinIds, NEW q \in Players, Sought(h, s, q)
    PROVE  raced' \subseteq (Ids \cup PinIds) \X Players
  BY DEF TypeOK, Sought

-----------------------------------------------------------------------------
\* The reading halves of the requests.
LEMMA RequestStep ==
    ASSUME JournalInv, NEW h \in Handlers, Request(h)
    PROVE  JournalInv'
<1> USE DEF Idle, Worker, Stages, Knows, Begin, Free
<1>0. TypeOK /\ RestTyped /\ entries \in [Ids -> Entry \cup {None}]
  BY RestIsTyped DEF JournalInv, TypeOK
<1>1. ASSUME NEW i \in Ids, NEW k \in Keys \cup {None}, UpdateImage(h, i, k)
      PROVE  JournalInv'
  <2> DEFINE w == [Idle EXCEPT !.stage = "patch", !.src = i, !.image = k,
                               !.old = entries[i].image]
  <2>1. entries[i].image \in Keys \cup {None}
    BY <1>0, <1>1 DEF UpdateImage, There, Entry
  <2>2. w \in Worker /\ Knows(w)
    BY <2>1
  <2>3. RestTyped' /\ UNCHANGED <<entries, pins, late, unswept>>
    BY <1>0, <1>1 DEF UpdateImage, RestTyped
  <2> QED
    BY <1>1, <2>2, <2>3, DocumentsStay DEF UpdateImage
<1>2. ASSUME NEW i \in Ids, Delete(h, i) PROVE JournalInv'
  <2> DEFINE w == [Idle EXCEPT !.stage = "delete", !.src = i]
  <2>1. w \in Worker /\ Knows(w)
    OBVIOUS
  <2>2. RestTyped' /\ UNCHANGED <<entries, pins, late, unswept>>
    BY <1>0, <1>2 DEF Delete, OnlyReads, RestTyped
  <2> QED
    BY <1>2, <2>1, <2>2, DocumentsStay DEF Delete
<1>3. ASSUME NEW i \in Ids, NEW q \in Players, CreatePin(h, q, i) PROVE JournalInv'
  <2> DEFINE w == [Idle EXCEPT !.stage = "place", !.to = q, !.entity = i]
  <2>1. w \in Worker /\ Knows(w)
    OBVIOUS
  <2>2. RestTyped' /\ UNCHANGED <<entries, pins, late, unswept>>
    BY <1>0, <1>3 DEF CreatePin, OnlyReads, RestTyped
  <2> QED
    BY <1>3, <2>1, <2>2, DocumentsStay DEF CreatePin
<1>4. ASSUME NEW i \in Ids, NEW q \in Players, NEW cascade \in BOOLEAN,
             NEW x \in PinIds \cup {None}, Share(h, i, q, cascade, x)
      PROVE  JournalInv'
  <2> DEFINE w == [Idle EXCEPT !.stage = IF cascade /\ entries[i].link # None
                                         THEN "link" ELSE "clone",
                               !.src = i, !.to = q, !.entity = entries[i].link,
                               !.image = entries[i].image, !.pin = x]
  <2>1. entries[i].link \in Ids \cup {None} /\ entries[i].image \in Keys \cup {None}
    BY <1>0, <1>4 DEF Share, There, Entry
  <2>2. w \in Worker /\ Knows(w)
    BY <2>1
  <2>3. RestTyped' /\ UNCHANGED <<entries, pins, late, unswept>>
    BY <1>0, <1>4, SoughtTyped DEF Share, OnlyReads, RestTyped
  <2> QED
    BY <1>4, <2>2, <2>3, DocumentsStay DEF Share
<1>5. ASSUME NEW x \in PinIds, NEW q \in Players, NEW cascade \in BOOLEAN,
             SharePin(h, x, q, cascade)
      PROVE  JournalInv'
  <2> DEFINE w == [Idle EXCEPT !.stage = IF cascade THEN "link" ELSE "clone_pin",
                               !.to = q, !.entity = pins[x].entity, !.pin = x]
  <2>1. pins[x].entity \in Ids
    BY <1>0, <1>5 DEF SharePin, Pinned, TypeOK, Pin
  <2>2. w \in Worker /\ Knows(w)
    BY <2>1
  <2>3. RestTyped' /\ UNCHANGED <<entries, pins, late, unswept>>
    BY <1>0, <1>5, SoughtTyped DEF SharePin, OnlyReads, RestTyped
  <2> QED
    BY <1>5, <2>2, <2>3, DocumentsStay DEF SharePin
<1> QED
  BY <1>1, <1>2, <1>3, <1>4, <1>5 DEF Request

-----------------------------------------------------------------------------
\* A step of one handler that only removes or stores pins.
LEMMA PinsChange ==
    ASSUME JournalInv, NEW h \in Handlers, NEW w \in Worker, Knows(w),
           worker' = [worker EXCEPT ![h] = w], worker[h].stage # "sweep",
           pins' \in [PinIds -> Pin \cup {None}],
           \A x \in PinIds : pins'[x] # None =>
               \/ pins'[x] = pins[x]
               \/ pins'[x].entity \in Ids /\ entries[pins'[x].entity] # None
               \/ x \in late',
           RestTyped', late \subseteq late', UNCHANGED <<entries, unswept>>
    PROVE  JournalInv'
<1>1. PinsFollowEntities'
  BY WorkerGoesOn, PinsStayExcused DEF There
<1> QED
  BY <1>1, WorkerGoesOn DEF JournalInv, TypeOK, RestTyped

\* A clone, or any entry, is a document whose id is its own.
LEMMA CloneStores ==
    ASSUME JournalInv, NEW h \in Handlers, NEW i \in Ids, NEW s \in Ids,
           NEW link \in Ids \cup {None}, NEW k \in Keys \cup {None},
           worker[h].to \in Players, Clone(h, i, s, link, k)
    PROVE  /\ entries' \in [Ids -> Entry \cup {None}]
           /\ \A j \in Ids : There(j) => entries'[j] # None
           /\ RestTyped' /\ UNCHANGED <<pins, late, unswept>>
<1> DEFINE e == [owner |-> worker[h].to, link |-> link, image |-> k, from |-> s,
                 open |-> FALSE]
<1>0. e \in Entry
  BY DEF Entry
<1>1. e \in Entry /\ e # None
  BY <1>0, DocumentsAssumption
<1>2. entries' = [entries EXCEPT ![i] = e]
  BY DEF Clone
<1>3. RestTyped' /\ UNCHANGED <<pins, late, unswept>>
  BY HeldGrows DEF Clone, RestTyped, JournalInv, TypeOK
<1> HIDE DEF e
<1> QED
  BY <1>1, <1>2, <1>3 DEF JournalInv, TypeOK, There

\* Storing a pin: its entry is there, or the pin counts as late.
LEMMA InsertStep ==
    ASSUME JournalInv, NEW h \in Handlers, NEW x \in PinIds,
           NEW from \in PinIds \cup {None},
           worker[h].stage \in {"place", "clone_pin"}, Insert(h, x, from)
    PROVE  JournalInv'
<1> DEFINE d == [owner |-> worker[h].to, entity |-> worker[h].entity, from |-> from]
<1>1. worker[h].entity \in Ids /\ worker[h].to \in Players
  BY DEF JournalInv, WorkersKnow, Knows
<1>2. d \in Pin /\ d.entity = worker[h].entity
  BY <1>1 DEF Pin
<1>3. pins' = [pins EXCEPT ![x] = d]
  BY DEF Insert
<1>4. \/ There(worker[h].entity) /\ late' = late
      \/ late' = late \cup {x}
  BY DEF Insert
<1>5. RestTyped' /\ UNCHANGED <<entries, unswept>>
  BY <1>4 DEF Insert, RestTyped, JournalInv, TypeOK
<1>6. worker' = [worker EXCEPT ![h] = Idle]
  BY DEF Insert, Answer, Begin
<1> HIDE DEF d
<1>7. pins' \in [PinIds -> Pin \cup {None}]
  BY <1>2, <1>3 DEF JournalInv, TypeOK
<1>8. ASSUME NEW y \in PinIds, pins'[y] # pins[y]
      PROVE  \/ pins'[y].entity \in Ids /\ entries[pins'[y].entity] # None
             \/ y \in late'
  <2>1. y = x /\ pins'[y] = d
    BY <1>3, <1>8 DEF JournalInv, TypeOK
  <2> QED
    BY <1>1, <1>2, <1>4, <2>1 DEF There
<1> QED
  BY <1>4, <1>5, <1>6, <1>7, <1>8, IdleKnows, PinsChange

\* Deleting an entry: from then on its pins wait for the sweep.
LEMMA DeleteEntryStep ==
    ASSUME JournalInv, NEW h \in Handlers, DeleteEntry(h)
    PROVE  JournalInv'
<1> DEFINE w == [worker[h] EXCEPT !.stage = "sweep"]
<1>1. worker[h] \in Worker /\ worker[h].stage = "delete" /\ worker[h].src \in Ids
  BY DEF DeleteEntry, At, JournalInv, WorkersKnow, Knows
<1>2. w \in Worker /\ Knows(w) /\ w.stage = "sweep" /\ w.src = worker[h].src
  BY <1>1 DEF Worker, Stages, Knows
<1>3. worker' = [worker EXCEPT ![h] = w]
  BY DEF DeleteEntry, Proceed, JournalInv, TypeOK
<1> HIDE DEF w
<1>4. /\ worker' \in [Handlers -> Worker] /\ WorkersKnow'
      /\ \A g \in Handlers, i \in Ids :
            At(g, "sweep") /\ worker[g].src = i
               => worker'[g].stage = "sweep" /\ worker'[g].src = i
  BY <1>1, <1>2, <1>3, WorkerGoesOn
<1>5. entries' = [entries EXCEPT ![worker[h].src] = None]
      /\ UNCHANGED <<pins, objects, used, serves, raced, late, unswept,
                     holders, blind, overlapped>>
  BY DEF DeleteEntry
<1>6. TypeOK'
  BY <1>1, <1>4, <1>5 DEF JournalInv, TypeOK
<1>7. ASSUME NEW x \in PinIds, pins[x] # None
      PROVE  \/ entries'[pins[x].entity] # None
             \/ x \in late \/ pins[x].entity \in unswept
             \/ \E g \in Handlers : worker'[g].stage = "sweep"
                                    /\ worker'[g].src = pins[x].entity
  <2>1. pins[x].entity \in Ids
    BY <1>7 DEF JournalInv, TypeOK, Pin
  <2>2. CASE pins[x].entity = worker[h].src
    BY <1>2, <1>3, <2>2 DEF JournalInv, TypeOK
  <2>3. CASE pins[x].entity # worker[h].src
    <3>1. entries'[pins[x].entity] = entries[pins[x].entity]
      BY <1>5, <2>1, <2>3 DEF JournalInv, TypeOK
    <3> QED
      BY <1>4, <1>7, <2>1, <3>1 DEF JournalInv, PinsFollowEntities, Pinned, There, At
  <2> QED
    BY <2>2, <2>3
<1>8. PinsFollowEntities'
  BY <1>5, <1>7 DEF PinsFollowEntities, Pinned, There, At
<1> QED
  BY <1>4, <1>6, <1>8 DEF JournalInv

\* The sweep: afterwards no pin on that entry is left to be excused.
LEMMA SweepStep ==
    ASSUME JournalInv, NEW h \in Handlers, DeleteByEntity(h)
    PROVE  JournalInv'
<1>1. /\ pins' = Without(On(worker[h].src))
      /\ worker' = [worker EXCEPT ![h] = Idle]
      /\ UNCHANGED <<entries, objects, used, serves, raced, late, unswept,
                     holders, blind, overlapped>>
  BY DEF DeleteByEntity, Answer, Begin
<1>2. pins' \in [PinIds -> Pin \cup {None}]
      /\ \A x \in PinIds : pins'[x] # None =>
            pins'[x] = pins[x] /\ pins[x].entity # worker[h].src
  BY <1>1 DEF Without, On, Pinned, JournalInv, TypeOK
<1>3. worker' \in [Handlers -> Worker] /\ WorkersKnow'
  BY <1>1, IdleKnows DEF JournalInv, TypeOK, WorkersKnow
<1>4. TypeOK'
  BY <1>1, <1>2, <1>3 DEF JournalInv, TypeOK
<1>5. ASSUME NEW x \in PinIds, pins'[x] # None
      PROVE  \/ entries[pins'[x].entity] # None
             \/ x \in late \/ pins'[x].entity \in unswept
             \/ \E g \in Handlers : worker'[g].stage = "sweep"
                                    /\ worker'[g].src = pins'[x].entity
  <2>1. \A g \in Handlers : worker[g].src = pins[x].entity => worker'[g] = worker[g]
    BY <1>1, <1>2, <1>5 DEF JournalInv, TypeOK
  <2> QED
    BY <1>2, <1>5, <2>1 DEF JournalInv, PinsFollowEntities, Pinned, There, At
<1>6. PinsFollowEntities'
  BY <1>1, <1>5 DEF PinsFollowEntities, Pinned, There, At
<1> QED
  BY <1>3, <1>4, <1>6 DEF JournalInv

\* A failed call: one that was to sweep leaves its entry unswept.
LEMMA AbortStep ==
    ASSUME JournalInv, NEW h \in Handlers, Abort(h)
    PROVE  JournalInv'
<1>1. /\ worker' = [worker EXCEPT ![h] = Idle]
      /\ unswept' = IF At(h, "sweep") THEN unswept \cup {worker[h].src} ELSE unswept
      /\ UNCHANGED <<entries, pins, objects, used, serves, raced, late,
                     holders, blind, overlapped>>
  BY DEF Abort, Answer, Begin
<1>2. At(h, "sweep") => worker[h].src \in Ids
  BY DEF At, JournalInv, WorkersKnow, Knows
<1>3. worker' \in [Handlers -> Worker] /\ WorkersKnow'
  BY <1>1, IdleKnows DEF JournalInv, TypeOK, WorkersKnow
<1>4. TypeOK'
  BY <1>1, <1>2, <1>3 DEF JournalInv, TypeOK
<1>5. \A g \in Handlers, i \in Ids :
         At(g, "sweep") /\ worker[g].src = i
            => (worker'[g].stage = "sweep" /\ worker'[g].src = i) \/ i \in unswept'
  BY <1>1 DEF At, JournalInv, TypeOK
<1>6. PinsFollowEntities'
  BY <1>1, <1>5, PinsStayExcused DEF There
<1> QED
  BY <1>3, <1>4, <1>6 DEF JournalInv

\* What a request does after it has read, one store call at a time.
LEMMA WorkStep ==
    ASSUME JournalInv, NEW h \in Handlers, Work(h)
    PROVE  JournalInv'
<1>0. /\ TypeOK /\ RestTyped /\ entries \in [Ids -> Entry \cup {None}]
      /\ worker \in [Handlers -> Worker] /\ worker[h] \in Worker /\ Knows(worker[h])
  BY RestIsTyped DEF JournalInv, TypeOK, WorkersKnow
<1>1. CASE Patch(h)
  <2> DEFINE i == worker[h].src
             w == IF There(i) /\ ImageChanges(h) /\ worker[h].old # None
                  THEN [worker[h] EXCEPT !.stage = "unstore"] ELSE Idle
  <2>1. i \in Ids /\ worker[h].image \in Keys \cup {None} /\ worker[h].stage = "patch"
    BY <1>0, <1>1 DEF Patch, At, Knows, Worker
  <2>2. w \in Worker /\ Knows(w)
    BY <1>0, <2>1, IdleKnows DEF Worker, Stages, Knows
  <2>3. worker' = [worker EXCEPT ![h] = w]
    BY <1>0, <1>1 DEF Patch, Proceed, Answer, Begin
  <2>4. entries' = IF There(i) THEN [entries EXCEPT ![i].image = worker[h].image]
                               ELSE entries
    BY <1>1 DEF Patch
  <2>5. There(i) => [entries[i] EXCEPT !.image = worker[h].image] \in Entry
    BY <1>0, <2>1 DEF There, Entry
  <2>6. /\ entries' \in [Ids -> Entry \cup {None}]
        /\ \A j \in Ids : There(j) => entries'[j] # None
    BY <1>0, <2>1, <2>4, <2>5, DocumentsAssumption DEF There
  <2>7. RestTyped' /\ UNCHANGED <<pins, late, unswept>>
    BY <1>0, <1>1, <2>1, HeldGrows DEF Patch, RestTyped
  <2> HIDE DEF w
  <2> QED
    BY <2>1, <2>2, <2>3, <2>6, <2>7, EntriesChange
<1>2. CASE DeleteImage(h)
  <2>1. RestTyped' /\ UNCHANGED <<entries, pins, late, unswept>>
    BY <1>0, <1>2 DEF DeleteImage, RestTyped
  <2> QED
    BY <1>2, <2>1, IdleKnows, DocumentsStay DEF DeleteImage, At, Answer, Begin
<1>3. CASE FindLinked(h)
  <2> DEFINE s == worker[h].entity
             next == IF worker[h].src = None THEN "clone_pin" ELSE "clone"
  <2>1. /\ worker[h].stage = "link" /\ s \in Ids /\ worker[h].to \in Players
        /\ worker[h].src \in Ids \cup {None}
    BY <1>0, <1>3 DEF FindLinked, At, Knows, Worker
  <2>2. \A c \in Ids : LET w == [worker[h] EXCEPT !.stage = next, !.entity = c]
                       IN  w \in Worker /\ Knows(w)
    BY <1>0, <2>1 DEF Worker, Stages, Knows
  <2>3. ASSUME UNCHANGED raced \/ Sought(h, s, worker[h].to), OnlyReads
        PROVE  RestTyped' /\ UNCHANGED <<entries, pins, late, unswept>>
    BY <1>0, <2>1, <2>3, SoughtTyped DEF OnlyReads, RestTyped
  <2>4. ASSUME NEW c \in ClonesOf(s, worker[h].to), UNCHANGED raced,
               Begin(h, [worker[h] EXCEPT !.stage = next, !.entity = c])
        PROVE  JournalInv'
    <3>1. c \in Ids
      BY DEF ClonesOf
    <3> QED
      BY <1>3, <2>1, <2>2, <2>3, <2>4, <3>1, DocumentsStay DEF FindLinked, Begin
  <2>5. ASSUME Proceed(h, next), UNCHANGED raced PROVE JournalInv'
    <3> DEFINE w == [worker[h] EXCEPT !.stage = next]
    <3>1. w \in Worker /\ Knows(w)
      BY <1>0, <2>1 DEF Worker, Stages, Knows
    <3>2. worker' = [worker EXCEPT ![h] = w]
      BY <1>0, <2>5 DEF Proceed
    <3> HIDE DEF w
    <3> QED
      BY <1>3, <2>1, <2>3, <2>5, <3>1, <3>2, DocumentsStay DEF FindLinked
  <2>6. ASSUME There(s), Sought(h, s, worker[h].to),
               Begin(h, [worker[h] EXCEPT !.stage = "copy",
                            !.partLink = IF s \in Npcs THEN entries[s].link ELSE None,
                            !.partImage = entries[s].image])
        PROVE  JournalInv'
    <3> DEFINE w == [worker[h] EXCEPT !.stage = "copy",
                        !.partLink = IF s \in Npcs THEN entries[s].link ELSE None,
                        !.partImage = entries[s].image]
    <3>1. entries[s].link \in Ids \cup {None} /\ entries[s].image \in Keys \cup {None}
      BY <1>0, <2>1, <2>6 DEF There, Entry
    <3>2. w \in Worker /\ Knows(w)
      <4> DEFINE link == IF s \in Npcs THEN entries[s].link ELSE None
      <4>1. link \in Ids \cup {None}
        BY <3>1
      <4> HIDE DEF link
      <4>2. [worker[h] EXCEPT !.stage = "copy", !.partLink = link,
                              !.partImage = entries[s].image] \in Worker
        BY <1>0, <3>1, <4>1 DEF Worker, Stages
      <4>3. w \in Worker
        BY <4>2 DEF link
      <4>4. w.stage = "copy" /\ w.entity = s /\ w.to = worker[h].to
        BY <1>0 DEF Worker
      <4> QED
        BY <2>1, <4>3, <4>4 DEF Knows
    <3> QED
      BY <1>3, <2>1, <2>3, <2>6, <3>2, DocumentsStay DEF FindLinked, Begin
  <2> QED
    BY <1>3, <2>4, <2>5, <2>6 DEF FindLinked
<1>4. CASE FindPin(h)
  <2> DEFINE x == worker[h].pin
  <2>1. /\ worker[h].stage = "pins" /\ worker[h].to \in Players
        /\ worker[h].entity \in Ids /\ x \in PinIds
    BY <1>0, <1>4 DEF FindPin, At, Knows
  <2>2. CASE /\ Pinned(x) /\ pins[x].entity = worker[h].src /\ PinClonesOf(x, worker[h].to) = {}
    <3> DEFINE w == [worker[h] EXCEPT !.stage = "clone_pin"]
    <3>1. w \in Worker /\ Knows(w)
      BY <1>0, <2>1 DEF Worker, Stages, Knows
    <3>2. worker' = [worker EXCEPT ![h] = w] /\ Sought(h, x, worker[h].to)
      BY <1>0, <1>4, <2>2 DEF FindPin, Proceed
    <3>3. raced' \subseteq (Ids \cup PinIds) \X Players
      BY <1>0, <2>1, <3>2, SoughtTyped
    <3>4. RestTyped' /\ UNCHANGED <<entries, pins, late, unswept>>
      BY <1>0, <1>4, <3>3 DEF FindPin, OnlyReads, RestTyped
    <3> HIDE DEF w
    <3> QED
      BY <2>1, <3>1, <3>2, <3>4, DocumentsStay
  <2>3. CASE ~(/\ Pinned(x) /\ pins[x].entity = worker[h].src
               /\ PinClonesOf(x, worker[h].to) = {})
    <3>1. RestTyped' /\ UNCHANGED <<entries, pins, late, unswept>>
      BY <1>0, <1>4, <2>3 DEF FindPin, OnlyReads, RestTyped
    <3> QED
      BY <1>4, <2>1, <2>3, <3>1, IdleKnows, DocumentsStay DEF FindPin, Answer, Begin
  <2> QED
    BY <2>2, <2>3
<1>5. ASSUME NEW i \in Ids, CloneLinked(h, i) PROVE JournalInv'
  <2> DEFINE w == [worker[h] EXCEPT
                      !.stage = IF worker[h].src = None THEN "clone_pin" ELSE "clone",
                      !.entity = i, !.partLink = None, !.partImage = None]
  <2>1. /\ worker[h].stage = "copy" /\ worker[h].entity \in Ids /\ worker[h].to \in Players
        /\ worker[h].partLink \in Ids \cup {None} /\ worker[h].partImage \in Keys \cup {None}
        /\ worker[h].src \in Ids \cup {None}
    BY <1>0, <1>5 DEF CloneLinked, At, Knows, Worker
  <2>2. w \in Worker /\ Knows(w)
    <3> DEFINE next == IF worker[h].src = None THEN "clone_pin" ELSE "clone"
    <3>1. next \in Stages /\ next \in {"clone_pin", "clone"}
          /\ (next = "clone" => worker[h].src \in Ids)
      BY <2>1 DEF Stages
    <3> HIDE DEF next
    <3>2. [worker[h] EXCEPT !.stage = next, !.entity = i, !.partLink = None,
                            !.partImage = None] \in Worker
      BY <1>0, <3>1 DEF Worker
    <3>3. w \in Worker
      BY <3>2 DEF next
    <3>4. /\ w.stage = next /\ w.entity = i /\ w.to = worker[h].to
          /\ w.src = worker[h].src
      BY <1>0 DEF Worker, next
    <3> QED
      BY <2>1, <3>1, <3>3, <3>4 DEF Knows
  <2>3. /\ Clone(h, i, worker[h].entity, worker[h].partLink, worker[h].partImage)
        /\ worker' = [worker EXCEPT ![h] = w]
    BY <1>5 DEF CloneLinked, Begin
  <2> HIDE DEF w
  <2> QED
    BY <2>1, <2>2, <2>3, CloneStores, EntriesChange
<1>6. ASSUME NEW i \in Ids, CloneEntry(h, i) PROVE JournalInv'
  <2> DEFINE w == IF worker[h].pin = None THEN Idle
                  ELSE [worker[h] EXCEPT !.stage = "pins", !.entity = i, !.image = None]
  <2>1. /\ worker[h].stage = "clone" /\ worker[h].src \in Ids /\ worker[h].to \in Players
        /\ worker[h].entity \in Ids \cup {None} /\ worker[h].image \in Keys \cup {None}
    BY <1>0, <1>6 DEF CloneEntry, At, Knows, Worker
  <2>2. w \in Worker /\ Knows(w)
    <3>1. CASE worker[h].pin = None
      BY <3>1, IdleKnows
    <3>2. CASE worker[h].pin # None
      <4>1. worker[h].pin \in PinIds
        BY <1>0, <3>2 DEF Worker
      <4> QED
        BY <1>0, <2>1, <3>2, <4>1 DEF Worker, Stages, Knows
    <3> QED
      BY <3>1, <3>2
  <2>3. /\ Clone(h, i, worker[h].src, worker[h].entity, worker[h].image)
        /\ worker' = [worker EXCEPT ![h] = w]
    BY <1>6 DEF CloneEntry, Begin, Answer
  <2> HIDE DEF w
  <2> QED
    BY <2>1, <2>2, <2>3, CloneStores, EntriesChange
<1>7. ASSUME NEW x \in PinIds, PlacePin(h, x) \/ ClonePin(h, x) PROVE JournalInv'
  <2>1. worker[h].pin \in PinIds \cup {None}
    BY <1>0 DEF Worker
  <2> QED
    BY <1>7, <2>1, InsertStep DEF PlacePin, ClonePin, At
<1> QED
  BY <1>1, <1>2, <1>3, <1>4, <1>5, <1>6, <1>7,
     DeleteEntryStep, SweepStep, AbortStep DEF Work

-----------------------------------------------------------------------------
\* The operations that are one store call.
LEMMA SingleStep ==
    ASSUME JournalInv,
           \/ \E p \in Players, i \in Ids, link \in Ids \cup {None}, k \in Keys \cup {None} :
                 CreateEntry(p, i, link, k)
           \/ \E i \in Ids, open \in BOOLEAN : SetVisibility(i, open)
           \/ \E x \in PinIds : DeletePin(x)
           \/ \E k \in Keys : Upload(k) \/ DeleteElsewhere(k)
    PROVE  JournalInv'
<1>0. /\ TypeOK /\ RestTyped /\ entries \in [Ids -> Entry \cup {None}]
      /\ pins \in [PinIds -> Pin \cup {None}]
  BY RestIsTyped DEF JournalInv, TypeOK
<1>1. ASSUME UNCHANGED <<worker, late, unswept>>, RestTyped',
             entries' \in [Ids -> Entry \cup {None}],
             \A i \in Ids : There(i) => entries'[i] # None,
             pins' \in [PinIds -> Pin \cup {None}],
             \A x \in PinIds : pins'[x] # None => pins'[x] = pins[x]
      PROVE  JournalInv'
  <2>1. PinsFollowEntities'
    BY <1>1, PinsStayExcused DEF At
  <2>2. WorkersKnow' /\ worker' \in [Handlers -> Worker]
    BY <1>0, <1>1 DEF JournalInv, WorkersKnow, TypeOK
  <2> QED
    BY <1>1, <2>1, <2>2 DEF JournalInv, TypeOK, RestTyped
<1>2. ASSUME NEW p \in Players, NEW i \in Ids, NEW link \in Ids \cup {None},
             NEW k \in Keys \cup {None}, CreateEntry(p, i, link, k)
      PROVE  JournalInv'
  <2> DEFINE e == [owner |-> p, link |-> link, image |-> k, from |-> None, open |-> FALSE]
  <2>1. e \in Entry
    BY DEF Entry
  <2>2. e # None
    BY <2>1, DocumentsAssumption
  <2>3. entries' = [entries EXCEPT ![i] = e]
    BY <1>2 DEF CreateEntry
  <2>4. RestTyped' /\ UNCHANGED <<worker, pins, late, unswept>>
    <3>1. /\ used' = used \cup {i} /\ holders' = Held(i, k)
          /\ blind' = IF k \in objects \cup {None} THEN blind ELSE blind \cup {<<i, k>>}
          /\ UNCHANGED <<pins, objects, worker, serves, raced, late, unswept, overlapped>>
      BY <1>2 DEF CreateEntry
    <3>2. k # None => <<i, k>> \in Ids \X Keys
      OBVIOUS
    <3> QED
      BY <1>0, <3>1, <3>2, HeldGrows DEF RestTyped
  <2> HIDE DEF e
  <2>5. /\ entries' \in [Ids -> Entry \cup {None}]
        /\ \A j \in Ids : There(j) => entries'[j] # None
    BY <1>0, <2>1, <2>2, <2>3 DEF There
  <2> QED
    BY <1>0, <1>1, <2>4, <2>5
<1>3. ASSUME NEW i \in Ids, NEW open \in BOOLEAN, SetVisibility(i, open) PROVE JournalInv'
  <2>1. entries[i] \in Entry /\ entries' = [entries EXCEPT ![i].open = open]
    BY <1>0, <1>3 DEF SetVisibility, There
  <2>2. [entries[i] EXCEPT !.open = open] \in Entry
    BY <2>1 DEF Entry
  <2>3. /\ entries' \in [Ids -> Entry \cup {None}]
        /\ \A j \in Ids : There(j) => entries'[j] # None
    BY <1>0, <2>1, <2>2, DocumentsAssumption DEF There
  <2>4. RestTyped' /\ UNCHANGED <<worker, pins, late, unswept>>
    BY <1>0, <1>3 DEF SetVisibility, RestTyped
  <2> QED
    BY <1>0, <1>1, <2>3, <2>4
<1>4. ASSUME NEW x \in PinIds, DeletePin(x) PROVE JournalInv'
  <2>1. /\ pins' \in [PinIds -> Pin \cup {None}]
        /\ \A y \in PinIds : pins'[y] # None => pins'[y] = pins[y]
    BY <1>0, <1>4 DEF DeletePin, Without
  <2>2. RestTyped' /\ UNCHANGED <<worker, entries, late, unswept>>
    BY <1>0, <1>4 DEF DeletePin, RestTyped
  <2> QED
    BY <1>0, <1>1, <2>1, <2>2 DEF There
<1>5. ASSUME NEW k \in Keys, Upload(k) \/ DeleteElsewhere(k) PROVE JournalInv'
  <2>1. Held(Elsewhere, k) \in [Keys -> SUBSET (Ids \cup {Elsewhere})]
    BY <1>0, HeldGrows DEF RestTyped
  <2>2. RestTyped'
    BY <1>0, <1>5, <2>1 DEF Upload, DeleteElsewhere, RestTyped
  <2>3. UNCHANGED <<worker, entries, pins, late, unswept>>
    BY <1>5 DEF Upload, DeleteElsewhere
  <2> QED
    BY <1>0, <1>1, <2>2, <2>3 DEF There
<1> QED
  BY <1>2, <1>3, <1>4, <1>5

LEMMA JournalStep == JournalInv /\ [Next]_vars => JournalInv'
<1> SUFFICES ASSUME JournalInv, [Next]_vars PROVE JournalInv'
  OBVIOUS
<1>1. CASE UNCHANGED vars
  BY <1>1 DEF vars, JournalInv, TypeOK, PinsFollowEntities, Pinned, There, At, WorkersKnow
<1> QED
  BY <1>1, RequestStep, WorkStep, SingleStep DEF Next

LEMMA JournalStart == Init => JournalInv
<1> SUFFICES ASSUME Init PROVE JournalInv
  OBVIOUS
<1>1. PICK s \in Scenarios :
         /\ entries = s.entries /\ pins = s.pins /\ serves = s.serves
         /\ objects = s.objects /\ used = s.used
         /\ holders = [k \in Keys |-> {i \in Ids : s.entries[i] # None
                                                   /\ s.entries[i].image = k}]
  BY DEF Init
<1>2. /\ worker = [h \in Handlers |-> Idle]
      /\ raced = {} /\ late = {} /\ unswept = {} /\ blind = {} /\ overlapped = {}
  BY DEF Init
<1>3. TypeOK
  BY <1>1, <1>2, ScenariosAssumption, IdleKnows DEF TypeOK
<1>4. PinsFollowEntities
  BY <1>1, ScenariosAssumption DEF PinsFollowEntities, Pinned, There
<1>5. WorkersKnow
  BY <1>2, IdleKnows DEF WorkersKnow
<1> QED
  BY <1>3, <1>4, <1>5 DEF JournalInv

-----------------------------------------------------------------------------
\* The type invariant of the journal, its pins, its images and the requests
\* that work on them.
THEOREM JournalTypes == Spec => []TypeOK
<1>1. JournalInv => TypeOK
  BY DEF JournalInv
<1> QED
  BY <1>1, JournalStart, JournalStep, PTL DEF Spec

\* Deleting an entry leaves no pin of anybody on it (Delete and
\* DeleteByEntity), however shares, deletes and new pins interleave, but for
\* pins stored when it was gone and sweeps that failed or are to come.
THEOREM NoPinIsLeft == Spec => []PinsFollowEntities
<1>1. JournalInv => PinsFollowEntities
  BY DEF JournalInv
<1> QED
  BY <1>1, JournalStart, JournalStep, PTL DEF Spec

-----------------------------------------------------------------------------
(***************************************************************************)
(* Why images stay stored: an image is deleted by a document that was      *)
(* given it, so as long as an entry is the only one, by a change of that   *)
(* entry that read it; and of two changes of one entry neither sees the    *)
(* other unless they overlap.  A clone shows an image that somebody was    *)
(* given before, so the clone is never the only one.                       *)
(***************************************************************************)
Given(i, k) == k = None \/ i \in holders[k]

Stored(i, k) ==
    \/ k = None \/ k \in objects
    \/ ~Sole(i, k)
    \/ <<i, k>> \in blind
    \/ i \in overlapped

Changing(w) == w.stage \in {"patch", "unstore"}

EntrySafe(i) ==
    There(i) => /\ i \in used
                /\ Given(i, entries[i].image) /\ Stored(i, entries[i].image)

\* An image change was given what it read; once it is about to delete that,
\* its entry shows something else.
ChangeSafe(w) ==
    Changing(w) =>
        /\ w.src \in used /\ Given(w.src, w.old)
        /\ w.stage = "patch" => Stored(w.src, w.image)
        /\ w.stage = "unstore" => w.old # None
        /\ w.stage = "unstore" /\ There(w.src) /\ entries[w.src].image = w.old
              => ~Sole(w.src, w.old) \/ w.src \in overlapped

NoSecondChange ==
    \A g, h \in Handlers :
        g # h /\ Changing(worker[g]) /\ Changing(worker[h]) /\ worker[g].src = worker[h].src
        => worker[g].src \in overlapped

\* What a share is going to copy is an image that was given to somebody.
Known(k) == k = None \/ (k \in Keys /\ holders[k] # {})

ReadSafe(w) ==
    /\ w.stage \in {"link", "copy", "clone"} => Known(w.image)
    /\ w.stage = "copy" => Known(w.partImage)

HoldersUsed == \A k \in Keys : holders[k] \subseteq used \cup {Elsewhere}

ImageInv ==
    /\ \A i \in Ids : EntrySafe(i)
    /\ \A h \in Handlers : ChangeSafe(worker[h]) /\ ReadSafe(worker[h])
    /\ NoSecondChange
    /\ HoldersUsed

\* A step that forgets nothing, and deletes only what something that is no
\* entry was given.
Grows ==
    /\ used \subseteq used' /\ blind \subseteq blind' /\ overlapped \subseteq overlapped'
    /\ \A k \in Keys : holders[k] \subseteq holders'[k]
    /\ \A k \in objects : k \in objects' \/ Elsewhere \in holders'[k]

LEMMA GrownStaysSafe ==
    ASSUME JournalInv, Grows, NEW i \in Ids, NEW k \in Keys \cup {None}
    PROVE  /\ Given(i, k) => Given(i, k)'
           /\ Stored(i, k) => Stored(i, k)'
           /\ k # None /\ ~Sole(i, k) => ~Sole(i, k)'
           /\ Known(k) => Known(k)'
<1>1. /\ k # None => holders[k] \subseteq holders'[k]
      /\ k \in objects => k \in objects' \/ Elsewhere \in holders'[k]
      /\ blind \subseteq blind' /\ overlapped \subseteq overlapped'
  BY DEF Grows
<1>2. Given(i, k) => Given(i, k)'
  BY <1>1 DEF Given
<1>3. k # None /\ ~Sole(i, k) => ~Sole(i, k)'
  BY <1>1 DEF Sole
<1>4. k # None /\ Elsewhere \in holders'[k] => ~Sole(i, k)'
  BY ElsewhereAssumption DEF Sole
<1>5. Stored(i, k) => Stored(i, k)'
  BY <1>1, <1>3, <1>4 DEF Stored
<1>6. Known(k) => Known(k)'
  BY <1>1 DEF Known
<1> QED
  BY <1>2, <1>3, <1>5, <1>6

\* What an entry shows, and what a request holds, are keys or nothing.
LEMMA ImagesAreKeys ==
    ASSUME JournalInv
    PROVE  /\ \A i \in Ids : There(i) => entries[i].image \in Keys \cup {None}
           /\ \A h \in Handlers :
                 /\ worker[h].image \in Keys \cup {None}
                 /\ worker[h].old \in Keys \cup {None}
                 /\ worker[h].partImage \in Keys \cup {None}
                 /\ Changing(worker[h]) => worker[h].src \in Ids
BY DEF JournalInv, TypeOK, WorkersKnow, Worker, Entry, There, Changing, Knows

\* A step that changes the image of no entry and starts no change of one; a
\* new entry has a new id.
LEMMA ImagesUntouched ==
    ASSUME JournalInv, ImageInv, Grows, HoldersUsed',
           \A i \in Ids : entries'[i] # None =>
               \/ entries[i] # None /\ entries'[i].image = entries[i].image
               \/ /\ i \notin used /\ i \in used'
                  /\ \E k : k = entries'[i].image /\ Given(i, k)' /\ Stored(i, k)',
           \A h \in Handlers : \/ worker'[h] = worker[h]
                               \/ ~Changing(worker'[h]) /\ ReadSafe(worker'[h])
    PROVE  ImageInv'
<1>0. \A i \in Ids, k \in Keys \cup {None} :
         /\ (Given(i, k) => Given(i, k)') /\ (Stored(i, k) => Stored(i, k)')
         /\ k # None /\ ~Sole(i, k) => ~Sole(i, k)'
  BY GrownStaysSafe
<1>1. ASSUME NEW i \in Ids PROVE EntrySafe(i)'
  <2>1. CASE entries'[i] # None /\ entries[i] # None /\ entries'[i].image = entries[i].image
    <3>1. PICK k : k = entries[i].image
      OBVIOUS
    <3>2. i \in used /\ Given(i, k) /\ Stored(i, k) /\ k \in Keys \cup {None}
      BY <2>1, <3>1, ImagesAreKeys DEF ImageInv, EntrySafe, There
    <3>3. i \in used' /\ Given(i, k)' /\ Stored(i, k)'
      BY <1>0, <3>2 DEF Grows
    <3> QED
      BY <2>1, <3>1, <3>3 DEF EntrySafe, Given, Stored, Sole
  <2>2. CASE /\ i \in used'
             /\ \E k : k = entries'[i].image /\ Given(i, k)' /\ Stored(i, k)'
    BY <2>2 DEF EntrySafe, Given, Stored, Sole
  <2>3. CASE entries'[i] = None
    BY <2>3 DEF EntrySafe, There
  <2> QED
    BY <2>1, <2>2, <2>3
<1>2. ASSUME NEW h \in Handlers, Changing(worker'[h]) PROVE ChangeSafe(worker[h])'
  <2>1. PICK v : v = worker[h]
    OBVIOUS
  <2>2. /\ worker'[h] = v /\ v.src \in Ids /\ Changing(v) /\ ChangeSafe(v)
        /\ v.image \in Keys \cup {None} /\ v.old \in Keys \cup {None}
    BY <1>2, <2>1, ImagesAreKeys DEF ImageInv
  <2>3. There(v.src)' /\ entries'[v.src].image = v.old
           => There(v.src) /\ entries[v.src].image = v.old
    BY <2>2 DEF There, ChangeSafe
  <2>4. ChangeSafe(v)'
    BY <1>0, <2>2, <2>3 DEF ChangeSafe, Grows
  <2> QED
    BY <2>2, <2>4 DEF ChangeSafe, Given, Stored, Sole, There, Changing
<1>3. ASSUME NEW h \in Handlers PROVE ReadSafe(worker[h])'
  <2>1. PICK v : v = worker'[h]
    OBVIOUS
  <2>2. ReadSafe(v)
    BY <2>1 DEF ImageInv
  <2>3. \A k : Known(k) => Known(k)'
    BY DEF Known, Grows
  <2>4. ReadSafe(v)'
    BY <2>2, <2>3 DEF ReadSafe
  <2> QED
    BY <2>1, <2>4 DEF ReadSafe, Known
<1>4. NoSecondChange'
  BY DEF ImageInv, NoSecondChange, Grows
<1> QED
  BY <1>1, <1>2, <1>3, <1>4 DEF ImageInv, ChangeSafe

LEMMA UpdateImageSafe ==
    ASSUME JournalInv, ImageInv, NEW h \in Handlers, NEW i \in Ids,
           NEW k \in Keys \cup {None}, UpdateImage(h, i, k)
    PROVE  ImageInv'
<1>1. PICK old : old = entries[i].image
  OBVIOUS
<1> DEFINE w == [Idle EXCEPT !.stage = "patch", !.src = i, !.image = k, !.old = old]
<1>2. /\ worker' = [worker EXCEPT ![h] = w] /\ There(i) /\ Verified(k, old)
      /\ UNCHANGED <<entries, objects, used, holders, blind>>
  BY <1>1 DEF UpdateImage, Begin
<1>3. w.stage = "patch" /\ w.src = i /\ w.image = k /\ w.old = old
  BY DEF Idle
<1>4. /\ overlapped \subseteq overlapped'
      /\ \A g \in Handlers \ {h} : Changing(worker[g]) /\ worker[g].src = i
            => i \in overlapped'
  BY DEF UpdateImage, Changing
<1>5. worker'[h] = w /\ \A g \in Handlers \ {h} : worker'[g] = worker[g]
  BY <1>2 DEF JournalInv, TypeOK
<1> HIDE DEF w
<1>6. Grows /\ HoldersUsed'
  BY <1>2, <1>4 DEF Grows, ImageInv, HoldersUsed
<1>7. i \in used /\ Given(i, old) /\ Stored(i, old) /\ Stored(i, k)
      /\ old \in Keys \cup {None}
  BY <1>1, <1>2, ImagesAreKeys DEF ImageInv, EntrySafe, Stored, Verified
<1>8. \A j \in Ids, n \in Keys \cup {None} :
         /\ (Given(j, n) => Given(j, n)') /\ (Stored(j, n) => Stored(j, n)')
         /\ n # None /\ ~Sole(j, n) => ~Sole(j, n)'
  BY <1>6, GrownStaysSafe
<1>9. ASSUME NEW j \in Ids PROVE EntrySafe(j)'
  <2>1. PICK n : n = entries[j].image
    OBVIOUS
  <2>2. There(j) => /\ n \in Keys \cup {None} /\ j \in used
                    /\ Given(j, n)' /\ Stored(j, n)'
    BY <1>8, <2>1, ImagesAreKeys DEF ImageInv, EntrySafe
  <2> QED
    BY <1>2, <2>1, <2>2 DEF EntrySafe, There, Given, Stored, Sole
<1>10. ASSUME NEW g \in Handlers PROVE ChangeSafe(worker[g])'
  <2>1. CASE g = h
    <3>1. Given(i, old)' /\ Stored(i, k)' /\ i \in used'
      BY <1>2, <1>7, <1>8
    <3> QED
      BY <1>3, <1>5, <2>1, <3>1 DEF ChangeSafe, Given, Stored, Sole
  <2>2. CASE g # h /\ Changing(worker[g])
    <3>1. PICK v : v = worker[g]
      OBVIOUS
    <3>2. /\ v.src \in Ids /\ ChangeSafe(v) /\ worker'[g] = v
          /\ v.image \in Keys \cup {None} /\ v.old \in Keys \cup {None}
      BY <1>5, <2>2, <3>1, ImagesAreKeys DEF ImageInv
    <3>3. ChangeSafe(v)'
      BY <1>2, <1>4, <1>8, <3>2 DEF ChangeSafe, There
    <3> QED
      BY <3>2, <3>3 DEF ChangeSafe, Given, Stored, Sole, There, Changing
  <2>3. CASE g # h /\ ~Changing(worker[g])
    BY <1>5, <2>3 DEF ChangeSafe, Changing
  <2> QED
    BY <2>1, <2>2, <2>3
<1>11. ASSUME NEW g \in Handlers PROVE ReadSafe(worker[g])'
  BY <1>2, <1>3, <1>5 DEF ImageInv, ReadSafe, Known
<1>12. NoSecondChange'
  BY <1>3, <1>4, <1>5 DEF ImageInv, NoSecondChange
<1> QED
  BY <1>6, <1>9, <1>10, <1>11, <1>12 DEF ImageInv

LEMMA PatchSafe ==
    ASSUME JournalInv, ImageInv, NEW h \in Handlers, Patch(h)
    PROVE  ImageInv'
<1>0. PICK i, k, old : i = worker[h].src /\ k = worker[h].image /\ old = worker[h].old
  OBVIOUS
<1> DEFINE w == IF There(i) /\ ImageChanges(h) /\ old # None
                THEN [worker[h] EXCEPT !.stage = "unstore"] ELSE Idle
<1>1. /\ worker[h] \in Worker /\ worker[h].stage = "patch" /\ i \in Ids
      /\ ChangeSafe(worker[h]) /\ Changing(worker[h])
      /\ k \in Keys \cup {None} /\ old \in Keys \cup {None}
  BY <1>0, ImagesAreKeys DEF Patch, At, JournalInv, WorkersKnow, ImageInv, Changing
<1>2. worker' = [worker EXCEPT ![h] = w]
  BY <1>0 DEF Patch, Proceed, Answer, Begin, JournalInv, TypeOK
<1>3. /\ UNCHANGED <<objects, used, blind, overlapped>>
      /\ entries' = IF There(i) THEN [entries EXCEPT ![i].image = k] ELSE entries
      /\ holders' = IF There(i) THEN Held(i, k) ELSE holders
  BY <1>0 DEF Patch
<1>4. \/ w = Idle
      \/ /\ There(i) /\ old # k /\ old # None /\ w.stage = "unstore"
         /\ w.src = i /\ w.image = k /\ w.old = old
  BY <1>0, <1>1 DEF ImageChanges, Worker
<1>5. worker'[h] = w /\ \A g \in Handlers \ {h} : worker'[g] = worker[g]
  BY <1>2 DEF JournalInv, TypeOK
<1>6. ~Changing(Idle) /\ ReadSafe(Idle)
  BY IdleKnows DEF Changing, ReadSafe
<1> HIDE DEF w
<1>7. /\ \A j \in Ids : There(j)' <=> There(j)
      /\ \A j \in Ids : There(j) =>
            entries'[j].image = IF j = i THEN k ELSE entries[j].image
  <2>1. There(i) => entries[i] \in Entry
    BY <1>1 DEF There, JournalInv, TypeOK
  <2>2. There(i) => /\ [entries[i] EXCEPT !.image = k] \in Entry
                    /\ [entries[i] EXCEPT !.image = k].image = k
    BY <1>1, <2>1 DEF Entry
  <2>3. entries \in [Ids -> Entry \cup {None}]
    BY DEF JournalInv, TypeOK
  <2> QED
    BY <1>1, <1>3, <2>2, <2>3, DocumentsAssumption DEF There
<1>8. /\ \A n \in Keys : holders[n] \subseteq holders'[n]
      /\ \A n \in Keys : holders'[n] \subseteq holders[n] \cup {i}
      /\ There(i) /\ k # None => i \in holders'[k]
  BY <1>1, <1>3, HeldGrows DEF JournalInv, TypeOK
<1>9. Grows
  BY <1>3, <1>8 DEF Grows
<1>10. i \in used /\ (There(i) => Given(i, k)') /\ Stored(i, k) /\ Given(i, old)
  BY <1>0, <1>1, <1>8 DEF ChangeSafe, Given
<1>11. HoldersUsed'
  BY <1>3, <1>8, <1>10 DEF HoldersUsed, ImageInv
<1>12. \A j \in Ids, n \in Keys \cup {None} :
          /\ (Given(j, n) => Given(j, n)') /\ (Stored(j, n) => Stored(j, n)')
          /\ n # None /\ ~Sole(j, n) => ~Sole(j, n)'
  BY <1>9, GrownStaysSafe
<1>13. ASSUME NEW j \in Ids PROVE EntrySafe(j)'
  <2>1. CASE j = i
    <3>1. There(i) => Given(i, k)' /\ Stored(i, k)' /\ entries'[i].image = k
      BY <1>1, <1>7, <1>10, <1>12
    <3> QED
      BY <1>3, <1>7, <1>10, <2>1, <3>1 DEF EntrySafe, Given, Stored, Sole
  <2>2. CASE j # i
    <3>1. PICK n : n = entries[j].image
      OBVIOUS
    <3>2. There(j) => /\ j \in used /\ Given(j, n)' /\ Stored(j, n)'
                      /\ entries'[j].image = n
      BY <1>7, <1>12, <2>2, <3>1, ImagesAreKeys DEF ImageInv, EntrySafe
    <3> QED
      BY <1>3, <1>7, <3>2 DEF EntrySafe, Given, Stored, Sole
  <2> QED
    BY <2>1, <2>2
<1>14. ASSUME NEW g \in Handlers PROVE ChangeSafe(worker[g])'
  <2>1. CASE g = h
    <3>1. CASE w = Idle
      BY <1>5, <1>6, <2>1, <3>1 DEF ChangeSafe
    <3>2. CASE w # Idle
      <4>1. Given(i, old)' /\ i \in used'
        BY <1>1, <1>3, <1>10, <1>12
      <4> QED
        BY <1>4, <1>5, <1>1, <1>7, <2>1, <3>2, <4>1 DEF ChangeSafe, Given
    <3> QED
      BY <3>1, <3>2
  <2>2. CASE g # h /\ Changing(worker[g])
    <3>1. PICK v : v = worker[g]
      OBVIOUS
    <3>2. /\ v.src \in Ids /\ ChangeSafe(v) /\ worker'[g] = v
          /\ v.image \in Keys \cup {None} /\ v.old \in Keys \cup {None}
      BY <1>5, <2>2, <3>1, ImagesAreKeys DEF ImageInv
    <3>3. v.src = i => i \in overlapped
      BY <1>0, <1>1, <2>2, <3>1 DEF ImageInv, NoSecondChange
    <3>4. ChangeSafe(v)'
      BY <1>3, <1>7, <1>12, <3>2, <3>3 DEF ChangeSafe
    <3> QED
      BY <3>2, <3>4 DEF ChangeSafe, Given, Stored, Sole, There, Changing
  <2>3. CASE g # h /\ ~Changing(worker[g])
    BY <1>5, <2>3 DEF ChangeSafe, Changing
  <2> QED
    BY <2>1, <2>2, <2>3
<1>15. ASSUME NEW g \in Handlers PROVE ReadSafe(worker[g])'
  <2>1. PICK v : v = worker'[g]
    OBVIOUS
  <2>2. ReadSafe(v)
    BY <1>4, <1>5, <1>6, <2>1 DEF ImageInv, ReadSafe
  <2> QED
    BY <1>8, <2>1, <2>2 DEF ReadSafe, Known
<1>16. NoSecondChange'
  BY <1>0, <1>1, <1>3, <1>4, <1>5, <1>6 DEF ImageInv, NoSecondChange
<1> QED
  BY <1>11, <1>13, <1>14, <1>15, <1>16 DEF ImageInv

LEMMA DeleteImageSafe ==
    ASSUME JournalInv, ImageInv, NEW h \in Handlers, DeleteImage(h)
    PROVE  ImageInv'
<1>0. PICK i, k : i = worker[h].src /\ k = worker[h].old
  OBVIOUS
<1>1. /\ worker[h].stage = "unstore" /\ Changing(worker[h]) /\ i \in Ids
      /\ i \in used /\ i \in holders[k] /\ k \in Keys
      /\ There(i) /\ entries[i].image = k => ~Sole(i, k) \/ i \in overlapped
  BY <1>0, ImagesAreKeys DEF DeleteImage, At, ImageInv, ChangeSafe, Changing, Given
<1>2. /\ objects' = objects \ {k} /\ worker' = [worker EXCEPT ![h] = Idle]
      /\ UNCHANGED <<entries, used, holders, blind, overlapped>>
  BY <1>0 DEF DeleteImage, Answer, Begin
<1>3. worker'[h] = Idle /\ \A g \in Handlers \ {h} : worker'[g] = worker[g]
  BY <1>2 DEF JournalInv, TypeOK
<1>4. ~Changing(Idle) /\ ReadSafe(Idle)
  BY IdleKnows DEF Changing, ReadSafe
\* Nobody else is the only one to have been given the image.
<1>5. \A j \in Ids \ {i} : ~Sole(j, k)
  BY <1>1 DEF Sole
<1>6. \A n : \A j \in Ids : (Given(j, n)' <=> Given(j, n)) /\ (Sole(j, n)' <=> Sole(j, n))
  BY <1>2 DEF Given, Sole
<1>7. \A n : \A j \in Ids : Stored(j, n) /\ n # k => Stored(j, n)'
  BY <1>2, <1>6 DEF Stored
<1>8. \A j \in Ids : ~Sole(j, k) \/ j \in overlapped => Stored(j, k)'
  BY <1>2, <1>6 DEF Stored
<1>9. ASSUME NEW j \in Ids PROVE EntrySafe(j)'
  <2>1. PICK n : n = entries[j].image
    OBVIOUS
  <2>2. There(j) => j \in used /\ Given(j, n)' /\ Stored(j, n)'
    BY <1>1, <1>5, <1>6, <1>7, <1>8, <2>1 DEF ImageInv, EntrySafe
  <2> QED
    BY <1>2, <2>1, <2>2 DEF EntrySafe, There, Given, Stored, Sole
<1>10. ASSUME NEW g \in Handlers PROVE ChangeSafe(worker[g])'
  <2>1. CASE g # h /\ Changing(worker[g])
    <3>1. PICK v : v = worker[g]
      OBVIOUS
    <3>2. v.src \in Ids /\ ChangeSafe(v) /\ worker'[g] = v
      BY <1>3, <2>1, <3>1, ImagesAreKeys DEF ImageInv
    <3>3. v.src = i => i \in overlapped
      BY <1>0, <1>1, <2>1, <3>1 DEF ImageInv, NoSecondChange
    <3>4. ChangeSafe(v)'
      BY <1>2, <1>5, <1>6, <1>7, <1>8, <3>2, <3>3 DEF ChangeSafe, There
    <3> QED
      BY <3>2, <3>4 DEF ChangeSafe, Given, Stored, Sole, There, Changing
  <2>2. CASE g = h \/ ~Changing(worker[g])
    BY <1>3, <1>4, <2>2 DEF ChangeSafe
  <2> QED
    BY <2>1, <2>2
<1>11. ASSUME NEW g \in Handlers PROVE ReadSafe(worker[g])'
  <2>1. PICK v : v = worker'[g]
    OBVIOUS
  <2>2. ReadSafe(v)
    BY <1>3, <1>4, <2>1 DEF ImageInv
  <2>3. ReadSafe(v)'
    BY <1>2, <2>2 DEF ReadSafe, Known
  <2> QED
    BY <2>1, <2>3 DEF ReadSafe, Known
<1>12. NoSecondChange'
  BY <1>2, <1>3, <1>4 DEF ImageInv, NoSecondChange
<1>13. HoldersUsed'
  BY <1>2 DEF ImageInv, HoldersUsed
<1> QED
  BY <1>9, <1>10, <1>11, <1>12, <1>13 DEF ImageInv

\* A step of one handler that changes no image; it may store one entry.
LEMMA HandlerChangesNone ==
    ASSUME JournalInv, ImageInv, NEW h \in Handlers, NEW w, ~Changing(w), ReadSafe(w),
           worker' = [worker EXCEPT ![h] = w], Grows, HoldersUsed',
           \A i \in Ids : entries'[i] # None =>
               \/ entries'[i] = entries[i]
               \/ /\ i \notin used /\ i \in used'
                  /\ \E k : k = entries'[i].image /\ Given(i, k)' /\ Stored(i, k)'
    PROVE  ImageInv'
<1>1. \A g \in Handlers : \/ worker'[g] = worker[g]
                          \/ ~Changing(worker'[g]) /\ ReadSafe(worker'[g])
  BY DEF JournalInv, TypeOK
<1> QED
  BY <1>1, ImagesUntouched

\* Somebody was given the image a clone shows, or it shows none.
LEMMA CloneSafe ==
    ASSUME JournalInv, ImageInv, NEW h \in Handlers, NEW i \in Ids, NEW from, NEW link,
           NEW k, Known(k), Clone(h, i, from, link, k),
           NEW w, ~Changing(w), ReadSafe(w), Begin(h, w)
    PROVE  ImageInv'
<1> DEFINE e == [owner |-> worker[h].to, link |-> link, image |-> k, from |-> from,
                 open |-> FALSE]
<1>1. /\ i \notin used /\ used' = used \cup {i} /\ entries' = [entries EXCEPT ![i] = e]
      /\ holders' = Held(i, k)
      /\ UNCHANGED <<objects, blind, overlapped>>
  BY DEF Clone, NewId
<1>2. e.image = k
  OBVIOUS
<1> HIDE DEF e
<1>3. /\ \A n \in Keys : holders[n] \subseteq holders'[n]
      /\ \A n \in Keys : holders'[n] \subseteq holders[n] \cup {i}
      /\ k # None => k \in Keys /\ i \in holders'[k]
  BY <1>1, HeldGrows DEF JournalInv, TypeOK, Known
<1>4. Grows /\ HoldersUsed'
  BY <1>1, <1>3 DEF Grows, HoldersUsed, ImageInv
<1>5. k # None => \E j : j \in holders[k] /\ j # i
  BY <1>1, ElsewhereAssumption DEF Known, ImageInv, HoldersUsed
<1>6. Given(i, k)' /\ Stored(i, k)'
  BY <1>3, <1>5 DEF Given, Stored, Sole
<1>7. \A j \in Ids : entries'[j] = IF j = i THEN e ELSE entries[j]
  BY <1>1 DEF JournalInv, TypeOK
<1> QED
  BY <1>1, <1>2, <1>4, <1>6, <1>7, HandlerChangesNone DEF Begin

LEMMA SameHoldersGrow ==
    ASSUME ImageInv, used \subseteq used',
           UNCHANGED <<objects, holders, blind, overlapped>>
    PROVE  Grows /\ HoldersUsed'
BY DEF Grows, HoldersUsed, ImageInv

\* Reads, answers and pins: no image and no entry is touched.
LEMMA NoEntrySafe ==
    ASSUME JournalInv, ImageInv, NEW h \in Handlers, NEW w, Begin(h, w), ~Changing(w),
           ReadSafe(w), used \subseteq used',
           UNCHANGED <<entries, objects, holders, blind, overlapped>>
    PROVE  ImageInv'
BY HandlerChangesNone, SameHoldersGrow DEF Begin

LEMMA IdleChangesNothing == ~Changing(Idle) /\ ReadSafe(Idle)
BY IdleKnows DEF Changing, ReadSafe

LEMMA ProceedBegins ==
    ASSUME JournalInv, ImageInv, NEW h \in Handlers,
           NEW stage \in {"clone", "clone_pin", "sweep"}, Proceed(h, stage),
           stage = "clone" => At(h, "link")
    PROVE  \E w : Begin(h, w) /\ ~Changing(w) /\ ReadSafe(w)
<1> DEFINE w == [worker[h] EXCEPT !.stage = stage]
<1>1. w.stage = stage /\ w.image = worker[h].image
  BY DEF JournalInv, WorkersKnow, Worker
<1>2. worker' = [worker EXCEPT ![h] = w]
  BY DEF Proceed, JournalInv, TypeOK
<1>3. stage = "clone" => Known(worker[h].image)
  BY DEF ImageInv, ReadSafe, At
<1> HIDE DEF w
<1> QED
  BY <1>1, <1>2, <1>3 DEF Begin, Changing, ReadSafe

\* An image some entry shows was given to that entry.
LEMMA ShownIsKnown ==
    ASSUME JournalInv, ImageInv, NEW i \in Ids, There(i)
    PROVE  Known(entries[i].image)
<1>1. PICK k : k = entries[i].image
  OBVIOUS
<1>2. k \in Keys \cup {None} /\ Given(i, k)
  BY <1>1, ImagesAreKeys DEF ImageInv, EntrySafe
<1>3. Known(k)
  BY <1>2 DEF Given, Known
<1> QED
  BY <1>1, <1>3

LEMMA RequestSafe ==
    ASSUME JournalInv, ImageInv, NEW h \in Handlers, Request(h)
    PROVE  ImageInv'
<1>1. CASE \E i \in Ids, k \in Keys \cup {None} : UpdateImage(h, i, k)
  BY <1>1, UpdateImageSafe
<1>2. CASE \E i \in Ids : Delete(h, i)
  <2>1. PICK i \in Ids : Delete(h, i)
    BY <1>2
  <2> DEFINE w == [Idle EXCEPT !.stage = "delete", !.src = i]
  <2>2. ~Changing(w) /\ ReadSafe(w)
    BY DEF Idle, Changing, ReadSafe
  <2> HIDE DEF w
  <2> QED
    BY <2>1, <2>2, NoEntrySafe DEF Delete, OnlyReads, w
<1>3. CASE \E i \in Ids, q \in Players : CreatePin(h, q, i)
  <2>1. PICK i \in Ids, q \in Players : CreatePin(h, q, i)
    BY <1>3
  <2> DEFINE w == [Idle EXCEPT !.stage = "place", !.to = q, !.entity = i]
  <2>2. ~Changing(w) /\ ReadSafe(w)
    BY DEF Idle, Changing, ReadSafe
  <2> HIDE DEF w
  <2> QED
    BY <2>1, <2>2, NoEntrySafe DEF CreatePin, OnlyReads, w
<1>4. CASE \E i \in Ids, q \in Players, cascade \in BOOLEAN, x \in PinIds \cup {None} :
               Share(h, i, q, cascade, x)
  <2>1. PICK i \in Ids, q \in Players, cascade \in BOOLEAN, x \in PinIds \cup {None} :
                 Share(h, i, q, cascade, x)
    BY <1>4
  <2> DEFINE w == [Idle EXCEPT !.stage = IF cascade /\ entries[i].link # None
                                         THEN "link" ELSE "clone",
                               !.src = i, !.to = q, !.entity = entries[i].link,
                               !.image = entries[i].image, !.pin = x]
  <2>2. Known(entries[i].image)
    BY <2>1, ShownIsKnown DEF Share
  <2>3. ~Changing(w) /\ ReadSafe(w)
    BY <2>2 DEF Idle, Changing, ReadSafe
  <2> HIDE DEF w
  <2> QED
    BY <2>1, <2>3, NoEntrySafe DEF Share, OnlyReads, w
<1>5. CASE \E x \in PinIds, q \in Players, cascade \in BOOLEAN : SharePin(h, x, q, cascade)
  <2>1. PICK x \in PinIds, q \in Players, cascade \in BOOLEAN : SharePin(h, x, q, cascade)
    BY <1>5
  <2> DEFINE w == [Idle EXCEPT !.stage = IF cascade THEN "link" ELSE "clone_pin",
                               !.to = q, !.entity = pins[x].entity, !.pin = x]
  <2>2. w.stage \in {"link", "clone_pin"} /\ w.image = None
    BY DEF Idle
  <2>3. ~Changing(w) /\ ReadSafe(w)
    BY <2>2 DEF Changing, ReadSafe, Known
  <2> HIDE DEF w
  <2> QED
    BY <2>1, <2>3, NoEntrySafe DEF SharePin, OnlyReads, w
<1> QED
  BY <1>1, <1>2, <1>3, <1>4, <1>5 DEF Request

LEMMA WorkSafe ==
    ASSUME JournalInv, ImageInv, NEW h \in Handlers, Work(h)
    PROVE  ImageInv'
<1>0. ReadSafe(worker[h]) /\ worker[h] \in Worker
  BY DEF ImageInv, JournalInv, WorkersKnow
<1>1. CASE Patch(h) \/ DeleteImage(h)
  BY <1>1, PatchSafe, DeleteImageSafe
<1>2. CASE DeleteEntry(h)
  <2>1. PICK w : Begin(h, w) /\ ~Changing(w) /\ ReadSafe(w)
    BY <1>2, ProceedBegins DEF DeleteEntry
  <2>2. /\ UNCHANGED <<objects, used, holders, blind, overlapped>>
        /\ entries' = [entries EXCEPT ![worker[h].src] = None]
    BY <1>2 DEF DeleteEntry
  <2>3. \A i \in Ids : entries'[i] # None => entries'[i] = entries[i]
    BY <2>2 DEF JournalInv, TypeOK
  <2> QED
    BY <2>1, <2>2, <2>3, SameHoldersGrow, HandlerChangesNone DEF Begin
<1>3. CASE DeleteByEntity(h) \/ Abort(h)
  BY <1>3, NoEntrySafe, IdleChangesNothing DEF DeleteByEntity, Abort, Answer
<1>4. CASE FindLinked(h)
  <2> DEFINE w == worker[h]
             s == w.entity
             next == IF w.src = None THEN "clone_pin" ELSE "clone"
  <2>1. w \in Worker /\ w.stage = "link" /\ s \in Ids
        /\ next \in {"clone", "clone_pin", "sweep"}
        /\ Known(w.image)
    BY <1>0, <1>4 DEF JournalInv, WorkersKnow, Knows, FindLinked, At, ReadSafe
  <2>2. \A c : ~Changing([w EXCEPT !.stage = next, !.entity = c])
               /\ ReadSafe([w EXCEPT !.stage = next, !.entity = c])
    BY <2>1 DEF Worker, Changing, ReadSafe
  <2>3. \A l, k : Known(k) =>
            /\ ~Changing([w EXCEPT !.stage = "copy", !.partLink = l, !.partImage = k])
            /\ ReadSafe([w EXCEPT !.stage = "copy", !.partLink = l, !.partImage = k])
    BY <2>1 DEF Worker, Changing, ReadSafe
  <2>4. There(s) => Known(entries[s].image)
    BY <2>1, ShownIsKnown
  <2>5. \E v : Begin(h, v) /\ ~Changing(v) /\ ReadSafe(v)
    BY <1>4, <2>1, <2>2, <2>3, <2>4, ProceedBegins DEF FindLinked
  <2> QED
    BY <1>4, <2>5, NoEntrySafe DEF FindLinked, OnlyReads
<1>5. CASE FindPin(h)
  <2>1. \E v : Begin(h, v) /\ ~Changing(v) /\ ReadSafe(v)
    BY <1>5, ProceedBegins, IdleChangesNothing DEF FindPin, Answer
  <2> QED
    BY <1>5, <2>1, NoEntrySafe DEF FindPin, OnlyReads
<1>6. ASSUME NEW i \in Ids, CloneLinked(h, i) PROVE ImageInv'
  <2> DEFINE w == [worker[h] EXCEPT
                      !.stage = IF worker[h].src = None THEN "clone_pin" ELSE "clone",
                      !.entity = i, !.partLink = None, !.partImage = None]
  <2>1. Known(worker[h].partImage) /\ Known(worker[h].image)
    BY <1>0, <1>6 DEF CloneLinked, At, ReadSafe
  <2>2. ~Changing(w) /\ ReadSafe(w)
    BY <1>0, <2>1 DEF Worker, Changing, ReadSafe
  <2> HIDE DEF w
  <2> QED
    BY <1>6, <2>1, <2>2, CloneSafe DEF CloneLinked, w
<1>7. ASSUME NEW i \in Ids, CloneEntry(h, i) PROVE ImageInv'
  <2> DEFINE w == [worker[h] EXCEPT !.stage = "pins", !.entity = i, !.image = None]
  <2>1. ~Changing(w) /\ ReadSafe(w)
    BY <1>0 DEF Worker, Changing, ReadSafe
  <2>2. Known(worker[h].image)
    BY <1>0, <1>7 DEF CloneEntry, At, ReadSafe
  <2> QED
    BY <1>7, <2>1, <2>2, CloneSafe, IdleChangesNothing DEF CloneEntry, Answer
<1>8. ASSUME NEW x \in PinIds, PlacePin(h, x) \/ ClonePin(h, x) PROVE ImageInv'
  BY <1>8, NoEntrySafe, IdleChangesNothing DEF PlacePin, ClonePin, Insert, Answer
<1> QED
  BY <1>1, <1>2, <1>3, <1>4, <1>5, <1>6, <1>7, <1>8 DEF Work

\* A new entry shows an image that is stored, or counts as created blind.
LEMMA CreateSafe ==
    ASSUME JournalInv, ImageInv, NEW p \in Players, NEW i \in Ids,
           NEW link \in Ids \cup {None}, NEW k \in Keys \cup {None},
           CreateEntry(p, i, link, k)
    PROVE  ImageInv'
<1> DEFINE e == [owner |-> p, link |-> link, image |-> k, from |-> None, open |-> FALSE]
<1>1. /\ i \notin used /\ used' = used \cup {i} /\ entries' = [entries EXCEPT ![i] = e]
      /\ holders' = Held(i, k)
      /\ blind' = IF k \in objects \cup {None} THEN blind ELSE blind \cup {<<i, k>>}
      /\ UNCHANGED <<objects, overlapped, worker>>
  BY DEF CreateEntry, NewId
<1>2. e.image = k
  OBVIOUS
<1> HIDE DEF e
<1>3. \A j \in Ids : entries'[j] = IF j = i THEN e ELSE entries[j]
  BY <1>1 DEF JournalInv, TypeOK
<1>4. /\ \A n \in Keys : holders[n] \subseteq holders'[n]
      /\ \A n \in Keys : holders'[n] \subseteq holders[n] \cup {i}
      /\ k # None => i \in holders'[k]
  BY <1>1, HeldGrows DEF JournalInv, TypeOK
<1>5. Grows /\ HoldersUsed'
  BY <1>1, <1>4 DEF Grows, HoldersUsed, ImageInv
<1>6. Given(i, k)' /\ Stored(i, k)'
  BY <1>1, <1>4 DEF Given, Stored
<1> QED
  BY <1>1, <1>2, <1>3, <1>5, <1>6, ImagesUntouched

LEMMA SetVisibilitySafe ==
    ASSUME JournalInv, ImageInv, NEW i \in Ids, NEW open \in BOOLEAN, SetVisibility(i, open)
    PROVE  ImageInv'
<1>1. entries[i] \in Entry /\ entries' = [entries EXCEPT ![i].open = open]
      /\ UNCHANGED <<objects, used, holders, blind, overlapped, worker>>
  BY DEF SetVisibility, There, JournalInv, TypeOK
<1>2. [entries[i] EXCEPT !.open = open].image = entries[i].image
  BY <1>1 DEF Entry
<1>3. \A j \in Ids : entries'[j] # None =>
          entries[j] # None /\ entries'[j].image = entries[j].image
  BY <1>1, <1>2, DocumentsAssumption DEF JournalInv, TypeOK
<1> QED
  BY <1>1, <1>3, SameHoldersGrow, ImagesUntouched

\* Uploads add images; what else deletes one, a document that is no entry had.
LEMMA ObjectsSafe ==
    ASSUME JournalInv, ImageInv, NEW k \in Keys, Upload(k) \/ DeleteElsewhere(k)
    PROVE  ImageInv'
<1>1. UNCHANGED <<entries, worker, used, blind, overlapped>>
  BY DEF Upload, DeleteElsewhere
<1>2. Grows /\ HoldersUsed'
  <2>1. CASE Upload(k)
    BY <2>1 DEF Upload, Grows, HoldersUsed, ImageInv
  <2>2. CASE DeleteElsewhere(k)
    <3>1. /\ objects' = objects \ {k} /\ holders' = Held(Elsewhere, k)
          /\ UNCHANGED <<used, blind, overlapped>>
      BY <2>2 DEF DeleteElsewhere
    <3>2. /\ \A n \in Keys : holders[n] \subseteq holders'[n]
          /\ \A n \in Keys : holders'[n] \subseteq holders[n] \cup {Elsewhere}
          /\ Elsewhere \in holders'[k]
      BY <3>1, HeldGrows, NoneAssumption DEF JournalInv, TypeOK
    <3> QED
      BY <3>1, <3>2 DEF Grows, HoldersUsed, ImageInv
  <2> QED
    BY <2>1, <2>2
<1> QED
  BY <1>1, <1>2, ImagesUntouched

LEMMA ImageStep == JournalInv /\ ImageInv /\ [Next]_vars => ImageInv'
<1> SUFFICES ASSUME JournalInv, ImageInv, [Next]_vars PROVE ImageInv'
  OBVIOUS
<1>1. CASE UNCHANGED vars
  BY <1>1, SameHoldersGrow, ImagesUntouched DEF vars
<1>2. CASE \E x \in PinIds : DeletePin(x)
  BY <1>2, SameHoldersGrow, ImagesUntouched DEF DeletePin
<1> QED
  BY <1>1, <1>2, RequestSafe, WorkSafe, CreateSafe, SetVisibilitySafe, ObjectsSafe DEF Next

LEMMA ImageStart == Init => ImageInv
<1> SUFFICES ASSUME Init PROVE ImageInv
  OBVIOUS
<1>1. PICK s \in Scenarios :
         /\ entries = s.entries /\ used = s.used /\ objects = s.objects
         /\ holders = [k \in Keys |-> {i \in Ids : s.entries[i] # None
                                                   /\ s.entries[i].image = k}]
  BY DEF Init
<1>2. worker = [h \in Handlers |-> Idle]
  BY DEF Init
<1>3. /\ \A i \in Ids : s.entries[i] # None =>
             i \in s.used /\ s.entries[i].image \in s.objects \cup {None}
      /\ s.objects \subseteq Keys
  BY ScenariosAssumption
<1>4. ASSUME NEW i \in Ids PROVE EntrySafe(i)
  <2>1. PICK k : k = entries[i].image
    OBVIOUS
  <2>2. There(i) => i \in used /\ Given(i, k) /\ Stored(i, k)
    BY <1>1, <1>3, <2>1 DEF There, Given, Stored
  <2> QED
    BY <2>1, <2>2 DEF EntrySafe
<1>5. HoldersUsed
  BY <1>1, <1>3 DEF HoldersUsed
<1> QED
  BY <1>2, <1>4, <1>5, IdleChangesNothing DEF ImageInv, ChangeSafe, NoSecondChange

\* Whatever keys requests name, and whatever overlaps or fails, an image that
\* is an entry's own stays stored as long as the entry shows it (Update and its
\* deletion of the image it read), but for an image that was not there when the
\* entry was created and for overlapping changes of the entry's image.
THEOREM ImagesStay == Spec => []ImagesStayStored
<1>1. ImageInv => ImagesStayStored
  BY DEF ImageInv, EntrySafe, Stored, ImagesStayStored
<1>2. JournalInv /\ ImageInv /\ [Next]_vars => (JournalInv /\ ImageInv)'
  BY JournalStep, ImageStep
<1> QED
  BY <1>1, <1>2, JournalStart, ImageStart, PTL DEF Spec

-----------------------------------------------------------------------------
(***************************************************************************)
(* One clone for each player.  As long as no two requests looked for the   *)
(* same clone before either made it, at most one handler seeks it, and     *)
(* only while there is none.  That a request is about two clones, that of  *)
(* an entry and that of its link, and never of the same one, takes the     *)
(* kinds: what is linked is of the other kind, what is cloned of the same. *)
(***************************************************************************)
Seeks(w, s, q) ==
    /\ w.to = q
    /\ \/ w.stage \in {"link", "copy", "clone"} /\ w.src = s
       \/ w.stage = "copy" /\ w.entity = s
       \/ w.stage \in {"link", "copy"} /\ w.src = None /\ w.pin = s
       \/ w.stage = "clone_pin" /\ w.pin = s

Made(s, q) == IF s \in Ids THEN ClonesOf(s, q) ELSE PinClonesOf(s, q)

Once(made, seekers, known) ==
    ~known => /\ \A x, y \in made : x = y
              /\ \A g, h \in seekers : g = h
              /\ seekers # {} => made = {}

KindKept(e, i) ==
    /\ e.link # None => ~SameKind(i, e.link)
    /\ e.from # None => SameKind(i, e.from)

KindsKnown(w) ==
    /\ w.stage \in {"link", "copy", "clone"} /\ w.src # None /\ w.entity # None
          => ~SameKind(w.src, w.entity)
    /\ w.stage = "copy" /\ w.partLink # None => ~SameKind(w.entity, w.partLink)
    /\ \/ w.stage = "clone_pin"
       \/ w.stage \in {"link", "copy"} /\ w.src = None
       => w.pin \in PinIds

KindsInv ==
    /\ \A i \in Ids : There(i) => KindKept(entries[i], i)
    /\ \A h \in Handlers : KindsKnown(worker[h])

OnceInv ==
    \A s \in Ids \cup PinIds, q \in Players :
        Once(Made(s, q), Seeking(s, q), <<s, q>> \in raced)

CloneInv == KindsInv /\ OnceInv

LEMMA SeekingIsSeeks ==
    ASSUME NEW s, NEW q
    PROVE  Seeking(s, q) = {g \in Handlers : Seeks(worker[g], s, q)}
BY DEF Seeking, Seeks

\* What one handler's step does to the seekers of a clone.
LEMMA SeekersOfStep ==
    ASSUME worker \in [Handlers -> Worker], NEW h \in Handlers, NEW w,
           worker' = [worker EXCEPT ![h] = w], NEW s, NEW q
    PROVE  /\ Seeking(s, q)' \subseteq Seeking(s, q) \cup {h}
           /\ ~Seeks(w, s, q) => Seeking(s, q)' \subseteq Seeking(s, q) \ {h}
           /\ (Seeks(w, s, q) => Seeks(worker[h], s, q))
                 => Seeking(s, q)' \subseteq Seeking(s, q)
<1>1. Seeking(s, q)' = {g \in Handlers : Seeks(worker'[g], s, q)}
  BY DEF Seeking, Seeks
<1>2. \A g \in Handlers : worker'[g] = IF g = h THEN w ELSE worker[g]
  OBVIOUS
<1> QED
  BY <1>1, <1>2, SeekingIsSeeks

\* No clone is new when every document that was not there before is no clone.
NoNewClones ==
    /\ \A i \in Ids : entries'[i] # None =>
          \/ entries'[i].from = None
          \/ /\ entries[i] # None /\ entries'[i].from = entries[i].from
             /\ entries'[i].owner = entries[i].owner
    /\ \A x \in PinIds : pins'[x] # None => pins'[x].from = None \/ pins'[x] = pins[x]

LEMMA MadeShrinks ==
    ASSUME NoNewClones, NEW s \in Ids \cup PinIds, NEW q
    PROVE  Made(s, q)' \subseteq Made(s, q)
<1>1. s # None
  BY NoneAssumption
<1> QED
  BY <1>1 DEF NoNewClones, Made, ClonesOf, PinClonesOf, There, Pinned

\* A step that makes no clone and takes up none.
LEMMA QuietOnce ==
    ASSUME JournalInv, OnceInv, NoNewClones, raced \subseteq raced',
           \/ worker' = worker
           \/ \E h \in Handlers : \E w :
                 /\ worker' = [worker EXCEPT ![h] = w]
                 /\ \A s \in Ids \cup PinIds, q \in Players :
                       Seeks(w, s, q) => Seeks(worker[h], s, q)
    PROVE  OnceInv'
<1> SUFFICES ASSUME NEW s \in Ids \cup PinIds, NEW q \in Players
             PROVE  Once(Made(s, q), Seeking(s, q), <<s, q>> \in raced)'
  BY DEF OnceInv
<1>1. Seeking(s, q)' \subseteq Seeking(s, q)
  BY SeekersOfStep DEF JournalInv, TypeOK, Seeking
<1>2. Once(Made(s, q), Seeking(s, q), <<s, q>> \in raced)
  BY DEF OnceInv
<1>3. Made(s, q)' \in SUBSET Made(s, q) /\ Seeking(s, q)' \in SUBSET Seeking(s, q)
  BY <1>1, MadeShrinks
<1> QED
  BY <1>2, <1>3 DEF Once

\* A step that looks for a clone, finds none and takes it up.
LEMMA SoughtOnce ==
    ASSUME JournalInv, OnceInv, NEW h \in Handlers, NEW w,
           worker' = [worker EXCEPT ![h] = w],
           UNCHANGED <<entries, pins>>,
           NEW s0 \in Ids \cup PinIds, NEW q0 \in Players,
           Made(s0, q0) = {}, Sought(h, s0, q0),
           \A s \in Ids \cup PinIds, q \in Players :
               Seeks(w, s, q) => Seeks(worker[h], s, q) \/ (s = s0 /\ q = q0)
    PROVE  OnceInv'
<1> SUFFICES ASSUME NEW s \in Ids \cup PinIds, NEW q \in Players
             PROVE  Once(Made(s, q), Seeking(s, q), <<s, q>> \in raced)'
  BY DEF OnceInv
<1>1. Made(s, q)' = Made(s, q)
  BY DEF Made, ClonesOf, PinClonesOf, There, Pinned
<1>2. /\ Seeking(s, q)' \subseteq Seeking(s, q) \cup {h}
      /\ s # s0 \/ q # q0 => Seeking(s, q)' \subseteq Seeking(s, q)
  BY SeekersOfStep DEF JournalInv, TypeOK
<1>3. Once(Made(s, q), Seeking(s, q), <<s, q>> \in raced)
  BY DEF OnceInv
<1>4. /\ raced \subseteq raced'
      /\ Seeking(s0, q0) \ {h} = {} \/ <<s0, q0>> \in raced'
  BY DEF Sought
<1>5. CASE s = s0 /\ q = q0
  BY <1>1, <1>2, <1>4, <1>5 DEF Once
<1>6. CASE ~(s = s0 /\ q = q0)
  BY <1>1, <1>2, <1>3, <1>4, <1>6 DEF Once
<1> QED
  BY <1>5, <1>6

\* A step that makes the clone it has sought, and seeks it no more.
LEMMA MadeOnce ==
    ASSUME JournalInv, OnceInv, NEW h \in Handlers, NEW w,
           worker' = [worker EXCEPT ![h] = w],
           raced' = raced,
           NEW s0 \in Ids \cup PinIds, NEW q0 \in Players, NEW d,
           \A s \in Ids \cup PinIds, q \in Players :
               Made(s, q)' \subseteq Made(s, q) \cup
                                     (IF s = s0 /\ q = q0 THEN {d} ELSE {}),
           Seeks(worker[h], s0, q0), ~Seeks(w, s0, q0),
           \A s \in Ids \cup PinIds, q \in Players :
               Seeks(w, s, q) => Seeks(worker[h], s, q)
    PROVE  OnceInv'
<1> SUFFICES ASSUME NEW s \in Ids \cup PinIds, NEW q \in Players
             PROVE  Once(Made(s, q), Seeking(s, q), <<s, q>> \in raced)'
  BY DEF OnceInv
<1>1. Made(s, q)' \subseteq Made(s, q) \cup (IF s = s0 /\ q = q0 THEN {d} ELSE {})
  OBVIOUS
<1>2. /\ Seeking(s, q)' \subseteq Seeking(s, q)
      /\ s = s0 /\ q = q0 => Seeking(s, q)' \subseteq Seeking(s, q) \ {h}
  BY SeekersOfStep DEF JournalInv, TypeOK
<1>3. Once(Made(s, q), Seeking(s, q), <<s, q>> \in raced)
  BY DEF OnceInv
<1>4. h \in Seeking(s0, q0)
  BY SeekingIsSeeks
<1>5. CASE s = s0 /\ q = q0
  BY <1>1, <1>2, <1>3, <1>4, <1>5 DEF Once
<1>6. CASE ~(s = s0 /\ q = q0)
  BY <1>1, <1>2, <1>3, <1>6 DEF Once
<1> QED
  BY <1>5, <1>6

\* A clone of an entry, as it is stored.
LEMMA CloneIsMade ==
    ASSUME JournalInv, NEW h \in Handlers, NEW i \in Ids, NEW from \in Ids, NEW link,
           NEW image, Clone(h, i, from, link, image)
    PROVE  /\ raced' = raced
           /\ \A s \in Ids \cup PinIds, q \in Players :
                 Made(s, q)' \subseteq Made(s, q) \cup
                     (IF s = from /\ q = worker[h].to THEN {i} ELSE {})
<1> DEFINE e == [owner |-> worker[h].to, link |-> link, image |-> image, from |-> from,
                 open |-> FALSE]
<1>1. e.from = from /\ e.owner = worker[h].to
  OBVIOUS
<1>2. entries' = [entries EXCEPT ![i] = e] /\ UNCHANGED <<pins, raced>>
  BY DEF Clone
<1> HIDE DEF e
<1>3. \A j \in Ids : entries'[j] = IF j = i THEN e ELSE entries[j]
  BY <1>2 DEF JournalInv, TypeOK
<1> QED
  BY <1>1, <1>2, <1>3 DEF Made, ClonesOf, PinClonesOf, There, Pinned

\* And of a pin.
LEMMA PinIsMade ==
    ASSUME JournalInv, NEW h \in Handlers, NEW x \in PinIds, NEW from \in PinIds,
           Insert(h, x, from)
    PROVE  /\ raced' = raced
           /\ \A s \in Ids \cup PinIds, q \in Players :
                 Made(s, q)' \subseteq Made(s, q) \cup
                     (IF s = from /\ q = worker[h].to THEN {x} ELSE {})
<1> DEFINE d == [owner |-> worker[h].to, entity |-> worker[h].entity, from |-> from]
<1>1. d.from = from /\ d.owner = worker[h].to
  OBVIOUS
<1>2. pins' = [pins EXCEPT ![x] = d] /\ UNCHANGED <<entries, raced>>
  BY DEF Insert
<1> HIDE DEF d
<1>3. \A y \in PinIds : pins'[y] = IF y = x THEN d ELSE pins[y]
  BY <1>2 DEF JournalInv, TypeOK
<1> QED
  BY <1>1, <1>2, <1>3 DEF Made, ClonesOf, PinClonesOf, There, Pinned

LEMMA KindsStay ==
    ASSUME JournalInv, KindsInv,
           \A i \in Ids : entries'[i] # None =>
               \/ KindKept(entries'[i], i)
               \/ /\ entries[i] # None /\ entries'[i].link = entries[i].link
                  /\ entries'[i].from = entries[i].from,
           \/ worker' = worker
           \/ \E h \in Handlers : \E w :
                 worker' = [worker EXCEPT ![h] = w] /\ KindsKnown(w)
    PROVE  KindsInv'
<1>1. \A h \in Handlers : worker'[h] = worker[h] \/ KindsKnown(worker'[h])
  BY DEF JournalInv, TypeOK
<1>2. \A h \in Handlers : KindsKnown(worker[h])'
  BY <1>1 DEF KindsInv, KindsKnown
<1>3. \A i \in Ids : (There(i) => KindKept(entries[i], i))'
  BY DEF KindsInv, KindKept, There
<1> QED
  BY <1>2, <1>3 DEF KindsInv

\* A step of one handler that makes no clone and takes up none.
LEMMA QuietClones ==
    ASSUME JournalInv, CloneInv, NoNewClones, raced' = raced,
           \A i \in Ids : entries'[i] # None =>
               \/ KindKept(entries'[i], i)
               \/ /\ entries[i] # None /\ entries'[i].link = entries[i].link
                  /\ entries'[i].from = entries[i].from,
           \/ worker' = worker
           \/ \E h \in Handlers : \E w :
                 /\ worker' = [worker EXCEPT ![h] = w] /\ KindsKnown(w)
                 /\ \A s \in Ids \cup PinIds, q \in Players :
                       Seeks(w, s, q) => Seeks(worker[h], s, q)
    PROVE  CloneInv'
BY QuietOnce, KindsStay DEF CloneInv

\* The same where no document changes but for pins that are gone.
LEMMA QuietReads ==
    ASSUME JournalInv, CloneInv, NEW h \in Handlers, NEW w,
           w.stage \notin {"link", "copy", "clone", "clone_pin"},
           worker' = [worker EXCEPT ![h] = w],
           entries' = entries, raced' = raced,
           \A x \in PinIds : pins'[x] # None => pins'[x].from = None \/ pins'[x] = pins[x]
    PROVE  CloneInv'
<1>1. KindsKnown(w) /\ \A s \in Ids \cup PinIds, q \in Players : ~Seeks(w, s, q)
  BY DEF KindsKnown, Seeks
<1>2. NoNewClones
  BY DEF NoNewClones
<1> QED
  BY <1>1, <1>2, QuietClones

LEMMA ShareClones ==
    ASSUME JournalInv, CloneInv, NEW h \in Handlers, NEW i \in Ids, NEW q \in Players,
           NEW cascade \in BOOLEAN, NEW x \in PinIds \cup {None},
           Share(h, i, q, cascade, x)
    PROVE  CloneInv'
<1> DEFINE w == [Idle EXCEPT !.stage = IF cascade /\ entries[i].link # None
                                       THEN "link" ELSE "clone",
                             !.src = i, !.to = q, !.entity = entries[i].link,
                             !.image = entries[i].image, !.pin = x]
<1>1. /\ w.stage \in {"link", "clone"} /\ w.src = i /\ w.entity = entries[i].link
      /\ w.to = q
  BY DEF Idle
<1>2. /\ worker' = [worker EXCEPT ![h] = w] /\ UNCHANGED <<entries, pins>>
      /\ Sought(h, i, q) /\ ClonesOf(i, q) = {} /\ There(i)
  BY DEF Share, Begin, OnlyReads
<1> HIDE DEF w
<1>3. i # None
  BY NoneAssumption
<1>4. KindsKnown(w)
  BY <1>1, <1>2, <1>3 DEF CloneInv, KindsInv, KindKept, KindsKnown
<1>5. /\ Made(i, q) = {}
      /\ \A s \in Ids \cup PinIds, r \in Players : Seeks(w, s, r) => s = i /\ r = q
  BY <1>1, <1>2, <1>3 DEF Made, Seeks
<1>6. OnceInv'
  BY <1>2, <1>5, SoughtOnce DEF CloneInv
<1> QED
  BY <1>2, <1>4, <1>6, KindsStay DEF CloneInv

LEMMA SharePinClones ==
    ASSUME JournalInv, CloneInv, NEW h \in Handlers, NEW x \in PinIds, NEW q \in Players,
           NEW cascade \in BOOLEAN, SharePin(h, x, q, cascade)
    PROVE  CloneInv'
<1> DEFINE w == [Idle EXCEPT !.stage = IF cascade THEN "link" ELSE "clone_pin",
                             !.to = q, !.entity = pins[x].entity, !.pin = x]
<1>1. /\ w.stage \in {"link", "clone_pin"} /\ w.src = None /\ w.pin = x /\ w.to = q
  BY DEF Idle
<1>2. /\ worker' = [worker EXCEPT ![h] = w] /\ UNCHANGED <<entries, pins>>
      /\ Sought(h, x, q) /\ PinClonesOf(x, q) = {}
  BY DEF SharePin, Begin, OnlyReads
<1> HIDE DEF w
<1>3. x \notin Ids
  BY IdsAssumption
<1>4. KindsKnown(w)
  BY <1>1 DEF KindsKnown
<1>5. Made(x, q) = {}
  BY <1>2, <1>3 DEF Made
<1>6. OnceInv'
  <2>1. \A s \in Ids \cup PinIds, r \in Players : Seeks(w, s, r) => s = x /\ r = q
    BY <1>1, NoneAssumption DEF Seeks
  <2> QED
    BY <1>2, <1>5, <2>1, SoughtOnce DEF CloneInv
<1> QED
  BY <1>2, <1>4, <1>6, KindsStay DEF CloneInv

LEMMA RequestClones ==
    ASSUME JournalInv, CloneInv, NEW h \in Handlers, Request(h)
    PROVE  CloneInv'
<1>1. CASE \E i \in Ids, k \in Keys \cup {None} : UpdateImage(h, i, k)
  <2>1. PICK i \in Ids, k \in Keys \cup {None} : UpdateImage(h, i, k)
    BY <1>1
  <2> DEFINE w == [Idle EXCEPT !.stage = "patch", !.src = i, !.image = k,
                               !.old = entries[i].image]
  <2>2. w.stage = "patch"
    BY DEF Idle
  <2> HIDE DEF w
  <2> QED
    BY <2>1, <2>2, QuietReads DEF UpdateImage, Begin, w
<1>2. CASE \E i \in Ids : Delete(h, i)
  <2>1. PICK i \in Ids : Delete(h, i)
    BY <1>2
  <2> DEFINE w == [Idle EXCEPT !.stage = "delete", !.src = i]
  <2>2. w.stage = "delete"
    BY DEF Idle
  <2> HIDE DEF w
  <2> QED
    BY <2>1, <2>2, QuietReads DEF Delete, OnlyReads, Begin, w
<1>3. CASE \E i \in Ids, q \in Players : CreatePin(h, q, i)
  <2>1. PICK i \in Ids, q \in Players : CreatePin(h, q, i)
    BY <1>3
  <2> DEFINE w == [Idle EXCEPT !.stage = "place", !.to = q, !.entity = i]
  <2>2. w.stage = "place"
    BY DEF Idle
  <2> HIDE DEF w
  <2> QED
    BY <2>1, <2>2, QuietReads DEF CreatePin, OnlyReads, Begin, w
<1> QED
  BY <1>1, <1>2, <1>3, ShareClones, SharePinClones DEF Request

LEMMA FindLinkedClones ==
    ASSUME JournalInv, CloneInv, NEW h \in Handlers, FindLinked(h)
    PROVE  CloneInv'
<1> DEFINE w == worker[h]
           s == w.entity
           next == IF w.src = None THEN "clone_pin" ELSE "clone"
<1>1. /\ w \in Worker /\ w.stage = "link" /\ s \in Ids /\ s # None /\ w.to \in Players
      /\ KindsKnown(w) /\ worker \in [Handlers -> Worker]
      /\ UNCHANGED <<entries, pins>>
  BY NoneAssumption DEF FindLinked, At, OnlyReads, JournalInv, TypeOK, WorkersKnow, Knows,
     CloneInv, KindsInv
<1>2. NoNewClones
  BY <1>1 DEF NoNewClones
\* A clone that is there already, and an entry that is gone.
<1>3. ASSUME NEW v, worker' = [worker EXCEPT ![h] = v], raced' = raced,
             v.stage = next, v.src = w.src, v.to = w.to, v.pin = w.pin,
             v.entity \in Ids, SameKind(v.entity, s)
      PROVE  CloneInv'
  <2>1. KindsKnown(v)
    BY <1>1, <1>3, NoneAssumption DEF KindsKnown, SameKind
  <2>2. \A t \in Ids \cup PinIds, q \in Players : Seeks(v, t, q) => Seeks(w, t, q)
    BY <1>1, <1>3 DEF Seeks
  <2> QED
    BY <1>1, <1>2, <1>3, <2>1, <2>2, QuietClones
<1>4. ASSUME NEW c \in ClonesOf(s, w.to), UNCHANGED raced,
             Begin(h, [w EXCEPT !.stage = next, !.entity = c])
      PROVE  CloneInv'
  <2> DEFINE v == [w EXCEPT !.stage = next, !.entity = c]
  <2>1. c \in Ids /\ SameKind(c, s)
    BY <1>1 DEF ClonesOf, CloneInv, KindsInv, KindKept
  <2>2. /\ v.stage = next /\ v.src = w.src /\ v.to = w.to /\ v.pin = w.pin
        /\ v.entity = c
    BY <1>1 DEF Worker
  <2>3. worker' = [worker EXCEPT ![h] = v]
    BY <1>4 DEF Begin
  <2> HIDE DEF v, w, next
  <2> QED
    BY <1>3, <1>4, <2>1, <2>2, <2>3
<1>5. ASSUME Proceed(h, next), UNCHANGED raced PROVE CloneInv'
  <2> DEFINE v == [w EXCEPT !.stage = next]
  <2>1. /\ v.stage = next /\ v.src = w.src /\ v.to = w.to /\ v.pin = w.pin
        /\ v.entity = s
    BY <1>1 DEF Worker
  <2>2. worker' = [worker EXCEPT ![h] = v]
    BY <1>1, <1>5 DEF Proceed
  <2>3. SameKind(s, s)
    BY DEF SameKind
  <2> HIDE DEF v, w, next
  <2> QED
    BY <1>1, <1>3, <1>5, <2>1, <2>2, <2>3
\* A clone is to be made: from here on the handler seeks two.
<1>6. ASSUME ClonesOf(s, w.to) = {}, There(s), Sought(h, s, w.to),
             Begin(h, [w EXCEPT !.stage = "copy",
                                !.partLink = IF s \in Npcs THEN entries[s].link ELSE None,
                                !.partImage = entries[s].image])
      PROVE  CloneInv'
  <2> DEFINE v == [w EXCEPT !.stage = "copy",
                            !.partLink = IF s \in Npcs THEN entries[s].link ELSE None,
                            !.partImage = entries[s].image]
  <2>1. /\ v.stage = "copy" /\ v.src = w.src /\ v.to = w.to /\ v.pin = w.pin
        /\ v.entity = s /\ v.partLink \in {None, entries[s].link}
    BY <1>1 DEF Worker
  <2>2. worker' = [worker EXCEPT ![h] = v]
    BY <1>6 DEF Begin
  <2> HIDE DEF v
  <2>3. KindsKnown(v)
    BY <1>1, <1>6, <2>1 DEF KindsKnown, CloneInv, KindsInv, KindKept
  <2>4. \A t \in Ids \cup PinIds, q \in Players :
            Seeks(v, t, q) => Seeks(w, t, q) \/ (t = s /\ q = w.to)
    BY <1>1, <2>1 DEF Seeks
  <2>5. OnceInv'
    BY <1>1, <1>6, <2>2, <2>4, SoughtOnce DEF CloneInv, Made
  <2> QED
    BY <1>1, <2>2, <2>3, <2>5, KindsStay DEF CloneInv
<1> QED
  BY <1>4, <1>5, <1>6 DEF FindLinked

LEMMA FindPinClones ==
    ASSUME JournalInv, CloneInv, NEW h \in Handlers, FindPin(h)
    PROVE  CloneInv'
<1> DEFINE w == worker[h]
           x == w.pin
<1>1. /\ w \in Worker /\ w.stage = "pins" /\ x \in PinIds /\ w.to \in Players
      /\ worker \in [Handlers -> Worker] /\ UNCHANGED <<entries, pins>>
  BY DEF FindPin, At, OnlyReads, JournalInv, TypeOK, WorkersKnow, Knows
<1>2. ASSUME Answer(h), UNCHANGED raced PROVE CloneInv'
  BY <1>1, <1>2, QuietReads, IdleKnows DEF Answer, Begin
<1>3. ASSUME PinClonesOf(x, w.to) = {}, Proceed(h, "clone_pin"), Sought(h, x, w.to)
      PROVE  CloneInv'
  <2> DEFINE v == [w EXCEPT !.stage = "clone_pin"]
  <2>1. v.stage = "clone_pin" /\ v.to = w.to /\ v.pin = x
    BY <1>1 DEF Worker
  <2>2. worker' = [worker EXCEPT ![h] = v]
    BY <1>1, <1>3 DEF Proceed
  <2> HIDE DEF v
  <2>3. Made(x, w.to) = {}
    BY <1>1, <1>3, IdsAssumption DEF Made
  <2>4. KindsKnown(v)
    BY <1>1, <2>1 DEF KindsKnown
  <2>5. \A s \in Ids \cup PinIds, q \in Players :
            Seeks(v, s, q) => Seeks(w, s, q) \/ (s = x /\ q = w.to)
    BY <2>1 DEF Seeks
  <2> HIDE DEF w, x
  <2>6. OnceInv'
    BY <1>1, <1>3, <2>2, <2>3, <2>5, SoughtOnce DEF CloneInv, w
  <2> QED
    BY <1>1, <2>2, <2>4, <2>6, KindsStay DEF CloneInv
<1> QED
  BY <1>2, <1>3 DEF FindPin

\* The clone of a linked entry is made, and then only what it came along with
\* is sought: that is of the other kind.
LEMMA CloneLinkedClones ==
    ASSUME JournalInv, CloneInv, NEW h \in Handlers, NEW i \in Ids, CloneLinked(h, i)
    PROVE  CloneInv'
<1> DEFINE w == worker[h]
           v == [w EXCEPT !.stage = IF w.src = None THEN "clone_pin" ELSE "clone",
                          !.entity = i, !.partLink = None, !.partImage = None]
           e == [owner |-> w.to, link |-> w.partLink, image |-> w.partImage,
                 from |-> w.entity, open |-> FALSE]
<1>1. /\ w \in Worker /\ w.stage = "copy" /\ w.entity \in Ids /\ w.entity # None
      /\ w.to \in Players /\ KindsKnown(w) /\ i # None
      /\ worker \in [Handlers -> Worker]
  BY NoneAssumption DEF CloneLinked, At, JournalInv, TypeOK, WorkersKnow, Knows,
     CloneInv, KindsInv
<1>2. /\ v.stage = IF w.src = None THEN "clone_pin" ELSE "clone"
      /\ v.src = w.src /\ v.to = w.to /\ v.pin = w.pin /\ v.entity = i
  BY <1>1 DEF Worker
<1>3. worker' = [worker EXCEPT ![h] = v]
  BY DEF CloneLinked, Begin
<1>4. /\ SameKind(i, w.entity) /\ entries' = [entries EXCEPT ![i] = e]
      /\ Clone(h, i, w.entity, w.partLink, w.partImage)
  BY DEF CloneLinked, Clone
<1>5. KindKept(e, i)
  BY <1>1, <1>4 DEF KindKept, KindsKnown, SameKind
<1> HIDE DEF v, e
<1>6. KindsKnown(v)
  BY <1>1, <1>2, <1>4 DEF KindsKnown, SameKind
<1>7. /\ Seeks(w, w.entity, w.to) /\ ~Seeks(v, w.entity, w.to)
      /\ \A t \in Ids \cup PinIds, q \in Players : Seeks(v, t, q) => Seeks(w, t, q)
  <2>1. w.src # w.entity
    BY <1>1 DEF KindsKnown, SameKind
  <2>2. w.src = None => w.pin \in PinIds /\ w.pin # w.entity
    BY <1>1, IdsAssumption DEF KindsKnown
  <2> QED
    BY <1>1, <1>2, <2>1, <2>2 DEF Seeks
<1>8. OnceInv'
  <2>1. /\ raced' = raced
        /\ \A s \in Ids \cup PinIds, q \in Players :
              Made(s, q)' \subseteq Made(s, q) \cup
                                    (IF s = w.entity /\ q = w.to THEN {i} ELSE {})
    BY <1>1, <1>4, CloneIsMade
  <2> HIDE DEF w
  <2> QED
    BY <1>1, <1>3, <1>7, <2>1, MadeOnce DEF CloneInv, w
<1>9. KindsInv'
  BY <1>3, <1>4, <1>5, <1>6, KindsStay DEF CloneInv, JournalInv, TypeOK
<1> QED
  BY <1>8, <1>9 DEF CloneInv

LEMMA CloneEntryClones ==
    ASSUME JournalInv, CloneInv, NEW h \in Handlers, NEW i \in Ids, CloneEntry(h, i)
    PROVE  CloneInv'
<1> DEFINE w == worker[h]
           v == IF w.pin = None THEN Idle
                ELSE [w EXCEPT !.stage = "pins", !.entity = i, !.image = None]
           e == [owner |-> w.to, link |-> w.entity, image |-> w.image,
                 from |-> w.src, open |-> FALSE]
<1>1. /\ w \in Worker /\ w.stage = "clone" /\ w.src \in Ids /\ w.src # None
      /\ w.to \in Players /\ KindsKnown(w)
  BY NoneAssumption DEF CloneEntry, At, JournalInv, WorkersKnow, Knows, CloneInv, KindsInv
<1>2. v.stage \in {"idle", "pins"}
  BY <1>1 DEF Worker, Idle
<1>3. worker' = [worker EXCEPT ![h] = v]
  BY DEF CloneEntry, Begin, Answer
<1>4. /\ SameKind(i, w.src) /\ entries' = [entries EXCEPT ![i] = e]
      /\ Clone(h, i, w.src, w.entity, w.image)
  BY DEF CloneEntry, Clone
<1>5. KindKept(e, i)
  BY <1>1, <1>4 DEF KindKept, KindsKnown, SameKind
<1> HIDE DEF v, e
<1>6. KindsKnown(v)
  BY <1>2 DEF KindsKnown
<1>7. /\ Seeks(w, w.src, w.to) /\ ~Seeks(v, w.src, w.to)
      /\ \A t \in Ids \cup PinIds, q \in Players : Seeks(v, t, q) => Seeks(w, t, q)
  BY <1>1, <1>2 DEF Seeks
<1>8. OnceInv'
  <2>1. /\ raced' = raced
        /\ \A s \in Ids \cup PinIds, q \in Players :
              Made(s, q)' \subseteq Made(s, q) \cup
                                    (IF s = w.src /\ q = w.to THEN {i} ELSE {})
    BY <1>1, <1>4, CloneIsMade
  <2> HIDE DEF w
  <2> QED
    BY <1>1, <1>3, <1>7, <2>1, MadeOnce DEF CloneInv, w
<1>9. KindsInv'
  BY <1>3, <1>4, <1>5, <1>6, KindsStay DEF CloneInv, JournalInv, TypeOK
<1> QED
  BY <1>8, <1>9 DEF CloneInv

LEMMA ClonePinClones ==
    ASSUME JournalInv, CloneInv, NEW h \in Handlers, NEW x \in PinIds, ClonePin(h, x)
    PROVE  CloneInv'
<1> DEFINE w == worker[h]
<1>1. /\ w.stage = "clone_pin" /\ w.pin \in PinIds /\ w.to \in Players
  BY DEF ClonePin, At, JournalInv, WorkersKnow, Knows, CloneInv, KindsInv, KindsKnown
<1>2. Insert(h, x, w.pin) /\ worker' = [worker EXCEPT ![h] = Idle] /\ entries' = entries
  BY DEF ClonePin, Insert, Answer, Begin
<1>3. KindsKnown(Idle)
  BY IdleKnows DEF KindsKnown
<1>4. /\ Seeks(w, w.pin, w.to) /\ ~Seeks(Idle, w.pin, w.to)
      /\ \A t \in Ids \cup PinIds, q \in Players : Seeks(Idle, t, q) => Seeks(w, t, q)
  BY <1>1, IdleKnows DEF Seeks
<1>5. OnceInv'
  <2>1. /\ raced' = raced
        /\ \A s \in Ids \cup PinIds, q \in Players :
              Made(s, q)' \subseteq Made(s, q) \cup
                                    (IF s = w.pin /\ q = w.to THEN {x} ELSE {})
    BY <1>1, <1>2, PinIsMade
  <2> HIDE DEF w
  <2> QED
    BY <1>1, <1>2, <1>3, <1>4, <2>1, MadeOnce DEF CloneInv, w
<1>6. KindsInv'
  BY <1>2, <1>3, KindsStay DEF CloneInv
<1> QED
  BY <1>5, <1>6 DEF CloneInv

LEMMA WorkClones ==
    ASSUME JournalInv, CloneInv, NEW h \in Handlers, Work(h)
    PROVE  CloneInv'
<1> DEFINE w == worker[h]
<1>0. w \in Worker /\ worker \in [Handlers -> Worker] /\ KindsKnown(Idle)
      /\ Idle.stage = "idle"
  BY IdleKnows DEF JournalInv, TypeOK, WorkersKnow, KindsKnown
<1>1. CASE Patch(h)
  <2> DEFINE i == w.src
             v == IF There(i) /\ ImageChanges(h) /\ w.old # None
                  THEN [w EXCEPT !.stage = "unstore"] ELSE Idle
  <2>1. worker' = [worker EXCEPT ![h] = v] /\ UNCHANGED <<pins, raced>>
    BY <1>0, <1>1 DEF Patch, Proceed, Answer, Begin
  <2>2. v.stage \in {"unstore", "idle"}
    BY <1>0 DEF Worker
  <2>3. entries' = IF There(i) THEN [entries EXCEPT ![i].image = w.image] ELSE entries
    BY <1>1 DEF Patch
  <2>4. \A j \in Ids : entries'[j] # None =>
            /\ entries[j] # None /\ entries'[j].link = entries[j].link
            /\ entries'[j].from = entries[j].from /\ entries'[j].owner = entries[j].owner
    <3>1. i \in Ids
      BY <1>1 DEF Patch, At, JournalInv, WorkersKnow, Knows
    <3> QED
      BY <2>3, <3>1 DEF There, JournalInv, TypeOK, Entry
  <2>5. NoNewClones
    BY <2>1, <2>4 DEF NoNewClones
  <2>6. KindsKnown(v) /\ \A s \in Ids \cup PinIds, q \in Players : Seeks(v, s, q) => Seeks(w, s, q)
    BY <2>2 DEF KindsKnown, Seeks
  <2> HIDE DEF v
  <2> QED
    BY <2>1, <2>4, <2>5, <2>6, QuietClones
<1>2. CASE DeleteEntry(h)
  <2> DEFINE v == [w EXCEPT !.stage = "sweep"]
  <2>1. v.stage = "sweep"
    BY <1>0 DEF Worker
  <2>2. worker' = [worker EXCEPT ![h] = v] /\ UNCHANGED <<pins, raced>>
    BY <1>0, <1>2 DEF DeleteEntry, Proceed
  <2>3. \A j \in Ids : entries'[j] # None => entries'[j] = entries[j]
    BY <1>2 DEF DeleteEntry, JournalInv, TypeOK
  <2> HIDE DEF v
  <2>4. NoNewClones
    BY <2>2, <2>3 DEF NoNewClones
  <2>5. KindsKnown(v) /\ \A s \in Ids \cup PinIds, q \in Players : Seeks(v, s, q) => Seeks(w, s, q)
    BY <2>1 DEF KindsKnown, Seeks
  <2> QED
    BY <2>2, <2>3, <2>4, <2>5, QuietClones
<1>3. CASE DeleteByEntity(h)
  <2>1. \A x \in PinIds : pins'[x] # None => pins'[x] = pins[x]
    BY <1>3 DEF DeleteByEntity, Without
  <2> QED
    BY <1>0, <1>3, <2>1, QuietReads DEF DeleteByEntity, Answer, Begin
<1>4. CASE DeleteImage(h) \/ Abort(h)
  BY <1>0, <1>4, QuietReads DEF DeleteImage, Abort, Answer, Begin
<1>5. ASSUME NEW x \in PinIds, PlacePin(h, x) PROVE CloneInv'
  <2> DEFINE d == [owner |-> w.to, entity |-> w.entity, from |-> None]
  <2>1. d.from = None
    OBVIOUS
  <2>2. pins' = [pins EXCEPT ![x] = d]
    BY <1>5 DEF PlacePin, Insert
  <2> HIDE DEF d
  <2>3. \A y \in PinIds : pins'[y] = pins[y] \/ pins'[y].from = None
    BY <2>1, <2>2 DEF JournalInv, TypeOK
  <2> QED
    BY <1>0, <1>5, <2>3, QuietReads DEF PlacePin, Insert, Answer, Begin
<1> QED
  BY <1>1, <1>2, <1>3, <1>4, <1>5, FindLinkedClones, FindPinClones, CloneLinkedClones,
     CloneEntryClones, ClonePinClones DEF Work

LEMMA CloneStep == JournalInv /\ CloneInv /\ [Next]_vars => CloneInv'
<1> SUFFICES ASSUME JournalInv, CloneInv, [Next]_vars PROVE CloneInv'
  OBVIOUS
<1>1. CASE UNCHANGED vars
  BY <1>1, QuietClones DEF vars, NoNewClones
<1>2. ASSUME NEW p \in Players, NEW i \in Ids, NEW link \in Ids \cup {None},
             NEW k \in Keys \cup {None}, CreateEntry(p, i, link, k)
      PROVE  CloneInv'
  <2> DEFINE e == [owner |-> p, link |-> link, image |-> k, from |-> None, open |-> FALSE]
  <2>1. entries' = [entries EXCEPT ![i] = e] /\ UNCHANGED <<pins, worker, raced>>
    BY <1>2 DEF CreateEntry
  <2>2. e.from = None /\ KindKept(e, i)
    BY <1>2, IdsAssumption DEF CreateEntry, KindKept, SameKind, Ids
  <2> HIDE DEF e
  <2>3. \A j \in Ids : entries'[j] = IF j = i THEN e ELSE entries[j]
    BY <2>1 DEF JournalInv, TypeOK
  <2>4. NoNewClones
    BY <2>1, <2>2, <2>3 DEF NoNewClones
  <2> QED
    BY <2>1, <2>2, <2>3, <2>4, QuietClones
<1>3. ASSUME NEW i \in Ids, NEW open \in BOOLEAN, SetVisibility(i, open) PROVE CloneInv'
  <2>1. entries[i] \in Entry /\ entries' = [entries EXCEPT ![i].open = open]
        /\ UNCHANGED <<pins, worker, raced>>
    BY <1>3 DEF SetVisibility, There, JournalInv, TypeOK
  <2>2. \A j \in Ids : entries'[j] # None =>
            /\ entries[j] # None /\ entries'[j].link = entries[j].link
            /\ entries'[j].from = entries[j].from /\ entries'[j].owner = entries[j].owner
    BY <2>1, DocumentsAssumption DEF JournalInv, TypeOK, Entry
  <2>3. NoNewClones
    BY <2>1, <2>2 DEF NoNewClones
  <2> QED
    BY <2>1, <2>2, <2>3, QuietClones
<1>4. ASSUME NEW x \in PinIds, DeletePin(x) PROVE CloneInv'
  <2>1. UNCHANGED <<entries, worker, raced>>
        /\ \A y \in PinIds : pins'[y] # None => pins'[y] = pins[y]
    BY <1>4 DEF DeletePin, Without
  <2>2. NoNewClones
    BY <2>1 DEF NoNewClones
  <2> QED
    BY <2>1, <2>2, QuietClones
<1>5. ASSUME NEW k \in Keys, Upload(k) \/ DeleteElsewhere(k) PROVE CloneInv'
  <2>1. UNCHANGED <<entries, pins, worker, raced>>
    BY <1>5 DEF Upload, DeleteElsewhere
  <2> QED
    BY <2>1, QuietClones DEF NoNewClones
<1> QED
  BY <1>1, <1>2, <1>3, <1>4, <1>5, RequestClones, WorkClones DEF Next

LEMMA CloneStart == Init => CloneInv
<1> SUFFICES ASSUME Init PROVE CloneInv
  OBVIOUS
<1>1. PICK s \in Scenarios : entries = s.entries /\ pins = s.pins
  BY DEF Init
<1>2. \A h \in Handlers : worker[h] = Idle
  BY DEF Init
<1>3. KindsKnown(Idle) /\ \A t, q : ~Seeks(Idle, t, q)
  BY IdleKnows DEF KindsKnown, Seeks
<1>4. \A i \in Ids : There(i) => KindKept(entries[i], i)
  BY <1>1, ScenariosAssumption DEF There, KindKept, Entry
<1>5. ASSUME NEW s0 \in Ids \cup PinIds, NEW q \in Players
      PROVE  Once(Made(s0, q), Seeking(s0, q), <<s0, q>> \in raced)
  <2>1. Seeking(s0, q) = {}
    BY <1>2, <1>3, SeekingIsSeeks
  <2>2. \A x, y \in Made(s0, q) : x = y
    BY <1>1, ScenariosAssumption, NoneAssumption
       DEF OneCloneEach, Made, ClonesOf, PinClonesOf, There, Pinned
  <2> QED
    BY <2>1, <2>2 DEF Once
<1> QED
  BY <1>2, <1>3, <1>4, <1>5 DEF CloneInv, KindsInv, OnceInv

\* A set all of whose members are the same has one at most.
LEMMA AtMostOne ==
    ASSUME NEW S, \A x, y \in S : x = y
    PROVE  Cardinality(S) \in {0, 1}
<1>1. CASE S = {}
  BY <1>1, FS_EmptySet
<1>2. CASE S # {}
  <2>1. PICK x : S = {x}
    BY <1>2
  <2> QED
    BY <2>1, FS_Singleton
<1> QED
  BY <1>1, <1>2

\* Share, cloneNpcForRecipient, cloneLocationForRecipientShallow and the
\* sharing of pins look for a clone before they make one: however many shares,
\* cascades, deletions and failures overlap, a player gets one clone of an entry
\* or a pin, but where two requests looked for it before either made it.
THEOREM SharesCloneOnce == Spec => []CloneOnce
<1>1. CloneInv => CloneOnce
  <2> SUFFICES ASSUME CloneInv PROVE CloneOnce
    OBVIOUS
  <2>1. ASSUME NEW s \in Ids \cup PinIds, NEW q \in Players,
               Cardinality(Made(s, q)) > 1
        PROVE  <<s, q>> \in raced
    BY <2>1, AtMostOne DEF CloneInv, OnceInv, Once
  <2> QED
    BY <2>1, IdsAssumption DEF CloneOnce, Made
<1>2. JournalInv /\ CloneInv /\ [Next]_vars => (JournalInv /\ CloneInv)'
  BY JournalStep, CloneStep
<1> QED
  BY <1>1, <1>2, JournalStart, CloneStart, PTL DEF Spec

=============================================================================
