-------------------------------- MODULE Journal --------------------------------
(***************************************************************************)
(* The journal of a campaign: locations and NPCs with their images, and    *)
(* the map pins that point at them.  internal/handler/location.go, npc.go, *)
(* map_pin.go and journal_share.go over the three stores and the image     *)
(* objects of internal/avatarstore.                                        *)
(*                                                                         *)
(* The code of locations and of NPCs is the same but for what a cascade    *)
(* copies.  Sharing an entry makes a clone of it for another player, of    *)
(* the entry it links to and of a pin on it, one store call each; deleting *)
(* an entry then deletes the pins on it; changing an image then deletes    *)
(* the image there was.  The bucket and its keys are one for all entries,  *)
(* and for players, maps and the arsenal too: a request may name any key.  *)
(* An entry has at most one link, a request names at most one recipient    *)
(* and one pin, and members stay members.                                  *)
(***************************************************************************)
EXTENDS Naturals, FiniteSets

CONSTANTS
    Players,    \* members of the campaign
    Locations,  \* uuids of locations
    Npcs,       \* uuids of NPCs
    PinIds,     \* uuids of pins
    Keys,       \* keys of images in the bucket; a plain URL is like None
    Handlers,   \* requests served at the same time
    Scenarios,  \* what a behaviour starts from, and the operations it is about
    Elsewhere,  \* the documents other than entries that have an image
    None        \* no link, no image, no source

Ids == Locations \cup Npcs
SameKind(i, j) == i \in Npcs <=> j \in Npcs
ASSUME IdsAssumption == Locations \cap Npcs = {} /\ Ids \cap PinIds = {}
ASSUME NoneAssumption == None \notin Players \cup Ids \cup PinIds \cup Keys
ASSUME ElsewhereAssumption == Elsewhere \notin Ids

VARIABLES
    entries,     \* the locations and NPCs, by id
    pins,        \* the pins, by id
    objects,     \* the images the bucket holds
    used,        \* ids handed out so far: a uuid is never used again
    worker,      \* what each handler is doing
    serves,      \* the family of operations this behaviour is about
    raced,       \* history: clones two requests looked for before either made it
    late,        \* history: pins created when their entry was gone
    unswept,     \* history: entries whose pins a failed call left behind
    holders,     \* history: the documents that were ever given an image
    blind,       \* history: entries created with an image that was not stored
    overlapped   \* history: entries two image changes of which overlapped

vars == <<entries, pins, objects, used, worker, serves,
          raced, late, unswept, holders, blind, overlapped>>

\* link stands for linkedNpcIds or linkedLocationIds, from for the clone audit;
\* open is sharedWithAll.
Entry == [owner : Players, link : Ids \cup {None}, image : Keys \cup {None},
          from : Ids \cup {None}, open : BOOLEAN]

Pin == [owner : Players, entity : Ids, from : PinIds \cup {None}]

ASSUME DocumentsAssumption == None \notin Entry \cup Pin
\* At most one clone of a document for each player.
OneCloneEach(docs, S) ==
    \A x, y \in S :
        /\ docs[x] # None /\ docs[y] # None
        /\ docs[x].from # None /\ docs[x].from = docs[y].from
        /\ docs[x].owner = docs[y].owner
        => x = y

ASSUME ScenariosAssumption ==
    \A s \in Scenarios :
        /\ s.entries \in [Ids -> Entry \cup {None}]
        /\ s.pins \in [PinIds -> Pin \cup {None}]
        /\ \A x \in PinIds : s.pins[x] # None => s.entries[s.pins[x].entity] # None
        /\ s.objects \subseteq Keys
        /\ s.used \subseteq Ids \cup PinIds
        /\ \A i \in Ids : s.entries[i] # None => i \in s.used
        /\ \A x \in PinIds : s.pins[x] # None => x \in s.used
        /\ \A i \in Ids : s.entries[i] # None =>
              s.entries[i].image \in s.objects \cup {None}
        /\ \A i, j \in Ids : s.entries[i] # None =>
              \* links are between kinds, clones within one
              /\ s.entries[i].link = j => ~SameKind(i, j)
              /\ s.entries[i].from = j => SameKind(i, j)
        /\ OneCloneEach(s.entries, Ids) /\ OneCloneEach(s.pins, PinIds)

Stages == {"idle", "link", "copy", "clone", "pins", "clone_pin", "place",
           "delete", "sweep", "patch", "unstore"}

\* src is the entry the request is about, to the player it works for, entity
\* the entry to be linked or pinned, pin the pin to be cloned, image and old
\* images, and part the linked entry as it was read.
Worker == [stage : Stages, src : Ids \cup {None}, to : Players \cup {None},
           entity : Ids \cup {None}, pin : PinIds \cup {None},
           image : Keys \cup {None}, old : Keys \cup {None},
           cascade : BOOLEAN, partLink : Ids \cup {None},
           partImage : Keys \cup {None}]

Idle == [stage |-> "idle", src |-> None, to |-> None, entity |-> None, pin |-> None,
         image |-> None, old |-> None, cascade |-> FALSE, partLink |-> None,
         partImage |-> None]

There(i) == entries[i] # None
Pinned(x) == pins[x] # None

TypeOK ==
    /\ entries \in [Ids -> Entry \cup {None}]
    /\ pins \in [PinIds -> Pin \cup {None}]
    /\ objects \subseteq Keys
    /\ used \subseteq Ids \cup PinIds
    /\ worker \in [Handlers -> Worker]
    /\ serves \in {s.serves : s \in Scenarios}
    /\ raced \subseteq (Ids \cup PinIds) \X Players
    /\ late \subseteq PinIds
    /\ unswept \subseteq Ids
    /\ holders \in [Keys -> SUBSET (Ids \cup {Elsewhere})]
    /\ blind \subseteq Ids \X Keys
    /\ overlapped \subseteq Ids

\* The entries and the pins of a scenario are there already, and their images
\* are stored; others may have been there before.
Init ==
    /\ \E s \in Scenarios :
          /\ entries = s.entries /\ pins = s.pins /\ serves = s.serves
          /\ objects = s.objects /\ used = s.used
          /\ holders = [k \in Keys |-> {i \in Ids : s.entries[i] # None
                                                    /\ s.entries[i].image = k}]
    /\ worker = [h \in Handlers |-> Idle]
    /\ raced = {} /\ late = {} /\ unswept = {} /\ blind = {} /\ overlapped = {}

-----------------------------------------------------------------------------
Free(h) == worker[h].stage = "idle"
At(h, stage) == worker[h].stage = stage
Begin(h, w) == worker' = [worker EXCEPT ![h] = w]
Answer(h) == Begin(h, Idle)
Proceed(h, stage) == worker' = [worker EXCEPT ![h].stage = stage]

OnlyReads == UNCHANGED <<entries, pins, objects, used, serves,
                         late, unswept, holders, blind, overlapped>>

\* FindCloneOf: any clone of that source with that owner.
ClonesOf(s, q) == {i \in Ids : There(i) /\ entries[i].from = s /\ entries[i].owner = q}
PinClonesOf(x, q) == {y \in PinIds : Pinned(y) /\ pins[y].from = x /\ pins[y].owner = q}

\* The handlers that looked for a clone, found none and have not made it yet.
Seeking(s, q) ==
    {g \in Handlers :
        /\ worker[g].to = q
        /\ \/ worker[g].stage \in {"link", "copy", "clone"} /\ worker[g].src = s
           \/ worker[g].stage = "copy" /\ worker[g].entity = s
           \/ worker[g].stage \in {"link", "copy"} /\ worker[g].src = None
              /\ worker[g].pin = s
           \/ worker[g].stage = "clone_pin" /\ worker[g].pin = s}

Sought(h, s, q) ==
    raced' = IF Seeking(s, q) \ {h} = {} THEN raced ELSE raced \cup {<<s, q>>}

-----------------------------------------------------------------------------
\* The presigned PUT of an image: it may come late, or again.
Upload(k) ==
    /\ "upload" \in serves
    /\ objects' = objects \cup {k}
    /\ UNCHANGED <<entries, pins, used, worker, serves, raced, late, unswept,
                   holders, blind, overlapped>>

Held(i, k) == IF k = None THEN holders ELSE [holders EXCEPT ![k] = @ \cup {i}]

\* A player, a map or an item had the image, and a change of it, or the
\* deletion of the document, deletes the object.
DeleteElsewhere(k) ==
    /\ "elsewhere" \in serves
    /\ objects' = objects \ {k}
    /\ holders' = Held(Elsewhere, k)
    /\ UNCHANGED <<entries, pins, used, worker, serves, raced, late, unswept,
                   blind, overlapped>>

NewId(i) == i \notin used

\* Create stores the image and the link it is given without a look at either.
CreateEntry(p, i, link, image) ==
    /\ "create" \in serves
    /\ NewId(i)
    /\ link \in Ids => (link \in Npcs <=> i \in Locations)
    /\ entries' = [entries EXCEPT ![i] = [owner |-> p, link |-> link, image |-> image,
                                          from |-> None, open |-> FALSE]]
    /\ used' = used \cup {i}
    /\ holders' = Held(i, image)
    /\ blind' = IF image \in objects \cup {None} THEN blind ELSE blind \cup {<<i, image>>}
    /\ UNCHANGED <<pins, objects, worker, serves, raced, late, unswept, overlapped>>

\* A visibility patch of Update: it depends on nothing that was read.
SetVisibility(i, open) ==
    /\ "visibility" \in serves
    /\ There(i) /\ entries[i].open # open
    /\ entries' = [entries EXCEPT ![i].open = open]
    /\ UNCHANGED <<pins, objects, used, worker, serves, raced, late, unswept,
                   holders, blind, overlapped>>

\* A mutant: the bucket is not asked.
Unverified(k, old) == TRUE

\* An image that differs from the one read must be in the bucket.
Verified(k, old) == k = None \/ k = old \/ k \in objects

\* An image patch of Update, as far as the checks.  Any image that is stored
\* will do, another entry's among them, or the one the entry has, or none.
UpdateImage(h, i, k) ==
    /\ "image" \in serves /\ Free(h)
    /\ There(i)
    /\ Verified(k, entries[i].image)
    /\ Begin(h, [Idle EXCEPT !.stage = "patch", !.src = i, !.image = k,
                             !.old = entries[i].image])
    /\ overlapped' = IF \E g \in Handlers \ {h} :
                           worker[g].stage \in {"patch", "unstore"} /\ worker[g].src = i
                     THEN overlapped \cup {i} ELSE overlapped
    /\ UNCHANGED <<entries, pins, objects, used, serves, raced, late, unswept,
                   holders, blind>>

ImageChanges(h) == worker[h].image # worker[h].old

Patch(h) ==
    /\ At(h, "patch")
    /\ LET i == worker[h].src
       IN  /\ entries' = IF There(i) THEN [entries EXCEPT ![i].image = worker[h].image]
                                     ELSE entries
           /\ holders' = IF There(i) THEN Held(i, worker[h].image) ELSE holders
           /\ IF There(i) /\ ImageChanges(h) /\ worker[h].old # None
              THEN Proceed(h, "unstore") ELSE Answer(h)
    /\ UNCHANGED <<pins, objects, used, serves, raced, late, unswept, blind, overlapped>>

\* avatarstore.Delete of the image that was read.
DeleteImage(h) ==
    /\ At(h, "unstore")
    /\ objects' = objects \ {worker[h].old}
    /\ Answer(h)
    /\ UNCHANGED <<entries, pins, used, serves, raced, late, unswept,
                   holders, blind, overlapped>>

-----------------------------------------------------------------------------
Delete(h, i) ==
    /\ "delete" \in serves /\ Free(h)
    /\ There(i)
    /\ Begin(h, [Idle EXCEPT !.stage = "delete", !.src = i])
    /\ OnlyReads /\ UNCHANGED raced

DeleteEntry(h) ==
    /\ At(h, "delete")
    /\ entries' = [entries EXCEPT ![worker[h].src] = None]
    /\ Proceed(h, "sweep")
    /\ UNCHANGED <<pins, objects, used, serves, raced, late, unswept,
                   holders, blind, overlapped>>

\* A mutant: the pins that came with a share are left.
OriginalsOn(i) ==
    {x \in PinIds : Pinned(x) /\ pins[x].entity = i /\ pins[x].from = None}

\* The pins of every owner.
On(i) == {x \in PinIds : Pinned(x) /\ pins[x].entity = i}

Without(xs) == [x \in PinIds |-> IF x \in xs THEN None ELSE pins[x]]

DeleteByEntity(h) ==
    /\ At(h, "sweep")
    /\ pins' = Without(On(worker[h].src))
    /\ Answer(h)
    /\ UNCHANGED <<entries, objects, used, serves, raced, late, unswept,
                   holders, blind, overlapped>>

-----------------------------------------------------------------------------
\* assertEntityVisible, then the insert.
CreatePin(h, q, i) ==
    /\ "pin" \in serves /\ Free(h)
    /\ There(i) /\ (entries[i].owner = q \/ entries[i].open)
    /\ Begin(h, [Idle EXCEPT !.stage = "place", !.to = q, !.entity = i])
    /\ OnlyReads /\ UNCHANGED raced

Insert(h, x, from) ==
    /\ NewId(x)
    /\ pins' = [pins EXCEPT ![x] = [owner |-> worker[h].to, entity |-> worker[h].entity,
                                    from |-> from]]
    /\ used' = used \cup {x}
    /\ late' = IF There(worker[h].entity) THEN late ELSE late \cup {x}
    /\ Answer(h)
    /\ UNCHANGED <<entries, objects, serves, raced, unswept, holders, blind, overlapped>>

PlacePin(h, x) == At(h, "place") /\ Insert(h, x, None)

DeletePin(x) ==
    /\ "unpin" \in serves
    /\ Pinned(x)
    /\ pins' = Without({x})
    /\ UNCHANGED <<entries, objects, used, worker, serves, raced, late, unswept,
                   holders, blind, overlapped>>

-----------------------------------------------------------------------------
\* A clone may be shared in its turn.
Shared(doc) == doc.from = None \/ "share_clones" \in serves

\* Share reads the entry, finds no clone of it for the recipient, and goes on
\* to the link when the request says so.  An existing clone ends the request.
Share(h, i, q, cascade, x) ==
    /\ "share" \in serves /\ Free(h)
    /\ There(i) /\ q # entries[i].owner
    /\ Shared(entries[i])
    /\ ClonesOf(i, q) = {}
    /\ Begin(h, [Idle EXCEPT !.stage = IF cascade /\ entries[i].link # None
                                       THEN "link" ELSE "clone",
                             !.src = i, !.to = q, !.entity = entries[i].link,
                             !.image = entries[i].image, !.pin = x])
    /\ Sought(h, i, q)
    /\ OnlyReads

\* A mutant: what comes along is cloned anew for every share.
FindLinkedAnew(h) ==
    /\ At(h, "link")
    /\ LET w == worker[h]
           s == w.entity
       IN  IF There(s)
           THEN Begin(h, [w EXCEPT !.stage = "copy",
                                   !.partLink = IF s \in Npcs THEN entries[s].link
                                                              ELSE None,
                                   !.partImage = entries[s].image])
           ELSE Proceed(h, IF w.src = None THEN "clone_pin" ELSE "clone")
    /\ UNCHANGED raced
    /\ OnlyReads

\* cloneNpcForRecipient and cloneLocationForRecipientShallow as far as the
\* reads: an existing clone is taken, an entry that is gone is skipped.
FindLinked(h) ==
    /\ At(h, "link")
    /\ LET w == worker[h]
           s == w.entity
           next == IF w.src = None THEN "clone_pin" ELSE "clone"
       IN  \/ /\ \E c \in ClonesOf(s, w.to) :
                    Begin(h, [w EXCEPT !.stage = next, !.entity = c])
              /\ UNCHANGED raced
           \/ /\ ClonesOf(s, w.to) = {} /\ ~There(s)
              /\ Proceed(h, next)
              /\ UNCHANGED raced
           \/ /\ ClonesOf(s, w.to) = {} /\ There(s)
              /\ Begin(h, [w EXCEPT !.stage = "copy",
                                    !.partLink = IF s \in Npcs THEN entries[s].link
                                                               ELSE None,
                                    !.partImage = entries[s].image])
              /\ Sought(h, s, w.to)
    /\ OnlyReads

\* A clone has the fields of its source, the image among them, and is shown
\* to nobody else.
Clone(h, i, from, link, image) ==
    /\ NewId(i) /\ SameKind(i, from)
    /\ entries' = [entries EXCEPT ![i] = [owner |-> worker[h].to, link |-> link,
                                          image |-> image, from |-> from,
                                          open |-> FALSE]]
    /\ used' = used \cup {i}
    /\ holders' = Held(i, image)
    /\ UNCHANGED <<pins, objects, serves, raced, late, unswept, blind, overlapped>>

CloneLinked(h, i) ==
    /\ At(h, "copy")
    /\ LET w == worker[h]
       IN  /\ Clone(h, i, w.entity, w.partLink, w.partImage)
           /\ Begin(h, [w EXCEPT !.stage = IF w.src = None THEN "clone_pin" ELSE "clone",
                                 !.entity = i, !.partLink = None, !.partImage = None])

\* The clone of the entry itself, its link rewritten; then the pin.
CloneEntry(h, i) ==
    /\ At(h, "clone")
    /\ LET w == worker[h]
       IN  /\ Clone(h, i, w.src, w.entity, w.image)
           /\ IF w.pin = None THEN Answer(h)
              ELSE Begin(h, [w EXCEPT !.stage = "pins", !.entity = i, !.image = None])

\* A pin that is gone, points elsewhere or has been cloned is skipped.
FindPin(h) ==
    /\ At(h, "pins")
    /\ LET w == worker[h]
           x == w.pin
       IN  IF Pinned(x) /\ pins[x].entity = w.src /\ PinClonesOf(x, w.to) = {}
           THEN Proceed(h, "clone_pin") /\ Sought(h, x, w.to)
           ELSE Answer(h) /\ UNCHANGED raced
    /\ OnlyReads

ClonePin(h, x) == At(h, "clone_pin") /\ Insert(h, x, worker[h].pin)

\* Share of a pin: the entry it points at comes first when it is to come along.
SharePin(h, x, q, cascade) ==
    /\ "share_pin" \in serves /\ Free(h)
    /\ Pinned(x) /\ q # pins[x].owner
    /\ Shared(pins[x])
    /\ PinClonesOf(x, q) = {}
    /\ Begin(h, [Idle EXCEPT !.stage = IF cascade THEN "link" ELSE "clone_pin",
                             !.to = q, !.entity = pins[x].entity, !.pin = x])
    /\ Sought(h, x, q)
    /\ OnlyReads

-----------------------------------------------------------------------------
\* A failed call, or the end of the process: what has been stored stays.
Abort(h) ==
    /\ "abort" \in serves
    /\ ~Free(h)
    /\ unswept' = IF At(h, "sweep") THEN unswept \cup {worker[h].src} ELSE unswept
    /\ Answer(h)
    /\ UNCHANGED <<entries, pins, objects, used, serves, raced, late,
                   holders, blind, overlapped>>

Request(h) ==
    \/ \E i \in Ids, k \in Keys \cup {None} : UpdateImage(h, i, k)
    \/ \E i \in Ids : Delete(h, i)
    \/ \E i \in Ids, q \in Players : CreatePin(h, q, i)
    \/ \E i \in Ids, q \in Players, cascade \in BOOLEAN, x \in PinIds \cup {None} :
          Share(h, i, q, cascade, x)
    \/ \E x \in PinIds, q \in Players, cascade \in BOOLEAN : SharePin(h, x, q, cascade)

Work(h) ==
    \/ Patch(h) \/ DeleteImage(h)
    \/ DeleteEntry(h) \/ DeleteByEntity(h)
    \/ FindLinked(h) \/ FindPin(h)
    \/ \E i \in Ids : CloneLinked(h, i) \/ CloneEntry(h, i)
    \/ \E x \in PinIds : PlacePin(h, x) \/ ClonePin(h, x)
    \/ Abort(h)

Next ==
    \/ \E h \in Handlers : Request(h) \/ Work(h)
    \/ \E p \in Players, i \in Ids, link \in Ids \cup {None}, k \in Keys \cup {None} :
          CreateEntry(p, i, link, k)
    \/ \E i \in Ids, open \in BOOLEAN : SetVisibility(i, open)
    \/ \E x \in PinIds : DeletePin(x)
    \/ \E k \in Keys : Upload(k) \/ DeleteElsewhere(k)

Spec == Init /\ [][Next]_vars

-----------------------------------------------------------------------------
\* Sharing again makes no second clone: at most one clone of an entry or a pin
\* for a player, whether it was asked for or came along with something else,
\* unless two requests looked for it before either had made it.
CloneOnce ==
    /\ \A i \in Ids, q \in Players :
          Cardinality(ClonesOf(i, q)) > 1 => <<i, q>> \in raced
    /\ \A x \in PinIds, q \in Players :
          Cardinality(PinClonesOf(x, q)) > 1 => <<x, q>> \in raced

\* No pin of anybody outlives the entry it points at, unless it was stored
\* when the entry was gone already or the call that deletes the pins failed
\* or is still to come.
PinsFollowEntities ==
    \A x \in PinIds : Pinned(x) =>
        LET i == pins[x].entity
        IN  \/ There(i)
            \/ x \in late
            \/ i \in unswept
            \/ \E h \in Handlers : At(h, "sweep") /\ worker[h].src = i

\* No other entry, and nothing that is not an entry, was ever given the image.
Sole(i, k) == holders[k] \subseteq {i}

\* An entry's own image stays in the bucket as long as the entry shows it:
\* through all changes of it, back to an image it had before, and through
\* deletions and failures, nothing deletes it.  Excepted are an image that was
\* not there when the entry was created with it; an image that was at any time
\* given to a second document, by its key in a request or by a clone, for a
\* change of either deletes what both show; and overlapping changes of the
\* entry's image.
ImagesStayStored ==
    \A i \in Ids : There(i) =>
        LET k == entries[i].image
        IN  \/ k = None \/ k \in objects
            \/ ~Sole(i, k)
            \/ <<i, k>> \in blind
            \/ i \in overlapped
=============================================================================
