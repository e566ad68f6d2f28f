# Rolebook backend: specifications

TLA+ models of the server in `src/` (Go, MongoDB, an HTTP API for tabletop
campaigns), the TLC runs that check them, and TLAPS proofs about all of the
components modelled. File names below are relative to `src/internal/`.

The server is a set of stateless HTTP handlers over a document store. One
document is updated atomically; nothing spans two documents, and most handlers
read, decide and write in separate store calls. What is hard to get right, and
what these models are about, is therefore always the same question: *what
happened to the document between the read and the write?*

## 1. Inventory

| Part | State | Operations | Hard behaviour | What makes it correct |
|---|---|---|---|---|
| Initiative tracker (`handler/initiative.go`, `store/initiative.go`, `initiative/turnorder.go`) | one call document per campaign: participants, rolls, turn order, current turn, status, version, TTL date | start, submit, enemy, end-turn, resort, skip, remove, resolve | optimistic concurrency with three tries; overlap with start and resolve, which ignore the version; TTL deletion | order and turn always in sync; no lost update; nobody ends another's turn; turns are fair |
| Broadcaster and stream (`initiativehub/hub.go`, `Stream`) | subscriber map, one bounded channel per client | subscribe, unsubscribe, publish, initial read, relay | publish drops on a full buffer; subscribe races with writes; disconnects | nothing is missed unless a buffer was full; a slow client delays nobody |
| Sessions and scheduling (`store/campaign.go`, `handler/session*.go`) | sessions embedded in the campaign, schedules, notes in the member list | session add, edit, delete; availability put, delete; slot confirm, clear; note put; archive and its cascade | the whole array is read, edited and written back with no version; two-step deletes and cascades | a confirmed slot stands on the availabilities it was confirmed over; a locked schedule takes no entry; archived players are in no schedule; a schedule has a timezone |
| Content requests, custom content, bags (`handler/content_request.go`, `custom_equipment.go`, `custom_spell.go`, `inventory.go`, `spell.go`) | requests, live entries, the players' inventories and spell lists | propose, revise, withdraw, approve, deny; create, rewrite, share, delete an entry; take, drop | approve is three or four store calls; best-effort cascades | an approved request names its entry; one outcome per request; bags follow visibility |
| Campaigns and membership (`handler/campaign.go`, `player.go`, `companion.go`) | member list in the campaign; player and companion documents | create a campaign, invite, add NPCs and companions, update and delete players, delete a campaign | two collections, compensation instead of transactions, listings that go stale | a member's player is his; one companion per owner, gone with him; no player outlives the campaign unnoticed |
| Limited uses (`store/player_limited_uses.go`) | per player a list of (max, remaining, resets) | add, update, remove, spend, restore, reset | two guarded updates and a retry, compare-and-set | 0 <= remaining <= max; a use is spent once |
| Coins (`store/player.go`, `model/coins.go`) | purse | adjust, convert | guarded single updates | never negative, conversion keeps the value |
| Accounts (`handler/auth.go`, `handler/verification.go`, `store/user.go`) | user document: address, pending address, one set of code fields with expiry, attempts, time of sending | register, verify, resend, sign in, change the address, resend, confirm | three flows share the code fields; every handler reads the user and writes by id; lost mails, cooldown, expiry | addresses are unique; a verified address was proved; whoever keeps asking gets verified |
| Password reset (`handler/auth.go`, `resetstore/`) | a session per address: code, then token; attempts; cooldown | request a code, exchange it for a token, reset | reading, counting, comparing and promoting are separate calls; the store may be the process's memory | a session lets a bounded number of guesses through; whoever keeps asking gets a new password |
| Journal (`handler/location.go`, `npc.go`, `map_pin.go`, `journal_share.go`) | locations, NPCs, pins in three collections; images in a bucket | create, change, delete, share with cascades | find-then-create without an index; best-effort cascades; clones copy the image key; requests name images by key, and a change deletes the old one | one clone per player; no pin outlives its entry; an entry's own image stays stored while it is shown |
| Rate limiting, presigning, catalog, mail, commands | | | | not modelled, see section 7 |

Interaction: the tracker's handlers publish every stored call to the hub, which
hands it to the streams. Start reads the campaign's players. Archiving a player
cascades into the session schedules. Approving a request, narrowing an entry's
visibility and deleting an entry cascade into players' bags. Sharing a journal
entry clones what it links to and the pins on it, deleting one deletes the pins,
and changing an image deletes the old object. A password reset verifies the
account as the sign-up code would. All handlers of a campaign first
read the campaign to authorise the caller (`handler/access.go`).

## 2. Modules

```
TurnOrder            the order of a call and SyncTurnState       (operators)
InitiativeOps        what each request does to a call            (operators)
Encounter            abstract: one atomic step per request
InitiativeTracker    handlers: load, compute, conditional write, retry, publish
TurnOrderCode        the slice algorithm of turnorder.go         (operators)
InitiativeHub        broadcaster and event stream
CampaignSessions     sessions, schedules, notes, archiving
ContentRequests      moderation queue, live entries, bags
Membership           campaign, member list, players, companions
LimitedUses, Coins   two parts of a player document that are updated in place
PlayerSheet          both of them side by side
Accounts             sign-up and change of address of one account
PasswordReset        the same with the forgotten-password flow
AddressBook          abstract: what these flows do to an address, one step each
Journal              locations, NPCs, pins, clones, images
MCEncounter, MCInitiativeTracker, MCCampaignSessions, MCContentRequests,
MCMembership, MCPlayerSheet, MCAccounts, MCJournal
                     the instances TLC checks
InitiativeTrackerProofs, InitiativeHubProofs, CampaignSessionsProofs,
ContentRequestsProofs, MembershipProofs, PlayerSheetProofs, AccountsProofs,
JournalProofs        theorems
```

`Encounter` and `InitiativeTracker` share `TurnOrder` and `InitiativeOps`, so
what a request does is written once and the tracker adds only *when* it is done.
`InitiativeTracker` instantiates `Encounter` (`Abstract`) with the stored call,
version forgotten. `InitiativeHub` takes over where the tracker's `Publish`
ends: a snapshot there is the number of the write.

### TurnOrder, InitiativeOps, Encounter

A call is a record: participants (absent or kind, name, roll, skipped, seat in
the list), stored order, current id, started, status, version, and whether the
TTL date is set (`expires`). `Eligible` are those who have rolled and are not
skipped. `TurnOrderIds` is `TurnOrderParticipantIDs`, defined declaratively: the
sorted listing, or for a running cycle the frozen order followed by the others,
rotated to the acting one. `SyncTurnState` is what every mutate closure ends
with. `InitiativeOps` has one operator per closure, and `RoundIsFair`, what as many
ended turns as there are participants come to. An ordering of names and list
positions stands for the sort keys. Initiative values and names are small
numbers; what is compared is only their order.

`TurnOrderCode` is `turnorder.go` once more, loop by loop on slices: `Filtered` are
the loops that append, `SortParticipants` is `sort.SliceStable` with the code's `Less`,
`RotateIDsToFront` cuts the slice at the first place of the acting one, absent ids
included, and `TurnOrderParticipantIDs` puts them together. `OrderAgreesWithCode`
compares it with `TurnOrderIds`, for a call and for all that a request's closure
(`ClosureOf`) may make of it.

`Encounter` performs each in one step (`Submit`, `Enemy`, `NewEnemy`, `EndTurn`,
`Resort`, `Skip`, `Remove`, `Start`, `Resolve`, `Expire`).

### InitiativeTracker

`call` is the stored document; `worker[h]` is a handler: its stage (`idle`,
`load`, `commit`, `publish`, `start`, `resolve`, `reread`), request, copy of the
call and try number. `Load` is `Get` and the closure's verdict; the `Commit*`
actions are the `UpdateWithVersion` whose filter matched, one per operation, with
the whole closure and the sync inside; `Conflict` is the filter that did not
match: load again, or 409 after the third try. `StartReplace`, `ResolveOpen` and
`ResolveReread` are the two writers that do not look at the version and Resolve's
second round trip. `Abort` is the client that goes away or the store call that
fails, before or after it took effect. `Expire` is the TTL index.

### InitiativeHub

`written` counts the writes, `stored` is what the store returns, `publisher`
holds a snapshot and the subscriber list copied under the lock, `chan` the
buffers, `stream` each client's progress: `Subscribe`, `ReadInitial`, `Relay`,
`Close`. `Send` and `Drop` are the two arms of the `select` in `Publish`. `lost`
is a history variable.

### CampaignSessions

`sessions` is the embedded array as a function of session ids, `active` the
players with `isActive`, `notes` who keeps a note on what, `worker` the handlers
with their copy of the array (`snap`). `Receive` is the authorisation and the
checks on the campaign read first; `Fetch` the store's own read; `Store` its
`$set` of the edited copy. `Add`, `Pull`, `StripNotes`, `WriteNote`, `Archive` and
`Restore` are single updates. A member is identified with its player id.
Availability, slots and texts are model values. `shown` is history kept in the
schedule: the availabilities the DM's slot was confirmed over (`Confirmed`). So is
`stale`: whether an array was ever written that had changed since it was read. All
that is promised of schedules, but for `SlotStandsOnWhatWasShown`, is void from then
on, as such a write may bring back anything that was; `sessions_lost` shows one.

### ContentRequests

`requests`, `entries` and `bags` are the collections; `worker` holds the call, the
request as it was read (`snap`) and the entry worked on. Approving an edit goes
through `ApplyEdit`, `Cascade`, `Resolve`; approving a new entry through
`Materialise`, `Resolve`. Items and spells have the same code twice and are one
here; the visibility mode `campaign` is the list of all players. History:
`disputed` (requests worked on by two calls at once, or left half done) and
`excused` (bags that may hold what the player cannot see: the DM put it there, the
player took it at the same moment, a cascade failed).

### Membership

`players` is the collection of player documents (kind, user, owner), `campaign`
whether the one campaign followed is stored, `members` its embedded list, in order
because `findMember` takes the first entry of a user. `worker` holds the request, its
stage, the player worked for (`target`), that player as it was read (`snap`), the
caller's role as it was read (`isDM`) and the listed ids of a deletion (`ids`).
`CreateAtOnce` is the transaction of `CreateWithDMMember`; `InsertDM`,
`InsertCampaign`, `InsertCampaignFails`, `Undo` its fallback. `Authorise` is
`resolveCampaignMembership` with each handler's role check; `ReadOwner`,
`FindCompanionByOwner` and `Insert` (or `InsertRefused`, the unique index) are
`CreateCompanion`; `Insert`, `AddMember` an invitation; `List`, `Wipe`, `Drop` the
deletion of a campaign; `Access`, `Role` are `resolvePlayerAccess`, followed by
`UpdatePlayer`, or `DeletePlayer` and `DeleteCompanionsByOwner`. Requests may ask an
update to set `kind` and `linkedUserId`, by their canonical keys; `Stripped` is what
the handler lets through. How it recognises other spellings is not modelled. `late` is
a history variable: players inserted when the cleanup that would have removed them was
over, and those whose cleanup failed.

### LimitedUses, Coins, PlayerSheet

`uses` is the embedded array by id, `purse` the stored coins. `Put` is one update of
one element. `SpendLast`, `Spend` and `Look` are the two updates of
`spendLimitedUse` and the read that decides between an answer and another try;
`Read` and `Refill` (or `RefillMisses`) are `casLimitedUseWith`; adding, updating
and removing are one update each. `changes` counts the writes by others during a
spend and `flipped` remembers entries made one-time while they were at zero. A
coin request is one guarded `$inc`: `AdjustCoins` with its guard `Covers`, and
`ConvertCoins` of what `ConvertedAmount` allows. `PlayerSheet` interleaves the two,
which touch different fields of one document.

### Accounts, PasswordReset

`user` is the document of the account that is followed, `taken` the addresses the
others hold, `worker` the handlers, each at the store call it is about to make
with what it read (`to`, `code`). A code is known by the address it was mailed
to, or is `Lost`; `age` counts clock ticks since it was sent. `Register`, `Login`,
`ResendVerification`, `ChangeEmail`, `ResendEmailChange` are the reading halves;
`Create`, `SetVerificationCode`, `SetPendingEmailCode`, `MarkVerified`,
`IncrementVerifyAttempts`, `CommitEmailChange` the updates of `store/user.go`, with
`CreateRefused` and `CommitRefused` for what the unique index refuses. Nobody
enters a code that was lost, and who enters the right one reads the mail of the
address it went to: that is what `proved` remembers. `overwritten` is history too:
a sign-up code stored while a change of address was pending.

`PasswordReset` extends it. `session` is the reset session of each address, `quiet`
its cooldown. `ForgotPassword` (with `MarkSent`), `SetCode`, `VerifyResetCode` (the
read), `IncrAttempts` (reservation and comparison), `PromoteToToken`, `ResetPassword`
(the reads), `MarkPasswordReset`, `Clear` are the calls in their order. `Restart`
ends every request and, when the store is the process's memory, empties it.
`guesses` is history: the requests `IncrAttempts` has let through to the comparison
since the session was set. A request compares with the code it read, so after a new
`SetCode` this may be the replaced one (divergence 17): what is counted are the
guesses a session pays for, whichever code they are compared with.

`AddressBook` is what the three flows come to when codes, sessions, retries and stale
reads are forgotten: an account is signed up once at a free address (`SignUp`), is
verified for good by what its address received (`Verify`), and moves from a verified
address to a free one that was proved (`Move`); `MixUp` is the one way in which that
proof may be lost, divergence 11. `PasswordReset` instantiates it (`Book`) with the
stored document in place of the address and the flag.

### Journal

`entries` and `pins` are functions of ids; locations and NPCs have the same code but
for what a cascade copies and are one function here, told apart by the sets of ids.
`link` stands for the list of linked entries, `from` for the clone audit, `open` for
the visibility. `Share` reads and looks for a clone; `FindLinked` and `CloneLinked`
bring the link along (`cloneNpcForRecipient`, `cloneLocationForRecipientShallow`);
`CloneEntry` stores the clone; `FindPin` and `ClonePin` are the pin cascade; `SharePin`
is the share of a pin. `Delete`, `DeleteEntry`, `DeleteByEntity` are a deletion.

`objects` is the bucket. `Upload` is a client's use of a presigned URL. `CreateEntry`
stores any key of the request, as `Create` does without a look at the bucket;
`UpdateImage` goes on with any key that is stored (`Verified`), whoever uploaded or
shows it, followed by `Patch` and `DeleteImage`, which deletes the image read at the
start. `DeleteElsewhere` is the deletion of an image by a player, a map or an item,
which live in other collections and whose requests name keys in the same way.

`raced`, `late`, `unswept`, `holders`, `blind` and `overlapped` are history, one for
each case in which the code lets a property down, and each property excepts just
that one. `holders` are the documents ever given an image, by a request or as a
clone; an image is an entry's own (`Sole`) while there is no other. `blind` are the
entries created with an image that was not there.

## 3. Runs

| Run | Instance | Shows |
|---|---|---|
| `encounter` | 2 PCs, 1 NPC of the roster, 1 enemy to add, two rolls, two names (a tie), 2 encounters | see below |
| `tracker_serves` | 2 handlers, every kind of request | sync, TTL, every request answered |
| `tracker_history` | 1 PC, 1 NPC of the roster, 2 enemies to add, 2 handlers, 3 encounters, versions to 4, `QuietSpec` | no lost update, own turn only, refinement of `Encounter`, stored orders stable and those of the slice code, rounds fair |
| `tracker_resolve` | 2 handlers | *violation*: a late write reopens a resolved call |
| `hub` | 2 publishers, 2 streams, buffer 1, 2 writes | nothing missed, publish never blocks |
| `sessions` | 1 player and the DM, 2 sessions, 2 handlers; stale copies only while there is one session | timezone, archive, no late entry; a confirmed slot stands beside what it was confirmed over |
| `sessions_lost` | the same without that bound | *violation*: an availability is lost |
| `content` | 2 players, 1 request, 2 entries, 2 handlers | naming, one outcome and a final one, bags |
| `membership` | a DM and a player, 4 player ids, 2 handlers, every kind of request | members and players agree, companions, no strays |
| `sheet` | 1 ability spent and changed by 2 handlers, maximum 3; gold and electrum up to 2 | counts, last uses, refusals, refills; purse and worth |
| `accounts` | 2 addresses, 2 handlers, 2 attempts, cooldown and expiry of one tick, four families of operations | unique and proved addresses, bounded guesses per session, refinement of `AddressBook`, sign-up and reset complete |
| `journal` | 2 players, 3 locations, 2 NPCs, 3 pins, 2 images, 2 handlers, fourteen scenarios | one clone, pins follow, an entry's own image stays stored |

Why the bounds are enough. Two handlers show every pair of overlapping operations, and
each of the interferences above is between two; the third try of a mutation needs a
handler that commits repeatedly, which a single other handler does. Three participants
plus an added one give a middle to the order, a tie, an acting one first, last and
gone, and somebody who joins a running cycle. A buffer of one is full after one write,
so drops occur. Two sessions let a write to one damage the other, and a cascade miss
one; that copies are stale only while there is one session (`BoundedSpec`) bounds the
arrays which are stored and held at a time, and an array is written whole whatever it
has; one request can be approved twice into two entries. Four player ids are the DM's,
a PC, his companion and one more of any kind, and ids are used again when no trace of
them is left. A maximum of three leaves room for a count in between; the retry of a
spend needs one restore in between.

`Families` and `Scenarios` are bounds as well: a behaviour of `MCAccounts` or
`MCJournal` draws its operations from one named set, and the sets contain every pair
of operations that meet in a property (sign-up against itself and against a reset, a
sign-up code against a change of address; shares against shares, deletes, image
changes and failures). The modules and the proofs are about any such sets, the set of
all operations among them. An account starts unknown, verified, or unverified with a
code that never came, so that a change of address need not be preceded by a sign-up.
Two attempts stand for `maxVerifyAttempts`, five: one can be used up and raced for.
With one tick of cooldown and of expiry a code is fresh, old or expired. Three ids of
a kind are an original and two clones, and an entry has at most one link, a request
one recipient and one pin: the loops repeat the step that is modelled. In the
scenarios about images every request may name either of two keys: one that an entry
shows, one that is stored and shown by nobody or by the other entry, or one still to
be uploaded. An image that is changed, changed back and changed again passes through
both. They leave a few ids unused, enough for an entry or a clone.

The `OrderIsFrozen` of `encounter` also binds the late writes of `LateSpec`: they are
judged as edits of the call they find, reopened (`AsOpen`).

`tracker_history` looks at stored documents as well: the order derived from one is the
one stored in it (`StoredOrderIsStable`), from it and from every edit a request may
make of it the slice code derives the same order as `TurnOrderIds` (`AgreesWithCode`;
the sort is an insertion sort there, any stable one gives the same slice), and from
each of them as many end-turns as there are participants give everybody one turn and
restore the order (`ARoundIsFair`). It has two enemies to add so that a round can have
three places, the fewest in which exchanging two of them differs from rotating.
Handlers, encounters and the enemies to come are symmetric there: no property names
one of them.

## 4. Fairness and restricted specifications

* `Encounter!PlayedSpec`: somebody keeps ending turns while two or more take part.
  It is an assumption about the table, used for `EveryoneGetsATurn` only, and that
  property excepts a DM who re-sorts for ever.
* `InitiativeTracker!FairSpec`, `InitiativeHub!FairSpec`: goroutines that can run do,
  and the driver returns; clients need not send requests or read streams.
  `EveryWriteIsSeen` also assumes a reading client, and says so in its formula.
  Weak fairness is written out as "infinitely often idle, or infinitely often a
  step", because the enabling condition is just that the handler is busy.
* `InitiativeTracker!QuietSpec`: no Start while another handler is between its load
  and its write. The properties about one encounter's history need it: a handler
  that still holds version 1 of the encounter before passes the version check of the
  new one (divergence 4).
* `MCCampaignSessions!BoundedSpec` is a bound, not an assumption: the theorems about
  sessions are of `Spec`.
* `PasswordReset!FairSpec`: the clock runs and a handler that has begun ends.
  `SignUpCompletes` and `ResetCompletes` add, in their formulas, an owner who keeps
  trying (`OwnerSignsUp`, `OwnerResets`): each step is taken if it is possible again
  and again, so that a mail arrives now and then, and a window that others leave
  open often enough is used. Nothing is assumed of the other clients.

Versions, encounters, seats and writes are bounded by named constants (`MaxVersion`,
`Seats`, `MaxWrites`; the server bounds none of them). Uuids and random ids are fresh
by construction: a fresh one is one of which no document and no handler has a trace.

## 5. What is proved

For any sets of participants, handlers, requests, publishers and streams, and
any interleaving, conflict, abort and restart:

* `InitiativeTrackerProofs!SyncBringsInSync`: `SyncTurnState` makes any open call with
  distinct list seats in sync. It rests on lemmas about `Merge`, a strict order on
  those who take turns, along which `Listing` lists each of them exactly once, and
  about rotation. Every closure returns a call of the right type with distinct seats.
* `TypesHold`, `TurnsInSync`, `OpenNeverExpires` of the tracker. The stored
  call's sync is not inductive by itself: a commit writes what was computed from
  the handler's copy, so the invariant (`IInv`) also says that every copy a handler is
  about to write is an open, well-seated, unarmed call. Seats must be distinct because
  otherwise the sort is no order.
* `OrdersAreStable`: `IInv` also keeps that before the first ended turn the order is the
  sorted one. There is only one way to list a set along a strict order
  (`SortedIsListing`), so what is in sync is derived again as it is.
* `RoundsAreFair`: ending a turn moves the first to the end and is stable in turn, so
  the call after k ended turns is the stored one with its order rotated by k. That is
  an induction on k; it is done with the least number for which a claim would fail
  (`Counting`, from the well-foundedness of < on the naturals), also to show that the
  recursive function which counts the turns exists. The rest is arithmetic modulo the
  number of participants.
* `CodeAgrees`: in every open document that is stored, and in all that a request may make
  of one, the loops of `turnorder.go` arrive at `TurnOrderIds`, ties, late joiners and an
  acting one who is gone included. A loop over a slice is a recursive function, shown
  to exist and to be the only one by counting (`LoopRuns`, `LoopIsUnique`); each loop
  then gets its contract, again by counting up to the length of the slice
  (`FilterRuns`, `SortRuns`, `SortSorts`). Stability of the sort is put through the list
  position: participants go in by seat, so behind all that tie with them. What was
  persisted followed by what is missing is then listed along `Merge`, and a set has
  one listing along a strict order, so the slice is `Listing`.
* `WritesLoseNothing` and `PlayersEndTheirOwn`, of `QuietSpec`. The invariant
  (`HistoryInv`) compares copy and store: a handler about to write holds a version no
  newer than the stored one, and if the two are equal so are the documents, but for
  a Resolve. For the second theorem the head of the order a request is judged by must
  be the stored turn of the copy, which sync says (`DerivedHeadIsCurrent`).
* `TrackerImplementsEncounter`, of `QuietSpec` as well: each step of the handlers is a
  step of `Encounter` or a stutter. The mapping forgets the version, so the lemmas say
  that no edit and no order looks at it; a commit is the abstract edit of the stored
  call since the copy is that call, and a commit that lands on a resolved one is
  the late write `Encounter!LateSpec` allows. `Seats` is `Nat` there.
* `OrdersAreFrozen`, of `QuietSpec`: `Encounter`'s `OrderIsFrozen` of the call as the
  handlers write it. It follows from the refinement: whatever step of `Encounter` a
  step of theirs is, it is shown there to keep the places of those who stay.
* `CampaignSessionsProofs!TypesHold`, of `Spec`, lost updates included.
  `SchedulesHaveATimezone` and `ArchivedPlayersStayOut`: the invariant (`FreshInv`) says,
  until an array is written that is stale, what a handler knows of its request: one
  that may begin a schedule brings a timezone, unless there is a schedule already or
  no session any more (`ZoneKnown`), which makes `ZonedSchedules` inductive; and an
  availability under way is of a player who was active when it was let in, so that
  one that comes after an archiving is remembered as such (`PutsAreKnown`).
* `ConfirmedSlotsHold`: `SlotStandsOnWhatWasShown`, whatever arrays are written
  over each other. It is about one array at a time, so the invariant (`LockInv`) says the
  same of the stored array and of every copy about to be written, and it is enough that
  each edit of such an array leaves another: a put is refused by the lock of the very
  copy it edits, and a confirmation takes the availabilities of its own copy.
* `ContentRequestsProofs!TypesHold`: later steps find an entry to work on
  because no handler loses the one it has made or changed.
  `ApprovalsNameTheirEntry` and `OutcomesMatchRequests`: the invariant (`QueueInv`) adds
  that an undisputed request is worked on by one handler at a time (`OneAtATime`), who
  has read it as it is (`ReadIsCurrent`), that a request keeps its kind, that an entry
  made from a proposal came of a creation, and that who is about to resolve a request
  has its entry in hand (`ResolvesItsEntry`). `DecisionsAreFinal` follows from the same
  invariant: who works alone on a proposal has read it pending, and it is so still.
  `BagsFollowSight`: a player who takes something has seen it or is excused
  (`TakesAreKnown` with `BagsFollowVisibility`, `BagInv`).
* `MembershipProofs!TypesHold`, `MembersMatch`. A member entry is written after its
  player, so the invariant (`MembershipInv`) also speaks of entries to come: the
  player a handler has stored and will enter is of the right user and kind, and
  no entry and no other such handler names it. That ids are fresh keeps this
  true. `UpdatesKeepPlayers`: no step changes what a stored player is and whose, since
  updates are filtered and ids are not used twice.
* `MembershipProofs!CompanionsFollow`, `NobodyStrays`. The invariant (`CompanyInv`) adds
  what earlier reads are worth (`ReadsTrue`: the player a handler has read is what he
  was or is gone), that only the one who creates the campaign is there before it
  (`InItsTime`, `OneCreator`), and what a deletion has swept (`SweepsAll`: the listed
  players are all there are, but for late ones). It is shown once for steps in which
  documents at most go (`ShrinkKeeps`) and once for a new document (`PutFollows`).
* `PlayerSheetProofs!UsesStayWithinMax`, `LastUseEndsTheEntry`, `RefillIsOfTheStored`.
  The invariant (`UsesInv`) adds what a writer knows of its copy: a restore about to
  write has read an entry with uses missing. Compare-and-set carries that over to
  what is stored, also when the maximum has been lowered meanwhile.
  `SpendsAreNotRefused`: a spend ends in a refusal after two updates that did not
  match and a look. The invariant (`SpendInv`) says what each of the two has seen: past
  an update that did not match, either the entry has no uses of that sort, or others
  have written to it in this try.
  `PurseIsNeverOverdrawn`, `ConvertingKeepsWorth`: single guarded updates, so the
  invariant is itself inductive; the second is arithmetic over every pair of
  denominations. `PartsAreIndependent`: the composed sheet implements both
  components, so these hold of it too.
* `AccountsProofs!UniqueAddresses`, `AddressesAreProved`, `GuessesAreBounded`. That a
  verified address was proved needs, for every code that is stored or held by a
  handler, whose mailbox it went to: the sign-up code of an unverified account to
  its address, the code of a pending change to the pending address, unless
  `overwritten`. `GuessesAreBounded` is about a session, from one `SetCode` to the
  next: it needs that `guesses` never exceeds the count, which is raised before any
  request is let through and reset together with it. It is no bound on the guesses
  at one code. `FlowsImplementBook`: every update of
  the document is a step of `AddressBook` or changes nothing of it. The step is known
  by the update alone; that its guard holds is what the invariant says of the handler:
  a code about to verify went to the account's address, one about to move it to the
  pending address unless `overwritten`, and only a verified account has a change pending
  or to come.
* `JournalProofs!NoPinIsLeft`: after the sweep no pin on the entry is left, a pin
  stored later counts as `late`, and ids are never used twice. `ImagesStay`, with keys
  named by requests at will: the invariant (`ImageInv`) says that an entry has been
  given what it shows, and that this is stored if it is the entry's own (`EntrySafe`);
  that a key a running change has verified stays stored unless something else was
  given it, and that what the change goes on to delete is not the entry's own image
  any more (`ChangeSafe`). What a share has read was given to somebody (`ReadSafe`),
  so a clone is never the only holder. Two changes of one entry at a time are
  `overlapped` (`NoSecondChange`). Histories only grow (`GrownStaysSafe`), so each
  step need be looked at for the entry it changes and for the object it deletes. It
  assumes that a scenario starts with stored images. `SharesCloneOnce`: a handler
  looks for a clone and makes it in another step, so the invariant (`CloneInv`) counts
  who has looked and found none: unless two of them overlapped (`raced`), there is at
  most one, and only while there is no clone. A share seeks a clone of the entry and
  one of what it links to; that these are two different clones needs that links go
  from one kind of entry to the other and clones stay within theirs, which is part of
  the invariant. It assumes that a scenario starts with links and clones of that shape
  and no clone twice.
* `InitiativeHubProofs!TypesHold`, `WritesReachStreams`: `NothingMissed` needs that
  a joined stream is among the subscribers, that a publisher's targets contain every
  subscriber that was there when its write was published, and that a write is
  either older than the stream's read, still with its publisher, or past it.

The assumptions are the named ASSUMEs on the constants (sentinels lie outside
the types they stand beside, the roster has distinct seats, bounds are
naturals); TLC evaluates them in the runs.

Only model-checked: all liveness (`EveryoneGetsATurn`, `EveryRequestAnswered`,
`EveryWriteIsSeen`, `PublishNeverBlocks`, `SignUpCompletes`, `ResetCompletes`), since
fairness and ENABLED are beyond the prover; `OrderIsFrozen` in `Encounter`
by itself, of which the tracker's use is proved; and
`LockedScheduleTakesNoEntry`. The type invariants are proved, and no
run repeats them.

## 6. Divergences the models met

Two runs end in a violation, each with its finding in `PROJECT.json`:

1. Resolve is called terminal, but leaves the version alone; a mutation loaded
   before it is written after it and the call is open again, for good
   (`tracker_resolve`).
2. "Only their own entry is replaced": the whole array is, and a concurrent
   entry is lost (`sessions_lost`).

The others were met in writing the models and have no run of their own; where one
would break a property, a history variable excepts it and nothing else, but for `stale`,
which ends what is promised of schedules.

3. Once a slot is confirmed nobody changes availability until the DM clears it
   (`store/campaign.go:466`); but a write of an availability that read the schedule
   open puts it back open, and the confirmation made meanwhile is gone (`stale`).
4. Start is called the only clearing of a prior document, but resets the version
   to 1; a handler at version 1 of the old encounter overwrites the new one
   (hence `QuietSpec`).
5. Publishes are not ordered like writes, so "the next successful send" may be
   older, and a client stays on it until the next mutation.
6. A request is "NOT deleted on approve/deny" (`model/content_request.go:18`), but a
   withdrawal that found it pending deletes it by id (`ContentRequests!Withdraw`);
   `DecidedIsFinal` excepts proposals two calls worked on at once (`disputed`).
7. A locked schedule still lets a member delete his availability
   (`store/campaign.go:466` against 501-548).
8. `DeleteSession` never reports a missing session, because the same update sets
   `updatedAt` (`store/campaign.go:173`).
9. "Every member has a backing Player record" (`model/campaign.go:62`): deleting a
   player leaves his user's entry, and after a new invitation the dead entry is
   the one `findMember` finds. `MembersMatchTheirPlayers` therefore speaks of
   members whose player exists.
10. Deleting a campaign "deletes all players in the campaign"
   (`handler/campaign.go:415`), but not those inserted after the listing (`late`).
11. An address is swapped "only on a confirmed code" (`model/user.go:19`), but a
    sign-up code issued from a stale read replaces that of a pending change and
    then commits it (`overwritten`).
12. A code sent within the cooldown "still stands" (`handler/auth.go:233`) even if its
    attempts are used up or its mail was lost.
13. A reset token is "single-use" (`handler/auth.go:603`), but overlapping resets both
    go through, and it stays if `Clear` fails.
14. A clone shares its source's image, and changing either's image deletes the object
    of both (`holders`).
15. Sharing is "idempotent" (`handler/location.go:372`), but overlapping shares each
    make a clone (`raced`), and a share whose pin cascade failed is not completed by
    repeating it.
16. "Sub-locations cannot have their own sub-locations" (`handler/location.go:125`), but
    a location that has some can be moved below another.
17. Attempts are reserved "so concurrent guesses can't all pass the read-then-check"
    (`handler/auth.go:562`), but counted on the session stored at that moment and
    compared with the code read before: after a new request of a code, guesses at the
    replaced one are paid for by the new session. `TriesAreBounded` counts them there.
18. "Too many attempts" end in a refusal (`postman/README.md:66`), but for sign-up and
    change-of-address codes the count is read, the code compared and the count raised
    afterwards: overlapping requests are all compared. No property bounds these.
19. An image is verified to be stored (`avatarstore/avatarstore.go:239`), but creating a
    location or an NPC stores the key without that (`blind`), and nothing asks whose
    image a key names: two entries given one key lose it when either is changed
    (`holders`).

## 7. Not modelled

Rate limiting (its state is in a library), the presigning of URLs and its cache, the
catalog, mail texts, configuration, start-up and migration commands: no protocol of
their own. Of a player document: names, ability scores, hit points, spell slots,
prepared spells, images; of a campaign: its PATCH, images and disabled content. Of an
account: its password (a request with a wrong one changes nothing), the change of
password while signed in, session tokens and their revocation, and deployments with
verification switched off. Of the journal: parent locations, moving a pin, changes
to links, and several recipients, links or pins in one share. Members of a campaign
do not change in `Journal`.

## 8. Plan

1. *Done*: tracker, hub, sessions, content, membership, limited uses and coins,
   accounts and password reset, journal, and the proofs of section 5.
2. *Done*: the proofs about sessions, content requests, spends, clones, stable and
   frozen orders, rounds, the slice code, and the address book.
3. An abstract `Membership` (campaign, players and companions changed at once) and the
   conditions under which the detailed one implements it.
4. Session tokens: issue time against `passwordChangedAt`, with the clock of `Accounts`.
