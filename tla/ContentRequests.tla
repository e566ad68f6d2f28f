---------------------------- MODULE ContentRequests ----------------------------
(***************************************************************************)
(* The moderation queue for custom items and spells of one campaign        *)
(* (handler/content_request.go, store/content_request.go), the live        *)
(* entries it leads to (custom_equipment.go, custom_spell.go of handler    *)
(* and store) and the players' bags that hold them (inventory.go,          *)
(* spell.go and store/player.go).  Items and spells are handled alike.     *)
(*                                                                         *)
(* A handler reads what it decides on and then acts in one or more further *)
(* store calls, none of which repeats the decision.  The visibility mode   *)
(* "campaign" is the list of all players; quantities, names and images are *)
(* left out.                                                               *)
(***************************************************************************)
EXTENDS FiniteSets, Functions

CONSTANTS
    Players,      \* members but for the DM, and their bags
    DM,
    RequestIds,   \* ids of proposals
    EntryIds,     \* ids of live custom entries
    Contents,     \* what an entry or a proposal says
    Handlers,     \* calls served at the same time
    Calls,        \* the calls clients may make
    Absent,       \* no document of that id
    NoEntry,      \* an empty resultId
    NoCall        \* the call of an idle handler

ASSUME SentinelAssumption ==
    DM \notin Players /\ NoEntry \notin EntryIds /\ NoCall \notin Calls
ASSUME DMIsNoRequest == DM \notin RequestIds

Proposal == [kind : {"create", "edit"}, status : {"pending", "approved", "denied"},
             by : Players \cup {DM}, payload : Contents, result : EntryIds \cup {NoEntry}]

\* from and touched are history: the request an entry was made from, and
\* whether its contents were rewritten since.
Entry == [content : Contents, seenBy : SUBSET Players,
          from : RequestIds \cup {DM}, touched : BOOLEAN]

ASSUME AbsentAssumption == Absent \notin Proposal /\ Absent \notin Entry

Ops == {"propose", "withdraw", "approve", "deny", "revise",
        "create", "rewrite", "reshare", "delete", "take", "drop"}

\* One shape for every call; an operation reads the fields it needs.
Call == [op : Ops, by : Players \cup {DM}, request : RequestIds, entry : EntryIds,
         kind : {"create", "edit"}, content : Contents, seenBy : SUBSET Players,
         player : Players]

ASSUME CallsAssumption == Calls \subseteq Call

VARIABLES
    requests,   \* collection content_requests
    entries,    \* collections custom_equipment and custom_spells
    bags,       \* the custom entries in each player's inventory and spell list
    worker,     \* what each handler is doing
    disputed,   \* history: requests two calls worked on at once, or one left half done
    excused     \* history: bags that may hold what their player cannot see

vars == <<requests, entries, bags, worker, disputed, excused>>

Stages == {"idle", "insert", "withdraw", "materialise", "apply", "cascade",
           "resolve", "revise", "create", "rewrite", "reshare", "delete", "purge",
           "take", "drop"}

\* snap is the proposal as it was read, entry the live entry worked on.
Worker == [stage : Stages, call : Calls \cup {NoCall},
           snap : Proposal \cup {Absent}, entry : EntryIds \cup {NoEntry}]

Idle == [stage |-> "idle", call |-> NoCall, snap |-> Absent, entry |-> NoEntry]

TypeOK ==
    /\ requests \in [RequestIds -> Proposal \cup {Absent}]
    /\ entries \in [EntryIds -> Entry \cup {Absent}]
    /\ bags \in [Players -> SUBSET EntryIds]
    /\ worker \in [Handlers -> Worker]
    /\ disputed \subseteq RequestIds
    /\ excused \subseteq Players \X EntryIds

Init ==
    /\ requests = [q \in RequestIds |-> Absent]
    /\ entries = [e \in EntryIds |-> Absent]
    /\ bags = [p \in Players |-> {}]
    /\ worker = [h \in Handlers |-> Idle]
    /\ disputed = {} /\ excused = {}

-----------------------------------------------------------------------------
\* CanPlayerSeeEntry of an entry that may be gone.
CanSee(e, m) == entries[e] # Absent /\ (m = DM \/ m \in entries[e].seenBy)

\* CanResolveRequest and CanWithdrawRequest, of the request as it is read.
AnyStatus(q) == requests[q] # Absent

Pending(q) == requests[q] # Absent /\ requests[q].status = "pending"

\* What each handler checks before it writes anything: the role of the caller
\* and the documents it looks at first.
Admits(c) ==
    CASE c.op = "propose" -> c.kind = "edit" => CanSee(c.entry, c.by)
      [] c.op = "withdraw" -> Pending(c.request) /\ requests[c.request].by = c.by
      [] c.op \in {"approve", "deny"} -> c.by = DM /\ Pending(c.request)
      [] c.op = "revise" -> Pending(c.request) /\ c.by \in {DM, requests[c.request].by}
      [] c.op \in {"rewrite", "reshare"} -> c.by = DM /\ entries[c.entry] # Absent
      [] c.op \in {"create", "delete"} -> c.by = DM
      [] c.op = "take" -> c.by \in {DM, c.player} /\ entries[c.entry] # Absent
                          /\ (c.by = DM \/ CanSee(c.entry, c.player))
      [] c.op = "drop" -> c.by \in {DM, c.player}

FirstStage(c, snap) ==
    CASE c.op = "propose" -> "insert"
      [] c.op = "deny" -> "resolve"
      [] c.op = "approve" -> IF snap.kind = "edit" THEN "apply" ELSE "materialise"
      [] OTHER -> c.op

WorksOn(h, q) ==
    /\ worker[h].call # NoCall /\ worker[h].call.request = q
    /\ worker[h].call.op \in {"withdraw", "approve", "deny", "revise"}

Receive(h, c) ==
    /\ worker[h].stage = "idle"
    /\ Admits(c)
    /\ LET onRequest == c.op \in {"withdraw", "approve", "deny", "revise"}
           snap == IF onRequest THEN requests[c.request] ELSE Absent
           target == CASE c.op = "approve" /\ snap.kind = "edit" -> snap.result
                       [] c.op = "propose" /\ c.kind = "edit" -> c.entry
                       [] c.op \in {"rewrite", "reshare", "delete", "take", "drop"} -> c.entry
                       [] OTHER -> NoEntry
       IN  /\ worker' = [worker EXCEPT ![h] = [stage |-> FirstStage(c, snap), call |-> c,
                                               snap |-> snap, entry |-> target]]
           /\ disputed' = IF onRequest /\ \E g \in Handlers : WorksOn(g, c.request)
                          THEN disputed \cup {c.request} ELSE disputed
    /\ UNCHANGED <<requests, entries, bags, excused>>

Answer(h) == worker' = [worker EXCEPT ![h] = Idle]
Proceed(h, stage) == worker' = [worker EXCEPT ![h].stage = stage]

-----------------------------------------------------------------------------
\* GenerateID draws ids until one is free; random ones do not come back.
FreshRequest(q) ==
    /\ requests[q] = Absent /\ q \notin disputed
    /\ \A e \in EntryIds : entries[e] # Absent => entries[e].from # q
    /\ \A h \in Handlers : ~WorksOn(h, q)

FreshEntry(e) ==
    /\ entries[e] = Absent
    /\ \A p \in Players : e \notin bags[p] /\ <<p, e>> \notin excused
    /\ \A q \in RequestIds : requests[q] # Absent => requests[q].result # e
    /\ \A h \in Handlers : worker[h].entry # e

Insert(h) ==
    /\ worker[h].stage = "insert"
    /\ \E q \in RequestIds :
          LET c == worker[h].call
          IN  /\ FreshRequest(q)
              /\ requests' = [requests EXCEPT ![q] =
                    [kind |-> c.kind, status |-> "pending", by |-> c.by,
                     payload |-> c.content,
                     result |-> worker[h].entry]]
    /\ Answer(h)
    /\ UNCHANGED <<entries, bags, disputed, excused>>

\* Delete by id, whatever the status has become.
Withdraw(h) ==
    /\ worker[h].stage = "withdraw"
    /\ requests' = [requests EXCEPT ![worker[h].call.request] = Absent]
    /\ Answer(h)
    /\ UNCHANGED <<entries, bags, disputed, excused>>

\* UpdatePayload by id, whatever the status has become.
Revise(h) ==
    /\ worker[h].stage = "revise"
    /\ LET q == worker[h].call.request
       IN  requests' = IF requests[q] = Absent THEN requests
                       ELSE [requests EXCEPT ![q].payload = worker[h].call.content]
    /\ Answer(h)
    /\ UNCHANGED <<entries, bags, disputed, excused>>

\* The live entry of an approved proposal, or one the DM makes himself.
NewEntry(h, stage, content, from) ==
    /\ worker[h].stage = stage
    /\ \E e \in EntryIds :
          /\ FreshEntry(e)
          /\ entries' = [entries EXCEPT ![e] =
                [content |-> content, seenBy |-> worker[h].call.seenBy,
                 from |-> from, touched |-> FALSE]]
          /\ worker' = [worker EXCEPT ![h] =
                IF stage = "create" THEN Idle
                ELSE [worker[h] EXCEPT !.stage = "resolve", !.entry = e]]
    /\ UNCHANGED <<requests, bags, disputed, excused>>

Materialise(h) ==
    NewEntry(h, "materialise", worker[h].snap.payload, worker[h].call.request)

Create(h) == NewEntry(h, "create", worker[h].call.content, DM)

-----------------------------------------------------------------------------
\* Players whose entry is just on its way into their bag when it is hidden.
TakenMeanwhile(e) ==
    {<<p, e>> : p \in {p \in Players : \E h \in Handlers :
                          /\ worker[h].stage = "take"
                          /\ worker[h].entry = e /\ worker[h].call.player = p}}

Gone(h, stage) ==
    /\ worker[h].stage = stage
    /\ entries[worker[h].entry] = Absent
    /\ Answer(h)
    /\ UNCHANGED <<requests, entries, bags, disputed, excused>>

\* The update of an entry that is still there.
Update(h, stage, entry) ==
    /\ worker[h].stage = stage
    /\ entries[worker[h].entry] # Absent
    /\ entries' = [entries EXCEPT ![worker[h].entry] = entry]
    /\ UNCHANGED <<requests, bags, disputed>>

\* applyEdit: contents from the proposal, visibility from the DM.
ApplyEdit(h) ==
    /\ Update(h, "apply", [entries[worker[h].entry] EXCEPT
                              !.content = worker[h].snap.payload, !.touched = TRUE,
                              !.seenBy = worker[h].call.seenBy])
    /\ Proceed(h, "cascade")
    /\ excused' = excused \cup TakenMeanwhile(worker[h].entry)

Reshare(h) ==
    /\ Update(h, "reshare", [entries[worker[h].entry] EXCEPT
                                !.seenBy = worker[h].call.seenBy])
    /\ Proceed(h, "cascade")
    /\ excused' = excused \cup TakenMeanwhile(worker[h].entry)

Rewrite(h) ==
    /\ Update(h, "rewrite", [entries[worker[h].entry] EXCEPT
                                !.content = worker[h].call.content, !.touched = TRUE])
    /\ Answer(h)
    /\ UNCHANGED excused

UpdateGone(h) == \E stage \in {"apply", "reshare", "rewrite", "delete"} : Gone(h, stage)

\* Best effort: a cascade that fails is logged and the handler goes on.
AfterCascade(h) ==
    IF worker[h].call.op = "approve" THEN Proceed(h, "resolve") ELSE Answer(h)

\* Whoever was cleaned out is excused no longer, but for what is on its way.
Settled(e, cleaned) == (excused \ (cleaned \X {e})) \cup TakenMeanwhile(e)

\* A mutant: $in for $nin.
CascadeInverted(h) ==
    /\ worker[h].stage = "cascade"
    /\ bags' = [p \in Players |-> IF p \in worker[h].call.seenBy
                                  THEN bags[p] \ {worker[h].entry} ELSE bags[p]]
    /\ excused' = Settled(worker[h].entry, worker[h].call.seenBy)
    /\ AfterCascade(h)
    /\ UNCHANGED <<requests, entries, disputed>>

Cascade(h) ==
    /\ worker[h].stage = "cascade"
    /\ bags' = [p \in Players |-> IF p \in worker[h].call.seenBy
                                  THEN bags[p] ELSE bags[p] \ {worker[h].entry}]
    /\ excused' = Settled(worker[h].entry, Players \ worker[h].call.seenBy)
    /\ AfterCascade(h)
    /\ UNCHANGED <<requests, entries, disputed>>

Leftovers(e) == {<<p, e>> : p \in {p \in Players : e \in bags[p]}}

CascadeFails(h) ==
    /\ worker[h].stage = "cascade"
    /\ excused' = excused \cup Leftovers(worker[h].entry)
    /\ AfterCascade(h)
    /\ UNCHANGED <<requests, entries, bags, disputed>>

\* DeleteWithCascade.
Delete(h) ==
    /\ worker[h].stage = "delete"
    /\ entries[worker[h].entry] # Absent
    /\ entries' = [entries EXCEPT ![worker[h].entry] = Absent]
    /\ Proceed(h, "purge")
    /\ excused' = excused \cup TakenMeanwhile(worker[h].entry)
    /\ UNCHANGED <<requests, bags, disputed>>

Purge(h) ==
    /\ worker[h].stage = "purge"
    /\ bags' = [p \in Players |-> bags[p] \ {worker[h].entry}]
    /\ excused' = Settled(worker[h].entry, Players)
    /\ Answer(h)
    /\ UNCHANGED <<requests, entries, disputed>>

PurgeFails(h) ==
    /\ worker[h].stage = "purge"
    /\ excused' = excused \cup Leftovers(worker[h].entry)
    /\ Answer(h)
    /\ UNCHANGED <<requests, entries, bags, disputed>>

\* The DM may put anything into a bag, and a player what he has seen.
Take(h) ==
    /\ worker[h].stage = "take"
    /\ bags' = [bags EXCEPT ![worker[h].call.player] = @ \cup {worker[h].entry}]
    /\ excused' = IF worker[h].call.by = DM
                  THEN excused \cup {<<worker[h].call.player, worker[h].entry>>}
                  ELSE excused
    /\ Answer(h)
    /\ UNCHANGED <<requests, entries, disputed>>

Drop(h) ==
    /\ worker[h].stage = "drop"
    /\ bags' = [bags EXCEPT ![worker[h].call.player] = @ \ {worker[h].entry}]
    /\ excused' = Settled(worker[h].entry, {worker[h].call.player})
    /\ Answer(h)
    /\ UNCHANGED <<requests, entries, disputed>>

-----------------------------------------------------------------------------
Verdict(c) == IF c.op = "approve" THEN "approved" ELSE "denied"

\* A mutant: no result id.
ResolveWithoutResult(h) ==
    /\ worker[h].stage = "resolve"
    /\ LET c == worker[h].call
       IN  requests' = IF requests[c.request] = Absent THEN requests
                       ELSE [requests EXCEPT ![c.request].status = Verdict(c)]
    /\ Answer(h)
    /\ UNCHANGED <<entries, bags, disputed, excused>>

\* Resolve by id, whatever the status has become; 500 if the request is gone.
\* A denial leaves the result id alone.
Resolve(h) ==
    /\ worker[h].stage = "resolve"
    /\ LET c == worker[h].call
       IN  requests' = IF requests[c.request] = Absent THEN requests
                       ELSE [requests EXCEPT
                                ![c.request].status = Verdict(c),
                                ![c.request].result =
                                    IF c.op = "approve" THEN worker[h].entry ELSE @]
    /\ Answer(h)
    /\ UNCHANGED <<entries, bags, disputed, excused>>

\* A store call fails, the client goes away or the process dies.
Abort(h) ==
    /\ worker[h].stage # "idle"
    /\ disputed' = IF worker[h].stage \in {"cascade", "resolve"}
                      /\ worker[h].call.op = "approve"
                   THEN disputed \cup {worker[h].call.request} ELSE disputed
    /\ excused' = IF worker[h].stage \in {"cascade", "purge"}
                  THEN excused \cup Leftovers(worker[h].entry) ELSE excused
    /\ Answer(h)
    /\ UNCHANGED <<requests, entries, bags>>

Serve(h) ==
    \/ Insert(h) \/ Withdraw(h) \/ Revise(h) \/ Materialise(h) \/ ApplyEdit(h)
    \/ Cascade(h) \/ CascadeFails(h) \/ Resolve(h)
    \/ Create(h) \/ Reshare(h) \/ Rewrite(h) \/ UpdateGone(h)
    \/ Delete(h) \/ Purge(h) \/ PurgeFails(h) \/ Take(h) \/ Drop(h)

Next == \E h \in Handlers :
    Serve(h) \/ Abort(h) \/ (\E c \in Calls : Receive(h, c))

Spec == Init /\ [][Next]_vars

-----------------------------------------------------------------------------
\* "On approval of a create request, a live entry is created and its id is
\* recorded in ResultID": however approvals, denials and revisions overlap, an
\* approved request names an entry made from it, or the entry it edits.
ApprovedNamesItsEntry ==
    \A q \in RequestIds :
        requests[q] # Absent /\ requests[q].status = "approved" =>
            /\ requests[q].result # NoEntry
            /\ LET e == requests[q].result
               IN  requests[q].kind = "create" /\ entries[e] # Absent
                   => entries[e].from = q

\* A proposal leads to a live entry by its one approval or not at all: unless
\* two calls worked on it at once or an approval broke off, each entry made from
\* it is the one its approved record names, and says what the record says as
\* long as nobody rewrites it.
OutcomeMatchesRequest ==
    \A e \in EntryIds :
        entries[e] # Absent /\ entries[e].from \in RequestIds \ disputed =>
            LET q == entries[e].from
            IN  \/ /\ requests[q] # Absent
                   /\ requests[q].status = "approved" /\ requests[q].result = e
                   /\ ~entries[e].touched => entries[e].content = requests[q].payload
                \/ \E h \in Handlers : /\ worker[h].stage = "resolve"
                                       /\ worker[h].call.request = q
                                       /\ worker[h].entry = e

\* "It is NOT deleted on approve/deny": unless two calls worked on a proposal at
\* once or an approval broke off, only a pending one changes, and it is decided
\* by whoever has read it as it is then.
OnlyPendingChange ==
    \A q \in RequestIds \ disputed' :
        requests[q] # Absent /\ requests'[q] # requests[q] =>
            /\ requests[q].status = "pending"
            /\ requests'[q] # Absent /\ requests'[q].status # "pending" =>
                  \E h \in Handlers : /\ worker[h].stage = "resolve"
                                      /\ worker[h].call.request = q
                                      /\ worker[h].snap = requests[q]

DecidedIsFinal == [][OnlyPendingChange]_vars

\* Hiding or deleting an entry takes it out of the bags of those who can no
\* longer see it, whatever else is shared meanwhile, except what the DM put
\* there, a player took at the same moment, or a failed cascade left.
BagsFollowVisibility ==
    \A p \in Players, e \in EntryIds :
        e \in bags[p] /\ ~CanSee(e, p) /\ <<p, e>> \notin excused =>
            \E h \in Handlers :
                /\ worker[h].entry = e
                /\ \/ worker[h].stage = "purge"
                   \/ worker[h].stage = "cascade" /\ p \notin worker[h].call.seenBy

=============================================================================
