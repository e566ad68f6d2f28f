------------------------------ MODULE Membership -------------------------------
(***************************************************************************)
(* Who is in a campaign: its member list and the player documents behind   *)
(* it, in two collections.  The handlers of player.go and companion.go,    *)
(* Create and Delete of campaign.go, access.go, and their stores.          *)
(*                                                                         *)
(* A request is a sequence of reads and single writes, each a step here,   *)
(* and may stop after any of them.  Nothing spans the collections but the  *)
(* transaction that creates a campaign, where the deployment has those.    *)
(* One campaign is followed; sheets, names and images are left out, and    *)
(* archiving is in CampaignSessions.                                       *)
(***************************************************************************)
EXTENDS Naturals, Sequences, FiniteSets

CONSTANTS
    Users,       \* accounts
    PlayerIds,   \* uuids of player documents
    Handlers,    \* requests served at the same time
    Requests,    \* the requests clients may send
    NoUser,      \* linkedUserId of an NPC
    NoPlayer,    \* no player id
    Absent,      \* no document of that id
    NoRequest    \* the request of an idle handler

Fields == {"name", "kind", "linkedUserId"}

\* One shape for every request: user is the one invited, player the one named,
\* patch the fields an update carries.
Request == [op : {"create", "addPlayer", "addNPC", "addPet", "update", "delete", "drop"},
            by : Users, user : Users, player : PlayerIds \cup {NoPlayer},
            patch : SUBSET Fields]

ASSUME RequestsAssumption == Requests \subseteq Request /\ NoRequest \notin Request

\* PCs and the DM's stub are a user's, companions belong to a player besides.
Linked == [kind : {"pc", "dm"}, user : Users, owner : {NoPlayer}]
Unlinked == [kind : {"npc"}, user : {NoUser}, owner : {NoPlayer}]
Companion == [kind : {"companion"}, user : Users, owner : PlayerIds]
Player == Linked \cup Unlinked \cup Companion

Member == [user : Users, player : PlayerIds, role : {"dm", "player"}]

ASSUME SentinelAssumption ==
    NoUser \notin Users /\ NoPlayer \notin PlayerIds /\ Absent \notin Player

VARIABLES
    players,    \* the player documents
    campaign,   \* whether the campaign is stored: not yet, now, no more
    members,    \* its embedded list
    worker,     \* what each handler is doing
    late        \* history: players no cleanup has to reach

vars == <<players, campaign, members, worker, late>>

Stages == {"idle", "begin", "campaign", "undo", "authorise", "owner", "existing",
           "insert", "member", "list", "wipe", "drop", "access", "role", "update",
           "delete", "cascade"}

\* target is the player a handler works for, snap that document as it was read,
\* ids the players a campaign's deletion has listed.
Worker == [stage : Stages, rq : Requests \cup {NoRequest}, isDM : BOOLEAN,
           target : PlayerIds \cup {NoPlayer}, snap : Player \cup {Absent},
           ids : SUBSET PlayerIds]

Idle == [stage |-> "idle", rq |-> NoRequest, isDM |-> FALSE, target |-> NoPlayer,
         snap |-> Absent, ids |-> {}]

TypeOK ==
    /\ players \in [PlayerIds -> Player \cup {Absent}]
    /\ campaign \in {"none", "open", "gone"}
    /\ members \in Seq(Member)
    /\ worker \in [Handlers -> Worker]
    /\ late \subseteq PlayerIds

Init ==
    /\ players = [i \in PlayerIds |-> Absent]
    /\ campaign = "none"
    /\ members = <<>>
    /\ worker = [h \in Handlers |-> Idle]
    /\ late = {}

-----------------------------------------------------------------------------
Existing == {i \in PlayerIds : players[i] # Absent}

PetsOf(owner) == {i \in Existing : players[i].kind = "companion" /\ players[i].owner = owner}

EntriesOf(user) == {n \in DOMAIN members : members[n].user = user}
IsMember(user) == campaign = "open" /\ EntriesOf(user) # {}

\* findMember: the first entry counts, also where a user has been invited twice.
MemberOf(user) == members[CHOOSE n \in EntriesOf(user) : \A k \in EntriesOf(user) : n <= k]

IsDM(user) == IsMember(user) /\ MemberOf(user).role = "dm"

By(h) == worker[h].rq.by
Op(h) == worker[h].rq.op

Answer(h) == worker' = [worker EXCEPT ![h] = Idle]
Proceed(h, stage) == worker' = [worker EXCEPT ![h].stage = stage]

Stored == <<players, campaign, members, late>>

FirstStage(r) ==
    CASE r.op = "create" -> "begin"
      [] r.op \in {"update", "delete"} -> "access"
      [] OTHER -> "authorise"

\* The one campaign is created once at a time; it has another id the next time.
Receive(h, r) ==
    /\ worker[h].stage = "idle"
    /\ r.op = "create" => /\ campaign = "none"
                          /\ \A g \in Handlers : worker[g].rq # NoRequest => Op(g) # "create"
    /\ worker' = [worker EXCEPT ![h].stage = FirstStage(r), ![h].rq = r]
    /\ UNCHANGED Stored

\* A uuid of which there is no trace.
Fresh(i) ==
    /\ i \notin Existing
    /\ \A n \in DOMAIN members : members[n].player # i
    /\ \A j \in Existing : players[j].owner # i
    /\ \A g \in Handlers :
          /\ worker[g].target # i /\ i \notin worker[g].ids
          /\ worker[g].rq # NoRequest => worker[g].rq.player # i

\* A new document.  A campaign's deletion does not see it if the players have
\* been listed, nor a player's deletion if it is a pet of the player deleted.
Put(i, player) ==
    /\ Fresh(i)
    /\ players' = [players EXCEPT ![i] = player]
    /\ late' = IF \/ campaign = "gone"
                  \/ \E g \in Handlers : worker[g].stage \in {"wipe", "drop"}
                  \/ player.owner # NoPlayer /\ player.owner \notin Existing
               THEN late \cup {i} ELSE late

Remove(ids) ==
    /\ players' = [i \in PlayerIds |-> IF i \in ids THEN Absent ELSE players[i]]
    /\ late' = late \ ids

-----------------------------------------------------------------------------
\* CreateWithDMMember.
DMStub(user) == [kind |-> "dm", user |-> user, owner |-> NoPlayer]

Open(user, i) ==
    /\ campaign' = "open"
    /\ members' = <<[user |-> user, player |-> i, role |-> "dm"]>>

\* In one transaction, where the deployment supports them.
CreateAtOnce(h) ==
    /\ worker[h].stage = "begin"
    /\ \E i \in PlayerIds : Put(i, DMStub(By(h))) /\ Open(By(h), i)
    /\ Answer(h)

\* Otherwise the player, then the campaign, and the player again if that fails.
InsertDM(h) ==
    /\ worker[h].stage = "begin"
    /\ \E i \in PlayerIds :
          /\ Put(i, DMStub(By(h)))
          /\ worker' = [worker EXCEPT ![h].stage = "campaign", ![h].target = i]
    /\ UNCHANGED <<campaign, members>>

InsertCampaign(h) ==
    /\ worker[h].stage = "campaign"
    /\ Open(By(h), worker[h].target)
    /\ Answer(h)
    /\ UNCHANGED <<players, late>>

InsertCampaignFails(h) ==
    /\ worker[h].stage = "campaign"
    /\ Proceed(h, "undo")
    /\ UNCHANGED Stored

Undo(h) ==
    /\ worker[h].stage = "undo"
    /\ Remove({worker[h].target})
    /\ Answer(h)
    /\ UNCHANGED <<campaign, members>>

-----------------------------------------------------------------------------
\* resolveCampaignMembership and the role each handler asks for.  A player's own
\* pet belongs to his player, whatever he names; the DM has to name one.
PetOwner(h) == IF IsDM(By(h)) THEN worker[h].rq.player ELSE MemberOf(By(h)).player

Authorised(h) ==
    /\ IsMember(By(h))
    /\ IF Op(h) = "addPet" THEN PetOwner(h) # NoPlayer ELSE IsDM(By(h))

Authorise(h) ==
    /\ worker[h].stage = "authorise"
    /\ IF ~Authorised(h) THEN Answer(h)
       ELSE worker' = [worker EXCEPT
                ![h].isDM = IsDM(By(h)),
                ![h].stage = CASE Op(h) = "addPet" -> "owner"
                               [] Op(h) = "drop" -> "list"
                               [] OTHER -> "insert",
                ![h].target = IF Op(h) = "addPet" THEN PetOwner(h) ELSE NoPlayer]
    /\ UNCHANGED Stored

\* CreateCompanion: the owner is a PC, the caller's own but for the DM.
MayOwn(h, player) ==
    /\ player # Absent /\ player.kind = "pc"
    /\ worker[h].isDM \/ player.user = By(h)

ReadOwner(h) ==
    /\ worker[h].stage = "owner"
    /\ LET player == players[worker[h].target]
       IN  IF MayOwn(h, player)
           THEN worker' = [worker EXCEPT ![h].stage = "existing", ![h].snap = player]
           ELSE Answer(h)
    /\ UNCHANGED Stored

FindCompanionByOwner(h) ==
    /\ worker[h].stage = "existing"
    /\ IF PetsOf(worker[h].target) = {} THEN Proceed(h, "insert") ELSE Answer(h)
    /\ UNCHANGED Stored

NewPlayer(h) ==
    CASE Op(h) = "addPlayer" -> [kind |-> "pc", user |-> worker[h].rq.user, owner |-> NoPlayer]
      [] Op(h) = "addNPC" -> [kind |-> "npc", user |-> NoUser, owner |-> NoPlayer]
      [] Op(h) = "addPet" -> [kind |-> "companion", user |-> worker[h].snap.user,
                              owner |-> worker[h].target]

\* A mutant: the index is not unique.
AnyPet(h) == TRUE

\* The index uniq_companion_owner.
IndexAdmits(h) == Op(h) = "addPet" => PetsOf(worker[h].target) = {}

Insert(h) ==
    /\ worker[h].stage = "insert"
    /\ IndexAdmits(h)
    /\ \E i \in PlayerIds :
          /\ Put(i, NewPlayer(h))
          /\ IF Op(h) = "addPlayer"
             THEN worker' = [worker EXCEPT ![h].stage = "member", ![h].target = i]
             ELSE Answer(h)
    /\ UNCHANGED <<campaign, members>>

\* 409 COMPANION_EXISTS.
InsertRefused(h) ==
    /\ worker[h].stage = "insert"
    /\ ~IndexAdmits(h)
    /\ Answer(h)
    /\ UNCHANGED Stored

NewMember(h) == [user |-> worker[h].rq.user, player |-> worker[h].target, role |-> "player"]

\* A $push; of a campaign that is gone nothing matches, and nobody looks.
AddMember(h) ==
    /\ worker[h].stage = "member"
    /\ members' = IF campaign = "open" THEN Append(members, NewMember(h)) ELSE members
    /\ Answer(h)
    /\ UNCHANGED <<players, campaign, late>>

-----------------------------------------------------------------------------
\* CampaignHandler.Delete: list the players, delete them, then the campaign.
\* A mutant: companions are left out of the list, as elsewhere.
NoCompanions == {i \in Existing : players[i].kind # "companion"}

IDsForCampaign == Existing

List(h) ==
    /\ worker[h].stage = "list"
    /\ worker' = [worker EXCEPT ![h].stage = "wipe", ![h].ids = IDsForCampaign]
    /\ UNCHANGED Stored

Wipe(h) ==
    /\ worker[h].stage = "wipe"
    /\ Remove(worker[h].ids)
    /\ Proceed(h, "drop")
    /\ UNCHANGED <<campaign, members>>

Drop(h) ==
    /\ worker[h].stage = "drop"
    /\ campaign' = "gone"
    /\ members' = <<>>
    /\ Answer(h)
    /\ UNCHANGED <<players, late>>

-----------------------------------------------------------------------------
\* resolvePlayerAccess: the player, then the campaign.
Access(h) ==
    /\ worker[h].stage = "access"
    /\ LET i == worker[h].rq.player
       IN  IF i \in Existing
           THEN worker' = [worker EXCEPT ![h].stage = "role", ![h].target = i,
                                         ![h].snap = players[i]]
           ELSE Answer(h)
    /\ UNCHANGED Stored

\* A mutant: an update may set what a player is.
OwnershipOnly == {"linkedUserId"}

ProtectedPlayerKeys == {"kind", "linkedUserId"}

Stripped(h) == worker[h].rq.patch \ ProtectedPlayerKeys

\* canDeletePlayer.
MayGoOn(h) ==
    \/ IsDM(By(h))
    \/ /\ worker[h].snap.user = By(h)
       /\ Op(h) = "delete" => worker[h].snap.kind = "companion"

Role(h) ==
    /\ worker[h].stage = "role"
    /\ IF MayGoOn(h) /\ (Op(h) = "update" => Stripped(h) # {})
       THEN worker' = [worker EXCEPT ![h].stage = Op(h), ![h].isDM = IsDM(By(h))]
       ELSE Answer(h)
    /\ UNCHANGED Stored

\* The filters of Update and Delete.
Matches(h) ==
    LET player == players[worker[h].target]
    IN  /\ player # Absent
        /\ worker[h].isDM \/ player.user = By(h)
        /\ Op(h) = "delete" => worker[h].isDM \/ player.kind = "companion"

\* The fields of an update, were they let through: it makes the player a PC of the
\* caller.  Names are left out.
Patched(player, fields, by) ==
    [player EXCEPT !.kind = IF "kind" \in fields THEN "pc" ELSE @,
                   !.user = IF "linkedUserId" \in fields THEN by ELSE @]

UpdatePlayer(h) ==
    /\ worker[h].stage = "update"
    /\ LET i == worker[h].target
       IN  players' = IF Matches(h)
                      THEN [players EXCEPT ![i] = Patched(players[i], Stripped(h), By(h))]
                      ELSE players
    /\ Answer(h)
    /\ UNCHANGED <<campaign, members, late>>

CascadeOnDelete(player) == player.kind = "pc"

DeletePlayer(h) ==
    /\ worker[h].stage = "delete"
    /\ Matches(h)
    /\ Remove({worker[h].target})
    /\ IF CascadeOnDelete(worker[h].snap) THEN Proceed(h, "cascade") ELSE Answer(h)
    /\ UNCHANGED <<campaign, members>>

DeleteMisses(h) ==
    /\ worker[h].stage = "delete"
    /\ ~Matches(h)
    /\ Answer(h)
    /\ UNCHANGED Stored

DeleteCompanionsByOwner(h) ==
    /\ worker[h].stage = "cascade"
    /\ Remove(PetsOf(worker[h].target))
    /\ Answer(h)
    /\ UNCHANGED <<campaign, members>>

-----------------------------------------------------------------------------
\* A store call fails or the client goes away: what was to be cleaned up stays.
Abort(h) ==
    /\ worker[h].stage # "idle"
    /\ late' = late \cup (CASE worker[h].stage \in {"campaign", "undo"} -> {worker[h].target}
                            [] worker[h].stage = "cascade" -> PetsOf(worker[h].target)
                            [] OTHER -> {})
    /\ Answer(h)
    /\ UNCHANGED <<players, campaign, members>>

Serve(h) ==
    \/ CreateAtOnce(h) \/ InsertDM(h) \/ InsertCampaign(h) \/ InsertCampaignFails(h) \/ Undo(h)
    \/ Authorise(h) \/ ReadOwner(h) \/ FindCompanionByOwner(h)
    \/ Insert(h) \/ InsertRefused(h) \/ AddMember(h)
    \/ List(h) \/ Wipe(h) \/ Drop(h)
    \/ Access(h) \/ Role(h) \/ UpdatePlayer(h)
    \/ DeletePlayer(h) \/ DeleteMisses(h) \/ DeleteCompanionsByOwner(h)

Next == \E h \in Handlers :
    Serve(h) \/ Abort(h) \/ (\E r \in Requests : Receive(h, r))

Spec == Init /\ [][Next]_vars

-----------------------------------------------------------------------------
\* "Every member has a backing Player record (DM's has kind: dm)": where it has
\* one, it is of the member's user and kind, and nobody else's.
MembersMatchTheirPlayers ==
    \A n \in DOMAIN members :
        LET m == members[n]
            player == players[m.player]
        IN  /\ player # Absent => /\ player.user = m.user
                                  /\ player.kind = "dm" <=> m.role = "dm"
                                  /\ player.kind \in {"dm", "pc"}
            /\ \A k \in DOMAIN members \ {n} : members[k].player # m.player

\* A player has one companion at most, of his user, however many are created at
\* once; and it goes with him, unless it came after him or its removal failed.
CompanionsFollowOwners ==
    \A i \in Existing : players[i].kind = "companion" =>
        LET owner == players[i].owner
        IN  /\ PetsOf(owner) = {i}
            /\ owner \in Existing => /\ players[owner].kind = "pc"
                                     /\ players[owner].user = players[i].user
            /\ owner \notin Existing =>
                  \/ i \in late
                  \/ \E h \in Handlers : worker[h].stage = "cascade" /\ worker[h].target = owner

\* "Cascade: deletes all players in the campaign" and "the fallback also rolls
\* back the player insert": no player is left without the campaign but one that
\* was inserted as it went, or one whose rollback is to come or has failed.
NoStrays ==
    /\ campaign = "gone" => Existing \subseteq late
    /\ campaign = "none" => \A i \in Existing \ late :
          \E h \in Handlers : worker[h].stage \in {"campaign", "undo"} /\ worker[h].target = i

=============================================================================
