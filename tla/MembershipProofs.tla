--------------------------- MODULE MembershipProofs ----------------------------
(***************************************************************************)
(* For any users, players, requests and handlers, the two collections keep *)
(* their types, a member's player is of his user and kind and nobody       *)
(* else's, companions follow their owners, and no player stays without the *)
(* campaign.                                                               *)
(*                                                                         *)
(* A member entry is written after its player, by then known by its id     *)
(* only.  So the invariant also speaks of the entries to come: the player  *)
(* a handler is about to enter fits, and no entry and no other handler has *)
(* its id.                                                                 *)
(***************************************************************************)
EXTENDS Membership, TLAPS, WellFoundedInduction

\* Stages in which a handler has stored a player and not yet his member entry.
Promising(w) == w.stage \in {"campaign", "member"}

\* The entry it is to be.
Promise(w) ==
    [user |-> IF w.stage = "campaign" THEN w.rq.by ELSE w.rq.user, player |-> w.target,
     role |-> IF w.stage = "campaign" THEN "dm" ELSE "player"]

Fits(ps, m) ==
    LET player == ps[m.player]
    IN  player # Absent => /\ player.user = m.user
                           /\ player.kind = "dm" <=> m.role = "dm"
                           /\ player.kind \in {"dm", "pc"}

\* No entry of the list has that player.
Unlisted(ms, i) == \A n \in DOMAIN ms : ms[n].player # i

Adds == {"addPlayer", "addNPC", "addPet"}

\* What a stage says of the request and of what has been read for it.
Knows(w) ==
    /\ w.stage # "idle" => w.rq \in Requests
    /\ w.stage = "authorise" => w.rq.op \in Adds \cup {"drop"}
    /\ w.stage \in {"owner", "existing"} => w.rq.op = "addPet"
    /\ w.stage = "insert" => w.rq.op \in Adds
    /\ w.stage \in {"existing", "insert"} /\ w.rq.op = "addPet" => w.snap \in Linked
    /\ w.stage \in {"owner", "existing"} \/ (w.stage = "insert" /\ w.rq.op = "addPet")
          => w.target \in PlayerIds
    /\ w.stage \in {"campaign", "undo", "member", "role", "update", "delete", "cascade"}
          => w.target \in PlayerIds
    /\ w.stage \in {"access", "role"} => w.rq.op \in {"update", "delete"}

\* What a handler that promises an entry may rely on.
Sincere(h) == Promising(worker[h]) =>
    /\ Fits(players, Promise(worker[h]))
    /\ Unlisted(members, worker[h].target)
    /\ \A g \in Handlers \ {h} :
          Promising(worker[g]) => worker[g].target # worker[h].target

MembershipInv ==
    /\ TypeOK
    /\ MembersMatchTheirPlayers
    /\ \A h \in Handlers : Knows(worker[h]) /\ Sincere(h)

USE RequestsAssumption, SentinelAssumption

-----------------------------------------------------------------------------
LEMMA IdleIsAWorker == Idle \in Worker /\ Knows(Idle) /\ ~Promising(Idle)
BY DEF Idle, Worker, Stages, Knows, Promising

LEMMA MatchIsFit ==
    MembersMatchTheirPlayers <=>
        \A n \in DOMAIN members :
            /\ Fits(players, members[n])
            /\ \A k \in DOMAIN members \ {n} : members[k].player # members[n].player
BY DEF MembersMatchTheirPlayers, Fits

\* What is mentioned somewhere is not a fresh id.
LEMMA MentionedIsNotFresh ==
    ASSUME TypeOK
    PROVE  /\ \A n \in DOMAIN members : members[n] \in Member /\ ~Fresh(members[n].player)
           /\ \A g \in Handlers : ~Fresh(worker[g].target)
<1>1. \A n \in DOMAIN members : members[n] \in Member
  BY DEF TypeOK
<1> QED
  BY <1>1 DEF Fresh

\* The general step: players a trace is left of stay what they are or go, one
\* handler moves, and the list is as good as before.
LEMMA StepKeeps ==
    ASSUME MembershipInv, TypeOK', MembersMatchTheirPlayers',
           NEW h \in Handlers, NEW w \in Worker, Knows(w),
           worker' = [worker EXCEPT ![h] = w],
           \A g \in Handlers \ {h} : Promising(worker[g]) =>
              /\ players'[worker[g].target] \in {players[worker[g].target], Absent}
              /\ Unlisted(members', worker[g].target)
              /\ Promising(w) => worker[g].target # w.target,
           Promising(w) => Fits(players', Promise(w)) /\ Unlisted(members', w.target)
    PROVE  MembershipInv'
<1>1. worker'[h] = w /\ \A g \in Handlers \ {h} : worker'[g] = worker[g]
  BY DEF MembershipInv, TypeOK
<1>2. \A g \in Handlers : Knows(worker'[g])
  BY <1>1 DEF MembershipInv
<1>3. Sincere(h)'
  BY <1>1 DEF Sincere, Fits, Promise, Unlisted
<1>4. ASSUME NEW g \in Handlers \ {h} PROVE Sincere(g)'
  <2> SUFFICES ASSUME Promising(worker[g])
               PROVE  /\ Fits(players', Promise(worker[g]))
                      /\ Unlisted(members', worker[g].target)
                      /\ \A k \in Handlers \ {g} :
                           Promising(worker'[k]) => worker'[k].target # worker[g].target
    BY <1>1 DEF Sincere
  <2>1. Fits(players', Promise(worker[g]))
    BY <1>1 DEF MembershipInv, Sincere, Fits, Promise
  <2>2. \A k \in Handlers \ {g} :
           Promising(worker'[k]) => worker'[k].target # worker[g].target
    BY <1>1 DEF MembershipInv, Sincere
  <2> QED
    BY <2>1, <2>2
<1> QED
  BY <1>2, <1>3, <1>4 DEF MembershipInv

\* A handler that promises nothing moves and the list stays.
LEMMA QuietKeeps ==
    ASSUME MembershipInv,
           players' \in [PlayerIds -> Player \cup {Absent}], late' \subseteq PlayerIds,
           UNCHANGED <<campaign, members>>,
           NEW h \in Handlers, NEW w \in Worker, Knows(w), ~Promising(w),
           worker' = [worker EXCEPT ![h] = w],
           \A i \in PlayerIds : ~Fresh(i) => players'[i] \in {players[i], Absent}
    PROVE  MembershipInv'
<1>1. TypeOK'
  BY DEF MembershipInv, TypeOK
<1>2. \A n \in DOMAIN members : members[n].player \in PlayerIds /\ ~Fresh(members[n].player)
  BY MentionedIsNotFresh DEF MembershipInv, Member
<1>3. MembersMatchTheirPlayers'
  BY <1>2 DEF MembershipInv, MembersMatchTheirPlayers
<1>4. ASSUME NEW g \in Handlers, Promising(worker[g])
      PROVE  /\ players'[worker[g].target] \in {players[worker[g].target], Absent}
             /\ Unlisted(members', worker[g].target)
  <2>1. worker[g].target \in PlayerIds /\ ~Fresh(worker[g].target)
    BY <1>4, MentionedIsNotFresh DEF MembershipInv, Knows, Promising
  <2> QED
    BY <1>4, <2>1 DEF MembershipInv, Sincere, Unlisted
<1> QED
  BY <1>1, <1>3, <1>4, StepKeeps

\* A new document disturbs no other.
LEMMA PutIsNew ==
    ASSUME TypeOK, NEW i \in PlayerIds, NEW player \in Player, Put(i, player)
    PROVE  /\ Fresh(i)
           /\ players' \in [PlayerIds -> Player \cup {Absent}]
           /\ players'[i] = player
           /\ \A j \in PlayerIds \ {i} : players'[j] = players[j]
           /\ late' \subseteq PlayerIds
BY DEF TypeOK, Put

LEMMA RemoveIsGone ==
    ASSUME TypeOK, NEW ids, Remove(ids)
    PROVE  /\ players' \in [PlayerIds -> Player \cup {Absent}]
           /\ \A j \in PlayerIds : players'[j] \in {players[j], Absent}
           /\ late' \subseteq PlayerIds
BY DEF TypeOK, Remove

LEMMA LeastIndex ==
    ASSUME NEW S \in SUBSET Nat, S # {}
    PROVE  \E n \in S : \A k \in S : n <= k
<1> DEFINE R == OpToRel(<, Nat)
<1>1. IsWellFoundedOn(R, Nat)
  BY NatLessThanWellFounded
<1>2. \A x, y \in Nat : <<x, y>> \in R <=> x < y
  BY DEF OpToRel
<1> HIDE DEF R
<1>3. PICK n \in S : \A k \in S : ~ (<<k, n>> \in R)
  BY <1>1, WFMin
<1>4. ASSUME NEW k \in S PROVE n <= k
  <2>1. n \in Nat /\ k \in Nat
    OBVIOUS
  <2>2. ~ (<<k, n>> \in R)
    BY <1>3
  <2>3. ~ (k < n)
    BY <1>2, <2>1, <2>2, Zenon
  <2> QED
    BY <2>1, <2>3
<1> QED
  BY <1>4

\* findMember finds an entry where there is one.
LEMMA MemberIsFound ==
    ASSUME TypeOK, NEW user, IsMember(user)
    PROVE  MemberOf(user) \in Member
<1>1. EntriesOf(user) \in SUBSET Nat /\ EntriesOf(user) # {}
  BY DEF TypeOK, IsMember, EntriesOf
<1>2. \E n \in EntriesOf(user) : \A k \in EntriesOf(user) : n <= k
  BY <1>1, LeastIndex
<1>3. PICK n \in EntriesOf(user) : MemberOf(user) = members[n]
  BY <1>2 DEF MemberOf
<1>4. n \in DOMAIN members
  BY DEF EntriesOf
<1> QED
  BY <1>3, <1>4 DEF TypeOK

-----------------------------------------------------------------------------
LEMMA CreationKeeps ==
    ASSUME MembershipInv, NEW h \in Handlers,
           CreateAtOnce(h) \/ InsertDM(h) \/ InsertCampaign(h)
    PROVE  MembershipInv'
<1> DEFINE w == worker[h]
<1>1. w \in Worker /\ w.rq \in Request /\ By(h) \in Users
  BY DEF MembershipInv, TypeOK, Knows, CreateAtOnce, InsertDM, InsertCampaign, Request, By
<1>2. DMStub(By(h)) \in Player
  BY <1>1 DEF DMStub, Player, Linked
<1>3. ASSUME NEW i \in PlayerIds, Open(By(h), i), Answer(h),
             players' \in [PlayerIds -> Player \cup {Absent}], late' \subseteq PlayerIds,
             players'[i] # Absent => players'[i] = DMStub(By(h)),
             \A g \in Handlers \ {h} : Promising(worker[g]) =>
                /\ players'[worker[g].target] = players[worker[g].target]
                /\ worker[g].target # i
      PROVE  MembershipInv'
  <2> DEFINE m == [user |-> By(h), player |-> i, role |-> "dm"]
  <2>1. members' = <<m>> /\ m \in Member
    BY <1>1, <1>3 DEF Open, Member
  <2> HIDE DEF m
  <2>2. DOMAIN members' = {1} /\ members'[1] = m
    BY <2>1
  <2>3. TypeOK'
    BY <1>3, <2>1, IdleIsAWorker DEF MembershipInv, TypeOK, Open, Answer
  <2>4. MembersMatchTheirPlayers'
    BY <1>3, <2>2 DEF MembersMatchTheirPlayers, DMStub, m
  <2>5. \A g \in Handlers \ {h} : Promising(worker[g]) => Unlisted(members', worker[g].target)
    BY <1>3, <2>2 DEF Unlisted, m
  <2> QED
    BY <1>3, <2>3, <2>4, <2>5, IdleIsAWorker, StepKeeps DEF Answer
<1>4. CASE CreateAtOnce(h)
  <2>1. PICK i \in PlayerIds : Put(i, DMStub(By(h))) /\ Open(By(h), i)
    BY <1>4 DEF CreateAtOnce
  <2>2. ASSUME NEW g \in Handlers, Promising(worker[g])
        PROVE  worker[g].target # i /\ worker[g].target \in PlayerIds
    BY <2>1, <2>2 DEF Put, Fresh, MembershipInv, Knows, Promising
  <2> QED
    BY <1>2, <1>3, <1>4, <2>1, <2>2, PutIsNew DEF CreateAtOnce, MembershipInv
<1>5. CASE InsertDM(h)
  <2>1. PICK i \in PlayerIds :
           /\ Put(i, DMStub(By(h)))
           /\ worker' = [worker EXCEPT ![h].stage = "campaign", ![h].target = i]
    BY <1>5 DEF InsertDM
  <2> DEFINE v == [w EXCEPT !.stage = "campaign", !.target = i]
  <2>2. worker' = [worker EXCEPT ![h] = v]
    BY <2>1 DEF MembershipInv, TypeOK
  <2>3. v \in Worker /\ Knows(v) /\ v.stage = "campaign" /\ v.target = i /\ v.rq = w.rq
    BY <1>1, <1>5 DEF Worker, Stages, Knows, InsertDM, MembershipInv
  <2> HIDE DEF v
  <2>4. /\ players' \in [PlayerIds -> Player \cup {Absent}] /\ late' \subseteq PlayerIds
        /\ players'[i] = DMStub(By(h)) /\ Fresh(i)
        /\ \A j \in PlayerIds \ {i} : players'[j] = players[j]
    BY <1>2, <2>1, PutIsNew DEF MembershipInv
  <2>5. TypeOK'
    BY <1>5, <2>2, <2>3, <2>4 DEF MembershipInv, TypeOK, InsertDM
  <2>6. \A n \in DOMAIN members : members[n].player \in PlayerIds \ {i}
    BY <2>4, MentionedIsNotFresh DEF MembershipInv, Member
  <2>7. MembersMatchTheirPlayers'
    BY <1>5, <2>4, <2>6 DEF MembershipInv, MembersMatchTheirPlayers, InsertDM
  <2>8. ASSUME NEW g \in Handlers, Promising(worker[g])
        PROVE  /\ worker[g].target # i /\ worker[g].target \in PlayerIds
               /\ Unlisted(members', worker[g].target)
    BY <1>5, <2>4, <2>8, MentionedIsNotFresh DEF MembershipInv, Knows, Promising, Sincere, Unlisted, InsertDM
  <2>9. Fits(players', Promise(v)) /\ Unlisted(members', i)
    BY <1>5, <2>3, <2>4, <2>6 DEF Fits, Promise, DMStub, Unlisted, InsertDM, By
  <2> QED
    BY <2>2, <2>3, <2>4, <2>5, <2>7, <2>8, <2>9, StepKeeps
<1>6. CASE InsertCampaign(h)
  <2>1. /\ w.stage = "campaign" /\ Open(By(h), w.target) /\ Answer(h)
        /\ UNCHANGED <<players, late>>
    BY <1>6 DEF InsertCampaign
  <2>2. w.target \in PlayerIds /\ Promising(w)
    BY <2>1 DEF MembershipInv, Knows, Promising
  <2>3. Fits(players, Promise(w)) /\ \A g \in Handlers \ {h} :
           Promising(worker[g]) => worker[g].target # w.target
    BY <2>2 DEF MembershipInv, Sincere
  <2>4. players[w.target] # Absent => players[w.target] = DMStub(By(h))
    <3> SUFFICES ASSUME players[w.target] # Absent
                 PROVE  players[w.target] = DMStub(By(h))
      OBVIOUS
    <3>1. players[w.target] \in Player
      BY <2>2 DEF MembershipInv, TypeOK
    <3>2. players[w.target].user = By(h) /\ players[w.target].kind = "dm"
      BY <2>1, <2>3 DEF Fits, Promise, By
    <3>3. players[w.target] \in Linked
      BY <3>1, <3>2 DEF Player, Unlinked, Companion
    <3> QED
      BY <3>2, <3>3 DEF Linked, DMStub
  <2> QED
    BY <1>3, <2>1, <2>2, <2>3, <2>4 DEF MembershipInv, TypeOK
<1> QED
  BY <1>4, <1>5, <1>6

\* Whoever answers promises nothing.
LEMMA AnswerKeeps ==
    ASSUME MembershipInv, NEW h \in Handlers, Answer(h),
           players' \in [PlayerIds -> Player \cup {Absent}], late' \subseteq PlayerIds,
           UNCHANGED <<campaign, members>>,
           \A i \in PlayerIds : ~Fresh(i) => players'[i] \in {players[i], Absent}
    PROVE  MembershipInv'
BY IdleIsAWorker, QuietKeeps DEF Answer

LEMMA RemoveAndAnswerKeeps ==
    ASSUME MembershipInv, NEW h \in Handlers, Answer(h), NEW ids, Remove(ids),
           UNCHANGED <<campaign, members>>
    PROVE  MembershipInv'
BY RemoveIsGone, AnswerKeeps DEF MembershipInv

\* A step that only moves a handler on.
LEMMA MoveKeeps ==
    ASSUME MembershipInv, NEW h \in Handlers, NEW w \in Worker, Knows(w), ~Promising(w),
           worker' = [worker EXCEPT ![h] = w], UNCHANGED Stored
    PROVE  MembershipInv'
BY QuietKeeps DEF MembershipInv, TypeOK, Stored

LEMMA AnswerOnlyKeeps ==
    ASSUME MembershipInv, NEW h \in Handlers, Answer(h), UNCHANGED Stored
    PROVE  MembershipInv'
BY IdleIsAWorker, MoveKeeps DEF Answer

-----------------------------------------------------------------------------
LEMMA AuthoriseKeeps ==
    ASSUME MembershipInv, NEW h \in Handlers, Authorise(h)
    PROVE  MembershipInv'
<1> DEFINE w == worker[h]
           v == [w EXCEPT
                !.isDM = IsDM(By(h)),
                !.stage = CASE Op(h) = "addPet" -> "owner"
                            [] Op(h) = "drop" -> "list"
                            [] OTHER -> "insert",
                !.target = IF Op(h) = "addPet" THEN PetOwner(h) ELSE NoPlayer]
<1>1. w \in Worker /\ w.rq \in Requests /\ w.rq \in Request /\ w.rq.op \in Adds \cup {"drop"}
  BY DEF MembershipInv, TypeOK, Knows, Authorise
<1>2. CASE ~Authorised(h)
  BY <1>2, AnswerOnlyKeeps DEF Authorise
<1>3. CASE Authorised(h)
  <2>1. worker' = [worker EXCEPT ![h] = v] /\ UNCHANGED Stored
    BY <1>3 DEF Authorise, MembershipInv, TypeOK
  <2>2. Op(h) = "addPet" => PetOwner(h) \in PlayerIds
    <3>1. MemberOf(By(h)).player \in PlayerIds
      BY <1>3, MemberIsFound DEF Authorised, MembershipInv, Member
    <3> QED
      BY <1>1, <1>3, <3>1 DEF Authorised, PetOwner, Request
  <2>3. IsDM(By(h)) \in BOOLEAN
    BY DEF IsDM, IsMember
  <2> DEFINE stage == CASE Op(h) = "addPet" -> "owner"
                        [] Op(h) = "drop" -> "list"
                        [] OTHER -> "insert"
             target == IF Op(h) = "addPet" THEN PetOwner(h) ELSE NoPlayer
  <2>4. /\ stage \in {"owner", "list", "insert"}
        /\ stage = "owner" <=> w.rq.op = "addPet"
        /\ stage = "insert" => w.rq.op \in Adds
        /\ target \in PlayerIds \cup {NoPlayer}
        /\ stage = "owner" => target \in PlayerIds
    BY <1>1, <2>2 DEF Op, Adds
  <2>5. v = [w EXCEPT !.isDM = IsDM(By(h)), !.stage = stage, !.target = target]
    OBVIOUS
  <2> HIDE DEF stage, target
  <2>6. v \in Worker /\ v.stage = stage /\ v.rq = w.rq /\ v.target = target
    BY <1>1, <2>3, <2>4, <2>5 DEF Worker, Stages
  <2> HIDE DEF v
  <2>7. Knows(v) /\ ~Promising(v)
    BY <1>1, <2>4, <2>6 DEF Knows, Promising
  <2> QED
    BY <2>1, <2>6, <2>7, MoveKeeps
<1> QED
  BY <1>2, <1>3

LEMMA OwnerChecksKeep ==
    ASSUME MembershipInv, NEW h \in Handlers, ReadOwner(h) \/ FindCompanionByOwner(h)
    PROVE  MembershipInv'
<1> DEFINE w == worker[h]
<1>1. w \in Worker /\ Knows(w) /\ w.rq.op = "addPet" /\ w.target \in PlayerIds
  BY DEF MembershipInv, TypeOK, Knows, ReadOwner, FindCompanionByOwner
<1>2. CASE ReadOwner(h)
  <2>1. CASE MayOwn(h, players[w.target])
    <3> DEFINE v == [w EXCEPT !.stage = "existing", !.snap = players[w.target]]
    <3>1. worker' = [worker EXCEPT ![h] = v] /\ UNCHANGED Stored
      BY <1>2, <2>1 DEF ReadOwner, MembershipInv, TypeOK
    <3>2. players[w.target] \in Linked
      BY <1>1, <2>1 DEF MayOwn, MembershipInv, TypeOK, Player, Unlinked, Companion
    <3>3. v \in Worker /\ v.stage = "existing" /\ v.rq = w.rq /\ v.target = w.target
          /\ v.snap \in Linked
      BY <1>1, <3>2 DEF Worker, Stages, Player
    <3> HIDE DEF v
    <3>4. Knows(v) /\ ~Promising(v)
      BY <1>1, <1>2, <3>3 DEF Knows, Promising, ReadOwner
    <3> QED
      BY <3>1, <3>3, <3>4, MoveKeeps
  <2>2. CASE ~MayOwn(h, players[w.target])
    BY <1>2, <2>2, AnswerOnlyKeeps DEF ReadOwner
  <2> QED
    BY <2>1, <2>2
<1>3. CASE FindCompanionByOwner(h)
  <2>1. CASE PetsOf(w.target) = {}
    <3> DEFINE v == [w EXCEPT !.stage = "insert"]
    <3>1. worker' = [worker EXCEPT ![h] = v] /\ UNCHANGED Stored
      BY <1>3, <2>1 DEF FindCompanionByOwner, Proceed, MembershipInv, TypeOK
    <3>2. v \in Worker /\ v.stage = "insert" /\ v.rq = w.rq /\ v.target = w.target
          /\ v.snap = w.snap
      BY <1>1 DEF Worker, Stages
    <3> HIDE DEF v
    <3>3. Knows(v) /\ ~Promising(v)
      BY <1>1, <1>3, <3>2 DEF Knows, Promising, FindCompanionByOwner, Adds
    <3> QED
      BY <3>1, <3>2, <3>3, MoveKeeps
  <2>2. CASE PetsOf(w.target) # {}
    BY <1>3, <2>2, AnswerOnlyKeeps DEF FindCompanionByOwner
  <2> QED
    BY <2>1, <2>2
<1> QED
  BY <1>2, <1>3

\* What is inserted is a player of one kind or another.
LEMMA NewIsAPlayer ==
    ASSUME MembershipInv, NEW h \in Handlers, worker[h].stage = "insert"
    PROVE  NewPlayer(h) \in Player
<1> DEFINE w == worker[h]
<1>1. Knows(w) /\ w.rq \in Request /\ w.rq.op \in Adds
  BY DEF MembershipInv, TypeOK, Knows
<1>2. CASE w.rq.op = "addPlayer"
  BY <1>1, <1>2 DEF NewPlayer, Op, Request, Player, Linked
<1>3. CASE w.rq.op = "addNPC"
  BY <1>3 DEF NewPlayer, Op, Player, Unlinked
<1>4. CASE w.rq.op = "addPet"
  <2>1. w.snap.user \in Users /\ w.target \in PlayerIds
    BY <1>1, <1>4 DEF Knows, Linked
  <2> QED
    BY <1>4, <2>1 DEF NewPlayer, Op, Player, Companion
<1> QED
  BY <1>1, <1>2, <1>3, <1>4 DEF Adds

LEMMA InsertKeeps ==
    ASSUME MembershipInv, NEW h \in Handlers, Insert(h)
    PROVE  MembershipInv'
<1> DEFINE w == worker[h]
           new == NewPlayer(h)
<1>1. /\ w \in Worker /\ Knows(w) /\ w.stage = "insert"
      /\ w.rq \in Request /\ w.rq.op \in Adds
  BY DEF MembershipInv, TypeOK, Knows, Insert
<1>2. new \in Player
  BY <1>1, NewIsAPlayer
<1> HIDE DEF new
<1>3. PICK i \in PlayerIds :
         /\ Put(i, new)
         /\ IF Op(h) = "addPlayer"
            THEN worker' = [worker EXCEPT ![h].stage = "member", ![h].target = i]
            ELSE Answer(h)
  BY DEF Insert, new
<1>4. /\ players' \in [PlayerIds -> Player \cup {Absent}] /\ late' \subseteq PlayerIds
      /\ players'[i] = new /\ Fresh(i) /\ UNCHANGED <<campaign, members>>
      /\ \A j \in PlayerIds \ {i} : players'[j] = players[j]
  BY <1>2, <1>3, PutIsNew DEF MembershipInv, Insert
<1>5. CASE Op(h) # "addPlayer"
  BY <1>3, <1>4, <1>5, AnswerKeeps
<1>6. CASE Op(h) = "addPlayer"
  <2> DEFINE v == [w EXCEPT !.stage = "member", !.target = i]
  <2>1. worker' = [worker EXCEPT ![h] = v]
    BY <1>3, <1>6 DEF MembershipInv, TypeOK
  <2>2. v \in Worker /\ v.stage = "member" /\ v.target = i /\ v.rq = w.rq
    BY <1>1 DEF Worker, Stages
  <2> HIDE DEF v
  <2>3. Knows(v)
    BY <1>1, <2>2 DEF Knows
  <2>4. TypeOK'
    BY <1>4, <2>1, <2>2 DEF MembershipInv, TypeOK
  <2>5. \A n \in DOMAIN members : members[n].player \in PlayerIds \ {i}
    BY <1>4, MentionedIsNotFresh DEF MembershipInv, Member
  <2>6. MembersMatchTheirPlayers'
    BY <1>4, <2>5 DEF MembershipInv, MembersMatchTheirPlayers
  <2>7. ASSUME NEW g \in Handlers, Promising(worker[g])
        PROVE  /\ worker[g].target # i /\ worker[g].target \in PlayerIds
               /\ Unlisted(members', worker[g].target)
    BY <1>4, <2>7, MentionedIsNotFresh DEF MembershipInv, Knows, Promising, Sincere, Unlisted
  <2>8. new.kind = "pc" /\ new.user = w.rq.user
    BY <1>6 DEF NewPlayer, new
  <2>9. Fits(players', Promise(v)) /\ Unlisted(members', i)
    BY <1>4, <2>2, <2>5, <2>8 DEF Fits, Promise, Unlisted
  <2> QED
    BY <1>4, <2>1, <2>2, <2>3, <2>4, <2>6, <2>7, <2>9, StepKeeps
<1> QED
  BY <1>5, <1>6

LEMMA AddMemberKeeps ==
    ASSUME MembershipInv, NEW h \in Handlers, AddMember(h)
    PROVE  MembershipInv'
<1> DEFINE w == worker[h]
           m == NewMember(h)
<1>1. /\ w.stage = "member" /\ w.rq \in Request /\ w.target \in PlayerIds /\ Promising(w)
      /\ Answer(h) /\ UNCHANGED <<players, campaign, late>>
  BY DEF MembershipInv, Knows, Promising, AddMember
<1>2. m \in Member /\ m = Promise(w) /\ m.player = w.target
  BY <1>1 DEF NewMember, Promise, Member, Request
<1>3. /\ Fits(players, m) /\ Unlisted(members, m.player)
      /\ \A g \in Handlers \ {h} : Promising(worker[g]) => worker[g].target # m.player
  BY <1>1, <1>2 DEF MembershipInv, Sincere
<1>4. CASE campaign # "open"
  BY <1>1, <1>4, AnswerKeeps DEF AddMember, MembershipInv, TypeOK
<1>5. CASE campaign = "open"
  <2>1. members' = Append(members, m)
    BY <1>5 DEF AddMember
  <2> HIDE DEF m
  <2>2. /\ members' \in Seq(Member)
        /\ \A n \in DOMAIN members' : \/ n \in DOMAIN members /\ members'[n] = members[n]
                                      \/ n = Len(members) + 1 /\ members'[n] = m
    BY <1>2, <2>1 DEF MembershipInv, TypeOK
  <2>3. TypeOK'
    BY <1>1, <2>2, IdleIsAWorker DEF MembershipInv, TypeOK, Answer
  <2>4. \A n \in DOMAIN members' : Fits(players, members'[n])
    BY <1>3, <2>2, MatchIsFit DEF MembershipInv
  <2>5. ASSUME NEW n \in DOMAIN members', NEW k \in DOMAIN members' \ {n}
        PROVE  members'[k].player # members'[n].player
    BY <1>3, <2>2, <2>5, MatchIsFit DEF MembershipInv, Unlisted
  <2>6. MembersMatchTheirPlayers'
    BY <1>1, <2>4, <2>5 DEF MembersMatchTheirPlayers, Fits
  <2>7. \A g \in Handlers \ {h} : Promising(worker[g]) =>
           Unlisted(members', worker[g].target)
    BY <1>3, <2>2 DEF MembershipInv, Sincere, Unlisted
  <2> QED
    BY <1>1, <2>3, <2>6, <2>7, IdleIsAWorker, StepKeeps DEF Answer
<1> QED
  BY <1>4, <1>5

-----------------------------------------------------------------------------
\* Deleting the campaign: the list goes, and what it said with it.
LEMMA DropKeeps ==
    ASSUME MembershipInv, NEW h \in Handlers, Drop(h)
    PROVE  MembershipInv'
<1>1. members' = <<>> /\ DOMAIN members' = {}
  BY DEF Drop
<1>2. TypeOK'
  BY <1>1, IdleIsAWorker DEF MembershipInv, TypeOK, Drop, Answer
<1>3. MembersMatchTheirPlayers' /\ \A i : Unlisted(members', i)
  BY <1>1 DEF MembersMatchTheirPlayers, Unlisted
<1> QED
  BY <1>2, <1>3, IdleIsAWorker, StepKeeps DEF Drop, Answer

LEMMA DeletionKeeps ==
    ASSUME MembershipInv, NEW h \in Handlers, List(h) \/ Wipe(h)
    PROVE  MembershipInv'
<1> DEFINE w == worker[h]
<1>1. w \in Worker /\ Knows(w) /\ w.rq \in Requests
  BY DEF MembershipInv, TypeOK, Knows, List, Wipe
<1>2. CASE List(h)
  <2> DEFINE v == [w EXCEPT !.stage = "wipe", !.ids = IDsForCampaign]
  <2>1. worker' = [worker EXCEPT ![h] = v] /\ UNCHANGED Stored
    BY <1>2 DEF List, MembershipInv, TypeOK
  <2>2. IDsForCampaign \subseteq PlayerIds
    BY DEF IDsForCampaign, Existing
  <2>3. v \in Worker /\ v.stage = "wipe" /\ v.rq = w.rq
    BY <1>1, <2>2 DEF Worker, Stages
  <2> HIDE DEF v
  <2>4. Knows(v) /\ ~Promising(v)
    BY <1>1, <2>3 DEF Knows, Promising
  <2> QED
    BY <2>1, <2>3, <2>4, MoveKeeps
<1>3. CASE Wipe(h)
  <2> DEFINE v == [w EXCEPT !.stage = "drop"]
  <2>1. worker' = [worker EXCEPT ![h] = v] /\ UNCHANGED <<campaign, members>>
    BY <1>3 DEF Wipe, Proceed, MembershipInv, TypeOK
  <2>2. v \in Worker /\ v.stage = "drop" /\ v.rq = w.rq
    BY <1>1 DEF Worker, Stages
  <2> HIDE DEF v
  <2>3. Knows(v) /\ ~Promising(v)
    BY <1>1, <2>2 DEF Knows, Promising
  <2> QED
    BY <1>3, <2>1, <2>2, <2>3, RemoveIsGone, QuietKeeps DEF Wipe, MembershipInv
<1> QED
  BY <1>2, <1>3

LEMMA AccessKeeps ==
    ASSUME MembershipInv, NEW h \in Handlers, Access(h) \/ Role(h)
    PROVE  MembershipInv'
<1> DEFINE w == worker[h]
<1>1. w \in Worker /\ Knows(w) /\ w.rq \in Requests
  BY DEF MembershipInv, TypeOK, Knows, Access, Role
<1>2. CASE Access(h)
  <2> DEFINE i == w.rq.player
  <2>1. CASE i \in Existing
    <3> DEFINE v == [w EXCEPT !.stage = "role", !.target = i, !.snap = players[i]]
    <3>1. worker' = [worker EXCEPT ![h] = v] /\ UNCHANGED Stored
      BY <1>2, <2>1 DEF Access, MembershipInv, TypeOK
    <3>2. i \in PlayerIds /\ players[i] \in Player
      BY <2>1 DEF Existing, MembershipInv, TypeOK
    <3>3. v \in Worker /\ v.stage = "role" /\ v.rq = w.rq /\ v.target = i
      BY <1>1, <3>2 DEF Worker, Stages
    <3>4. w.rq.op \in {"update", "delete"}
      BY <1>2 DEF MembershipInv, Knows, Access
    <3> HIDE DEF v
    <3>5. Knows(v) /\ ~Promising(v)
      BY <1>1, <3>2, <3>3, <3>4 DEF Knows, Promising
    <3> QED
      BY <3>1, <3>3, <3>5, MoveKeeps
  <2>2. CASE i \notin Existing
    BY <1>2, <2>2, AnswerOnlyKeeps DEF Access
  <2> QED
    BY <2>1, <2>2
<1>3. CASE Role(h)
  <2>1. CASE MayGoOn(h) /\ (Op(h) = "update" => Stripped(h) # {})
    <3> DEFINE v == [w EXCEPT !.stage = Op(h), !.isDM = IsDM(By(h))]
    <3>1. worker' = [worker EXCEPT ![h] = v] /\ UNCHANGED Stored
      BY <1>3, <2>1 DEF Role, MembershipInv, TypeOK
    <3>2. Op(h) \in {"update", "delete"} /\ w.target \in PlayerIds
      BY <1>1, <1>3 DEF Role, Knows, Op
    <3>3. IsDM(By(h)) \in BOOLEAN
      BY DEF IsDM, IsMember
    <3>4. v \in Worker /\ v.stage = Op(h) /\ v.rq = w.rq /\ v.target = w.target
      BY <1>1, <3>2, <3>3 DEF Worker, Stages
    <3> HIDE DEF v
    <3>5. Knows(v) /\ ~Promising(v)
      BY <1>1, <3>2, <3>4 DEF Knows, Promising
    <3> QED
      BY <3>1, <3>4, <3>5, MoveKeeps
  <2>2. CASE ~(MayGoOn(h) /\ (Op(h) = "update" => Stripped(h) # {}))
    BY <1>3, <2>2, AnswerOnlyKeeps DEF Role
  <2> QED
    BY <2>1, <2>2
<1> QED
  BY <1>2, <1>3

\* Of the fields of a request none that matters here is left.
LEMMA UpdateChangesNothing ==
    ASSUME MembershipInv, NEW h \in Handlers, UpdatePlayer(h)
    PROVE  UNCHANGED Stored
<1> DEFINE i == worker[h].target
<1>1. i \in PlayerIds
  BY DEF MembershipInv, Knows, UpdatePlayer
<1>2. CASE Matches(h)
  <2>1. players[i] \in Player
    BY <1>1, <1>2 DEF Matches, MembershipInv, TypeOK
  <2>2. "kind" \notin Stripped(h) /\ "linkedUserId" \notin Stripped(h)
    BY DEF Stripped, ProtectedPlayerKeys
  <2>3. Patched(players[i], Stripped(h), By(h)) = players[i]
    BY <2>1, <2>2 DEF Patched, Player, Linked, Unlinked, Companion
  <2> QED
    BY <1>1, <1>2, <2>3 DEF UpdatePlayer, MembershipInv, TypeOK, Stored
<1>3. CASE ~Matches(h)
  BY <1>3 DEF UpdatePlayer, Stored
<1> QED
  BY <1>2, <1>3

LEMMA DeletePlayerKeeps ==
    ASSUME MembershipInv, NEW h \in Handlers, DeletePlayer(h)
    PROVE  MembershipInv'
<1> DEFINE w == worker[h]
           v == [w EXCEPT !.stage = "cascade"]
<1>1. w \in Worker /\ Knows(w) /\ w.rq \in Requests /\ w.target \in PlayerIds
  BY DEF MembershipInv, TypeOK, Knows, DeletePlayer
<1>2. Remove({w.target}) /\ UNCHANGED <<campaign, members>>
  BY DEF DeletePlayer
<1>3. CASE CascadeOnDelete(w.snap)
  <2>1. worker' = [worker EXCEPT ![h] = v]
    BY <1>3 DEF DeletePlayer, Proceed, MembershipInv, TypeOK
  <2>2. v \in Worker /\ v.stage = "cascade" /\ v.rq = w.rq /\ v.target = w.target
    BY <1>1 DEF Worker, Stages
  <2> HIDE DEF v
  <2>3. Knows(v) /\ ~Promising(v)
    BY <1>1, <2>2 DEF Knows, Promising
  <2> QED
    BY <1>2, <2>1, <2>2, <2>3, RemoveIsGone, QuietKeeps DEF MembershipInv
<1>4. CASE ~CascadeOnDelete(w.snap)
  BY <1>2, <1>4, RemoveAndAnswerKeeps DEF DeletePlayer
<1> QED
  BY <1>3, <1>4

LEMMA ReceiveKeeps ==
    ASSUME MembershipInv, NEW h \in Handlers, NEW r \in Requests, Receive(h, r)
    PROVE  MembershipInv'
<1> DEFINE w == worker[h]
           v == [w EXCEPT !.stage = FirstStage(r), !.rq = r]
<1>1. w \in Worker /\ r \in Request
  BY DEF MembershipInv, TypeOK
<1>2. worker' = [worker EXCEPT ![h] = v] /\ UNCHANGED Stored
  BY DEF Receive, MembershipInv, TypeOK
<1>3. /\ FirstStage(r) \in {"begin", "access", "authorise"}
      /\ FirstStage(r) = "authorise" => r.op \in Adds \cup {"drop"}
      /\ FirstStage(r) = "access" => r.op \in {"update", "delete"}
  BY <1>1 DEF FirstStage, Request, Adds
<1>4. v \in Worker /\ v.stage = FirstStage(r) /\ v.rq = r
  BY <1>1, <1>3 DEF Worker, Stages
<1> HIDE DEF v
<1>5. Knows(v) /\ ~Promising(v)
  BY <1>3, <1>4 DEF Knows, Promising
<1> QED
  BY <1>2, <1>4, <1>5, MoveKeeps

LEMMA FailureKeeps ==
    ASSUME MembershipInv, NEW h \in Handlers, InsertCampaignFails(h) \/ Abort(h)
    PROVE  MembershipInv'
<1> DEFINE w == worker[h]
           v == [w EXCEPT !.stage = "undo"]
<1>1. w \in Worker /\ Knows(w) /\ w.rq \in Requests
  BY DEF MembershipInv, TypeOK, Knows, InsertCampaignFails, Abort
<1>2. CASE InsertCampaignFails(h)
  <2>1. worker' = [worker EXCEPT ![h] = v] /\ UNCHANGED Stored
    BY <1>2 DEF InsertCampaignFails, Proceed, MembershipInv, TypeOK
  <2>2. v \in Worker /\ v.stage = "undo" /\ v.rq = w.rq /\ v.target = w.target
    BY <1>1 DEF Worker, Stages
  <2> HIDE DEF v
  <2>3. Knows(v) /\ ~Promising(v)
    BY <1>1, <1>2, <2>2 DEF Knows, Promising, InsertCampaignFails
  <2> QED
    BY <2>1, <2>2, <2>3, MoveKeeps
<1>3. CASE Abort(h)
  <2> DEFINE left == CASE w.stage \in {"campaign", "undo"} -> {w.target}
                       [] w.stage = "cascade" -> PetsOf(w.target)
                       [] OTHER -> {}
  <2>1. left \subseteq PlayerIds
    BY <1>1 DEF Knows, PetsOf, Existing
  <2>2. late' = late \cup left
    BY <1>3 DEF Abort
  <2> HIDE DEF left
  <2>3. late' \subseteq PlayerIds
    BY <2>1, <2>2 DEF MembershipInv, TypeOK
  <2> QED
    BY <1>3, <2>3, AnswerKeeps DEF Abort, MembershipInv, TypeOK
<1> QED
  BY <1>2, <1>3

-----------------------------------------------------------------------------
LEMMA ServeKeeps ==
    ASSUME MembershipInv, NEW h \in Handlers, Serve(h)
    PROVE  MembershipInv'
<1>1. CASE CreateAtOnce(h) \/ InsertDM(h) \/ InsertCampaign(h) \/ InsertCampaignFails(h)
  BY <1>1, CreationKeeps, FailureKeeps
<1>2. CASE Undo(h) \/ DeleteCompanionsByOwner(h)
  BY <1>2, RemoveAndAnswerKeeps DEF Undo, DeleteCompanionsByOwner
<1>3. CASE InsertRefused(h) \/ DeleteMisses(h)
  BY <1>3, AnswerOnlyKeeps DEF InsertRefused, DeleteMisses
<1>4. CASE Authorise(h) \/ ReadOwner(h) \/ FindCompanionByOwner(h)
  BY <1>4, AuthoriseKeeps, OwnerChecksKeep
<1>5. CASE Insert(h) \/ AddMember(h)
  BY <1>5, InsertKeeps, AddMemberKeeps
<1>6. CASE List(h) \/ Wipe(h) \/ Drop(h)
  BY <1>6, DeletionKeeps, DropKeeps
<1>7. CASE Access(h) \/ Role(h) \/ DeletePlayer(h)
  BY <1>7, AccessKeeps, DeletePlayerKeeps
<1>8. CASE UpdatePlayer(h)
  BY <1>8, UpdateChangesNothing, AnswerOnlyKeeps DEF UpdatePlayer
<1> QED
  BY <1>1, <1>2, <1>3, <1>4, <1>5, <1>6, <1>7, <1>8 DEF Serve

LEMMA MembershipStarts == Init => MembershipInv
<1> SUFFICES ASSUME Init PROVE MembershipInv
  OBVIOUS
<1>1. TypeOK /\ DOMAIN members = {} /\ \A h \in Handlers : worker[h] = Idle
  BY IdleIsAWorker DEF Init, TypeOK
<1> QED
  BY <1>1, IdleIsAWorker DEF MembershipInv, MembersMatchTheirPlayers, Sincere

LEMMA MembershipStep == MembershipInv /\ [Next]_vars => MembershipInv'
<1> SUFFICES ASSUME MembershipInv, [Next]_vars PROVE MembershipInv'
  OBVIOUS
<1>1. CASE Next
  BY <1>1, ServeKeeps, FailureKeeps, ReceiveKeeps DEF Next
<1>2. CASE UNCHANGED vars
  BY <1>2 DEF vars, MembershipInv, TypeOK, MembersMatchTheirPlayers, Sincere
<1> QED
  BY <1>1, <1>2

LEMMA InvariantHolds == Spec => []MembershipInv
BY MembershipStarts, MembershipStep, PTL DEF Spec

\* What the two collections hold is of the right shape: a companion has an owner
\* and a user, a PC and a DM have a user, an NPC has neither.
THEOREM TypesHold == Spec => []TypeOK
<1>1. MembershipInv => TypeOK
  BY DEF MembershipInv
<1> QED
  BY <1>1, InvariantHolds, PTL

\* A document that stays is the same document: whatever fields an update asks
\* for, and whatever is created, deleted or cascaded meanwhile, a player keeps
\* the kind, the user and the owner it was stored with (stripProtectedPlayerFields
\* before PlayerStore.Update, and new uuids only).
PlayersStayWhoTheyAre ==
    [][\A i \in PlayerIds :
           players[i] # Absent /\ players'[i] # Absent => players'[i] = players[i]]_vars

LEMMA PutChangesNobody ==
    ASSUME TypeOK, NEW i \in PlayerIds, NEW player, Put(i, player)
    PROVE  \A j \in PlayerIds : players[j] # Absent => players'[j] = players[j]
BY DEF Put, Fresh, Existing, TypeOK

LEMMA NobodyChanges ==
    ASSUME MembershipInv, [Next]_vars, NEW j \in PlayerIds,
           players[j] # Absent, players'[j] # Absent
    PROVE  players'[j] = players[j]
<1>0. TypeOK
  BY DEF MembershipInv
<1>1. CASE UNCHANGED vars
  BY <1>1 DEF vars
<1>2. ASSUME NEW h \in Handlers, Serve(h) PROVE players'[j] = players[j]
  <2>1. CASE CreateAtOnce(h) \/ InsertDM(h)
    BY <1>0, <2>1, PutChangesNobody DEF CreateAtOnce, InsertDM
  <2>2. CASE Insert(h)
    BY <1>0, <2>2, PutChangesNobody DEF Insert
  <2>3. CASE Undo(h) \/ Wipe(h) \/ DeletePlayer(h) \/ DeleteCompanionsByOwner(h)
    BY <2>3 DEF Undo, Wipe, DeletePlayer, DeleteCompanionsByOwner, Remove
  <2>4. CASE UpdatePlayer(h)
    BY <2>4, UpdateChangesNothing DEF Stored
  <2>5. CASE \/ InsertCampaign(h) \/ InsertCampaignFails(h) \/ AddMember(h) \/ Drop(h)
             \/ InsertRefused(h) \/ DeleteMisses(h)
    BY <2>5 DEF InsertCampaign, InsertCampaignFails, AddMember, Drop, InsertRefused,
                DeleteMisses, Stored
  <2>6. CASE \/ Authorise(h) \/ ReadOwner(h) \/ FindCompanionByOwner(h) \/ List(h)
             \/ Access(h) \/ Role(h)
    BY <2>6 DEF Authorise, ReadOwner, FindCompanionByOwner, List, Access, Role, Stored
  <2> QED
    BY <1>2, <2>1, <2>2, <2>3, <2>4, <2>5, <2>6 DEF Serve
<1>3. ASSUME NEW h \in Handlers, Abort(h) PROVE players'[j] = players[j]
  BY <1>3 DEF Abort
<1>4. ASSUME NEW h \in Handlers, NEW r \in Requests, Receive(h, r)
      PROVE  players'[j] = players[j]
  BY <1>4 DEF Receive, Stored
<1> QED
  BY <1>1, <1>2, <1>3, <1>4 DEF Next

\* PlayersStayWhoTheyAre for any users, requests and handlers: an update is
\* filtered by what it may not touch, and a new document has a fresh id.
THEOREM UpdatesKeepPlayers == Spec => PlayersStayWhoTheyAre
<1>1. MembershipInv /\ [Next]_vars =>
         [\A i \in PlayerIds :
             players[i] # Absent /\ players'[i] # Absent => players'[i] = players[i]]_vars
  BY NobodyChanges
<1> QED
  BY <1>1, InvariantHolds, PTL DEF Spec, PlayersStayWhoTheyAre

\* CampaignMember: "Every member has a backing Player record", of his user and
\* kind where it is still there, however invitations, updates and deletions of
\* any number of handlers overlap.
THEOREM MembersMatch == Spec => []MembersMatchTheirPlayers
<1>1. MembershipInv => MembersMatchTheirPlayers
  BY DEF MembershipInv
<1> QED
  BY <1>1, InvariantHolds, PTL

-----------------------------------------------------------------------------
(***************************************************************************)
(* Companions and strays.  Here the invariant has to say what a handler in *)
(* the middle of a cascade, a rollback or a deletion still owes, and what  *)
(* its earlier reads are worth: the player it has read is what he was or   *)
(* is gone, and the players a deletion has listed are all there are, but   *)
(* for late ones.                                                          *)
(***************************************************************************)
Creating == {"begin", "campaign", "undo"}

\* Stages of a handler that has been let in by its role in the campaign.
LetIn == {"owner", "existing", "insert", "member", "list", "wipe", "drop"}

\* What a handler has read of its player is what he is, as long as he is there.
ReadsTrue(w) ==
    /\ \/ w.stage = "existing"
       \/ w.stage = "insert" /\ w.rq.op = "addPet"
       => /\ w.snap.kind = "pc" /\ players[w.target] \in {w.snap, Absent}
    /\ w.stage \in {"role", "update", "delete"} =>
          w.snap \in Player /\ players[w.target] \in {w.snap, Absent}
    /\ w.stage \in {"campaign", "undo"} =>
          players[w.target] = Absent \/ players[w.target].kind = "dm"

\* Only who creates the campaign is there before it.
InItsTime(w) ==
    /\ w.stage # "idle" => (w.stage \in Creating <=> w.rq.op = "create")
    /\ w.stage \in Creating => campaign = "none"
    /\ w.stage \in LetIn => campaign # "none"

\* What a campaign's deletion has listed or removed, it need not do again.
SweepsAll(w) ==
    /\ w.stage = "wipe" => Existing \subseteq w.ids \cup late
    /\ w.stage = "drop" => Existing \subseteq late

OneCreator == \A g, h \in Handlers :
    worker[g].stage \in Creating /\ worker[h].stage \in Creating => g = h

CompanyInv ==
    /\ MembershipInv
    /\ CompanionsFollowOwners
    /\ NoStrays
    /\ OneCreator
    /\ \A h \in Handlers : ReadsTrue(worker[h]) /\ InItsTime(worker[h]) /\ SweepsAll(worker[h])

-----------------------------------------------------------------------------
\* The players of the others keep being what they were read as.
LEMMA OthersStayTrue ==
    ASSUME MembershipInv, NEW g \in Handlers, ReadsTrue(worker[g]),
           \A j \in PlayerIds : ~Fresh(j) => players'[j] \in {players[j], Absent},
           worker'[g] = worker[g]
    PROVE  ReadsTrue(worker[g])'
<1> DEFINE w == worker[g]
<1>1. CASE w.target \in PlayerIds
  <2>1. ~Fresh(w.target)
    BY <1>1, MentionedIsNotFresh DEF MembershipInv
  <2>2. players'[w.target] \in {players[w.target], Absent}
    BY <1>1, <2>1
  <2> QED
    BY <2>2 DEF ReadsTrue
<1>2. CASE w.target \notin PlayerIds
  BY <1>2 DEF ReadsTrue, MembershipInv, Knows
<1> QED
  BY <1>1, <1>2

\* What is left to show of a step by h that stores no new document.
Covered(i) ==
    \/ i \in late
    \/ \E h \in Handlers : worker[h].stage = "cascade" /\ worker[h].target = players[i].owner

LEMMA CompanionsMeans ==
    CompanionsFollowOwners <=>
        \A i \in Existing : players[i].kind = "companion" =>
            /\ \A j \in Existing : /\ players[j].kind = "companion"
                                   /\ players[j].owner = players[i].owner
                                   => j = i
            /\ players[i].owner \in Existing =>
                  /\ players[players[i].owner].kind = "pc"
                  /\ players[players[i].owner].user = players[i].user
            /\ players[i].owner \notin Existing => Covered(i)
BY DEF CompanionsFollowOwners, PetsOf, Covered

\* A step by h in which documents at most go.
LEMMA ShrinkKeeps ==
    ASSUME CompanyInv, MembershipInv', NEW h \in Handlers,
           \A g \in Handlers \ {h} : worker'[g] = worker[g], campaign' = campaign,
           \A j \in PlayerIds : players'[j] \in {players[j], Absent},
           late \cap Existing' \subseteq late',
           ReadsTrue(worker[h])', InItsTime(worker[h])', SweepsAll(worker[h])',
           worker'[h].stage \in Creating =>
              \/ worker[h].stage \in Creating
              \/ \A g \in Handlers : worker[g].stage \notin Creating,
           \A i \in Existing' :
              /\ players[i].kind = "companion"
              /\ players[i].owner \notin Existing'
              /\ \/ players[i].owner \in Existing
                 \/ worker[h].stage = "cascade" /\ worker[h].target = players[i].owner
              => i \in late' \/ (worker'[h].stage = "cascade" /\ worker'[h].target = players[i].owner),
           \A i \in Existing' :
              worker[h].stage \in {"campaign", "undo"} /\ worker[h].target = i
              => i \in late' \/ (worker'[h].stage \in {"campaign", "undo"} /\ worker'[h].target = i)
    PROVE  CompanyInv'
<1>2. Existing' \subseteq Existing /\ \A i \in Existing' : players'[i] = players[i]
  BY DEF Existing
<1>3. CompanionsFollowOwners'
  <2>1. ASSUME NEW i \in Existing', players'[i].kind = "companion"
        PROVE  /\ \A j \in Existing' : /\ players'[j].kind = "companion"
                                       /\ players'[j].owner = players'[i].owner
                                       => j = i
               /\ players'[i].owner \in Existing' =>
                     /\ players'[players'[i].owner].kind = "pc"
                     /\ players'[players'[i].owner].user = players'[i].user
    BY <1>2, <2>1, CompanionsMeans DEF CompanyInv
  <2>2. ASSUME NEW i \in Existing', players'[i].kind = "companion",
               players'[i].owner \notin Existing'
        PROVE  Covered(i)'
    <3>1. i \in Existing /\ players'[i] = players[i]
      BY <1>2
    <3>2. CASE players[i].owner \in Existing
      BY <2>2, <3>1, <3>2 DEF Covered
    <3>3. CASE i \in late
      BY <3>3 DEF Covered
    <3>4. CASE \E g \in Handlers : worker[g].stage = "cascade" /\ worker[g].target = players[i].owner
      BY <2>2, <3>1, <3>4 DEF Covered
    <3> QED
      BY <2>2, <3>1, <3>2, <3>3, <3>4, CompanionsMeans DEF CompanyInv, Covered
  <2> QED
    BY <2>1, <2>2 DEF CompanionsFollowOwners, PetsOf, Covered
<1>4. NoStrays'
  <2>1. campaign = "gone" => Existing' \subseteq late'
    BY <1>2 DEF CompanyInv, NoStrays
  <2>2. ASSUME campaign = "none", NEW i \in Existing' \ late'
        PROVE  \E g \in Handlers : worker'[g].stage \in {"campaign", "undo"} /\ worker'[g].target = i
    <3>1. PICK g \in Handlers : worker[g].stage \in {"campaign", "undo"} /\ worker[g].target = i
      BY <1>2, <2>2 DEF CompanyInv, NoStrays
    <3> QED
      BY <3>1
  <2> QED
    BY <2>1, <2>2 DEF NoStrays
<1>5. OneCreator'
  BY DEF CompanyInv, OneCreator
<1>6. ASSUME NEW g \in Handlers \ {h}
      PROVE  ReadsTrue(worker[g])' /\ InItsTime(worker[g])' /\ SweepsAll(worker[g])'
  <2>1. ReadsTrue(worker[g])'
    BY OthersStayTrue DEF CompanyInv
  <2>2. InItsTime(worker[g])'
    BY DEF CompanyInv, InItsTime
  <2>3. SweepsAll(worker[g])'
    BY <1>2 DEF CompanyInv, SweepsAll
  <2> QED
    BY <2>1, <2>2, <2>3
<1> QED
  BY <1>3, <1>4, <1>5, <1>6 DEF CompanyInv

\* A step that only moves a handler that owes nothing, or answers.
LEMMA MoveFollows ==
    ASSUME CompanyInv, MembershipInv', NEW h \in Handlers,
           \A g \in Handlers \ {h} : worker'[g] = worker[g],
           UNCHANGED <<players, campaign, late>>,
           worker[h].stage \notin {"campaign", "undo", "cascade"},
           ReadsTrue(worker[h])', InItsTime(worker[h])', SweepsAll(worker[h])',
           worker'[h].stage \in Creating =>
              \/ worker[h].stage \in Creating
              \/ \A g \in Handlers : worker[g].stage \notin Creating
    PROVE  CompanyInv'
<1>1. Existing' = Existing
  BY DEF Existing
<1> QED
  BY <1>1, ShrinkKeeps DEF CompanyInv, MembershipInv, TypeOK, Existing

\* Whoever has answered has read nothing and owes nothing.
LEMMA AnswerOwesNothing ==
    ASSUME MembershipInv, NEW h \in Handlers, Answer(h)
    PROVE  /\ ReadsTrue(worker[h])' /\ InItsTime(worker[h])' /\ SweepsAll(worker[h])'
           /\ worker'[h] = Idle /\ worker'[h].stage = "idle" /\ worker'[h].stage \notin Creating
           /\ \A g \in Handlers \ {h} : worker'[g] = worker[g]
<1>1. worker'[h] = Idle /\ \A g \in Handlers \ {h} : worker'[g] = worker[g]
  BY DEF MembershipInv, TypeOK, Answer
<1>2. worker'[h].stage = "idle"
  BY <1>1 DEF Idle
<1> QED
  BY <1>1, <1>2 DEF ReadsTrue, InItsTime, SweepsAll, Creating, LetIn

LEMMA AnswerFollows ==
    ASSUME CompanyInv, MembershipInv', NEW h \in Handlers, Answer(h),
           UNCHANGED <<players, campaign, late>>,
           worker[h].stage \notin {"campaign", "undo", "cascade"}
    PROVE  CompanyInv'
BY MoveFollows, AnswerOwesNothing DEF CompanyInv

\* A step by h that stores a new document.
LEMMA PutFollows ==
    ASSUME CompanyInv, MembershipInv', NEW h \in Handlers,
           \A g \in Handlers \ {h} : worker'[g] = worker[g],
           NEW i \in PlayerIds, NEW player \in Player, Put(i, player),
           worker[h].stage \in {"begin", "insert"},
           player.kind = "companion" =>
              /\ PetsOf(player.owner) = {} /\ player.owner # i
              /\ player.owner \in Existing =>
                    /\ players[player.owner].kind = "pc"
                    /\ players[player.owner].user = player.user,
           \/ campaign' = campaign
           \/ campaign = "none" /\ campaign' = "open" /\ worker[h].stage = "begin",
           campaign' = "none" => worker'[h].stage = "campaign" /\ worker'[h].target = i,
           ReadsTrue(worker[h])', InItsTime(worker[h])', SweepsAll(worker[h])',
           worker'[h].stage \in Creating => worker[h].stage \in Creating
    PROVE  CompanyInv'
<1>2. /\ players'[i] = player /\ Fresh(i)
      /\ \A j \in PlayerIds \ {i} : players'[j] = players[j]
  BY PutIsNew DEF CompanyInv, MembershipInv
<1>3. /\ player # Absent /\ i \notin Existing
      /\ Existing' = Existing \cup {i}
      /\ \A j \in Existing : j # i /\ players'[j] = players[j] /\ players[j].owner # i
  BY <1>2 DEF Existing, Fresh
<1>4. /\ late \subseteq late'
      /\ campaign = "gone" => i \in late'
      /\ \A g \in Handlers : worker[g].stage \in {"wipe", "drop"} => i \in late'
      /\ player.owner # NoPlayer /\ player.owner \notin Existing => i \in late'
  BY DEF Put
<1>5. \A j \in Existing : players[j].kind = "companion" /\ player.kind = "companion"
                          => players[j].owner # player.owner
  BY DEF PetsOf
<1>6. CompanionsFollowOwners'
  <2>1. ASSUME NEW j \in Existing, players[j].kind = "companion"
        PROVE  /\ \A k \in Existing' : /\ players'[k].kind = "companion"
                                       /\ players'[k].owner = players'[j].owner
                                       => k = j
               /\ players'[j].owner \in Existing' =>
                     /\ players'[players'[j].owner].kind = "pc"
                     /\ players'[players'[j].owner].user = players'[j].user
    BY <1>2, <1>3, <1>5, <2>1, CompanionsMeans DEF CompanyInv
  <2>2. ASSUME NEW j \in Existing, players[j].kind = "companion",
               players'[j].owner \notin Existing'
        PROVE  Covered(j)'
    <3>1. Covered(j) /\ players'[j] = players[j]
      BY <1>3, <2>2, CompanionsMeans DEF CompanyInv
    <3> QED
      BY <1>4, <3>1 DEF Covered
  <2>3. ASSUME player.kind = "companion"
        PROVE  /\ \A k \in Existing' : /\ players'[k].kind = "companion"
                                       /\ players'[k].owner = player.owner
                                       => k = i
               /\ player.owner \in Existing' =>
                     /\ players'[player.owner].kind = "pc"
                     /\ players'[player.owner].user = player.user
               /\ player.owner \notin Existing' => Covered(i)'
    <3>1. player \in Companion
      BY <2>3 DEF Player, Linked, Unlinked
    <3>2. player.owner # NoPlayer
      BY <3>1 DEF Companion
    <3> QED
      BY <1>2, <1>3, <1>4, <1>5, <2>3, <3>2 DEF Covered
  <2> QED
    BY <1>2, <1>3, <2>1, <2>2, <2>3 DEF CompanionsFollowOwners, PetsOf, Covered
<1>7. NoStrays'
  <2>1. campaign' = "gone" => Existing' \subseteq late'
    BY <1>3, <1>4 DEF CompanyInv, NoStrays
  <2>2. ASSUME campaign' = "none", NEW j \in Existing' \ late'
        PROVE  \E g \in Handlers : worker'[g].stage \in {"campaign", "undo"} /\ worker'[g].target = j
    <3>1. CASE j = i
      BY <2>2, <3>1
    <3>2. CASE j # i
      <4>1. PICK g \in Handlers : worker[g].stage \in {"campaign", "undo"} /\ worker[g].target = j
        BY <1>3, <1>4, <2>2, <3>2 DEF CompanyInv, NoStrays
      <4> QED
        BY <4>1
    <3> QED
      BY <3>1, <3>2
  <2> QED
    BY <2>1, <2>2 DEF NoStrays
<1>8. OneCreator'
  BY DEF CompanyInv, OneCreator
<1>9. ASSUME NEW g \in Handlers \ {h}
      PROVE  ReadsTrue(worker[g])' /\ InItsTime(worker[g])' /\ SweepsAll(worker[g])'
  <2>1. \A j \in PlayerIds : ~Fresh(j) => players'[j] = players[j]
    BY <1>2
  <2>2. ReadsTrue(worker[g])'
    BY <2>1, OthersStayTrue DEF CompanyInv
  <2>3. worker[h].stage = "begin" => worker[g].stage \notin Creating
    BY DEF CompanyInv, OneCreator, Creating
  <2>4. InItsTime(worker[g])'
    BY <2>3 DEF CompanyInv, InItsTime
  <2>5. SweepsAll(worker[g])'
    BY <1>3, <1>4 DEF CompanyInv, SweepsAll
  <2> QED
    BY <2>2, <2>4, <2>5
<1> QED
  BY <1>6, <1>7, <1>8, <1>9 DEF CompanyInv

\* A step by h that opens or drops the campaign.
LEMMA CampaignTurns ==
    ASSUME CompanyInv, MembershipInv', NEW h \in Handlers, Answer(h),
           UNCHANGED <<players, late>>, worker[h].stage # "cascade",
           campaign' \in {"open", "gone"},
           campaign' = "gone" => Existing \subseteq late,
           \A g \in Handlers \ {h} : worker[g].stage \notin Creating
    PROVE  CompanyInv'
<1>1. /\ worker'[h] = Idle
      /\ \A g \in Handlers \ {h} : worker'[g] = worker[g]
  BY AnswerOwesNothing DEF CompanyInv
<1>2. Existing' = Existing
  BY DEF Existing
<1>3. CompanionsFollowOwners'
  <2>1. ASSUME NEW i \in Existing, Covered(i) PROVE Covered(i)'
    BY <1>1, <2>1 DEF Covered
  <2>2. \A i \in Existing : players[i].kind = "companion" =>
            /\ \A j \in Existing : /\ players[j].kind = "companion"
                                   /\ players[j].owner = players[i].owner
                                   => j = i
            /\ players[i].owner \in Existing =>
                  /\ players[players[i].owner].kind = "pc"
                  /\ players[players[i].owner].user = players[i].user
            /\ players[i].owner \notin Existing => Covered(i)'
    BY <2>1, CompanionsMeans DEF CompanyInv
  <2> QED
    BY <1>2, <2>2 DEF CompanionsFollowOwners, PetsOf, Covered
<1>4. NoStrays'
  BY <1>2 DEF NoStrays
<1>5. ~(Idle.stage \in Creating)
  BY DEF Idle, Creating
<1>6. OneCreator'
  BY <1>1, <1>5 DEF OneCreator
<1>7. ASSUME NEW g \in Handlers \ {h}
      PROVE  ReadsTrue(worker[g])' /\ InItsTime(worker[g])' /\ SweepsAll(worker[g])'
  BY <1>1, <1>2 DEF CompanyInv, ReadsTrue, InItsTime, SweepsAll
<1>8. ReadsTrue(worker[h])' /\ InItsTime(worker[h])' /\ SweepsAll(worker[h])'
  BY <1>1, <1>2 DEF Idle, Creating, LetIn, ReadsTrue, InItsTime, SweepsAll
<1> QED
  BY <1>3, <1>4, <1>6, <1>7, <1>8 DEF CompanyInv

-----------------------------------------------------------------------------
LEMMA CreationFollows ==
    ASSUME CompanyInv, MembershipInv', NEW h \in Handlers,
           CreateAtOnce(h) \/ InsertDM(h) \/ InsertCampaign(h) \/ InsertCampaignFails(h)
    PROVE  CompanyInv'
<1> DEFINE w == worker[h]
<1>1. /\ w \in Worker /\ w.rq \in Request /\ By(h) \in Users /\ w.stage \in {"begin", "campaign"}
      /\ w.stage \in Creating /\ campaign = "none" /\ w.rq.op = "create"
  BY DEF CompanyInv, MembershipInv, TypeOK, Knows, InItsTime, Creating, CreateAtOnce,
     InsertDM, InsertCampaign, InsertCampaignFails, Request, By
<1>2. DMStub(By(h)) \in Player /\ DMStub(By(h)).kind = "dm"
  BY <1>1 DEF DMStub, Player, Linked
<1>3. \A g \in Handlers \ {h} : worker[g].stage \notin Creating
  BY <1>1 DEF CompanyInv, OneCreator
<1>4. CASE CreateAtOnce(h)
  <2>1. PICK i \in PlayerIds : Put(i, DMStub(By(h))) /\ campaign' = "open"
    BY <1>4 DEF CreateAtOnce, Open
  <2> QED
    BY <1>1, <1>2, <1>4, <2>1, AnswerOwesNothing, PutFollows DEF CreateAtOnce, CompanyInv
<1>5. CASE InsertDM(h)
  <2>1. PICK i \in PlayerIds :
           /\ Put(i, DMStub(By(h)))
           /\ worker' = [worker EXCEPT ![h].stage = "campaign", ![h].target = i]
    BY <1>5 DEF InsertDM
  <2>2. /\ worker'[h].stage = "campaign" /\ worker'[h].target = i /\ worker'[h].rq = w.rq
        /\ \A g \in Handlers \ {h} : worker'[g] = worker[g]
    BY <1>1, <2>1 DEF CompanyInv, MembershipInv, TypeOK, Worker
  <2>3. players'[i].kind = "dm" /\ campaign' = campaign /\ w.stage = "begin"
    BY <1>2, <1>5, <2>1, PutIsNew DEF CompanyInv, MembershipInv, InsertDM
  <2>4. ReadsTrue(worker[h])' /\ InItsTime(worker[h])' /\ SweepsAll(worker[h])'
    BY <1>1, <2>2, <2>3 DEF ReadsTrue, InItsTime, SweepsAll, Creating, LetIn
  <2> QED
    BY <1>1, <1>2, <2>1, <2>2, <2>3, <2>4, PutFollows
<1>6. CASE InsertCampaign(h)
  BY <1>3, <1>6, CampaignTurns DEF InsertCampaign, Open
<1>7. CASE InsertCampaignFails(h)
  <2>1. /\ worker'[h].stage = "undo" /\ worker'[h].target = w.target /\ worker'[h].rq = w.rq
        /\ \A g \in Handlers \ {h} : worker'[g] = worker[g]
        /\ w.stage = "campaign" /\ UNCHANGED Stored
    BY <1>1, <1>7 DEF CompanyInv, MembershipInv, TypeOK, Worker, InsertCampaignFails, Proceed
  <2>2. ReadsTrue(w)
    BY DEF CompanyInv
  <2>3. ReadsTrue(worker[h])' /\ InItsTime(worker[h])' /\ SweepsAll(worker[h])'
    BY <1>1, <2>1, <2>2 DEF Stored, ReadsTrue, InItsTime, SweepsAll, Creating, LetIn
  <2>4. Existing' = Existing
    BY <2>1 DEF Stored, Existing
  <2> QED
    BY <1>1, <2>1, <2>3, <2>4, ShrinkKeeps DEF Stored, CompanyInv, MembershipInv, TypeOK
<1> QED
  BY <1>4, <1>5, <1>6, <1>7

LEMMA InsertFollows ==
    ASSUME CompanyInv, MembershipInv', NEW h \in Handlers, Insert(h)
    PROVE  CompanyInv'
<1> DEFINE w == worker[h]
           new == NewPlayer(h)
<1>1. /\ w \in Worker /\ Knows(w) /\ w.stage = "insert" /\ w.rq \in Request /\ w.rq.op \in Adds
      /\ ReadsTrue(w) /\ campaign # "none" /\ IndexAdmits(h) /\ campaign' = campaign
  BY DEF CompanyInv, MembershipInv, TypeOK, Knows, Insert, InItsTime, LetIn
<1>2. new \in Player
  BY <1>1, NewIsAPlayer DEF CompanyInv
<1>3. PICK i \in PlayerIds :
         /\ Put(i, new)
         /\ IF Op(h) = "addPlayer"
            THEN worker' = [worker EXCEPT ![h].stage = "member", ![h].target = i]
            ELSE Answer(h)
  BY DEF Insert
<1>4. new.kind = "companion" =>
         /\ PetsOf(new.owner) = {} /\ new.owner # i
         /\ new.owner \in Existing => /\ players[new.owner].kind = "pc"
                                      /\ players[new.owner].user = new.user
  <2> SUFFICES ASSUME new.kind = "companion"
               PROVE  /\ PetsOf(new.owner) = {} /\ new.owner # i
                      /\ new.owner \in Existing => /\ players[new.owner].kind = "pc"
                                                   /\ players[new.owner].user = new.user
    OBVIOUS
  <2>1. Op(h) = "addPet" /\ new.owner = w.target /\ new.user = w.snap.user
    BY <1>1 DEF NewPlayer, Op, Adds
  <2>2. w.snap.kind = "pc" /\ players[w.target] \in {w.snap, Absent}
    BY <1>1, <2>1 DEF ReadsTrue, Op
  <2>3. w.target # i
    BY <1>3 DEF Put, Fresh
  <2> QED
    BY <1>1, <2>1, <2>2, <2>3 DEF IndexAdmits, Existing
<1> HIDE DEF new
<1>5. CASE Op(h) # "addPlayer"
  BY <1>1, <1>2, <1>3, <1>4, <1>5, AnswerOwesNothing, PutFollows DEF CompanyInv
<1>6. CASE Op(h) = "addPlayer"
  <2>1. /\ worker'[h].stage = "member" /\ worker'[h].rq = w.rq
        /\ \A g \in Handlers \ {h} : worker'[g] = worker[g]
    BY <1>1, <1>3, <1>6 DEF CompanyInv, MembershipInv, TypeOK, Worker
  <2>2. ReadsTrue(worker[h])' /\ InItsTime(worker[h])' /\ SweepsAll(worker[h])'
    BY <1>1, <1>6, <2>1 DEF ReadsTrue, InItsTime, SweepsAll, Creating, LetIn, Op
  <2>3. worker'[h].stage \notin Creating
    BY <2>1 DEF Creating
  <2> QED
    BY <1>1, <1>2, <1>3, <1>4, <2>1, <2>2, <2>3, PutFollows
<1> QED
  BY <1>5, <1>6

\* The reads before a player is added.
LEMMA ChecksFollow ==
    ASSUME CompanyInv, MembershipInv', NEW h \in Handlers,
           Authorise(h) \/ ReadOwner(h) \/ FindCompanionByOwner(h)
    PROVE  CompanyInv'
<1> DEFINE w == worker[h]
<1>1. /\ w \in Worker /\ Knows(w) /\ w.rq \in Requests /\ w.rq \in Request
      /\ InItsTime(w) /\ ReadsTrue(w) /\ UNCHANGED Stored
      /\ w.stage \in {"authorise", "owner", "existing"}
  BY DEF CompanyInv, MembershipInv, TypeOK, Knows, Authorise, ReadOwner, FindCompanionByOwner
<1>2. CASE Answer(h)
  BY <1>1, <1>2, AnswerFollows DEF Stored
<1>3. ASSUME \A g \in Handlers \ {h} : worker'[g] = worker[g],
             worker'[h].rq = w.rq, worker'[h].stage \in LetIn \ {"wipe", "drop"},
             campaign # "none", w.rq.op # "create", ReadsTrue(worker[h])'
      PROVE  CompanyInv'
  <2>1. InItsTime(worker[h])' /\ SweepsAll(worker[h])' /\ worker'[h].stage \notin Creating
    BY <1>1, <1>3 DEF InItsTime, SweepsAll, Creating, LetIn, Stored
  <2> QED
    BY <1>1, <1>3, <2>1, MoveFollows DEF Stored
<1>4. CASE Authorise(h) /\ ~Answer(h)
  <2>1. /\ worker'[h].rq = w.rq
        /\ worker'[h].stage = CASE Op(h) = "addPet" -> "owner"
                                [] Op(h) = "drop" -> "list"
                                [] OTHER -> "insert"
        /\ \A g \in Handlers \ {h} : worker'[g] = worker[g]
        /\ Authorised(h) /\ w.stage = "authorise"
    BY <1>1, <1>4 DEF Authorise, CompanyInv, MembershipInv, TypeOK, Worker
  <2>2. campaign = "open"
    BY <2>1 DEF Authorised, IsMember
  <2>3. w.rq.op \in Adds \cup {"drop"} /\ w.rq.op # "create"
    BY <1>1, <2>1 DEF Knows, Adds
  <2>4. /\ worker'[h].stage \in {"owner", "list", "insert"}
        /\ worker'[h].stage = "insert" => w.rq.op # "addPet"
    BY <2>1, <2>3 DEF Op
  <2>5. ReadsTrue(worker[h])'
    BY <2>1, <2>4 DEF ReadsTrue
  <2> QED
    BY <1>3, <2>1, <2>2, <2>3, <2>4, <2>5 DEF LetIn
<1>5. CASE ReadOwner(h) /\ ~Answer(h)
  <2>1. /\ worker'[h].rq = w.rq /\ worker'[h].stage = "existing"
        /\ worker'[h].snap = players[w.target] /\ worker'[h].target = w.target
        /\ \A g \in Handlers \ {h} : worker'[g] = worker[g]
        /\ players[w.target].kind = "pc" /\ w.stage = "owner"
    BY <1>1, <1>5 DEF ReadOwner, MayOwn, CompanyInv, MembershipInv, TypeOK, Worker
  <2>2. campaign # "none" /\ w.rq.op # "create"
    BY <1>1, <2>1 DEF InItsTime, LetIn, Knows
  <2>3. ReadsTrue(worker[h])'
    BY <1>1, <2>1 DEF ReadsTrue, Stored
  <2> QED
    BY <1>3, <2>1, <2>2, <2>3 DEF LetIn
<1>6. CASE FindCompanionByOwner(h) /\ ~Answer(h)
  <2>1. /\ worker'[h].rq = w.rq /\ worker'[h].stage = "insert"
        /\ worker'[h].snap = w.snap /\ worker'[h].target = w.target
        /\ \A g \in Handlers \ {h} : worker'[g] = worker[g]
        /\ w.stage = "existing"
    BY <1>1, <1>6 DEF FindCompanionByOwner, Proceed, CompanyInv, MembershipInv, TypeOK, Worker
  <2>2. campaign # "none" /\ w.rq.op # "create"
    BY <1>1, <2>1 DEF InItsTime, LetIn, Knows
  <2>3. ReadsTrue(worker[h])'
    BY <1>1, <2>1 DEF ReadsTrue, Stored
  <2> QED
    BY <1>3, <2>1, <2>2, <2>3 DEF LetIn
<1> QED
  BY <1>2, <1>4, <1>5, <1>6

\* Reads for an update or a deletion, and answers that find nothing to do.
LEMMA AccessFollows ==
    ASSUME CompanyInv, MembershipInv', NEW h \in Handlers,
           Access(h) \/ Role(h) \/ UpdatePlayer(h) \/ DeleteMisses(h)
              \/ InsertRefused(h) \/ AddMember(h)
    PROVE  CompanyInv'
<1> DEFINE w == worker[h]
<1>1. /\ w \in Worker /\ Knows(w) /\ w.rq \in Requests /\ w.rq \in Request
      /\ InItsTime(w) /\ ReadsTrue(w) /\ UNCHANGED <<players, campaign, late>>
      /\ w.stage \in {"access", "role", "update", "delete", "insert", "member"}
  BY UpdateChangesNothing DEF CompanyInv, MembershipInv, TypeOK, Knows, Access, Role, UpdatePlayer,
     DeleteMisses, InsertRefused, AddMember, Stored
<1>2. CASE Answer(h)
  BY <1>1, <1>2, AnswerFollows
<1>3. ASSUME \A g \in Handlers \ {h} : worker'[g] = worker[g],
             worker'[h].rq = w.rq, worker'[h].stage \in {"role", "update", "delete"},
             w.rq.op # "create", ReadsTrue(worker[h])'
      PROVE  CompanyInv'
  <2>1. InItsTime(worker[h])' /\ SweepsAll(worker[h])' /\ worker'[h].stage \notin Creating
    BY <1>1, <1>3 DEF InItsTime, SweepsAll, Creating, LetIn
  <2> QED
    BY <1>1, <1>3, <2>1, MoveFollows
<1>4. CASE Access(h) /\ ~Answer(h)
  <2>1. /\ worker'[h].rq = w.rq /\ worker'[h].stage = "role"
        /\ worker'[h].target = w.rq.player /\ worker'[h].snap = players[w.rq.player]
        /\ \A g \in Handlers \ {h} : worker'[g] = worker[g]
        /\ w.stage = "access" /\ players[w.rq.player] \in Player
    BY <1>1, <1>4 DEF Access, CompanyInv, MembershipInv, TypeOK, Worker, Existing
  <2>2. ReadsTrue(worker[h])'
    BY <1>1, <2>1 DEF ReadsTrue
  <2> QED
    BY <1>1, <1>3, <2>1, <2>2 DEF Knows
<1>5. CASE Role(h) /\ ~Answer(h)
  <2>1. /\ worker'[h].rq = w.rq /\ worker'[h].stage = w.rq.op
        /\ worker'[h].target = w.target /\ worker'[h].snap = w.snap
        /\ \A g \in Handlers \ {h} : worker'[g] = worker[g]
        /\ w.stage = "role"
    BY <1>1, <1>5 DEF Role, Op, CompanyInv, MembershipInv, TypeOK, Worker
  <2>2. w.rq.op \in {"update", "delete"}
    BY <1>1, <2>1 DEF Knows
  <2>3. ReadsTrue(worker[h])'
    BY <1>1, <2>1, <2>2 DEF ReadsTrue
  <2> QED
    BY <1>3, <2>1, <2>2, <2>3
<1> QED
  BY <1>2, <1>4, <1>5 DEF UpdatePlayer, DeleteMisses, InsertRefused, AddMember

LEMMA ReceiveFollows ==
    ASSUME CompanyInv, MembershipInv', NEW h \in Handlers, NEW r \in Requests, Receive(h, r)
    PROVE  CompanyInv'
<1> DEFINE w == worker[h]
<1>1. w \in Worker /\ r \in Request /\ w.stage = "idle" /\ UNCHANGED Stored
  BY DEF CompanyInv, MembershipInv, TypeOK, Receive
<1>2. /\ worker'[h].rq = r /\ worker'[h].stage = FirstStage(r)
      /\ \A g \in Handlers \ {h} : worker'[g] = worker[g]
  BY <1>1 DEF Receive, CompanyInv, MembershipInv, TypeOK, Worker
<1>3. /\ FirstStage(r) \in {"begin", "access", "authorise"}
      /\ FirstStage(r) = "begin" <=> r.op = "create"
  BY <1>1 DEF FirstStage, Request
<1>4. r.op = "create" =>
         campaign = "none" /\ \A g \in Handlers : worker[g].stage \notin Creating
  BY <1>1 DEF Receive, CompanyInv, InItsTime, MembershipInv, Knows, Op, Creating
<1>5. ReadsTrue(worker[h])' /\ InItsTime(worker[h])' /\ SweepsAll(worker[h])'
  BY <1>1, <1>2, <1>3, <1>4 DEF ReadsTrue, InItsTime, SweepsAll, Creating, LetIn, Stored
<1> QED
  BY <1>1, <1>2, <1>4, <1>5, <1>3, MoveFollows DEF Stored, Creating

\* What Remove leaves, late or not, is what there was.
LEMMA RemoveLeaves ==
    ASSUME TypeOK, NEW ids, Remove(ids)
    PROVE  /\ Existing' = Existing \ ids
           /\ late' = late \ ids
           /\ \A j \in PlayerIds : players'[j] \in {players[j], Absent}
BY DEF TypeOK, Remove, Existing

\* Undo takes back the DM's stub, which owns no companion.
LEMMA UndoFollows ==
    ASSUME CompanyInv, MembershipInv', NEW h \in Handlers, Undo(h)
    PROVE  CompanyInv'
<1> DEFINE w == worker[h]
<1>1. /\ w.stage = "undo" /\ Answer(h) /\ campaign' = campaign /\ ReadsTrue(w)
      /\ Existing' = Existing \ {w.target} /\ late' = late \ {w.target}
      /\ \A j \in PlayerIds : players'[j] \in {players[j], Absent}
  BY RemoveLeaves DEF Undo, CompanyInv, MembershipInv
<1>2. \A i \in Existing : players[i].kind = "companion" /\ players[i].owner \in Existing
                          => players[players[i].owner].kind = "pc"
  BY CompanionsMeans DEF CompanyInv
<1>3. w.target \in Existing => players[w.target].kind = "dm"
  BY <1>1 DEF ReadsTrue, Existing
<1> QED
  BY <1>1, <1>2, <1>3, AnswerOwesNothing, ShrinkKeeps DEF CompanyInv

\* A deleted PC's companions are left to the cascade; nobody else has any.
LEMMA DeletePlayerFollows ==
    ASSUME CompanyInv, MembershipInv', NEW h \in Handlers, DeletePlayer(h)
    PROVE  CompanyInv'
<1> DEFINE w == worker[h]
<1>1. /\ w \in Worker /\ w.stage = "delete" /\ campaign' = campaign /\ ReadsTrue(w) /\ InItsTime(w)
      /\ Existing' = Existing \ {w.target} /\ late' = late \ {w.target}
      /\ \A j \in PlayerIds : players'[j] \in {players[j], Absent}
  BY RemoveLeaves DEF DeletePlayer, CompanyInv, MembershipInv, TypeOK
<1>2. players[w.target] = w.snap /\ w.snap # Absent
  BY <1>1 DEF DeletePlayer, Matches, ReadsTrue
<1>3. \A i \in Existing : players[i].kind = "companion" /\ players[i].owner \in Existing
                          => players[players[i].owner].kind = "pc"
  BY CompanionsMeans DEF CompanyInv
<1>4. CASE CascadeOnDelete(w.snap)
  <2>1. /\ worker'[h].stage = "cascade" /\ worker'[h].target = w.target /\ worker'[h].rq = w.rq
        /\ \A g \in Handlers \ {h} : worker'[g] = worker[g]
    BY <1>1, <1>4 DEF DeletePlayer, Proceed, CompanyInv, MembershipInv, TypeOK, Worker
  <2>2. ReadsTrue(worker[h])' /\ InItsTime(worker[h])' /\ SweepsAll(worker[h])'
    BY <1>1, <2>1 DEF ReadsTrue, InItsTime, SweepsAll, Creating, LetIn
  <2> QED
    BY <1>1, <2>1, <2>2, ShrinkKeeps DEF Creating
<1>5. CASE ~CascadeOnDelete(w.snap)
  <2>1. Answer(h)
    BY <1>5 DEF DeletePlayer
  <2> QED
    BY <1>1, <1>2, <1>3, <1>5, <2>1, AnswerOwesNothing, ShrinkKeeps DEF CascadeOnDelete, CompanyInv
<1> QED
  BY <1>4, <1>5

LEMMA CascadeFollows ==
    ASSUME CompanyInv, MembershipInv', NEW h \in Handlers, DeleteCompanionsByOwner(h)
    PROVE  CompanyInv'
<1> DEFINE w == worker[h]
           pets == PetsOf(w.target)
<1>1. /\ w.stage = "cascade" /\ Answer(h) /\ campaign' = campaign
      /\ Existing' = Existing \ pets /\ late' = late \ pets
      /\ \A j \in PlayerIds : players'[j] \in {players[j], Absent}
  BY RemoveLeaves DEF DeleteCompanionsByOwner, CompanyInv, MembershipInv
<1>2. \A i \in Existing' : players[i].kind = "companion" => players[i].owner # w.target
  BY <1>1 DEF PetsOf
<1>3. ASSUME NEW i \in Existing', players[i].kind = "companion",
             players[i].owner \notin Existing', players[i].owner \in Existing
      PROVE  FALSE
  <2>1. players[i].owner \in pets
    BY <1>1, <1>3
  <2>2. players[players[i].owner].kind = "companion"
    BY <2>1 DEF PetsOf
  <2>3. players[players[i].owner].kind = "pc"
    BY <1>1, <1>3, CompanionsMeans DEF CompanyInv
  <2> QED
    BY <2>2, <2>3
<1> QED
  BY <1>1, <1>2, <1>3, AnswerOwesNothing, ShrinkKeeps DEF CompanyInv

\* Deleting the campaign: whoever comes after the listing is late.
LEMMA DeletionFollows ==
    ASSUME CompanyInv, MembershipInv', NEW h \in Handlers, List(h) \/ Wipe(h) \/ Drop(h)
    PROVE  CompanyInv'
<1> DEFINE w == worker[h]
<1>1. /\ w \in Worker /\ w.stage \in {"list", "wipe", "drop"}
      /\ InItsTime(w) /\ SweepsAll(w) /\ campaign # "none" /\ w.rq.op # "create"
  BY DEF CompanyInv, MembershipInv, TypeOK, InItsTime, LetIn, Creating, List, Wipe, Drop
<1>2. CASE List(h)
  <2>1. /\ worker'[h].stage = "wipe" /\ worker'[h].ids = Existing /\ worker'[h].rq = w.rq
        /\ \A g \in Handlers \ {h} : worker'[g] = worker[g]
        /\ UNCHANGED Stored /\ Existing' = Existing /\ w.stage = "list"
    BY <1>1, <1>2 DEF List, IDsForCampaign, CompanyInv, MembershipInv, TypeOK, Worker, Stored,
       Existing
  <2>2. ReadsTrue(worker[h])' /\ InItsTime(worker[h])' /\ SweepsAll(worker[h])'
    BY <1>1, <2>1 DEF ReadsTrue, InItsTime, SweepsAll, Creating, LetIn, Stored
  <2> QED
    BY <2>1, <2>2, MoveFollows DEF Stored, Creating
<1>3. CASE Wipe(h)
  <2>1. /\ worker'[h].stage = "drop" /\ worker'[h].rq = w.rq /\ campaign' = campaign
        /\ \A g \in Handlers \ {h} : worker'[g] = worker[g]
        /\ w.stage = "wipe"
    BY <1>1, <1>3 DEF Wipe, Proceed, CompanyInv, MembershipInv, TypeOK, Worker
  <2>2. /\ Existing' = Existing \ w.ids /\ late' = late \ w.ids
        /\ \A j \in PlayerIds : players'[j] \in {players[j], Absent}
    BY <1>3, RemoveLeaves DEF Wipe, CompanyInv, MembershipInv
  <2>3. Existing' \subseteq late'
    BY <1>1, <2>1, <2>2 DEF SweepsAll
  <2>4. ReadsTrue(worker[h])' /\ InItsTime(worker[h])' /\ SweepsAll(worker[h])'
    BY <1>1, <2>1, <2>3 DEF ReadsTrue, InItsTime, SweepsAll, Creating, LetIn
  <2> QED
    BY <2>1, <2>2, <2>3, <2>4, ShrinkKeeps DEF Creating
<1>4. CASE Drop(h)
  <2>1. Existing \subseteq late
    BY <1>1, <1>4 DEF SweepsAll, Drop
  <2>2. \A g \in Handlers : worker[g].stage \notin Creating
    BY <1>1 DEF CompanyInv, InItsTime
  <2> QED
    BY <1>4, <2>1, <2>2, CampaignTurns DEF Drop
<1> QED
  BY <1>2, <1>3, <1>4

LEMMA AbortFollows ==
    ASSUME CompanyInv, MembershipInv', NEW h \in Handlers, Abort(h)
    PROVE  CompanyInv'
<1> DEFINE w == worker[h]
<1>1. Answer(h) /\ UNCHANGED <<players, campaign, members>> /\ late \subseteq late'
  BY DEF Abort
<1>2. /\ w.stage \in {"campaign", "undo"} => w.target \in late'
      /\ w.stage = "cascade" => PetsOf(w.target) \subseteq late'
  BY DEF Abort
<1>3. Existing' = Existing
  BY <1>1 DEF Existing
<1> QED
  BY <1>1, <1>2, <1>3, AnswerOwesNothing, ShrinkKeeps
     DEF CompanyInv, MembershipInv, TypeOK, PetsOf

LEMMA CompanyHolds == Spec => []CompanyInv
<1>1. Init => CompanyInv
  <2> SUFFICES ASSUME Init PROVE CompanyInv
    OBVIOUS
  <2>1. Existing = {} /\ campaign = "none" /\ \A h \in Handlers : worker[h] = Idle
    BY DEF Init, Existing
  <2>2. ReadsTrue(Idle) /\ InItsTime(Idle) /\ SweepsAll(Idle) /\ Idle.stage \notin Creating
    BY DEF Idle, Creating, LetIn, ReadsTrue, InItsTime, SweepsAll
  <2> QED
    BY <2>1, <2>2, MembershipStarts DEF CompanyInv, CompanionsFollowOwners, NoStrays, OneCreator
<1>2. CompanyInv /\ [Next]_vars => CompanyInv'
  <2> SUFFICES ASSUME CompanyInv, [Next]_vars PROVE CompanyInv'
    OBVIOUS
  <2>1. MembershipInv'
    BY MembershipStep DEF CompanyInv
  <2>2. CASE UNCHANGED vars
    BY <2>1, <2>2 DEF vars, CompanyInv, CompanionsFollowOwners, PetsOf, NoStrays, OneCreator,
       ReadsTrue, InItsTime, SweepsAll, Existing
  <2>3. ASSUME NEW h \in Handlers, Serve(h) PROVE CompanyInv'
    BY <2>1, <2>3, CreationFollows, UndoFollows, ChecksFollow, InsertFollows, AccessFollows,
       DeletionFollows, DeletePlayerFollows, CascadeFollows DEF Serve
  <2> QED
    BY <2>1, <2>2, <2>3, AbortFollows, ReceiveFollows DEF Next
<1> QED
  BY <1>1, <1>2, PTL DEF Spec

\* CreateCompanion, the index and DeleteCompanionsByOwner: a player has one
\* companion at most, of his user, and it goes with him, unless it came after
\* him or its removal failed, whatever creations and deletions overlap.
THEOREM CompanionsFollow == Spec => []CompanionsFollowOwners
<1>1. CompanyInv => CompanionsFollowOwners
  BY DEF CompanyInv
<1> QED
  BY <1>1, CompanyHolds, PTL

\* CampaignHandler.Delete and CreateWithDMMember: no player is left without the
\* campaign, but one inserted as it went or one whose rollback is to come or
\* has failed.
THEOREM NobodyStrays == Spec => []NoStrays
<1>1. CompanyInv => NoStrays
  BY DEF CompanyInv
<1> QED
  BY <1>1, CompanyHolds, PTL

================================================================================
