----------------------------- MODULE AccountsProofs -----------------------------
(***************************************************************************)
(* What every step of the sign-up, address-change and password flows keeps *)
(* true, for any number of addresses, handlers and attempts and any mix of *)
(* operations: the types, the uniqueness of addresses, where a verified    *)
(* address was proved, the bound on guesses at reset codes, and that each *)
(* update of the account is a step of AddressBook or none.                 *)
(*                                                                         *)
(* ConfirmedAddress is not inductive.  A step that verifies writes what    *)
(* its handler read earlier, so the invariant says of each handler how     *)
(* what it holds relates to the account as it is now: the code is that of  *)
(* the address, unless a stale sign-up code has replaced it.               *)
(***************************************************************************)
EXTENDS PasswordReset, TLAPS

\* The account, with the addresses others hold (t), those proved (p) and
\* whether a pending change lost its code (o).
UserOK(u, t, p, o) ==
    /\ u \in User \cup {NoUser} /\ o \in BOOLEAN
    /\ t \subseteq Addresses /\ p \subseteq Addresses
    /\ u # NoUser =>
          /\ u.email \notin t
          /\ ~u.verified => u.pending = None /\ u.code \in {u.email, Lost, None}
          /\ ~o /\ u.pending # None /\ u.code \in Addresses => u.code = u.pending
          /\ u.verified /\ ~o => u.email \in p

\* What a handler read still fits the account it is about to write to.
WorkerOK(w, u, o) ==
    /\ w \in Worker
    /\ w.stage \in {"create", "issue", "pend", "commit"} \cup ResetStages
          => w.to \in Addresses
    /\ w.stage \in {"mark", "commit"} => w.code \in Addresses
    /\ w.stage \in {"issue", "miss", "mark", "pend", "commit", "reset"} => u # NoUser
    /\ w.stage \in {"pend", "commit"} => u.verified
    /\ u # NoUser /\ ~u.verified =>
          /\ w.stage \in {"issue", "reset"} => w.to = u.email
          /\ w.stage = "mark" => w.code = u.email
    /\ w.stage = "commit" /\ ~o => w.code = w.to

SessionOK(s) == s \in Session /\ s.guesses <= s.tries /\ s.guesses <= MaxTries

AccInv ==
    /\ UserOK(user, taken, proved, overwritten)
    /\ serves \in Families
    /\ worker \in [Handlers -> Worker]
    /\ \A h \in Handlers : WorkerOK(worker[h], user, overwritten)

SesInv ==
    /\ session \in [Addresses -> Session]
    /\ \A a \in Addresses : SessionOK(session[a])
    /\ quiet \in [Addresses -> 0 .. Cooldown]

-----------------------------------------------------------------------------
(***************************************************************************)
(* How the account may change under a handler that has read it: it does    *)
(* not go away, it stays verified, and until then it keeps its address.    *)
(***************************************************************************)
Grows(u, v, o, q) ==
    /\ o => q
    /\ u # NoUser => /\ v # NoUser
                     /\ u.verified => v.verified
                     /\ ~v.verified => v.email = u.email

\* What a handler holds stays fit when the account grows.
LEMMA WorkerStable ==
    ASSUME NEW w, NEW u, NEW v, NEW o, NEW q,
           WorkerOK(w, u, o), Grows(u, v, o, q)
    PROVE  WorkerOK(w, v, q)
  BY DEF WorkerOK, Grows

\* An idle handler is always fit.
LEMMA IdleOK ==
    ASSUME NEW u, NEW o
    PROVE  WorkerOK(Idle, u, o)
  BY DEF WorkerOK, Idle, Worker, Code, AccountStages, ResetStages

\* A step in which one handler goes on and the account grows.
LEMMA OneWorks ==
    ASSUME AccInv, NEW h \in Handlers, NEW w,
           worker' = [worker EXCEPT ![h] = w],
           WorkerOK(w, user', overwritten'),
           UserOK(user', taken', proved', overwritten'),
           Grows(user, user', overwritten, overwritten'),
           serves' = serves
    PROVE  AccInv'
<1>1. w \in Worker
  BY DEF WorkerOK
<1>2. worker' \in [Handlers -> Worker]
  BY <1>1 DEF AccInv
<1>3. ASSUME NEW g \in Handlers
      PROVE  WorkerOK(worker'[g], user', overwritten')
  <2>1. CASE g = h
    BY <2>1 DEF AccInv
  <2>2. CASE g # h
    <3>1. worker'[g] = worker[g]
      BY <2>2 DEF AccInv
    <3>2. WorkerOK(worker[g], user, overwritten)
      BY DEF AccInv
    <3> QED
      BY <3>1, <3>2, WorkerStable
  <2> QED
    BY <2>1, <2>2
<1> QED
  BY <1>2, <1>3 DEF AccInv

\* A step in which one handler reads.
LEMMA OneReads ==
    ASSUME AccInv, OnlyReads, NEW h \in Handlers, NEW w,
           worker' = [worker EXCEPT ![h] = w],
           WorkerOK(w, user, overwritten)
    PROVE  AccInv'
<1>1. Grows(user, user', overwritten, overwritten')
  BY DEF Grows, OnlyReads
<1>2. UserOK(user', taken', proved', overwritten')
  BY DEF OnlyReads, AccInv
<1> QED
  BY <1>1, <1>2, OneWorks DEF OnlyReads

\* A step that ends a request without a write.
LEMMA OneAnswers ==
    ASSUME AccInv, OnlyReads, NEW h \in Handlers, Answer(h)
    PROVE  AccInv'
  BY IdleOK, OneReads DEF Answer

\* A step that ends a request with a write to the account.
LEMMA OneWrites ==
    ASSUME AccInv, NEW h \in Handlers, Answer(h),
           UserOK(user', taken', proved', overwritten'),
           Grows(user, user', overwritten, overwritten'),
           serves' = serves
    PROVE  AccInv'
  BY IdleOK, OneWorks DEF Answer

\* A reading half that hands on an address and a code.
LEMMA OneGoes ==
    ASSUME AccInv, OnlyReads, NEW h \in Handlers,
           NEW stage \in AccountStages \cup ResetStages,
           NEW to \in Addresses \cup {None}, NEW code \in Code,
           Go(h, stage, to, code),
           WorkerOK([Idle EXCEPT !.stage = stage, !.to = to, !.code = code],
                    user, overwritten)
    PROVE  AccInv'
  BY OneReads DEF Go

-----------------------------------------------------------------------------
\* What the account's type says of an account that exists.
LEMMA UserIsARecord ==
    ASSUME AccInv, Exists
    PROVE  user \in User
  BY DEF AccInv, UserOK, Exists

\* Storing a code keeps the type, and nothing but the code fields changes.
LEMMA CodeFields ==
    ASSUME NEW u \in User, NEW code \in Code, NEW age \in 0 .. CodeTTL + 1,
           NEW tries \in 0 .. MaxTries
    PROVE  [u EXCEPT !.code = code, !.age = age, !.tries = tries] \in User
  BY DEF User

LEMMA ZeroIsInRange ==
    /\ 0 \in 0 .. CodeTTL + 1 /\ 0 \in 0 .. MaxTries
    /\ None \in Code
  BY TicksAssumption, MaxTriesAssumption DEF Code

\* The requests of signing up and signing in only read, and what they hand on
\* fits the account they read.
LEMMA SignUpReads ==
    ASSUME AccInv, NEW h \in Handlers,
           \/ \E a \in Addresses : Register(h, a)
           \/ Login(h) \/ ResendVerification(h)
           \/ VerifyEmail(h) \/ VerifyEmailWrong(h)
    PROVE  AccInv'
<1> USE NoneAssumption DEF AccountStages, ResetStages
<1>1. ASSUME NEW a \in Addresses, Register(h, a) PROVE AccInv'
  <2>1. WorkerOK([Idle EXCEPT !.stage = "create", !.to = a, !.code = None],
                 user, overwritten)
    BY DEF WorkerOK, Worker, Idle, Code
  <2> QED
    BY <1>1, <2>1, OneGoes DEF Register, Code
<1>2. ASSUME Exists, ~user.verified, issueVerificationCode(h) PROVE AccInv'
  <2>1. user \in User
    BY <1>2, UserIsARecord
  <2>2. WorkerOK([Idle EXCEPT !.stage = "issue", !.to = user.email, !.code = None],
                 user, overwritten)
    BY <1>2, <2>1 DEF WorkerOK, Worker, Idle, Code, User, Exists
  <2>3. user.email \in Addresses \cup {None}
    BY <2>1 DEF User
  <2> QED
    BY <1>2, <2>2, <2>3, OneGoes DEF issueVerificationCode, Code
<1>3. ASSUME VerifyEmail(h) PROVE AccInv'
  <2>1. Exists /\ user \in User /\ user.code \in Addresses /\ ~user.verified
    BY <1>3, UserIsARecord DEF VerifyEmail
  <2>2. user.code = user.email
    BY <2>1, LostAssumption DEF AccInv, UserOK, Exists
  <2>3. WorkerOK([Idle EXCEPT !.stage = "mark", !.to = None, !.code = user.code],
                 user, overwritten)
    BY <2>1, <2>2 DEF WorkerOK, Worker, Idle, Code, Exists
  <2> QED
    BY <1>3, <2>1, <2>3, OneGoes DEF VerifyEmail, Code
<1>4. ASSUME VerifyEmailWrong(h) PROVE AccInv'
  <2>1. WorkerOK([Idle EXCEPT !.stage = "miss", !.to = None, !.code = None],
                 user, overwritten)
    BY <1>4 DEF VerifyEmailWrong, WorkerOK, Worker, Idle, Code, Exists
  <2> QED
    BY <1>4, <2>1, OneGoes DEF VerifyEmailWrong, Code
<1> QED
  BY <1>1, <1>2, <1>3, <1>4 DEF Login, ResendVerification

\* So do those of moving the account to another address.
LEMMA ChangeReads ==
    ASSUME AccInv, NEW h \in Handlers,
           \/ \E a \in Addresses : ChangeEmail(h, a)
           \/ ResendEmailChange(h)
           \/ VerifyEmailChange(h) \/ VerifyEmailChangeWrong(h)
    PROVE  AccInv'
<1> USE NoneAssumption DEF AccountStages, ResetStages
<1>1. ASSUME NEW a \in Addresses, ChangeEmail(h, a) PROVE AccInv'
  <2>1. WorkerOK([Idle EXCEPT !.stage = "pend", !.to = a, !.code = None],
                 user, overwritten)
    BY <1>1 DEF ChangeEmail, SignedIn, Exists, WorkerOK, Worker, Idle, Code
  <2> QED
    BY <1>1, <2>1, OneGoes DEF ChangeEmail, Code
<1>2. ASSUME ResendEmailChange(h) PROVE AccInv'
  <2>1. user \in User /\ user.pending \in Addresses
    BY <1>2, UserIsARecord DEF ResendEmailChange, SignedIn, User
  <2>2. WorkerOK([Idle EXCEPT !.stage = "pend", !.to = user.pending, !.code = None],
                 user, overwritten)
    BY <1>2, <2>1 DEF ResendEmailChange, SignedIn, Exists, WorkerOK, Worker, Idle, Code
  <2> QED
    BY <1>2, <2>1, <2>2, OneGoes DEF ResendEmailChange, Code
<1>3. ASSUME VerifyEmailChange(h) PROVE AccInv'
  <2>1. /\ Exists /\ user.verified
        /\ user \in User /\ user.pending \in Addresses /\ user.code \in Addresses
    BY <1>3, UserIsARecord DEF VerifyEmailChange, SignedIn, User
  <2>2. ~overwritten => user.code = user.pending
    BY <2>1 DEF AccInv, UserOK, Exists
  <2>3. WorkerOK([Idle EXCEPT !.stage = "commit", !.to = user.pending,
                              !.code = user.code], user, overwritten)
    BY <2>1, <2>2 DEF WorkerOK, Worker, Idle, Code, Exists
  <2> QED
    BY <1>3, <2>1, <2>3, OneGoes DEF VerifyEmailChange, Code
<1>4. ASSUME VerifyEmailChangeWrong(h) PROVE AccInv'
  <2>1. WorkerOK([Idle EXCEPT !.stage = "miss", !.to = None, !.code = None],
                 user, overwritten)
    BY <1>4 DEF VerifyEmailChangeWrong, SignedIn, Exists, WorkerOK, Worker, Idle, Code
  <2> QED
    BY <1>4, <2>1, OneGoes DEF VerifyEmailChangeWrong, Code
<1> QED
  BY <1>1, <1>2, <1>3, <1>4

\* The inserts: an account appears, or another one, or the address is held.
LEMMA Inserts ==
    ASSUME AccInv, NEW h \in Handlers,
           Create(h) \/ CreateAnother(h) \/ CreateRefused(h)
    PROVE  AccInv'
<1>0. worker[h].to \in Addresses
  BY DEF Create, CreateAnother, CreateRefused, AccInv, WorkerOK
<1>1. CASE Create(h)
  <2>1. PICK code \in Mailed(worker[h].to) :
           user' = [email |-> worker[h].to, verified |-> FALSE, pending |-> None,
                    code |-> code, age |-> 0, tries |-> 0]
    BY <1>1 DEF Create
  <2>2. user' \in User
    BY <1>0, <2>1, TicksAssumption, MaxTriesAssumption DEF User, Code, Mailed
  <2>3. UserOK(user', taken', proved', overwritten')
    BY <1>1, <2>1, <2>2 DEF Create, OnlyTheUser, AccInv, UserOK, Mailed
  <2>4. Grows(user, user', overwritten, overwritten')
    BY <1>1 DEF Create, OnlyTheUser, Grows, Exists
  <2> QED
    BY <1>1, <2>3, <2>4, OneWrites DEF Create, OnlyTheUser
<1>2. CASE CreateAnother(h)
  <2>1. UserOK(user', taken', proved', overwritten')
    BY <1>0, <1>2 DEF CreateAnother, InUse, HeldBy, AccInv, UserOK
  <2>2. Grows(user, user', overwritten, overwritten')
    BY <1>2 DEF CreateAnother, Grows
  <2> QED
    BY <1>2, <2>1, <2>2, OneWrites DEF CreateAnother
<1>3. CASE CreateRefused(h)
  BY <1>3, OneAnswers DEF CreateRefused
<1> QED
  BY <1>1, <1>2, <1>3

\* The updates of the sign-up flow.
LEMMA SignUpWrites ==
    ASSUME AccInv, NEW h \in Handlers,
           \/ \E code \in Code : SetVerificationCode(h, code)
           \/ IncrementVerifyAttempts(h) \/ MarkVerified(h)
    PROVE  AccInv'
<1>0. user # NoUser /\ user \in User /\ WorkerOK(worker[h], user, overwritten)
  BY DEF SetVerificationCode, IncrementVerifyAttempts, MarkVerified,
         AccInv, UserOK, WorkerOK
<1>1. ASSUME NEW code \in Code, SetVerificationCode(h, code) PROVE AccInv'
  <2>1. user' = [user EXCEPT !.code = code, !.age = 0, !.tries = 0]
    BY <1>1 DEF SetVerificationCode, WithCode
  <2>2. user' \in User
    BY <1>0, <2>1, CodeFields, ZeroIsInRange
  <2>3. /\ user'.email = user.email /\ user'.verified = user.verified
        /\ user'.pending = user.pending /\ user'.code = code
    BY <1>0, <2>1 DEF User
  <2>4. ~user.verified => code \in {user.email, Lost}
    BY <1>0, <1>1 DEF SetVerificationCode, Mailed, WorkerOK
  <2>5. user' # NoUser
    BY <2>2, NoUserAssumption
  <2>6. overwritten' = (overwritten \/ user.pending # None) /\ overwritten \in BOOLEAN
    BY <1>1 DEF SetVerificationCode, AccInv, UserOK
  <2>7. UserOK(user', taken', proved', overwritten')
    BY <1>0, <1>1, <2>2, <2>3, <2>4, <2>5, <2>6
       DEF SetVerificationCode, AccInv, UserOK
  <2>8. Grows(user, user', overwritten, overwritten')
    BY <2>3, <2>5, <2>6 DEF Grows
  <2> QED
    BY <1>1, <2>7, <2>8, OneWrites DEF SetVerificationCode
<1>2. ASSUME IncrementVerifyAttempts(h) PROVE AccInv'
  <2>1. user' = [user EXCEPT !.tries = IF user.tries < MaxTries THEN user.tries + 1
                                                                ELSE MaxTries]
    BY <1>2 DEF IncrementVerifyAttempts
  <2>2. user' \in User
    <3>1. user.tries \in 0 .. MaxTries
      BY <1>0 DEF User
    <3>2. ASSUME NEW n \in 0 .. MaxTries
          PROVE  [user EXCEPT !.tries = n] \in User
      BY <1>0 DEF User
    <3>3. (IF user.tries < MaxTries THEN user.tries + 1 ELSE MaxTries) \in 0 .. MaxTries
      BY <3>1, MaxTriesAssumption
    <3> QED
      BY <2>1, <3>2, <3>3
  <2>3. /\ user'.email = user.email /\ user'.verified = user.verified
        /\ user'.pending = user.pending /\ user'.code = user.code
    BY <1>0, <2>1 DEF User
  <2>4. user' # NoUser
    BY <2>2, NoUserAssumption
  <2>5. UserOK(user', taken', proved', overwritten')
    BY <1>0, <1>2, <2>2, <2>3, <2>4
       DEF IncrementVerifyAttempts, OnlyTheUser, AccInv, UserOK
  <2>6. Grows(user, user', overwritten, overwritten')
    BY <1>2, <2>3, <2>4 DEF IncrementVerifyAttempts, OnlyTheUser, Grows
  <2> QED
    BY <1>2, <2>5, <2>6, OneWrites DEF IncrementVerifyAttempts, OnlyTheUser
<1>3. ASSUME MarkVerified(h) PROVE AccInv'
  <2>1. user' = [[user EXCEPT !.code = None, !.age = 0, !.tries = 0]
                    EXCEPT !.verified = TRUE]
    BY <1>3 DEF MarkVerified, WithoutCode
  <2>2. user' \in User
    <3>1. [user EXCEPT !.code = None, !.age = 0, !.tries = 0] \in User
      BY <1>0, CodeFields, ZeroIsInRange
    <3> QED
      BY <2>1, <3>1 DEF User
  <2>3. /\ user'.email = user.email /\ user'.verified = TRUE
        /\ user'.pending = user.pending /\ user'.code = None
    BY <1>0, <2>1 DEF User
  <2>4. user' # NoUser
    BY <2>2, NoUserAssumption
  <2>5. /\ worker[h].code \in Addresses
        /\ ~user.verified => worker[h].code = user.email
    BY <1>0, <1>3 DEF MarkVerified, WorkerOK
  <2>6. UserOK(user', taken', proved', overwritten')
    BY <1>0, <1>3, <2>2, <2>3, <2>4, <2>5, NoneAssumption
       DEF MarkVerified, AccInv, UserOK
  <2>7. Grows(user, user', overwritten, overwritten')
    BY <1>3, <2>3, <2>4 DEF MarkVerified, Grows
  <2> QED
    BY <1>3, <2>6, <2>7, OneWrites DEF MarkVerified
<1> QED
  BY <1>1, <1>2, <1>3

\* The updates of the address change.
LEMMA ChangeWrites ==
    ASSUME AccInv, NEW h \in Handlers,
           SetPendingEmailCode(h) \/ CommitEmailChange(h) \/ CommitRefused(h)
    PROVE  AccInv'
<1>1. CASE CommitRefused(h)
  BY <1>1, OneAnswers DEF CommitRefused
<1>2. ASSUME worker[h].stage \in {"pend", "commit"}
      PROVE  /\ user # NoUser /\ user \in User /\ user.verified
             /\ WorkerOK(worker[h], user, overwritten)
             /\ worker[h].to \in Addresses
  BY <1>2 DEF AccInv, UserOK, WorkerOK
<1>3. CASE SetPendingEmailCode(h)
  <2>0. /\ user # NoUser /\ user \in User /\ user.verified
        /\ worker[h].to \in Addresses
    BY <1>2, <1>3 DEF SetPendingEmailCode
  <2>1. PICK code \in Mailed(worker[h].to) :
           user' = [[user EXCEPT !.code = code, !.age = 0, !.tries = 0]
                       EXCEPT !.pending = worker[h].to]
    BY <1>3 DEF SetPendingEmailCode, WithCode
  <2>2. code \in Code /\ code \in {worker[h].to, Lost}
    BY <2>0, <2>1 DEF Mailed, Code
  <2>3. user' \in User
    <3>1. [user EXCEPT !.code = code, !.age = 0, !.tries = 0] \in User
      BY <2>0, <2>2, CodeFields, ZeroIsInRange
    <3> QED
      BY <2>0, <2>1, <3>1 DEF User
  <2>4. /\ user'.email = user.email /\ user'.verified
        /\ user'.pending = worker[h].to /\ user'.code = code
    BY <2>0, <2>1 DEF User
  <2>5. user' # NoUser
    BY <2>3, NoUserAssumption
  <2>6. UserOK(user', taken', proved', overwritten')
    BY <1>3, <2>0, <2>2, <2>3, <2>4, <2>5, LostAssumption
       DEF SetPendingEmailCode, OnlyTheUser, AccInv, UserOK
  <2>7. Grows(user, user', overwritten, overwritten')
    BY <1>3, <2>4, <2>5 DEF SetPendingEmailCode, OnlyTheUser, Grows
  <2> QED
    BY <1>3, <2>6, <2>7, OneWrites DEF SetPendingEmailCode, OnlyTheUser
<1>4. CASE CommitEmailChange(h)
  <2>0. /\ user # NoUser /\ user \in User /\ user.verified
        /\ WorkerOK(worker[h], user, overwritten)
        /\ worker[h].stage = "commit" /\ worker[h].to \in Addresses
    BY <1>2, <1>4 DEF CommitEmailChange
  <2>1. user' = [[user EXCEPT !.code = None, !.age = 0, !.tries = 0]
                    EXCEPT !.email = worker[h].to, !.verified = TRUE, !.pending = None]
    BY <1>4 DEF CommitEmailChange, WithoutCode
  <2>2. user' \in User
    <3>1. [user EXCEPT !.code = None, !.age = 0, !.tries = 0] \in User
      BY <2>0, CodeFields, ZeroIsInRange
    <3> QED
      BY <2>0, <2>1, <3>1 DEF User
  <2>3. /\ user'.email = worker[h].to /\ user'.verified = TRUE
        /\ user'.pending = None /\ user'.code = None
    BY <2>0, <2>1 DEF User
  <2>4. user' # NoUser
    BY <2>2, NoUserAssumption
  <2>5. /\ worker[h].code \in Addresses
        /\ ~overwritten => worker[h].code = worker[h].to
    BY <2>0 DEF WorkerOK
  <2>6. UserOK(user', taken', proved', overwritten')
    BY <1>4, <2>0, <2>2, <2>3, <2>4, <2>5
       DEF CommitEmailChange, AccInv, UserOK
  <2>7. Grows(user, user', overwritten, overwritten')
    BY <1>4, <2>3, <2>4 DEF CommitEmailChange, Grows
  <2> QED
    BY <1>4, <2>6, <2>7, OneWrites DEF CommitEmailChange
<1> QED
  BY <1>1, <1>3, <1>4

\* Other accounts take an address that is free, or leave one.
LEMMA OthersMove ==
    ASSUME AccInv, Others
    PROVE  AccInv'
<1>1. UserOK(user', taken', proved', overwritten')
  BY DEF Others, OtherTakes, OtherLeaves, InUse, HeldBy, AccInv, UserOK
<1>2. UNCHANGED <<user, worker, serves, overwritten>>
  BY DEF Others, OtherTakes, OtherLeaves
<1> QED
  BY <1>1, <1>2 DEF AccInv

\* The clock changes nothing of the account but the age of its code.
LEMMA CodesAge ==
    ASSUME AccInv, AgeTheCode
    PROVE  AccInv'
<1>1. CASE user' = user
  BY <1>1 DEF AgeTheCode, AccInv
<1>2. CASE user' # user
  <2>1. user # NoUser /\ user \in User
        /\ user' = [user EXCEPT !.age = Older(user.age)]
    BY <1>2 DEF AgeTheCode, Exists, AccInv, UserOK
  <2>2. user' \in User
    <3>1. user.age \in 0 .. CodeTTL + 1
      BY <2>1 DEF User
    <3>2. Older(user.age) \in 0 .. CodeTTL + 1
      BY <3>1, TicksAssumption DEF Older
    <3> QED
      BY <2>1, <3>2 DEF User
  <2>3. /\ user'.email = user.email /\ user'.verified = user.verified
        /\ user'.pending = user.pending /\ user'.code = user.code
    BY <2>1 DEF User
  <2>4. user' # NoUser
    BY <2>2, NoUserAssumption
  <2>5. UNCHANGED <<taken, worker, serves, proved, overwritten>>
    BY DEF AgeTheCode
  <2>6. UserOK(user', taken', proved', overwritten')
    BY <2>1, <2>2, <2>3, <2>4, <2>5 DEF AccInv, UserOK
  <2>7. Grows(user, user', overwritten, overwritten')
    BY <2>3, <2>4, <2>5 DEF Grows
  <2>8. \A h \in Handlers : WorkerOK(worker'[h], user', overwritten')
    BY <2>5, <2>7, WorkerStable DEF AccInv
  <2> QED
    BY <2>5, <2>6, <2>8 DEF AccInv
<1> QED
  BY <1>1, <1>2

-----------------------------------------------------------------------------
\* The reading halves of the reset flow.
LEMMA ResetReads ==
    ASSUME AccInv, NEW h \in Handlers, ResetRequest(h)
    PROVE  AccInv'
<1> USE NoneAssumption DEF AccountStages, ResetStages
<1>1. ASSUME NEW a \in Addresses, ForgotPassword(h, a) PROVE AccInv'
  <2>1. WorkerOK([Idle EXCEPT !.stage = "send", !.to = a, !.code = None],
                 user, overwritten)
    BY DEF WorkerOK, Worker, Idle, Code
  <2> QED
    BY <1>1, <2>1, OneGoes DEF ForgotPassword, Code
<1>2. ASSUME NEW a \in Addresses, NEW right \in BOOLEAN, VerifyResetCode(h, a, right)
      PROVE  AccInv'
  <2>1. WorkerOK([Idle EXCEPT !.stage = "reserve", !.to = a, !.right = right],
                 user, overwritten)
    BY DEF WorkerOK, Worker, Idle, Code
  <2> QED
    BY <1>2, <2>1, OneReads DEF VerifyResetCode
<1>3. ASSUME NEW a \in Addresses, ResetPassword(h, a) PROVE AccInv'
  <2>1. user # NoUser /\ user.email = a
    BY <1>3 DEF ResetPassword, HeldBy
  <2>2. WorkerOK([Idle EXCEPT !.stage = "reset", !.to = a, !.code = None],
                 user, overwritten)
    BY <2>1 DEF WorkerOK, Worker, Idle, Code
  <2> QED
    BY <1>3, <2>2, OneGoes DEF ResetPassword, Code
<1> QED
  BY <1>1, <1>2, <1>3 DEF ResetRequest

\* A handler of the reset flow that goes on to the session stages.
LEMMA Proceeds ==
    ASSUME AccInv, NEW h \in Handlers, worker[h].stage \in ResetStages,
           NEW stage \in {"promote", "clear"}
    PROVE  WorkerOK([worker[h] EXCEPT !.stage = stage], user, overwritten)
  BY DEF AccInv, WorkerOK, Worker, ResetStages

\* Its writes; only MarkPasswordReset touches the account.
LEMMA ResetWrites ==
    ASSUME AccInv, NEW h \in Handlers, ResetWrite(h)
    PROVE  AccInv'
<1>1. ASSUME NEW secret, SetCode(h, secret) \/ PromoteToToken(h, secret) PROVE AccInv'
  BY <1>1, OneAnswers DEF SetCode, PromoteToToken
<1>2. CASE IncrAttempts(h)
  <2>1. CASE Answer(h)
    BY <1>2, <2>1, OneAnswers DEF IncrAttempts
  <2>2. CASE Proceed(h, "promote")
    <3>1. worker' = [worker EXCEPT ![h] = [worker[h] EXCEPT !.stage = "promote"]]
      BY <2>2 DEF Proceed, AccInv
    <3>2. WorkerOK([worker[h] EXCEPT !.stage = "promote"], user, overwritten)
      BY <1>2, Proceeds DEF IncrAttempts, ResetStages
    <3> QED
      BY <1>2, <3>1, <3>2, OneReads DEF IncrAttempts
  <2> QED
    BY <1>2, <2>1, <2>2 DEF IncrAttempts
<1>3. CASE MarkPasswordReset(h)
  <2>1. /\ user # NoUser /\ user \in User /\ worker[h].to \in Addresses
        /\ ~user.verified => worker[h].to = user.email
    BY <1>3 DEF MarkPasswordReset, AccInv, UserOK, WorkerOK, ResetStages
  <2>2. /\ user' = [user EXCEPT !.verified = TRUE]
        /\ proved' = proved \cup {worker[h].to}
        /\ UNCHANGED <<taken, serves, overwritten>>
    BY <1>3 DEF MarkPasswordReset, Target
  <2>3. user' \in User
    BY <2>1, <2>2 DEF User
  <2>4. /\ user'.email = user.email /\ user'.verified = TRUE
        /\ user'.pending = user.pending /\ user'.code = user.code
    BY <2>1, <2>2 DEF User
  <2>5. user' # NoUser
    BY <2>3, NoUserAssumption
  <2>6. UserOK(user', taken', proved', overwritten')
    BY <2>1, <2>2, <2>3, <2>4, <2>5 DEF AccInv, UserOK
  <2>7. Grows(user, user', overwritten, overwritten')
    BY <2>2, <2>4, <2>5 DEF Grows
  <2>8. WorkerOK([worker[h] EXCEPT !.stage = "clear"], user', overwritten')
    <3>1. WorkerOK([worker[h] EXCEPT !.stage = "clear"], user, overwritten)
      BY <1>3, Proceeds DEF MarkPasswordReset, ResetStages
    <3> QED
      BY <2>7, <3>1, WorkerStable
  <2>9. worker' = [worker EXCEPT ![h] = [worker[h] EXCEPT !.stage = "clear"]]
    BY <1>3 DEF MarkPasswordReset, Proceed, AccInv
  <2> QED
    BY <2>2, <2>6, <2>7, <2>8, <2>9, OneWorks
<1>4. CASE Clear(h)
  BY <1>4, OneAnswers DEF Clear
<1>5. CASE ResetAborts(h)
  BY <1>5, OneAnswers DEF ResetAborts
<1> QED
  BY <1>1, <1>2, <1>3, <1>4, <1>5 DEF ResetWrite

\* Every step keeps what is said of the account and of the handlers.
LEMMA AccountStep ==
    ASSUME AccInv, [Next]_allVars
    PROVE  AccInv'
<1>1. ASSUME NEW h \in Handlers, AccountRequest(h) PROVE AccInv'
  BY <1>1, SignUpReads, ChangeReads DEF AccountRequest
<1>2. ASSUME NEW h \in Handlers, AccountWrite(h) PROVE AccInv'
  <2>1. CASE Abort(h)
    BY <2>1, OneAnswers DEF Abort
  <2> QED
    BY <1>2, <2>1, Inserts, SignUpWrites, ChangeWrites DEF AccountWrite
<1>3. ASSUME NEW h \in Handlers, ResetRequest(h) \/ ResetWrite(h) PROVE AccInv'
  BY <1>3, ResetReads, ResetWrites
<1>4. CASE Others
  BY <1>4, OthersMove
<1>5. CASE Tick
  BY <1>5, CodesAge DEF Tick
<1>6. CASE Restart
  BY <1>6, IdleOK DEF Restart, OnlyReads, AccInv, WorkerOK
<1>7. CASE UNCHANGED allVars
  BY <1>7 DEF allVars, AccInv
<1> QED
  BY <1>1, <1>2, <1>3, <1>4, <1>5, <1>6, <1>7 DEF Next, Account

-----------------------------------------------------------------------------
\* An empty session, and the parts of a session's type.
LEMMA NoSessionOK == SessionOK(NoSession)
  BY MaxTriesAssumption, TicksAssumption DEF SessionOK, Session, Secret, NoSession

\* One session is replaced by a good one.
LEMMA OneSession ==
    ASSUME SesInv, NEW a \in Addresses, NEW s, SessionOK(s),
           session' = [session EXCEPT ![a] = s],
           quiet' \in [Addresses -> 0 .. Cooldown]
    PROVE  SesInv'
  BY DEF SesInv, SessionOK

\* A code or a token starts with no attempts.
LEMMA FreshOK ==
    ASSUME NEW secret \in Secret
    PROVE  /\ SessionOK([NoSession EXCEPT !.code = secret])
           /\ SessionOK([NoSession EXCEPT !.token = secret])
  BY MaxTriesAssumption, TicksAssumption DEF SessionOK, Session, Secret, NoSession

\* Counting an attempt, and comparing only when the count was within the cap,
\* keeps the comparisons below both.
LEMMA CountedOK ==
    ASSUME NEW s, SessionOK(s)
    PROVE  /\ SessionOK(Counted(s))
           /\ WithinCap(s) => SessionOK(Guessed(Counted(s)))
<1> DEFINE n == IF s.tries <= MaxTries THEN s.tries + 1 ELSE s.tries
<1>1. /\ s \in Session /\ s.tries \in 0 .. MaxTries + 1
      /\ s.guesses \in 0 .. MaxTries + 1
      /\ s.guesses <= s.tries /\ s.guesses <= MaxTries
  BY DEF SessionOK, Session
<1>2. n \in 0 .. MaxTries + 1 /\ s.tries <= n
  BY <1>1, MaxTriesAssumption
<1>3. Counted(s) = [s EXCEPT !.tries = n]
  BY DEF Counted
<1>4. /\ Counted(s) \in Session
      /\ Counted(s).tries = n /\ Counted(s).guesses = s.guesses
  <2> HIDE DEF n
  <2> QED
    BY <1>1, <1>2, <1>3 DEF Session
<1>5. s.guesses <= n
  BY <1>1, <1>2, MaxTriesAssumption
<1>6. SessionOK(Counted(s))
  BY <1>1, <1>4, <1>5 DEF SessionOK
<1>7. ASSUME WithinCap(s) PROVE SessionOK(Guessed(Counted(s)))
  <2>1. s.tries < MaxTries /\ s.guesses < MaxTries /\ n = s.tries + 1
    BY <1>1, <1>7, MaxTriesAssumption DEF WithinCap
  <2>2. /\ s.guesses + 1 \in 0 .. MaxTries + 1
        /\ s.guesses + 1 <= n /\ s.guesses + 1 <= MaxTries
    BY <1>1, <2>1, MaxTriesAssumption
  <2>3. Guessed(Counted(s)) = [Counted(s) EXCEPT !.guesses = s.guesses + 1]
    BY <1>1, <1>4 DEF Guessed
  <2> HIDE DEF n
  <2>4. /\ Guessed(Counted(s)) \in Session
        /\ Guessed(Counted(s)).tries = n
        /\ Guessed(Counted(s)).guesses = s.guesses + 1
    BY <1>4, <2>2, <2>3 DEF Session
  <2> QED
    BY <2>2, <2>4 DEF SessionOK
<1> QED
  BY <1>6, <1>7

\* The address of a handler in the reset flow is one.
LEMMA TargetIsAnAddress ==
    ASSUME AccInv, NEW h \in Handlers, worker[h].stage \in ResetStages
    PROVE  Target(h) \in Addresses
  BY DEF AccInv, WorkerOK, Target

\* Every step keeps what is said of the sessions.
LEMMA SessionStep ==
    ASSUME AccInv, SesInv, [Next]_allVars
    PROVE  SesInv'
<1>0. CASE UNCHANGED resetVars
  BY <1>0 DEF resetVars, SesInv
<1>1. ASSUME NEW h \in Handlers, NEW a \in Addresses, ForgotPassword(h, a) PROVE SesInv'
  BY <1>1, TicksAssumption DEF ForgotPassword, SesInv
<1>2. ASSUME NEW h \in Handlers, NEW secret, SetCode(h, secret) \/ PromoteToToken(h, secret)
      PROVE  SesInv'
  <2>1. Target(h) \in Addresses /\ secret \in Secret
    BY <1>2, TargetIsAnAddress DEF SetCode, PromoteToToken, ResetStages, Secret
  <2> QED
    BY <1>2, <2>1, FreshOK, OneSession DEF SetCode, PromoteToToken, SesInv
<1>3. ASSUME NEW h \in Handlers, IncrAttempts(h) PROVE SesInv'
  <2> DEFINE s == session[Target(h)]
             t == IF ~Stored(s) THEN s
                  ELSE IF WithinCap(s) THEN Guessed(Counted(s))
                  ELSE Counted(s)
  <2>1. Target(h) \in Addresses
    BY <1>3, TargetIsAnAddress DEF IncrAttempts, ResetStages
  <2>2. SessionOK(s)
    BY <2>1 DEF SesInv
  <2>3. SessionOK(t)
    BY <2>2, CountedOK
  <2>4. session' = [session EXCEPT ![Target(h)] = t] /\ quiet' = quiet
    BY <1>3 DEF IncrAttempts
  <2> HIDE DEF t
  <2> QED
    BY <2>1, <2>3, <2>4, OneSession DEF SesInv
<1>4. ASSUME NEW h \in Handlers, Clear(h) PROVE SesInv'
  <2>1. Target(h) \in Addresses
    BY <1>4, TargetIsAnAddress DEF Clear, ResetStages
  <2>2. quiet' \in [Addresses -> 0 .. Cooldown]
    <3>1. 0 \in 0 .. Cooldown
      BY TicksAssumption
    <3> QED
      BY <1>4, <2>1, <3>1 DEF Clear, SesInv
  <2> QED
    BY <1>4, <2>1, <2>2, NoSessionOK, OneSession DEF Clear
<1>5. CASE Tick
  <2>1. ASSUME NEW a \in Addresses PROVE SessionOK(session'[a])
    <3>1. SessionOK(session[a])
      BY DEF SesInv
    <3>2. CASE ~Stored(session[a]) \/ session[a].age = CodeTTL
      BY <1>5, <3>2, NoSessionOK DEF Tick
    <3>3. CASE ~(~Stored(session[a]) \/ session[a].age = CodeTTL)
      <4>1. session'[a] = [session[a] EXCEPT !.age = session[a].age + 1]
        BY <1>5, <3>3 DEF Tick
      <4>2. session[a].age + 1 \in 0 .. CodeTTL
        BY <3>1, <3>3, TicksAssumption DEF SessionOK, Session
      <4>3. [session[a] EXCEPT !.age = session[a].age + 1] \in Session
        BY <3>1, <4>2 DEF SessionOK, Session
      <4> QED
        BY <3>1, <4>1, <4>3 DEF SessionOK, Session
    <3> QED
      BY <3>2, <3>3
  <2>2. session' \in [Addresses -> Session]
    <3>1. \A a \in Addresses : session'[a] \in Session
      BY <2>1 DEF SessionOK
    <3>2. session' = [a \in Addresses |-> session'[a]]
      BY <1>5 DEF Tick
    <3> QED
      BY <3>1, <3>2
  <2>3. quiet' \in [Addresses -> 0 .. Cooldown]
    <3>1. ASSUME NEW a \in Addresses
          PROVE  (IF quiet[a] > 0 THEN quiet[a] - 1 ELSE 0) \in 0 .. Cooldown
      <4>1. quiet[a] \in 0 .. Cooldown
        BY DEF SesInv
      <4> QED
        BY <4>1, TicksAssumption
    <3> QED
      BY <1>5, <3>1 DEF Tick
  <2> QED
    BY <2>1, <2>2, <2>3 DEF SesInv
<1>6. CASE Restart
  <2>1. CASE /\ session' = [a \in Addresses |-> NoSession]
             /\ quiet' = [a \in Addresses |-> 0]
    BY <2>1, NoSessionOK, TicksAssumption DEF SesInv, SessionOK
  <2> QED
    BY <1>0, <1>6, <2>1 DEF Restart
<1>7. ASSUME NEW h \in Handlers, ResetRequest(h) \/ ResetWrite(h) PROVE SesInv'
  BY <1>0, <1>1, <1>2, <1>3, <1>4, <1>7
     DEF ResetRequest, ResetWrite, VerifyResetCode, ResetPassword,
         MarkPasswordReset, ResetAborts
<1>8. CASE UNCHANGED allVars
  BY <1>0, <1>8 DEF allVars, resetVars
<1> QED
  BY <1>0, <1>5, <1>6, <1>7, <1>8 DEF Next, Account

-----------------------------------------------------------------------------
\* Both hold at the start.
LEMMA AtTheStart == ResetInit => AccInv /\ SesInv
<1> SUFFICES ASSUME ResetInit PROVE AccInv /\ SesInv
  OBVIOUS
<1>1. ASSUME NEW verified \in BOOLEAN
      PROVE  /\ Settled(verified) \in User /\ Settled(verified) # NoUser
             /\ Settled(verified).email = Home /\ Settled(verified).pending = None
             /\ Settled(verified).verified = verified
             /\ Settled(verified).code = IF verified THEN None ELSE Lost
  <2>1. Settled(verified) \in User
    BY HomeAssumption, ZeroIsInRange, TicksAssumption DEF Settled, User, Code
  <2> QED
    BY <2>1, NoUserAssumption DEF Settled
<1>2. UserOK(user, taken, proved, overwritten)
  <2>1. CASE user = NoUser /\ proved = {}
    BY <2>1 DEF ResetInit, Init, UserOK
  <2>2. CASE user = Settled(TRUE) /\ proved = {Home}
    BY <1>1, <2>2, HomeAssumption, NoneAssumption DEF ResetInit, Init, UserOK
  <2>3. CASE user = Settled(FALSE) /\ proved = {}
    BY <1>1, <2>3 DEF ResetInit, Init, UserOK
  <2> QED
    BY <2>1, <2>2, <2>3 DEF ResetInit, Init
<1>3. AccInv
  BY <1>2, IdleOK DEF ResetInit, Init, AccInv, WorkerOK
<1>4. SesInv
  BY NoSessionOK, TicksAssumption DEF ResetInit, SesInv, SessionOK
<1> QED
  BY <1>3, <1>4

\* The inductive invariant of the composed flows.
LEMMA AccountsInvariant == Spec => [](AccInv /\ SesInv)
<1>1. ResetInit => AccInv /\ SesInv
  BY AtTheStart
<1>2. AccInv /\ SesInv /\ [Next]_allVars => (AccInv /\ SesInv)'
  BY AccountStep, SessionStep
<1> QED
  BY <1>1, <1>2, PTL DEF Spec

\* The type invariant of the account, the handlers and the reset sessions
\* (internal/handler/auth.go, internal/store/user.go, internal/resetstore).
THEOREM AccountTypes == Spec => []ResetTypeOK
<1>1. AccInv /\ SesInv => ResetTypeOK
  BY DEF AccInv, UserOK, SesInv, ResetTypeOK, TypeOK
<1> QED
  BY <1>1, AccountsInvariant, PTL

\* No account ever has an address another account has, whatever the requests
\* that looked first and wrote later (Register, ChangeEmail, VerifyEmailChange).
THEOREM UniqueAddresses == Spec => []AddressesAreUnique
<1>1. AccInv => AddressesAreUnique
  BY DEF AccInv, UserOK, AddressesAreUnique, Exists
<1> QED
  BY <1>1, AccountsInvariant, PTL

\* A verified account's address is one at which a mailed code was received
\* and entered, unless a stale sign-up code replaced that of a pending change.
THEOREM AddressesAreProved == Spec => []ConfirmedAddress
<1>1. AccInv => ConfirmedAddress
  BY DEF AccInv, UserOK, ConfirmedAddress, Exists
<1> QED
  BY <1>1, AccountsInvariant, PTL

\* Between one setting of an address's reset session and the next, at most
\* maxVerifyAttempts requests are let through to the comparison, however many
\* VerifyResetCode serves at the same time and whichever code each has read.
THEOREM GuessesAreBounded == Spec => []TriesAreBounded
<1>1. SesInv => TriesAreBounded
  BY DEF SesInv, SessionOK, TriesAreBounded
<1> QED
  BY <1>1, AccountsInvariant, PTL

-----------------------------------------------------------------------------
(***************************************************************************)
(* The flows implement AddressBook.  A step shows in the book if it        *)
(* changes the address, its verification or what others hold or proved;    *)
(* then the invariant says why the book allows it.                         *)
(***************************************************************************)
Address(u) == IF u # NoUser THEN u.email ELSE None
Verified(u) == u # NoUser /\ u.verified

\* What the book says of a step, in these terms.
SignsUp(u, v, a) == /\ u = NoUser /\ a \notin taken /\ Address(v) = a /\ ~Verified(v)
                    /\ UNCHANGED <<taken, proved, overwritten>>

LEMMA BookSignUp ==
    ASSUME NEW a \in Addresses, SignsUp(user, user', a)
    PROVE  Book!Next
<1>1. Book!SignUp(a)
  BY NoneAssumption DEF SignsUp, Address, Verified, Book!SignUp, Book!InUse, Exists
<1> QED
  BY <1>1 DEF Book!Next

LEMMA BookVerify ==
    ASSUME NEW a \in Addresses, Address(user) # None, Verified(user) \/ a = Address(user),
           Verified(user'), Address(user') = Address(user),
           proved' = proved \cup {a}, UNCHANGED <<taken, overwritten>>
    PROVE  Book!Next
<1>1. Book!Verify(a)
  BY DEF Address, Verified, Book!Verify, Book!Proves, Exists
<1> QED
  BY <1>1 DEF Book!Next

LEMMA BookMove ==
    ASSUME NEW a \in Addresses, NEW b \in Addresses,
           Verified(user), Verified(user'), b \notin taken, overwritten \/ a = b,
           Address(user') = b, proved' = proved \cup {a}, UNCHANGED <<taken, overwritten>>
    PROVE  Book!Next
<1>1. Book!Move(a, b)
  BY DEF Address, Verified, Book!Move, Book!Proves, Exists
<1> QED
  BY <1>1 DEF Book!Next

LEMMA BookMixUp ==
    ASSUME Verified(user), overwritten', Verified(user'), Address(user') = Address(user),
           UNCHANGED <<taken, proved>>
    PROVE  Book!Next
<1>1. Book!MixUp
  BY DEF Address, Verified, Book!MixUp, Exists
<1> QED
  BY <1>1 DEF Book!Next

LEMMA BookOthers ==
    ASSUME NEW a \in Addresses, UNCHANGED <<user, proved, overwritten>>,
           \/ ~InUse(a) /\ taken' = taken \cup {a}
           \/ taken' = taken \ {a}
    PROVE  Book!Next
<1>1. Book!OtherTakes(a) \/ Book!OtherLeaves(a)
  BY NoneAssumption DEF InUse, HeldBy, Book!InUse, Book!OtherTakes, Book!OtherLeaves, Exists
<1> QED
  BY <1>1 DEF Book!Next

\* Nothing shows.
LEMMA BookSleeps ==
    ASSUME user # NoUser <=> user' # NoUser,
           user # NoUser => user'.email = user.email /\ user'.verified = user.verified,
           UNCHANGED <<taken, proved, overwritten>>
    PROVE  UNCHANGED Book!vars
BY DEF Book!vars, Exists

\* What the account is made of, as far as the book shows it.
LEMMA UserUpdates ==
    ASSUME user # NoUser, user \in User
    PROVE  /\ \A code \in Code : LET u == [user EXCEPT !.code = code, !.age = 0, !.tries = 0]
                                 IN  u \in User /\ u # NoUser /\ u.email = user.email
                                     /\ u.verified = user.verified
           /\ \A age \in 0 .. CodeTTL + 1 :
                 LET u == [user EXCEPT !.age = age]
                 IN  u \in User /\ u # NoUser /\ u.email = user.email
                     /\ u.verified = user.verified
BY NoUserAssumption, ZeroIsInRange DEF User

LEMMA BookWrites ==
    ASSUME AccInv, AccInv', NEW h \in Handlers, AccountWrite(h)
    PROVE  Book!Next \/ UNCHANGED Book!vars
<1>1. /\ WorkerOK(worker[h], user, overwritten)
      /\ UserOK(user, taken, proved, overwritten)
      /\ UserOK(user', taken', proved', overwritten')
  BY DEF AccInv
<1>2. ASSUME OnlyReads PROVE UNCHANGED Book!vars
  BY <1>2, BookSleeps DEF OnlyReads
<1>3. CASE Create(h)
  <2> DEFINE a == worker[h].to
  <2>1. a \in Addresses
    BY <1>1, <1>3 DEF Create, WorkerOK
  <2>2. /\ user = NoUser /\ user' # NoUser /\ a \notin taken
        /\ user'.email = a /\ user'.verified = FALSE
        /\ UNCHANGED <<taken, proved, overwritten>>
    <3>1. \A code \in Mailed(a) :
              [email |-> a, verified |-> FALSE, pending |-> None, code |-> code,
               age |-> 0, tries |-> 0] \in User
      BY <2>1, ZeroIsInRange, TicksAssumption DEF Mailed, User, Code
    <3> QED
      BY <1>3, <3>1, NoUserAssumption DEF Create, Exists, OnlyTheUser
  <2> HIDE DEF a
  <2>3. SignsUp(user, user', a)
    BY <2>2 DEF SignsUp, Address, Verified
  <2> QED
    BY <2>1, <2>3, BookSignUp
<1>4. CASE CreateAnother(h)
  <2>1. worker[h].to \in Addresses
    BY <1>1, <1>4 DEF CreateAnother, WorkerOK
  <2>2. /\ ~InUse(worker[h].to) /\ taken' = taken \cup {worker[h].to}
        /\ UNCHANGED <<user, proved, overwritten>>
    BY <1>4 DEF CreateAnother
  <2> QED
    BY <2>1, <2>2, BookOthers
<1>5. CASE CreateRefused(h) \/ CommitRefused(h) \/ Abort(h)
  BY <1>2, <1>5 DEF CreateRefused, CommitRefused, Abort
<1>6. ASSUME worker[h].stage \in {"issue", "miss", "mark", "pend", "commit"}
      PROVE  user # NoUser /\ user \in User
  BY <1>1, <1>6 DEF WorkerOK, UserOK
<1>7. ASSUME NEW code \in Code, SetVerificationCode(h, code)
      PROVE  Book!Next \/ UNCHANGED Book!vars
  <2>1. /\ user' # NoUser /\ user'.email = user.email /\ user'.verified = user.verified
        /\ user # NoUser
    BY <1>6, <1>7, UserUpdates DEF SetVerificationCode, WithCode
  <2>2. UNCHANGED <<taken, proved>> /\ overwritten' = (overwritten \/ user.pending # None)
    BY <1>7 DEF SetVerificationCode
  <2>3. CASE user.pending = None
    <3>1. overwritten' = overwritten
      BY <1>1, <2>2, <2>3 DEF UserOK
    <3> QED
      BY <2>1, <2>2, <3>1, BookSleeps
  <2>4. CASE user.pending # None
    <3>1. overwritten' /\ user.verified
      BY <1>1, <2>1, <2>2, <2>4 DEF UserOK
    <3> QED
      BY <2>1, <2>2, <3>1, BookMixUp DEF Address, Verified
  <2> QED
    BY <2>3, <2>4
<1>8. CASE IncrementVerifyAttempts(h) \/ SetPendingEmailCode(h)
  <2>1. user # NoUser /\ user \in User
    BY <1>6, <1>8 DEF IncrementVerifyAttempts, SetPendingEmailCode
  <2>2. user' # NoUser /\ UNCHANGED <<taken, proved, overwritten>>
    <3>1. CASE IncrementVerifyAttempts(h)
      <4>1. user' = [user EXCEPT !.tries = IF user.tries < MaxTries THEN user.tries + 1
                                                                    ELSE MaxTries]
        BY <3>1 DEF IncrementVerifyAttempts
      <4>2. (IF user.tries < MaxTries THEN user.tries + 1 ELSE MaxTries) \in 0 .. MaxTries
        BY <2>1, MaxTriesAssumption DEF User
      <4>3. \A n \in 0 .. MaxTries : [user EXCEPT !.tries = n] \in User
        BY <2>1 DEF User
      <4> QED
        BY <3>1, <4>1, <4>2, <4>3, NoUserAssumption DEF IncrementVerifyAttempts, OnlyTheUser
    <3>2. CASE SetPendingEmailCode(h)
      <4>1. worker[h].to \in Addresses
        BY <1>1, <3>2 DEF SetPendingEmailCode, WorkerOK
      <4>2. PICK code \in Mailed(worker[h].to) :
               user' = [[user EXCEPT !.code = code, !.age = 0, !.tries = 0]
                           EXCEPT !.pending = worker[h].to]
        BY <3>2 DEF SetPendingEmailCode, WithCode
      <4>3. [user EXCEPT !.code = code, !.age = 0, !.tries = 0] \in User
        BY <2>1, <4>1, UserUpdates DEF Mailed, Code
      <4>4. user' \in User
        BY <4>1, <4>2, <4>3 DEF User
      <4> QED
        BY <3>2, <4>4, NoUserAssumption DEF SetPendingEmailCode, OnlyTheUser
    <3> QED
      BY <1>8, <3>1, <3>2
  <2>3. user'.email = user.email /\ user'.verified = user.verified
    BY <1>8, <2>1 DEF IncrementVerifyAttempts, SetPendingEmailCode, WithCode, User
  <2> QED
    BY <2>1, <2>2, <2>3, BookSleeps
<1>9. CASE MarkVerified(h)
  <2>1. user # NoUser /\ user \in User
    BY <1>6, <1>9 DEF MarkVerified
  <2>2. user' = [[user EXCEPT !.code = None, !.age = 0, !.tries = 0] EXCEPT !.verified = TRUE]
    BY <1>9 DEF MarkVerified, WithoutCode
  <2>3. /\ user' # NoUser /\ user'.email = user.email /\ user'.verified = TRUE
        /\ user.email # None
    <3>1. [user EXCEPT !.code = None, !.age = 0, !.tries = 0] \in User
      BY <2>1, UserUpdates DEF Code
    <3>2. user' \in User
      BY <2>2, <3>1 DEF User
    <3> QED
      BY <2>1, <2>2, <3>2, NoUserAssumption, NoneAssumption DEF User
  <2>4. /\ worker[h].code \in Addresses
        /\ ~user.verified => worker[h].code = user.email
    BY <1>1, <1>9, <2>1 DEF MarkVerified, WorkerOK
  <2>5. proved' = proved \cup {worker[h].code} /\ UNCHANGED <<taken, overwritten>>
    BY <1>9 DEF MarkVerified
  <2> QED
    BY <2>1, <2>3, <2>4, <2>5, BookVerify DEF Address, Verified
<1>10. CASE CommitEmailChange(h)
  <2>1. user # NoUser /\ user \in User
    BY <1>6, <1>10 DEF CommitEmailChange
  <2>2. user' = [[user EXCEPT !.code = None, !.age = 0, !.tries = 0]
                    EXCEPT !.email = worker[h].to, !.verified = TRUE, !.pending = None]
    BY <1>10 DEF CommitEmailChange, WithoutCode
  <2>3. /\ worker[h].to \in Addresses /\ worker[h].code \in Addresses /\ user.verified
        /\ ~overwritten => worker[h].code = worker[h].to
    BY <1>1, <1>10, <2>1 DEF CommitEmailChange, WorkerOK
  <2>4. user' # NoUser /\ user'.email = worker[h].to /\ user'.verified = TRUE
    <3>1. [user EXCEPT !.code = None, !.age = 0, !.tries = 0] \in User
      BY <2>1, UserUpdates DEF Code
    <3>2. user' \in User
      BY <2>2, <2>3, <3>1 DEF User
    <3> QED
      BY <2>1, <2>2, <3>2, NoUserAssumption DEF User
  <2>5. /\ worker[h].to \notin taken /\ proved' = proved \cup {worker[h].code}
        /\ UNCHANGED <<taken, overwritten>>
    BY <1>10 DEF CommitEmailChange
  <2> QED
    BY <2>1, <2>3, <2>4, <2>5, BookMove DEF Address, Verified
<1> QED
  BY <1>3, <1>4, <1>5, <1>7, <1>8, <1>9, <1>10 DEF AccountWrite

LEMMA BookStep ==
    ASSUME AccInv, AccInv', [Next]_allVars
    PROVE  Book!Next \/ UNCHANGED Book!vars
<1>1. ASSUME OnlyReads PROVE UNCHANGED Book!vars
  BY <1>1, BookSleeps DEF OnlyReads
<1>2. ASSUME NEW h \in Handlers, AccountRequest(h) PROVE OnlyReads
  BY <1>2 DEF AccountRequest, Register, ChangeEmail, Login, ResendVerification,
     issueVerificationCode, VerifyEmail, VerifyEmailWrong, ResendEmailChange,
     VerifyEmailChange, VerifyEmailChangeWrong
<1>3. ASSUME NEW h \in Handlers, ResetRequest(h) PROVE OnlyReads
  BY <1>3 DEF ResetRequest, ForgotPassword, VerifyResetCode, ResetPassword
<1>4. ASSUME NEW h \in Handlers, ResetWrite(h)
      PROVE  Book!Next \/ UNCHANGED Book!vars
  <2>1. CASE MarkPasswordReset(h)
    <3>1. /\ WorkerOK(worker[h], user, overwritten)
          /\ UserOK(user, taken, proved, overwritten)
      BY DEF AccInv
    <3>2. /\ user # NoUser /\ user \in User /\ Target(h) \in Addresses
          /\ ~user.verified => Target(h) = user.email
      BY <2>1, <3>1 DEF MarkPasswordReset, WorkerOK, UserOK, Target, ResetStages
    <3>3. /\ user' = [user EXCEPT !.verified = TRUE] /\ proved' = proved \cup {Target(h)}
          /\ UNCHANGED <<taken, overwritten>>
      BY <2>1 DEF MarkPasswordReset
    <3>4. /\ user' # NoUser /\ user'.email = user.email /\ user'.verified = TRUE
          /\ user.email # None
      BY <3>2, <3>3, NoUserAssumption, NoneAssumption DEF User
    <3> QED
      BY <3>2, <3>3, <3>4, BookVerify DEF Address, Verified
  <2>2. CASE ~MarkPasswordReset(h)
    <3>1. OnlyReads
      BY <1>4, <2>2 DEF ResetWrite, SetCode, PromoteToToken, IncrAttempts, Clear, ResetAborts
    <3> QED
      BY <1>1, <3>1
  <2> QED
    BY <2>1, <2>2
<1>5. CASE Others
  <2>1. PICK a \in Addresses : OtherTakes(a) \/ OtherLeaves(a)
    BY <1>5 DEF Others
  <2> QED
    BY <2>1, BookOthers DEF OtherTakes, OtherLeaves
<1>6. CASE Tick
  <2>1. /\ user' = IF Exists /\ user.code # None
                   THEN [user EXCEPT !.age = Older(user.age)] ELSE user
        /\ UNCHANGED <<taken, proved, overwritten>>
    BY <1>6 DEF Tick, AgeTheCode
  <2>2. CASE user' = user
    BY <2>1, <2>2, BookSleeps
  <2>3. CASE Exists /\ user' = [user EXCEPT !.age = Older(user.age)]
    <3>1. user # NoUser /\ user \in User
      BY <2>3 DEF AccInv, UserOK, Exists
    <3>2. Older(user.age) \in 0 .. CodeTTL + 1
      BY <3>1, TicksAssumption DEF User, Older
    <3>3. user' # NoUser /\ user'.email = user.email /\ user'.verified = user.verified
      BY <2>3, <3>1, <3>2, UserUpdates
    <3> QED
      BY <2>1, <3>1, <3>3, BookSleeps
  <2> QED
    BY <2>1, <2>2, <2>3
<1>7. CASE Restart
  BY <1>1, <1>7 DEF Restart
<1>8. CASE UNCHANGED allVars
  BY <1>8, BookSleeps DEF allVars
<1> QED
  BY <1>1, <1>2, <1>3, <1>4, <1>5, <1>6, <1>7, <1>8, BookWrites DEF Next, Account

\* Sign-up, change of address and password reset together implement the book:
\* an account stays, stays verified, is verified by what was mailed to its
\* address and moves to a free address at which a code was received.
THEOREM FlowsImplementBook == Spec => ImplementsAddressBook
<1>1. ResetInit => Book!Init
  <2> SUFFICES ASSUME ResetInit PROVE Book!Init
    OBVIOUS
  <2>1. \A b \in BOOLEAN : /\ Settled(b).email = Home /\ Settled(b).verified = b
                           /\ Settled(b) # NoUser
    <3>1. \A b \in BOOLEAN : Settled(b) \in User
      BY HomeAssumption, ZeroIsInRange, TicksAssumption DEF Settled, User, Code
    <3> QED
      BY <3>1, NoUserAssumption DEF Settled
  <2>2. taken = {} /\ ~overwritten
    BY DEF ResetInit, Init
  <2>3. CASE user = NoUser /\ proved = {}
    BY <2>2, <2>3 DEF Book!Init, Exists
  <2>4. CASE user = Settled(TRUE) /\ proved = {Home}
    BY <2>1, <2>2, <2>4, HomeAssumption DEF Book!Init, Exists
  <2>5. CASE user = Settled(FALSE) /\ proved = {}
    BY <2>1, <2>2, <2>5, HomeAssumption DEF Book!Init, Exists
  <2> QED
    BY <2>3, <2>4, <2>5 DEF ResetInit, Init
<1>2. AccInv /\ AccInv' /\ [Next]_allVars => [Book!Next]_Book!vars
  BY BookStep
<1> QED
  BY <1>1, <1>2, AccountsInvariant, PTL DEF Spec, ImplementsAddressBook, Book!Spec
=============================================================================
