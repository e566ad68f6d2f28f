------------------------------- MODULE Accounts -------------------------------
(***************************************************************************)
(* Signing up with an e-mail address and moving the account to another:    *)
(* internal/handler/auth.go over internal/store/user.go, for one account.  *)
(* Addresses that other accounts hold are a set; PasswordReset adds the    *)
(* third way in which an address is proved.                                *)
(*                                                                         *)
(* Every handler reads the user first and writes with one blind update by  *)
(* id, so a request is two steps: what it read, and the update it decided  *)
(* on.  Passwords are left out: a request with a wrong one has no effect.  *)
(* Neither are tokens kept: with verification on, one is signed for the    *)
(* owner of a verified account only, and no account ever stops being so.   *)
(***************************************************************************)
EXTENDS Naturals, FiniteSets

CONSTANTS
    Addresses,   \* e-mail addresses, lowercased and trimmed
    Handlers,    \* requests served at the same time
    Home,        \* the address of an account that exists from the start
    Families,    \* the sets of operations whose clients are explored together
    Cooldown,    \* resendCooldown, in ticks of the model's clock
    CodeTTL,     \* verifyCodeTTL, in ticks
    MaxTries,    \* maxVerifyAttempts
    NoUser,      \* the account does not exist yet
    None         \* no address, no code

ASSUME TicksAssumption == Cooldown \in Nat /\ CodeTTL \in Nat /\ Cooldown <= CodeTTL
ASSUME MaxTriesAssumption == MaxTries \in Nat \ {0}
ASSUME HomeAssumption == Home \in Addresses
ASSUME NoneAssumption == None \notin Addresses

Lost == <<"lost">>
ASSUME LostAssumption == Lost \notin Addresses /\ Lost # None

VARIABLES
    user,         \* the document of the account
    taken,        \* the addresses of the other accounts
    worker,       \* what each handler is doing
    serves,       \* the family of operations this behaviour is about
    proved,       \* history: addresses whose mailed code somebody entered
    overwritten   \* history: a sign-up code was stored over a pending change

vars == <<user, taken, worker, serves, proved, overwritten>>

-----------------------------------------------------------------------------
\* A code is known by the address it was mailed to, and is Lost when the mail
\* was.  Its age counts the ticks since it was sent, up to the first that is
\* past its expiry; tries stops where it no longer matters.
Code == Addresses \cup {Lost, None}

User == [email : Addresses, verified : BOOLEAN, pending : Addresses \cup {None},
         code : Code, age : 0 .. CodeTTL + 1, tries : 0 .. MaxTries]

ASSUME NoUserAssumption == NoUser \notin User

AccountStages == {"idle", "create", "issue", "miss", "mark", "pend", "commit"}
ResetStages == {"send", "reserve", "promote", "reset", "clear"}

\* to is the address the update is about, code the one that was entered;
\* right belongs to PasswordReset.
Worker == [stage : AccountStages \cup ResetStages, to : Addresses \cup {None},
           code : Code, right : BOOLEAN]

Idle == [stage |-> "idle", to |-> None, code |-> None, right |-> FALSE]

TypeOK ==
    /\ user \in User \cup {NoUser}
    /\ taken \subseteq Addresses
    /\ worker \in [Handlers -> Worker]
    /\ serves \in Families
    /\ proved \subseteq Addresses
    /\ overwritten \in BOOLEAN

\* An account of some age: verified by the code that was mailed to it, or left
\* with one that never arrived.
Settled(verified) ==
    [email |-> Home, verified |-> verified, pending |-> None,
     code |-> IF verified THEN None ELSE Lost,
     age |-> IF verified THEN 0 ELSE CodeTTL + 1, tries |-> 0]

Init ==
    /\ \/ user = NoUser /\ proved = {}
       \/ user = Settled(TRUE) /\ proved = {Home}
       \/ user = Settled(FALSE) /\ proved = {}
    /\ taken = {}
    /\ worker = [h \in Handlers |-> Idle]
    /\ serves \in Families
    /\ overwritten = FALSE

-----------------------------------------------------------------------------
Exists == user # NoUser
Free(h) == worker[h].stage = "idle"
Go(h, stage, to, code) ==
    worker' = [worker EXCEPT ![h] = [Idle EXCEPT !.stage = stage, !.to = to,
                                                 !.code = code]]
Answer(h) == worker' = [worker EXCEPT ![h] = Idle]

\* What the reading half of a handler leaves alone.
OnlyReads == UNCHANGED <<user, taken, serves, proved, overwritten>>
OnlyTheUser == UNCHANGED <<taken, serves, proved, overwritten>>

\* The unique index on email, and the lookup by email that goes before.
HeldBy(a, u) == u # NoUser /\ u.email = a
InUse(a) == a \in taken \/ HeldBy(a, user)

\* A mutant: a fresh code keeps the count of the wrong entries before it.
WithCodeKeepsTries(u, code) == [u EXCEPT !.code = code, !.age = 0]

\* A code stored now, whether or not the mail with it arrives.
WithCode(u, code) == [u EXCEPT !.code = code, !.age = 0, !.tries = 0]
WithoutCode(u) == [u EXCEPT !.code = None, !.age = 0, !.tries = 0]

Mailed(a) == {a, Lost}

JustSent == user.code # None /\ user.age < Cooldown
Expired == user.age > CodeTTL

-----------------------------------------------------------------------------
\* Register finds the address free; the insert may find otherwise.
Register(h, a) ==
    /\ "register" \in serves /\ Free(h)
    /\ ~InUse(a)
    /\ Go(h, "create", a, None)
    /\ OnlyReads

Create(h) ==
    /\ worker[h].stage = "create" /\ ~Exists
    /\ worker[h].to \notin taken
    /\ \E code \in Mailed(worker[h].to) :
          user' = [email |-> worker[h].to, verified |-> FALSE, pending |-> None,
                   code |-> code, age |-> 0, tries |-> 0]
    /\ Answer(h)
    /\ OnlyTheUser

\* A second Register with an address of its own makes an account of its own.
CreateAnother(h) ==
    /\ worker[h].stage = "create" /\ Exists
    /\ ~InUse(worker[h].to)
    /\ taken' = taken \cup {worker[h].to}
    /\ Answer(h)
    /\ UNCHANGED <<user, serves, proved, overwritten>>

CreateRefused(h) ==
    /\ worker[h].stage = "create"
    /\ InUse(worker[h].to)
    /\ Answer(h)
    /\ OnlyReads

-----------------------------------------------------------------------------
\* issueVerificationCode as far as the read: a fresh code unless one has just
\* been sent.
issueVerificationCode(h) ==
    /\ ~JustSent
    /\ Go(h, "issue", user.email, None)
    /\ OnlyReads

\* Login of an account that is not verified; one that is gets a token.
Login(h) ==
    /\ "login" \in serves /\ Free(h)
    /\ Exists /\ ~user.verified
    /\ issueVerificationCode(h)

ResendVerification(h) ==
    /\ "resend" \in serves /\ Free(h)
    /\ Exists /\ ~user.verified
    /\ issueVerificationCode(h)

\* The code goes to the address that was read.
SetVerificationCode(h, code) ==
    /\ worker[h].stage = "issue"
    /\ code \in Mailed(worker[h].to)
    /\ user' = WithCode(user, code)
    /\ overwritten' = (overwritten \/ user.pending # None)
    /\ Answer(h)
    /\ UNCHANGED <<taken, serves, proved>>

\* The checks VerifyEmail and VerifyEmailChange share.  Who enters the right
\* code reads the mail of the address it went to.
CodeIsLive == user.code # None /\ ~Expired /\ user.tries < MaxTries

VerifyEmail(h) ==
    /\ "verify" \in serves /\ Free(h)
    /\ Exists /\ ~user.verified
    /\ CodeIsLive /\ user.code \in Addresses
    /\ Go(h, "mark", None, user.code)
    /\ OnlyReads

VerifyEmailWrong(h) ==
    /\ "guess" \in serves /\ Free(h)
    /\ Exists /\ ~user.verified
    /\ CodeIsLive
    /\ Go(h, "miss", None, None)
    /\ OnlyReads

IncrementVerifyAttempts(h) ==
    /\ worker[h].stage = "miss"
    /\ user' = [user EXCEPT !.tries = IF user.tries < MaxTries THEN user.tries + 1
                                                               ELSE MaxTries]
    /\ Answer(h)
    /\ OnlyTheUser

MarkVerified(h) ==
    /\ worker[h].stage = "mark"
    /\ user' = [WithoutCode(user) EXCEPT !.verified = TRUE]
    /\ proved' = proved \cup {worker[h].code}
    /\ Answer(h)
    /\ UNCHANGED <<taken, serves, overwritten>>

-----------------------------------------------------------------------------
\* A mutant: a token for an account that was never verified.
HasAccount == Exists

\* The owner of a verified account holds a token.
SignedIn == Exists /\ user.verified

ChangeEmail(h, a) ==
    /\ "change" \in serves /\ Free(h)
    /\ SignedIn
    /\ ~InUse(a)
    /\ Go(h, "pend", a, None)
    /\ OnlyReads

ResendEmailChange(h) ==
    /\ "resend_change" \in serves /\ Free(h)
    /\ SignedIn
    /\ user.pending # None /\ ~JustSent
    /\ Go(h, "pend", user.pending, None)
    /\ OnlyReads

\* A mutant: the code goes to the address the account has already.
SetPendingMailsTheOld(h) ==
    /\ worker[h].stage = "pend"
    /\ \E code \in Mailed(user.email) :
          user' = [WithCode(user, code) EXCEPT !.pending = worker[h].to]
    /\ Answer(h)
    /\ OnlyTheUser

SetPendingEmailCode(h) ==
    /\ worker[h].stage = "pend"
    /\ \E code \in Mailed(worker[h].to) :
          user' = [WithCode(user, code) EXCEPT !.pending = worker[h].to]
    /\ Answer(h)
    /\ OnlyTheUser

VerifyEmailChange(h) ==
    /\ "verify_change" \in serves /\ Free(h)
    /\ SignedIn
    /\ user.pending # None
    /\ CodeIsLive /\ user.code \in Addresses
    /\ user.pending \notin taken
    /\ Go(h, "commit", user.pending, user.code)
    /\ OnlyReads

VerifyEmailChangeWrong(h) ==
    /\ "guess_change" \in serves /\ Free(h)
    /\ SignedIn
    /\ user.pending # None
    /\ CodeIsLive
    /\ Go(h, "miss", None, None)
    /\ OnlyReads

\* A mutant: no unique index behind the lookup.
CommitWithoutIndex(h) ==
    /\ worker[h].stage = "commit"
    /\ user' = [WithoutCode(user) EXCEPT !.email = worker[h].to,
                                         !.verified = TRUE, !.pending = None]
    /\ proved' = proved \cup {worker[h].code}
    /\ Answer(h)
    /\ UNCHANGED <<taken, serves, overwritten>>

CommitEmailChange(h) ==
    /\ worker[h].stage = "commit"
    /\ worker[h].to \notin taken
    /\ user' = [WithoutCode(user) EXCEPT !.email = worker[h].to,
                                         !.verified = TRUE, !.pending = None]
    /\ proved' = proved \cup {worker[h].code}
    /\ Answer(h)
    /\ UNCHANGED <<taken, serves, overwritten>>

\* The index refuses what the lookup before it let pass.
CommitRefused(h) ==
    /\ worker[h].stage = "commit"
    /\ worker[h].to \in taken
    /\ Answer(h)
    /\ OnlyReads

-----------------------------------------------------------------------------
\* A store call that fails ends the request; nothing is retried.
Abort(h) ==
    /\ "abort" \in serves
    /\ worker[h].stage \in AccountStages \ {"idle"}
    /\ Answer(h)
    /\ OnlyReads

\* Another account signs up with an address or moves to it, or moves away.
OtherTakes(a) ==
    /\ "others" \in serves
    /\ ~InUse(a)
    /\ taken' = taken \cup {a}
    /\ UNCHANGED <<user, worker, serves, proved, overwritten>>

OtherLeaves(a) ==
    /\ "others" \in serves
    /\ a \in taken
    /\ taken' = taken \ {a}
    /\ UNCHANGED <<user, worker, serves, proved, overwritten>>

\* A tick of the clock; the last age stands for every later one.
Older(age) == IF age <= CodeTTL THEN age + 1 ELSE age

AgeTheCode ==
    /\ user' = IF Exists /\ user.code # None
               THEN [user EXCEPT !.age = Older(user.age)] ELSE user
    /\ UNCHANGED <<taken, worker, serves, proved, overwritten>>

AccountRequest(h) ==
    \/ \E a \in Addresses : Register(h, a) \/ ChangeEmail(h, a)
    \/ Login(h) \/ ResendVerification(h)
    \/ VerifyEmail(h) \/ VerifyEmailWrong(h)
    \/ ResendEmailChange(h)
    \/ VerifyEmailChange(h) \/ VerifyEmailChangeWrong(h)

AccountWrite(h) ==
    \/ Create(h) \/ CreateAnother(h) \/ CreateRefused(h)
    \/ \E code \in Code : SetVerificationCode(h, code)
    \/ IncrementVerifyAttempts(h) \/ MarkVerified(h)
    \/ SetPendingEmailCode(h)
    \/ CommitEmailChange(h) \/ CommitRefused(h)
    \/ Abort(h)

Others == \E a \in Addresses : OtherTakes(a) \/ OtherLeaves(a)

-----------------------------------------------------------------------------
\* No two accounts have the same address, though Register, ChangeEmail and
\* VerifyEmailChange all look before they write: a write that comes too late
\* is refused by the index that NewUserStore asks for.
AddressesAreUnique == Exists => user.email \notin taken

\* A verified account has an address at which somebody received a code and
\* entered it, whichever of the three flows verified it.  The flows share one
\* set of code fields, and the exception is where that shows: a sign-up code
\* issued from a stale read replaced the code of a pending change.
ConfirmedAddress ==
    Exists /\ user.verified /\ ~overwritten => user.email \in proved
=============================================================================
