----------------------------- MODULE PasswordReset -----------------------------
(***************************************************************************)
(* The forgotten-password flow of internal/handler/auth.go over            *)
(* internal/resetstore, composed with the account it resets: a code is     *)
(* mailed, exchanged for a token, and the token for a new password, which  *)
(* also verifies the account.                                              *)
(*                                                                         *)
(* A session is kept for an address, not for an account.  The store is     *)
(* Redis or the memory of the process; a restart empties the second.       *)
(***************************************************************************)
EXTENDS Accounts

VARIABLES
    session,   \* the reset session of each address
    quiet      \* the ticks left of the resend cooldown of each address

resetVars == <<session, quiet>>
allVars == <<user, taken, worker, serves, proved, overwritten, session, quiet>>

\* Where a code or a token is: in nobody's hands when the mail or the answer
\* with it was lost.
Secret == {"none", "lost", "held"}

\* guesses is history: the comparisons let through since the session was set, be
\* they with its own code or, by a handler that read it before, with an earlier
\* one.
Session == [code : Secret, token : Secret, age : 0 .. CodeTTL,
            tries : 0 .. MaxTries + 1, guesses : 0 .. MaxTries + 1]

NoSession == [code |-> "none", token |-> "none", age |-> 0, tries |-> 0, guesses |-> 0]

Stored(s) == s.code # "none" \/ s.token # "none"

ResetTypeOK ==
    /\ TypeOK
    /\ session \in [Addresses -> Session]
    /\ quiet \in [Addresses -> 0 .. Cooldown]

ResetInit ==
    /\ Init
    /\ session = [a \in Addresses |-> NoSession]
    /\ quiet = [a \in Addresses |-> 0]

-----------------------------------------------------------------------------
Target(h) == worker[h].to
Proceed(h, stage) == worker' = [worker EXCEPT ![h].stage = stage]

\* ForgotPassword up to MarkSent, which starts the cooldown or ends the work.
ForgotPassword(h, a) ==
    /\ "forgot" \in serves /\ Free(h)
    /\ HeldBy(a, user)
    /\ quiet[a] = 0
    /\ quiet' = [quiet EXCEPT ![a] = Cooldown]
    /\ Go(h, "send", a, None)
    /\ UNCHANGED session
    /\ OnlyReads

\* A mutant: the new code inherits the count of the old one.
SetCodeKeepsTries(h, code) ==
    /\ worker[h].stage = "send"
    /\ code \in {"held", "lost"}
    /\ session' = [session EXCEPT ![Target(h)] =
                      [NoSession EXCEPT !.code = code, !.tries = session[Target(h)].tries]]
    /\ Answer(h)
    /\ UNCHANGED quiet
    /\ OnlyReads

SetCode(h, code) ==
    /\ worker[h].stage = "send"
    /\ code \in {"held", "lost"}
    /\ session' = [session EXCEPT ![Target(h)] = [NoSession EXCEPT !.code = code]]
    /\ Answer(h)
    /\ UNCHANGED quiet
    /\ OnlyReads

\* right: the client enters the code it was mailed.
VerifyResetCode(h, a, right) ==
    /\ (IF right THEN "reset_code" ELSE "guess_reset") \in serves /\ Free(h)
    /\ session[a].code # "none"
    /\ session[a].tries < MaxTries
    /\ right => session[a].code = "held"
    /\ worker' = [worker EXCEPT ![h] =
                     [Idle EXCEPT !.stage = "reserve", !.to = a, !.right = right]]
    /\ UNCHANGED resetVars
    /\ OnlyReads

Counted(s) == [s EXCEPT !.tries = IF s.tries <= MaxTries THEN s.tries + 1
                                                         ELSE s.tries]
Guessed(s) == [s EXCEPT !.guesses = IF s.guesses <= MaxTries THEN s.guesses + 1
                                                             ELSE s.guesses]

\* A mutant: the comparison goes ahead whatever the count returned.
ReservedOrNot(s) == Stored(s)

\* The count is of the session stored now, not of the one that was read; that of
\* a session that is gone stays zero, and a count past the cap ends the request
\* before the comparison, which is with the code that was read.
WithinCap(s) == Stored(s) /\ s.tries < MaxTries

IncrAttempts(h) ==
    /\ worker[h].stage = "reserve"
    /\ LET a == Target(h)
           s == session[a]
       IN  /\ session' = [session EXCEPT ![a] =
                  IF ~Stored(s) THEN s
                  ELSE IF WithinCap(s) THEN Guessed(Counted(s))
                  ELSE Counted(s)]
           /\ IF WithinCap(s) /\ worker[h].right THEN Proceed(h, "promote") ELSE Answer(h)
    /\ UNCHANGED quiet
    /\ OnlyReads

PromoteToToken(h, token) ==
    /\ worker[h].stage = "promote"
    /\ token \in {"held", "lost"}
    /\ session' = [session EXCEPT ![Target(h)] = [NoSession EXCEPT !.token = token]]
    /\ Answer(h)
    /\ UNCHANGED quiet
    /\ OnlyReads

\* The client presents the token it was answered; the account is the one that
\* has the address now.
ResetPassword(h, a) ==
    /\ "reset" \in serves /\ Free(h)
    /\ session[a].token = "held"
    /\ HeldBy(a, user)
    /\ Go(h, "reset", a, None)
    /\ UNCHANGED resetVars
    /\ OnlyReads

MarkPasswordReset(h) ==
    /\ worker[h].stage = "reset"
    /\ user' = [user EXCEPT !.verified = TRUE]
    /\ proved' = proved \cup {Target(h)}
    /\ Proceed(h, "clear")
    /\ UNCHANGED resetVars
    /\ UNCHANGED <<taken, serves, overwritten>>

Clear(h) ==
    /\ worker[h].stage = "clear"
    /\ session' = [session EXCEPT ![Target(h)] = NoSession]
    /\ quiet' = [quiet EXCEPT ![Target(h)] = 0]
    /\ Answer(h)
    /\ OnlyReads

-----------------------------------------------------------------------------
\* A failed store call; that of Clear is logged only.
ResetAborts(h) ==
    /\ "abort" \in serves
    /\ worker[h].stage \in ResetStages
    /\ Answer(h)
    /\ UNCHANGED resetVars
    /\ OnlyReads

Tick ==
    /\ AgeTheCode
    /\ session' = [a \in Addresses |->
                      IF ~Stored(session[a]) \/ session[a].age = CodeTTL THEN NoSession
                      ELSE [session[a] EXCEPT !.age = session[a].age + 1]]
    /\ quiet' = [a \in Addresses |-> IF quiet[a] > 0 THEN quiet[a] - 1 ELSE 0]

\* The process ends; what Redis holds stays, what it held itself does not.
Restart ==
    /\ "restart" \in serves
    /\ worker' = [h \in Handlers |-> Idle]
    /\ OnlyReads
    /\ \/ UNCHANGED resetVars
       \/ /\ session' = [a \in Addresses |-> NoSession]
          /\ quiet' = [a \in Addresses |-> 0]

ResetRequest(h) ==
    \E a \in Addresses :
       \/ ForgotPassword(h, a)
       \/ \E right \in BOOLEAN : VerifyResetCode(h, a, right)
       \/ ResetPassword(h, a)

ResetWrite(h) ==
    \/ \E secret \in Secret : SetCode(h, secret) \/ PromoteToToken(h, secret)
    \/ IncrAttempts(h) \/ MarkPasswordReset(h) \/ Clear(h)
    \/ ResetAborts(h)

Account(h) == (AccountRequest(h) \/ AccountWrite(h)) /\ UNCHANGED resetVars

Next ==
    \/ \E h \in Handlers : Account(h) \/ ResetRequest(h) \/ ResetWrite(h)
    \/ Others /\ UNCHANGED resetVars
    \/ Tick
    \/ Restart

Spec == ResetInit /\ [][Next]_allVars

-----------------------------------------------------------------------------
(***************************************************************************)
(* The clock runs, and a handler that has begun ends its request.          *)
(***************************************************************************)
Fairness ==
    /\ WF_allVars(Tick)
    /\ \A h \in Handlers :
          WF_allVars((AccountWrite(h) /\ UNCHANGED resetVars) \/ ResetWrite(h))

FairSpec == Spec /\ Fairness

(***************************************************************************)
(* An owner who waits for a code keeps asking for one, gets some of the    *)
(* mails, and enters what is in them; none of it is promised to happen in  *)
(* a window that the other requests leave, only to be tried often enough.  *)
(***************************************************************************)
OwnerSignsUp ==
    /\ SF_allVars(\E h \in Handlers : ResendVerification(h) /\ UNCHANGED resetVars)
    /\ SF_allVars(\E h \in Handlers, a \in Addresses :
                     SetVerificationCode(h, a) /\ UNCHANGED resetVars)
    /\ SF_allVars(\E h \in Handlers : VerifyEmail(h) /\ UNCHANGED resetVars)
    /\ SF_allVars(\E h \in Handlers : MarkVerified(h) /\ UNCHANGED resetVars)

OwnerResets ==
    /\ SF_allVars(\E h \in Handlers, a \in Addresses : ForgotPassword(h, a))
    /\ SF_allVars(\E h \in Handlers : SetCode(h, "held"))
    /\ SF_allVars(\E h \in Handlers, a \in Addresses : VerifyResetCode(h, a, TRUE))
    /\ SF_allVars(\E h \in Handlers :
                     worker[h].right /\ WithinCap(session[Target(h)]) /\ IncrAttempts(h))
    /\ SF_allVars(\E h \in Handlers : PromoteToToken(h, "held"))
    /\ SF_allVars(\E h \in Handlers, a \in Addresses : ResetPassword(h, a))
    /\ SF_allVars(\E h \in Handlers : MarkPasswordReset(h))

-----------------------------------------------------------------------------
\* However the requests that enter a reset code overlap, and whichever of an
\* address's codes each of them has read, at most maxVerifyAttempts of them are
\* let through to the comparison between one setting of its session and the
\* next.  (It is no bound for each code: a request that read a code which has
\* been replaced since reserves an attempt of the new session and compares with
\* the old code.)
TriesAreBounded == \A a \in Addresses : session[a].guesses <= MaxTries

\* Lost mails, wrong entries that use up the attempts, failed calls and codes
\* that expire do not trap an account that signed up: as long as its owner
\* keeps asking, it gets verified.
SignUpCompletes ==
    OwnerSignsUp =>
        (Exists /\ {"resend", "verify"} \subseteq serves ~> Exists /\ user.verified)

\* Nor do they, the cooldown, a restart or another client's requests for the
\* same address keep an owner from a new password.
ResetCompletes ==
    OwnerResets =>
        (Exists /\ {"forgot", "reset_code", "reset"} \subseteq serves
            ~> \E h \in Handlers : worker[h].stage = "clear")

\* Seen from outside, the three flows with their stale reads, lost mails, late
\* writes and retries are the single steps of AddressBook.
Book == INSTANCE AddressBook
    WITH email <- IF Exists THEN user.email ELSE None,
         verified <- Exists /\ user.verified,
         mixed <- overwritten

ImplementsAddressBook == Book!Spec
=============================================================================
