------------------------------ MODULE AddressBook ------------------------------
(***************************************************************************)
(* What the flows of internal/handler/auth.go promise about the address of *)
(* one account, told without codes, sessions, retries and stale reads: an  *)
(* account is there once and for all, is verified once and for all by what *)
(* was mailed to its address, and moves from a verified address to a free  *)
(* one at which a code was received.  Accounts and PasswordReset implement *)
(* it: each of their updates is one of these steps or none.                *)
(***************************************************************************)
CONSTANTS
    Addresses,
    None         \* the address of an account that does not exist yet

VARIABLES
    email,       \* the address of the account
    verified,    \* whether it was ever verified
    taken,       \* the addresses of the other accounts
    proved,      \* where a mailed code was received and entered
    mixed        \* a sign-up code has been stored over one of a change

vars == <<email, verified, taken, proved, mixed>>

Init ==
    /\ \/ email = None /\ ~verified /\ proved = {}
       \/ email \in Addresses /\ ~verified /\ proved = {}
       \/ email \in Addresses /\ verified /\ proved = {email}
    /\ taken = {}
    /\ ~mixed

-----------------------------------------------------------------------------
\* The unique index on email.
InUse(a) == a \in taken \cup {email}

\* A code that was mailed to a is entered.
Proves(a) == proved' = proved \cup {a}

SignUp(a) ==
    /\ email = None /\ ~InUse(a)
    /\ email' = a
    /\ UNCHANGED <<verified, taken, proved, mixed>>

\* What verifies an account was mailed to its address; one that is verified
\* may be so again by a code that has come late.
Verify(a) ==
    /\ email # None
    /\ verified \/ a = email
    /\ verified'
    /\ Proves(a)
    /\ UNCHANGED <<email, taken, mixed>>

\* The address the account moves to is the one that was proved, but for the
\* codes of the two flows having been mixed up.
Move(a, b) ==
    /\ verified
    /\ b \notin taken
    /\ mixed \/ a = b
    /\ email' = b
    /\ Proves(a)
    /\ UNCHANGED <<verified, taken, mixed>>

\* Only a verified account has a change pending that can lose its code.
MixUp ==
    /\ verified
    /\ mixed'
    /\ UNCHANGED <<email, verified, taken, proved>>

OtherTakes(a) ==
    /\ ~InUse(a)
    /\ taken' = taken \cup {a}
    /\ UNCHANGED <<email, verified, proved, mixed>>

OtherLeaves(a) ==
    /\ taken' = taken \ {a}
    /\ UNCHANGED <<email, verified, proved, mixed>>

Next ==
    \/ \E a \in Addresses : SignUp(a) \/ Verify(a) \/ OtherTakes(a) \/ OtherLeaves(a)
    \/ \E a, b \in Addresses : Move(a, b)
    \/ MixUp

Spec == Init /\ [][Next]_vars
=============================================================================
