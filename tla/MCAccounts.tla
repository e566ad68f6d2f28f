------------------------------ MODULE MCAccounts ------------------------------
(***************************************************************************)
(* An instance of PasswordReset for TLC: two addresses, two handlers, two  *)
(* attempts at a code, and clocks as short as lets a code be fresh, old    *)
(* and expired.  Each behaviour is about one family of operations.         *)
(***************************************************************************)
EXTENDS PasswordReset

CONSTANTS a1, a2

SignUp == {"register", "login", "resend", "verify", "guess", "abort", "others"}

AddressChange ==
    {"resend", "verify", "change", "resend_change", "verify_change",
     "guess_change", "abort", "others"}

Forgotten == {"forgot", "reset_code", "guess_reset", "reset", "abort", "restart"}

\* The two ways in which an account that was never verified gets verified.
SignUpOrReset == {"resend", "verify", "forgot", "reset_code", "reset"}

AllFamilies == {SignUp, AddressChange, Forgotten, SignUpOrReset}
=============================================================================
