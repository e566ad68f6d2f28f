------------------------------ MODULE PlayerSheet ------------------------------
(***************************************************************************)
(* The parts of one player document that are updated in place: the limited *)
(* uses and the purse.  Their updates are of different fields and so do    *)
(* not disturb each other, though they interleave in every way.            *)
(***************************************************************************)
EXTENDS LimitedUses, Coins

sheet == <<vars, purse>>

SheetTypeOK == TypeOK /\ PurseTypeOK

SheetInit == Init /\ PurseInit

SheetNext == (Next /\ UNCHANGED purse) \/ (PurseNext /\ UNCHANGED vars)

SheetSpec == SheetInit /\ [][SheetNext]_sheet

=============================================================================
