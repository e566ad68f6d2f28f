--------------------------------- MODULE Coins ---------------------------------
(***************************************************************************)
(* A player's purse: AdjustCoins and ConvertCoins of                       *)
(* internal/store/player.go, single guarded updates, with what             *)
(* handler/coins.go and model/coins.go let through to them.                *)
(***************************************************************************)
EXTENDS Integers

CONSTANTS
    MaxCoinAmount,   \* the greatest delta or amount a request may carry
    Adjustments,     \* the adjustments clients may send, zeros left out by the code
    MaxStored        \* bound of the model on a stored count; the code has none

ASSUME MaxCoinAmountAssumption == MaxCoinAmount \in Nat
Denominations == {"cp", "sp", "ep", "gp", "pp"}

CoinValueCP == [cp |-> 1, sp |-> 10, ep |-> 50, gp |-> 100, pp |-> 1000]

\* parseCoinDeltas: integers within the limit, one of them at least not zero.
ASSUME AdjustmentsAssumption ==
    /\ Adjustments \subseteq [Denominations -> -MaxCoinAmount .. MaxCoinAmount]
    /\ \A deltas \in Adjustments : \E d \in Denominations : deltas[d] # 0

VARIABLE purse

PurseTypeOK == purse \in [Denominations -> Int]

PurseInit == purse = [d \in Denominations |-> 0]

\* A mutant: one debit guards for all of them.
CoversOne(deltas) ==
    (\E d \in Denominations : deltas[d] < 0)
    => \E d \in Denominations : deltas[d] < 0 /\ purse[d] >= -deltas[d]

\* The $gte guards of the filter.
Covers(deltas) == \A d \in Denominations : deltas[d] < 0 => purse[d] >= -deltas[d]

AdjustCoins(deltas) ==
    /\ Covers(deltas)
    /\ purse' = [d \in Denominations |-> purse[d] + deltas[d]]
    /\ \A d \in Denominations : purse'[d] <= MaxStored

\* A mutant: an uneven conversion is rounded.
ConvertsRounded(from, to, amount) == from # to /\ amount \in 1 .. MaxCoinAmount

\* ConvertedAmount: the result is to be whole.
Converts(from, to, amount) ==
    /\ from # to /\ amount \in 1 .. MaxCoinAmount
    /\ (amount * CoinValueCP[from]) % CoinValueCP[to] = 0

ConvertedAmount(from, to, amount) == (amount * CoinValueCP[from]) \div CoinValueCP[to]

ConvertCoins(from, to, amount) ==
    /\ Converts(from, to, amount)
    /\ purse[from] >= amount
    /\ purse' = [purse EXCEPT ![from] = @ - amount,
                              ![to] = @ + ConvertedAmount(from, to, amount)]
    /\ purse'[to] <= MaxStored

Convert == \E from, to \in Denominations, amount \in 1 .. MaxCoinAmount :
    ConvertCoins(from, to, amount)

PurseNext == Convert \/ \E deltas \in Adjustments : AdjustCoins(deltas)

PurseSpec == PurseInit /\ [][PurseNext]_purse

-----------------------------------------------------------------------------
Worth(coins) ==
    coins["cp"] * CoinValueCP["cp"] + coins["sp"] * CoinValueCP["sp"]
    + coins["ep"] * CoinValueCP["ep"] + coins["gp"] * CoinValueCP["gp"]
    + coins["pp"] * CoinValueCP["pp"]

\* Converting changes what a player carries, never what it is worth.
ConversionKeepsWorth == [][Convert => Worth(purse') = Worth(purse)]_purse

\* "the whole adjustment applies or none of it does": no debit, alone or beside
\* others, overdraws.
NeverOverdrawn == \A d \in Denominations : purse[d] >= 0

=============================================================================
