--------------------------- MODULE FinancialCaveats ---------------------------
(***************************************************************************)
(* packages/trust/src/financial-caveats.ts: whether the caveats of one     *)
(* grant, its aud apart, admit one pending action.                         *)
(*                                                                         *)
(* A caveat map and an action are functions from the keys they have.  An   *)
(* amount is the number its digits write, the point left out, and how many *)
(* of them stand after the point: "10.50" is [units |-> 1050, places |->   *)
(* 2].  A beneficiary caveat is the set of its payees.  What the schemas   *)
(* refuse is a value outside the sets below.                               *)
(***************************************************************************)
EXTENDS Integers, FiniteSets

CONSTANTS
    Currency,      \* what currencySchema admits
    MaxPlaces,     \* digits that may stand after the point, 18 in the code
    MaxUnits,      \* MAX_AMOUNT_LENGTH, as the greatest number it can write
    MaxTier        \* the highest approval tier, 100 in the code

ASSUME CaveatAssumption ==
    MaxPlaces \in Nat /\ MaxUnits \in Nat /\ MaxTier \in Nat

ADMITTED_KEYS == {"maxAmount", "currency", "beneficiary", "actionId", "approvalTier"}

AmountSchema(amount) == amount.units \in 0 .. MaxUnits /\ amount.places \in 0 .. MaxPlaces

Greater(m, n) == IF m >= n THEN m ELSE n

(* Powers of ten, as far as an amount may have places. *)
TenTo[n \in 0 .. MaxPlaces] == IF n = 0 THEN 1 ELSE 10 * TenTo[n - 1]

Scaled(amount, places) == amount.units * TenTo[places - amount.places]

(* A fault to be caught: the comparison trims to the shorter fraction. *)
FaultyAmountAtMost(x, y) ==
    LET places == IF x.places <= y.places THEN x.places ELSE y.places
        trimmed(amount) == amount.units \div TenTo[amount.places - places]
    IN  trimmed(x) <= trimmed(y)

(* x <= y, at the longer of the two fractions. *)
AmountAtMost(x, y) ==
    LET places == Greater(x.places, y.places)
    IN  Scaled(x, places) <= Scaled(y, places)

States(action, field) == field \in DOMAIN action

WithinCap(caveats, action) ==
    /\ AmountSchema(caveats.maxAmount)
    /\ "currency" \in DOMAIN caveats /\ caveats.currency \in Currency
    /\ States(action, "currency") /\ action.currency = caveats.currency
    /\ States(action, "amount") /\ AmountSchema(action.amount)
    /\ AmountAtMost(action.amount, caveats.maxAmount)

InCurrency(caveats, action) ==
    /\ caveats.currency \in Currency
    /\ States(action, "currency") /\ action.currency = caveats.currency

ToBeneficiary(caveats, action) ==
    /\ caveats.beneficiary # {} /\ "" \notin caveats.beneficiary
    /\ States(action, "beneficiary") /\ action.beneficiary \in caveats.beneficiary

IsTheAction(caveats, action) ==
    /\ caveats.actionId # ""
    /\ States(action, "actionId") /\ action.actionId = caveats.actionId

Approved(caveats, action) ==
    /\ caveats.approvalTier \in 0 .. MaxTier
    /\ States(action, "approvalTier") /\ action.approvalTier \in 0 .. MaxTier
    /\ action.approvalTier >= caveats.approvalTier

(* evaluateFinancialCaveats. *)
EvaluateFinancialCaveats(caveats, action) ==
    /\ DOMAIN caveats \subseteq ADMITTED_KEYS
    /\ "maxAmount" \in DOMAIN caveats => WithinCap(caveats, action)
    /\ "currency" \in DOMAIN caveats => InCurrency(caveats, action)
    /\ "beneficiary" \in DOMAIN caveats => ToBeneficiary(caveats, action)
    /\ "actionId" \in DOMAIN caveats => IsTheAction(caveats, action)
    /\ "approvalTier" \in DOMAIN caveats => Approved(caveats, action)
===============================================================================
