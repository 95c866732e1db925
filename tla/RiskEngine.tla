----------------------------- MODULE RiskEngine -----------------------------
(***************************************************************************)
(* The risk engine of spec 4.4: the weighted value of an account's         *)
(* balances under the Initial or the Maintenance requirement, and the      *)
(* risk-tier rule that an isolated liability stands alone.  Values are in  *)
(* units of 1/(Q*100) of a price unit: shares * share value * price *      *)
(* weight percent, exact, as the I80F48 products are.  Oracle confidence   *)
(* is not modelled: the low and the high price are both the price.         *)
(***************************************************************************)
EXTENDS BankLedger, FiniteSets, Functions

CONSTANTS
    Isolated,           \* the banks of risk tier Isolated
    AssetWeightInit,    \* [Banks -> percent]
    AssetWeightMaint,
    LiabWeightInit,
    LiabWeightMaint

ASSUME Isolated \subseteq Banks

Requirements == {"Initial", "Maintenance", "Equity"}

AssetWeight(b, req) ==
    CASE req = "Initial"     -> AssetWeightInit[b]
      [] req = "Maintenance" -> AssetWeightMaint[b]
      [] req = "Equity"      -> 100

LiabWeight(b, req) ==
    CASE req = "Initial"     -> LiabWeightInit[b]
      [] req = "Maintenance" -> LiabWeightMaint[b]
      [] req = "Equity"      -> 100

(* Weighted asset and liability values of one account's balances.          *)
AssetValue(bank, balA, price, req) ==
    SumFunction([b \in Banks |->
        balA[b].asset * bank[b].asv * price[b] * AssetWeight(b, req)])

LiabValue(bank, balA, price, req) ==
    SumFunction([b \in Banks |->
        balA[b].liab * bank[b].lsv * price[b] * LiabWeight(b, req)])

Health(bank, balA, price, req) ==
    AssetValue(bank, balA, price, req) - LiabValue(bank, balA, price, req)

(* At most one liability when any liability is in an isolated bank.        *)
RiskTiersOk(balA) ==
    LET liabBanks == {b \in Banks : balA[b].liab > 0}
    IN  liabBanks \cap Isolated # {} => Cardinality(liabBanks) = 1

(* The Initial check that gates borrow, withdraw and the liquidator.       *)
InitHealthOk(bank, balA, price) ==
    /\ RiskTiersOk(balA)
    /\ Health(bank, balA, price, "Initial") >= 0

=============================================================================
