----------------------------- MODULE BankLedger -----------------------------
(***************************************************************************)
(* The share ledger of one bank (spec sections 3 and 4.2).  A bank keeps   *)
(* total asset and liability shares and two share values; an account's     *)
(* balance in the bank is a pair of share counts.  Token amounts are       *)
(* integers; share values are integers in units of 1/Q token per share, so *)
(* the value of s shares is s * value / Q tokens.  A share is a whole      *)
(* ShareUnit/Q of a token when its value is 1 (the I80F48 share counts of  *)
(* the code, at a resolution of ShareUnit/Q).  Amounts handed between      *)
(* the balance operations are in units of 1/Q token ("Q-units"), the model *)
(* of I80F48's fractional amounts; every division rounds in the direction  *)
(* the spec prescribes (liabilities up, assets down).                      *)
(***************************************************************************)
EXTENDS Integers

CONSTANTS
    Banks,          \* the banks of the group (model values)
    Q,              \* Q-units per token: a share value of Q is 1 token/share
    ShareUnit,      \* share value 1 (initial value), in units of 1/Q token
    YearUnits,      \* time units per year of the interest-rate curve
    OptimalUtil,    \* optimal utilization, percent
    PlateauRate,    \* interest rate at optimal utilization, percent per year
    MaxRate,        \* interest rate at 100% utilization, percent per year
    FeePct          \* percent of the interest accrued kept as group/insurance fees

ASSUME /\ Q \in Nat \ {0} /\ ShareUnit \in 1..Q /\ YearUnits \in Nat \ {0}
       /\ OptimalUtil \in 1..99 /\ PlateauRate <= MaxRate /\ FeePct \in 0..100

CeilDiv(n, d) == (n + d - 1) \div d

(* A freshly created bank: no shares, both share values 1.                *)
NewBank(now) ==
    [assetShares |-> 0, liabShares |-> 0, asv |-> ShareUnit, lsv |-> ShareUnit,
     fees |-> 0, lastUpdate |-> now]

EmptyBalance == [asset |-> 0, liab |-> 0]

(* Total asset and liability amounts of a bank, in Q-units.                *)
TotalAssetsQ(bk) == bk.assetShares * bk.asv
TotalLiabsQ(bk) == bk.liabShares * bk.lsv

(* Token value of a balance side: assets round down, liabilities up.       *)
AssetTokens(bk, s) == (s * bk.asv) \div Q
LiabTokens(bk, s) == CeilDiv(s * bk.lsv, Q)

(* utilization = total liabilities / total assets, 0 without assets.       *)
UtilizationPct(bk) ==
    IF TotalAssetsQ(bk) = 0 THEN 0
    ELSE (TotalLiabsQ(bk) * 100) \div TotalAssetsQ(bk)

(* The kinked curve: linear to PlateauRate at OptimalUtil, then a steeper  *)
(* slope to MaxRate at 100% utilization.                                   *)
InterestRate(util) ==
    IF util <= OptimalUtil THEN (util * PlateauRate) \div OptimalUtil
    ELSE PlateauRate
         + ((util - OptimalUtil) * (MaxRate - PlateauRate)) \div (100 - OptimalUtil)

(***************************************************************************)
(* accrue_interest(now): a no-op unless time has passed.  The liability    *)
(* share value grows by rate * elapsed / year (rounded up); FeePct of the  *)
(* resulting growth of total liabilities is kept as fees and the rest is   *)
(* spread over the asset shares (rounded down).                            *)
(***************************************************************************)
AccrueInterest(bk, now) ==
    IF now <= bk.lastUpdate THEN bk
    ELSE LET dl     == CeilDiv(bk.lsv * InterestRate(UtilizationPct(bk))
                                 * (now - bk.lastUpdate), 100 * YearUnits)
             growth == bk.liabShares * dl
             fee    == (growth * FeePct) \div 100
             da     == IF bk.assetShares = 0 THEN 0
                       ELSE (growth - fee) \div bk.assetShares
         IN [bk EXCEPT !.lsv = @ + dl, !.asv = @ + da, !.fees = @ + fee,
                       !.lastUpdate = now]

(***************************************************************************)
(* Balance changes, with the share offsetting of spec 4.5: an increase by  *)
(* xq Q-units first repays the liability and deposits only the remainder;  *)
(* a decrease first withdraws the assets and borrows only the remainder.   *)
(* Shares minted round down and shares burned round up, except the         *)
(* liability shares a repayment burns, which round down.  Each returns the *)
(* new bank and balance.                                                   *)
(***************************************************************************)
(* Variant: deposit minting rounded up, in the depositor's favour.         *)
IncreaseBalanceRoundUp(bk, bl, xq) ==
    LET repayQ  == IF xq < bl.liab * bk.lsv THEN xq ELSE bl.liab * bk.lsv
        burned  == repayQ \div bk.lsv
        minted  == CeilDiv(xq - repayQ, bk.asv)
    IN [bank |-> [bk EXCEPT !.liabShares = @ - burned, !.assetShares = @ + minted],
        bal  |-> [asset |-> bl.asset + minted, liab |-> bl.liab - burned]]

IncreaseBalance(bk, bl, xq) ==
    LET repayQ  == IF xq < bl.liab * bk.lsv THEN xq ELSE bl.liab * bk.lsv
        burned  == repayQ \div bk.lsv
        minted  == (xq - repayQ) \div bk.asv
    IN [bank |-> [bk EXCEPT !.liabShares = @ - burned, !.assetShares = @ + minted],
        bal  |-> [asset |-> bl.asset + minted, liab |-> bl.liab - burned]]

DecreaseBalance(bk, bl, xq) ==
    LET withdrawQ == IF xq < bl.asset * bk.asv THEN xq ELSE bl.asset * bk.asv
        burned    == CeilDiv(withdrawQ, bk.asv)
        minted    == CeilDiv(xq - withdrawQ, bk.lsv)
    IN [bank |-> [bk EXCEPT !.assetShares = @ - burned, !.liabShares = @ + minted],
        bal  |-> [asset |-> bl.asset - burned, liab |-> bl.liab + minted]]

=============================================================================
