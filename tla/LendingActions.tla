--------------------------- MODULE LendingActions ---------------------------
(***************************************************************************)
(* The action processor of spec 4.5: one operator per instruction          *)
(* (deposit, withdraw, borrow, repay, liquidate, handle-bankruptcy).       *)
(* Each takes the world w of the entities an instruction may touch         *)
(*     [bank, vault, ins, wallet, bal]                                     *)
(* (bank ledgers, liquidity and insurance vault tokens, user token         *)
(* accounts, account balances) and returns [ok, err, w].  On failure w is  *)
(* the world as the instruction left it when it returned its error: the    *)
(* interest it accrued, and in liquidation the balance changes made before *)
(* the post-checks, stay in it.  Undoing them is the caller's business     *)
(* (the harness's account cache).                                          *)
(***************************************************************************)
EXTENDS RiskEngine

CONSTANTS
    Accounts,           \* marginfi accounts (model values)
    DepositLimit,       \* [Banks -> tokens]
    BorrowLimit,        \* [Banks -> tokens]
    LiquidatorFeePct,   \* liquidator's discount on the seized collateral
    InsuranceFeePct     \* further share of it routed to the insurance vault

Ok(w) == [ok |-> TRUE, err |-> "None", w |-> w]
Fail(e, w) == [ok |-> FALSE, err |-> e, w |-> w]

Accrue(w, b, now) == [w EXCEPT !.bank[b] = AccrueInterest(@, now)]

(* Store the result r of a balance operation for account a in bank b.      *)
Apply(w, a, b, r) == [w EXCEPT !.bank[b] = r.bank, !.bal[a][b] = r.bal]

(* Token movements between a user token account and a liquidity vault.    *)
ToVault(w, a, b, x) == [w EXCEPT !.wallet[a][b] = @ - x, !.vault[b] = @ + x]
FromVault(w, a, b, x) == [w EXCEPT !.wallet[a][b] = @ + x, !.vault[b] = @ - x]

(* IncreaseBalance or DecreaseBalance of a's balance in b by xq, applied.  *)
Credit(w, a, b, xq) == Apply(w, a, b, IncreaseBalance(w.bank[b], w.bal[a][b], xq))
Debit(w, a, b, xq) == Apply(w, a, b, DecreaseBalance(w.bank[b], w.bal[a][b], xq))

(* Deposit: no risk check; fails past the deposit limit or when the token  *)
(* transfer cannot be made.                                                *)
Deposit(w, a, b, x, now) ==
    LET w1 == Accrue(w, b, now)
        bk == w1.bank[b]
    IN  CASE TotalAssetsQ(bk) + x * Q > DepositLimit[b] * Q
               -> Fail("BankAssetCapacityExceeded", w1)
          [] x > w1.wallet[a][b] -> Fail("TokenTransferFailed", w1)
          [] OTHER -> Ok(ToVault(Apply(w1, a, b,
                                   IncreaseBalance(bk, w1.bal[a][b], x * Q)), a, b, x))

(* Variant: withdraw without the OperationWithdrawOnly check.             *)
WithdrawUnchecked(w, a, b, x, all, now, price) ==
    LET w1  == Accrue(w, b, now)
        bk  == w1.bank[b]
        bl  == w1.bal[a][b]
        amt == IF all THEN AssetTokens(bk, bl.asset) ELSE x
        burn == IF all THEN bl.asset ELSE CeilDiv(x * Q, bk.asv)
        w2  == FromVault([w1 EXCEPT !.bank[b].assetShares = @ - burn,
                                    !.bal[a][b].asset = @ - burn], a, b, amt)
    IN  CASE bl.liab > 0 -> Fail("IllegalBalanceState", w1)
          [] all /\ bl.asset = 0 -> Fail("NoAssetFound", w1)
          [] amt > w1.vault[b] -> Fail("TokenTransferFailed", w1)
          [] ~InitHealthOk(w2.bank, w2.bal[a], price)
               -> Fail("RiskEngineInitRejected", w2)
          [] OTHER -> Ok(w2)

(* Withdraw x tokens, or the whole asset side when all; then the Initial   *)
(* check on the account.                                                   *)
Withdraw(w, a, b, x, all, now, price) ==
    LET w1  == Accrue(w, b, now)
        bk  == w1.bank[b]
        bl  == w1.bal[a][b]
        amt == IF all THEN AssetTokens(bk, bl.asset) ELSE x
        burn == IF all THEN bl.asset ELSE CeilDiv(x * Q, bk.asv)
        w2  == FromVault([w1 EXCEPT !.bank[b].assetShares = @ - burn,
                                    !.bal[a][b].asset = @ - burn], a, b, amt)
    IN  CASE bl.liab > 0 -> Fail("IllegalBalanceState", w1)
          [] all /\ bl.asset = 0 -> Fail("NoAssetFound", w1)
          [] burn > bl.asset -> Fail("OperationWithdrawOnly", w1)
          [] amt > w1.vault[b] -> Fail("TokenTransferFailed", w1)
          [] ~InitHealthOk(w2.bank, w2.bal[a], price)
               -> Fail("RiskEngineInitRejected", w2)
          [] OTHER -> Ok(w2)

(* Borrow x tokens (offsetting any deposit first); then the Initial check, *)
(* which also enforces the isolated-tier rule.                             *)
Borrow(w, a, b, x, now, price) ==
    LET w1 == Accrue(w, b, now)
        r  == DecreaseBalance(w1.bank[b], w1.bal[a][b], x * Q)
        w2 == FromVault(Apply(w1, a, b, r), a, b, x)
    IN  CASE TotalLiabsQ(r.bank) > BorrowLimit[b] * Q
               -> Fail("BankLiabilityCapacityExceeded", w1)
          [] x > w1.vault[b] -> Fail("TokenTransferFailed", w1)
          [] ~RiskTiersOk(w2.bal[a]) -> Fail("IsolatedAccountIllegalState", w2)
          [] ~InitHealthOk(w2.bank, w2.bal[a], price)
               -> Fail("RiskEngineInitRejected", w2)
          [] OTHER -> Ok(w2)

(* Repay x tokens capped at what is owed, or all of the liability.         *)
Repay(w, a, b, x, all, now) ==
    LET w1  == Accrue(w, b, now)
        bk  == w1.bank[b]
        bl  == w1.bal[a][b]
        owed == LiabTokens(bk, bl.liab)
        amt == IF all \/ x > owed THEN owed ELSE x
        r   == IF all
               THEN [bank |-> [bk EXCEPT !.liabShares = @ - bl.liab],
                     bal  |-> [bl EXCEPT !.liab = 0]]
               ELSE IncreaseBalance(bk, bl, amt * Q)
    IN  CASE bl.liab = 0 -> Fail("NoLiabilityFound", w1)
          [] amt > w1.wallet[a][b] -> Fail("TokenTransferFailed", w1)
          [] OTHER -> Ok(ToVault(Apply(w1, a, b, r), a, b, amt))

(***************************************************************************)
(* Liquidate: liquidator lr takes x tokens of liquidatee le's collateral   *)
(* in asset bank ab and pays for it in liability bank lb at a discount of  *)
(* LiquidatorFeePct; le's liability is repaid by that value less a further *)
(* InsuranceFeePct, and the difference moves from lb's liquidity vault to  *)
(* its insurance vault (truncated to whole tokens).  Legal only while le's *)
(* Maintenance health is negative; afterwards le must still owe lb with no *)
(* assets there, be no healthier than 0 and healthier than before, and lr  *)
(* must pass the Initial check.  (The liquidation tests of the repository  *)
(* fix these rules: a partial liquidation that leaves le below 0 succeeds.)*)
(***************************************************************************)
Liquidate(w, lr, le, ab, lb, x, now, price) ==
    LET w1   == Accrue(Accrue(w, ab, now), lb, now)
        pre  == Health(w1.bank, w1.bal[le], price, "Maintenance")
        valQ == x * Q * price[ab]
        payQ == (valQ * (100 - LiquidatorFeePct)) \div (100 * price[lb])
        repQ == (valQ * (100 - LiquidatorFeePct - InsuranceFeePct)) \div (100 * price[lb])
        fee  == (payQ - repQ) \div Q
        seize == CeilDiv(x * Q, w1.bank[ab].asv)
        w2   == [w1 EXCEPT !.bank[ab].assetShares = @ - seize,
                           !.bal[le][ab].asset = @ - seize]
        w3   == Credit(w2, lr, ab, x * Q)
        w4   == Debit(w3, lr, lb, payQ)
        w5   == Credit(w4, le, lb, repQ)
        w6   == [w5 EXCEPT !.vault[lb] = @ - fee, !.ins[lb] = @ + fee]
        post == Health(w6.bank, w6.bal[le], price, "Maintenance")
    IN  CASE lr = le \/ ab = lb -> Fail("IllegalLiquidation", w1)
          [] pre >= 0 -> Fail("IllegalLiquidation", w1)
          [] seize > w1.bal[le][ab].asset -> Fail("OperationWithdrawOnly", w1)
          [] fee > w5.vault[lb] -> Fail("TokenTransferFailed", w5)
          [] w6.bal[le][lb].liab = 0 \/ w6.bal[le][lb].asset > 0
               -> Fail("IllegalLiquidation", w6)
          [] post > 0 \/ post <= pre -> Fail("IllegalLiquidation", w6)
          [] ~InitHealthOk(w6.bank, w6.bal[lr], price)
               -> Fail("RiskEngineInitRejected", w6)
          [] OTHER -> Ok(w6)

(***************************************************************************)
(* HandleBankruptcy(a, b): when a has no collateral left but still owes b, *)
(* its debt there is written off: the insurance vault covers what it can   *)
(* (whole tokens, rounded up), the rest is socialized by lowering b's      *)
(* asset share value (rounded down), and a's liability shares are removed. *)
(***************************************************************************)
HandleBankruptcy(w, a, b, now, price) ==
    LET w1      == Accrue(w, b, now)
        bk      == w1.bank[b]
        bl      == w1.bal[a][b]
        debtQ   == bl.liab * bk.lsv
        covered == IF CeilDiv(debtQ, Q) < w1.ins[b] THEN CeilDiv(debtQ, Q) ELSE w1.ins[b]
        lossQ   == IF debtQ > covered * Q THEN debtQ - covered * Q ELSE 0
        w2 == [w1 EXCEPT
                 !.bank[b] = [bk EXCEPT
                     !.asv = (bk.assetShares * bk.asv - lossQ) \div bk.assetShares,
                     !.liabShares = @ - bl.liab],
                 !.bal[a][b].liab = 0,
                 !.ins[b] = @ - covered,
                 !.vault[b] = @ + covered]
    IN  CASE AssetValue(w1.bank, w1.bal[a], price, "Equity") > 0
               -> Fail("AccountNotBankrupt", w1)
          [] bl.liab = 0 -> Fail("BalanceNotBadDebt", w1)
          [] bk.assetShares = 0 -> Fail("MathError", w1)
          [] OTHER -> Ok(w2)

=============================================================================
