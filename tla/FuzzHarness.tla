---------------------------- MODULE FuzzHarness ----------------------------
(***************************************************************************)
(* The fuzz context of programs/marginfi/fuzz/src/lib.rs: a group with a   *)
(* few banks and accounts, every bank seeded by an extra account, and a    *)
(* driver that runs one instruction at a time against them.  Each          *)
(* process_* handler snapshots a fixed list of accounts (AccountInfoCache),*)
(* calls the instruction and, when it returns an error, restores exactly   *)
(* the snapshotted accounts; a successful liquidation is followed by a     *)
(* handle-bankruptcy of the liquidatee on the liability bank.  Instruction *)
(* semantics come from LendingActions.                                     *)
(***************************************************************************)
EXTENDS LendingActions, Sequences, FiniteSetsExt

CONSTANTS
    Seeder,         \* the extra account created to seed the banks
    SeedAmount,     \* tokens each bank is seeded with
    WalletAmount,   \* tokens in every user token account at creation
    InitPrice,      \* [Banks -> price] of the oracles at setup
    Prices,         \* the prices an oracle may take
    PriceChanges,   \* the changes process_update_oracle applies
    Amounts,        \* token amounts of the fuzzed actions
    TimeSteps,      \* the increments of advance_time
    MaxTime         \* bound on the clock

ASSUME Seeder \in Accounts

VARIABLES
    bank,       \* [Banks -> bank ledger]
    vault,      \* [Banks -> tokens in the liquidity vault]
    ins,        \* [Banks -> tokens in the insurance vault]
    wallet,     \* [Accounts -> [Banks -> tokens in the user's token account]]
    bal,        \* [Accounts -> [Banks -> balance]]
    price,      \* [Banks -> oracle price]
    now,        \* last_sysvar_current_timestamp
    outcome     \* what the metrics record of the last instruction:
                \* "ok", "failed", or "bankrupt" (a liquidation followed by a
                \* successful handle-bankruptcy)

world == <<bank, vault, ins, wallet, bal>>
vars == <<bank, vault, ins, wallet, bal, price, now, outcome>>

W == [bank |-> bank, vault |-> vault, ins |-> ins, wallet |-> wallet, bal |-> bal]

SetWorld(w) == /\ bank' = w.bank /\ vault' = w.vault /\ ins' = w.ins
               /\ wallet' = w.wallet /\ bal' = w.bal

(***************************************************************************)
(* AccountInfoCache: the entities a handler snapshots, and the restore.    *)
(***************************************************************************)
AcctE(a) == <<"account", a>>
BankE(b) == <<"bank", b>>
TokE(a, b) == <<"token", a, b>>
VaultE(b) == <<"vault", b>>
InsE(b) == <<"insurance", b>>

Revert(pre, part, cache) ==
    [bank   |-> [b \in Banks |-> IF BankE(b) \in cache THEN pre.bank[b] ELSE part.bank[b]],
     vault  |-> [b \in Banks |-> IF VaultE(b) \in cache THEN pre.vault[b] ELSE part.vault[b]],
     ins    |-> [b \in Banks |-> IF InsE(b) \in cache THEN pre.ins[b] ELSE part.ins[b]],
     wallet |-> [a \in Accounts |-> [b \in Banks |->
                    IF TokE(a, b) \in cache THEN pre.wallet[a][b] ELSE part.wallet[a][b]]],
     bal    |-> [a \in Accounts |->
                    IF AcctE(a) \in cache THEN pre.bal[a] ELSE part.bal[a]]]

(* The world after a handler: the instruction's, or the restored one.      *)
Settle(pre, res, cache) == IF res.ok THEN res.w ELSE Revert(pre, res.w, cache)

(* Variants: a cache list missing the marginfi account, or the user's token *)
(* account.                                                                *)
UserCacheNoAccount(a, b) == {BankE(b), TokE(a, b), VaultE(b)}
UserCacheNoToken(a, b) == {AcctE(a), BankE(b), VaultE(b)}

UserCache(a, b) == {AcctE(a), BankE(b), TokE(a, b), VaultE(b)}

(***************************************************************************)
(* setup: banks created at the current time, n_users accounts plus the     *)
(* seeding account, and every bank seeded (the deposit is unwrapped, so    *)
(* ASSUME that it succeeds).                                               *)
(***************************************************************************)
T0 == 0

(* create_marginfi_account: initialize_account leaves every balance empty, *)
(* and a token account per mint is funded (100_000_000_000_000_000 native  *)
(* units in the code, WalletAmount here).                                  *)
CreateMarginfiAccount ==
    [wallet |-> [b \in Banks |-> WalletAmount],
     bal    |-> [b \in Banks |-> EmptyBalance]]

SetupWorld ==
    [bank   |-> [b \in Banks |-> NewBank(T0)],
     vault  |-> [b \in Banks |-> 0],
     ins    |-> [b \in Banks |-> 0],
     wallet |-> [a \in Accounts |-> CreateMarginfiAccount.wallet],
     bal    |-> [a \in Accounts |-> CreateMarginfiAccount.bal]]

SeededWorld ==
    FoldSet(LAMBDA b, w : Deposit(w, Seeder, b, SeedAmount, T0).w, SetupWorld, Banks)

ASSUME \A b \in Banks : SeedAmount <= DepositLimit[b] /\ SeedAmount <= WalletAmount

Init ==
    /\ bank = SeededWorld.bank /\ vault = SeededWorld.vault /\ ins = SeededWorld.ins
    /\ wallet = SeededWorld.wallet /\ bal = SeededWorld.bal
    /\ price = InitPrice
    /\ now = T0
    /\ outcome = "ok"

(* metrics.update_metric(action, success), abstracted to the success flag. *)
Metric(ok) == IF ok THEN "ok" ELSE "failed"

(***************************************************************************)
(* The handlers.                                                           *)
(***************************************************************************)
(* Variant: the handler without its cache.revert() on error.              *)
ProcessActionDepositNoRevert(a, b, x) ==
    LET res == Deposit(W, a, b, x, now)
    IN  /\ SetWorld(res.w)
        /\ outcome' = Metric(res.ok)
        /\ UNCHANGED <<price, now>>

ProcessActionDeposit(a, b, x) ==
    LET res == Deposit(W, a, b, x, now)
    IN  /\ SetWorld(Settle(W, res, UserCache(a, b)))
        /\ outcome' = Metric(res.ok)
        /\ UNCHANGED <<price, now>>

ProcessActionRepay(a, b, x, all) ==
    LET res == Repay(W, a, b, x, all, now)
    IN  /\ SetWorld(Settle(W, res, UserCache(a, b)))
        /\ outcome' = Metric(res.ok)
        /\ UNCHANGED <<price, now>>

ProcessActionWithdraw(a, b, x, all) ==
    LET res == Withdraw(W, a, b, x, all, now, price)
    IN  /\ SetWorld(Settle(W, res, UserCache(a, b)))
        /\ outcome' = Metric(res.ok)
        /\ UNCHANGED <<price, now>>

ProcessActionBorrow(a, b, x) ==
    LET res == Borrow(W, a, b, x, now, price)
    IN  /\ SetWorld(Settle(W, res, UserCache(a, b)))
        /\ outcome' = Metric(res.ok)
        /\ UNCHANGED <<price, now>>

(* process_handle_bankruptcy on world w, as the liquidation handler runs it.*)
BankruptcyCache(a, b) == {BankE(b), AcctE(a), VaultE(b), InsE(b)}

ProcessHandleBankruptcy(w, a, b) ==
    LET res == HandleBankruptcy(w, a, b, now, price)
    IN  [w |-> Settle(w, res, BankruptcyCache(a, b)), ok |-> res.ok]

(* get_liquidation_banks: a bank where the liquidatee has assets and one   *)
(* where it has liabilities, if there are such.                            *)
LiquidationBanks(le) ==
    {<<ab, lb>> \in Banks \X Banks : bal[le][ab].asset > 0 /\ bal[le][lb].liab > 0}

(* Variant: the cache list without the liquidator's marginfi account.     *)
LiquidationCacheNoLiquidator(lr, le, ab, lb) ==
    {AcctE(le), BankE(ab), VaultE(ab), BankE(lb), VaultE(lb), InsE(lb)}

(* Variant: the cache list without the liability bank's insurance vault.  *)
LiquidationCacheNoInsurance(lr, le, ab, lb) ==
    {AcctE(lr), AcctE(le), BankE(ab), VaultE(ab), BankE(lb), VaultE(lb)}

LiquidationCache(lr, le, ab, lb) ==
    {AcctE(lr), AcctE(le), BankE(ab), VaultE(ab), BankE(lb), VaultE(lb), InsE(lb)}

(* The liquidation's result res: on success process_handle_bankruptcy     *)
(* runs on the new state, on failure the cache is restored.                *)
SettleLiquidation(res, le, lb, cache) ==
    LET br == ProcessHandleBankruptcy(res.w, le, lb)
    IN  IF res.ok
        THEN /\ SetWorld(br.w)
             /\ outcome' = IF br.ok THEN "bankrupt" ELSE "ok"
        ELSE /\ SetWorld(Revert(W, res.w, cache))
             /\ outcome' = Metric(FALSE)

ProcessLiquidateAccount(lr, le, x) ==
    \/ /\ LiquidationBanks(le) = {}
       /\ outcome' = Metric(FALSE)
       /\ UNCHANGED <<bank, vault, ins, wallet, bal, price, now>>
    \/ \E p \in LiquidationBanks(le) :
         LET ab == p[1]
             lb == p[2]
         IN  /\ SettleLiquidation(Liquidate(W, lr, le, ab, lb, x, now, price),
                                    le, lb, LiquidationCache(lr, le, ab, lb))
             /\ UNCHANGED <<price, now>>

ProcessUpdateOracle(b, d) ==
    /\ price[b] + d \in Prices
    /\ price' = [price EXCEPT ![b] = @ + d]
    /\ outcome' = Metric(TRUE)
    /\ UNCHANGED <<bank, vault, ins, wallet, bal, now>>

AdvanceTime(t) ==
    /\ now + t <= MaxTime
    /\ now' = now + t
    /\ UNCHANGED <<bank, vault, ins, wallet, bal, price, outcome>>

Next ==
    \/ \E a \in Accounts, b \in Banks, x \in Amounts :
         \/ ProcessActionDeposit(a, b, x)
         \/ ProcessActionBorrow(a, b, x)
         \/ \E all \in BOOLEAN : ProcessActionRepay(a, b, x, all)
         \/ \E all \in BOOLEAN : ProcessActionWithdraw(a, b, x, all)
    \/ \E lr, le \in Accounts, x \in Amounts : ProcessLiquidateAccount(lr, le, x)
    \/ \E b \in Banks, d \in PriceChanges : ProcessUpdateOracle(b, d)
    \/ \E t \in TimeSteps : AdvanceTime(t)

Spec == Init /\ [][Next]_vars

(***************************************************************************)
(* Properties                                                              *)
(***************************************************************************)
Balances == [asset : Nat, liab : Nat]
BankRecs == [assetShares : Nat, liabShares : Nat, asv : Int, lsv : Nat,
             fees : Nat, lastUpdate : Nat]

TypeOK ==
    /\ bank \in [Banks -> BankRecs]
    /\ vault \in [Banks -> Nat] /\ ins \in [Banks -> Nat]
    /\ wallet \in [Accounts -> [Banks -> Nat]]
    /\ bal \in [Accounts -> [Banks -> Balances]]
    /\ price \in [Banks -> Prices]
    /\ now \in 0..MaxTime
    /\ outcome \in {"ok", "failed", "bankrupt"}

(* Solvency of every bank (spec 8), in Q-units: the tokens in its          *)
(* liquidity vault plus what borrowers owe it cover what its depositors    *)
(* are owed plus the fees it has accrued.  It rests on every conversion of *)
(* deposit, withdraw, borrow, repay, liquidation and bankruptcy rounding   *)
(* in the bank's favour and on interest never crediting lenders more than  *)
(* borrowers are charged.                                                  *)
BankSolvent ==
    \A b \in Banks :
        vault[b] * Q + TotalLiabsQ(bank[b]) >= TotalAssetsQ(bank[b]) + bank[b].fees

(* The bank's share totals are the sums of the accounts' shares in it: the *)
(* handlers' account caches restore a bank and its balances together, so  *)
(* a failed instruction never leaves one changed without the other.        *)
SharesAccounted ==
    \A b \in Banks :
        /\ bank[b].assetShares = SumFunction([a \in Accounts |-> bal[a][b].asset])
        /\ bank[b].liabShares = SumFunction([a \in Accounts |-> bal[a][b].liab])

(* No token of a mint is created or destroyed: user token accounts, the    *)
(* liquidity vault and the insurance vault always hold what the token      *)
(* accounts were created with, whichever instructions failed midway.       *)
TokensConserved ==
    \A b \in Banks :
        SumFunction([a \in Accounts |-> wallet[a][b]]) + vault[b] + ins[b]
            = WalletAmount * Cardinality(Accounts)

(* An instruction that returns an error leaves every entity as it was      *)
(* (spec 8: byte-identical), after the harness's AccountInfoCache revert.  *)
FailedInstructionLeavesNoTrace ==
    [][ outcome' = "failed" => UNCHANGED world ]_vars

(* A bank with debt has deposits backing it (spec 3): no sequence of      *)
(* withdrawals, liquidations and bankruptcies removes the last asset share *)
(* of a bank while liability shares remain.                                *)
DebtBacked ==
    \A b \in Banks : bank[b].liabShares > 0 => bank[b].assetShares > 0

(* The asset share value converts shares into a positive token amount      *)
(* (spec 3): the loss a bankruptcy socializes never exceeds what the       *)
(* bank's depositors hold.                                                 *)
AssetShareValuePositive == \A b \in Banks : bank[b].asv > 0

(* Liquidation severity (spec 4.4): a liquidation that succeeds leaves the *)
(* liquidatee at Maintenance health >= 0.  The liquidate instruction's     *)
(* post-checks only require the health to rise and stay <= 0.              *)
LiquidationRestoresHealth ==
    [][ \A lr, le \in Accounts, x \in Amounts :
          ProcessLiquidateAccount(lr, le, x) /\ outcome' # "failed"
             => Health(bank', bal'[le], price, "Maintenance") >= 0 ]_vars

=============================================================================
