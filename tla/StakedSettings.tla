--------------------------- MODULE StakedSettings ---------------------------
(***************************************************************************)
(* Each group's staked-collateral settings and the banks they configure    *)
(* (programs/marginfi/src/instructions/marginfi_group):                    *)
(*   - lending_pool_add_bank_permissionless: anyone adds an                *)
(*     ASSET_TAG_STAKED bank whose config is built from the settings, once *)
(*     the stake pool accounts check out;                                  *)
(*   - propagate_staked_settings: anyone copies the current settings into  *)
(*     a bank of the group;                                                *)
(*   - the admin edits the settings and adds general-purpose banks (code  *)
(*     not in this repository; modelled from the spec).                    *)
(* Both permissionless instructions take the group, its StakedSettings and *)
(* the bank as accounts of the caller's choosing; Anchor's `has_one =      *)
(* marginfi_group` and the bank's `group == marginfi_group.key()` are what *)
(* tie them together.                                                      *)
(* A Solana instruction that returns an error changes nothing, so every    *)
(* failing path is a step that leaves the state as it was.  Weights are    *)
(* percent; the interest-rate config and vault keys are not modelled.      *)
(***************************************************************************)
EXTENDS Integers, TLC

CONSTANTS
    Groups,         \* marginfi groups (model values)
    Banks,          \* bank addresses (model values)
    Oracles,        \* oracle keys (model values)
    Weights,        \* asset weights, percent, a settings edit may set
    LiabWeights,    \* liability weights, percent, an admin config may set
    Limits,         \* deposit limits
    NoBank          \* an address not yet initialized

Tags == {"Default", "Staked"}
Tiers == {"Collateral", "Isolated"}

Settings == [oracle : Oracles, awInit : Weights, awMaint : Weights,
             depositLimit : Limits, riskTier : Tiers]

Configs == [tag : Tags, oracle : Oracles, awInit : Weights, awMaint : Weights,
            lwInit : LiabWeights, lwMaint : LiabWeights,
            depositLimit : Limits, borrowLimit : Limits \cup {0}, riskTier : Tiers]

VARIABLES
    settings,   \* [Groups -> the group's StakedSettings account]
    bank        \* [Banks -> bank config with its group, or NoBank]

vars == <<settings, bank>>

(***************************************************************************)
(* BankConfig::validate (spec 6: internal consistency only): asset weights *)
(* in [0, 1] with init <= maint, liability weights >= 1 with maint <= init.*)
(***************************************************************************)
Validate(c) ==
    /\ 0 <= c.awInit /\ c.awInit <= c.awMaint /\ c.awMaint <= 100
    /\ 100 <= c.lwMaint /\ c.lwMaint <= c.lwInit

(* The config lending_pool_add_bank_permissionless builds from settings:   *)
(* placeholder liability weights 1.5 / 1.25, no borrowing, staked tag.     *)
PermissionlessConfig(s) ==
    [tag |-> "Staked", oracle |-> s.oracle, awInit |-> s.awInit,
     awMaint |-> s.awMaint, lwInit |-> 150, lwMaint |-> 125,
     depositLimit |-> s.depositLimit, borrowLimit |-> 0, riskTier |-> s.riskTier]

(* The fields propagate_staked_settings overwrites.                       *)
Propagated(c, s) ==
    [c EXCEPT !.oracle = s.oracle, !.awInit = s.awInit, !.awMaint = s.awMaint,
              !.depositLimit = s.depositLimit, !.riskTier = s.riskTier]

(* Bank::new(marginfi_group.key(), config, ...): the bank's group field.   *)
InGroup(c, g) == ("group" :> g) @@ c

Init ==
    /\ settings \in [Groups -> {s \in Settings : Validate(PermissionlessConfig(s))}]
    /\ bank = [b \in Banks |-> NoBank]

(***************************************************************************)
(* The accounts Anchor checks before either permissionless handler runs,  *)
(* for group g, the StakedSettings of group h and bank b.                 *)
(***************************************************************************)
(* Variant: LendingPoolAddBankPermissionless without has_one.             *)
AddBankPermissionlessAccountsNoHasOne(g, h, b) == bank[b] = NoBank

(* LendingPoolAddBankPermissionless: staked_settings has_one =            *)
(* marginfi_group (h = g), and `init` of the bank at its PDA; the three    *)
(* vaults are `init` at PDAs of the bank, so they are free when it is.     *)
AddBankPermissionlessAccounts(g, h, b) == h = g /\ bank[b] = NoBank

(* Variant: PropagateStakedSettings without the bank's group constraint.  *)
PropagateStakedSettingsAccountsAnyGroup(g, h, b) == h = g /\ bank[b] # NoBank

(* PropagateStakedSettings: has_one = marginfi_group (h = g), and the bank *)
(* loads (it is initialized) with bank.group == marginfi_group.           *)
PropagateStakedSettingsAccounts(g, h, b) ==
    h = g /\ bank[b] # NoBank /\ bank[b].group = g

(***************************************************************************)
(* lending_pool_add_bank_permissionless(g, h, b): the bank is created with *)
(* group g and the config built from the settings; then the four stake-    *)
(* pool checks (poolOk: the mint and sol pool derive from the stake pool,  *)
(* both owned by the right programs), validate and validate_oracle_setup   *)
(* (oracleOk); any failure aborts the instruction.                         *)
(***************************************************************************)
AddBankPermissionless(g, h, b, poolOk, oracleOk) ==
    /\ IF /\ AddBankPermissionlessAccounts(g, h, b)
          /\ poolOk /\ oracleOk /\ Validate(PermissionlessConfig(settings[h]))
       THEN bank' = [bank EXCEPT ![b] = InGroup(PermissionlessConfig(settings[h]), g)]
       ELSE UNCHANGED bank
    /\ UNCHANGED settings

(***************************************************************************)
(* propagate_staked_settings(g, h, b): the bank gets the settings' oracle  *)
(* key, asset weights, deposit limit and risk tier, kept only if the       *)
(* resulting config validates.                                             *)
(***************************************************************************)
PropagateStakedSettings(g, h, b) ==
    /\ IF /\ PropagateStakedSettingsAccounts(g, h, b)
          /\ Validate(Propagated(bank[b], settings[h]))
       THEN bank' = [bank EXCEPT ![b] = Propagated(@, settings[h])]
       ELSE UNCHANGED bank
    /\ UNCHANGED settings

(* The admin of g edits g's staked settings: any values (spec 6: settings *)
(* are configuration consumed, not checked, when they are written).        *)
EditStakedSettings(g, s) ==
    /\ settings' = [settings EXCEPT ![g] = s]
    /\ UNCHANGED bank

(* The admin's lending_pool_add_bank in g: a general-purpose bank with any *)
(* config that validates.                                                  *)
AddBank(g, b, c) ==
    /\ bank[b] = NoBank
    /\ c.tag = "Default"
    /\ Validate(c)
    /\ bank' = [bank EXCEPT ![b] = InGroup(c, g)]
    /\ UNCHANGED settings

Next ==
    \/ \E g, h \in Groups, b \in Banks, poolOk, oracleOk \in BOOLEAN :
         AddBankPermissionless(g, h, b, poolOk, oracleOk)
    \/ \E g, h \in Groups, b \in Banks : PropagateStakedSettings(g, h, b)
    \/ \E g \in Groups, s \in Settings : EditStakedSettings(g, s)
    \/ \E g \in Groups, b \in Banks, c \in Configs : AddBank(g, b, c)

Spec == Init /\ [][Next]_vars

(***************************************************************************)
(* Properties                                                              *)
(***************************************************************************)
(* A step of one of the two permissionless instructions.                 *)
PermissionlessStep ==
    \E g, h \in Groups, b \in Banks :
        \/ \E poolOk, oracleOk \in BOOLEAN : AddBankPermissionless(g, h, b, poolOk, oracleOk)
        \/ PropagateStakedSettings(g, h, b)

(* The permissionless instructions change only staked-collateral banks: a  *)
(* general-purpose bank's oracle, weights, deposit limit and risk tier are *)
(* the admin's.  propagate_staked_settings takes any bank of the group     *)
(* (its header: "to any bank in that group"), with no asset-tag check.     *)
PermissionlessLeavesDefaultBanks ==
    [][ PermissionlessStep =>
          \A b \in Banks : bank[b] # NoBank /\ bank[b].tag = "Default"
                             => bank'[b] = bank[b] ]_vars


(* The staked fields of a config, as a Settings record.                   *)
StakedFields(c) ==
    [oracle |-> c.oracle, awInit |-> c.awInit, awMaint |-> c.awMaint,
     depositLimit |-> c.depositLimit, riskTier |-> c.riskTier]

(* Groups are isolated: a permissionless step never moves a bank to another *)
(* group, and a bank it creates or changes carries exactly the staked     *)
(* settings of its own group, whatever group and settings accounts the    *)
(* caller passed.  Breaking it takes two groups whose admins chose         *)
(* different settings, then a call that mixes their accounts.             *)
SettingsFromOwnGroup ==
    [][ PermissionlessStep =>
          \A b \in Banks :
             /\ bank[b] # NoBank => bank'[b].group = bank[b].group
             /\ bank'[b] # bank[b] => StakedFields(bank'[b]) = settings[bank'[b].group] ]_vars

=============================================================================
