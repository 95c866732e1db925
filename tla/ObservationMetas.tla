-------------------------- MODULE ObservationMetas --------------------------
(***************************************************************************)
(* load_observation_account_metas (observability/indexer/src/common.rs):   *)
(* the remaining accounts a marginfi instruction needs for the risk engine *)
(* to observe an account: for each bank, the bank followed by its oracle.  *)
(* The banks are the account's active balances in slot order, then the    *)
(* include list's banks not already there, less the exclude list's banks. *)
(* The operator is checked against a declarative reference while the      *)
(* inputs change: balances are activated and closed in the account's      *)
(* fixed slots, banks are fetched into banks_map, and the caller's include *)
(* and exclude lists grow.  An AccountMeta is abstracted to its pubkey     *)
(* (is_signer and is_writable are always false).                           *)
(***************************************************************************)
EXTENDS Integers, SequencesExt

CONSTANTS
    BankKeys,   \* bank pubkeys (model values)
    Oracles,    \* oracle pubkeys (model values)
    Slots,      \* balance slots of a marginfi account, 1..n
    MaxList     \* bound on the length of the include and exclude lists

VARIABLES
    balances,   \* [Slots -> [active : BOOLEAN, bankPk : BankKeys]]
    banksMap,   \* the banks the indexer has loaded: a function BankKeys -> Oracles
    include,    \* include_banks
    exclude     \* exclude_banks

vars == <<balances, banksMap, include, exclude>>

(***************************************************************************)
(* The three steps of the function, and the function.  banks_map.get(..)   *)
(* .unwrap() panics on a bank the indexer has not loaded; the result is    *)
(* then [panicked |-> TRUE].                                               *)
(***************************************************************************)
ActiveBankPks(bals) ==
    LET act == SelectSeq(bals, LAMBDA bl : bl.active)
    IN  [i \in 1..Len(act) |-> act[i].bankPk]

(* Variant: the include loop without its contains() check.                *)
AddIncludedNoDedup(pks, incl) == pks \o incl

(* Variant: the include list put in front of the account's banks.         *)
AddIncludedFront(pks, incl) ==
    FoldLeft(LAMBDA acc, pk : IF Contains(acc, pk) THEN acc ELSE <<pk>> \o acc, pks, incl)

AddIncluded(pks, incl) ==
    FoldLeft(LAMBDA acc, pk : IF Contains(acc, pk) THEN acc ELSE Append(acc, pk), pks, incl)

RetainNotExcluded(pks, excl) == SelectSeq(pks, LAMBDA pk : ~Contains(excl, pk))

LoadObservationAccountMetas(bals, map, incl, excl) ==
    LET pks == RetainNotExcluded(AddIncluded(ActiveBankPks(bals), incl), excl)
    IN  IF \E i \in 1..Len(pks) : pks[i] \notin DOMAIN map
        THEN [panicked |-> TRUE, metas |-> <<>>]
        ELSE [panicked |-> FALSE,
              metas |-> FlattenSeq([i \in 1..Len(pks) |-> <<pks[i], map[pks[i]]>>])]

(***************************************************************************)
(* The inputs change.  A balance is activated in an inactive slot for a    *)
(* bank the account has no active balance in (spec 3: slots are reused via *)
(* the active flag) and deactivated when closed; the indexer loads a bank; *)
(* the caller adds a bank to the include or the exclude list.              *)
(***************************************************************************)
ActivateBalance(i, pk) ==
    /\ ~balances[i].active
    /\ \A j \in Slots : balances[j].active => balances[j].bankPk # pk
    /\ balances' = [balances EXCEPT ![i] = [active |-> TRUE, bankPk |-> pk]]
    /\ UNCHANGED <<banksMap, include, exclude>>

CloseBalance(i) ==
    /\ balances[i].active
    /\ balances' = [balances EXCEPT ![i].active = FALSE]
    /\ UNCHANGED <<banksMap, include, exclude>>

LoadBank(pk, o) ==
    /\ pk \notin DOMAIN banksMap
    /\ banksMap' = banksMap @@ (pk :> o)
    /\ UNCHANGED <<balances, include, exclude>>

IncludeBank(pk) ==
    /\ Len(include) < MaxList
    /\ include' = Append(include, pk)
    /\ UNCHANGED <<balances, banksMap, exclude>>

ExcludeBank(pk) ==
    /\ Len(exclude) < MaxList
    /\ exclude' = Append(exclude, pk)
    /\ UNCHANGED <<balances, banksMap, include>>

Init ==
    /\ balances \in [Slots -> [active : {FALSE}, bankPk : BankKeys]]
    /\ banksMap = <<>>
    /\ include = <<>>
    /\ exclude = <<>>

Next ==
    \/ \E i \in Slots, pk \in BankKeys : ActivateBalance(i, pk)
    \/ \E i \in Slots : CloseBalance(i)
    \/ \E pk \in BankKeys, o \in Oracles : LoadBank(pk, o)
    \/ \E pk \in BankKeys : IncludeBank(pk) \/ ExcludeBank(pk)

Spec == Init /\ [][Next]_vars

(***************************************************************************)
(* Properties, against a reference built from sets and orders.             *)
(***************************************************************************)
Result == LoadObservationAccountMetas(balances, banksMap, include, exclude)
Metas == Result.metas
MetaBanks == [i \in 1..(Len(Metas) \div 2) |-> Metas[2 * i - 1]]

ActiveSet == {balances[i].bankPk : i \in {j \in Slots : balances[j].active}}
Observed == (ActiveSet \cup ToSet(include)) \ ToSet(exclude)
SlotOf(pk) == CHOOSE i \in Slots : balances[i].active /\ balances[i].bankPk = pk
FirstIncluded(pk) == CHOOSE i \in 1..Len(include) :
                        include[i] = pk /\ \A j \in 1..(i - 1) : include[j] # pk

(* The metas name every bank that is active or included and not excluded, *)
(* each once, each followed by its oracle; the function panics exactly     *)
(* when one of these banks is missing from banks_map.  Duplicates would    *)
(* make the risk engine read a bank twice.                                 *)
MetasExact ==
    /\ Result.panicked <=> ~(Observed \subseteq DOMAIN banksMap)
    /\ ~Result.panicked =>
        /\ Len(Metas) = 2 * Len(MetaBanks)
        /\ ToSet(MetaBanks) = Observed
        /\ IsInjective(MetaBanks)
        /\ \A i \in DOMAIN MetaBanks : Metas[2 * i] = banksMap[MetaBanks[i]]

(* The order of the metas: the account's active banks first, in slot      *)
(* order (the order of its balances), then the banks only included, in the *)
(* order they were first included; an exclusion never reorders the rest.  *)
MetasOrdered ==
    ~Result.panicked =>
        \A i, j \in DOMAIN MetaBanks :
            i < j =>
                LET p == MetaBanks[i]
                    q == MetaBanks[j]
                IN  /\ q \in ActiveSet => p \in ActiveSet /\ SlotOf(p) < SlotOf(q)
                    /\ p \notin ActiveSet => FirstIncluded(p) < FirstIncluded(q)

=============================================================================
