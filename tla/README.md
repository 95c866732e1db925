# TLA+ models of marginfi-v2 (fuzz harness, staked settings, indexer)

This directory holds TLA+ models of the code under `src/` and the TLC
configurations that check them. Each module is translated from the
source, except where that code is not in this repository (the marginfi
lending program itself). Those parts are modelled from `spec.md` and
marked `spec_modelled` in `PROJECT.json`.

## The system and its parts

| Part | Source | What it does |
|---|---|---|
| Fuzz harness | `programs/marginfi/fuzz/src/lib.rs` | Sets up a group with banks and accounts and seeds every bank. Runs one instruction at a time. Each `process_*` handler snapshots a fixed list of accounts (`AccountInfoCache`), calls the instruction and restores the snapshot on error. A successful liquidation is followed by `process_handle_bankruptcy`. |
| Lending core (not in repo) | called from `lib.rs` | Deposit, withdraw, borrow, repay, liquidate and handle-bankruptcy over a share ledger with interest accrual and a risk engine (spec 3, 4.2, 4.4, 4.5). |
| Staked settings | `marginfi_group/add_pool_permissionless.rs`, `propagate_staked_settings.rs` | Permissionless creation of staked-collateral banks from a group's settings, and propagation of those settings into a bank of the group. The caller passes the group, the settings and the bank as accounts. |
| Indexer helpers | `observability/indexer/src/common.rs` | `load_observation_account_metas` (risk-engine remaining accounts), `get_multiple_accounts_chunked` (concurrent chunked RPC with retries), `pyth_price_to_fixed`. |
| Event indexer entry point | `observability/crates/event_indexer/bin/index_events.rs` | `main`: loads `.env`, installs a panic hook that exits with code 1, reads the config, initializes the indexer and the snapshot, then spawns `indexer.run()` and awaits it. |
| Not modelled | `kamino_wrap`, the diesel schema, tests | See below. |

The harness is the only part that drives the core. The staked settings and
the indexer helpers interact with the core only through bank configs and
accounts, so they are separate modules.

## Modules

- `BankLedger.tla`: one bank's share ledger (spec 3, 4.2). A bank record
  has share totals, asset and liability share values (integers in units of
  1/Q token, initially `ShareUnit`), fees and the last update time.
  - `AccrueInterest` applies the kinked rate curve and the fee split.
  - `IncreaseBalance` and `DecreaseBalance` do share offsetting. Minting
    rounds down and burning rounds up; a repayment's liability burn rounds
    down.
- `RiskEngine.tla`: weighted asset and liability values under the
  Initial, Maintenance and Equity requirements, health, the isolated-tier
  rule and the Initial check (spec 4.4). Oracle confidence is not
  modelled: the low and high prices are both the price.
- `LendingActions.tla`: the six instructions as operators over a world
  record `[bank, vault, ins, wallet, bal]`.
  - Each operator returns `[ok, err, w]`.
  - On failure, `w` is the world as the instruction left it when it
    returned. Interest accrued before the error stays in it, and so do, for
    liquidation, the writes made before its post-checks.
  - Guards follow the code's order of checks.
- `FuzzHarness.tla`: the harness.
  - `VARIABLES`: the world plus `price`, `now` and `outcome`, the metric
    record abstracted to ok / failed / bankrupt.
  - `Init` is `setup`: banks created, accounts created with `WalletAmount`
    tokens, every bank seeded by the extra account.
  - One action per handler. `Revert` restores exactly the entities in a
    handler's cache list, and `Settle` applies it when the instruction
    failed. `ProcessLiquidateAccount` runs `ProcessHandleBankruptcy`, with
    its own cache, after a successful liquidation.
- `StakedSettings.tla`: permissionless bank creation and settings
  propagation, over several groups.
  - `settings` maps each group to its `StakedSettings` account. Each bank
    config carries the group `Bank::new` was given.
  - `AddBankPermissionless(g, h, b, ...)` and `PropagateStakedSettings(g,
    h, b)` take the group `g`, the settings of group `h` and the bank `b`,
    as a caller may pass them.
  - The Anchor account checks of each instruction are separate operators,
    `AddBankPermissionlessAccounts` and `PropagateStakedSettingsAccounts`,
    translated from the `#[derive(Accounts)]` structs. `has_one =
    marginfi_group` is `h = g`, and `init` of the bank requires a free
    address. Propagation also requires an initialized bank with
    `bank.group == marginfi_group`. The three vaults are `init` at PDAs of
    the new bank, so they are free whenever the bank is.
  - The admin's settings edit and bank creation are environment actions,
    one group at a time.
  - A failing Solana instruction changes nothing.
- `IndexEvents.tla`: the event indexer's `main`.
  - `pc` is main's position. `task` is the spawned `indexer.run()`, which
    runs concurrently with main once spawned. `exitCode` is the process's
    exit code, and `failures` records the panics and errors that happened.
  - The environment and the `.env` file are inputs. `dotenv` fills in only
    the unset variables, and `Parses` is envconfig's parse of each field.
  - `Panic` is the hook: the original hook, then `process::exit(1)` on the
    panicking thread. The indexer and snapshot code is not in this
    repository, so their calls return, fail or panic nondeterministically.
- `ObservationMetas.tla`: `load_observation_account_metas` as operators
  (`ActiveBankPks`, `AddIncluded`, `RetainNotExcluded`). It is checked
  against a reference written with sets and orders, while the inputs change
  step by step.
- `ChunkedFetch.tla`: `get_multiple_accounts_chunked`.
  - `Chunks` is a RECURSIVE `keys.chunks(n)`.
  - Each chunk's future either gets an answer, which reads the chain as it
    is at that moment, or fails and retries within a budget of `MaxTries`
    calls, standing for the 5 s backoff.
  - `JoinAll` merges the answers or returns the first error.
  - Accounts are created and closed between calls.
  - It is checked to refine `AccountsFetch.tla`, the abstract
    specification of what the function promises. There the keys are read
    in any number of reads, each read seeing some keys at one moment. A
    read may fail, and the call returns once every key was read or a read
    failed. The refinement mapping (`Abstract == INSTANCE AccountsFetch
    WITH ...`) takes the keys read to be the keys of the answered chunks,
    the keys found to be the union of their found sets, and the failed
    read to be a chunk whose retries ran out. Failed tries that are
    retried are stuttering steps.
- `MC_*.tla` and `*.cfg`: instantiations for TLC.

## Runs

| Run | cfg | Expect | Shows |
|---|---|---|---|
| harness_safety | `MC_FuzzHarness.cfg` | pass | Solvency of every bank; share totals equal the sum of balances; tokens conserved; a failed instruction leaves the world unchanged after the revert. |
| insurance_first | `MC_Insurance.cfg` | pass | Tokens are conserved even when a failed liquidation had moved a fee into the insurance vault. |
| harness_two_users | `MC_TwoUsers.cfg` | pass | With two users beside the seeder, one user liquidating the other and losses socialized onto third depositors keep banks solvent, and shares and tokens accounted. |
| debt_backed | `MC_DebtBacked.cfg` | violation | The spec 3 invariant "liability shares imply asset shares" is broken by legal steps (finding). |
| asv_positive | `MC_AsvPositive.cfg` | violation | A socialized loss can exceed what the depositors hold (finding). |
| liquidation_severity | `MC_Severity.cfg` | violation | A liquidation succeeds while the liquidatee stays below 0 Maintenance health, unlike spec 4.4 (finding). |
| propagate_any_bank | `MC_PropagateAnyBank.cfg` | violation | `propagate_staked_settings` rewrites a general-purpose bank (code bug). |
| staked_groups | `MC_StakedGroups.cfg` | pass | A permissionless call that mixes one group's accounts with another's never moves a bank across groups or gives it another group's settings. |
| index_events_exit | `MC_IndexEvents.cfg` | pass | Over every environment, `.env` file and failure of the indexer, the snapshot or the spawned task, the process exits 0 only if nothing failed and the task returned. |
| observation_metas | `MC_ObservationMetas.cfg` | pass | The metas contain exactly the right banks, once each, each with its oracle, in the right order. The function panics exactly when a bank is missing from `banks_map`. |
| chunked_fetch | `MC_ChunkedFetch.cfg` | pass | The call always returns. The chunked fetch implements `AccountsFetch`. Every entry of the map is an account the chain held when its chunk was read, and every key left out had none then. The map is not a snapshot of one slot. |

Every property of a passing run has a mutant in `PROJECT.json`: a
plausible bug in the code it is about, which TLC finds. Examples are a
dropped revert, a cache list missing an account, round-up minting,
a missing `contains()` check, a chunk whose answer is dropped, a
panic hook without `process::exit`, and a missing `has_one`.

## Bounds and why they are enough

- Harness, main run:
  - two banks, the seeding account and one user;
  - `Q = 100`, `ShareUnit = 10` (10 shares per token), so that rounding
    happens at every conversion;
  - amounts 1 and 2, prices 1 and 2, one time step.
  - With these bounds liquidation, bankruptcy, both withdraw and repay
    variants, limit failures and risk rejections all occur (7,366 states).
    Symmetry over the two identically configured banks.
- Two-users run: the main run's bounds with a second user, and sequences
  of at most 10 instructions (17,745 states). Symmetry over the banks
  and over the two users; the seeder is distinct.
- Insurance run: wallets of 3 tokens and a 25% insurance fee, so that a
  liquidation fee reaches a whole token (in the main run it truncates to
  0, so this is the run where a failed liquidation must also restore the
  insurance vault). Sequences are bounded at
  `MaxSteps = 8` instructions, which is the length of the fuzzed action
  list.
- The harness runs stop exploring once a bankruptcy has driven an asset
  share value to 0 or below (`CONSTRAINT`). The spec leaves a bank's state
  undefined after that, and `asv_positive` reports it.
- Staked settings, pass run: two groups, two bank addresses and one
  oracle. Asset weights 50 and 80 make settings that validate and settings
  with init above maint, so that both outcomes of the `validate()` guard occur, and the two groups can hold different settings
  (22,572 states). Symmetry over the groups and over the banks.
- Staked settings, violation run: one group, two bank addresses, two
  oracles and asset weights 50, 80 and 110.
- Event indexer: each of the four variables unset, a number or `true`,
  in the process environment and in the `.env` file (6,561 initial
  states). This covers every variable missing, every parse failure, and
  `.env` filling a gap or being overridden. The run does not check
  deadlock: a state with an exit code is a terminated process.
- Observation metas: three banks, two slots and lists of two. This covers
  an included bank that is already active, an excluded active bank, and
  repeats in the include list.
- Chunked fetch: up to four keys of three, with repeats, in chunks of two.
  This gives a full chunk and a short last chunk, and keys repeated across
  chunks. Two tries per chunk.

## Fairness

- The harness, the settings model and the indexer's `main` make no
  liveness claim, so they assume no fairness. `indexer.run()` may run
  forever, so nothing may assume the task ends.
- `ChunkedFetch` assumes weak fairness of each chunk's RPC call completing,
  with success or error, and of `join_all` resolving. tokio polls every
  joined future, and the RPC client has a timeout.
- `AccountsFetch` assumes only weak fairness of `Return`: once every key
  was read, or a read failed, the call does not wait. The refinement
  checks that the detailed fairness implies it.
- `Returns` is violated if a failing call can be retried without spending
  the budget.

## Not modelled

- The marginfi program's own source is not in the repository. Flashloans,
  emissions, oracle staleness and confidence, and operational states are
  omitted.
- `pyth_price_to_fixed`: the scaling table reaches 10^14 and I80F48 has
  80 integer bits, while TLC's integers are 32-bit (it reports an overflow
  computing 10^14). Scaling the widths down would change exactly the
  bounds the two panics depend on. Its panics are listed as hazards.
- `Target::from_str` is JSON parsing with `unwrap`s, and its callers are not
  in this repository. Nothing that uses a `Target` could be checked.
- In the fuzz harness, `refresh_oracle_accounts` calls
  `BankAccounts::refresh_oracle`, and `initialize_marginfi_group` sets up
  group state that no handler reads back. `refresh_oracle` is in
  `bank_accounts.rs`, which is not in this repository, and the spec leaves
  oracle transport out of scope.
- The generated diesel schema. In `index_events.rs`
  the logging setup is left out; `set_global_default` is called once and
  cannot fail. Whether `indexer.run()` returns a `Result` is unknown,
  because `EventIndexer` is not in this repository; the model, like the
  code, takes any return of the task as success.
- `kamino_wrap`: its one instruction in this repository, `init_user`, is
  a single Anchor `init` of the user's PDA account that writes three
  fields. Anchor's `init` already refuses a second creation, so a model
  would only restate that constraint. The deposit, metadata and
  obligation instructions that `lib.rs` dispatches to are not in this
  repository. `get_function_hash`
  is a SHA-256 discriminator with no state.
- The unit tests at the end of `fuzz/src/lib.rs` use
  `BankAndOracleConfig::dummy()` and native token amounts. That config is
  not in this repository, so their scenarios cannot be replayed
  faithfully.
