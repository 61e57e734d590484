# Verification of the Glitch runtime

TLA+ models of the parts of this repository that carry its own logic, TLC
configurations that check them on small instances, and TLAPS proofs of the
properties that matter most for every instance. The code is a Substrate
(polkadot-v0.9.26) runtime derived from Clover: a fork of the staking pallet
that pays rewards out of a fund instead of minting them, an Ethereum pallet,
and a few small pallets around them. Everything below refers to the files of
the repository, under `src/`.

## 1. The system

### Inventory

| part | state | operations | hard about it |
|---|---|---|---|
| staking: sessions, eras, history (`frame/staking/src/pallet/{impls,mod}.rs`) | `CurrentEra`, `ActiveEra`, `ErasStartSessionIndex`, `ForceEra`, `HistoryDepth` | `new_session`, `start_session`, `end_session`, `trigger_new_era`, `on_finalize`, `set_history_depth`, `force_*`, `ensure_new_era` | an era is planned two session indices ahead, elections fail, Root changes depth and forcing between planning and start, u32 wraps |
| staking: rewards (`impls.rs`) | `ErasValidatorReward`, `ErasNotClaimedReward`, `ErasRewardPoints`, `ErasStakersClipped`, `ErasValidatorPrefs`, `claimed_rewards` of a ledger | `end_era`, `payout_stakers`, `reward_by_ids`, `store_stakers_info`, `clear_era_information` | rewards are a claim on a shared fund: two windows (one from the active era, one from the planned era) must agree; shares are rounded one by one |
| staking: ledgers (`lib.rs`, `mod.rs`) | `Bonded`, `Ledger`, `Payee`, locks | `bond`, `bond_extra`, `unbond`, `rebond`, `withdraw_unbonded`, `set_controller`, `set_payee`, `kill_stash`, `reap_stash`, `force_unstake` | chunks unlock by the planned era and slashes reach them by the active one; dust; a stash may die and return inside the history window |
| staking: slashing (`slashing.rs`, `impls.rs`) | `SlashingSpans`, `SpanSlash`, `ValidatorSlashInEra`, `NominatorSlashInEra`, `UnappliedSlashes`, `OffendingValidators` | `on_offence`, `compute_slash`, `apply_slash`, `cancel_deferred_slash`, `clear_stash_metadata` | reports late and in any order, spans that end and are pruned, deferral, disabling that the session pallet forgets |
| staking: intentions, voter list, snapshots (`impls.rs`, `mod.rs`, `migrations.rs`) | `Validators`, `Nominators` and their counters, the voter list, limits, `StorageVersion` | `validate`, `nominate`, `chill`, `chill_other`, `kick`, `set_staking_configs`, `force_apply_min_commission`, `electing_voters`, `electable_targets`, the v6 to v9 migrations | two maps, two counters and a sorted list kept in step by hand; snapshots cut at a limit; votes voided by slashes |
| staking: inflation curve (`reward-curve`, `reward-fn`, `inflation.rs`) | none: a macro and two functions | `build!`, `compute_inflation`, `compute_total_payout` | a loop in unchecked u32 arithmetic; two computations of one value |
| fund (`frame/pallet-fund`) | an account | genesis deposit, `on_unbalanced` | pays every reward |
| revenue wallet (`frame/pallet-revenue-fund`) | an account | `donate`, `triger`, `trigger_wallet` | a failing transfer is ignored |
| revenue white list (`frame/pallet-revenue`) | `Whitelist` | `add_addresses`, `remove_addresses` | consulted by the Ethereum pallet for the priority of a transaction |
| Ethereum pallet (`frame/ethereum`) | `Pending`, `CurrentBlock`, `BlockHash`, ... | `transact`, `on_initialize`, `on_finalize`, `validate_transaction` | pending transactions against block storage, nonces, hash window |
| EVM accounts (`modules/evm-accounts`) | `Accounts`, `EvmAddresses` | `claim_account`, `on_killed_account` | two maps that are inverses, nonces of a merged account |
| asset trader, asset config (`runtime/src/asset_trader.rs`, `modules/asset-config`) | bought weight and payment; asset ids and prices | `buy_weight`, `refund_weight`, `drop` | refunds in parts, of purchases in several assets, must not exceed the payment |
| reward pool, incentives (`modules/reward-pool`, `modules/incentives`) | pools, shares, rewards | `add_share`, `remove_share`, `claim_rewards`, the reward of every block | rounding, dust, rewards that are owed and not there; not part of this runtime's `construct_runtime!` |
| claims (`modules/claims`) | claims, fees and mint limits by network, burn counts | `mint_claim_elastic`, `mint_and_send_claim_elastic`, `claim_elastic`, `burn_elastic`, Root's setters, `on_runtime_upgrade` | a claim is paid once, whichever pool and block it arrives in; the storage is migrated; not part of `construct_runtime!` |
| erc20 precompile (`modules/erc20-precompile`) | `NativeErc20Assets` | `register_native_erc20_asset` | the precompile itself is not in the repository |
| runtime (`runtime/src/{lib,impls}.rs`) | none of its own | fee, dust, slash and burn handlers, gas and weight mappings | imbalances are dropped unless somebody takes them |
| chain specification (`node/src/chain_spec.rs`) | the genesis state | `glitch_genesis`, `glitch_genesis_mainnet` | the issuance is completed by deposits that three pallets make on their own |
| node service, rpc, primitives | none of their own | | wiring and I/O |

How they meet. The session pallet (library) calls staking in one
`on_initialize`: `end_session(i)`, `start_session(i+1)`, `new_session(i+2)`.
`end_era` calls the revenue wallet (`trigger_wallet`) and reads the fund's
balance; the payout settles an imbalance from the fund; the runtime sends
fees, tips, dust and treasury burns to the fund (`runtime/src/lib.rs`,
`FundBalance`, `DealWithFees`). Offence reports (extrinsics, and im-online in
`on_initialize`) may force an era.

Extrinsics are transactional in this version of FRAME: a call that returns an
error leaves no trace, so it is no step of a model. The Cargo profiles do not
switch overflow checks on: integer operators wrap in the release build.

### What makes each part correct

* eras: planned and active era never drift apart; information exists exactly
  for the history window; an era that is planned starts.
* rewards: nobody is paid twice for an era; everything promised and not paid is
  covered by the fund; a promised reward is inside the claim window; every era
  that ends is rewarded; nothing lies idle in the fund.
* ledgers: active + unlocking = total = lock; what leaves has waited the bonding
  duration.
* intentions: the list is exactly the stakers; a snapshot leaves out nobody with a
  larger stake than those it takes; a void vote stays void.
* curve: the macro ends and its curve stays within its bounds and agrees with the
  series.
* slashing: a deferred slash is enacted, after its delay and no later, and finds
  the stake; a span pays its maximum, not its sum; rewards stay within their
  fraction; offenders stay disabled and enough of them bring a new era.
* reward pool: shares add up, payable rewards are covered, and what an account is
  shown is what it is paid.
* money: no fee, tip, dust, slash, burn or genesis entry makes or destroys currency.
* EVM accounts: the two maps are inverse; a claim keeps the larger nonce.
* Ethereum: what is ready in the pool is not early, what was validated executes;
  every transaction is in one block; the chain of blocks and the hashes the EVM
  may ask for are there.
* trader: what is refunded was paid.

The hazards behind these, each at its line, are in `PROJECT.json`.

## 2. Modules

| module | models | state and actions |
|---|---|---|
| `Eras` | the clock of sessions and eras | one variable per storage item; `BeginBlock`, `BeginBlockRotating` (the whole rotation), `OnFinalize`, `SetHistoryDepth`, `ForceNoEras`, `ForceNewEra`, `ForceNewEraAlways`, `EnsureNewEra` |
| `Totals`, `Perbill` | sums over a finite set; `Perbill::from_rational` (floor) and `Perbill * Balance` (nearest) | pure operators |
| `StakingRewards` | fund, wallet, rewards, payouts, bonds | extends `Eras`; every step of the clock is one of `Eras` plus its effect on rewards (`BeginBlockBy`, `RotateBlockBy`, `FinalizeBlock`, `ChangeHistoryDepth`, `ChangeForcing`), and `PayoutStakers`, `PayoutNothing`, `Bond`, `KillStash`, `SetController`, `SetPayee`, `PayFee`, `Donate`, `Triger` |
| `StakingLedger` | the stake of one stash and the slashes deferred against it | extends `Eras`; ledger with its queue, balance, lock, roles, exposures, deferred slashes; `Bond`, `BondExtra`, `Unbond`, `Rebond`, `WithdrawUnbonded`, `Validate`, `Nominate`, `Chill`, `ChillOther`, `ReapStash`, `ForceUnstake`, `RewardStaked`, `Deposit`, `Withdraw`, `OnOffence`, `CancelDeferredSlash`, `RotateBlock` (with `apply_unapplied_slashes`), `Tick` |
| `Slashing` | what an offence costs | extends `Eras`; `SlashingSpans`, `SpanSlash`, `ValidatorSlashInEra`, `NominatorSlashInEra`, `OffendingValidators`, the session's disabled validators, the validators of each era; `OffenceWithSlash`, `OffenceWithoutSlash`, `ClearStashMetadata`, `RootForces`, `RotateBlock`, `Tick` |
| `EraBudget` | what the reward scheme promises | a purse, promises by era and an overdraft; `Receive`, `Promise`, `Pay`, forgetting; `StakingRewards` implements it (`ImplementsBudget`) |
| `Intentions` | validators, nominators, voter list, limits, snapshots, migrations | every call of the table above, `Bond`, `BondExtra`, `Unbond`, slashes, kills, eras; the bags list is external |
| `RewardCurve` | the curve macro, reward-fn and the payout of a curve | the macro's loop as a state machine (`Shorten` and its alternatives), logarithm and Taylor series as operators |
| `Genesis` | the genesis balances of every network | the table of balances, the endowment, the pallets' deposits |
| `Fees` | where the currency goes | extends `Genesis`; signed transactions with fee, tip and refund, transfers with dust, EVM transactions, slashes with reporters, donations, the wallet, the treasury's spend period |
| `EthereumPool` | the way of a transaction into a block | extends `Ethereum`; the white list and one node's pool; submission, inclusion, `AddAddresses`, `RemoveAddresses` |
| `Incentives` | the pool of a pair of currencies | extends `RewardPool`; `IncentiveAddShare`, `IncentiveRemoveShare`, `IncentiveClaimRewards`, the queries |
| `MCIntentions`, `MCFees`, `MCIncentives` | instances for TLC | genesis stakers, targets and limits; curve inputs and networks, with `RewardCurve`, `Fees` and `AssetTrader` beside each other; rewards of the pair |
| `MCSlashing` | instances for TLC | exposures |
| `MCStakingRewards` | instances for TLC | genesis controllers and election results |
| `RewardPool` | a reward pool fed by incentives | pool and account records, the pool's account; `AddShare`, `RemoveSharePaid`, `RemoveShareUnpaid`, `ClaimRewards`, `ClaimNothing`, `NextBlock` |
| `AssetTrader` | asset and ERC20 registries, weight trader | the maps, the prices, the two fields of the trader; `SetFeeRate`, `RegisterAssetLocation`, `RegisterNativeErc20Asset`, `NewTrader`, `BuyWeight`, `BuyWeightOtherAsset`, `RefundWeight`, `DropTrader` |
| `Ethereum` | Ethereum transactions and blocks | extends `EvmAccounts`; `Pending`, `CurrentBlock` with its receipts, `BlockHash`, the block number; `OnInitialize`, `ImportTransaction` and `ImportEnds` (its loop over a pre-log), `Transact`, `Rejected`, `OnFinalize`, and `AccountStep` (claims and Substrate transfers) |
| `MCEthereum` | instances for TLC | the transactions |
| `EvmAccounts` | claimed Ethereum addresses | both maps, balances and nonces; `ClaimAccount`, `Spend` (with the death of an account) |
| `Claims` | the bridge | old and new storage, balances, transaction pools; `OnRuntimeUpgrade`, `SetCode`, Root's three calls, `MintClaimElastic`, `MintAndSendClaimElastic`, `ValidateUnsigned`, `ClaimElastic`, `DropInvalid`, `BurnElastic` |
| `Currency` | the currency of the pallets under `modules/` | accounts and the existential deposit, shared by `Claims` and `RewardPool` |
| `ErasProofs`, `TotalsProofs`, `StakingRewardsProofs`, `StakingLedgerProofs`, `SlashingAndFeesProofs` (slashing, genesis, fees), `IntentionsProofs`, `EthereumProofs`, `ModulesProofs` (reward pool, incentives, claims, trader) | the proofs | |

Definitions have the names of the code where TLA+ allows it; `PROJECT.json`,
`map`, gives the lines each one stands for.

Correspondence and abstraction:

* A session rotation is one step, because it happens inside one
  `on_initialize`. Inside it the order of the code is kept: the author's points
  go to the era that is active before the rotation (Authorship is initialised
  before Session), `end_era` empties the wallet and records the reward, then
  `trigger_new_era` may clear it again.
* An election is an input: any member of `ElectionResults`, or a failure. A
  validator without stake stands for one that was not elected.
* The storage maps keyed by era are functions on `Era` with a default where the
  code has an absent entry. `ErasNotClaimedReward` has the same keys as
  `ErasValidatorReward`, so only the latter keeps absence.
* `users` is what all accounts besides the fund and the wallet hold. Fees and
  donations move it; payouts return to it. A payout's destination is an
  ordinary account, so paying into the fund or the wallet itself is left out.
* `dead` in `PayoutStakers` are the stashes whose destination account does not
  exist at that moment: `make_payout` then deposits nothing below the
  existential deposit.
* The history variables `payouts` and `excess` are not in the code. `excess`
  adds up what payouts of an era took beyond its reward, which the rounding to
  the nearest unit allows.
* Commission and points are kept exactly; a block is one point (the code's 20,
  and the few points of uncles, which this runtime never accepts because
  `UncleGenerations` is 0, only scale them).
* A bond's amount does not matter here; the minimum bonds only remove
  behaviours.
* `StakingLedger` is one stash: stashes share nothing that it models. What
  `compute_slash` comes to (the amount, at most the exposed stake; whether it
  chills the stash or forces an era) is an input, and so is the stake an election
  exposes, because the election works on a snapshot taken earlier. A deferred
  slash is enacted with the era of its report; the era of the offence counts
  only for a slash without deferral. `set_lock` with the amount 0 does nothing in
  `pallet_balances`, so a ledger that is slashed to nothing keeps its last lock
  until it is withdrawn or reaped. `Currency::slash` leaves the existential
  deposit to an account with references, as a bond is one. `kill_stash` is
  given enough slashing spans. Steps that belong to other stashes, and Root's
  changes of depth and forcing, are left to `Eras` and `StakingRewards`.
* In `Slashing` each offender of a report is a step, as `on_offence` takes them
  one by one and nothing else happens in between that the properties see. A
  report that is not the largest for its validator in the era, or is about an
  invulnerable one, changes nothing. `BondedEras` is the window of eras from
  `WindowStart` to the active era. The validators of the session are
  `elected[active_era]`; offenders are kept by name instead of by index in that
  set, which is the same as long as the set lasts, that is for the era. What
  a validator exposes is the same in every era. The session pallet (external)
  forgets who is disabled when a rotation changes the set or a key. A chilled
  validator may declare itself again before the next election, so chilling takes
  nobody out of `ElectionResults`. `charged`, `offended`, `reports` and
  `eras_forbidden` are history variables: what a stash was charged for each span, the
  slash of each era it was charged for, the number of reports, and whether Root has
  forbidden eras since an offender last forced one. The amounts are deferred and
  enacted in `StakingLedger`.
* `RewardPool` is one pool: pools share no state. `update_pool_reward`, the
  beginning of every operation, is the operators `PendingReward`, `Rewards` and
  `Useable`. `lost` is a history variable: what the currency did not keep of a
  deposit or a remainder below the existential deposit.
* In `AssetTrader` a message is executed inside one call, so Root's calls fall
  between messages. The amounts `paid` and `refunded`, the weights `weight_paid` and
  `weight_returned`, and `within` (every refund so far was for weight that had been
  paid for) are history variables. The trader is
  part of the runtime's sources and is not wired into its executor.
* In `Ethereum` the EVM is an input: it uses some gas within the limit and the
  call succeeds or not. What `src/` requires of it is `ExecuteAccepts` (nonce,
  balance and fee are checked once more) and `RunnerCall` (the gas used is
  charged, the value moved, the nonce counted); `account_basic` gives what an
  account can spend and stay alive, so that an Ethereum transaction kills no
  account, while Substrate's transfers do. A block is identified by its
  number, as there is one chain, so its hash is that number. Signatures, chain
  ids, logs and blooms are left out; contract creation is a call; EIP-2930
  transactions go the way of legacy ones. A pre-log has any number of transactions,
  each a step of its own, and nothing else happens until `on_initialize` is done with
  them. `executed` is a history variable.
* In `EvmAccounts` a transaction is a nonce and a transfer. An Ethereum address
  stands for its padded account; a signature is an input.
* In `Claims` a signature is the address it recovers to. The runtime's executive
  runs `on_runtime_upgrade` before any call of new code: `SetCode` makes it due,
  and no call happens until it ran. `locked`, `granted` and `spent` are history
  variables. Each node has a transaction pool, with one claim per signer because
  that is what `provides` names.
* In `Intentions` every stash is its own controller, as in the chain specification,
  and of a ledger only the active stake matters. A voter is in the bag of the score
  it was last given (the bags list does not follow a slash by itself), bags are
  iterated from the largest score down and the order inside a bag is any order. The
  storage before the migrations is one that the releases before them could leave.
* `RewardCurve` computes in units of 1/`Million`, with 100 for 10^6 and the
  constants of the code scaled along. BigUint has no width; u32 subtractions that
  would go below zero end the macro (`panic`): by the overflow check or, where that is
  off, by the assertion `p >= q` of `log2`, which the wrapped value fails.
* In `Fees` the balances, payment and treasury pallets and the EVM's runner are
  external and modelled by what the runtime hands to them. An account exists while
  it has a balance; references are left to `StakingLedger`. `lost` is a history
  variable: the imbalances dropped by design, namely a priority fee whose author has
  no account and a reporter's share too small to open one. `DoSlashes` and
  `PayReporters` are the loops of `apply_slash` and `pay_reporters`.
* `Genesis` keeps the two formulas of `chain_spec.rs`: the endowment divided among
  the accounts of a test network, and the mainnet's table. Keys and names are data.
  `GenesisAssumption` says of the table what can be read off it: its last two entries
  are the deposits of the fund and of the treasury, it does not list the wallet, and
  it adds up to the supply without one deposit.
* In `EthereumPool` the pool is external: entries provide a tag each, of which the
  one with the highest priority stays, and may require another; a requirement is
  gone when a block has provided it. Blocks hold transactions of any node.
* In `Incentives` the account of the pool and its shares are those of `RewardPool`;
  `forgiven` is a history variable: the debt of those who left unpaid.
* `EraBudget` is reached by the mapping purse = fund - `ExistentialDeposit`,
  promises = `ErasNotClaimedReward`, overdraft = `excess`.
* Definitions marked MUTANT are plausible wrong versions of the definition below
  them; no specification uses them.

## 3. Runs

| run | specification | checks | shows |
|---|---|---|---|
| `eras` | `ErasFairSpec`: all four forcing modes, depths 0 to 3, 8 sessions of eras of 3 | `EraPipeline`, `PlannedEraStarts`, `PredictionIsExact` | the clock never skips; a planned era starts; the predicted session is the one that plans |
| `rewards` | two stashes that are killed and bonded again, a spare controller, depth moving between 1 and 2, three eras, one of two backers clipped away, a payee whose account may be gone, fees and donations, eras that Root forbids | `NoDoublePayout`, `RewardsClaimable`, `FundCoversRewards`, `EndedEraIsRewarded`, `FundFullyPromised`, `ImplementsBudget` | claims survive everything that happens to a bond and to the window; what is not paid stays owed; solvency up to `excess`; the pallet implements the budget |
| `reward_pool` | two accounts, amounts 1 and 2, three blocks, sums that may overflow, a pair of currencies named in either order | `DebtIsVirtual`, `UseableIsThere`, `ShownIsCovered`, `JoiningIsNeutral`, `ShownIsPaid` | the accounting holds with rounding and dust; joining is neutral up to a unit; the queries tell what the calls do |
| `fees` | the macro's loop for every accepted input of a grid of 576; with one of the curves, five genesis networks and the mainnet's, two users, tips, gas, refunds, slashes of up to two stakers with up to two reporters; two assets, locations and prices, two purchases a message | `MoneyIsKept`, `PaymentIsAccounted`, `CurveIsSound`, `CurveAgreesWithInflation`, `MacroEnds` | all that is taken from an account reaches another one, up to what is dropped by design; what was paid is refunded or revenue, no less, and no more than rounding adds while no more weight is given back than was paid for; the macro ends with a curve within its bounds that agrees with the series |
| `trader_refund` | the trader alone | `RefundsWithinPayment` violated | finding 3 |
| `ethereum` | two users who claim two addresses, spend and die; legacy and EIP-1559 transactions of one of the addresses, blocks with and without a pre-log (of none to two transactions), a pool of one entry beside those of other nodes, a window of one hash beside genesis | `ReadyIsNotEarly`, `ValidatedExecutes`, `BlockIsWhatWasExecuted`, `HashWindow`, `MappingsInverse` | the tags order a sender's transactions, what is validated in a block executes, a block is what was executed in it, hashes are there for the EVM, the maps stay inverse |
| `evm_nonce` | one address | `ClaimKeepsNonce` violated | finding 2 |
| `ledger` | bonding duration 3, deferral 1, four eras, a queue of two chunks, two slashes waiting | `LedgerAddsUp`, `StakeIsLocked`, `SlashIsScheduled`, `StakerCannotBail` | the ledger adds up through unbonding, rebonding, dust and slashes; slashes come in time and find the stake if the deferral is two eras shorter than the bonding duration |
| `slash_bail` | bonding duration 2, deferral 1: shorter by one, as in the runtime (28 and 27) | `StakerCannotBail` violated | finding 1 |
| `slashing` | two validators with a common nominator, three reports, three eras (two sessions each, or fewer when forced), bonding duration 1, fractions 0, 1/2 and 1, a threshold that takes both validators of two or the only one, all forcing modes, at first and set by Root between the reports as long as nobody was charged, failing elections, changing sets and keys | `SpansCoverWindow`, `SpanPaysMaximum`, `RewardWithinFraction`, `OffendersStayDisabled`, `OffendersForceEra` | whatever the order of the reports, every span pays its maximum and no report is lost; offenders stay disabled; enough of them bring a new era unless Root forbade eras after them |
| `intentions` | a validator, a nominator and a stash that takes either role, two bags, two sets of limits, two eras, chains that start fresh or with old storage | `VoterListIsStakers`, `SnapshotIsFair`, `VoidVotesStayVoid` | maps, counters and list agree after every call and migration; snapshots are fair under any limit and order |
| `claims` | `ClaimsFairSpec`: two networks, one locking transaction on each, one owner, two nodes, fees, a limit, old storage or none, one more upgrade | `BridgeIsBacked`, `MintedWithinLimit`, `ClaimIsFinal`, `ClaimsArePaid` | no claim is paid twice or forgotten, the bridge is backed, an upgrade gives no limit back, every claim is paid in the end |

Deadlock is checked, except in the runs where the system may really stop: every
operation of a pool whose rewards overflow is refused (`checked_add` in
`calc_pool_reward_at_block`); in `EvmAccounts` (run `evm_nonce`) everything may have
been spent or sent to the padded account of an address that is claimed, which nobody
can use; a network whose endowment does not divide panics at genesis (run `fees`);
and the curve's macro ends.

### Bounds

* `MaxSession` ends a behaviour. Three eras are enough for an era to be ended,
  paid, and to leave a window of depth 1 or 2 while its successor is active
  and another one is planned; the clock run has eight sessions because eras
  last three there.
* `U32` is the modulus of u32 arithmetic, 16 instead of 2^32: no counter comes
  near it, and the two places where the code can wrap (`history_depth + 1`,
  `history_depth - 1`) wrap at 15 and at 0 just the same.
* `Accuracy` is the number of parts of a `Perbill`, 10 instead of 10^9. Amounts
  are of the order of the accuracy or below, as the rounding of a real payout
  is of the order of one unit. In `rewards` a reward has two parts,
  which never add up to more than the reward, so `excess` stays 0 there; with three
  (3 * nearest(2 / 3) is 3) it does not, and the theorem `FundIsSolvent` covers that too.
* `MaxPoints` caps the blocks of an era that earn points. One suffices to
  distinguish a validator with points from one without.
* `MaxNominatorRewardedPerValidator` is 1 or 2, instead of 256, so that clipping
  happens with two stashes.
* `MaxBalance` stands for the largest u128, 12 in the pool's run, so that sums do
  overflow; `Accuracy` is 1000 there, well above the numbers of shares, as 10^18
  is. `MaxBlock`: three blocks allow two accounts to accrue before and after
  every join, claim and departure.
* In the runs of `StakingLedger` an era is one session and `MaxSession` is just
  enough to unbond, defer a slash, and have both the chunk and the slash fall
  due. `MaxFree` bounds the balance; `Amounts`, `SlashAmounts` and
  `ExposedStakes` are chosen around the existential deposit 2, so that parts fall
  below it and become dust: a bond of 6, moves of 2, slashes of 3.
  `MaxUnlockingChunks` is 2 instead of 32, so that the queue is full at times;
  `MaxPending` is 2, enough for slashes of one and of two eras. No run has a
  deferral of 0; the theorems include it.
* `MaxReports` is 3: a third report is what takes a wrong reward above its
  fraction, and what meets a span pruned after the second. With forced eras
  `MaxSession` 2 gives three eras, so the window of a bonding duration of 1 moves
  past an ended span. `Strategies` has only `WhenSlashed`, with which an
  offence disables or not as it costs something or not. `MCNext` keeps Root's forcing and
  the amounts apart: Root forces while nobody has been charged, and nobody is charged
  while Root forbids eras or forces all of them. Before the first report Root's choice is
  that of the initial state, which has any mode. `OffendersForceEra` does not see
  amounts, and the amounts see only which eras there are; the theorems have no such
  restriction.
* `MaxBuys`: two purchases are enough for a second one in the same and in another
  asset. The prices 1 and 3 do not divide a second's weight, so that prices and refunds
  are rounded and the bound on what refunds may add is reached. `MaxNonce`: three transactions per account are enough to act through a
  padded account, be claimed, die and be claimed again.
* `MaxBlock` of `ethereum`: four blocks, the last of which is not finalised, let the
  window of `BlockHashCount` + 1 = 1 hash beside that of genesis move past two
  blocks. With `MaxNonce` 2 three transactions fit in a block if a claim comes in
  between, which is what it takes to tell the last receipt from the first.
  `Amounts` 5 and 6 of a balance of 7 leave an account alive and kill it.
* In `intentions` `MaxActive` and `MaxEra` are 1: one unit decides between the two
  bags and between above and below a minimum bond, and a nomination made in era 0
  is older or as old as a slash of era 0 or 1. `Switchers` and `Offenders` keep the
  three stashes from all playing every role.
* In `fees` `TotalSupply` is 18 with a deposit of 2, so that accounts of a few units
  are closed by a fee, a tip or a slash, and leave dust. `MaxSlashed` and `MaxReporters` are 2:
  a validator and a nominator, or one of them twice, whose slashes and reward divide
  unevenly between two reporters; the theorem has no such bounds. The three parts of `MCFees` share no state;
  the chain is run with one of the curves and the trader is tried with the balances of one
  genesis only.
* `U64` is 64 in `ethereum`, small enough for priorities to wrap; `MaxPooled` is 1,
  as the predecessor of a pooled transaction comes in a block of another node.
* In `fees` the grid of curves has steep and flat falls and 2 to 30 pieces; the
  constants of the code are scaled with `Million`.
* `MaxUpgrades`: the first upgrade migrates; one more shows what a second run of
  the hook does. In `claims` the existential deposit is above a claim net of its
  fee, so that a deposit is sometimes lost; the limit is above one claim and
  below two.

### Fairness

Three properties need it. `PlannedEraStarts`: `WF(OnFinalize)`: a block that is begun is
finalised. `SF(BeginBlockRotating)`: BABE ends the epoch once its slots have
passed, so whatever else happens some later block rotates the session; strong
fairness because the step is disabled inside every block. Nothing is assumed
about elections (an election may fail forever) nor about Root. `ClaimsArePaid`:
an upgrade that is due runs (the next block begins with it), the owner submits
the claim as long as it is valid and a pool has room for it, and each node
includes what is in its pool, or drops it when it is no longer valid; claims have
the longest possible longevity, so none expires. `MacroEnds`: the compiler runs the
macro, so its loop goes on as long as it can.

## 4. Proofs

All are checked by TLAPS for every value of the constants that satisfies the
named assumptions of the modules.

`ErasProofs`. `ErasIInv` joins the type invariant, `EraPipeline` and
`HistoryWindow`, and is inductive as soon as no depth is the largest u32
(`U32 - 1`); with that depth it is false (`depth + 1` wraps). It also says when the
active era has a start time (always outside a block), from which
`EndedErasHaveStart` follows: rotation happens only in `on_initialize`.
`PredictionsAreExact` (`PredictionIsExact`): `next_election_prediction` computes the
sessions left from the era progress that `new_session` looks at; with `EraPipeline`
no case of the forcing modes makes the two disagree. The module also holds the
lemmas on fixed-point fractions that rewards and slashes need: a share is at most one
unit more than it should be and never more than the whole.

`StakingRewardsProofs`, under `ProperDepths`: neither 0 nor the largest u32 is
ever a history depth. Depth 0 makes `history_depth - 1` wrap and rewards that
cannot be claimed; Root would have to set it.

* `RewardsImplementEras`: the reward specification implements `ErasSpec`, so
  the theorems about the clock carry over. The variables of `Eras` are the
  same, so the refinement mapping is the identity.
* `TypesHold`, with the agreement of `Bonded` and `Ledger`, which the other
  proofs need to speak about "the ledger of v".
* `PromisesStayClaimable` (`RewardsClaimable`): an entry of
  `ErasValidatorReward` is for an ended era of the window. It rests on
  `EraPipeline` (end_era writes the era before the planned one) and on the fact
  that planning and depth changes clear all maps alike.
* `NeverPaidTwice` (`NoDoublePayout`). Not inductive by itself: the
  strengthening `PaidIsRemembered` says that an era that was paid and still has
  a reward is in `claimed_rewards` of the validator's ledger, whichever
  controller that is under. `bond` keeps it because all past eras of the
  window count as claimed, and rewards exist only for such eras
  (`RewardsClaimable`); pruning keeps it because it drops eras without a reward.
* `FundIsSolvent` (`FundCoversRewards`). `OwedIsPromised` says that an era
  without a reward is owed nothing. With `RewardsClaimable` this makes the sum
  over the window of `get_total_not_claimed_reward` the sum over all eras, so
  `end_era` promises exactly what is free.
* `EndedErasAreRewarded`, `NothingLiesIdle`: the action properties, from the
  same invariant.
* `RewardsImplementBudget` (`ImplementsBudget`): the refinement of `EraBudget`, one
  lemma for each step of the detailed specification: a rotation is a promise and
  perhaps a forgetting, a payout a payment with its overdraft, fees and donations a
  receipt, everything else a stutter.

`StakingLedgerProofs`, under `U32 - 1 \notin HistoryDepths`. `SlashIInv` says that
a deferred slash stands between the mark `EarliestUnappliedSlash` and the active
era, and that the mark itself is never ahead of the active era. The second part is
what makes it inductive: `on_offence` sets the mark only if there is none, so a
mark ahead of the era of a new report would hide the report's slash for ever.

* `SlashesScheduled` (`SlashIsScheduled`): a deferred slash is enacted when its
  delay has passed and waits no longer.
* `NobodyBails` (`StakerCannotBail`): a slash waits at most `SlashDeferDuration`
  eras after its own, and the planned era is at most one ahead of the active
  one (`EraPipeline`), so a chunk unbonded since then is not due yet, provided
  `SlashDeferDuration + 1 < BondingDuration`. Under the weaker condition the code
  checks (`integrity_test`) it is false: run `slash_bail`.

* `LedgersAddUp` (`LedgerAddsUp`) and `StakeStaysLocked` (`StakeIsLocked`), without any
  assumption on depths. `StakeIInv` says that ledger, balance and lock are one of
  `Stakes`: a ledger that adds up, in a balance and under a lock that cover it. One
  lemma for each operation on the queue says what it does to the sum of the chunks:
  `AddChunk` adds the value to the last chunk or appends one, `Subsequence` (what
  `retain` and `consolidate_unlocked` leave) drops only what was counted, and
  `RebondLedger` moves from the youngest chunks what it gives to the active part. A
  slash visits the chunks in an order of its own: `NthTarget` and `Turn` are inverse,
  so the losses by chunk are the losses by turn renamed, each is at most the chunk, and
  the ledger's total goes down by their sum. The slashes of an era, and the eras of a
  rotation, are then two iterations over `Stakes`.

`SlashingAndFeesProofs`, about slashing under `U32 - 1 \notin HistoryDepths`. `OffenceIInv` joins the
invariant of the clock with the two properties below and the types they need.

* `DisabledForTheEra` (`OffendersStayDisabled`): a rotation may make the session
  pallet forget everybody, so the property has to be established again by
  `start_session`, from the offenders that are left: all of them, or none when
  the era ends. That `end_era` and `start_era` happen in the same rotation, and
  that the era that ends has a start time (else `end_era` would not clear the
  offenders), comes from `EraPipeline` and `ErasIInv`.
* `ThresholdForcesEra` (`OffendersForceEra`): a new offender can only reach the
  threshold in a step that also forces; from then on `ForceNew` gives way only to
  a planned era, and that only to an active one, which has no offenders; or to Root,
  who forbids eras, which `eras_forbidden` remembers until the next offender that
  reaches the threshold. That an offender forces an era also when Root had forbidden
  eras before is part of the statement.
* `RewardsStayWithinFraction` (`RewardWithinFraction`), without any assumption on
  depths: every record of a span has paid at most the fraction `RewardProportion` of
  what it slashed (`RewardIInv`), which each report keeps because a report that does not
  raise the slash pays from what is left of the fraction.
* `SpansAlwaysCover` (`SpansCoverWindow`). `CoverIInv` says that the spans of a stash
  are a non-empty list of lengths that ends with the last start, and that the oldest
  one kept begins no later than the window. Pruning keeps a prefix of the list
  (`KeptPrefix`, from `PrefixSet`: a downward closed set of indices is a prefix), ending
  a span adds one at its head, and the window only moves forward with the clock.
* `SpansPayMaximum` (`SpanPaysMaximum`). `PaysIInv` joins `CoverIInv` with three facts
  about each stash: every live span has a record of what it was charged, the charges
  that history remembers agree with the records, and a span's record is the largest
  cost of its eras. The costs of an era only grow (`EraSlashGrows`: a report below the
  last fraction of the era is ignored), which makes the maximum independent of the
  order of the reports.

The same module has the proof about the currency, which assumes nothing about depths.

* `MoneyAlwaysKept` (`MoneyIsKept`). `Purses(t)` are the balances that add up to t while the
  fund exists and the treasury has its deposit; the second half is what makes the sum
  inductive, because an imbalance handed to an account that does not exist is dropped.
  Every movement of money takes `Purses(t)` to `Purses(t - d)` and records d as lost, where d is
  0 except for a priority fee without an author and for reporters' shares: the shares of n
  reporters, paid or dropped, are n times the share, and the remainder of the division
  goes to the treasury. `MoneyIInv` goes back to the specification: the tables of
  `glitch_genesis` give out the supply without three deposits, the mainnet's without one,
  building storage from a table without repetitions keeps its sum, and while the pallets
  open their accounts the supply lacks the deposits that are still to come (`Opening`).

`IntentionsProofs`. `IntentionsIInv` says what the storage of every release promises:
nobody has two roles, or one without a bond; from V7 on the counters are the sizes of
the maps; the list of V8 holds the nominators; the list of a chain that serves calls,
whether fresh or migrated, holds everybody. `InStep` is the part that the calls keep,
stated on a record of the four storage items, so that there is one lemma for each of
`do_add_nominator`, `do_remove_nominator` and their siblings and the calls combine
them. The order of the two halves of `validate` and `nominate` matters: adding a role
is in step only for a stash that has not the other one.

* `VoterListStaysStakers` (`VoterListIsStakers`), for all stashes, limits, bags,
  genesis configurations and old releases. It is assumed that every stake has a bag, as
  the runtime's table ends with the largest u64.
* `VoidVotesAlwaysStayVoid` (`VoidVotesStayVoid`): the last slash of a stash never goes
  back except by `KillStash`.
* `SnapshotsAreFair` (`SnapshotIsFair`), for every order inside the bags and every limit. The
  loop of `get_npos_voters` keeps what it has taken in the order of the list: after i
  voters the snapshot names, once each, those of the first i that have a vote, until it
  is full. Who is left out therefore comes later in the list than everybody taken, in
  a bag no larger, or behind the last voter that is looked at. That the targets keep to
  the limit uses `IntentionsIInv`: the counter that is compared with it is the size of
  the map.

`EthereumProofs`, about the accounts (`EvmIInv`), the blocks (`EthereumIInv`) and the
pool (`PoolIInv`), each resting on the one before.

* `EthereumMappingsInverse` (`MappingsInverse`): a claim takes an address and an account
  that have no entry, and the death of an account removes both entries.
* `EthereumValidatedExecutes` (`ValidatedExecutes`): the validation computes the largest
  fee in one way and the EVM's runner in another (`FeesAgree`); the two agree for legacy and
  EIP-1559 transactions.
* `EthereumBlockIsWhatWasExecuted`, `EthereumHashWindow`: `Pending` is what was executed
  since the last block, with cumulative gas as a sum over a prefix; the window of hashes
  is that of the last finalised block while a block is being built.
* `EthereumReadyIsNotEarly` (`ReadyIsNotEarly`): a tag that a block has provided belongs
  to a nonce the account has passed, or the account's nonce has gone back since (by
  dying).

`ModulesProofs`, the pallets under `modules/` and the trader.

* The reward pool. `PoolIInv` joins the types with `SharesAddUp`, `DebtIsVirtual` and
  `UseableIsThere`. `SharesAlwaysAddUp` and `UseableStaysThere` follow the operations
  one by one. `DebtStaysVirtual` has an argument: a payment reduces `total_rewards` by
  the reward with its virtual part and the useable rewards by the reward without it,
  and the difference is exactly what the account's debt shrinks by; a claim raises the
  debt by what it takes from the useable rewards. Nothing is assumed about rounding, so
  the theorem holds for every `Accuracy`; in return it is an inequality, and the virtual
  rewards may exceed the debts (see the observations below).
* `IncentivesImplementPool`: every call of the incentives is an operation of the pool or
  leaves it alone, so that these carry over.
* `ShownStaysCovered` (`ShownIsCovered`) rests on an equality, `BooksBalance`:
  `total_rewards` is the useable rewards, all debts and all debts that were forgiven. With
  it, and as the worths of all shares are together no more than `total_rewards` (each is
  rounded down), what is shown is covered, except for what overdrawn accounts owe.
* `ShownIsAlwaysPaid` (`ShownIsPaid`): `get_account_info` and the operations compute the
  reward of the same block from the same record.
* `JoiningStaysNeutral` (`JoiningIsNeutral`): a joiner adds virtual rewards rounded down,
  at a price rounded down to the accuracy. Bounding both roundings needs products of
  variables, so each inequality is a lemma of its own (`OthersGainNothing`,
  `OthersLoseLittle`, `JoinerGainsLittle`, `JoinerLosesNothing`).
* The bridge. `ClaimsIInv`: no claim of the first version is left when a call of the new
  code is made, and a first-version limit still to be moved has not been used yet
  (`OldLimitIsFresh`). `ClaimsMintedWithinLimit` (`MintedWithinLimit`) and
  `ClaimsAreFinal` (`ClaimIsFinal`) need only this; `ClaimsBridgeIsBacked` (`BridgeIsBacked`) follows
  the sum of what is owed over all networks and transactions through every call.
* The trader. `PaymentStaysAccounted` (`PaymentIsAccounted`): not inductive by itself, as
  prices and refunds are rounded down in different places. The strengthening
  `RoundedDown` keeps the exact values beside the rounded ones: what was paid is less
  than the exact price of the weight by at most a fraction of a unit for each purchase,
  what was refunded is no more than the exact price of the weight given back, and as
  long as no more was given back than paid for, what is left covers the difference
  (`PriceRounds`, `PurchaseRounds`, `RefundRounds`, `WithinIsCovered`). It also says that nothing
  counts as paid that the trader does not remember, and that Root changes prices only
  between messages.

`TotalsProofs` proves what a sum over a finite set does when one summand changes, when a
summand-free part of the set is dropped, when the summands are renamed, added pairwise or
multiplied by a constant, and when the set is split. It also has the two facts behind
every proof about a loop: `IntervalInduction`, induction stated about a set instead of a
predicate (a set of numbers with 0 and, with k - 1, also k has all of 0..n), and
`IterationExists`: n steps from a set to itself have a trace, which is what a recursive
function of the models is.

Of these, `ErasWindowed`, `EndedErasHaveStart`, `TypesHold`, `EthereumTypeCorrect`,
`SharesAlwaysAddUp`, `RewardsImplementEras` and `IncentivesImplementPool` state facts
that no run checks by itself: they are parts of the inductive invariants that the runs'
properties rest on, or carry a theorem from one specification to the next.

Two properties changed because the proofs did not go through. `ShownIsCovered` used to
say that what is shown is covered without exception; that held in the instance of the
run, and fails with more shares, because a partial removal repays the debt rounded down and the
rest of the account may be overdrawn by a unit. `JoiningIsNeutral` allowed a unit,
which is true only while the accuracy is large against shares and rewards;
`Imprecision` says how much more it is, and is 0 in the run.

Loops of the code that the proofs reach are recursive functions over the indices of a
sequence, or functions given at once, rather than folds, which the provers cannot unfold.

Only model-checked: `PlannedEraStarts`, `ClaimsArePaid` and `MacroEnds`, because liveness
under fairness is beyond the prover; `CurveIsSound` and `CurveAgreesWithInflation`, which are
numerical statements about two truncated Taylor series with rounding in every term: they
hold on the grid of inputs with the tolerance that is stated, and no argument short of an
analysis of the series would give them for all inputs; and of course the violations.

## 5. Findings

1. A chunk is due when the PLANNED era reaches unbonding era + `BondingDuration`;
   a deferred slash is enacted when the ACTIVE era has gone `SlashDeferDuration`
   + 1 eras beyond the report's. The planned era is one ahead during the last
   session of every era. With durations one apart, as `integrity_test` allows and
   as the runtime configures them (28 and 27), stake unbonded in the era a slash
   was deferred in can be withdrawn in that session, just before the slash.
   `tests.rs` states the opposite for every deferral below the bonding duration.
2. `claim_account` reads the nonce of the padded account after `merge_account`
   has emptied and thereby reaped it, so the larger nonce is not kept.
3. `buy_weight` adds the weight to the trader twice. `refund_weight`, which means to
   "refund at most the weight we paid", therefore gives back money for up to twice that
   weight: one purchase for 1 unit, one refund of 2. An executor that never asks for more
   than it bought is not affected (`PaymentIsAccounted`), except that weight bought in
   another asset can be given back at the price of the first one.

Observations without a run:

* Payouts round every share to the nearest unit. An era's shares can take more than
  its reward, out of what other eras are owed; a later payout that passed every check may then
  fail until the next fees arrive. The comment in `do_payout_stakers`
  (`impls.rs`:168) says no errors are allowed there.
* `kick` removes only the first copy of a target that a nomination names twice.
* Killing a slashed stash removes its slashing spans; when it bonds and validates
  again, the votes for it that the slash had voided count again.
* The documentation of `get_npos_voters` says voters whose votes are all void count
  toward the limit; the code does not take them and goes on, up to twice the limit
  of voters seen.
* None of the migrations v6 to v9 is wired into the runtime's executive.
* The comment in `compute_points` (`reward-curve/src/lib.rs`:291) says the segment length
  keeps the number of pieces below `max_piece_count`, which the macro documents as the
  maximum (line 50) and the generated test asserts (line 435). The vertical step is
  shortened in whole units and never lengthened again, so that pieces may be short in both
  directions: at the scale of the code a minimum of 25000, a maximum of 28200, an ideal
  stake of 100000, a falloff of 1000000 and 1000 pieces give 1482, and in the run's grid
  there are 13 of 12. No property bounds the number. The runtime's curve has 32 of 40, and
  the runtime builds it and no longer uses it.
* With a small `max_piece_count` `y - delta_y` goes below zero in `compute_points` and the
  macro panics.
* A reporter's share below the existential deposit, to an account that does not
  exist, leaves the issuance, although the comment in `pay_reporters` says "no change
  in total issuance". The priority fee of an Ethereum transaction does the same when
  the author's padded account does not exist.
* A development chain without endowed accounts issues only the authors' balances and
  the three deposits of the pallets (`3 * DOLLARS / 10`). The mainnet's table adds up
  to 88,888,887.9, and the revenue wallet's own deposit completes the total supply.
* A partial removal from a reward pool repays the debt rounded down, so that what is
  left of the account may owe a unit more than it is worth; its owner is shown 0 until
  more rewards accrue.
* The queries of the reward pool show 0 for a reward that is exactly
  `ExistentialReward`; `remove_share` keeps it too, and `claim_rewards` pays it.
* `claims`, `reward-pool`, `incentives` and `erc20-precompile` are not in this
  runtime's `construct_runtime!`.
* `StakingLedger::slash` rounds each proportional share and does not bound it by
  what remains to be slashed. When rounding leaves a unit over, the next earlier
  chunk loses its whole proportion, so the slash can exceed its amount although
  nothing became dust, which the documentation gives as the only reason.
  `StakingLedger` keeps this.
* `remove_share` with a reward of at most `ExistentialReward` removes the shares
  and their debt but leaves `total_rewards` as it was. What the remaining shares
  stand for then exceeds what is useable, and the check that "should not happen"
  refuses their removal and their claims until enough new rewards accrue: with one
  share of A's, 10 accrued, a second share that B adds and takes back at once, A is
  shown 0. For the same reason an account that joins a pool everybody has left may
  find rewards accrued.
* `validate_transaction_common` subtracts the weight of the gas limit (31250 per
  gas) from a u64 priority that was divided by 10000 or 20000. Unless the tip is
  very large the difference wraps in the release build, so that a transaction
  without tip has one of the largest priorities, a larger tip may give a smaller
  one, and an address off the white list may come before one on it. The tests
  (`frame/ethereum/src/tests/legacy.rs`) expect priority 0.
  `EthereumPool` keeps the wrapping; what order the priorities should give is not
  stated anywhere, so no property is.

Limits of the era clock, outside the depths the runs and theorems allow or
deliberate in the code: with a history depth of 1 the active era is not strictly
inside the history while an era is planned ahead, though the documentation of
`HistoryDepth` asks for it; with the largest u32 as depth, `depth + 1` wraps and
`trigger_new_era` clears the era it has just planned; `ensure_new_era` replaces
`ForceNone` by `ForceNew`.

## 6. Not modelled, and why

* Genesis elections that return an error: `trigger_new_era` for era 0 has no
  stakers then, which is the state `Init` allows.
* Elections, and with them `set_validator_count`, `increase_validator_count`,
  `scale_validator_count` and the minimum of the sequence of validators: the outcome
  is an input, any member of `ElectionResults` or a failure. What the election is
  given is in `Intentions`.
* Weights, events, logging, benchmarks, mocks and the printing and parsing of code in
  the curve's macro.
* Logs, blooms and the digest's post-log of the Ethereum pallet, its signatures and
  chain ids: data the EVM and clients read, of which nothing in the pallet depends.
* The library: sessions, balances, the bags list, the treasury, the EVM and the
  transaction pool are modelled from how the code uses them and marked external.
* The deposits of signed election solutions: the election provider (library) burns what it
  slashes of them and mints its rewards (`SlashHandler` and `RewardHandler` are `()`), so
  `MoneyIsKept` is about everything else.
* The node's service and command line, RPC, primitives and the rest of the runtime's
  configuration: wiring and I/O around library code.

## 7. What is left

1. A bound on `excess`: half a unit for every part that a payout rounds, from the lemmas on
   fixed-point fractions.
2. For the curve, a bound on the errors of `Log2` and of the series in terms of `Million`,
   from which `CurveIsSound` could be derived.
3. A second stash in `StakingLedger`, to bring the amounts `Slashing` computes and the
   ledgers they are taken from into one specification.
4. The relation between the priorities of the pool and the white list, once the repository
   states which order is meant.
