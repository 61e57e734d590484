--------------------------- MODULE StakingRewards ---------------------------
(***************************************************************************)
(* Staking rewards paid out of a fund.                                     *)
(*                                                                         *)
(* This pallet mints nothing.  Fees, tips, dust and treasury burns flow    *)
(* into the fund account (pallet-fund), revenue is donated to a wallet     *)
(* account (pallet-revenue-fund) that is emptied into the fund.  When an   *)
(* era ends, end_era promises the part of the fund that no earlier era has *)
(* promised to the stakers of that era (ErasValidatorReward, and           *)
(* ErasNotClaimedReward for what of it is still unpaid).  payout_stakers,  *)
(* which anyone may call, pays one validator and its nominators for one    *)
(* era of the history window; ledger.claimed_rewards prevents a second     *)
(* payout.  What is not claimed while the era is in the window is free     *)
(* again for later eras.                                                   *)
(*                                                                         *)
(* Extrinsics are transactional: a failing call leaves no trace and is no  *)
(* step of this specification.  Amounts bonded and locked are left out,    *)
(* except that a payee decides whether a payment is made.                  *)
(***************************************************************************)
EXTENDS Eras, Totals, Perbill

CONSTANTS
    Stashes,            \* stash accounts, of validators and nominators
    Controllers,        \* controller accounts
    GenesisController,  \* the genesis stakers: stash -> controller or None
    ElectionResults,    \* elections: validator -> (backing stash -> stake);
                        \* a validator without stake is not elected
    Commissions,        \* commissions validators ask for, as Perbill parts
    Payees,             \* the reward destinations in use
    Leavers,            \* the stashes that may be killed
    MaxNominatorRewardedPerValidator,
    ExistentialDeposit, \* primitives::EXISTENTIAL_DEPOSIT
    TotalIssuance,      \* what all accounts hold together
    Payments,           \* amounts of single fees and donations
    MaxPoints           \* BOUND: blocks of an era that earn points

RewardDestination == {"Staked", "Stash", "Controller", "Account", "None"}

\* StakingLedger, without its amounts.
LedgerRecord == [stash : Stashes, claimed_rewards : SUBSET Era]

ASSUME RewardsAssumption ==
    /\ IsFiniteSet(Stashes)
    /\ None \notin Controllers
    /\ None \notin Stashes
    /\ None \notin LedgerRecord
    /\ GenesisController \in [Stashes -> Controllers \cup {None}]
    /\ \A s, t \in Stashes :
         GenesisController[s] = GenesisController[t] =>
           s = t \/ GenesisController[s] = None
    /\ \A support \in ElectionResults :
         support \in [Stashes -> [Stashes -> Nat]]
    /\ Commissions \subseteq Parts
    /\ Payees \subseteq RewardDestination
    /\ Leavers \subseteq Stashes
    /\ MaxNominatorRewardedPerValidator \in Nat
    /\ ExistentialDeposit \in Nat \ {0}
    /\ TotalIssuance \in Nat
    /\ TotalIssuance >= 2 * ExistentialDeposit
    /\ Payments \subseteq Nat \ {0}
    /\ MaxPoints \in Nat

VARIABLES
    fund,                    \* free balance of the fund account
    wallet,                  \* free balance of the revenue wallet
    users,                   \* what all the other accounts hold
    eras_validator_reward,   \* ErasValidatorReward
    eras_not_claimed_reward, \* ErasNotClaimedReward (0 where absent; it has
                             \* the same keys as ErasValidatorReward)
    eras_reward_points,      \* ErasRewardPoints, in blocks (20 points each)
    eras_stakers_clipped,    \* ErasStakersClipped
    eras_validator_prefs,    \* ErasValidatorPrefs, the commission
    bonded,                  \* Bonded
    payee,                   \* Payee ("Staked" where absent)
    ledger,                  \* Ledger: the stash and claimed_rewards
    payouts,                 \* HISTORY: payouts made per era and validator
    excess                   \* HISTORY: what payouts of an era took beyond
                             \* the reward promised for it

moneyVars == <<fund, wallet, users>>
rewardVars == <<eras_validator_reward, eras_not_claimed_reward>>
stakerVars == <<eras_reward_points, eras_stakers_clipped,
                eras_validator_prefs>>
bondVars == <<bonded, payee, ledger>>
historyVars == <<payouts, excess>>
vars == <<eraVars, moneyVars, rewardVars, stakerVars, bondVars, historyVars>>

-----------------------------------------------------------------------------
(***************************************************************************)
(* Exposures.                                                              *)
(***************************************************************************)

Nothing == [s \in Stashes |-> 0]

NoExposure == [own |-> 0, total |-> 0, others |-> Nothing]

Exposure == [own : Nat, total : Nat, others : [Stashes -> Nat]]

\* Who backs v in an election result besides v itself.
Nominators(support, v) == {n \in Stashes \ {v} : support[v][n] > 0}

\* store_stakers_info keeps the largest MaxNominatorRewardedPerValidator
\* nominators of v; among equals any may be kept.
RewardedNominators(support, v) ==
    {kept \in SUBSET Nominators(support, v) :
       /\ \/ kept = Nominators(support, v)
          \/ Cardinality(kept) = MaxNominatorRewardedPerValidator
       /\ Cardinality(kept) <= MaxNominatorRewardedPerValidator
       /\ \A n \in kept, m \in Nominators(support, v) \ kept :
            support[v][n] >= support[v][m]}

\* collect_exposures and the clipping of store_stakers_info: the total still
\* counts the nominators that are not kept.
ClippedStakers ==
    UNION {{[v \in Stashes |->
               [own    |-> support[v][v],
                total  |-> Total(support[v], Stashes),
                others |-> [n \in Stashes |->
                              IF n \in kept[v] THEN support[v][n] ELSE 0]]] :
              kept \in {k \in [Stashes -> SUBSET Stashes] :
                          \A v \in Stashes :
                             k[v] \in RewardedNominators(support, v)}} :
           support \in ElectionResults}

\* The commissions stored with those stakers: elected validators only.
PrefsOf(stakers, commission) ==
    [v \in Stashes |-> IF stakers[v].total > 0 THEN commission[v] ELSE 0]

-----------------------------------------------------------------------------
(***************************************************************************)
(* Era information.                                                        *)
(***************************************************************************)

\* clear_era_information, for one map.
Clear(map, cleared, default) ==
    [e \in Era |-> IF e \in cleared THEN default ELSE map[e]]

\* MUTANT: the promise itself is forgotten in the clean-up.
ClearNotClaimedOnly(rewards, notClaimed, cleared) ==
    /\ eras_validator_reward' = rewards
    /\ eras_not_claimed_reward' = Clear(notClaimed, cleared, 0)

ClearRewards(rewards, notClaimed, cleared) ==
    /\ eras_validator_reward' = Clear(rewards, cleared, None)
    /\ eras_not_claimed_reward' = Clear(notClaimed, cleared, 0)

\* Genesis: the genesis stakers are bonded with payee Staked, era 0 (and era 1
\* if it is planned) has the stakers of the genesis election, if it succeeded;
\* the fund and the wallet hold the existential deposit.
Init ==
    /\ ErasInit
    /\ fund = ExistentialDeposit
    /\ wallet = ExistentialDeposit
    /\ users = TotalIssuance - 2 * ExistentialDeposit
    /\ eras_validator_reward = [e \in Era |-> None]
    /\ eras_not_claimed_reward = [e \in Era |-> 0]
    /\ eras_reward_points = [e \in Era |-> Nothing]
    /\ \E stakers \in ClippedStakers \cup {[v \in Stashes |-> NoExposure]},
          commission \in [Stashes -> Commissions] :
         /\ eras_stakers_clipped =
              [e \in Era |-> IF e <= current_era THEN stakers
                             ELSE [v \in Stashes |-> NoExposure]]
         /\ eras_validator_prefs =
              [e \in Era |-> IF e <= current_era
                             THEN PrefsOf(stakers, commission) ELSE Nothing]
    /\ bonded = GenesisController
    /\ payee = [s \in Stashes |-> "Staked"]
    /\ ledger = [c \in Controllers |->
                   IF \E s \in Stashes : GenesisController[s] = c
                   THEN [stash |-> CHOOSE s \in Stashes :
                                     GenesisController[s] = c,
                         claimed_rewards |-> {}]
                   ELSE None]
    /\ payouts = [e \in Era |-> Nothing]
    /\ excess = 0

\* reward_by_ids for the author of a block, in the era active before any
\* rotation of that block (Authorship runs before Session).  `None`: no author.
NoteAuthor(author) ==
    IF author = None THEN eras_reward_points
    ELSE [eras_reward_points EXCEPT ![active_era][author] = @ + 1]

MayAuthor(author) ==
    author # None =>
      Total(eras_reward_points[active_era], Stashes) < MaxPoints

\* MUTANT: the oldest era of the window is forgotten.
NotClaimedWindowShort ==
    {e \in Era :
       /\ SaturatingSub(active_era, WrappingSub(history_depth, 1)) < e
       /\ e < active_era}

\* get_total_not_claimed_reward: the eras it sums over, [E - (depth - 1), E).
NotClaimedWindow ==
    {e \in Era :
       /\ SaturatingSub(active_era, WrappingSub(history_depth, 1)) <= e
       /\ e < active_era}

\* trigger_wallet: the whole wallet moves to the fund, if the transfer works.
WalletMoves == wallet > 0 /\ fund + wallet >= ExistentialDeposit

FundAfterWallet == IF WalletMoves THEN fund + wallet ELSE fund

\* MUTANT: the fund is read before the wallet is emptied into it.
EraRewardBeforeWallet ==
    SaturatingSub(SaturatingSub(fund, ExistentialDeposit),
                  Total(eras_not_claimed_reward, NotClaimedWindow))

\* end_era's reward: what the fund holds beyond its existential deposit and
\* beyond what earlier eras are still owed.
EraReward ==
    SaturatingSub(SaturatingSub(FundAfterWallet, ExistentialDeposit),
                  Total(eras_not_claimed_reward, NotClaimedWindow))

\* MUTANT: a reward of zero is not recorded.
RewardsAfterEndIfAny ==
    IF EndsEra /\ active_start /\ EraReward > 0
    THEN [eras_validator_reward EXCEPT ![active_era] = EraReward]
    ELSE eras_validator_reward

\* The maps before trigger_new_era cleans up: end_era has run.
RewardsAfterEnd ==
    IF EndsEra /\ active_start
    THEN [eras_validator_reward EXCEPT ![active_era] = EraReward]
    ELSE eras_validator_reward

NotClaimedAfterEnd ==
    IF EndsEra /\ active_start
    THEN [eras_not_claimed_reward EXCEPT ![active_era] = EraReward]
    ELSE eras_not_claimed_reward

\* end_era's part in the money: it empties the wallet.
MoneyAfterEnd ==
    IF EndsEra /\ active_start
    THEN /\ fund' = FundAfterWallet
         /\ wallet' = IF WalletMoves THEN 0 ELSE wallet
         /\ UNCHANGED users
    ELSE UNCHANGED moneyVars

BeginBlockBy(author) ==
    /\ BeginBlock
    /\ MayAuthor(author)
    /\ eras_reward_points' = NoteAuthor(author)
    /\ UNCHANGED <<moneyVars, rewardVars, eras_stakers_clipped,
                   eras_validator_prefs, bondVars, historyVars>>

\* A block that ends the session: note_author, end_session with end_era,
\* start_session, new_session with trigger_new_era and store_stakers_info.
RotateBlockBy(author, elected) ==
    /\ BeginBlockRotating(elected)
    /\ MayAuthor(author)
    /\ MoneyAfterEnd
    /\ ClearRewards(RewardsAfterEnd, NotClaimedAfterEnd, ClearedEras(elected))
    /\ eras_reward_points' =
         Clear(NoteAuthor(author), ClearedEras(elected), Nothing)
    /\ IF PlansEra(elected)
       THEN \E stakers \in ClippedStakers, commission \in [Stashes -> Commissions] :
              /\ eras_stakers_clipped' =
                   [Clear(eras_stakers_clipped, ClearedEras(elected),
                          [v \in Stashes |-> NoExposure])
                      EXCEPT ![current_era + 1] = stakers]
              /\ eras_validator_prefs' =
                   [Clear(eras_validator_prefs, ClearedEras(elected), Nothing)
                      EXCEPT ![current_era + 1] = PrefsOf(stakers, commission)]
       ELSE UNCHANGED <<eras_stakers_clipped, eras_validator_prefs>>
    /\ UNCHANGED <<bondVars, historyVars>>

FinalizeBlock ==
    /\ OnFinalize
    /\ UNCHANGED <<moneyVars, rewardVars, stakerVars, bondVars, historyVars>>

-----------------------------------------------------------------------------
(***************************************************************************)
(* do_payout_stakers.                                                      *)
(***************************************************************************)

\* The checks it makes before it changes anything.  A bonded stash always has
\* a ledger (BondedHasLedger), so NotController is not among them.
PayoutAccepted(v, e) ==
    /\ e <= current_era
    /\ e >= SaturatingSub(current_era, history_depth)
    /\ eras_validator_reward[e] # None
    /\ bonded[v] # None
    /\ e \notin ledger[bonded[v]].claimed_rewards

\* What the validator and its nominators are entitled to.
ValidatorTotalPayout(v, e) ==
    MulNearest(FromRational(eras_reward_points[e][v],
                            Total(eras_reward_points[e], Stashes)),
               eras_validator_reward[e])

CommissionPayout(v, e) ==
    MulNearest(eras_validator_prefs[e][v], ValidatorTotalPayout(v, e))

\* The part of `stake` in what is left after the commission.
StakingPayout(v, e, stake) ==
    MulNearest(FromRational(stake, eras_stakers_clipped[e][v].total),
               ValidatorTotalPayout(v, e) - CommissionPayout(v, e))

Due(v, e) ==
    [s \in Stashes |->
       IF s = v
       THEN StakingPayout(v, e, eras_stakers_clipped[e][v].own)
              + CommissionPayout(v, e)
       ELSE StakingPayout(v, e, eras_stakers_clipped[e][v].others[s])]

\* Whether make_payout may create the account it deposits into.
CreatesAccount(s) ==
    payee[s] = "Account" \/ (payee[s] = "Controller" /\ bonded[s] # None)

\* make_payout pays nothing to a stash that chose no destination, nor to one
\* whose destination needs a bond it no longer has.  Depositing less than the
\* existential deposit into an account that does not exist pays nothing
\* either; `dead` are the stashes whose destination account is in that case.
Receives(s, amount, dead) ==
    \/ payee[s] = "Stash"
    \/ payee[s] = "Staked" /\ bonded[s] # None
    \/ /\ CreatesAccount(s)
       /\ s \in dead => amount >= ExistentialDeposit

\* The imbalance all these payments make together.
PayoutValue(due, dead) ==
    Total([s \in Stashes |-> IF Receives(s, due[s], dead) THEN due[s] ELSE 0],
          Stashes)

\* Currency::settle from the fund with KeepAlive.
CanSettle(value) ==
    \/ value = 0
    \/ /\ fund >= value
       /\ fund - value >= ExistentialDeposit \/ fund < ExistentialDeposit

\* ledger.claimed_rewards after the payout: pruned to the history, era added.
ClaimedAfterPayout(v, e) ==
    {x \in ledger[bonded[v]].claimed_rewards :
       x >= SaturatingSub(current_era, history_depth)} \cup {e}

MarkClaimed(v, e) ==
    ledger' = [ledger EXCEPT
                 ![bonded[v]].claimed_rewards = ClaimedAfterPayout(v, e)]

\* MUTANT: nothing is taken off.
UpdateNotClaimedRewardSkipped(e, value) ==
    UNCHANGED eras_not_claimed_reward

\* update_not_claimed_reward: what was paid is no longer owed.
UpdateNotClaimedReward(e, value) ==
    eras_not_claimed_reward' =
      [eras_not_claimed_reward EXCEPT ![e] = SaturatingSub(@, value)]

\* A validator without reward points: the era is marked as claimed and nothing
\* is paid.
PayoutNothing(v, e) ==
    /\ in_block
    /\ PayoutAccepted(v, e)
    /\ eras_reward_points[e][v] = 0
    /\ MarkClaimed(v, e)
    /\ payouts' = [payouts EXCEPT ![e][v] = @ + 1]
    /\ UNCHANGED <<eraVars, moneyVars, rewardVars, stakerVars, bonded, payee,
                   excess>>

\* The payments, settled from the fund.
PayoutStakers(v, e, dead) ==
    /\ in_block
    /\ PayoutAccepted(v, e)
    /\ eras_reward_points[e][v] > 0
    /\ LET value == PayoutValue(Due(v, e), dead)
       IN  /\ CanSettle(value)
           /\ fund' = fund - value
           /\ users' = users + value
           /\ UpdateNotClaimedReward(e, value)
           /\ excess' =
                excess + SaturatingSub(value, eras_not_claimed_reward[e])
    /\ MarkClaimed(v, e)
    /\ payouts' = [payouts EXCEPT ![e][v] = @ + 1]
    /\ UNCHANGED <<eraVars, wallet, eras_validator_reward, stakerVars, bonded,
                   payee>>

-----------------------------------------------------------------------------
(***************************************************************************)
(* Bonding, as far as claims depend on it.                                 *)
(***************************************************************************)

\* MUTANT: a new ledger starts with no claims.
BondForgetsEras(s, c, dest) ==
    /\ in_block
    /\ bonded[s] = None
    /\ ledger[c] = None
    /\ bonded' = [bonded EXCEPT ![s] = c]
    /\ payee' = [payee EXCEPT ![s] = dest]
    /\ ledger' = [ledger EXCEPT ![c] = [stash |-> s, claimed_rewards |-> {}]]
    /\ UNCHANGED <<eraVars, moneyVars, rewardVars, stakerVars, historyVars>>

\* bond: every era that has already passed counts as claimed.
Bond(s, c, dest) ==
    /\ in_block
    /\ bonded[s] = None
    /\ ledger[c] = None
    /\ bonded' = [bonded EXCEPT ![s] = c]
    /\ payee' = [payee EXCEPT ![s] = dest]
    /\ ledger' =
         [ledger EXCEPT ![c] =
            [stash |-> s,
             claimed_rewards |->
               {e \in Era : /\ SaturatingSub(current_era, history_depth) <= e
                            /\ e < current_era}]]
    /\ UNCHANGED <<eraVars, moneyVars, rewardVars, stakerVars, historyVars>>

\* kill_stash, the end of force_unstake (and of reap_stash and of a
\* withdraw_unbonded that takes everything).
KillStash(s) ==
    /\ in_block
    /\ bonded[s] # None
    /\ bonded' = [bonded EXCEPT ![s] = None]
    /\ ledger' = [ledger EXCEPT ![bonded[s]] = None]
    /\ payee' = [payee EXCEPT ![s] = "Staked"]
    /\ UNCHANGED <<eraVars, moneyVars, rewardVars, stakerVars, historyVars>>

\* set_controller moves the ledger.
SetController(s, c) ==
    /\ in_block
    /\ bonded[s] # None
    /\ ledger[c] = None
    /\ bonded' = [bonded EXCEPT ![s] = c]
    /\ ledger' = [ledger EXCEPT ![bonded[s]] = None, ![c] = ledger[bonded[s]]]
    /\ UNCHANGED <<eraVars, moneyVars, rewardVars, stakerVars, payee,
                   historyVars>>

SetPayee(c, dest) ==
    /\ in_block
    /\ ledger[c] # None
    /\ payee' = [payee EXCEPT ![ledger[c].stash] = dest]
    /\ UNCHANGED <<eraVars, moneyVars, rewardVars, stakerVars, bonded, ledger,
                   historyVars>>

-----------------------------------------------------------------------------
(***************************************************************************)
(* The fund and the wallet.                                                *)
(***************************************************************************)

\* A fee, tip, dust or treasury burn handed to the fund account.
PayFee(amount) ==
    /\ in_block
    /\ users >= amount
    /\ users' = users - amount
    /\ fund' = fund + amount
    /\ UNCHANGED <<eraVars, wallet, rewardVars, stakerVars, bondVars,
                   historyVars>>

\* donate: a transfer to the wallet, which must end up with a deposit.
Donate(amount) ==
    /\ in_block
    /\ users >= amount
    /\ wallet + amount >= ExistentialDeposit
    /\ users' = users - amount
    /\ wallet' = wallet + amount
    /\ UNCHANGED <<eraVars, fund, rewardVars, stakerVars, bondVars,
                   historyVars>>

\* triger: anyone may empty the wallet into the fund.
Triger ==
    /\ in_block
    /\ WalletMoves
    /\ fund' = FundAfterWallet
    /\ wallet' = 0
    /\ UNCHANGED <<eraVars, users, rewardVars, stakerVars, bondVars,
                   historyVars>>

\* set_history_depth, for all maps.
ChangeHistoryDepth(d) ==
    /\ SetHistoryDepth(d)
    /\ ClearRewards(eras_validator_reward, eras_not_claimed_reward,
                    ErasClearedByDepth(d))
    /\ eras_reward_points' =
         Clear(eras_reward_points, ErasClearedByDepth(d), Nothing)
    /\ eras_stakers_clipped' =
         Clear(eras_stakers_clipped, ErasClearedByDepth(d),
               [v \in Stashes |-> NoExposure])
    /\ eras_validator_prefs' =
         Clear(eras_validator_prefs, ErasClearedByDepth(d), Nothing)
    /\ UNCHANGED <<moneyVars, bondVars, historyVars>>

ChangeForcing ==
    /\ ForceNoEras \/ ForceNewEra \/ ForceNewEraAlways \/ EnsureNewEra
    /\ UNCHANGED <<moneyVars, rewardVars, stakerVars, bondVars, historyVars>>

Next ==
    \/ \E author \in Stashes \cup {None} : BeginBlockBy(author)
    \/ \E author \in Stashes \cup {None}, elected \in BOOLEAN :
         RotateBlockBy(author, elected)
    \/ FinalizeBlock
    \/ \E v \in Stashes, e \in Era : PayoutNothing(v, e)
    \/ \E v \in Stashes, e \in Era :
         \E dead \in SUBSET {s \in Stashes : CreatesAccount(s)} :
           PayoutStakers(v, e, dead)
    \/ \E s \in Stashes, c \in Controllers, dest \in Payees : Bond(s, c, dest)
    \/ \E s \in Leavers : KillStash(s)
    \/ \E s \in Stashes, c \in Controllers : SetController(s, c)
    \/ \E c \in Controllers, dest \in Payees : SetPayee(c, dest)
    \/ \E amount \in Payments : PayFee(amount)
    \/ \E amount \in Payments : Donate(amount)
    \/ Triger
    \/ \E d \in HistoryDepths : ChangeHistoryDepth(d)
    \/ ChangeForcing

Spec == Init /\ [][Next]_vars

-----------------------------------------------------------------------------
(***************************************************************************)
(* Properties.                                                             *)
(***************************************************************************)

TypeOK ==
    /\ ErasTypeOK
    /\ fund \in Nat
    /\ wallet \in Nat
    /\ users \in Nat
    /\ eras_validator_reward \in [Era -> Nat \cup {None}]
    /\ eras_not_claimed_reward \in [Era -> Nat]
    /\ eras_reward_points \in [Era -> [Stashes -> Nat]]
    /\ eras_stakers_clipped \in [Era -> [Stashes -> Exposure]]
    /\ eras_validator_prefs \in [Era -> [Stashes -> Parts]]
    /\ bonded \in [Stashes -> Controllers \cup {None}]
    /\ payee \in [Stashes -> RewardDestination]
    /\ ledger \in [Controllers -> LedgerRecord \cup {None}]
    /\ payouts \in [Era -> [Stashes -> Nat]]
    /\ excess \in Nat

\* A bonded stash has the ledger of its controller, and every ledger belongs to
\* a bonded stash: set_controller, bond and kill_stash keep the two maps in
\* step.
BondedHasLedger ==
    /\ \A s \in Stashes : bonded[s] # None =>
         /\ ledger[bonded[s]] # None
         /\ ledger[bonded[s]].stash = s
    /\ \A c \in Controllers : ledger[c] # None => bonded[ledger[c].stash] = c

\* No validator is ever paid twice for an era, whatever happens in between to
\* its bond, its controller and the history depth.
NoDoublePayout == \A e \in Era, v \in Stashes : payouts[e][v] <= 1

\* The fund can pay everything that is promised and not yet claimed, except
\* for what earlier payouts took beyond their era's reward by rounding up.
\* The existential deposit of the fund is never touched.
FundCoversRewards ==
    /\ fund >= ExistentialDeposit
    /\ fund + excess >=
         ExistentialDeposit + Total(eras_not_claimed_reward, Era)

\* A promised reward can be claimed: it belongs to an era that has ended and
\* is in the history window, and it is never lost from the account of what
\* end_era still owes.
RewardsClaimable ==
    \A e \in Era : eras_validator_reward[e] # None =>
        /\ e < active_era
        /\ e >= SaturatingSub(current_era, history_depth)

\* An era that ends leaves a reward behind for its stakers, unless the same
\* rotation clears it because the history is one era deep.
EndedEraIsRewarded ==
    [][active_era' # active_era =>
         \/ eras_validator_reward'[active_era] # None
         \/ active_era < SaturatingSub(current_era', history_depth)]_vars

\* Nothing lies idle in the fund: when an era ends, everything beyond the
\* existential deposit is promised to some era, fees and donations of that era
\* as well as the rewards that earlier eras never claimed.
FundFullyPromised ==
    [][active_era' # active_era =>
         fund' <= ExistentialDeposit + Total(NotClaimedAfterEnd, Era)]_vars

Budget == INSTANCE EraBudget WITH
              Eras <- Era,
              purse <- fund - ExistentialDeposit,
              promises <- eras_not_claimed_reward,
              overdraft <- excess

\* The pallet implements the budget: whatever happens to sessions, bonds, the
\* history depth and the wallet, money only enters the fund, only payouts take
\* it out, each at the expense of its own era, and an ending era is promised
\* exactly what no other era is owed - although end_era looks at a window of
\* eras only.
ImplementsBudget == Budget!BudgetSpec
=============================================================================
