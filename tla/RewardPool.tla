----------------------------- MODULE RewardPool -----------------------------
(***************************************************************************)
(* A reward pool (modules/reward-pool) fed by the incentives module        *)
(* (modules/incentives).                                                   *)
(*                                                                         *)
(* Rewards accrue to the pool by the block and belong to the shares in it. *)
(* An account that joins late "borrows" its part of the rewards so far: a  *)
(* virtual amount is added to total_rewards, so that the price of a share  *)
(* stays the same, and is taken off again when the account leaves or       *)
(* claims.  total_rewards_useable is the part that is real money in the    *)
(* pool's account.                                                         *)
(*                                                                         *)
(* Pools share no state (each has an account of its own), so one is        *)
(* modelled.  The operations are called inside a storage transaction: one  *)
(* that returns an error is no step.                                       *)
(***************************************************************************)
EXTENDS Currency, Totals

CONSTANTS
    Amounts,            \* the amounts of shares they add and remove
    DexIncentiveReward, \* DexIncentiveRewards of this pool, 0 if absent
    ExistentialReward,  \* T::ExistentialReward
    Accuracy,           \* FixedU128::DIV, 10^18 in the code
    MaxBalance,         \* the largest Share and Balance, 2^128 - 1
    MaxBlock            \* BOUND: the last block of a behaviour

ASSUME PoolAssumption ==
    /\ IsFiniteSet(Accounts)
    /\ Amounts \subseteq Nat
    /\ DexIncentiveReward \in Nat
    /\ ExistentialReward \in Nat
    /\ Accuracy \in Nat \ {0}
    /\ MaxBalance \in Nat
    /\ MaxBlock \in Nat \ {0}

VARIABLES
    total_shares,          \* PoolInfo
    total_rewards,
    total_rewards_useable,
    last_update_block,
    shares,                \* PoolAccountData, by account
    borrowed_amount,
    balance,               \* of the pool's sub-account
    block_number,
    lost                   \* HISTORY: dust and tiny deposits the currency
                           \* took from the sub-account

poolVars == <<total_shares, total_rewards, total_rewards_useable,
              last_update_block, shares, borrowed_amount, balance,
              block_number, lost>>

-----------------------------------------------------------------------------
(***************************************************************************)
(* Fixed point numbers and the currency, both from libraries.              *)
(***************************************************************************)

\* FixedU128::checked_from_rational and checked_mul_int: both round down.
CheckedFromRational(n, d) == (n * Accuracy) \div d
CheckedMulInt(ratio, n) == (ratio * n) \div Accuracy

\* An account below the existential deposit does not exist: what it holds, or
\* would hold, is dust.
Kept(amount) == IF amount >= ExistentialDeposit THEN amount ELSE 0

\* The sub-account after a deposit and a transfer out of it.
MoveMoney(deposit, transfer) ==
    LET before == IF balance = 0 THEN Kept(deposit) ELSE balance + deposit
    IN  /\ before >= transfer
        /\ balance' = IF transfer = 0 THEN before ELSE Kept(before - transfer)
        /\ lost' = lost + (balance + deposit - transfer) - balance'

-----------------------------------------------------------------------------
(***************************************************************************)
(* update_pool_reward, the beginning of every operation.                   *)
(***************************************************************************)

\* calc_pool_reward with caculate_reward: nothing accrues to an empty pool.
PendingReward ==
    IF block_number <= last_update_block \/ total_shares = 0
    THEN 0
    ELSE DexIncentiveReward * (block_number - last_update_block)

\* The pool's figures after update_pool_reward.
Rewards == total_rewards + PendingReward
Useable == total_rewards_useable + PendingReward

\* checked_add fails beyond MaxBalance, and with it the whole operation.
CanUpdate == Rewards <= MaxBalance /\ Useable <= MaxBalance

\* calc_reward_by_shares: the part of the rewards, borrowed ones included,
\* that `amount` shares stand for.
RewardWithVirtual(amount) ==
    IF total_shares = 0 \/ amount = 0 THEN 0
    ELSE CheckedMulInt(CheckedFromRational(amount, total_shares), Rewards)

-----------------------------------------------------------------------------
PoolInit ==
    /\ total_shares = 0
    /\ total_rewards = 0
    /\ total_rewards_useable = 0
    /\ last_update_block = 0
    /\ shares = [a \in Accounts |-> 0]
    /\ borrowed_amount = [a \in Accounts |-> 0]
    /\ balance = 0
    /\ block_number = 1
    /\ lost = 0

NextBlock ==
    /\ block_number < MaxBlock
    /\ block_number' = block_number + 1
    /\ UNCHANGED <<total_shares, total_rewards, total_rewards_useable,
                   last_update_block, shares, borrowed_amount, balance, lost>>

\* What joining with `amount` shares costs in borrowed rewards.
VirtualRewardAmount(amount) ==
    IF total_shares = 0 THEN 0
    ELSE CheckedMulInt(CheckedFromRational(Rewards, total_shares), amount)

\* None of add_share's sums overflows.
CanAdd(who, amount) ==
    /\ CanUpdate
    /\ total_shares + amount <= MaxBalance
    /\ Rewards + VirtualRewardAmount(amount) <= MaxBalance
    /\ shares[who] + amount <= MaxBalance
    /\ borrowed_amount[who] + VirtualRewardAmount(amount) <= MaxBalance

\* MUTANT: nothing is borrowed on joining.
AddShareForFree(who, amount) ==
    /\ amount > 0
    /\ CanAdd(who, amount)
    /\ total_shares' = total_shares + amount
    /\ total_rewards' = Rewards
    /\ total_rewards_useable' = Useable
    /\ last_update_block' = block_number
    /\ shares' = [shares EXCEPT ![who] = @ + amount]
    /\ MoveMoney(PendingReward, 0)
    /\ UNCHANGED <<borrowed_amount, block_number>>

\* MUTANT: the pool is not told what the account borrowed.
AddShareOffTheBooks(who, amount) ==
    /\ amount > 0
    /\ CanAdd(who, amount)
    /\ total_shares' = total_shares + amount
    /\ total_rewards' = Rewards
    /\ total_rewards_useable' = Useable
    /\ last_update_block' = block_number
    /\ shares' = [shares EXCEPT ![who] = @ + amount]
    /\ borrowed_amount' =
         [borrowed_amount EXCEPT ![who] = @ + VirtualRewardAmount(amount)]
    /\ MoveMoney(PendingReward, 0)
    /\ UNCHANGED block_number

AddShare(who, amount) ==
    /\ amount > 0
    /\ CanAdd(who, amount)
    /\ total_shares' = total_shares + amount
    /\ total_rewards' = Rewards + VirtualRewardAmount(amount)
    /\ total_rewards_useable' = Useable
    /\ last_update_block' = block_number
    /\ shares' = [shares EXCEPT ![who] = @ + amount]
    /\ borrowed_amount' =
         [borrowed_amount EXCEPT ![who] = @ + VirtualRewardAmount(amount)]
    /\ MoveMoney(PendingReward, 0)
    /\ UNCHANGED block_number

\* The part of its debt an account repays with `amount` of its shares.
AccountBalanceToRemove(who, amount) ==
    CheckedMulInt(CheckedFromRational(amount, shares[who]),
                  borrowed_amount[who])

\* The real money `amount` shares of an account are worth.
RewardOf(who, amount) ==
    RewardWithVirtual(amount) - AccountBalanceToRemove(who, amount)

\* get_rewards_by_account_shares succeeds.
CanRemove(who, amount) ==
    /\ CanUpdate
    /\ 0 < amount
    /\ amount <= shares[who]
    /\ amount <= total_shares
    /\ AccountBalanceToRemove(who, amount) <= borrowed_amount[who]
    /\ 0 <= RewardOf(who, amount)
    /\ RewardOf(who, amount) <= Useable

\* remove_share, the reward is too small to be sent: the shares and their debt
\* leave, the rewards they stand for stay.
RemoveShareUnpaid(who, amount) ==
    /\ CanRemove(who, amount)
    /\ RewardOf(who, amount) <= ExistentialReward
    /\ total_shares' = total_shares - amount
    /\ total_rewards' = Rewards
    /\ total_rewards_useable' = Useable
    /\ last_update_block' = block_number
    /\ shares' = [shares EXCEPT ![who] = @ - amount]
    /\ borrowed_amount' = [borrowed_amount EXCEPT
                             ![who] = @ - AccountBalanceToRemove(who, amount)]
    /\ MoveMoney(PendingReward, 0)
    /\ UNCHANGED block_number

\* remove_share with its reward.
RemoveSharePaid(who, amount) ==
    /\ CanRemove(who, amount)
    /\ RewardOf(who, amount) > ExistentialReward
    /\ RewardWithVirtual(amount) <= Rewards
    /\ total_shares' = total_shares - amount
    /\ total_rewards' = Rewards - RewardWithVirtual(amount)
    /\ total_rewards_useable' = Useable - RewardOf(who, amount)
    /\ last_update_block' = block_number
    /\ shares' = [shares EXCEPT ![who] = @ - amount]
    /\ borrowed_amount' = [borrowed_amount EXCEPT
                             ![who] = @ - AccountBalanceToRemove(who, amount)]
    /\ MoveMoney(PendingReward, RewardOf(who, amount))
    /\ UNCHANGED block_number

-----------------------------------------------------------------------------
\* What claim_rewards would pay.
ActualReward(who) == RewardWithVirtual(shares[who]) - borrowed_amount[who]

\* claim_rewards of an account without shares, or with less to claim than
\* what may be sent: the pool is brought up to date, nothing else.
ClaimNothing(who) ==
    /\ CanUpdate
    /\ shares[who] = 0 \/ ActualReward(who) \in 0..(ExistentialReward - 1)
    /\ total_rewards' = Rewards
    /\ total_rewards_useable' = Useable
    /\ last_update_block' = block_number
    /\ MoveMoney(PendingReward, 0)
    /\ UNCHANGED <<total_shares, shares, borrowed_amount, block_number>>

\* MUTANT: the useable rewards stay what they were.
ClaimRewardsKeepsUseable(who) ==
    /\ CanUpdate
    /\ shares[who] > 0
    /\ ActualReward(who) >= ExistentialReward
    /\ ActualReward(who) <= Useable
    /\ total_rewards' = Rewards
    /\ total_rewards_useable' = Useable
    /\ last_update_block' = block_number
    /\ borrowed_amount' =
         [borrowed_amount EXCEPT ![who] = RewardWithVirtual(shares[who])]
    /\ MoveMoney(PendingReward, ActualReward(who))
    /\ UNCHANGED <<total_shares, shares, block_number>>

\* MUTANT: what is paid is not borrowed, so it can be claimed again.
ClaimRewardsForFree(who) ==
    /\ CanUpdate
    /\ shares[who] > 0
    /\ 0 <= ActualReward(who)
    /\ ActualReward(who) >= ExistentialReward
    /\ ActualReward(who) <= Useable
    /\ total_rewards' = Rewards
    /\ total_rewards_useable' = Useable - ActualReward(who)
    /\ last_update_block' = block_number
    /\ MoveMoney(PendingReward, ActualReward(who))
    /\ UNCHANGED <<total_shares, shares, borrowed_amount, block_number>>

\* claim_rewards: everything accrued is paid and thereby borrowed.
ClaimRewards(who) ==
    /\ CanUpdate
    /\ shares[who] > 0
    /\ 0 <= ActualReward(who)
    /\ ActualReward(who) >= ExistentialReward
    /\ ActualReward(who) <= Useable
    /\ total_rewards' = Rewards
    /\ total_rewards_useable' = Useable - ActualReward(who)
    /\ last_update_block' = block_number
    /\ borrowed_amount' =
         [borrowed_amount EXCEPT ![who] = RewardWithVirtual(shares[who])]
    /\ MoveMoney(PendingReward, ActualReward(who))
    /\ UNCHANGED <<total_shares, shares, block_number>>

PoolNext ==
    \/ NextBlock
    \/ \E who \in Accounts, amount \in Amounts : AddShare(who, amount)
    \/ \E who \in Accounts, amount \in Amounts : RemoveShareUnpaid(who, amount)
    \/ \E who \in Accounts, amount \in Amounts : RemoveSharePaid(who, amount)
    \/ \E who \in Accounts : ClaimNothing(who)
    \/ \E who \in Accounts : ClaimRewards(who)

PoolSpec == PoolInit /\ [][PoolNext]_poolVars

-----------------------------------------------------------------------------
(***************************************************************************)
(* Properties.                                                             *)
(***************************************************************************)

PoolTypeOK ==
    /\ total_shares \in Nat
    /\ total_rewards \in Nat
    /\ total_rewards_useable \in Nat
    /\ last_update_block \in 0..block_number
    /\ shares \in [Accounts -> Nat]
    /\ borrowed_amount \in [Accounts -> Nat]
    /\ balance \in Nat
    /\ block_number \in 1..MaxBlock
    /\ lost \in Nat

\* The pool knows every share, so the parts of all accounts make a whole.
SharesAddUp == total_shares = Total(shares, Accounts)

\* Whatever an account has borrowed is in total_rewards beyond the money that
\* is there: nobody's debt is paid out to the others as a reward.
DebtIsVirtual ==
    total_rewards >= total_rewards_useable + Total(borrowed_amount, Accounts)

\* The useable rewards are in the pool's account, except for what the currency
\* took as dust.
UseableIsThere == total_rewards_useable <= balance + lost

\* The units of reward the fixed point numbers may lose when `added` shares
\* join and there are `all` shares and `rewards` then: none as long as their
\* accuracy can tell the price of a share from the next.
Imprecision(added, all, rewards) ==
    IF (added + rewards) * all <= added * Accuracy
    THEN 0
    ELSE 1 + (added + rewards) \div Accuracy

\* Joining a pool that others are in earns the new shares nothing of what had
\* accrued before, and takes nothing from the others, up to a unit of rounding
\* and the imprecision of the fixed point numbers.
JoiningIsNeutral ==
    [][\A who \in Accounts :
         LET added == total_shares' - total_shares
             rounding == 1 + Imprecision(added, total_shares', total_rewards')
         IN  /\ total_shares > 0
             /\ added > 0
             /\ shares[who] > 0 \/ shares'[who] > 0
             => ActualReward(who)' - ActualReward(who)
                  \in -rounding..rounding]_poolVars
=============================================================================
