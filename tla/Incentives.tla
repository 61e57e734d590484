----------------------------- MODULE Incentives -----------------------------
(***************************************************************************)
(* The incentives module (modules/incentives): the operations of a reward  *)
(* pool offered under the two currencies of a pair, and the read-only      *)
(* views of accounts and pools.                                            *)
(*                                                                         *)
(* One pool, the one of `Pair`, is followed by RewardPool; a call for any  *)
(* other pair reaches another pool, and is no step here.  An account that  *)
(* leaves with a reward too small to be sent is released from its debt     *)
(* while the virtual reward it had borrowed stays in the pool; `forgiven`  *)
(* remembers how much.                                                     *)
(***************************************************************************)
EXTENDS RewardPool, Sequences, FiniteSetsExt

CONSTANTS
    Currencies,     \* CurrencyId, ordered
    DexRewards,     \* GenesisConfig::dex_rewards, <<left, right, reward>>
    Pair            \* the pair whose pool is followed

VARIABLE forgiven   \* HISTORY: debts that left the pool without being repaid

incentiveVars == <<poolVars, forgiven>>

-----------------------------------------------------------------------------
NoPair == <<>>

\* MUTANT: the two currencies are not put in order.
PairKeyAsGiven(first, second) ==
    IF first = second THEN NoPair ELSE <<first, second>>

\* PairKey::try_from: the same key whichever currency is named first.
PairKey(first, second) ==
    CASE first = second -> NoPair
      [] first < second -> <<first, second>>
      [] OTHER -> <<second, first>>

\* The build of DexIncentiveRewards: of two entries for a pair the later one
\* counts.
DexIncentiveRewards(pair) ==
    LET entries == {i \in DOMAIN DexRewards :
                      PairKey(DexRewards[i][1], DexRewards[i][2]) = pair}
    IN  IF entries = {} THEN 0 ELSE DexRewards[Max(entries)][3]

ASSUME IncentivesAssumption ==
    /\ Currencies \subseteq Nat
    /\ Pair \in Currencies \X Currencies
    /\ Pair[1] < Pair[2]
    \* `unwrap` and `assert!` in the build
    /\ \A i \in DOMAIN DexRewards :
         DexRewards[i][1] # DexRewards[i][2] /\ DexRewards[i][3] > 0
    /\ DexIncentiveReward = DexIncentiveRewards(Pair)

-----------------------------------------------------------------------------
(***************************************************************************)
(* The views.                                                              *)
(***************************************************************************)

\* RewardPool's get_accumlated_rewards: what leaving with all its shares would
\* pay, 0 if that fails.
PoolAccumlatedRewards(who) ==
    IF /\ CanRemove(who, shares[who])
       /\ RewardOf(who, shares[who]) > ExistentialReward
       /\ RewardWithVirtual(shares[who]) <= Rewards
    THEN RewardOf(who, shares[who])
    ELSE 0

\* get_account_info, with get_account_shares and get_accumlated_rewards.
GetAccountInfo(who, left, right) ==
    IF PairKey(left, right) = Pair
    THEN [shares |-> shares[who], rewards |-> PoolAccumlatedRewards(who)]
    ELSE [shares |-> 0, rewards |-> 0]

\* get_all_pools, the entry of the pool: its shares and its useable rewards,
\* brought up to date.
GetAllIncentivePools ==
    [shares |-> total_shares, rewards |-> IF CanUpdate THEN Useable ELSE 0]

-----------------------------------------------------------------------------
(***************************************************************************)
(* IncentiveOps.                                                           *)
(***************************************************************************)

IncentivesInit == PoolInit /\ forgiven = 0

IncentiveAddShare(who, first, second, amount) ==
    /\ PairKey(first, second) = Pair
    /\ AddShare(who, amount)
    /\ UNCHANGED forgiven

IncentiveRemoveShare(who, first, second, amount) ==
    /\ PairKey(first, second) = Pair
    /\ \/ /\ RemoveSharePaid(who, amount)
          /\ UNCHANGED forgiven
       \/ /\ RemoveShareUnpaid(who, amount)
          /\ forgiven' = forgiven + AccountBalanceToRemove(who, amount)

IncentiveClaimRewards(who, left, right) ==
    /\ PairKey(left, right) = Pair
    /\ ClaimNothing(who) \/ ClaimRewards(who)
    /\ UNCHANGED forgiven

IncentivesNext ==
    \/ NextBlock /\ UNCHANGED forgiven
    \/ \E who \in Accounts, first, second \in Currencies :
         \/ \E amount \in Amounts :
              \/ IncentiveAddShare(who, first, second, amount)
              \/ IncentiveRemoveShare(who, first, second, amount)
         \/ IncentiveClaimRewards(who, first, second)

IncentivesSpec == IncentivesInit /\ [][IncentivesNext]_incentiveVars

-----------------------------------------------------------------------------
(***************************************************************************)
(* Properties.                                                             *)
(***************************************************************************)

\* What the debt of an account exceeds the worth of its shares by: the price
\* of a share sinks by a fraction when others join, and leaving with a part of
\* the shares repays the debt rounded down.
Overdrawn(who) == IF ActualReward(who) < 0 THEN -ActualReward(who) ELSE 0

\* What the accounts are shown as their accumulated rewards is, all together,
\* no more than the useable rewards the pool is shown with, except for the
\* debts forgiven on leaving and what other accounts are overdrawn by:
\* get_account_info, get_all_pools and the bookkeeping of borrowed rewards
\* agree.
ShownIsCovered ==
    CanUpdate =>
      Total([who \in Accounts |->
               GetAccountInfo(who, Pair[1], Pair[2]).rewards], Accounts)
        <= GetAllIncentivePools.rewards + forgiven
             + Total([who \in Accounts |-> Overdrawn(who)], Accounts)

\* In one block, an account is paid what get_account_info showed, under either
\* order of the currencies: on leaving with all its shares exactly that, on
\* claiming also a reward that is just the existential one, which is shown as 0.
ShownIsPaid ==
    [][\A who \in Accounts, left, right \in Currencies :
         LET paid == Useable - total_rewards_useable'
             shown == GetAccountInfo(who, left, right).rewards
         IN  /\ {left, right} = {Pair[1], Pair[2]}
             /\ block_number' = block_number
             => /\ shares[who] > 0 /\ shares'[who] = 0 => paid = shown
                /\ shares' = shares /\ borrowed_amount'[who] > borrowed_amount[who]
                     => \/ paid = shown
                        \/ shown = 0 /\ paid = ExistentialReward]_incentiveVars
=============================================================================
