--------------------------- MODULE ModulesProofs ---------------------------
(***************************************************************************)
(* Proofs about the pallets of modules/: the reward pool and the           *)
(* incentives fed by it, for every set of accounts, every accuracy of the  *)
(* fixed point numbers and every reward per block; the bridge, for all     *)
(* networks, transactions, accounts, fees, limits and numbers of upgrades; *)
(* the weight trader and its registries, for all assets, prices and        *)
(* weights.                                                                *)
(***************************************************************************)
EXTENDS AssetTrader, Claims, Incentives, TotalsProofs

(***************************************************************************)
(* The reward pool.                                                        *)
(***************************************************************************)
PoolIInv == PoolTypeOK /\ SharesAddUp /\ DebtIsVirtual /\ UseableIsThere

-----------------------------------------------------------------------------
(***************************************************************************)
(* The quantities an operation computes are amounts.                       *)
(***************************************************************************)

LEMMA FromRationalIsNat ==
    ASSUME NEW n \in Nat, NEW d \in Nat \ {0}
    PROVE  CheckedFromRational(n, d) \in Nat
<1>1. n * Accuracy \in Nat
  BY PoolAssumption
<1> QED BY <1>1 DEF CheckedFromRational

LEMMA MulIntIsNat ==
    ASSUME NEW r \in Nat, NEW n \in Nat
    PROVE  CheckedMulInt(r, n) \in Nat
<1>1. r * n \in Nat /\ Accuracy \in Nat \ {0}
  BY PoolAssumption
<1> QED BY <1>1 DEF CheckedMulInt

LEMMA PendingIsNat ==
    ASSUME PoolTypeOK
    PROVE  PendingReward \in Nat
<1>1. CASE block_number <= last_update_block
  BY <1>1 DEF PendingReward
<1>2. CASE block_number > last_update_block
  <2>1. block_number - last_update_block \in Nat /\ DexIncentiveReward \in Nat
    BY <1>2, PoolAssumption DEF PoolTypeOK
  <2>2. DexIncentiveReward * (block_number - last_update_block) \in Nat
    BY <2>1
  <2> QED BY <2>2 DEF PendingReward
<1> QED BY <1>1, <1>2 DEF PoolTypeOK

LEMMA UpdatedIsNat ==
    ASSUME PoolTypeOK
    PROVE  Rewards \in Nat /\ Useable \in Nat
BY PendingIsNat DEF PoolTypeOK, Rewards, Useable

LEMMA WithVirtualIsNat ==
    ASSUME PoolTypeOK, NEW amount \in Nat
    PROVE  RewardWithVirtual(amount) \in Nat
<1>1. CASE total_shares = 0 \/ amount = 0
  BY <1>1 DEF RewardWithVirtual
<1>2. CASE total_shares # 0 /\ amount # 0
  <2>1. CheckedFromRational(amount, total_shares) \in Nat
    BY <1>2, FromRationalIsNat DEF PoolTypeOK
  <2> QED BY <1>2, <2>1, MulIntIsNat, UpdatedIsNat DEF RewardWithVirtual
<1> QED BY <1>1, <1>2

LEMMA VirtualIsNat ==
    ASSUME PoolTypeOK, NEW amount \in Nat
    PROVE  VirtualRewardAmount(amount) \in Nat
<1>1. CASE total_shares = 0
  BY <1>1 DEF VirtualRewardAmount
<1>2. CASE total_shares # 0
  <2>1. CheckedFromRational(Rewards, total_shares) \in Nat
    BY <1>2, FromRationalIsNat, UpdatedIsNat DEF PoolTypeOK
  <2> QED BY <1>2, <2>1, MulIntIsNat DEF VirtualRewardAmount
<1> QED BY <1>1, <1>2

LEMMA ToRemoveIsNat ==
    ASSUME PoolTypeOK, NEW who \in Accounts, NEW amount \in Nat,
           0 < amount, amount <= shares[who]
    PROVE  AccountBalanceToRemove(who, amount) \in Nat
<1>1. shares[who] \in Nat \ {0} /\ borrowed_amount[who] \in Nat
  BY DEF PoolTypeOK
<1>2. CheckedFromRational(amount, shares[who]) \in Nat
  BY <1>1, FromRationalIsNat
<1> QED BY <1>1, <1>2, MulIntIsNat DEF AccountBalanceToRemove

-----------------------------------------------------------------------------
(***************************************************************************)
(* The money.                                                              *)
(***************************************************************************)

\* What moves through the sub-account is kept or counted as lost.
LEMMA MoneyMoves ==
    ASSUME PoolTypeOK, NEW deposit \in Nat, NEW transfer \in Nat,
           MoveMoney(deposit, transfer)
    PROVE  /\ balance' \in Nat
           /\ lost' \in Nat
           /\ balance' + lost' = balance + lost + deposit - transfer
<1> DEFINE before == IF balance = 0 THEN Kept(deposit) ELSE balance + deposit
<1>1. /\ balance \in Nat /\ lost \in Nat /\ ExistentialDeposit \in Nat
  BY CurrencyAssumption DEF PoolTypeOK
<1>2. before \in Nat /\ before <= balance + deposit
  BY <1>1 DEF Kept
<1>3. /\ before >= transfer
      /\ balance' = IF transfer = 0 THEN before ELSE Kept(before - transfer)
      /\ lost' = lost + (balance + deposit - transfer) - balance'
  BY DEF MoveMoney
<1> HIDE DEF before
<1>4. balance' \in Nat /\ balance' <= before - transfer
  BY <1>1, <1>2, <1>3 DEF Kept
<1>5. \A b, l, d, t, f, n, m \in Int :
        /\ n >= 0 /\ l >= 0 /\ n <= f - t /\ f <= b + d
        /\ m = l + (b + d - t) - n
        => m >= 0 /\ n + m = b + l + d - t
  OBVIOUS
<1>6. lost' \in Int
  BY <1>1, <1>3, <1>4
<1>7. lost' >= 0 /\ balance' + lost' = balance + lost + deposit - transfer
  BY <1>1, <1>2, <1>3, <1>4, <1>5, <1>6
<1> QED BY <1>4, <1>6, <1>7

-----------------------------------------------------------------------------
(***************************************************************************)
(* One lemma for all operations: what they do to the pool's sums.          *)
(***************************************************************************)

\* An operation of `who`: s, b, v and u are what it leaves of the account's
\* shares and debt and of the pool's rewards and useable rewards, p what it
\* pays.
LEMMA Operation ==
    ASSUME PoolIInv, PoolTypeOK', NEW who \in Accounts, NEW p \in Nat,
           MoveMoney(PendingReward, p),
           \A a \in Accounts \ {who} : /\ shares[a] = shares'[a]
                                       /\ borrowed_amount[a] = borrowed_amount'[a],
           total_shares' = total_shares - shares[who] + shares'[who],
           total_rewards_useable' = Useable - p,
           total_rewards' >= Rewards - p + borrowed_amount'[who]
                               - borrowed_amount[who]
    PROVE  PoolIInv'
<1>1. IsFiniteSet(Accounts)
  BY PoolAssumption
<1>2. SharesAddUp'
  <2>1. shares \in [Accounts -> Nat] /\ shares' \in [Accounts -> Nat]
    BY DEF PoolIInv, PoolTypeOK
  <2>2. \A a \in Accounts \ {who} : shares[a] = shares'[a]
    OBVIOUS
  <2>3. Total(shares', Accounts)
          = Total(shares, Accounts) - shares[who] + shares'[who]
    BY ONLY <1>1, <2>1, <2>2, TotalUpdate, who \in Accounts
  <2> QED BY <2>3 DEF PoolIInv, SharesAddUp
<1>3. DebtIsVirtual'
  <2>1. /\ borrowed_amount \in [Accounts -> Nat]
        /\ borrowed_amount' \in [Accounts -> Nat]
    BY DEF PoolIInv, PoolTypeOK
  <2>2. \A a \in Accounts \ {who} : borrowed_amount[a] = borrowed_amount'[a]
    OBVIOUS
  <2> DEFINE B == Total(borrowed_amount, Accounts)
             C == Total(borrowed_amount', Accounts)
             b == borrowed_amount[who]
             c == borrowed_amount'[who]
  <2>3. C = B - b + c
    BY ONLY <1>1, <2>1, <2>2, TotalUpdate, who \in Accounts
  <2>4. B \in Nat /\ C \in Nat /\ b \in Nat /\ c \in Nat
    BY <1>1, <2>1, TotalType
  <2>5. total_rewards >= total_rewards_useable + B
    BY DEF PoolIInv, DebtIsVirtual
  <2>6. /\ total_rewards' >= Rewards - p + c - b
        /\ total_rewards_useable' = Useable - p
    OBVIOUS
  <2>7. /\ total_rewards \in Nat /\ total_rewards_useable \in Nat
        /\ total_rewards' \in Nat /\ total_rewards_useable' \in Nat
        /\ PendingReward \in Nat
    BY PendingIsNat DEF PoolIInv, PoolTypeOK
  <2> HIDE DEF B, C, b, c
  <2>8. total_rewards' >= total_rewards_useable' + C
    <3>1. \A T, U, P, BB, CC, bb, cc, T2, U2, q \in Int :
            /\ T >= U + BB
            /\ T2 >= T + P - q + cc - bb
            /\ U2 = U + P - q
            /\ CC = BB - bb + cc
            => T2 >= U2 + CC
      OBVIOUS
    <3> QED BY <2>3, <2>4, <2>5, <2>6, <2>7, <3>1 DEF Rewards, Useable
  <2> QED BY <2>8 DEF DebtIsVirtual, C
<1>4. UseableIsThere'
  <2>1. PendingReward \in Nat /\ PoolTypeOK
    BY PendingIsNat DEF PoolIInv
  <2>2. balance' + lost' = balance + lost + PendingReward - p
    BY <2>1, MoneyMoves
  <2>3. total_rewards_useable <= balance + lost
    BY DEF PoolIInv, UseableIsThere
  <2>4. /\ total_rewards_useable \in Nat /\ balance \in Nat /\ lost \in Nat
        /\ total_rewards_useable' \in Nat /\ balance' \in Nat /\ lost' \in Nat
    BY <2>1 DEF PoolTypeOK
  <2>5. total_rewards_useable' = total_rewards_useable + PendingReward - p
    BY <2>1, <2>4 DEF Useable
  <2> DEFINE W == balance + lost
             V == balance' + lost'
             P == PendingReward
             U == total_rewards_useable
             X == total_rewards_useable'
  <2>6. /\ W \in Int /\ V \in Int /\ P \in Int /\ U \in Int /\ X \in Int
        /\ p \in Int
    BY <2>1, <2>4
  <2>7. U <= W /\ X = U + P - p /\ V = W + P - p
    BY <2>2, <2>3, <2>5
  <2> HIDE DEF W, V, P, U, X
  <2>8. X <= V
    BY ONLY <2>6, <2>7
  <2> QED BY <2>8 DEF UseableIsThere, X, V
<1> QED BY <1>2, <1>3, <1>4 DEF PoolIInv

-----------------------------------------------------------------------------
(***************************************************************************)
(* The operations, one by one.                                             *)
(***************************************************************************)

LEMMA AddPreserves ==
    ASSUME PoolIInv, NEW who \in Accounts, NEW amount \in Amounts,
           AddShare(who, amount)
    PROVE  PoolIInv'
<1> DEFINE v == VirtualRewardAmount(amount)
<1>1. amount \in Nat /\ PoolTypeOK
  BY PoolAssumption DEF PoolIInv
<1>2. v \in Nat /\ PendingReward \in Nat /\ Rewards \in Nat /\ Useable \in Nat
  BY <1>1, VirtualIsNat, PendingIsNat, UpdatedIsNat
<1>3. /\ total_shares' = total_shares + amount
      /\ total_rewards' = Rewards + v
      /\ total_rewards_useable' = Useable
      /\ last_update_block' = block_number
      /\ shares' = [shares EXCEPT ![who] = @ + amount]
      /\ borrowed_amount' = [borrowed_amount EXCEPT ![who] = @ + v]
      /\ MoveMoney(PendingReward, 0)
      /\ block_number' = block_number
  BY DEF AddShare
<1> HIDE DEF v
<1>4. balance' \in Nat /\ lost' \in Nat
  BY <1>1, <1>2, <1>3, MoneyMoves
<1>5. PoolTypeOK'
  BY <1>1, <1>2, <1>3, <1>4 DEF PoolTypeOK
<1>6. /\ shares[who] \in Nat /\ shares'[who] = shares[who] + amount
      /\ borrowed_amount[who] \in Nat
      /\ borrowed_amount'[who] = borrowed_amount[who] + v
      /\ total_shares \in Nat
  BY <1>1, <1>3 DEF PoolTypeOK
<1>7. \A a \in Accounts \ {who} : /\ shares[a] = shares'[a]
                                  /\ borrowed_amount[a] = borrowed_amount'[a]
  BY <1>1, <1>3 DEF PoolTypeOK
<1>8. total_shares' = total_shares - shares[who] + shares'[who]
  BY <1>1, <1>3, <1>6
<1>9. /\ total_rewards_useable' = Useable - 0
      /\ total_rewards' >= Rewards - 0 + borrowed_amount'[who]
                             - borrowed_amount[who]
  BY <1>2, <1>3, <1>6
<1> QED BY <1>3, <1>5, <1>7, <1>8, <1>9, Operation

\* What removing shares does to the account and the pool, paid or not.
LEMMA RemoveParts ==
    ASSUME PoolIInv, NEW who \in Accounts, NEW amount \in Amounts,
           CanRemove(who, amount)
    PROVE  /\ amount \in Nat
           /\ amount <= shares[who]
           /\ amount <= total_shares
           /\ AccountBalanceToRemove(who, amount) \in Nat
           /\ AccountBalanceToRemove(who, amount) <= borrowed_amount[who]
           /\ RewardWithVirtual(amount) \in Nat
           /\ RewardOf(who, amount) \in Nat
           /\ RewardOf(who, amount) <= Useable
<1>1. amount \in Nat /\ PoolTypeOK
  BY PoolAssumption DEF PoolIInv
<1>2. /\ 0 < amount
      /\ amount <= shares[who]
      /\ amount <= total_shares
      /\ AccountBalanceToRemove(who, amount) <= borrowed_amount[who]
      /\ 0 <= RewardOf(who, amount)
      /\ RewardOf(who, amount) <= Useable
  BY DEF CanRemove
<1>3. /\ AccountBalanceToRemove(who, amount) \in Nat
      /\ RewardWithVirtual(amount) \in Nat
  BY <1>1, <1>2, ToRemoveIsNat, WithVirtualIsNat
<1>4. RewardOf(who, amount) \in Nat
  BY <1>2, <1>3 DEF RewardOf
<1> QED BY <1>1, <1>2, <1>3, <1>4

LEMMA RemoveUnpaidPreserves ==
    ASSUME PoolIInv, NEW who \in Accounts, NEW amount \in Amounts,
           RemoveShareUnpaid(who, amount)
    PROVE  PoolIInv'
<1> DEFINE r == AccountBalanceToRemove(who, amount)
<1>1. CanRemove(who, amount) /\ PoolTypeOK
  BY DEF RemoveShareUnpaid, PoolIInv
<1>2. /\ amount \in Nat /\ amount <= shares[who] /\ amount <= total_shares
      /\ r \in Nat /\ r <= borrowed_amount[who]
  BY <1>1, RemoveParts
<1>3. PendingReward \in Nat /\ Rewards \in Nat /\ Useable \in Nat
  BY <1>1, PendingIsNat, UpdatedIsNat
<1>4. /\ total_shares' = total_shares - amount
      /\ total_rewards' = Rewards
      /\ total_rewards_useable' = Useable
      /\ last_update_block' = block_number
      /\ shares' = [shares EXCEPT ![who] = @ - amount]
      /\ borrowed_amount' = [borrowed_amount EXCEPT ![who] = @ - r]
      /\ MoveMoney(PendingReward, 0)
      /\ block_number' = block_number
  BY DEF RemoveShareUnpaid
<1> HIDE DEF r
<1>5. balance' \in Nat /\ lost' \in Nat
  BY <1>1, <1>3, <1>4, MoneyMoves
<1>6. PoolTypeOK'
  BY <1>1, <1>2, <1>3, <1>4, <1>5 DEF PoolTypeOK
<1>7. /\ shares[who] \in Nat /\ shares'[who] = shares[who] - amount
      /\ borrowed_amount[who] \in Nat
      /\ borrowed_amount'[who] = borrowed_amount[who] - r
      /\ total_shares \in Nat
  BY <1>1, <1>4 DEF PoolTypeOK
<1>8. \A a \in Accounts \ {who} : /\ shares[a] = shares'[a]
                                  /\ borrowed_amount[a] = borrowed_amount'[a]
  BY <1>1, <1>4 DEF PoolTypeOK
<1>9. total_shares' = total_shares - shares[who] + shares'[who]
  BY <1>2, <1>4, <1>7
<1>10. /\ total_rewards_useable' = Useable - 0
       /\ total_rewards' >= Rewards - 0 + borrowed_amount'[who]
                              - borrowed_amount[who]
  BY <1>2, <1>3, <1>4, <1>7
<1> QED BY <1>4, <1>6, <1>8, <1>9, <1>10, Operation

LEMMA RemovePaidPreserves ==
    ASSUME PoolIInv, NEW who \in Accounts, NEW amount \in Amounts,
           RemoveSharePaid(who, amount)
    PROVE  PoolIInv'
<1> DEFINE r == AccountBalanceToRemove(who, amount)
           w == RewardWithVirtual(amount)
           p == RewardOf(who, amount)
<1>1. CanRemove(who, amount) /\ PoolTypeOK
  BY DEF RemoveSharePaid, PoolIInv
<1>2. /\ amount \in Nat /\ amount <= shares[who] /\ amount <= total_shares
      /\ r \in Nat /\ r <= borrowed_amount[who]
      /\ w \in Nat /\ p \in Nat /\ p <= Useable
  BY <1>1, RemoveParts
<1>3. PendingReward \in Nat /\ Rewards \in Nat /\ Useable \in Nat
  BY <1>1, PendingIsNat, UpdatedIsNat
<1>4. /\ total_shares' = total_shares - amount
      /\ w <= Rewards
      /\ total_rewards' = Rewards - w
      /\ total_rewards_useable' = Useable - p
      /\ last_update_block' = block_number
      /\ shares' = [shares EXCEPT ![who] = @ - amount]
      /\ borrowed_amount' = [borrowed_amount EXCEPT ![who] = @ - r]
      /\ MoveMoney(PendingReward, p)
      /\ block_number' = block_number
  BY DEF RemoveSharePaid
<1>5. p = w - r
  BY DEF RewardOf
<1> HIDE DEF r, w, p
<1>6. balance' \in Nat /\ lost' \in Nat
  BY <1>1, <1>2, <1>3, <1>4, MoneyMoves
<1>7. PoolTypeOK'
  BY <1>1, <1>2, <1>3, <1>4, <1>6 DEF PoolTypeOK
<1>8. /\ shares[who] \in Nat /\ shares'[who] = shares[who] - amount
      /\ borrowed_amount[who] \in Nat
      /\ borrowed_amount'[who] = borrowed_amount[who] - r
      /\ total_shares \in Nat
  BY <1>1, <1>4 DEF PoolTypeOK
<1>9. \A a \in Accounts \ {who} : /\ shares[a] = shares'[a]
                                  /\ borrowed_amount[a] = borrowed_amount'[a]
  BY <1>1, <1>4 DEF PoolTypeOK
<1>10. total_shares' = total_shares - shares[who] + shares'[who]
  BY <1>2, <1>4, <1>8
<1>11. /\ total_rewards_useable' = Useable - p
       /\ total_rewards' >= Rewards - p + borrowed_amount'[who]
                              - borrowed_amount[who]
  BY <1>2, <1>3, <1>4, <1>5, <1>8
<1> QED BY <1>2, <1>4, <1>7, <1>9, <1>10, <1>11, Operation

LEMMA ClaimNothingPreserves ==
    ASSUME PoolIInv, NEW who \in Accounts, ClaimNothing(who)
    PROVE  PoolIInv'
<1>1. PoolTypeOK
  BY DEF PoolIInv
<1>2. PendingReward \in Nat /\ Rewards \in Nat /\ Useable \in Nat
  BY <1>1, PendingIsNat, UpdatedIsNat
<1>3. /\ total_rewards' = Rewards
      /\ total_rewards_useable' = Useable
      /\ last_update_block' = block_number
      /\ MoveMoney(PendingReward, 0)
      /\ UNCHANGED <<total_shares, shares, borrowed_amount, block_number>>
  BY DEF ClaimNothing
<1>4. balance' \in Nat /\ lost' \in Nat
  BY <1>1, <1>2, <1>3, MoneyMoves
<1>5. PoolTypeOK'
  BY <1>1, <1>2, <1>3, <1>4 DEF PoolTypeOK
<1>6. /\ shares[who] \in Nat /\ borrowed_amount[who] \in Nat
      /\ total_shares \in Nat
  BY <1>1 DEF PoolTypeOK
<1>7. /\ total_shares' = total_shares - shares[who] + shares'[who]
      /\ total_rewards_useable' = Useable - 0
      /\ total_rewards' >= Rewards - 0 + borrowed_amount'[who]
                             - borrowed_amount[who]
  BY <1>2, <1>3, <1>6
<1> QED BY <1>3, <1>5, <1>7, Operation

LEMMA ClaimPreserves ==
    ASSUME PoolIInv, NEW who \in Accounts, ClaimRewards(who)
    PROVE  PoolIInv'
<1> DEFINE w == RewardWithVirtual(shares[who])
           p == ActualReward(who)
<1>1. PoolTypeOK
  BY DEF PoolIInv
<1>2. PendingReward \in Nat /\ Rewards \in Nat /\ Useable \in Nat
  BY <1>1, PendingIsNat, UpdatedIsNat
<1>3. /\ shares[who] \in Nat /\ borrowed_amount[who] \in Nat
      /\ total_shares \in Nat
  BY <1>1 DEF PoolTypeOK
<1>4. w \in Nat /\ p = w - borrowed_amount[who]
  BY <1>1, <1>3, WithVirtualIsNat DEF ActualReward
<1>5. /\ 0 <= p
      /\ p <= Useable
      /\ total_rewards' = Rewards
      /\ total_rewards_useable' = Useable - p
      /\ last_update_block' = block_number
      /\ borrowed_amount' = [borrowed_amount EXCEPT ![who] = w]
      /\ MoveMoney(PendingReward, p)
      /\ UNCHANGED <<total_shares, shares, block_number>>
  BY DEF ClaimRewards
<1> HIDE DEF w, p
<1>6. p \in Nat
  BY <1>3, <1>4, <1>5
<1>7. balance' \in Nat /\ lost' \in Nat
  BY <1>1, <1>2, <1>5, <1>6, MoneyMoves
<1>8. PoolTypeOK'
  BY <1>1, <1>2, <1>4, <1>5, <1>6, <1>7 DEF PoolTypeOK
<1>9. borrowed_amount'[who] = w
  BY <1>1, <1>5 DEF PoolTypeOK
<1>10. \A a \in Accounts \ {who} : /\ shares[a] = shares'[a]
                                   /\ borrowed_amount[a] = borrowed_amount'[a]
  BY <1>1, <1>5 DEF PoolTypeOK
<1>11. /\ total_shares' = total_shares - shares[who] + shares'[who]
       /\ total_rewards_useable' = Useable - p
       /\ total_rewards' >= Rewards - p + borrowed_amount'[who]
                              - borrowed_amount[who]
  BY <1>2, <1>3, <1>4, <1>5, <1>9
<1> QED BY <1>5, <1>6, <1>8, <1>10, <1>11, Operation

LEMMA NextBlockPreserves ==
    ASSUME PoolIInv, NextBlock
    PROVE  PoolIInv'
<1>1. PoolTypeOK'
  BY PoolAssumption DEF PoolIInv, PoolTypeOK, NextBlock
<1>2. SharesAddUp' /\ DebtIsVirtual' /\ UseableIsThere'
  BY DEF PoolIInv, NextBlock, SharesAddUp, DebtIsVirtual, UseableIsThere
<1> QED BY <1>1, <1>2 DEF PoolIInv

-----------------------------------------------------------------------------
(***************************************************************************)
(* The theorems.                                                           *)
(***************************************************************************)

\* A pool starts empty.
LEMMA PoolInitially ==
    ASSUME PoolInit
    PROVE  PoolIInv
<1>1. PoolTypeOK
  BY PoolAssumption DEF PoolInit, PoolTypeOK
<1>2. IsFiniteSet(Accounts)
  BY PoolAssumption
<1> DEFINE z == [a \in Accounts |-> 0]
<1>3. Total(z, Accounts) = 0
  <2>1. z \in [Accounts -> Nat] /\ \A a \in Accounts : z[a] = 0
    OBVIOUS
  <2> HIDE DEF z
  <2>2. {} \in SUBSET Accounts /\ \A a \in Accounts \ {} : z[a] = 0
    BY <2>1
  <2>3. Total(z, Accounts) = Total(z, {})
    BY ONLY <2>1, <2>2, TotalIgnoresZero
  <2>4. Units(z, {}) = {}
    BY DEF Units
  <2> QED BY <2>3, <2>4, FS_EmptySet DEF Total
<1>4. SharesAddUp /\ DebtIsVirtual /\ UseableIsThere
  <2>1. /\ shares = z /\ borrowed_amount = z
        /\ total_shares = 0 /\ total_rewards = 0 /\ total_rewards_useable = 0
        /\ balance = 0 /\ lost = 0
    BY DEF PoolInit
  <2> HIDE DEF z
  <2> QED BY <1>3, <2>1 DEF SharesAddUp, DebtIsVirtual, UseableIsThere
<1> QED BY <1>1, <1>4 DEF PoolIInv

\* Every operation keeps the invariant.
LEMMA PoolStep ==
    ASSUME PoolIInv, [PoolNext]_poolVars
    PROVE  PoolIInv'
<1>1. CASE NextBlock
  BY <1>1, NextBlockPreserves
<1>2. ASSUME NEW who \in Accounts, NEW amount \in Amounts, AddShare(who, amount)
      PROVE  PoolIInv'
  BY <1>2, AddPreserves
<1>3. ASSUME NEW who \in Accounts, NEW amount \in Amounts,
             RemoveShareUnpaid(who, amount)
      PROVE  PoolIInv'
  BY <1>3, RemoveUnpaidPreserves
<1>4. ASSUME NEW who \in Accounts, NEW amount \in Amounts,
             RemoveSharePaid(who, amount)
      PROVE  PoolIInv'
  BY <1>4, RemovePaidPreserves
<1>5. ASSUME NEW who \in Accounts, ClaimNothing(who) PROVE PoolIInv'
  BY <1>5, ClaimNothingPreserves
<1>6. ASSUME NEW who \in Accounts, ClaimRewards(who) PROVE PoolIInv'
  BY <1>6, ClaimPreserves
<1>7. CASE UNCHANGED poolVars
  BY <1>7 DEF poolVars, PoolIInv, PoolTypeOK, SharesAddUp, DebtIsVirtual,
              UseableIsThere
<1> QED BY <1>1, <1>2, <1>3, <1>4, <1>5, <1>6, <1>7 DEF PoolNext

\* The inductive invariant of the pool.
THEOREM PoolInvariant == PoolSpec => []PoolIInv
<1>1. PoolInit => PoolIInv
  BY PoolInitially
<1>2. PoolIInv /\ [PoolNext]_poolVars => PoolIInv'
  BY PoolStep
<1> QED BY <1>1, <1>2, PTL DEF PoolSpec

\* add_share and remove_share keep the pool's total in step with the accounts.
THEOREM SharesAlwaysAddUp == PoolSpec => []SharesAddUp
<1>1. PoolIInv => SharesAddUp
  BY DEF PoolIInv
<1> QED BY <1>1, PoolInvariant, PTL

\* What accounts borrowed never counts as money of the pool.
THEOREM DebtStaysVirtual == PoolSpec => []DebtIsVirtual
<1>1. PoolIInv => DebtIsVirtual
  BY DEF PoolIInv
<1> QED BY <1>1, PoolInvariant, PTL

\* The pool's account holds the useable rewards but for dust.
THEOREM UseableStaysThere == PoolSpec => []UseableIsThere
<1>1. PoolIInv => UseableIsThere
  BY DEF PoolIInv
<1> QED BY <1>1, PoolInvariant, PTL

-----------------------------------------------------------------------------
(***************************************************************************)
(* The incentives module.  Its calls are operations of the pool, so the    *)
(* theorems above hold of it too.                                          *)
(***************************************************************************)

LEMMA IncentiveStepIsPoolStep ==
    ASSUME [IncentivesNext]_incentiveVars
    PROVE  [PoolNext]_poolVars
<1>1. CASE NextBlock
  BY <1>1 DEF PoolNext
<1>2. ASSUME NEW who \in Accounts, NEW first, NEW second, NEW amount \in Amounts,
             IncentiveAddShare(who, first, second, amount)
      PROVE  [PoolNext]_poolVars
  BY <1>2 DEF PoolNext, IncentiveAddShare
<1>3. ASSUME NEW who \in Accounts, NEW first, NEW second, NEW amount \in Amounts,
             IncentiveRemoveShare(who, first, second, amount)
      PROVE  [PoolNext]_poolVars
  BY <1>3 DEF PoolNext, IncentiveRemoveShare
<1>4. ASSUME NEW who \in Accounts, NEW first, NEW second,
             IncentiveClaimRewards(who, first, second)
      PROVE  [PoolNext]_poolVars
  BY <1>4 DEF PoolNext, IncentiveClaimRewards
<1>5. CASE UNCHANGED incentiveVars
  BY <1>5 DEF incentiveVars
<1> QED BY <1>1, <1>2, <1>3, <1>4, <1>5 DEF IncentivesNext

\* add_share, remove_share and claim_rewards of the incentives module do to a
\* pool what the reward pool allows, whatever the order of the currencies.
THEOREM IncentivesImplementPool == IncentivesSpec => PoolSpec
<1>1. IncentivesInit => PoolInit
  BY DEF IncentivesInit
<1>2. [IncentivesNext]_incentiveVars => [PoolNext]_poolVars
  BY IncentiveStepIsPoolStep
<1> QED BY <1>1, <1>2, PTL DEF IncentivesSpec, PoolSpec

-----------------------------------------------------------------------------
(***************************************************************************)
(* The books.  DebtIsVirtual as an equation: total_rewards is the useable  *)
(* part, the debts, and the debts forgiven.                                *)
(***************************************************************************)

BooksBalance ==
    /\ forgiven \in Nat
    /\ total_rewards = total_rewards_useable
                         + Total(borrowed_amount, Accounts) + forgiven

\* An operation of `who` keeps the books if it changes both sides alike.
LEMMA BooksStay ==
    ASSUME PoolTypeOK, PoolTypeOK', BooksBalance, forgiven' \in Nat,
           NEW who \in Accounts,
           \A a \in Accounts \ {who} : borrowed_amount[a] = borrowed_amount'[a],
           total_rewards' - total_rewards_useable' - borrowed_amount'[who]
             - forgiven'
           = Rewards - Useable - borrowed_amount[who] - forgiven
    PROVE  BooksBalance'
<1>1. /\ borrowed_amount \in [Accounts -> Nat]
      /\ borrowed_amount' \in [Accounts -> Nat]
      /\ IsFiniteSet(Accounts)
  BY PoolAssumption DEF PoolTypeOK
<1>2. Total(borrowed_amount', Accounts)
        = Total(borrowed_amount, Accounts) - borrowed_amount[who]
            + borrowed_amount'[who]
  BY <1>1, TotalUpdate
<1>3. Total(borrowed_amount, Accounts) \in Nat
  BY <1>1, TotalType
<1>4. PendingReward \in Nat
  BY PendingIsNat
<1>5. Rewards - Useable = total_rewards - total_rewards_useable
  BY <1>4 DEF Rewards, Useable, PoolTypeOK
<1>6. Rewards \in Nat /\ Useable \in Nat
  BY UpdatedIsNat
<1>7. \A T, U, B, F, T2, U2, B2, F2, b, b2, R, W \in Int :
        /\ T = U + B + F
        /\ B2 = B - b + b2
        /\ R - W = T - U
        /\ T2 - U2 - b2 - F2 = R - W - b - F
        => T2 = U2 + B2 + F2
  OBVIOUS
<1>8. /\ total_rewards \in Int /\ total_rewards_useable \in Int
      /\ total_rewards' \in Int /\ total_rewards_useable' \in Int
      /\ forgiven \in Int /\ forgiven' \in Int
      /\ borrowed_amount[who] \in Int /\ borrowed_amount'[who] \in Int
      /\ Rewards \in Int /\ Useable \in Int
      /\ Total(borrowed_amount, Accounts) \in Int
      /\ Total(borrowed_amount', Accounts) \in Int
  BY <1>1, <1>2, <1>3, <1>6 DEF PoolTypeOK, BooksBalance
<1>9. total_rewards = total_rewards_useable
                        + Total(borrowed_amount, Accounts) + forgiven
  BY DEF BooksBalance
<1>10. total_rewards' = total_rewards_useable'
                         + Total(borrowed_amount', Accounts) + forgiven'
  BY <1>2, <1>5, <1>7, <1>8, <1>9
<1> QED BY <1>10 DEF BooksBalance

LEMMA BooksAfterAdd ==
    ASSUME PoolIInv, PoolIInv', BooksBalance, NEW who \in Accounts,
           NEW amount \in Amounts, AddShare(who, amount), UNCHANGED forgiven
    PROVE  BooksBalance'
<1> DEFINE v == VirtualRewardAmount(amount)
<1>1. /\ PoolTypeOK /\ PoolTypeOK' /\ amount \in Nat /\ forgiven \in Nat
  BY PoolAssumption DEF PoolIInv, BooksBalance
<1>2. v \in Nat /\ Rewards \in Nat /\ Useable \in Nat
  BY <1>1, VirtualIsNat, UpdatedIsNat
<1>3. /\ total_rewards' = Rewards + v
      /\ total_rewards_useable' = Useable
      /\ borrowed_amount' = [borrowed_amount EXCEPT ![who] = @ + v]
  BY DEF AddShare
<1> HIDE DEF v
<1>4. /\ borrowed_amount[who] \in Nat
      /\ borrowed_amount'[who] = borrowed_amount[who] + v
      /\ \A a \in Accounts \ {who} : borrowed_amount[a] = borrowed_amount'[a]
  BY <1>1, <1>3 DEF PoolTypeOK
<1>5. total_rewards' - total_rewards_useable' - borrowed_amount'[who] - forgiven'
        = Rewards - Useable - borrowed_amount[who] - forgiven
  BY <1>1, <1>2, <1>3, <1>4
<1> QED BY <1>1, <1>4, <1>5, BooksStay

LEMMA BooksAfterRemove ==
    ASSUME PoolIInv, PoolIInv', BooksBalance, NEW who \in Accounts,
           NEW amount \in Amounts,
           \/ RemoveSharePaid(who, amount) /\ UNCHANGED forgiven
           \/ /\ RemoveShareUnpaid(who, amount)
              /\ forgiven' = forgiven + AccountBalanceToRemove(who, amount)
    PROVE  BooksBalance'
<1> DEFINE r == AccountBalanceToRemove(who, amount)
           w == RewardWithVirtual(amount)
           p == RewardOf(who, amount)
<1>1. /\ PoolTypeOK /\ PoolTypeOK' /\ forgiven \in Nat
      /\ CanRemove(who, amount)
  BY DEF PoolIInv, BooksBalance, RemoveSharePaid, RemoveShareUnpaid
<1>2. r \in Nat /\ w \in Nat /\ p \in Nat /\ p = w - r
  BY <1>1, RemoveParts DEF RewardOf
<1>3. Rewards \in Nat /\ Useable \in Nat
  BY <1>1, UpdatedIsNat
<1>4. /\ borrowed_amount' = [borrowed_amount EXCEPT ![who] = @ - r]
      /\ \/ /\ total_rewards' = Rewards - w
            /\ total_rewards_useable' = Useable - p
            /\ forgiven' = forgiven
         \/ /\ total_rewards' = Rewards
            /\ total_rewards_useable' = Useable
            /\ forgiven' = forgiven + r
  BY DEF RemoveSharePaid, RemoveShareUnpaid
<1> HIDE DEF r, w, p
<1>5. /\ borrowed_amount[who] \in Nat
      /\ borrowed_amount'[who] = borrowed_amount[who] - r
      /\ \A a \in Accounts \ {who} : borrowed_amount[a] = borrowed_amount'[a]
  BY <1>1, <1>4 DEF PoolTypeOK
<1>6. /\ forgiven' \in Nat
      /\ total_rewards' - total_rewards_useable' - borrowed_amount'[who] - forgiven'
           = Rewards - Useable - borrowed_amount[who] - forgiven
  BY <1>1, <1>2, <1>3, <1>4, <1>5
<1> QED BY <1>1, <1>5, <1>6, BooksStay

LEMMA BooksAfterClaim ==
    ASSUME PoolIInv, PoolIInv', BooksBalance, NEW who \in Accounts,
           ClaimNothing(who) \/ ClaimRewards(who), UNCHANGED forgiven
    PROVE  BooksBalance'
<1> DEFINE w == RewardWithVirtual(shares[who])
           p == ActualReward(who)
<1>1. /\ PoolTypeOK /\ PoolTypeOK' /\ forgiven \in Nat
      /\ shares[who] \in Nat /\ borrowed_amount[who] \in Nat
  BY DEF PoolIInv, PoolTypeOK, BooksBalance
<1>2. w \in Nat /\ p = w - borrowed_amount[who]
  BY <1>1, WithVirtualIsNat DEF ActualReward
<1>3. Rewards \in Nat /\ Useable \in Nat
  BY <1>1, UpdatedIsNat
<1>4. /\ total_rewards' = Rewards
      /\ \/ /\ total_rewards_useable' = Useable
            /\ borrowed_amount' = borrowed_amount
         \/ /\ total_rewards_useable' = Useable - p
            /\ borrowed_amount' = [borrowed_amount EXCEPT ![who] = w]
  BY DEF ClaimNothing, ClaimRewards
<1> HIDE DEF w, p
<1>5. \A a \in Accounts \ {who} : borrowed_amount[a] = borrowed_amount'[a]
  BY <1>1, <1>4 DEF PoolTypeOK
<1>6. \/ /\ total_rewards_useable' = Useable
         /\ borrowed_amount'[who] = borrowed_amount[who]
      \/ /\ total_rewards_useable' = Useable - p
         /\ borrowed_amount'[who] = w
  BY <1>1, <1>4 DEF PoolTypeOK
<1>7. total_rewards' - total_rewards_useable' - borrowed_amount'[who] - forgiven'
        = Rewards - Useable - borrowed_amount[who] - forgiven
  BY <1>1, <1>2, <1>3, <1>4, <1>6
<1> QED BY <1>1, <1>5, <1>7, BooksStay

\* The pool's books balance in every state the incentives module reaches.
THEOREM BooksAlwaysBalance == IncentivesSpec => [](PoolIInv /\ BooksBalance)
<1>1. IncentivesInit => PoolIInv /\ BooksBalance
  <2> SUFFICES ASSUME IncentivesInit PROVE PoolIInv /\ BooksBalance
    OBVIOUS
  <2>1. PoolIInv
    BY PoolInitially DEF IncentivesInit
  <2>2. /\ borrowed_amount \in [Accounts -> Nat]
        /\ \A a \in Accounts : borrowed_amount[a] = 0
        /\ total_rewards = 0 /\ total_rewards_useable = 0 /\ forgiven = 0
    BY DEF IncentivesInit, PoolInit
  <2>3. {} \in SUBSET Accounts /\ \A a \in Accounts \ {} : borrowed_amount[a] = 0
    BY <2>2
  <2>4. Total(borrowed_amount, Accounts) = Total(borrowed_amount, {})
    BY ONLY <2>2, <2>3, TotalIgnoresZero
  <2>5. Total(borrowed_amount, Accounts) = 0
    BY <2>4, TotalEmpty
  <2> QED BY <2>1, <2>2, <2>5 DEF BooksBalance
<1>2. PoolIInv /\ BooksBalance /\ [IncentivesNext]_incentiveVars
        => PoolIInv' /\ BooksBalance'
  <2> SUFFICES ASSUME PoolIInv, BooksBalance, [IncentivesNext]_incentiveVars
               PROVE  PoolIInv' /\ BooksBalance'
    OBVIOUS
  <2>1. PoolIInv'
    BY IncentiveStepIsPoolStep, PoolStep
  <2>2. CASE NextBlock /\ UNCHANGED forgiven
    BY <2>1, <2>2 DEF NextBlock, BooksBalance
  <2>3. ASSUME NEW who \in Accounts, NEW first, NEW second,
               NEW amount \in Amounts,
               IncentiveAddShare(who, first, second, amount)
        PROVE  BooksBalance'
    BY <2>1, <2>3, BooksAfterAdd DEF IncentiveAddShare
  <2>4. ASSUME NEW who \in Accounts, NEW first, NEW second,
               NEW amount \in Amounts,
               IncentiveRemoveShare(who, first, second, amount)
        PROVE  BooksBalance'
    BY <2>1, <2>4, BooksAfterRemove DEF IncentiveRemoveShare
  <2>5. ASSUME NEW who \in Accounts, NEW first, NEW second,
               IncentiveClaimRewards(who, first, second)
        PROVE  BooksBalance'
    BY <2>1, <2>5, BooksAfterClaim DEF IncentiveClaimRewards
  <2>6. CASE UNCHANGED incentiveVars
    BY <2>1, <2>6 DEF incentiveVars, poolVars, BooksBalance
  <2> QED BY <2>1, <2>2, <2>3, <2>4, <2>5, <2>6 DEF IncentivesNext
<1> QED BY <1>1, <1>2, PTL DEF IncentivesSpec

-----------------------------------------------------------------------------
(***************************************************************************)
(* What shares are worth: both roundings are downwards, so the shares of   *)
(* all accounts are together worth no more than the rewards.               *)
(***************************************************************************)

LEMMA DivRoundsDown ==
    ASSUME NEW x \in Nat, NEW d \in Nat \ {0}
    PROVE  /\ x \div d \in Nat
           /\ (x \div d) * d <= x
           /\ x < (x \div d) * d + d
OBVIOUS

LEMMA DivOfProduct ==
    ASSUME NEW x \in Nat, NEW d \in Nat \ {0}
    PROVE  (d * x) \div d = x
<1> DEFINE q == (d * x) \div d
<1>1. d * x \in Nat /\ x * d = d * x
  OBVIOUS
<1>2. q \in Nat /\ q * d <= x * d /\ x * d < q * d + d
  BY <1>1, DivRoundsDown
<1> HIDE DEF q
<1>3. ~(q > x)
  <2>1. q > x => (x + 1) * d <= q * d
    BY <1>2
  <2>2. (x + 1) * d = x * d + d
    OBVIOUS
  <2> QED BY <1>1, <1>2, <2>1, <2>2
<1>4. ~(q < x)
  <2>1. q < x => (q + 1) * d <= x * d
    BY <1>2
  <2>2. (q + 1) * d = q * d + d
    BY <1>2
  <2>3. q * d \in Nat
    BY <1>2
  <2> QED BY <1>1, <1>2, <2>1, <2>2, <2>3
<1>5. q = x
  BY <1>2, <1>3, <1>4
<1> QED BY <1>5 DEF q

\* n of d parts of r, rounded down twice, are at most n * r / d.
LEMMA PartIsFair ==
    ASSUME NEW n \in Nat, NEW d \in Nat \ {0}, NEW r \in Nat
    PROVE  CheckedMulInt(CheckedFromRational(n, d), r) * d <= n * r
<1> DEFINE A == Accuracy
           q == (n * A) \div d
           w == (q * r) \div A
<1>1. A \in Nat \ {0}
  BY PoolAssumption
<1>2. n * A \in Nat
  BY <1>1
<1>3. q \in Nat /\ q * d <= n * A
  BY <1>2, DivRoundsDown
<1> HIDE DEF q
<1>4. q * r \in Nat
  BY <1>3
<1>5. w \in Nat /\ w * A <= q * r
  BY <1>1, <1>4, DivRoundsDown
<1> HIDE DEF w
<1>6. (w * A) * d <= (q * r) * d
  BY <1>1, <1>4, <1>5
<1>7. (q * d) * r <= (n * A) * r
  BY <1>1, <1>2, <1>3
<1>8. /\ (w * A) * d = (w * d) * A
      /\ (q * r) * d = (q * d) * r
      /\ (n * A) * r = (n * r) * A
  BY <1>1, <1>3, <1>5
<1>9. /\ w * d \in Nat /\ n * r \in Nat
      /\ (w * d) * A \in Nat /\ (n * r) * A \in Nat /\ (q * d) * r \in Nat
  BY <1>1, <1>3, <1>5
<1>10. (w * d) * A <= (n * r) * A
  BY <1>6, <1>7, <1>8, <1>9
<1>11. w * d <= n * r
  <2>1. \A x, y \in Nat : x * A <= y * A => x <= y
    BY <1>1
  <2> QED BY <1>9, <1>10, <2>1
<1> QED BY <1>11 DEF CheckedMulInt, CheckedFromRational, q, w, A

LEMMA WorthIsFair ==
    ASSUME PoolTypeOK, NEW n \in Nat
    PROVE  RewardWithVirtual(n) * total_shares <= n * Rewards
<1>1. total_shares \in Nat /\ Rewards \in Nat /\ n * Rewards \in Nat
  BY UpdatedIsNat DEF PoolTypeOK
<1>2. CASE total_shares = 0 \/ n = 0
  BY <1>1, <1>2 DEF RewardWithVirtual
<1>3. CASE total_shares # 0 /\ n # 0
  BY <1>1, <1>3, PartIsFair DEF RewardWithVirtual
<1> QED BY <1>2, <1>3

\* The shares of all accounts are worth no more than the pool's rewards.
LEMMA WorthIsThere ==
    ASSUME PoolIInv
    PROVE  Total([a \in Accounts |-> RewardWithVirtual(shares[a])], Accounts)
             <= Rewards
<1> DEFINE w == [a \in Accounts |-> RewardWithVirtual(shares[a])]
           R == Rewards
           S == total_shares
           ws == [a \in Accounts |-> S * w[a]]
           sr == [a \in Accounts |-> R * shares[a]]
<1>1. /\ PoolTypeOK /\ IsFiniteSet(Accounts) /\ S \in Nat /\ R \in Nat
      /\ shares \in [Accounts -> Nat] /\ S = Total(shares, Accounts)
  BY PoolAssumption, UpdatedIsNat DEF PoolIInv, PoolTypeOK, SharesAddUp
<1>2. w \in [Accounts -> Nat]
  BY <1>1, WithVirtualIsNat
<1>3. ws \in [Accounts -> Nat] /\ sr \in [Accounts -> Nat]
  BY <1>1, <1>2
<1>4. \A a \in Accounts : ws[a] <= sr[a]
  <2> TAKE a \in Accounts
  <2>1. shares[a] \in Nat /\ w[a] \in Nat /\ w[a] = RewardWithVirtual(shares[a])
    BY <1>1, <1>2
  <2>2. w[a] * S <= shares[a] * R
    BY <1>1, <2>1, WorthIsFair
  <2> HIDE DEF w, R, S
  <2>3. S * w[a] = w[a] * S /\ R * shares[a] = shares[a] * R
    BY <1>1, <2>1
  <2> QED BY <2>2, <2>3
<1>5. CASE S = 0
  <2>1. \A a \in Accounts : w[a] = 0
    BY <1>5 DEF RewardWithVirtual
  <2>2. {} \in SUBSET Accounts /\ \A a \in Accounts \ {} : w[a] = 0
    BY <2>1
  <2> HIDE DEF w
  <2>3. Total(w, Accounts) = Total(w, {})
    BY ONLY <1>2, <2>2, TotalIgnoresZero
  <2>4. Total(w, Accounts) <= R
    BY <1>1, <2>3, TotalEmpty
  <2> QED BY <2>4 DEF w
<1>6. CASE S # 0
  <2> DEFINE t == Total(w, Accounts)
  <2>1. Total(ws, Accounts) <= Total(sr, Accounts)
    <3> HIDE DEF ws, sr
    <3> QED BY <1>1, <1>3, <1>4, TotalMonotone
  <2>2. Total(ws, Accounts) = S * t
    <3>1. \A a \in Accounts : ws[a] = S * w[a]
      OBVIOUS
    <3> HIDE DEF ws, w, S
    <3> QED BY <1>1, <1>2, <1>3, <3>1, TotalScale
  <2>3. Total(sr, Accounts) = R * S
    <3>1. \A a \in Accounts : sr[a] = R * shares[a]
      OBVIOUS
    <3> HIDE DEF sr, R
    <3>2. Total(sr, Accounts) = R * Total(shares, Accounts)
      BY <1>1, <1>3, <3>1, TotalScale
    <3> QED BY <1>1, <3>2
  <2>4. t \in Nat
    <3> HIDE DEF w
    <3> QED BY <1>1, <1>2, TotalType
  <2>5. S * t <= R * S
    BY <2>1, <2>2, <2>3
  <2> HIDE DEF t, R, S
  <2>6. t <= R
    <3>1. \A x, y \in Nat, z \in Nat \ {0} : z * x <= y * z => x <= y
      OBVIOUS
    <3> QED BY <1>1, <1>6, <2>4, <2>5, <3>1
  <2> QED BY <2>6 DEF t, R
<1> QED BY <1>1, <1>5, <1>6

\* One account has no more than all of them.
LEMMA OneOfAll ==
    ASSUME PoolIInv, NEW who \in Accounts
    PROVE  /\ shares[who] <= total_shares
           /\ RewardWithVirtual(shares[who]) <= Rewards
<1>1. /\ PoolTypeOK /\ IsFiniteSet(Accounts)
      /\ shares \in [Accounts -> Nat] /\ shares[who] \in Nat
  BY PoolAssumption DEF PoolIInv, PoolTypeOK
<1>2. shares[who] <= total_shares
  <2>1. /\ Total(shares, Accounts) = Total(shares, Accounts \ {who}) + shares[who]
        /\ Total(shares, Accounts \ {who}) \in Nat
    BY <1>1, TotalSplit, TotalType
  <2> QED BY <1>1, <2>1 DEF PoolIInv, SharesAddUp
<1>3. RewardWithVirtual(shares[who]) <= Rewards
  <2> DEFINE w == [a \in Accounts |-> RewardWithVirtual(shares[a])]
  <2>1. w \in [Accounts -> Nat]
    BY <1>1, WithVirtualIsNat
  <2>2. Total(w, Accounts) <= Rewards
    BY WorthIsThere
  <2>3. w[who] = RewardWithVirtual(shares[who])
    OBVIOUS
  <2> HIDE DEF w
  <2>4. /\ Total(w, Accounts) = Total(w, Accounts \ {who}) + w[who]
        /\ Total(w, Accounts \ {who}) \in Nat
    BY <1>1, <2>1, TotalSplit, TotalType
  <2>5. Rewards \in Nat /\ w[who] \in Nat
    BY <1>1, <2>1, UpdatedIsNat
  <2> QED BY <2>2, <2>3, <2>4, <2>5
<1> QED BY <1>2, <1>3

\* Leaving with all its shares, an account repays all its debt.
LEMMA AllIsRepaid ==
    ASSUME PoolTypeOK, NEW who \in Accounts, shares[who] > 0
    PROVE  /\ AccountBalanceToRemove(who, shares[who]) = borrowed_amount[who]
           /\ RewardOf(who, shares[who]) = ActualReward(who)
<1>1. /\ shares[who] \in Nat \ {0} /\ borrowed_amount[who] \in Nat
      /\ Accuracy \in Nat \ {0}
  BY PoolAssumption DEF PoolTypeOK
<1>2. CheckedFromRational(shares[who], shares[who]) = Accuracy
  BY <1>1, DivOfProduct DEF CheckedFromRational
<1>3. AccountBalanceToRemove(who, shares[who]) = borrowed_amount[who]
  BY <1>1, <1>2, DivOfProduct DEF AccountBalanceToRemove, CheckedMulInt
<1> QED BY <1>3 DEF RewardOf, ActualReward

-----------------------------------------------------------------------------
(***************************************************************************)
(* The views.                                                              *)
(***************************************************************************)

\* The currencies of the pair name the pool in either order.
LEMMA PairIsFound ==
    ASSUME NEW left \in Currencies, NEW right \in Currencies,
           {left, right} = {Pair[1], Pair[2]}
    PROVE  PairKey(left, right) = Pair
<1>1. /\ left \in Nat /\ right \in Nat /\ Pair[1] \in Nat /\ Pair[2] \in Nat
      /\ Pair[1] < Pair[2] /\ Pair = <<Pair[1], Pair[2]>>
  BY IncentivesAssumption
<1>2. \/ left = Pair[1] /\ right = Pair[2]
      \/ left = Pair[2] /\ right = Pair[1]
  BY <1>1
<1>3. CASE left = Pair[1] /\ right = Pair[2]
  BY <1>1, <1>3 DEF PairKey
<1>4. CASE left = Pair[2] /\ right = Pair[1]
  <2>1. right < left /\ ~(left < right) /\ left # right
    BY <1>1, <1>4
  <2> QED BY <1>1, <1>4, <2>1 DEF PairKey
<1> QED BY <1>2, <1>3, <1>4

\* An account is shown what claiming would pay, or nothing.
LEMMA ShownParts ==
    ASSUME PoolTypeOK, NEW who \in Accounts
    PROVE  /\ PoolAccumlatedRewards(who) \in Nat
           /\ \/ PoolAccumlatedRewards(who) = 0
              \/ PoolAccumlatedRewards(who) = ActualReward(who)
<1>1. CASE PoolAccumlatedRewards(who) = 0
  BY <1>1
<1>2. CASE PoolAccumlatedRewards(who) # 0
  <2>1. /\ CanRemove(who, shares[who])
        /\ PoolAccumlatedRewards(who) = RewardOf(who, shares[who])
    BY <1>2 DEF PoolAccumlatedRewards
  <2>2. shares[who] > 0 /\ 0 <= RewardOf(who, shares[who])
    BY <2>1 DEF CanRemove, PoolTypeOK
  <2>3. RewardOf(who, shares[who]) = ActualReward(who)
    BY <2>2, AllIsRepaid
  <2>4. ActualReward(who) \in Int
    <3>1. shares[who] \in Nat /\ borrowed_amount[who] \in Nat
      BY DEF PoolTypeOK
    <3> QED BY <3>1, WithVirtualIsNat DEF ActualReward
  <2> QED BY <2>1, <2>2, <2>3, <2>4
<1> QED BY <1>1, <1>2

\* The books cover what is shown.
LEMMA BooksCoverShown ==
    ASSUME PoolIInv, BooksBalance
    PROVE  ShownIsCovered
<1> DEFINE shown == [who \in Accounts |->
                       GetAccountInfo(who, Pair[1], Pair[2]).rewards]
           over == [who \in Accounts |-> Overdrawn(who)]
           worth == [a \in Accounts |-> RewardWithVirtual(shares[a])]
           debt == borrowed_amount
           left == [a \in Accounts |-> shown[a] + debt[a]]
           right == [a \in Accounts |-> worth[a] + over[a]]
<1>1. /\ PoolTypeOK /\ IsFiniteSet(Accounts) /\ debt \in [Accounts -> Nat]
      /\ Rewards \in Nat /\ Useable \in Nat /\ forgiven \in Nat
  BY PoolAssumption, UpdatedIsNat DEF PoolIInv, PoolTypeOK, BooksBalance
<1>2. worth \in [Accounts -> Nat]
  BY <1>1, WithVirtualIsNat DEF PoolTypeOK
<1>3. \A a \in Accounts : /\ ActualReward(a) = worth[a] - debt[a]
                          /\ worth[a] \in Nat /\ debt[a] \in Nat
  BY <1>1, <1>2 DEF ActualReward
<1>4. \A a \in Accounts : shown[a] = PoolAccumlatedRewards(a)
  <2>1. /\ Pair[1] \in Currencies /\ Pair[2] \in Currencies
    BY IncentivesAssumption
  <2>2. PairKey(Pair[1], Pair[2]) = Pair
    BY <2>1, PairIsFound
  <2> QED BY <2>2 DEF GetAccountInfo
<1>5. shown \in [Accounts -> Nat]
  <2>1. \A a \in Accounts : PoolAccumlatedRewards(a) \in Nat
    BY <1>1, ShownParts
  <2>2. \A a \in Accounts : shown[a] \in Nat
    BY <1>4, <2>1
  <2> QED BY <2>2
<1>6. over \in [Accounts -> Nat]
  <2>1. \A a \in Accounts : ActualReward(a) \in Int
    <3> HIDE DEF worth, debt
    <3> QED BY <1>3
  <2>2. \A a \in Accounts : Overdrawn(a) \in Nat
    BY <2>1 DEF Overdrawn
  <2> QED BY <2>2
<1>7. \A a \in Accounts : left[a] <= right[a]
  <2> SUFFICES ASSUME NEW a \in Accounts
               PROVE  shown[a] + debt[a] <= worth[a] + over[a]
    OBVIOUS
  <2>1. shown[a] = 0 \/ shown[a] = worth[a] - debt[a]
    BY <1>1, <1>3, <1>4, ShownParts
  <2>2. /\ over[a] = IF worth[a] - debt[a] < 0 THEN -(worth[a] - debt[a]) ELSE 0
        /\ shown[a] \in Nat /\ worth[a] \in Nat /\ debt[a] \in Nat
        /\ over[a] \in Nat
    BY <1>3, <1>5, <1>6 DEF Overdrawn
  <2> HIDE DEF shown, worth, debt, over
  <2> QED BY <2>1, <2>2
<1>8. left \in [Accounts -> Nat] /\ right \in [Accounts -> Nat]
  <2> HIDE DEF shown, worth, debt, over
  <2> QED BY <1>1, <1>2, <1>5, <1>6
<1>9. Total(left, Accounts) = Total(shown, Accounts) + Total(debt, Accounts)
  <2>1. \A a \in Accounts : left[a] = shown[a] + debt[a]
    OBVIOUS
  <2> HIDE DEF left, shown, debt
  <2> QED BY <1>1, <1>5, <1>8, <2>1, TotalAdd
<1>10. Total(right, Accounts) = Total(worth, Accounts) + Total(over, Accounts)
  <2>1. \A a \in Accounts : right[a] = worth[a] + over[a]
    OBVIOUS
  <2> HIDE DEF right, worth, over
  <2> QED BY <1>1, <1>2, <1>6, <1>8, <2>1, TotalAdd
<1>11. Total(left, Accounts) <= Total(right, Accounts)
  <2> HIDE DEF left, right
  <2> QED BY <1>1, <1>7, <1>8, TotalMonotone
<1>12. Total(worth, Accounts) <= Rewards
  BY WorthIsThere
<1>13. Rewards = Useable + Total(debt, Accounts) + forgiven
  <2>1. /\ total_rewards = total_rewards_useable + Total(debt, Accounts) + forgiven
        /\ PendingReward \in Nat /\ Total(debt, Accounts) \in Nat
        /\ total_rewards \in Nat /\ total_rewards_useable \in Nat
    BY <1>1, PendingIsNat, TotalType DEF BooksBalance, PoolTypeOK
  <2> HIDE DEF debt
  <2> QED BY <1>1, <2>1 DEF Rewards, Useable
<1>14. /\ Total(shown, Accounts) \in Nat /\ Total(debt, Accounts) \in Nat
       /\ Total(worth, Accounts) \in Nat /\ Total(over, Accounts) \in Nat
  <2> HIDE DEF shown, debt, worth, over
  <2> QED BY <1>1, <1>2, <1>5, <1>6, TotalType
<1> HIDE DEF shown, debt, worth, over, left, right
<1>15. Total(shown, Accounts) <= Useable + forgiven + Total(over, Accounts)
  BY <1>1, <1>9, <1>10, <1>11, <1>12, <1>13, <1>14
<1>16. CanUpdate => GetAllIncentivePools.rewards = Useable
  BY DEF GetAllIncentivePools
<1> QED BY <1>15, <1>16 DEF ShownIsCovered, shown, over

\* get_account_info of all accounts and get_all_pools agree, for every set of
\* accounts, accuracy and reward.
THEOREM ShownStaysCovered == IncentivesSpec => []ShownIsCovered
<1>1. PoolIInv /\ BooksBalance => ShownIsCovered
  BY BooksCoverShown
<1> QED BY <1>1, BooksAlwaysBalance, PTL

-----------------------------------------------------------------------------
(***************************************************************************)
(* What is paid.                                                           *)
(***************************************************************************)

\* remove_share of all shares.
LEMMA LeavingPaysShown ==
    ASSUME PoolIInv, NEW who \in Accounts, NEW a \in Accounts,
           NEW amount \in Amounts,
           RemoveSharePaid(a, amount) \/ RemoveShareUnpaid(a, amount),
           shares[who] > 0, shares'[who] = 0
    PROVE  Useable - total_rewards_useable' = PoolAccumlatedRewards(who)
<1>1. /\ PoolTypeOK /\ amount \in Nat /\ Useable \in Nat
      /\ shares[who] \in Nat
      /\ shares' = [shares EXCEPT ![a] = @ - amount]
      /\ CanRemove(a, amount)
  BY PoolAssumption, UpdatedIsNat
     DEF PoolIInv, PoolTypeOK, RemoveSharePaid, RemoveShareUnpaid
<1>2. a = who /\ amount = shares[who]
  BY <1>1 DEF PoolTypeOK
<1>3. RewardOf(who, amount) \in Nat
  BY <1>1, <1>2, RemoveParts
<1>4. CASE RemoveSharePaid(a, amount)
  <2>1. /\ RewardOf(who, amount) > ExistentialReward
        /\ RewardWithVirtual(amount) <= Rewards
        /\ total_rewards_useable' = Useable - RewardOf(who, amount)
    BY <1>2, <1>4 DEF RemoveSharePaid
  <2>2. PoolAccumlatedRewards(who) = RewardOf(who, amount)
    BY <1>1, <1>2, <2>1 DEF PoolAccumlatedRewards
  <2> QED BY <1>1, <1>3, <2>1, <2>2
<1>5. CASE RemoveShareUnpaid(a, amount)
  <2>1. /\ RewardOf(who, amount) <= ExistentialReward
        /\ total_rewards_useable' = Useable
    BY <1>2, <1>5 DEF RemoveShareUnpaid
  <2>2. ~(RewardOf(who, amount) > ExistentialReward)
    BY <1>3, <2>1, PoolAssumption
  <2>3. PoolAccumlatedRewards(who) = 0
    BY <1>2, <2>2 DEF PoolAccumlatedRewards
  <2> QED BY <1>1, <2>1, <2>3
<1> QED BY <1>4, <1>5

\* claim_rewards with a reward.
LEMMA ClaimingPaysShown ==
    ASSUME PoolIInv, NEW who \in Accounts, ClaimRewards(who)
    PROVE  LET payout == Useable - total_rewards_useable'
               shown == PoolAccumlatedRewards(who)
           IN  payout = shown \/ (shown = 0 /\ payout = ExistentialReward)
<1> DEFINE p == ActualReward(who)
<1>1. /\ PoolTypeOK /\ Useable \in Nat /\ shares[who] \in Nat
      /\ borrowed_amount[who] \in Nat /\ ExistentialReward \in Nat
  BY PoolAssumption, UpdatedIsNat DEF PoolIInv, PoolTypeOK
<1>2. /\ CanUpdate /\ shares[who] > 0 /\ 0 <= p /\ p >= ExistentialReward
      /\ p <= Useable /\ total_rewards_useable' = Useable - p
  BY DEF ClaimRewards
<1>3. /\ AccountBalanceToRemove(who, shares[who]) = borrowed_amount[who]
      /\ RewardOf(who, shares[who]) = p
  BY <1>1, <1>2, AllIsRepaid
<1>4. /\ shares[who] <= total_shares
      /\ RewardWithVirtual(shares[who]) <= Rewards
  BY OneOfAll
<1>5. p \in Int
  BY <1>1, WithVirtualIsNat DEF ActualReward
<1> HIDE DEF p
<1>6. CanRemove(who, shares[who])
  BY <1>1, <1>2, <1>3, <1>4, <1>5 DEF CanRemove
<1>7. Useable - total_rewards_useable' = p
  BY <1>1, <1>2, <1>5
<1>8. CASE p > ExistentialReward
  <2>1. PoolAccumlatedRewards(who) = p
    BY <1>3, <1>4, <1>6, <1>8 DEF PoolAccumlatedRewards
  <2> QED BY <1>7, <2>1
<1>9. CASE p = ExistentialReward
  <2>1. ~(p > ExistentialReward)
    BY <1>1, <1>9
  <2>2. PoolAccumlatedRewards(who) = 0
    BY <1>3, <2>1 DEF PoolAccumlatedRewards
  <2> QED BY <1>7, <1>9, <2>2
<1> QED BY <1>1, <1>2, <1>5, <1>8, <1>9

\* Leaving and claiming pay what get_account_info shows, to every account of
\* every pool and in either order of the currencies.
THEOREM ShownIsAlwaysPaid == IncentivesSpec => ShownIsPaid
<1> DEFINE Fair(who, left, right) ==
             LET payout == Useable - total_rewards_useable'
                 shown == GetAccountInfo(who, left, right).rewards
             IN  /\ {left, right} = {Pair[1], Pair[2]}
                 /\ block_number' = block_number
                 => /\ shares[who] > 0 /\ shares'[who] = 0 => payout = shown
                    /\ shares' = shares
                       /\ borrowed_amount'[who] > borrowed_amount[who]
                         => \/ payout = shown
                            \/ shown = 0 /\ payout = ExistentialReward
<1>1. PoolIInv /\ [IncentivesNext]_incentiveVars
        => [\A who \in Accounts, left, right \in Currencies :
              Fair(who, left, right)]_incentiveVars
  <2> SUFFICES ASSUME PoolIInv, IncentivesNext,
                      NEW who \in Accounts, NEW left \in Currencies,
                      NEW right \in Currencies,
                      {left, right} = {Pair[1], Pair[2]},
                      block_number' = block_number
               PROVE  LET payout == Useable - total_rewards_useable'
                          shown == PoolAccumlatedRewards(who)
                      IN  /\ shares[who] > 0 /\ shares'[who] = 0 => payout = shown
                          /\ shares' = shares
                             /\ borrowed_amount'[who] > borrowed_amount[who]
                               => \/ payout = shown
                                  \/ shown = 0 /\ payout = ExistentialReward
    BY PairIsFound DEF GetAccountInfo
  <2> DEFINE payout == Useable - total_rewards_useable'
             shown == PoolAccumlatedRewards(who)
             Goal == /\ shares[who] > 0 /\ shares'[who] = 0 => payout = shown
                     /\ shares' = shares
                        /\ borrowed_amount'[who] > borrowed_amount[who]
                          => \/ payout = shown
                             \/ shown = 0 /\ payout = ExistentialReward
  <2>1. /\ PoolTypeOK /\ shares \in [Accounts -> Nat] /\ shares[who] \in Nat
        /\ borrowed_amount \in [Accounts -> Nat] /\ borrowed_amount[who] \in Nat
        /\ block_number \in Nat
    BY PoolAssumption DEF PoolIInv, PoolTypeOK
  <2>2. ASSUME NextBlock PROVE Goal
    BY <2>1, <2>2 DEF NextBlock
  <2>3. ASSUME NEW a \in Accounts, NEW amount \in Amounts, AddShare(a, amount)
        PROVE  Goal
    <3>1. /\ amount \in Nat /\ amount > 0
          /\ shares' = [shares EXCEPT ![a] = @ + amount]
      BY <2>3, PoolAssumption DEF AddShare
    <3>2. shares'[a] # shares[a]
      BY <2>1, <3>1
    <3>3. ~(shares[who] > 0 /\ shares'[who] = 0)
      BY <2>1, <3>1
    <3> QED BY <3>2, <3>3
  <2>4. ASSUME NEW a \in Accounts, NEW amount \in Amounts,
               RemoveSharePaid(a, amount) \/ RemoveShareUnpaid(a, amount)
        PROVE  Goal
    <3>1. /\ amount \in Nat /\ 0 < amount
          /\ shares' = [shares EXCEPT ![a] = @ - amount]
      BY <2>4, PoolAssumption
         DEF RemoveSharePaid, RemoveShareUnpaid, CanRemove
    <3>2. shares'[a] # shares[a]
      BY <2>1, <3>1
    <3>3. shares[who] > 0 /\ shares'[who] = 0 => payout = shown
      BY <2>4, LeavingPaysShown
    <3> QED BY <3>2, <3>3
  <2>5. ASSUME NEW a \in Accounts, ClaimNothing(a)
        PROVE  Goal
    <3>1. shares' = shares /\ borrowed_amount' = borrowed_amount
      BY <2>5 DEF ClaimNothing
    <3> QED BY <2>1, <3>1
  <2>6. ASSUME NEW a \in Accounts, ClaimRewards(a)
        PROVE  Goal
    <3>1. /\ shares' = shares
          /\ borrowed_amount' = [borrowed_amount EXCEPT
                                   ![a] = RewardWithVirtual(shares[a])]
      BY <2>6 DEF ClaimRewards
    <3>2. borrowed_amount'[who] > borrowed_amount[who] => a = who
      BY <2>1, <3>1
    <3>3. a = who => payout = shown \/ (shown = 0 /\ payout = ExistentialReward)
      BY <2>6, ClaimingPaysShown
    <3>4. ~(shares[who] > 0 /\ shares'[who] = 0)
      BY <2>1, <3>1
    <3> QED BY <3>2, <3>3, <3>4
  <2> HIDE DEF Goal
  <2>7. Goal
    BY <2>2, <2>3, <2>4, <2>5, <2>6
       DEF IncentivesNext, IncentiveAddShare, IncentiveRemoveShare,
           IncentiveClaimRewards
  <2> QED BY <2>7 DEF Goal
<1>2. IncentivesSpec => []PoolIInv
  BY BooksAlwaysBalance, PTL
<1> QED BY <1>1, <1>2, PTL DEF IncentivesSpec, ShownIsPaid

-----------------------------------------------------------------------------
(***************************************************************************)
(* Joining.  R rewards on S shares become T on Z when `a` shares borrow v; *)
(* the worth w of s shares before, and x or y after, are within a unit and *)
(* the error of the fixed point number of the exact value.                 *)
(***************************************************************************)

\* n of d parts of r, rounded down twice, miss n * r / d by little.
LEMMA PartIsTight ==
    ASSUME NEW n \in Nat, NEW d \in Nat \ {0}, NEW r \in Nat, NEW w,
           w = CheckedMulInt(CheckedFromRational(n, d), r)
    PROVE  (n * r) * Accuracy < (w * d) * Accuracy + d * r + d * Accuracy
<1> DEFINE A == Accuracy
           q == (n * A) \div d
<1>1. A \in Nat \ {0}
  BY PoolAssumption
<1>2. n * A \in Nat
  BY <1>1
<1>3. q \in Nat /\ n * A < q * d + d
  BY <1>2, DivRoundsDown
<1>4. w = (q * r) \div A
  BY DEF CheckedMulInt, CheckedFromRational
<1> HIDE DEF q
<1>5. q * r \in Nat
  BY <1>3
<1>6. w \in Nat /\ q * r < w * A + A
  BY <1>1, <1>4, <1>5, DivRoundsDown
<1> HIDE DEF A
<1>7. (n * A) * r <= (q * d + d) * r
  BY <1>1, <1>2, <1>3
<1>8. (q * r) * d < (w * A + A) * d
  BY <1>1, <1>5, <1>6
<1>9. /\ (n * A) * r = (n * r) * A
      /\ (q * d + d) * r = (q * r) * d + d * r
      /\ (w * A + A) * d = (w * d) * A + d * A
  BY <1>1, <1>3, <1>6
<1>10. /\ (n * r) * A \in Int /\ (q * r) * d \in Int /\ d * r \in Int
       /\ (w * d) * A \in Int /\ d * A \in Int
  BY <1>1, <1>3, <1>6
<1>11. (n * r) * A < (w * d) * A + d * r + d * A
  BY <1>7, <1>8, <1>9, <1>10
<1> QED BY <1>11 DEF A

LEMMA Cancel ==
    ASSUME NEW x \in Int, NEW y \in Int, NEW z \in Nat \ {0}
    PROVE  /\ x * z < y * z => x < y
           /\ x * z <= y * z => x <= y
OBVIOUS

\* The price of a share does not rise, and sinks by less than a unit in all.
LEMMA PriceSinks ==
    ASSUME NEW A \in Nat \ {0}, NEW S \in Nat \ {0}, NEW a \in Nat \ {0},
           NEW R \in Nat, NEW v \in Nat, NEW Z \in Nat, NEW T \in Nat,
           Z = S + a, T = R + v,
           v * S <= R * a,
           (R * a) * A < (v * S) * A + S * a + S * A
    PROVE  /\ T * S <= R * Z
           /\ (R * Z) * A < (T * S) * A + S * a + S * A
<1>1. T * S = R * S + v * S /\ R * Z = R * S + R * a
  OBVIOUS
<1>2. /\ (T * S) * A = (R * S) * A + (v * S) * A
      /\ (R * Z) * A = (R * S) * A + (R * a) * A
  BY <1>1
<1>3. /\ R * S \in Int /\ v * S \in Int /\ R * a \in Int
      /\ (R * S) * A \in Int /\ (v * S) * A \in Int /\ (R * a) * A \in Int
      /\ S * a \in Int /\ S * A \in Int
  OBVIOUS
<1>4. T * S <= R * Z
  BY <1>1, <1>3
<1>5. (R * Z) * A < (T * S) * A + S * a + S * A
  BY <1>2, <1>3
<1> QED BY <1>4, <1>5

\* Who does not join gains less than a unit.
LEMMA OthersGainNothing ==
    ASSUME NEW A \in Nat \ {0}, NEW S \in Nat \ {0}, NEW Z \in Nat \ {0},
           NEW R \in Nat, NEW T \in Nat, NEW s \in Nat, NEW w \in Nat,
           NEW x \in Nat,
           T * S <= R * Z,
           (s * R) * A < (w * S) * A + S * R + S * A,
           x * Z <= s * T
    PROVE  (x - w) * A < R + A
<1>1. (x * Z) * S <= (s * T) * S
  OBVIOUS
<1>2. s * (T * S) <= s * (R * Z)
  OBVIOUS
<1>3. /\ (x * Z) * S = (x * S) * Z /\ (s * T) * S = s * (T * S)
      /\ s * (R * Z) = (s * R) * Z
  OBVIOUS
<1>4. /\ (x * S) * Z \in Int /\ s * (T * S) \in Int /\ (s * R) * Z \in Int
      /\ x * S \in Int /\ s * R \in Int
  OBVIOUS
<1>5. (x * S) * Z <= (s * R) * Z
  BY <1>1, <1>2, <1>3, <1>4
<1>6. x * S <= s * R
  BY <1>4, <1>5, Cancel
<1>7. (x * S) * A <= (s * R) * A
  BY <1>4, <1>6
<1>8. /\ (x * S) * A = (x * A) * S
      /\ (w * S) * A + S * R + S * A = (w * A + R + A) * S
  OBVIOUS
<1>9. /\ (x * A) * S \in Int /\ (s * R) * A \in Int
      /\ (w * A + R + A) * S \in Int /\ x * A \in Int /\ w * A \in Int
  OBVIOUS
<1>10. (x * A) * S < (w * A + R + A) * S
  BY <1>7, <1>8, <1>9
<1>11. w * A + R + A \in Int
  OBVIOUS
<1>12. x * A < w * A + R + A
  BY <1>9, <1>10, <1>11, Cancel
<1>13. (x - w) * A = x * A - w * A
  OBVIOUS
<1> QED BY <1>9, <1>12, <1>13

\* Who does not join loses less than its part of a unit, and a unit.
LEMMA OthersLoseLittle ==
    ASSUME NEW A \in Nat \ {0}, NEW S \in Nat \ {0}, NEW a \in Nat \ {0},
           NEW Z \in Nat \ {0},
           NEW R \in Nat, NEW T \in Nat, NEW s \in Nat, NEW w \in Nat,
           NEW x \in Nat,
           (R * Z) * A < (T * S) * A + S * a + S * A,
           w * S <= s * R,
           (s * T) * A < (x * Z) * A + Z * T + Z * A
    PROVE  ((w - x) * A) * Z < Z * (T + A) + s * (a + A)
<1>1. s * ((R * Z) * A) <= s * ((T * S) * A + S * a + S * A)
  OBVIOUS
<1>2. (w * S) * (Z * A) <= (s * R) * (Z * A)
  OBVIOUS
<1>3. ((s * T) * A) * S < ((x * Z) * A + Z * T + Z * A) * S
  OBVIOUS
<1>4. /\ s * ((R * Z) * A) = (s * R) * (Z * A)
      /\ s * ((T * S) * A + S * a + S * A)
           = ((s * T) * A) * S + (s * (a + A)) * S
      /\ (w * S) * (Z * A) = ((w * A) * Z) * S
  OBVIOUS
<1>5. /\ ((w * A) * Z) * S \in Int /\ (s * R) * (Z * A) \in Int
      /\ ((s * T) * A) * S \in Int /\ (s * (a + A)) * S \in Int
      /\ ((x * Z) * A + Z * T + Z * A) * S \in Int
  OBVIOUS
<1>6. ((w * A) * Z) * S
        < ((x * Z) * A + Z * T + Z * A) * S + (s * (a + A)) * S
  BY <1>1, <1>2, <1>3, <1>4, <1>5
<1>7. ((x * Z) * A + Z * T + Z * A) * S + (s * (a + A)) * S
        = ((x * Z) * A + Z * T + Z * A + s * (a + A)) * S
  OBVIOUS
<1>8. /\ (w * A) * Z \in Int
      /\ (x * Z) * A + Z * T + Z * A + s * (a + A) \in Int
  OBVIOUS
<1>9. (w * A) * Z < (x * Z) * A + Z * T + Z * A + s * (a + A)
  BY <1>6, <1>7, <1>8, Cancel
<1>10. /\ ((w - x) * A) * Z = (w * A) * Z - (x * Z) * A
       /\ Z * (T + A) = Z * T + Z * A
  OBVIOUS
<1>11. /\ (x * Z) * A \in Int /\ Z * T \in Int /\ Z * A \in Int
       /\ s * (a + A) \in Int
  OBVIOUS
<1> QED BY <1>8, <1>9, <1>10, <1>11

\* Who joins with `a` shares beside its s gains less than the others' part of a
\* unit, and a unit.
LEMMA JoinerGainsLittle ==
    ASSUME NEW A \in Nat \ {0}, NEW S \in Nat \ {0}, NEW a \in Nat \ {0},
           NEW Z \in Nat \ {0},
           NEW R \in Nat, NEW v \in Nat, NEW T \in Nat, NEW s \in 0..S,
           NEW w \in Nat, NEW y \in Nat,
           Z = S + a, T = R + v,
           (R * a) * A < (v * S) * A + S * a + S * A,
           (s * R) * A < (w * S) * A + S * R + S * A,
           y * Z <= (s + a) * T
    PROVE  ((y - v - w) * A) * Z < Z * (R + A) + (S - s) * (a + A)
<1> DEFINE e == R * a - v * S
           o == S - s
<1>1. e \in Int /\ o \in Nat /\ e * A \in Int
  OBVIOUS
<1>2. ((s + a) * T) * S = (v * S) * Z + (s * R) * Z + o * e
  OBVIOUS
<1>3. e * A <= S * a + S * A
  <2>1. e * A = (R * a) * A - (v * S) * A
    OBVIOUS
  <2>2. (R * a) * A \in Int /\ (v * S) * A \in Int /\ S * a \in Int /\ S * A \in Int
    OBVIOUS
  <2> QED BY <2>1, <2>2
<1> HIDE DEF e, o
<1>4. (o * e) * A <= (o * (a + A)) * S
  <2>1. o * (e * A) <= o * (S * a + S * A)
    BY <1>1, <1>3
  <2>2. o * (e * A) = (o * e) * A /\ o * (S * a + S * A) = (o * (a + A)) * S
    BY <1>1
  <2> QED BY <2>1, <2>2
<1>5. ((y * Z) * S) * A <= (((s + a) * T) * S) * A
  <2>1. y * Z \in Int /\ (s + a) * T \in Int
    OBVIOUS
  <2>2. (y * Z) * S <= ((s + a) * T) * S
    BY <2>1
  <2>3. (y * Z) * S \in Int /\ ((s + a) * T) * S \in Int
    BY <2>1
  <2> QED BY <2>2, <2>3
<1>6. (((s + a) * T) * S) * A
        = ((v * S) * Z) * A + ((s * R) * Z) * A + (o * e) * A
  BY <1>1, <1>2
<1>7. ((s * R) * Z) * A < ((w * S) * A + S * R + S * A) * Z
  <2>1. ((s * R) * A) * Z < ((w * S) * A + S * R + S * A) * Z
    OBVIOUS
  <2>2. ((s * R) * A) * Z = ((s * R) * Z) * A
    OBVIOUS
  <2> QED BY <2>1, <2>2
<1>8. /\ ((y * Z) * S) * A = ((y * A) * Z) * S
      /\ ((v * S) * Z) * A = ((v * A) * Z) * S
      /\ ((w * S) * A + S * R + S * A) * Z
           = ((w * A) * Z + Z * (R + A)) * S
  OBVIOUS
<1>9. /\ ((y * A) * Z) * S \in Int /\ ((v * A) * Z) * S \in Int
      /\ ((s * R) * Z) * A \in Int /\ (o * e) * A \in Int
      /\ ((w * A) * Z + Z * (R + A)) * S \in Int /\ (o * (a + A)) * S \in Int
  BY <1>1
<1>10. ((y * A) * Z) * S
         < ((v * A) * Z) * S + ((w * A) * Z + Z * (R + A)) * S
             + (o * (a + A)) * S
  BY <1>4, <1>5, <1>6, <1>7, <1>8, <1>9
<1>11. ((v * A) * Z) * S + ((w * A) * Z + Z * (R + A)) * S + (o * (a + A)) * S
         = ((v * A) * Z + (w * A) * Z + Z * (R + A) + o * (a + A)) * S
  BY <1>1
<1>12. /\ (y * A) * Z \in Int /\ (v * A) * Z \in Int /\ (w * A) * Z \in Int
       /\ Z * (R + A) \in Int /\ o * (a + A) \in Int
  BY <1>1
<1>13. (y * A) * Z < (v * A) * Z + (w * A) * Z + Z * (R + A) + o * (a + A)
  BY <1>10, <1>11, <1>12, Cancel
<1>14. ((y - v - w) * A) * Z = (y * A) * Z - (v * A) * Z - (w * A) * Z
  OBVIOUS
<1>15. ((y - v - w) * A) * Z < Z * (R + A) + o * (a + A)
  BY <1>12, <1>13, <1>14
<1> QED BY <1>15 DEF o

\* Who joins loses less than a unit.
LEMMA JoinerLosesNothing ==
    ASSUME NEW A \in Nat \ {0}, NEW S \in Nat \ {0}, NEW a \in Nat \ {0},
           NEW Z \in Nat \ {0},
           NEW R \in Nat, NEW v \in Nat, NEW T \in Nat, NEW s \in 0..S,
           NEW w \in Nat, NEW y \in Nat,
           Z = S + a, T = R + v,
           v * S <= R * a,
           w * S <= s * R,
           ((s + a) * T) * A < (y * Z) * A + Z * T + Z * A
    PROVE  (v + w - y) * A < T + A
<1> DEFINE e == R * a - v * S
           o == S - s
<1>1. e \in Nat /\ o \in Nat
  <2>1. R * a \in Int /\ v * S \in Int
    OBVIOUS
  <2> QED BY <2>1
<1>2. ((s + a) * T) * S = (v * S) * Z + (s * R) * Z + o * e
  OBVIOUS
<1> HIDE DEF e, o
<1>3. o * e \in Nat
  BY <1>1
<1>4. (w * S) * Z <= (s * R) * Z
  OBVIOUS
<1>5. /\ ((s + a) * T) * S \in Int /\ (v * S) * Z \in Int
      /\ (s * R) * Z \in Int /\ (w * S) * Z \in Int
  OBVIOUS
<1>6. (v * S) * Z + (w * S) * Z <= ((s + a) * T) * S
  BY <1>2, <1>3, <1>4, <1>5
<1>7. (v * S) * Z + (w * S) * Z = ((v + w) * Z) * S
  OBVIOUS
<1>8. (v + w) * Z \in Int /\ (s + a) * T \in Int
  OBVIOUS
<1>9. (v + w) * Z <= (s + a) * T
  BY <1>6, <1>7, <1>8, Cancel
<1>10. ((v + w) * Z) * A <= ((s + a) * T) * A
  BY <1>8, <1>9
<1>11. /\ ((v + w) * Z) * A = ((v + w) * A) * Z
       /\ (y * Z) * A + Z * T + Z * A = (y * A + T + A) * Z
  OBVIOUS
<1>12. /\ ((v + w) * A) * Z \in Int /\ ((s + a) * T) * A \in Int
       /\ (y * A + T + A) * Z \in Int /\ (v + w) * A \in Int
       /\ y * A \in Int /\ y * A + T + A \in Int
  OBVIOUS
<1>13. ((v + w) * A) * Z < (y * A + T + A) * Z
  BY <1>10, <1>11, <1>12
<1>14. (v + w) * A < y * A + T + A
  BY <1>12, <1>13, Cancel
<1>15. (v + w - y) * A = (v + w) * A - y * A
  OBVIOUS
<1> QED BY <1>12, <1>14, <1>15

\* A difference D that is within a unit and a part of a unit, up to the error
\* of the fixed point numbers, is within the rounding.
LEMMA WithinRounding ==
    ASSUME NEW a \in Nat \ {0}, NEW Z \in Nat \ {0}, NEW T \in Nat,
           NEW D \in Int, NEW part \in Nat, part + a <= Z,
           (D * Accuracy) * Z < Z * (T + Accuracy) + part * (a + Accuracy)
    PROVE  D <= 1 + Imprecision(a, Z, T)
<1> DEFINE A == Accuracy
           q == (a + T) \div A
<1>1. A \in Nat \ {0}
  BY PoolAssumption
<1>2. /\ (D * A) * Z \in Int /\ Z * (T + A) \in Int /\ part * (a + A) \in Int
      /\ D * A \in Int
  BY <1>1
<1>3. (D * A) * Z < Z * (T + A) + part * (a + A)
  OBVIOUS
<1>4. q \in Nat /\ a + T < q * A + A
  BY <1>1, DivRoundsDown
<1>5. Imprecision(a, Z, T) = IF (a + T) * Z <= a * A THEN 0 ELSE 1 + q
  BY DEF Imprecision
<1> HIDE DEF A, q
<1>6. CASE (a + T) * Z <= a * A
  <2>1. part * (a + A) <= (Z - a) * (a + A)
    BY <1>1
  <2>2. (Z - a) * (a + A) = a * Z + A * Z - a * a - a * A
    BY <1>1
  <2>3. Z * (T + A) + (a * Z + A * Z - a * a - a * A)
          = (2 * A) * Z + (a + T) * Z - a * A - a * a
    BY <1>1
  <2>4. /\ (2 * A) * Z \in Int /\ (a + T) * Z \in Int /\ a * A \in Int
        /\ a * a \in Nat /\ a * Z \in Int /\ A * Z \in Int
    BY <1>1
  <2>5. (D * A) * Z < (2 * A) * Z
    BY <1>2, <1>3, <1>6, <2>1, <2>2, <2>3, <2>4
  <2>6. D * A < 2 * A
    BY <1>1, <1>2, <2>5, Cancel
  <2>7. D < 2
    BY <1>1, <2>6, Cancel
  <2> QED BY <1>5, <1>6, <2>7
<1>7. CASE ~((a + T) * Z <= a * A)
  <2>1. part * (a + A) <= Z * (a + A)
    BY <1>1
  <2>2. Z * (T + A) + Z * (a + A) = (T + A + a + A) * Z
    BY <1>1
  <2>3. Z * (a + A) \in Int /\ (T + A + a + A) * Z \in Int /\ T + A + a + A \in Int
    BY <1>1
  <2>4. (D * A) * Z < (T + A + a + A) * Z
    BY <1>2, <1>3, <2>1, <2>2, <2>3
  <2>5. D * A < T + A + a + A
    BY <1>2, <2>3, <2>4, Cancel
  <2>6. D * A < (q + 3) * A
    <3>1. (q + 3) * A = q * A + A + A + A /\ q * A \in Int
      BY <1>1, <1>4
    <3> QED BY <1>1, <1>2, <1>4, <2>5, <3>1
  <2>7. D < q + 3
    BY <1>1, <1>4, <2>6, Cancel
  <2> QED BY <1>4, <1>5, <1>7, <2>7
<1> QED BY <1>6, <1>7

LEMMA NothingOfAll ==
    ASSUME NEW d \in Nat \ {0}, NEW r \in Nat
    PROVE  CheckedMulInt(CheckedFromRational(0, d), r) = 0
<1>1. Accuracy \in Nat \ {0}
  BY PoolAssumption
<1>2. (0 * Accuracy) \div d = 0 /\ (0 * r) \div Accuracy = 0
  BY <1>1
<1> QED BY <1>2 DEF CheckedMulInt, CheckedFromRational

\* What shares are worth, an amount of 0 included.
LEMMA WorthOf ==
    ASSUME PoolTypeOK, NEW n \in Nat, total_shares # 0
    PROVE  RewardWithVirtual(n)
             = CheckedMulInt(CheckedFromRational(n, total_shares), Rewards)
<1>1. CASE n = 0
  <2>1. total_shares \in Nat \ {0} /\ Rewards \in Nat
    BY UpdatedIsNat DEF PoolTypeOK
  <2> QED BY <1>1, <2>1, NothingOfAll DEF RewardWithVirtual
<1>2. CASE n # 0
  BY <1>2 DEF RewardWithVirtual
<1> QED BY <1>1, <1>2

LEMMA AddIsNeutral ==
    ASSUME PoolIInv, PoolIInv', NEW k \in Accounts, NEW amount \in Amounts,
           AddShare(k, amount), total_shares > 0, NEW who \in Accounts
    PROVE  LET rounding == 1 + Imprecision(amount, total_shares', total_rewards')
           IN  ActualReward(who)' - ActualReward(who) \in -rounding..rounding
<1> DEFINE A == Accuracy
           S == total_shares
           Z == total_shares'
           R == Rewards
           T == total_rewards'
           v == VirtualRewardAmount(amount)
           s == shares[who]
           w == RewardWithVirtual(shares[who])
           x == CheckedMulInt(CheckedFromRational(shares'[who], Z), T)
           I == Imprecision(amount, Z, T)
<1>1. /\ PoolTypeOK /\ PoolTypeOK' /\ A \in Nat \ {0} /\ S \in Nat \ {0}
      /\ amount \in Nat \ {0} /\ R \in Nat /\ v \in Nat /\ s \in 0..S
      /\ w \in Nat
  <2>1. PoolTypeOK /\ PoolTypeOK' /\ A \in Nat \ {0} /\ amount \in Nat
    BY PoolAssumption DEF PoolIInv
  <2>2. amount > 0
    BY DEF AddShare
  <2>3. S \in Nat \ {0} /\ s \in Nat
    BY <2>1 DEF PoolTypeOK
  <2>4. s <= S
    BY OneOfAll
  <2>5. s \in 0..S
    BY <2>3, <2>4
  <2>6. R \in Nat /\ v \in Nat /\ w \in Nat
    BY <2>1, <2>3, UpdatedIsNat, VirtualIsNat, WithVirtualIsNat
  <2> QED BY <2>1, <2>2, <2>3, <2>5, <2>6
<1>2. /\ Z = S + amount /\ T = R + v
      /\ shares' = [shares EXCEPT ![k] = @ + amount]
      /\ borrowed_amount' = [borrowed_amount EXCEPT ![k] = @ + v]
      /\ last_update_block' = block_number /\ block_number' = block_number
  BY DEF AddShare
<1>3. Z \in Nat \ {0} /\ T \in Nat
  BY <1>1, <1>2
<1>4. /\ v * S <= R * amount
      /\ (R * amount) * A < (v * S) * A + S * amount + S * A
  <2>1. v = CheckedMulInt(CheckedFromRational(R, S), amount)
    BY <1>1 DEF VirtualRewardAmount
  <2> HIDE DEF v, R, S
  <2> QED BY <1>1, <2>1, PartIsFair, PartIsTight
<1>5. /\ w * S <= s * R
      /\ (s * R) * A < (w * S) * A + S * R + S * A
  <2>1. w = CheckedMulInt(CheckedFromRational(s, S), R) /\ s \in Nat
    BY <1>1, WorthOf
  <2> HIDE DEF w, s, R, S
  <2> QED BY <1>1, <2>1, PartIsFair, PartIsTight
<1>6. /\ s \in Nat /\ shares'[who] \in Nat
      /\ shares'[who] = IF who = k THEN s + amount ELSE s
      /\ borrowed_amount[who] \in Nat
      /\ borrowed_amount'[who] = IF who = k THEN borrowed_amount[who] + v
                                 ELSE borrowed_amount[who]
  BY <1>1, <1>2 DEF PoolTypeOK
<1>7. /\ x \in Nat
      /\ x * Z <= shares'[who] * T
      /\ (shares'[who] * T) * A < (x * Z) * A + Z * T + Z * A
  <2>1. CheckedFromRational(shares'[who], Z) \in Nat
    BY <1>3, <1>6, FromRationalIsNat
  <2>2. x \in Nat
    BY <1>3, <2>1, MulIntIsNat
  <2> HIDE DEF Z, T
  <2> QED BY <1>3, <1>6, <2>2, PartIsFair, PartIsTight
<1>8. ActualReward(who)' = x - borrowed_amount'[who]
  <2>1. PendingReward' = 0
    BY <1>1, <1>2 DEF PendingReward, PoolTypeOK
  <2>2. Rewards' = T
    <3>1. Rewards' = total_rewards' + PendingReward'
      BY DEF Rewards
    <3>2. total_rewards' \in Nat
      BY <1>1 DEF PoolTypeOK
    <3>3. \A t \in Nat : t + 0 = t
      OBVIOUS
    <3>4. Rewards' = total_rewards' + 0
      BY <2>1, <3>1
    <3>5. Rewards' = total_rewards'
      BY <3>2, <3>3, <3>4
    <3> QED BY <3>5
  <2>3. RewardWithVirtual(shares[who])'
          = IF Z = 0 \/ shares'[who] = 0 THEN 0 ELSE x
    BY <2>2 DEF RewardWithVirtual, CheckedMulInt, CheckedFromRational
  <2>4. shares'[who] = 0 => x = 0
    BY <1>3, NothingOfAll
  <2>5. RewardWithVirtual(shares[who])' = x
    BY <1>3, <2>3, <2>4
  <2> QED BY <2>5 DEF ActualReward
<1>9. ActualReward(who) = w - borrowed_amount[who]
  BY DEF ActualReward
<1> HIDE DEF A, S, Z, R, T, v, s, w, x, I
<1>10. /\ T * S <= R * Z
       /\ (R * Z) * A < (T * S) * A + S * amount + S * A
  BY <1>1, <1>2, <1>3, <1>4, PriceSinks
<1>11. \A D \in Int, part \in Nat :
         /\ part + amount <= Z
         /\ (D * A) * Z < Z * (T + A) + part * (amount + A)
         => D <= 1 + I
  BY <1>1, <1>3, WithinRounding DEF A, I
<1>12. \A D \in Int : D * A < T + A => D <= 1 + I
  <2> SUFFICES ASSUME NEW D \in Int, D * A < T + A PROVE D <= 1 + I
    OBVIOUS
  <2>1. D * A \in Int /\ T + A \in Int
    BY <1>1, <1>3
  <2>2. (D * A) * Z < (T + A) * Z
    BY <1>3, <2>1
  <2>3. (T + A) * Z = Z * (T + A) + 0 * (amount + A)
    BY <1>1, <1>3
  <2>4. 0 + amount <= Z
    BY <1>1, <1>2
  <2> QED BY <1>11, <2>2, <2>3, <2>4
<1>13. I \in Nat
  BY <1>1, <1>3 DEF Imprecision, I, A
<1>14. CASE who # k
  <2>1. shares'[who] = s /\ borrowed_amount'[who] = borrowed_amount[who]
    BY <1>6, <1>14
  <2>2. (x - w) * A < R + A
    BY <1>1, <1>3, <1>5, <1>6, <1>7, <1>10, <2>1, OthersGainNothing
  <2>3. x - w <= 1 + I
    <3>1. (x - w) * A \in Int /\ R + A <= T + A /\ x - w \in Int
      BY <1>1, <1>2, <1>7
    <3>2. (x - w) * A < T + A
      BY <1>1, <1>3, <2>2, <3>1
    <3> QED BY <1>12, <3>1, <3>2
  <2>4. ((w - x) * A) * Z < Z * (T + A) + s * (amount + A)
    BY <1>1, <1>3, <1>5, <1>6, <1>7, <1>10, <2>1, OthersLoseLittle
  <2>5. w - x <= 1 + I
    <3>1. s + amount <= Z /\ w - x \in Int
      BY <1>1, <1>2, <1>6, <1>7
    <3> QED BY <1>6, <1>11, <2>4, <3>1
  <2>6. ActualReward(who)' - ActualReward(who) = x - w
    BY <1>1, <1>6, <1>7, <1>8, <1>9, <2>1
  <2>7. x - w \in -(1 + I)..(1 + I)
    BY <1>1, <1>7, <1>13, <2>3, <2>5
  <2> QED BY <2>6, <2>7 DEF I, Z, T
<1>15. CASE who = k
  <2>1. /\ shares'[who] = s + amount
        /\ borrowed_amount'[who] = borrowed_amount[who] + v
    BY <1>6, <1>15
  <2> DEFINE D == x - v - w
             part == S - s
  <2>2. D \in Int /\ part \in Nat /\ part + amount <= Z
    BY <1>1, <1>2, <1>6, <1>7
  <2>3. (D * A) * Z < Z * (R + A) + part * (amount + A)
    BY <1>1, <1>2, <1>3, <1>4, <1>5, <1>7, <2>1, JoinerGainsLittle
  <2>4. (v + w - x) * A < T + A
    BY <1>1, <1>2, <1>3, <1>4, <1>5, <1>7, <2>1, JoinerLosesNothing
  <2>5. ActualReward(who)' - ActualReward(who) = D
    BY <1>1, <1>6, <1>7, <1>8, <1>9, <2>1
  <2>6. -D = v + w - x
    BY <1>1, <1>7
  <2> HIDE DEF D, part
  <2>7. D <= 1 + I
    <3>1. Z * (R + A) <= Z * (T + A)
      BY <1>1, <1>2, <1>3
    <3>2. /\ Z * (R + A) \in Int /\ Z * (T + A) \in Int
          /\ part * (amount + A) \in Int /\ (D * A) * Z \in Int
      BY <1>1, <1>3, <2>2
    <3>3. (D * A) * Z < Z * (T + A) + part * (amount + A)
      BY <2>3, <3>1, <3>2
    <3> QED BY <1>11, <2>2, <3>3
  <2>8. -D <= 1 + I
    <3>1. -D \in Int /\ (-D) * A < T + A
      BY <2>2, <2>4, <2>6
    <3> QED BY <1>12, <3>1
  <2>9. D \in -(1 + I)..(1 + I)
    BY <1>13, <2>2, <2>7, <2>8
  <2> QED BY <2>5, <2>9 DEF I, Z, T
<1> QED BY <1>14, <1>15

\* add_share takes nothing from the accounts in the pool and gives nothing to
\* the one that joins but a unit of rounding and what the fixed point numbers
\* lose, for all shares, rewards and accuracies.
THEOREM JoiningStaysNeutral == PoolSpec => JoiningIsNeutral
<1> DEFINE Neutral(who) ==
             LET added == total_shares' - total_shares
                 rounding == 1 + Imprecision(added, total_shares', total_rewards')
             IN  /\ total_shares > 0
                 /\ added > 0
                 /\ shares[who] > 0 \/ shares'[who] > 0
                 => ActualReward(who)' - ActualReward(who)
                      \in -rounding..rounding
<1>1. PoolIInv /\ PoolIInv' /\ [PoolNext]_poolVars
        => [\A who \in Accounts : Neutral(who)]_poolVars
  <2> SUFFICES ASSUME PoolIInv, PoolIInv', PoolNext, NEW who \in Accounts,
                      total_shares > 0, total_shares' - total_shares > 0
               PROVE  Neutral(who)
    OBVIOUS
  <2>1. total_shares \in Nat /\ total_shares' \in Nat
    BY DEF PoolIInv, PoolTypeOK
  <2>2. ASSUME NEW k \in Accounts, NEW amount \in Amounts, AddShare(k, amount)
        PROVE  Neutral(who)
    <3>1. amount \in Nat /\ total_shares' = total_shares + amount
      BY <2>2, PoolAssumption DEF AddShare
    <3>2. total_shares' - total_shares = amount
      BY <2>1, <3>1
    <3> QED BY <2>2, <3>2, AddIsNeutral
  <2>3. ASSUME NEW k \in Accounts, NEW amount \in Amounts,
               RemoveSharePaid(k, amount) \/ RemoveShareUnpaid(k, amount)
        PROVE  FALSE
    <3>1. amount \in Nat /\ total_shares' = total_shares - amount
      BY <2>3, PoolAssumption DEF RemoveSharePaid, RemoveShareUnpaid
    <3> QED BY <2>1, <3>1
  <2>4. ASSUME NEW k \in Accounts, ClaimNothing(k) \/ ClaimRewards(k)
        PROVE  FALSE
    <3>1. total_shares' = total_shares
      BY <2>4 DEF ClaimNothing, ClaimRewards
    <3> QED BY <2>1, <3>1
  <2>5. ASSUME NextBlock PROVE FALSE
    BY <2>1, <2>5 DEF NextBlock
  <2> HIDE DEF Neutral
  <2> QED BY <2>2, <2>3, <2>4, <2>5 DEF PoolNext
<1> QED BY <1>1, PoolInvariant, PTL DEF PoolSpec, JoiningIsNeutral


-----------------------------------------------------------------------------
(***************************************************************************)
(* The bridge.                                                             *)
(***************************************************************************)
PoolEntries == [network : Networks, tx : Txs, dest : Accounts,
                signer : EthAddresses]

FeesRecord == [mint : Nat, burn : Nat]

ClaimsTypeOK ==
    /\ claims \in [Txs -> Claim \cup {None}]
    /\ claim_limit \in Nat
    /\ old_fees \in FeesRecord
    /\ elastic_claims \in [Networks -> [Txs -> Claim \cup {None}]]
    /\ elastic_claim_limits \in [Networks -> Nat]
    /\ bridge_fees \in [Networks -> FeesRecord]
    /\ storage_version \in {1, 2}
    /\ upgrade_due \in BOOLEAN
    /\ free \in [Accounts -> Nat]
    /\ fee_account \in Nat
    /\ locked \in Int
    /\ pool \in [Nodes -> SUBSET PoolEntries]
    /\ granted \in [Networks -> Nat]
    /\ spent \in [Networks -> Nat]

\* No call meets a claim of the first version: they are moved before any call
\* of new code is made, and stay moved.
OldClaimsAreMoved ==
    ~upgrade_due \/ storage_version = 2 => \A t \in Txs : claims[t] = None

\* A limit of the first version that is still to be moved has not been used.
OldLimitIsFresh ==
    storage_version = 1 /\ claim_limit # 0 =>
        /\ upgrade_due
        /\ spent[BSC] = 0
        /\ granted[BSC] = claim_limit

ClaimsIInv ==
    /\ ClaimsTypeOK
    /\ OldClaimsAreMoved
    /\ OldLimitIsFresh
    /\ MintedWithinLimit

-----------------------------------------------------------------------------
(***************************************************************************)
(* The invariant of the storage.                                           *)
(***************************************************************************)

LEMMA ClaimsInitIInv == ClaimsInit => ClaimsIInv
<1> SUFFICES ASSUME ClaimsInit PROVE ClaimsIInv
  OBVIOUS
<1> USE ClaimsAssumption DEF ClaimsInit
<1>1. OldClaims \subseteq Claim \cup {None}
  BY DEF OldClaims, Claim
<1>2. ClaimsTypeOK
  <2>1. locked \in Int
    <3>1. Total(free, Accounts) \in Nat
      <4>1. free \in [Accounts -> Nat]
        OBVIOUS
      <4> QED BY <4>1, TotalType
    <3>2. Total([t \in Txs |-> Unpaid(claims[t])], Txs) \in Nat
      <4>1. [t \in Txs |-> Unpaid(claims[t])] \in [Txs -> Nat]
        BY <1>1 DEF Unpaid, Claim
      <4> QED BY <4>1, TotalType
    <3> QED BY <3>1, <3>2
  <2>2. old_fees \in FeesRecord /\ bridge_fees \in [Networks -> FeesRecord]
    BY DEF FeesRecord, NoFees, Fees
  <2>3. claims \in [Txs -> Claim \cup {None}]
    BY <1>1
  <2>4. storage_version \in {1, 2} /\ upgrade_due \in BOOLEAN
    OBVIOUS
  <2>5. /\ elastic_claims \in [Networks -> [Txs -> Claim \cup {None}]]
        /\ pool \in [Nodes -> SUBSET PoolEntries]
    OBVIOUS
  <2>6. /\ claim_limit \in Nat
        /\ elastic_claim_limits \in [Networks -> Nat]
        /\ free \in [Accounts -> Nat]
        /\ fee_account \in Nat
        /\ granted \in [Networks -> Nat]
        /\ spent \in [Networks -> Nat]
    OBVIOUS
  <2> QED BY <2>1, <2>2, <2>3, <2>4, <2>5, <2>6 DEF ClaimsTypeOK
<1>3. OldClaimsAreMoved
  BY DEF OldClaimsAreMoved, OldStorageIsEmpty
<1>4. OldLimitIsFresh
  BY DEF OldLimitIsFresh, OldStorageIsEmpty
<1>5. MintedWithinLimit
  BY DEF MintedWithinLimit
<1> QED BY <1>2, <1>3, <1>4, <1>5 DEF ClaimsIInv

\* What a mint takes off the limit is an amount, and no more than the value.
LEMMA MintedAmount ==
    ASSUME ClaimsTypeOK, NEW from, NEW n \in Networks, NEW t \in Txs,
           NEW value \in Values, CanMint(from, n, t, value)
    PROVE  /\ ClaimAmount(n, value) \in Nat
           /\ ClaimAmount(n, value) = value - bridge_fees[n].mint
           /\ bridge_fees[n].mint \in Nat
           /\ value \in Nat
           /\ ClaimAmount(n, value) <= elastic_claim_limits[n]
<1>1. value \in Nat
  BY ClaimsAssumption
<1>2. bridge_fees[n].mint \in Nat /\ elastic_claim_limits[n] \in Nat
  BY DEF ClaimsTypeOK, FeesRecord
<1>3. value >= bridge_fees[n].mint /\ elastic_claim_limits[n] >= value
  BY <1>1, <1>2 DEF CanMint
<1> QED BY <1>1, <1>2, <1>3 DEF ClaimAmount

LEMMA DepositType ==
    ASSUME NEW held \in Nat, NEW amount \in Nat
    PROVE  Deposit(held, amount) \in Nat
           /\ Deposit(held, amount) <= held + amount
BY ClaimsAssumption DEF Deposit

\* A recorded claim keeps the invariant.
LEMMA RecordClaimIInv ==
    ASSUME ClaimsIInv, NEW from, NEW n \in Networks, NEW t \in Txs,
           NEW value \in Values, CanMint(from, n, t, value),
           NEW who \in EthAddresses \cup {ZeroAddress}, NEW claimed \in BOOLEAN,
           RecordClaim(n, t, value, who, claimed),
           free' \in [Accounts -> Nat]
    PROVE  ClaimsIInv'
<1> DEFINE amount == ClaimAmount(n, value)
<1>1. /\ amount \in Nat /\ bridge_fees[n].mint \in Nat /\ value \in Nat
      /\ amount <= elastic_claim_limits[n]
  BY MintedAmount DEF ClaimsIInv
<1>2. ClaimsTypeOK'
  <2>1. elastic_claims' \in [Networks -> [Txs -> Claim \cup {None}]]
    <3>1. [who |-> who, amount |-> amount, claimed |-> claimed] \in Claim
      BY <1>1 DEF Claim
    <3> QED BY <3>1 DEF RecordClaim, ClaimsIInv, ClaimsTypeOK
  <2>2. /\ elastic_claim_limits' \in [Networks -> Nat]
        /\ spent' \in [Networks -> Nat]
    <3>1. /\ elastic_claim_limits' =
               [elastic_claim_limits EXCEPT ![n] = @ - amount]
          /\ spent' = [spent EXCEPT ![n] = @ + amount]
      BY DEF RecordClaim
    <3>2. /\ elastic_claim_limits \in [Networks -> Nat]
          /\ spent \in [Networks -> Nat]
      BY DEF ClaimsIInv, ClaimsTypeOK
    <3>3. elastic_claim_limits[n] - amount \in Nat /\ spent[n] + amount \in Nat
      <4> HIDE DEF amount
      <4> QED BY <1>1, <3>2
    <3> HIDE DEF amount
    <3> QED BY <3>1, <3>2, <3>3
  <2>3. fee_account' \in Nat /\ locked' \in Int
    <3>1. /\ fee_account' = Deposit(fee_account, bridge_fees[n].mint)
          /\ locked' = locked + value
      BY DEF RecordClaim
    <3>2. fee_account \in Nat /\ locked \in Int
      BY DEF ClaimsIInv, ClaimsTypeOK
    <3>3. Deposit(fee_account, bridge_fees[n].mint) \in Nat
      BY <1>1, <3>2, DepositType
    <3>4. locked + value \in Int
      BY <1>1, <3>2
    <3> QED BY <3>1, <3>3, <3>4
  <2> QED BY <2>1, <2>2, <2>3
       DEF RecordClaim, ClaimsIInv, ClaimsTypeOK, oldVars, upgradeVars
<1>3. OldClaimsAreMoved'
  BY DEF RecordClaim, ClaimsIInv, OldClaimsAreMoved, oldVars, upgradeVars
<1>4. OldLimitIsFresh'
  BY DEF RecordClaim, ClaimsIInv, OldLimitIsFresh, oldVars, upgradeVars,
         CanMint, Running
<1>5. MintedWithinLimit'
  <2> SUFFICES ASSUME NEW m \in Networks
               PROVE  spent'[m] + elastic_claim_limits'[m] <= granted'[m]
    BY DEF MintedWithinLimit
  <2>1. spent[m] + elastic_claim_limits[m] <= granted[m] /\ granted' = granted
    BY DEF ClaimsIInv, MintedWithinLimit, RecordClaim
  <2>2. spent[m] \in Nat /\ elastic_claim_limits[m] \in Nat
        /\ granted[m] \in Nat
    BY DEF ClaimsIInv, ClaimsTypeOK
  <2>3. /\ spent'[m] = IF m = n THEN spent[m] + amount ELSE spent[m]
        /\ elastic_claim_limits'[m] = IF m = n
             THEN elastic_claim_limits[m] - amount ELSE elastic_claim_limits[m]
    BY DEF RecordClaim, ClaimsIInv, ClaimsTypeOK
  <2> HIDE DEF amount
  <2> QED BY <1>1, <2>1, <2>2, <2>3
<1> QED BY <1>2, <1>3, <1>4, <1>5 DEF ClaimsIInv

LEMMA ClaimsStepIInv == ClaimsIInv /\ [ClaimsNext]_claimsVars => ClaimsIInv'
<1> SUFFICES ASSUME ClaimsIInv, [ClaimsNext]_claimsVars PROVE ClaimsIInv'
  OBVIOUS
<1> USE ClaimsAssumption
<1> USE DEF oldVars, configVars, moneyVars, limitVars, upgradeVars
<1>1. CASE SetCode
  <2> USE <1>1 DEF SetCode
  <2>1. ClaimsTypeOK'
    BY DEF ClaimsIInv, ClaimsTypeOK
  <2>2. OldClaimsAreMoved'
    BY DEF ClaimsIInv, OldClaimsAreMoved, Running
  <2>3. OldLimitIsFresh'
    BY DEF ClaimsIInv, OldLimitIsFresh, Running
  <2>4. MintedWithinLimit'
    BY DEF ClaimsIInv, MintedWithinLimit
  <2> QED BY <2>1, <2>2, <2>3, <2>4 DEF ClaimsIInv
<1>2. CASE OnRuntimeUpgrade
  <2> USE <1>2 DEF OnRuntimeUpgrade, MigrateClaims, MigrateConfig
  <2>1. ClaimsTypeOK'
    <3>1. /\ claims' \in [Txs -> Claim \cup {None}]
          /\ elastic_claims' \in [Networks -> [Txs -> Claim \cup {None}]]
      BY DEF ClaimsIInv, ClaimsTypeOK
    <3>2. elastic_claim_limits' \in [Networks -> Nat]
      BY DEF ClaimsIInv, ClaimsTypeOK
    <3>3. old_fees' \in FeesRecord /\ bridge_fees' \in [Networks -> FeesRecord]
      BY DEF ClaimsIInv, ClaimsTypeOK, NoFees, Fees, FeesRecord
    <3> QED BY <3>1, <3>2, <3>3 DEF ClaimsIInv, ClaimsTypeOK
  <2>2. OldClaimsAreMoved' /\ OldLimitIsFresh'
    BY DEF OldClaimsAreMoved, OldLimitIsFresh
  <2>3. MintedWithinLimit'
    BY DEF ClaimsIInv, ClaimsTypeOK, OldLimitIsFresh, MintedWithinLimit
  <2> QED BY <2>1, <2>2, <2>3 DEF ClaimsIInv
<1>3. CASE OnRuntimeUpgradeLatest
  <2> USE <1>3 DEF OnRuntimeUpgradeLatest
  <2>1. storage_version = 2 /\ storage_version' = 2
    BY DEF ClaimsIInv, ClaimsTypeOK
  <2>2. ClaimsTypeOK'
    BY DEF ClaimsIInv, ClaimsTypeOK
  <2>3. OldClaimsAreMoved' /\ OldLimitIsFresh'
    BY <2>1 DEF ClaimsIInv, OldClaimsAreMoved, OldLimitIsFresh
  <2>4. MintedWithinLimit'
    BY DEF ClaimsIInv, MintedWithinLimit
  <2> QED BY <2>2, <2>3, <2>4 DEF ClaimsIInv
<1>4. ASSUME NEW n \in Networks, NEW a \in Accounts,
             SetBridgeAccountElastic(n, a)
      PROVE  ClaimsIInv'
  BY <1>4 DEF SetBridgeAccountElastic, ClaimsIInv, ClaimsTypeOK,
              OldClaimsAreMoved, OldLimitIsFresh, MintedWithinLimit
<1>5. ASSUME NEW n \in Networks, NEW limit \in Limits,
             SetClaimLimitElastic(n, limit)
      PROVE  ClaimsIInv'
  <2> USE <1>5 DEF SetClaimLimitElastic
  <2>1. ClaimsTypeOK'
    BY DEF ClaimsIInv, ClaimsTypeOK
  <2>2. OldClaimsAreMoved' /\ OldLimitIsFresh'
    BY DEF ClaimsIInv, OldClaimsAreMoved, OldLimitIsFresh, Running
  <2>3. MintedWithinLimit'
    BY DEF ClaimsIInv, ClaimsTypeOK, MintedWithinLimit
  <2> QED BY <2>1, <2>2, <2>3 DEF ClaimsIInv
<1>6. ASSUME NEW n \in Networks, NEW m \in MintFees, NEW b \in BurnFees,
             SetBridgeFeeElastic(n, m, b)
      PROVE  ClaimsIInv'
  <2>1. Fees(m, b) \in FeesRecord
    BY DEF Fees, FeesRecord
  <2> QED BY <1>6, <2>1
       DEF SetBridgeFeeElastic, ClaimsIInv, ClaimsTypeOK,
           OldClaimsAreMoved, OldLimitIsFresh, MintedWithinLimit
<1>7. ASSUME NEW from \in Accounts, NEW n \in Networks, NEW t \in Txs,
             NEW value \in Values, NEW who \in EthAddresses,
             MintClaimElastic(from, n, t, who, value)
      PROVE  ClaimsIInv'
  <2>1. CanMint(from, n, t, value) /\ RecordClaim(n, t, value, who, FALSE)
    BY <1>7 DEF MintClaimElastic
  <2>2. free' \in [Accounts -> Nat]
    BY <1>7 DEF MintClaimElastic, ClaimsIInv, ClaimsTypeOK
  <2> QED BY <2>1, <2>2, RecordClaimIInv
<1>8. ASSUME NEW from \in Accounts, NEW n \in Networks, NEW t \in Txs,
             NEW value \in Values, NEW dest \in Accounts,
             MintAndSendClaimElastic(from, n, t, dest, value)
      PROVE  ClaimsIInv'
  <2>1. /\ CanMint(from, n, t, value)
        /\ RecordClaim(n, t, value, ZeroAddress, TRUE)
        /\ free' = [free EXCEPT ![dest] = Deposit(@, ClaimAmount(n, value))]
    BY <1>8 DEF MintAndSendClaimElastic, DoMintAndSendClaim
  <2>2. free' \in [Accounts -> Nat]
    <3>1. free \in [Accounts -> Nat] /\ free[dest] \in Nat
      BY DEF ClaimsIInv, ClaimsTypeOK
    <3>2. ClaimAmount(n, value) \in Nat
      BY <2>1, MintedAmount DEF ClaimsIInv
    <3>3. Deposit(free[dest], ClaimAmount(n, value)) \in Nat
      BY <3>1, <3>2, DepositType
    <3> QED BY <2>1, <3>1, <3>3
  <2> QED BY <2>1, <2>2, RecordClaimIInv
<1>9. ASSUME NEW node \in Nodes, NEW n \in Networks, NEW t \in Txs,
             NEW dest \in Accounts, NEW signer \in EthAddresses,
             ValidateUnsigned(node, n, t, dest, signer)
      PROVE  ClaimsIInv'
  <2>1. PoolEntry(n, t, dest, signer) \in PoolEntries
    BY DEF PoolEntry, PoolEntries
  <2>2. pool' \in [Nodes -> SUBSET PoolEntries]
    BY <1>9, <2>1 DEF ValidateUnsigned, ClaimsIInv, ClaimsTypeOK
  <2> QED BY <1>9, <2>2
       DEF ValidateUnsigned, ClaimsIInv, ClaimsTypeOK,
           OldClaimsAreMoved, OldLimitIsFresh, MintedWithinLimit
<1>10. ASSUME NEW node \in Nodes, NEW e \in pool[node], ClaimElastic(node, e)
       PROVE  ClaimsIInv'
  <2>1. e \in PoolEntries /\ pool' \in [Nodes -> SUBSET PoolEntries]
    BY <1>10 DEF ClaimElastic, ClaimsIInv, ClaimsTypeOK
  <2>2. e.network \in Networks /\ e.tx \in Txs /\ e.dest \in Accounts
    BY <2>1 DEF PoolEntries
  <2> DEFINE c == elastic_claims[e.network][e.tx]
  <2>3. c \in Claim
    BY <1>10, <2>2 DEF ClaimElastic, DoClaim, ValidClaim, ClaimsIInv,
                       ClaimsTypeOK
  <2>4. free' \in [Accounts -> Nat]
    <3>1. free \in [Accounts -> Nat] /\ free[e.dest] \in Nat
      BY <2>2 DEF ClaimsIInv, ClaimsTypeOK
    <3>2. c.amount \in Nat
      BY <2>3 DEF Claim
    <3>3. Deposit(free[e.dest], c.amount) \in Nat
      BY <3>1, <3>2, DepositType
    <3> QED BY <1>10, <3>1, <3>3 DEF ClaimElastic, DoClaim
  <2>5. elastic_claims' \in [Networks -> [Txs -> Claim \cup {None}]]
    <3>1. [c EXCEPT !.claimed = TRUE] \in Claim
      BY <2>3 DEF Claim
    <3> QED BY <1>10, <2>2, <3>1
         DEF ClaimElastic, DoClaim, ClaimsIInv, ClaimsTypeOK
  <2> QED BY <1>10, <2>1, <2>4, <2>5
       DEF ClaimElastic, ClaimsIInv, ClaimsTypeOK, OldClaimsAreMoved,
           OldLimitIsFresh, MintedWithinLimit
<1>11. ASSUME NEW node \in Nodes, NEW e \in pool[node], DropInvalid(node, e)
       PROVE  ClaimsIInv'
  BY <1>11 DEF DropInvalid, ClaimsIInv, ClaimsTypeOK, OldClaimsAreMoved,
               OldLimitIsFresh, MintedWithinLimit
<1>12. ASSUME NEW who \in Accounts, NEW n \in Networks, NEW amount \in Values,
              BurnElastic(who, n, amount)
       PROVE  ClaimsIInv'
  <2>1. amount \in Nat /\ free[who] \in Nat /\ bridge_fees[n].burn \in Nat
        /\ fee_account \in Nat /\ locked \in Int
    BY DEF ClaimsIInv, ClaimsTypeOK, FeesRecord
  <2>2. free' \in [Accounts -> Nat]
    BY <1>12, <2>1 DEF BurnElastic, DoBurn, ClaimsIInv, ClaimsTypeOK
  <2>3. fee_account' \in Nat
    <3>1. Deposit(fee_account, bridge_fees[n].burn) \in Nat
      BY <2>1, DepositType
    <3> QED BY <1>12, <3>1 DEF BurnElastic, DoBurn
  <2>4. locked' \in Int
    BY <1>12, <2>1 DEF BurnElastic, DoBurn, BurnAmount
  <2> QED BY <1>12, <2>2, <2>3, <2>4
       DEF BurnElastic, ClaimsIInv, ClaimsTypeOK, OldClaimsAreMoved,
           OldLimitIsFresh, MintedWithinLimit
<1>13. CASE UNCHANGED claimsVars
  BY <1>13 DEF claimsVars, ClaimsIInv, ClaimsTypeOK, OldClaimsAreMoved,
               OldLimitIsFresh, MintedWithinLimit
<1> QED
  BY <1>1, <1>2, <1>3, <1>4, <1>5, <1>6, <1>7, <1>8, <1>9, <1>10, <1>11,
     <1>12, <1>13 DEF ClaimsNext

\* The claims recorded since Root last set a network's limit stay within it,
\* through every order of mints, new limits and upgrades.
THEOREM ClaimsMintedWithinLimit == ClaimsSpec => []MintedWithinLimit
<1>1. ClaimsIInv => MintedWithinLimit
  BY DEF ClaimsIInv
<1> QED BY <1>1, ClaimsInitIInv, ClaimsStepIInv, PTL DEF ClaimsSpec

-----------------------------------------------------------------------------
(***************************************************************************)
(* A claim is final.  What a step does to the claims: a mint fills an      *)
(* empty entry, a claim sets `claimed', the upgrade moves every claim and  *)
(* no other step touches one.                                              *)
(***************************************************************************)

\* The steps that leave the claims of both storages alone.
LEMMA OtherStepsKeepClaims ==
    ASSUME ClaimsNext
    PROVE  \/ UNCHANGED <<claims, elastic_claims>>
           \/ OnRuntimeUpgrade
           \/ \E from \in Accounts, n \in Networks, t \in Txs, value \in Values :
                \/ \E who \in EthAddresses :
                     MintClaimElastic(from, n, t, who, value)
                \/ \E dest \in Accounts :
                     MintAndSendClaimElastic(from, n, t, dest, value)
           \/ \E node \in Nodes : \E e \in pool[node] : ClaimElastic(node, e)
BY DEF ClaimsNext, SetCode, OnRuntimeUpgradeLatest, SetBridgeAccountElastic,
       SetClaimLimitElastic, SetBridgeFeeElastic, ValidateUnsigned,
       DropInvalid, BurnElastic, oldVars

\* The upgrade moves every claim as it is.
LEMMA UpgradeKeepsClaims ==
    ASSUME ClaimsIInv, OnRuntimeUpgrade, NEW n \in Networks, NEW t \in Txs
    PROVE  ClaimOf(n, t)' = ClaimOf(n, t)
<1>1. /\ elastic_claims' = [elastic_claims EXCEPT ![BSC] =
           [s \in Txs |-> IF elastic_claims[BSC][s] = None
                          THEN claims[s] ELSE elastic_claims[BSC][s]]]
      /\ claims' = [s \in Txs |-> None]
  BY DEF OnRuntimeUpgrade, MigrateClaims
<1>2. elastic_claims \in [Networks -> [Txs -> Claim \cup {None}]]
  BY DEF ClaimsIInv, ClaimsTypeOK
<1>3. elastic_claims'[n][t] = IF n = BSC /\ elastic_claims[n][t] = None
                              THEN claims[t] ELSE elastic_claims[n][t]
  BY <1>1, <1>2
<1>4. claims'[t] = None
  BY <1>1
<1> QED BY <1>3, <1>4 DEF ClaimOf

\* A mint fills one entry, which was empty.
LEMMA MintFillsAnEmptyEntry ==
    ASSUME ClaimsIInv, NEW from, NEW n \in Networks, NEW t \in Txs,
           NEW value \in Values, CanMint(from, n, t, value),
           NEW who \in EthAddresses \cup {ZeroAddress}, NEW claimed \in BOOLEAN,
           RecordClaim(n, t, value, who, claimed)
    PROVE  /\ ClaimOf(n, t) = None
           /\ elastic_claims'[n][t] =
                [who |-> who, amount |-> ClaimAmount(n, value),
                 claimed |-> claimed]
           /\ claims' = claims
<1>1. elastic_claims \in [Networks -> [Txs -> Claim \cup {None}]]
  BY DEF ClaimsIInv, ClaimsTypeOK
<1>2. elastic_claims[n][t] = None /\ ~upgrade_due
  BY DEF CanMint, Running
<1>3. claims[t] = None
  BY <1>2 DEF ClaimsIInv, OldClaimsAreMoved
<1>4. claims' = claims
  BY DEF RecordClaim, oldVars
<1>5. elastic_claims' = [elastic_claims EXCEPT ![n][t] =
        [who |-> who, amount |-> ClaimAmount(n, value), claimed |-> claimed]]
  BY DEF RecordClaim
<1>6. elastic_claims'[n][t] =
        [who |-> who, amount |-> ClaimAmount(n, value), claimed |-> claimed]
  BY <1>1, <1>5
<1>7. ClaimOf(n, t) = None
  BY <1>2, <1>3 DEF ClaimOf
<1> QED BY <1>4, <1>6, <1>7

\* A mint touches no other entry.
LEMMA MintKeepsOtherClaims ==
    ASSUME ClaimsIInv, NEW n \in Networks, NEW t \in Txs, NEW value,
           NEW who, NEW claimed, RecordClaim(n, t, value, who, claimed)
    PROVE  \A m \in Networks, s \in Txs : <<m, s>> # <<n, t>> =>
             ClaimOf(m, s)' = ClaimOf(m, s)
<1>1. elastic_claims \in [Networks -> [Txs -> Claim \cup {None}]]
  BY DEF ClaimsIInv, ClaimsTypeOK
<1>2. claims' = claims
  BY DEF RecordClaim, oldVars
<1>3. elastic_claims' = [elastic_claims EXCEPT ![n][t] =
        [who |-> who, amount |-> ClaimAmount(n, value), claimed |-> claimed]]
  BY DEF RecordClaim
<1>4. \A m \in Networks, s \in Txs : <<m, s>> # <<n, t>> =>
        elastic_claims'[m][s] = elastic_claims[m][s]
  BY <1>1, <1>3
<1> QED BY <1>2, <1>4 DEF ClaimOf

\* A claim that is paid was recorded and not paid, and becomes paid; no other
\* is touched.
LEMMA ClaimIsPaidOnce ==
    ASSUME ClaimsIInv, NEW node \in Nodes, NEW e \in pool[node],
           ClaimElastic(node, e)
    PROVE  /\ e.network \in Networks /\ e.tx \in Txs /\ e.dest \in Accounts
           /\ ClaimOf(e.network, e.tx) \in Claim
           /\ elastic_claims[e.network][e.tx] = ClaimOf(e.network, e.tx)
           /\ ~ClaimOf(e.network, e.tx).claimed
           /\ ClaimOf(e.network, e.tx)' =
                [ClaimOf(e.network, e.tx) EXCEPT !.claimed = TRUE]
           /\ \A m \in Networks, s \in Txs : <<m, s>> # <<e.network, e.tx>> =>
                ClaimOf(m, s)' = ClaimOf(m, s)
<1> DEFINE n == e.network
           t == e.tx
           c == elastic_claims[n][t]
<1>1. elastic_claims \in [Networks -> [Txs -> Claim \cup {None}]]
  BY DEF ClaimsIInv, ClaimsTypeOK
<1>2. n \in Networks /\ t \in Txs /\ e.dest \in Accounts
  BY DEF ClaimsIInv, ClaimsTypeOK, PoolEntries
<1>3. c # None /\ ~c.claimed
  BY DEF ClaimElastic, DoClaim, ValidClaim
<1>4. c \in Claim
  BY <1>1, <1>2, <1>3
<1>5. elastic_claims' = [elastic_claims EXCEPT ![n][t].claimed = TRUE]
      /\ claims' = claims
  BY DEF ClaimElastic, DoClaim, oldVars
<1>6. elastic_claims'[n][t] = [c EXCEPT !.claimed = TRUE]
  BY <1>1, <1>2, <1>5
<1>7. [c EXCEPT !.claimed = TRUE] \in Claim
  BY <1>4 DEF Claim
<1>8. \A m \in Networks, s \in Txs : <<m, s>> # <<n, t>> =>
        elastic_claims'[m][s] = elastic_claims[m][s]
  BY <1>1, <1>2, <1>5
<1>9. ClaimOf(n, t) = c
  BY <1>3 DEF ClaimOf
<1>10. ClaimOf(n, t)' = [c EXCEPT !.claimed = TRUE]
  BY <1>6, <1>7, ClaimsAssumption DEF ClaimOf
<1>11. \A m \in Networks, s \in Txs : <<m, s>> # <<n, t>> =>
        ClaimOf(m, s)' = ClaimOf(m, s)
  BY <1>5, <1>8 DEF ClaimOf
<1> QED BY <1>2, <1>3, <1>4, <1>9, <1>10, <1>11

\* A transaction is claimed once and for all: a claim changes only by being
\* paid, and never after that, whatever the order of mints, of the same claim
\* in several pools and of the migration.
THEOREM ClaimsAreFinal == ClaimsSpec => ClaimIsFinal
<1> DEFINE Final(n, t) ==
             ClaimOf(n, t) # None /\ ClaimOf(n, t)' # ClaimOf(n, t) =>
               /\ ~ClaimOf(n, t).claimed
               /\ ClaimOf(n, t)' = [ClaimOf(n, t) EXCEPT !.claimed = TRUE]
           AllFinal == \A n \in Networks, t \in Txs : Final(n, t)
<1>1. ASSUME ClaimsIInv, ClaimsNext
      PROVE  AllFinal
  <2> USE <1>1
  <2>1. CASE UNCHANGED <<claims, elastic_claims>>
    BY <2>1 DEF ClaimOf
  <2>2. CASE OnRuntimeUpgrade
    BY <2>2, UpgradeKeepsClaims
  <2>3. ASSUME NEW from, NEW n \in Networks, NEW t \in Txs,
               NEW value \in Values, CanMint(from, n, t, value),
               NEW who \in EthAddresses \cup {ZeroAddress}, NEW claimed \in BOOLEAN,
           RecordClaim(n, t, value, who, claimed)
        PROVE  AllFinal
    <3>1. /\ ClaimOf(n, t) = None
          /\ \A m \in Networks, s \in Txs : <<m, s>> # <<n, t>> =>
               ClaimOf(m, s)' = ClaimOf(m, s)
      <4>1. ClaimOf(n, t) = None
        BY <2>3, MintFillsAnEmptyEntry, Zenon
      <4>2. \A m \in Networks, s \in Txs : <<m, s>> # <<n, t>> =>
               ClaimOf(m, s)' = ClaimOf(m, s)
        BY <2>3, MintKeepsOtherClaims, Zenon
      <4> QED BY <4>1, <4>2
    <3> SUFFICES ASSUME NEW m \in Networks, NEW s \in Txs PROVE Final(m, s)
      OBVIOUS
    <3>2. CASE <<m, s>> = <<n, t>>
      BY <3>1, <3>2
    <3>3. CASE <<m, s>> # <<n, t>>
      BY <3>1, <3>3
    <3> QED BY <3>2, <3>3
  <2>4. ASSUME NEW node \in Nodes, NEW e \in pool[node], ClaimElastic(node, e)
        PROVE  AllFinal
    <3>1. /\ ~ClaimOf(e.network, e.tx).claimed
          /\ ClaimOf(e.network, e.tx)' =
               [ClaimOf(e.network, e.tx) EXCEPT !.claimed = TRUE]
          /\ \A m \in Networks, s \in Txs : <<m, s>> # <<e.network, e.tx>> =>
               ClaimOf(m, s)' = ClaimOf(m, s)
      BY <2>4, ClaimIsPaidOnce
    <3> SUFFICES ASSUME NEW m \in Networks, NEW s \in Txs PROVE Final(m, s)
      OBVIOUS
    <3>2. CASE m = e.network /\ s = e.tx
      BY <3>1, <3>2
    <3>3. CASE <<m, s>> # <<e.network, e.tx>>
      BY <3>1, <3>3
    <3> QED BY <3>2, <3>3
  <2>5. ASSUME NEW from \in Accounts, NEW n \in Networks, NEW t \in Txs,
               NEW value \in Values, NEW who \in EthAddresses,
               MintClaimElastic(from, n, t, who, value)
        PROVE  AllFinal
    <3> HIDE DEF AllFinal
    <3> QED BY <2>3, <2>5 DEF MintClaimElastic
  <2>6. ASSUME NEW from \in Accounts, NEW n \in Networks, NEW t \in Txs,
               NEW value \in Values, NEW dest \in Accounts,
               MintAndSendClaimElastic(from, n, t, dest, value)
        PROVE  AllFinal
    <3> HIDE DEF AllFinal
    <3> QED BY <2>3, <2>6 DEF MintAndSendClaimElastic, DoMintAndSendClaim
  <2> HIDE DEF AllFinal
  <2> QED BY <2>1, <2>2, <2>4, <2>5, <2>6, OtherStepsKeepClaims
<1>2. ClaimsIInv /\ [ClaimsNext]_claimsVars => [AllFinal]_claimsVars
  BY <1>1
<1> QED BY <1>2, ClaimsInitIInv, ClaimsStepIInv, PTL DEF ClaimsSpec, ClaimIsFinal

-----------------------------------------------------------------------------
(***************************************************************************)
(* The bridge is backed.                                                   *)
(***************************************************************************)

\* What is owed under each transaction.
Owed == [nt \in Networks \X Txs |-> Unpaid(ClaimOf(nt[1], nt[2]))]

LEMMA OwedType ==
    ASSUME ClaimsTypeOK
    PROVE  /\ Owed \in [Networks \X Txs -> Nat]
           /\ IsFiniteSet(Networks \X Txs)
           /\ UnpaidClaims \in Nat
           /\ Total(free, Accounts) \in Nat
           /\ UnpaidClaims = Total(Owed, Networks \X Txs)
<1>1. \A n \in Networks, t \in Txs : ClaimOf(n, t) \in Claim \cup {None}
  BY DEF ClaimsTypeOK, ClaimOf
<1>2. \A c \in Claim \cup {None} : Unpaid(c) \in Nat
  BY DEF Unpaid, Claim
<1>3. Owed \in [Networks \X Txs -> Nat]
  BY <1>1, <1>2 DEF Owed
<1>4. IsFiniteSet(Networks \X Txs)
  BY ClaimsAssumption, FS_Product
<1>5. UnpaidClaims = Total(Owed, Networks \X Txs)
  BY DEF UnpaidClaims, Owed
<1>6. UnpaidClaims \in Nat
  BY <1>3, <1>4, <1>5, TotalType
<1>7. Total(free, Accounts) \in Nat
  BY ClaimsAssumption, TotalType DEF ClaimsTypeOK
<1> QED BY <1>3, <1>4, <1>5, <1>6, <1>7

\* In the beginning everything owed is in the old storage, under BSC.
LEMMA ClaimsInitBacked == ClaimsInit => BridgeIsBacked
<1> SUFFICES ASSUME ClaimsInit PROVE BridgeIsBacked
  OBVIOUS
<1> DEFINE g == [t \in Txs |-> Unpaid(claims[t])]
           T == {BSC} \X Txs
           h == [t \in Txs |-> <<BSC, t>>]
           f == [nt \in T |-> g[nt[2]]]
<1>1. ClaimsTypeOK
  BY ClaimsInitIInv DEF ClaimsIInv
<1>2. Owed \in [Networks \X Txs -> Nat]
  BY <1>1, OwedType
<1>3. \A n \in Networks, t \in Txs :
        Unpaid(ClaimOf(n, t)) = IF n = BSC THEN g[t] ELSE 0
  BY ClaimsAssumption DEF ClaimsInit, ClaimOf, Unpaid
<1>4. T \in SUBSET (Networks \X Txs)
  BY ClaimsAssumption
<1>5. \A nt \in (Networks \X Txs) \ T : Owed[nt] = 0
  BY <1>3 DEF Owed
<1>6. Total(Owed, Networks \X Txs) = Total(Owed, T)
  <2> HIDE DEF T
  <2> QED BY <1>2, <1>4, <1>5, TotalIgnoresZero
<1>7. \A nt \in T : Owed[nt] = f[nt]
  BY <1>3, <1>4 DEF Owed
<1>8. Total(Owed, T) = Total(f, T)
  <2> HIDE DEF T, f
  <2> QED BY <1>7, TotalSame
<1>9. g \in [Txs -> Nat] /\ f \in [T -> Nat]
  <2>1. \A t \in Txs : Unpaid(claims[t]) \in Nat
    BY <1>1 DEF ClaimsTypeOK, Unpaid, Claim
  <2> QED BY <2>1
<1>10. h \in Bijection(Txs, T)
  <2>1. h \in [Txs -> T]
    OBVIOUS
  <2>2. \A a, b \in Txs : h[a] = h[b] => a = b
    OBVIOUS
  <2>3. \A nt \in T : \E t \in Txs : h[t] = nt
    OBVIOUS
  <2> HIDE DEF h, T
  <2> QED BY <2>1, <2>2, <2>3 DEF Bijection, Injection, Surjection, IsInjective
<1>11. \A t \in Txs : f[h[t]] = g[t]
  OBVIOUS
<1>12. Total(f, T) = Total(g, Txs)
  <2> HIDE DEF f, g, h, T
  <2> QED BY <1>9, <1>10, <1>11, ClaimsAssumption, TotalRename
<1>13. UnpaidClaims = Total(g, Txs) /\ UnpaidClaims \in Nat
       /\ Total(free, Accounts) \in Nat
  BY <1>1, <1>6, <1>8, <1>12, OwedType
<1>14. fee_account = 0 /\ locked = Total(free, Accounts) + Total(g, Txs)
  BY DEF ClaimsInit
<1> HIDE DEF g
<1> QED BY <1>13, <1>14 DEF BridgeIsBacked

\* A deposit adds no more than its amount to what the accounts hold.
LEMMA DepositTotal ==
    ASSUME ClaimsTypeOK, NEW dest \in Accounts, NEW amount \in Nat,
           free' = [free EXCEPT ![dest] = Deposit(@, amount)]
    PROVE  /\ Total(free, Accounts)' \in Nat
           /\ Total(free, Accounts)' <= Total(free, Accounts) + amount
<1>1. free \in [Accounts -> Nat] /\ free[dest] \in Nat
  BY DEF ClaimsTypeOK
<1>2. Deposit(free[dest], amount) \in Nat
      /\ Deposit(free[dest], amount) <= free[dest] + amount
  BY <1>1, DepositType
<1>3. /\ free' \in [Accounts -> Nat]
      /\ free'[dest] = Deposit(free[dest], amount)
      /\ \A a \in Accounts \ {dest} : free[a] = free'[a]
  BY <1>1, <1>2
<1>4. Total(free', Accounts) =
        Total(free, Accounts) - free[dest] + free'[dest]
  <2>1. IsFiniteSet(Accounts)
    BY ClaimsAssumption
  <2> QED BY ONLY <1>1, <1>3, <2>1, TotalUpdate, dest \in Accounts
<1>5. Total(free, Accounts) \in Nat /\ Total(free', Accounts) \in Nat
  BY <1>1, <1>3, ClaimsAssumption, TotalType
<1> QED BY <1>1, <1>2, <1>3, <1>4, <1>5

\* What is owed changes by what one claim does.
LEMMA OwedUpdate ==
    ASSUME ClaimsTypeOK, ClaimsTypeOK', NEW n \in Networks, NEW t \in Txs,
           \A m \in Networks, s \in Txs : <<m, s>> # <<n, t>> =>
             ClaimOf(m, s)' = ClaimOf(m, s)
    PROVE  /\ UnpaidClaims' = UnpaidClaims - Unpaid(ClaimOf(n, t))
                              + Unpaid(ClaimOf(n, t))'
           /\ Unpaid(ClaimOf(n, t)) \in Nat
           /\ Unpaid(ClaimOf(n, t))' \in Nat
<1> DEFINE NT == Networks \X Txs
<1>1. /\ Owed \in [NT -> Nat] /\ IsFiniteSet(NT)
      /\ UnpaidClaims = Total(Owed, NT)
  BY OwedType
<1>2. Owed' \in [NT -> Nat] /\ UnpaidClaims' = Total(Owed', NT)
  <2>1. \A m \in Networks, s \in Txs : ClaimOf(m, s)' \in Claim \cup {None}
    BY DEF ClaimsTypeOK, ClaimOf
  <2>2. \A c \in Claim \cup {None} : Unpaid(c) \in Nat
    BY DEF Unpaid, Claim
  <2> QED BY <2>1, <2>2 DEF Owed, UnpaidClaims, Unpaid
<1>3. \A nt \in NT \ {<<n, t>>} : Owed[nt] = Owed'[nt]
  BY DEF Owed, Unpaid
<1>4. <<n, t>> \in NT
  OBVIOUS
<1>5. /\ Owed[<<n, t>>] = Unpaid(ClaimOf(n, t))
      /\ Owed'[<<n, t>>] = Unpaid(ClaimOf(n, t))'
  BY DEF Owed
<1>6. Owed[<<n, t>>] \in Nat /\ Owed'[<<n, t>>] \in Nat
  BY <1>1, <1>2, <1>4
<1>7. Total(Owed', NT) = Total(Owed, NT) - Owed[<<n, t>>] + Owed'[<<n, t>>]
  <2> HIDE DEF NT
  <2> QED BY <1>1, <1>2, <1>3, <1>4, TotalUpdate
<1> HIDE DEF NT
<1> QED BY <1>1, <1>2, <1>5, <1>6, <1>7

\* What a recorded claim adds to what is owed and to the fees is the value
\* that was locked for it, less what is paid at once.
LEMMA RecordClaimOwed ==
    ASSUME ClaimsIInv, ClaimsTypeOK', NEW from, NEW n \in Networks,
           NEW t \in Txs, NEW value \in Values, CanMint(from, n, t, value),
           NEW who \in EthAddresses \cup {ZeroAddress}, NEW claimed \in BOOLEAN,
           RecordClaim(n, t, value, who, claimed)
    PROVE  /\ UnpaidClaims' = UnpaidClaims
                + IF claimed THEN 0 ELSE value - bridge_fees[n].mint
           /\ fee_account' <= fee_account + bridge_fees[n].mint
           /\ locked' = locked + value
<1>1. /\ ClaimOf(n, t) = None
      /\ elastic_claims'[n][t] =
           [who |-> who, amount |-> ClaimAmount(n, value), claimed |-> claimed]
      /\ claims' = claims
  BY MintFillsAnEmptyEntry, Zenon
<1>2. \A m \in Networks, s \in Txs : <<m, s>> # <<n, t>> =>
        ClaimOf(m, s)' = ClaimOf(m, s)
  BY MintKeepsOtherClaims, Zenon
<1>3. /\ UnpaidClaims' = UnpaidClaims - Unpaid(ClaimOf(n, t))
                         + Unpaid(ClaimOf(n, t))'
  BY <1>2, OwedUpdate DEF ClaimsIInv
<1>4. /\ ClaimAmount(n, value) \in Nat /\ bridge_fees[n].mint \in Nat
      /\ ClaimAmount(n, value) = value - bridge_fees[n].mint
      /\ value \in Nat
  BY MintedAmount DEF ClaimsIInv
<1>5. Unpaid(ClaimOf(n, t)) = 0
  BY <1>1 DEF Unpaid
<1>6. Unpaid(ClaimOf(n, t))' = IF claimed THEN 0 ELSE ClaimAmount(n, value)
  <2> DEFINE c == [who |-> who, amount |-> ClaimAmount(n, value),
                   claimed |-> claimed]
  <2>1. c \in Claim
    BY <1>4 DEF Claim
  <2>2. c # None
    BY <2>1, ClaimsAssumption
  <2>3. ClaimOf(n, t)' = c
    BY <1>1, <2>2 DEF ClaimOf
  <2>4. Unpaid(c) = IF claimed THEN 0 ELSE ClaimAmount(n, value)
    BY <2>2 DEF Unpaid
  <2>5. Unpaid(ClaimOf(n, t))' = Unpaid(c)
    <3> HIDE DEF c
    <3> QED BY <2>3 DEF Unpaid
  <2> QED BY <2>4, <2>5
<1>7. UnpaidClaims \in Nat
  BY OwedType DEF ClaimsIInv
<1>8. /\ fee_account' = Deposit(fee_account, bridge_fees[n].mint)
      /\ locked' = locked + value
  BY DEF RecordClaim
<1>9. Deposit(fee_account, bridge_fees[n].mint)
        <= fee_account + bridge_fees[n].mint
  BY <1>4, DepositType DEF ClaimsIInv, ClaimsTypeOK
<1>10. UnpaidClaims' = UnpaidClaims + IF claimed THEN 0 ELSE ClaimAmount(n, value)
  BY ONLY <1>3, <1>4, <1>5, <1>6, <1>7
<1> QED BY <1>4, <1>8, <1>9, <1>10

LEMMA ClaimsStepBacked ==
    ClaimsIInv /\ ClaimsIInv' /\ BridgeIsBacked /\ [ClaimsNext]_claimsVars
      => BridgeIsBacked'
<1> SUFFICES ASSUME ClaimsIInv, ClaimsIInv', BridgeIsBacked,
                    [ClaimsNext]_claimsVars
             PROVE  BridgeIsBacked'
  OBVIOUS
<1> DEFINE S == Total(free, Accounts)
           S2 == Total(free', Accounts)
<1>1. /\ S \in Nat /\ UnpaidClaims \in Nat /\ fee_account \in Nat
      /\ fee_account' \in Nat /\ locked \in Int
      /\ S + fee_account + UnpaidClaims <= locked
  BY OwedType DEF ClaimsIInv, ClaimsTypeOK, BridgeIsBacked
<1>2. S2 \in Nat
  <2>1. free' \in [Accounts -> Nat] /\ IsFiniteSet(Accounts)
    BY ClaimsAssumption DEF ClaimsIInv, ClaimsTypeOK
  <2> QED BY ONLY <2>1, TotalType
<1>3. ASSUME S2 + fee_account' + UnpaidClaims' <= locked'
      PROVE  BridgeIsBacked'
  BY <1>3 DEF BridgeIsBacked
<1>4. CASE UNCHANGED <<claims, elastic_claims, free, fee_account, locked>>
  BY <1>4 DEF BridgeIsBacked, UnpaidClaims, ClaimOf, Unpaid
<1>5. CASE OnRuntimeUpgrade
  <2>1. UNCHANGED <<free, fee_account, locked>>
    BY <1>5 DEF OnRuntimeUpgrade, moneyVars
  <2>2. \A n \in Networks, t \in Txs : ClaimOf(n, t)' = ClaimOf(n, t)
    BY <1>5, UpgradeKeepsClaims
  <2>3. Owed' = Owed
    BY <2>2 DEF Owed, Unpaid
  <2>4. UnpaidClaims' = UnpaidClaims
    BY <2>3 DEF UnpaidClaims, Owed
  <2> QED BY <1>1, <1>3, <2>1, <2>4
<1>6. ASSUME NEW from \in Accounts, NEW n \in Networks, NEW t \in Txs,
             NEW value \in Values, NEW who \in EthAddresses,
             MintClaimElastic(from, n, t, who, value)
      PROVE  BridgeIsBacked'
  <2>1. CanMint(from, n, t, value) /\ RecordClaim(n, t, value, who, FALSE)
        /\ free' = free
    BY <1>6 DEF MintClaimElastic
  <2>2. /\ UnpaidClaims' = UnpaidClaims + (value - bridge_fees[n].mint)
        /\ fee_account' <= fee_account + bridge_fees[n].mint
        /\ locked' = locked + value
    BY <2>1, RecordClaimOwed DEF ClaimsIInv
  <2>3. value \in Nat /\ bridge_fees[n].mint \in Nat
    BY <2>1, MintedAmount DEF ClaimsIInv
  <2>4. S2 = S
    BY <2>1
  <2> HIDE DEF S, S2
  <2>5. S2 + fee_account' + UnpaidClaims' <= locked'
    BY ONLY <1>1, <2>2, <2>3, <2>4
  <2> QED BY <1>3, <2>5
<1>7. ASSUME NEW from \in Accounts, NEW n \in Networks, NEW t \in Txs,
             NEW value \in Values, NEW dest \in Accounts,
             MintAndSendClaimElastic(from, n, t, dest, value)
      PROVE  BridgeIsBacked'
  <2>1. /\ CanMint(from, n, t, value)
        /\ RecordClaim(n, t, value, ZeroAddress, TRUE)
        /\ free' = [free EXCEPT ![dest] = Deposit(@, ClaimAmount(n, value))]
    BY <1>7 DEF MintAndSendClaimElastic, DoMintAndSendClaim
  <2>2. /\ UnpaidClaims' = UnpaidClaims + 0
        /\ fee_account' <= fee_account + bridge_fees[n].mint
        /\ locked' = locked + value
    BY <2>1, RecordClaimOwed DEF ClaimsIInv
  <2>3. /\ value \in Nat /\ bridge_fees[n].mint \in Nat
        /\ ClaimAmount(n, value) \in Nat
        /\ ClaimAmount(n, value) = value - bridge_fees[n].mint
    BY <2>1, MintedAmount DEF ClaimsIInv
  <2>4. S2 <= S + ClaimAmount(n, value)
    BY <2>1, <2>3, DepositTotal DEF ClaimsIInv
  <2> HIDE DEF S, S2
  <2>5. S2 + fee_account' + UnpaidClaims' <= locked'
    BY ONLY <1>1, <1>2, <2>2, <2>3, <2>4
  <2> QED BY <1>3, <2>5
<1>8. ASSUME NEW node \in Nodes, NEW e \in pool[node], ClaimElastic(node, e)
      PROVE  BridgeIsBacked'
  <2> DEFINE c == ClaimOf(e.network, e.tx)
             d == ClaimOf(e.network, e.tx)'
  <2>1. /\ e.network \in Networks /\ e.tx \in Txs /\ e.dest \in Accounts
        /\ c \in Claim /\ ~c.claimed /\ d = [c EXCEPT !.claimed = TRUE]
        /\ elastic_claims[e.network][e.tx] = c
    BY <1>8, ClaimIsPaidOnce
  <2>2. \A m \in Networks, s \in Txs : <<m, s>> # <<e.network, e.tx>> =>
          ClaimOf(m, s)' = ClaimOf(m, s)
    BY <1>8, ClaimIsPaidOnce
  <2>3. UnpaidClaims' = UnpaidClaims - Unpaid(c) + Unpaid(d)
    <3>1. UnpaidClaims' = UnpaidClaims - Unpaid(ClaimOf(e.network, e.tx))
                          + Unpaid(ClaimOf(e.network, e.tx))'
      BY <2>1, <2>2, OwedUpdate DEF ClaimsIInv
    <3> QED BY <3>1 DEF Unpaid
  <2>4. c.amount \in Nat /\ Unpaid(c) = c.amount
    <3> HIDE DEF c
    <3> QED BY <2>1, ClaimsAssumption DEF Claim, Unpaid
  <2>5. Unpaid(d) = 0
    <3>1. d \in Claim /\ d.claimed = TRUE
      <4> HIDE DEF c, d
      <4> QED BY <2>1 DEF Claim
    <3> HIDE DEF d
    <3> QED BY <3>1, ClaimsAssumption DEF Unpaid
  <2>6. /\ free' = [free EXCEPT ![e.dest] = Deposit(@, c.amount)]
        /\ UNCHANGED <<fee_account, locked>>
    <3>1. /\ free' = [free EXCEPT ![e.dest] =
                        Deposit(@, elastic_claims[e.network][e.tx].amount)]
          /\ UNCHANGED <<fee_account, locked>>
      BY <1>8 DEF ClaimElastic, DoClaim
    <3> HIDE DEF c
    <3> QED BY <2>1, <3>1
  <2>7. S2 <= S + c.amount
    <3> HIDE DEF c
    <3> QED BY <2>1, <2>4, <2>6, DepositTotal DEF ClaimsIInv
  <2> HIDE DEF S, S2, c, d
  <2>8. S2 + fee_account' + UnpaidClaims' <= locked'
    BY ONLY <1>1, <1>2, <2>3, <2>4, <2>5, <2>6, <2>7
  <2> QED BY <1>3, <2>8
<1>9. ASSUME NEW who \in Accounts, NEW n \in Networks, NEW amount \in Values,
             BurnElastic(who, n, amount)
      PROVE  BridgeIsBacked'
  <2>1. /\ amount \in Nat /\ free[who] \in Nat /\ bridge_fees[n].burn \in Nat
        /\ free \in [Accounts -> Nat] /\ free' \in [Accounts -> Nat]
        /\ IsFiniteSet(Accounts)
    BY ClaimsAssumption DEF ClaimsIInv, ClaimsTypeOK, FeesRecord
  <2>2. /\ free' = [free EXCEPT ![who] = @ - amount]
        /\ fee_account' = Deposit(fee_account, bridge_fees[n].burn)
        /\ locked' = locked - (amount - bridge_fees[n].burn)
        /\ UNCHANGED <<claims, elastic_claims>>
    BY <1>9 DEF BurnElastic, DoBurn, BurnAmount, oldVars
  <2>3. /\ free'[who] = free[who] - amount
        /\ \A a \in Accounts \ {who} : free[a] = free'[a]
    BY <2>1, <2>2
  <2>4. S2 = S - free[who] + free'[who]
    BY ONLY <2>1, <2>3, TotalUpdate, who \in Accounts
  <2>5. fee_account' <= fee_account + bridge_fees[n].burn
    BY <1>1, <2>1, <2>2, DepositType
  <2>6. UnpaidClaims' = UnpaidClaims
    BY <2>2 DEF UnpaidClaims, ClaimOf, Unpaid
  <2> HIDE DEF S, S2
  <2>7. S2 + fee_account' + UnpaidClaims' <= locked'
    BY ONLY <1>1, <1>2, <2>1, <2>2, <2>3, <2>4, <2>5, <2>6
  <2> QED BY <1>3, <2>7
<1>10. CASE ClaimsNext
  <2>1. \/ UNCHANGED <<claims, elastic_claims, free, fee_account, locked>>
        \/ OnRuntimeUpgrade
        \/ \E from \in Accounts, n \in Networks, t \in Txs, value \in Values :
             \/ \E who \in EthAddresses :
                  MintClaimElastic(from, n, t, who, value)
             \/ \E dest \in Accounts :
                  MintAndSendClaimElastic(from, n, t, dest, value)
        \/ \E node \in Nodes : \E e \in pool[node] : ClaimElastic(node, e)
        \/ \E who \in Accounts, n \in Networks, amount \in Values :
             BurnElastic(who, n, amount)
    BY <1>10 DEF ClaimsNext, SetCode, OnRuntimeUpgradeLatest, ValidateUnsigned,
                 SetBridgeAccountElastic, SetClaimLimitElastic,
                 SetBridgeFeeElastic, DropInvalid, oldVars, moneyVars
  <2> QED BY <1>4, <1>5, <1>6, <1>7, <1>8, <1>9, <2>1
<1>11. CASE UNCHANGED claimsVars
  BY <1>4, <1>11 DEF claimsVars, oldVars, moneyVars
<1> QED BY <1>10, <1>11

\* The bridge is backed: what exists here and what may still be claimed here
\* never exceeds what there was in the beginning and what is locked elsewhere.
THEOREM ClaimsBridgeIsBacked == ClaimsSpec => []BridgeIsBacked
BY ClaimsInitIInv, ClaimsStepIInv, ClaimsInitBacked, ClaimsStepBacked, PTL
   DEF ClaimsSpec

-----------------------------------------------------------------------------
(***************************************************************************)
(* The weight trader.                                                      *)
(***************************************************************************)

\* The payment is at a price that is still the asset's: Root sets prices only
\* between messages.  Nothing is paid that the trader does not remember.
PaymentIsCurrent ==
    IF payment = Absent
    THEN paid = 0 /\ refunded = 0 /\ weight_paid = 0 /\ weight_returned = 0
    ELSE
      /\ executing
      /\ payment \in Payment
      /\ UnitsPerSecond(payment.location) = payment.rate
      /\ buys >= 1

\* Rounding: each purchase was rounded down by less than a unit, and so was
\* each refund.
RoundedDown ==
    payment # Absent =>
      /\ payment.rate * weight_paid
           <= WeightPerSecond * paid + (WeightPerSecond - 1) * buys
      /\ WeightPerSecond * refunded <= payment.rate * weight_returned

TraderNumbers ==
    /\ weight_bought \in Nat /\ buys \in Nat
    /\ paid \in Nat /\ refunded \in Nat
    /\ weight_paid \in Nat /\ weight_returned \in Nat

TraderIInv ==
    /\ asset_location_id \in [Locations -> Assets \cup {Absent}]
    /\ fee_rate_per_second \in [Assets -> Rates \cup {Absent}]
    /\ TraderNumbers
    /\ PaymentIsCurrent
    /\ RoundedDown
    /\ within \in BOOLEAN
    /\ PaymentIsAccounted

LEMMA PriceIsNat ==
    ASSUME NEW rate \in Rates, NEW weight \in Nat
    PROVE  Price(rate, weight) \in Nat
<1>1. rate \in Nat /\ WeightPerSecond \in Nat \ {0}
  BY TraderAssumption
<1>2. rate * weight \in Nat
  BY <1>1
<1> QED BY <1>1, <1>2 DEF Price

\* A price that was found is one Root has set.
LEMMA PriceIsSet ==
    ASSUME TraderIInv, NEW location \in Locations,
           UnitsPerSecond(location) # Absent
    PROVE  UnitsPerSecond(location) \in Rates
BY DEF TraderIInv, UnitsPerSecond

\* A price is rounded down by less than a unit.
LEMMA PriceRounds ==
    ASSUME NEW rate \in Rates, NEW weight \in Nat
    PROVE  /\ WeightPerSecond * Price(rate, weight) <= rate * weight
           /\ rate * weight <= WeightPerSecond * Price(rate, weight)
                                 + (WeightPerSecond - 1)
<1> DEFINE x == rate * weight
<1>1. x \in Nat /\ WeightPerSecond \in Nat \ {0}
  BY TraderAssumption
<1> HIDE DEF x
<1>2. /\ x = WeightPerSecond * (x \div WeightPerSecond) + (x % WeightPerSecond)
      /\ x % WeightPerSecond \in 0..(WeightPerSecond - 1)
      /\ x \div WeightPerSecond \in Nat
  BY <1>1
<1>3. /\ WeightPerSecond * (x \div WeightPerSecond) <= x
      /\ x <= WeightPerSecond * (x \div WeightPerSecond)
                + (WeightPerSecond - 1)
  <2> DEFINE q == WeightPerSecond * (x \div WeightPerSecond)
             r == x % WeightPerSecond
  <2>1. q \in Nat
    BY <1>1, <1>2
  <2>2. x = q + r /\ r \in 0..(WeightPerSecond - 1)
    BY <1>2
  <2> HIDE DEF q, r
  <2>3. q <= x /\ x <= q + (WeightPerSecond - 1)
    BY <1>1, <2>1, <2>2
  <2> QED BY <2>3 DEF q
<1> QED BY <1>3 DEF Price, x

\* A purchase is rounded down by less than a unit more.
LEMMA PurchaseRounds ==
    ASSUME NEW rate \in Rates, NEW weight \in Nat, NEW wp \in Nat,
           NEW p \in Nat, NEW n \in Nat,
           rate * wp <= WeightPerSecond * p + (WeightPerSecond - 1) * n
    PROVE  rate * (wp + weight)
             <= WeightPerSecond * (p + Price(rate, weight))
                  + (WeightPerSecond - 1) * (n + 1)
<1> DEFINE c == Price(rate, weight)
           W == WeightPerSecond
<1>1. rate \in Nat /\ W \in Nat /\ W - 1 \in Nat /\ c \in Nat
  BY TraderAssumption, PriceIsNat
<1>2. rate * weight <= W * c + (W - 1)
  BY PriceRounds
<1>3. rate * wp <= W * p + (W - 1) * n
  OBVIOUS
<1> HIDE DEF c, W
<1>4. /\ rate * (wp + weight) = rate * wp + rate * weight
      /\ W * (p + c) = W * p + W * c
      /\ (W - 1) * (n + 1) = (W - 1) * n + (W - 1)
  BY <1>1
<1>5. /\ rate * wp \in Nat /\ rate * weight \in Nat /\ W * p \in Nat
      /\ W * c \in Nat /\ (W - 1) * n \in Nat
  BY <1>1
<1>6. rate * (wp + weight) <= W * (p + c) + (W - 1) * (n + 1)
  <2> DEFINE a1 == rate * wp
             a2 == rate * weight
             b1 == W * p
             b2 == W * c
             d1 == (W - 1) * n
             d2 == W - 1
  <2>1. /\ a1 <= b1 + d1 /\ a2 <= b2 + d2
        /\ a1 \in Nat /\ a2 \in Nat /\ b1 \in Nat /\ b2 \in Nat
        /\ d1 \in Nat /\ d2 \in Nat
    BY <1>1, <1>2, <1>3, <1>5
  <2>2. /\ rate * (wp + weight) = a1 + a2 /\ W * (p + c) = b1 + b2
        /\ (W - 1) * (n + 1) = d1 + d2
    BY <1>4
  <2> HIDE DEF a1, a2, b1, b2, d1, d2
  <2> QED BY <2>1, <2>2
<1> QED BY <1>6 DEF c, W

\* A refund is at most the price of its weight.
LEMMA RefundRounds ==
    ASSUME NEW rate \in Rates, NEW weight \in Nat, NEW wr \in Nat,
           NEW r \in Nat, WeightPerSecond * r <= rate * wr
    PROVE  WeightPerSecond * (r + Price(rate, weight)) <= rate * (wr + weight)
<1> DEFINE c == Price(rate, weight)
           W == WeightPerSecond
<1>1. rate \in Nat /\ W \in Nat /\ c \in Nat
  BY TraderAssumption, PriceIsNat
<1>2. W * c <= rate * weight /\ W * r <= rate * wr
  BY PriceRounds
<1> HIDE DEF c, W
<1>3. /\ rate * (wr + weight) = rate * wr + rate * weight
      /\ W * (r + c) = W * r + W * c
      /\ rate * wr \in Nat /\ rate * weight \in Nat
      /\ W * r \in Nat /\ W * c \in Nat
  BY <1>1
<1>4. W * (r + c) <= rate * (wr + weight)
  <2> DEFINE a1 == rate * wr
             a2 == rate * weight
             b1 == W * r
             b2 == W * c
  <2>1. /\ b1 <= a1 /\ b2 <= a2
        /\ a1 \in Nat /\ a2 \in Nat /\ b1 \in Nat /\ b2 \in Nat
        /\ rate * (wr + weight) = a1 + a2 /\ W * (r + c) = b1 + b2
    BY <1>2, <1>3
  <2> HIDE DEF a1, a2, b1, b2
  <2> QED BY <2>1
<1> QED BY <1>4 DEF c, W

\* Who gives back no more weight than was paid for gets no more than was paid
\* and less than a unit for each purchase.
LEMMA WithinIsCovered ==
    ASSUME NEW rate \in Nat, NEW wp \in Nat, NEW wr \in Nat, NEW p \in Nat,
           NEW r \in Nat, NEW n \in Nat, n >= 1, wr <= wp,
           rate * wp <= WeightPerSecond * p + (WeightPerSecond - 1) * n,
           WeightPerSecond * r <= rate * wr
    PROVE  r <= p + n - 1
<1> DEFINE W == WeightPerSecond
<1>1. W \in Nat /\ W >= 1
  BY TraderAssumption
<1>2. rate * wp <= W * p + (W - 1) * n /\ W * r <= rate * wr
  OBVIOUS
<1> HIDE DEF W
<1>3. rate * wr <= rate * wp
  <2>1. PICK k \in Nat : wp = wr + k
    <3>1. wp - wr \in Nat /\ wp = wr + (wp - wr)
      OBVIOUS
    <3> QED BY <3>1
  <2>2. rate * wp = rate * wr + rate * k /\ rate * k \in Nat
        /\ rate * wr \in Nat
    BY <2>1
  <2> QED BY <2>2
<1>4. /\ rate * wp \in Nat /\ rate * wr \in Nat /\ W * r \in Nat
      /\ W * p \in Nat /\ W * n \in Nat
      /\ (W - 1) * n = W * n - n
  BY <1>1
<1>5. W * r < W * p + W * n
  <2> DEFINE a == rate * wp
             b == rate * wr
             c == W * r
             d == W * p
             e == W * n
  <2>1. /\ a <= d + (e - n) /\ c <= b /\ b <= a
        /\ a \in Nat /\ b \in Nat /\ c \in Nat /\ d \in Nat /\ e \in Nat
    BY <1>2, <1>3, <1>4
  <2> HIDE DEF a, b, c, d, e
  <2>2. c < d + e
    BY <2>1
  <2> QED BY <2>2 DEF c, d, e
<1>6. ASSUME r >= p + n PROVE FALSE
  <2>1. PICK k \in Nat : r = (p + n) + k
    <3>1. r - (p + n) \in Nat /\ r = (p + n) + (r - (p + n))
      BY <1>6
    <3> QED BY <3>1
  <2>2. W * r = W * p + W * n + W * k /\ W * k \in Nat
    BY <1>1, <2>1
  <2> QED BY <1>4, <1>5, <2>2
<1> QED BY <1>6

LEMMA BuyWeightIInv ==
    ASSUME TraderIInv, NEW location \in Locations, NEW weight \in Weights,
           BuyWeight(location, weight)
    PROVE  TraderIInv'
<1> DEFINE rate == UnitsPerSecond(location)
           before == IF payment = Absent THEN 0 ELSE payment.amount
           price == Price(rate, weight)
<1>1. rate \in Rates /\ weight \in Nat
  BY PriceIsSet, TraderAssumption DEF BuyWeight, Charges
<1>2. price \in Nat
  BY <1>1, PriceIsNat
<1>3. /\ payment' = [location |-> location, amount |-> price + before,
                     rate |-> rate]
      /\ payment # Absent => payment.location = location /\ payment.rate = rate
  BY DEF BuyWeight
<1>4. /\ UNCHANGED <<registryVars, refunded, weight_returned, within>>
      /\ executing /\ executing' = executing
      /\ paid' = paid + price
      /\ weight_paid' = weight_paid + weight
      /\ weight_bought' = weight_bought + weight + weight
      /\ buys' = buys + 1
  BY DEF BuyWeight, Charges
<1>5. UnitsPerSecond(location)' = rate
  BY <1>4 DEF UnitsPerSecond, registryVars
<1> HIDE DEF rate, price
<1>6. TraderNumbers /\ within \in BOOLEAN
  BY DEF TraderIInv
<1>7. TraderNumbers'
  BY <1>1, <1>2, <1>4, <1>6 DEF TraderNumbers
<1>8. /\ before \in Nat
      /\ before + refunded >= paid
      /\ within => before + refunded <= paid + buys
      /\ rate * weight_paid
           <= WeightPerSecond * paid + (WeightPerSecond - 1) * buys
      /\ WeightPerSecond * refunded <= rate * weight_returned
  <2>1. CASE payment = Absent
    <3>1. /\ before = 0 /\ paid = 0 /\ refunded = 0
          /\ weight_paid = 0 /\ weight_returned = 0
      BY <2>1 DEF TraderIInv, PaymentIsCurrent
    <3>2. /\ rate \in Nat /\ WeightPerSecond \in Nat
          /\ WeightPerSecond - 1 \in Nat /\ buys \in Nat
      BY <1>1, <1>6, TraderAssumption DEF TraderNumbers
    <3>3. (WeightPerSecond - 1) * buys \in Nat
      BY <3>2
    <3> QED BY <3>1, <3>2, <3>3
  <2>2. CASE payment # Absent
    <3>1. payment \in Payment /\ payment.rate = rate
      BY <1>3, <2>2 DEF TraderIInv, PaymentIsCurrent
    <3>2. before = payment.amount /\ before \in Nat
      BY <2>2, <3>1 DEF Payment
    <3>3. /\ before + refunded >= paid
          /\ within => before + refunded <= paid + buys - 1
      BY <2>2, <3>2 DEF TraderIInv, PaymentIsAccounted
    <3>4. within => before + refunded <= paid + buys
      BY <1>6, <3>2, <3>3 DEF TraderNumbers
    <3> QED BY <2>2, <3>1, <3>2, <3>3, <3>4 DEF TraderIInv, RoundedDown
  <2> QED BY <2>1, <2>2
<1> HIDE DEF before
<1>9. /\ payment' \in Payment /\ payment' # Absent
      /\ payment'.location = location /\ payment'.rate = rate
      /\ payment'.amount = price + before
  BY <1>1, <1>2, <1>3, <1>8, TraderAssumption DEF Payment
<1>10. PaymentIsCurrent'
  <2>1. UnitsPerSecond(payment.location)' = payment'.rate
    BY <1>5, <1>9
  <2>2. buys' >= 1
    BY <1>4, <1>6 DEF TraderNumbers
  <2> QED BY <1>4, <1>9, <2>1, <2>2 DEF PaymentIsCurrent
<1>11. RoundedDown'
  <2>1. rate * (weight_paid + weight)
          <= WeightPerSecond * (paid + price)
               + (WeightPerSecond - 1) * (buys + 1)
    BY <1>1, <1>6, <1>8, PurchaseRounds DEF TraderNumbers, price
  <2> QED BY <1>4, <1>8, <1>9, <2>1 DEF RoundedDown
<1>12. PaymentIsAccounted'
  <2>1. /\ (price + before) + refunded >= paid + price
        /\ within => (price + before) + refunded <= (paid + price) + (buys + 1) - 1
    BY <1>2, <1>6, <1>8 DEF TraderNumbers
  <2> QED BY <1>4, <1>9, <2>1 DEF PaymentIsAccounted
<1>13. /\ asset_location_id' \in [Locations -> Assets \cup {Absent}]
       /\ fee_rate_per_second' \in [Assets -> Rates \cup {Absent}]
       /\ within' \in BOOLEAN
  BY <1>4, <1>6 DEF TraderIInv, registryVars
<1> QED BY <1>7, <1>10, <1>11, <1>12, <1>13 DEF TraderIInv

LEMMA RefundWeightIInv ==
    ASSUME TraderIInv, NEW weight \in Weights, RefundWeight(weight)
    PROVE  TraderIInv'
<1> DEFINE back == Price(payment.rate, Refundable(weight))
           given == Refundable(weight)
           rate == payment.rate
<1>1. weight \in Nat /\ TraderNumbers /\ within \in BOOLEAN
  BY TraderAssumption DEF TraderIInv
<1>2. given \in Nat /\ weight_bought - given \in Nat
  BY <1>1 DEF Refundable, TraderNumbers
<1>0. payment \in Payment /\ executing /\ payment # Absent
      /\ UnitsPerSecond(payment.location) = payment.rate
      /\ buys >= 1
  BY DEF RefundWeight, TraderIInv, PaymentIsCurrent
<1>3. /\ payment.amount + refunded >= paid
      /\ within => payment.amount + refunded <= paid + buys - 1
  BY <1>0 DEF TraderIInv, PaymentIsAccounted
<1>4. rate \in Rates /\ rate \in Nat /\ payment.amount \in Nat
  <2>1. payment.rate \in Rates /\ payment.amount \in Nat
    BY <1>0 DEF Payment
  <2> QED BY <2>1, TraderAssumption
<1>5. back \in Nat
  BY <1>2, <1>4, PriceIsNat
<1>6. payment' = [payment EXCEPT !.amount = IF @ >= back THEN @ - back ELSE 0]
      /\ weight_bought' = weight_bought - given
      /\ executing' = executing /\ UNCHANGED registryVars
      /\ RefundHistory(back, given)
  BY DEF RefundWeight
<1>7. WeightPerSecond * (refunded + back) <= rate * (weight_returned + given)
  <2>1. WeightPerSecond * refunded <= rate * weight_returned
    BY <1>0 DEF TraderIInv, RoundedDown
  <2>2. refunded \in Nat /\ weight_returned \in Nat
    BY <1>1 DEF TraderNumbers
  <2>3. back = Price(rate, given)
    OBVIOUS
  <2> HIDE DEF back, given, rate
  <2> QED BY <1>2, <1>4, <2>1, <2>2, <2>3, RefundRounds
<1>8. rate * weight_paid
        <= WeightPerSecond * paid + (WeightPerSecond - 1) * buys
  BY <1>0 DEF TraderIInv, RoundedDown
<1> HIDE DEF back, given, rate
<1>9. /\ refunded' = refunded + back
      /\ weight_returned' = weight_returned + given
      /\ within' = (within /\ weight_returned + given <= weight_paid)
      /\ UNCHANGED <<buys, paid, weight_paid>>
  BY <1>6 DEF RefundHistory
<1>10. payment' # Absent /\ payment'.location = payment.location
       /\ payment'.rate = rate
       /\ payment'.amount = (IF payment.amount >= back
                             THEN payment.amount - back ELSE 0)
       /\ payment' \in Payment
  BY <1>0, <1>4, <1>5, <1>6, TraderAssumption DEF Payment, rate
<1>11. TraderNumbers'
  BY <1>1, <1>2, <1>5, <1>6, <1>9 DEF TraderNumbers
<1>12. PaymentIsCurrent'
  <2>1. UnitsPerSecond(payment.location)' = payment'.rate
    BY <1>0, <1>6, <1>10 DEF UnitsPerSecond, registryVars, rate
  <2> QED BY <1>0, <1>6, <1>9, <1>10, <2>1 DEF PaymentIsCurrent
<1>13. RoundedDown'
  BY <1>7, <1>8, <1>9, <1>10 DEF RoundedDown
<1>14. PaymentIsAccounted'
  <2>1. payment'.amount + refunded' >= paid'
    BY <1>1, <1>3, <1>4, <1>5, <1>9, <1>10 DEF TraderNumbers
  <2>2. ASSUME within'
        PROVE  payment'.amount + refunded' <= paid' + buys' - 1
    <3>1. within /\ weight_returned + given <= weight_paid
      BY <2>2, <1>1, <1>9
    <3>2. refunded + back <= paid + buys - 1
      <4>1. /\ weight_returned + given \in Nat /\ refunded + back \in Nat
            /\ weight_paid \in Nat /\ paid \in Nat /\ buys \in Nat
        BY <1>1, <1>2, <1>5 DEF TraderNumbers
      <4> QED BY <1>0, <1>4, <1>7, <1>8, <3>1, <4>1, WithinIsCovered
    <3>3. payment.amount + refunded <= paid + buys - 1
      BY <1>3, <3>1
    <3> QED BY <1>1, <1>4, <1>5, <1>9, <1>10, <3>2, <3>3 DEF TraderNumbers
  <2> QED BY <2>1, <2>2 DEF PaymentIsAccounted
<1>15. asset_location_id' \in [Locations -> Assets \cup {Absent}]
      /\ fee_rate_per_second' \in [Assets -> Rates \cup {Absent}]
      /\ within' \in BOOLEAN
  BY <1>1, <1>6, <1>9 DEF TraderIInv, registryVars
<1> QED BY <1>11, <1>12, <1>13, <1>14, <1>15 DEF TraderIInv

LEMMA TraderStepIInv == TraderIInv /\ [TraderNext]_assetVars => TraderIInv'
<1> SUFFICES ASSUME TraderIInv, [TraderNext]_assetVars PROVE TraderIInv'
  OBVIOUS
<1>1. ASSUME payment = Absent, payment' = Absent,
             UNCHANGED <<weight_bought, buys, historyVars>>,
             asset_location_id' \in [Locations -> Assets \cup {Absent}],
             fee_rate_per_second' \in [Assets -> Rates \cup {Absent}]
      PROVE  TraderIInv'
  BY <1>1 DEF TraderIInv, TraderNumbers, PaymentIsCurrent, RoundedDown,
              PaymentIsAccounted, historyVars
<1>2. ASSUME NEW asset \in Assets, NEW rate \in Rates \cup {Absent},
             SetFeeRate(asset, rate)
      PROVE  TraderIInv'
  <2>1. payment = Absent /\ UNCHANGED traderVars
    BY <1>2 DEF SetFeeRate, TraderIInv, PaymentIsCurrent
  <2>2. /\ asset_location_id' \in [Locations -> Assets \cup {Absent}]
        /\ fee_rate_per_second' \in [Assets -> Rates \cup {Absent}]
    BY <1>2 DEF SetFeeRate, TraderIInv
  <2> QED BY <1>1, <2>1, <2>2 DEF traderVars
<1>3. ASSUME NEW location \in Locations, NEW asset \in Assets,
             RegisterAssetLocation(location, asset)
      PROVE  TraderIInv'
  <2>1. payment = Absent /\ UNCHANGED traderVars
    BY <1>3 DEF RegisterAssetLocation, TraderIInv, PaymentIsCurrent
  <2>2. /\ asset_location_id' \in [Locations -> Assets \cup {Absent}]
        /\ fee_rate_per_second' \in [Assets -> Rates \cup {Absent}]
    BY <1>3 DEF RegisterAssetLocation, TraderIInv
  <2> QED BY <1>1, <2>1, <2>2 DEF traderVars
<1>4. ASSUME NEW address \in Addresses, NEW asset \in Assets,
             RegisterNativeErc20Asset(address, asset)
      PROVE  TraderIInv'
  <2>1. payment = Absent /\ UNCHANGED traderVars
    BY <1>4 DEF RegisterNativeErc20Asset, TraderIInv, PaymentIsCurrent
  <2>2. /\ asset_location_id' \in [Locations -> Assets \cup {Absent}]
        /\ fee_rate_per_second' \in [Assets -> Rates \cup {Absent}]
    BY <1>4 DEF RegisterNativeErc20Asset, TraderIInv
  <2> QED BY <1>1, <2>1, <2>2 DEF traderVars
<1>5. CASE NewTrader \/ DropTrader
  <2>1. FreshTrader /\ UNCHANGED registryVars
    BY <1>5 DEF NewTrader, DropTrader
  <2> QED BY <2>1
          DEF FreshTrader, TraderIInv, TraderNumbers, PaymentIsCurrent,
              RoundedDown, PaymentIsAccounted, registryVars
<1>6. ASSUME NEW location \in Locations, NEW weight \in Weights,
             BuyWeightOtherAsset(location, weight)
      PROVE  TraderIInv'
  <2>1. /\ weight \in Nat /\ WeightPerSecond - 1 \in Nat
        /\ WeightPerSecond \in Nat
    BY TraderAssumption
  <2>2. /\ UNCHANGED <<registryVars, executing, payment, historyVars>>
        /\ weight_bought' = weight_bought + weight /\ buys' = buys + 1
        /\ payment # Absent
    BY <1>6 DEF BuyWeightOtherAsset
  <2>3. /\ TraderNumbers /\ within \in BOOLEAN
        /\ PaymentIsCurrent /\ RoundedDown /\ PaymentIsAccounted
    BY DEF TraderIInv
  <2>4. TraderNumbers'
    BY <2>1, <2>2, <2>3 DEF TraderNumbers, historyVars
  <2>5. PaymentIsCurrent'
    BY <2>2, <2>3 DEF PaymentIsCurrent, TraderNumbers, UnitsPerSecond,
                      registryVars, historyVars
  <2>6. payment.amount \in Nat
    BY <2>2, <2>3 DEF PaymentIsCurrent, Payment
  <2>7. RoundedDown'
    <3> DEFINE a == payment.rate * weight_paid
               b == WeightPerSecond * paid
               d == (WeightPerSecond - 1) * buys
               e == (WeightPerSecond - 1) * (buys + 1)
    <3>1. a <= b + d
      BY <2>2, <2>3 DEF RoundedDown
    <3>2. /\ d \in Nat /\ b \in Nat
          /\ e = d + (WeightPerSecond - 1)
      BY <2>1, <2>3 DEF TraderNumbers
    <3>3. a \in Nat
      <4>1. payment.rate \in Nat /\ weight_paid \in Nat
        BY <2>2, <2>3, TraderAssumption
           DEF PaymentIsCurrent, Payment, TraderNumbers
      <4> QED BY <4>1
    <3> HIDE DEF a, b, d, e
    <3>4. a <= b + e
      BY <2>1, <3>1, <3>2, <3>3
    <3>5. WeightPerSecond * refunded <= payment.rate * weight_returned
      BY <2>2, <2>3 DEF RoundedDown
    <3> QED BY <2>2, <3>4, <3>5 DEF RoundedDown, historyVars, a, b, e
  <2>8. PaymentIsAccounted'
    BY <2>2, <2>3, <2>6 DEF PaymentIsAccounted, TraderNumbers, historyVars
  <2> QED BY <2>2, <2>3, <2>4, <2>5, <2>7, <2>8
          DEF TraderIInv, registryVars, historyVars
<1>7. CASE UNCHANGED assetVars
  BY <1>7 DEF assetVars, registryVars, traderVars, historyVars, TraderIInv,
              TraderNumbers, PaymentIsCurrent, RoundedDown, PaymentIsAccounted,
              UnitsPerSecond
<1> QED BY <1>2, <1>3, <1>4, <1>5, <1>6, <1>7, BuyWeightIInv, RefundWeightIInv
        DEF TraderNext

\* What a message pays in its first asset comes back as refund or stays in the
\* trader as revenue, for all assets, prices and weights and any number of
\* purchases and refunds: nothing of it vanishes, and refund_weight and drop
\* together give no more than was paid and the rounding of the purchases, to
\* an executor that asks for no more weight back than was bought.
THEOREM PaymentStaysAccounted == TraderSpec => []PaymentIsAccounted
<1>1. TraderInit => TraderIInv
  BY DEF TraderInit, TraderIInv, TraderNumbers, PaymentIsCurrent, RoundedDown,
         PaymentIsAccounted
<1>2. TraderIInv => PaymentIsAccounted
  BY DEF TraderIInv
<1> QED BY <1>1, <1>2, TraderStepIInv, PTL DEF TraderSpec
=============================================================================
