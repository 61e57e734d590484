------------------------ MODULE StakingRewardsProofs ------------------------
(***************************************************************************)
(* Proofs about the rewards, for every set of stashes and controllers,     *)
(* every election, every commission, every issuance and every bound.  The  *)
(* history depths exclude 0, for which get_total_not_claimed_reward wraps  *)
(* and promised rewards fall out of the window at once, and the largest    *)
(* u32, for which trigger_new_era wraps.                                   *)
(***************************************************************************)
EXTENDS StakingRewards, ErasProofs, TotalsProofs

ProperDepths == 0 \notin HistoryDepths /\ U32 - 1 \notin HistoryDepths

-----------------------------------------------------------------------------
(***************************************************************************)
(* The era clock.                                                          *)
(***************************************************************************)

\* Every step of the rewards is a step of the era clock or leaves it alone.
LEMMA ClockStep ==
    ASSUME [Next]_vars
    PROVE  [ErasNext]_eraVars
<1>1. CASE UNCHANGED vars
  BY <1>1 DEF vars, eraVars
<1>2. ASSUME NEW author \in Stashes \cup {None}, BeginBlockBy(author)
      PROVE  ErasNext
  BY <1>2 DEF BeginBlockBy, ErasNext
<1>3. ASSUME NEW author \in Stashes \cup {None}, NEW elected \in BOOLEAN,
             RotateBlockBy(author, elected)
      PROVE  ErasNext
  BY <1>3 DEF RotateBlockBy, ErasNext
<1>4. CASE FinalizeBlock
  BY <1>4 DEF FinalizeBlock, ErasNext
<1>5. ASSUME NEW v \in Stashes, NEW e \in Era, PayoutNothing(v, e)
      PROVE  UNCHANGED eraVars
  BY <1>5 DEF PayoutNothing
<1>6. ASSUME NEW v \in Stashes, NEW e \in Era, NEW dead \in SUBSET Stashes,
             PayoutStakers(v, e, dead)
      PROVE  UNCHANGED eraVars
  BY <1>6 DEF PayoutStakers
<1>7. ASSUME NEW s \in Stashes, NEW c \in Controllers, NEW dest \in Payees,
             Bond(s, c, dest)
      PROVE  UNCHANGED eraVars
  BY <1>7 DEF Bond
<1>8. ASSUME NEW s \in Leavers, KillStash(s)
      PROVE  UNCHANGED eraVars
  BY <1>8 DEF KillStash
<1>9. ASSUME NEW s \in Stashes, NEW c \in Controllers, SetController(s, c)
      PROVE  UNCHANGED eraVars
  BY <1>9 DEF SetController
<1>10. ASSUME NEW c \in Controllers, NEW dest \in Payees, SetPayee(c, dest)
       PROVE  UNCHANGED eraVars
  BY <1>10 DEF SetPayee
<1>11. ASSUME NEW amount \in Payments, PayFee(amount) \/ Donate(amount)
       PROVE  UNCHANGED eraVars
  BY <1>11 DEF PayFee, Donate
<1>12. CASE Triger
  BY <1>12 DEF Triger
<1>13. ASSUME NEW d \in HistoryDepths, ChangeHistoryDepth(d)
       PROVE  ErasNext
  BY <1>13 DEF ChangeHistoryDepth, ErasNext
<1>14. CASE ChangeForcing
  BY <1>14 DEF ChangeForcing, ErasNext
<1> QED
  BY <1>1, <1>2, <1>3, <1>4, <1>5, <1>6, <1>7, <1>8, <1>9, <1>10, <1>11,
     <1>12, <1>13, <1>14 DEF Next

\* The rewards implement the era clock: on top of it they add state and
\* nothing that disturbs it.
THEOREM RewardsImplementEras == Spec => ErasSpec
<1>1. Init => ErasInit
  BY DEF Init
<1>2. [Next]_vars => [ErasNext]_eraVars
  BY ClockStep
<1> QED BY <1>1, <1>2, PTL DEF Spec, ErasSpec

-----------------------------------------------------------------------------
(***************************************************************************)
(* The ranges of the operators.                                            *)
(***************************************************************************)

\* There are finitely many eras.
LEMMA EraFinite == IsFiniteSet(Era)
BY ErasAssumption, FS_Interval DEF Era

\* An election is stored with exposures of the right type.
LEMMA ClippedStakersType ==
    \A stakers \in ClippedStakers : stakers \in [Stashes -> Exposure]
<1> TAKE stakers \in ClippedStakers
<1>1. PICK support \in ElectionResults, kept \in [Stashes -> SUBSET Stashes] :
        stakers = [v \in Stashes |->
                     [own    |-> support[v][v],
                      total  |-> Total(support[v], Stashes),
                      others |-> [n \in Stashes |->
                                    IF n \in kept[v] THEN support[v][n]
                                    ELSE 0]]]
  BY DEF ClippedStakers
<1>2. support \in [Stashes -> [Stashes -> Nat]] /\ IsFiniteSet(Stashes)
  BY RewardsAssumption
<1>3. ASSUME NEW v \in Stashes
      PROVE  Total(support[v], Stashes) \in Nat
  <2>1. support[v] \in [Stashes -> Nat]
    BY <1>2
  <2> QED BY <1>2, <2>1, TotalType
<1> QED BY <1>1, <1>2, <1>3 DEF Exposure

\* The commissions stored with an election.
LEMMA PrefsType ==
    ASSUME NEW commission \in [Stashes -> Commissions], NEW stakers
    PROVE  PrefsOf(stakers, commission) \in [Stashes -> Parts]
<1>1. 0 \in Parts /\ Commissions \subseteq Parts
  BY RewardsAssumption, PerbillAssumption DEF Parts
<1> QED BY <1>1 DEF PrefsOf

\* The payments of a payout are amounts.
LEMMA DueType ==
    ASSUME TypeOK, NEW v \in Stashes, NEW e \in Era,
           eras_validator_reward[e] # None
    PROVE  Due(v, e) \in [Stashes -> Nat]
<1>1. /\ eras_validator_reward[e] \in Nat
      /\ eras_reward_points[e] \in [Stashes -> Nat]
      /\ eras_reward_points[e][v] \in Nat
      /\ eras_validator_prefs[e][v] \in Parts
      /\ eras_stakers_clipped[e][v] \in Exposure
  BY DEF TypeOK
<1>2. /\ eras_stakers_clipped[e][v].own \in Nat
      /\ eras_stakers_clipped[e][v].total \in Nat
      /\ eras_stakers_clipped[e][v].others \in [Stashes -> Nat]
  BY <1>1 DEF Exposure
<1>3. Total(eras_reward_points[e], Stashes) \in Nat
  BY <1>1, RewardsAssumption, TotalType
<1> DEFINE payout == ValidatorTotalPayout(v, e)
           commission == CommissionPayout(v, e)
<1>4. payout \in Nat
  <2>1. FromRational(eras_reward_points[e][v],
                     Total(eras_reward_points[e], Stashes)) \in Parts
    BY <1>1, <1>3, FromRationalType
  <2> QED BY <1>1, <2>1, MulNearestBound DEF ValidatorTotalPayout
<1>5. commission \in 0..payout
  BY <1>1, <1>4, MulNearestBound DEF CommissionPayout
<1>6. payout - commission \in Nat /\ commission \in Nat
  <2> HIDE DEF payout, commission
  <2> QED BY <1>4, <1>5
<1>7. ASSUME NEW stake \in Nat
      PROVE  StakingPayout(v, e, stake) \in Nat
  <2>1. FromRational(stake, eras_stakers_clipped[e][v].total) \in Parts
    BY <1>2, FromRationalType
  <2>2. MulNearest(FromRational(stake, eras_stakers_clipped[e][v].total),
                   payout - commission) \in Nat
    <3> HIDE DEF payout, commission
    <3> QED BY <1>6, <2>1, MulNearestBound
  <2> QED BY <2>2 DEF StakingPayout
<1>8. ASSUME NEW s \in Stashes
      PROVE  eras_stakers_clipped[e][v].others[s] \in Nat
  BY <1>2
<1>9. StakingPayout(v, e, eras_stakers_clipped[e][v].own)
        + CommissionPayout(v, e) \in Nat
  BY <1>2, <1>6, <1>7
<1> QED BY <1>7, <1>8, <1>9 DEF Due

\* What a payout takes from the fund is an amount.
LEMMA PayoutValueType ==
    ASSUME NEW due \in [Stashes -> Nat], NEW dead
    PROVE  PayoutValue(due, dead) \in Nat
<1>1. [s \in Stashes |-> IF Receives(s, due[s], dead) THEN due[s] ELSE 0]
        \in [Stashes -> Nat]
  OBVIOUS
<1> QED BY <1>1, TotalType, RewardsAssumption DEF PayoutValue

\* A payout that is settled leaves the fund its existential deposit.
LEMMA SettleBound ==
    ASSUME NEW value \in Nat, fund \in Nat, CanSettle(value)
    PROVE  /\ fund - value \in Nat
           /\ fund >= ExistentialDeposit => fund - value >= ExistentialDeposit
BY RewardsAssumption DEF CanSettle

-----------------------------------------------------------------------------
(***************************************************************************)
(* Types, and the agreement of Bonded and Ledger.                          *)
(***************************************************************************)

\* Genesis establishes the types and the agreement of the two maps.
LEMMA InitTypes == Init => TypeOK /\ BondedHasLedger
<1> SUFFICES ASSUME Init PROVE TypeOK /\ BondedHasLedger
  OBVIOUS
<1> USE RewardsAssumption, PerbillAssumption
<1>1. ErasTypeOK
  BY ErasInitInv DEF Init, ErasIInv
<1>2. Nothing \in [Stashes -> Nat] /\ Nothing \in [Stashes -> Parts]
  BY DEF Nothing, Parts
<1>3. [v \in Stashes |-> NoExposure] \in [Stashes -> Exposure]
  BY <1>2 DEF NoExposure, Exposure
<1>4. PICK stakers \in ClippedStakers \cup {[v \in Stashes |-> NoExposure]},
           commission \in [Stashes -> Commissions] :
        /\ eras_stakers_clipped =
             [e \in Era |-> IF e <= current_era THEN stakers
                            ELSE [v \in Stashes |-> NoExposure]]
        /\ eras_validator_prefs =
             [e \in Era |-> IF e <= current_era
                            THEN PrefsOf(stakers, commission) ELSE Nothing]
  BY DEF Init
<1>5. /\ eras_stakers_clipped \in [Era -> [Stashes -> Exposure]]
      /\ eras_validator_prefs \in [Era -> [Stashes -> Parts]]
  <2>1. stakers \in [Stashes -> Exposure]
    BY <1>3, ClippedStakersType
  <2>2. PrefsOf(stakers, commission) \in [Stashes -> Parts]
    BY PrefsType
  <2> HIDE DEF NoExposure
  <2> QED BY <1>2, <1>3, <1>4, <2>1, <2>2
<1>6. ASSUME NEW c \in Controllers, \E s \in Stashes : GenesisController[s] = c
      PROVE  \E s \in Stashes : /\ GenesisController[s] = c
                                /\ ledger[c] = [stash |-> s,
                                                claimed_rewards |-> {}]
  <2> DEFINE t == CHOOSE s \in Stashes : GenesisController[s] = c
  <2>1. t \in Stashes /\ GenesisController[t] = c
    BY <1>6
  <2>2. ledger[c] = [stash |-> t, claimed_rewards |-> {}]
    BY <1>6 DEF Init
  <2> QED BY <2>1, <2>2
<1>7. ASSUME NEW c \in Controllers, ~\E s \in Stashes : GenesisController[s] = c
      PROVE  ledger[c] = None
  BY <1>7 DEF Init
<1>8. ASSUME NEW c \in Controllers
      PROVE  ledger[c] \in LedgerRecord \cup {None}
  <2>1. \A s \in Stashes : [stash |-> s, claimed_rewards |-> {}] \in LedgerRecord
    BY DEF LedgerRecord
  <2>2. CASE \E s \in Stashes : GenesisController[s] = c
    <3>1. PICK s \in Stashes : ledger[c] = [stash |-> s, claimed_rewards |-> {}]
      BY <2>2, <1>6
    <3> QED BY <2>1, <3>1
  <2>3. CASE ~\E s \in Stashes : GenesisController[s] = c
    BY <2>3, <1>7
  <2> QED BY <2>2, <2>3
<1>9. ledger \in [Controllers -> LedgerRecord \cup {None}]
  BY <1>8 DEF Init
<1>10. TypeOK
  <2>1. /\ fund \in Nat /\ wallet \in Nat /\ users \in Nat /\ excess \in Nat
    BY DEF Init
  <2>2. /\ eras_validator_reward \in [Era -> Nat \cup {None}]
        /\ eras_not_claimed_reward \in [Era -> Nat]
        /\ eras_reward_points \in [Era -> [Stashes -> Nat]]
        /\ payouts \in [Era -> [Stashes -> Nat]]
    BY <1>2 DEF Init
  <2>3. /\ bonded \in [Stashes -> Controllers \cup {None}]
        /\ payee \in [Stashes -> RewardDestination]
    BY DEF Init, RewardDestination
  <2> QED BY <1>1, <1>5, <1>9, <2>1, <2>2, <2>3 DEF TypeOK
<1>11. BondedHasLedger
  <2>1. ASSUME NEW s \in Stashes, bonded[s] # None
        PROVE  ledger[bonded[s]] # None /\ ledger[bonded[s]].stash = s
    <3>1. bonded[s] \in Controllers /\ bonded[s] = GenesisController[s]
      BY <2>1 DEF Init
    <3>2. PICK t \in Stashes : /\ GenesisController[t] = bonded[s]
                               /\ ledger[bonded[s]] = [stash |-> t,
                                                       claimed_rewards |-> {}]
      BY <3>1, <1>6
    <3>3. t = s
      BY <2>1, <3>1, <3>2
    <3>4. ledger[bonded[s]] \in LedgerRecord
      BY <3>2 DEF LedgerRecord
    <3>5. None \notin LedgerRecord
      OBVIOUS
    <3>6. ledger[bonded[s]].stash = s
      BY ONLY <3>2, <3>3
    <3> QED BY ONLY <3>4, <3>5, <3>6
  <2>2. ASSUME NEW c \in Controllers, ledger[c] # None
        PROVE  bonded[ledger[c].stash] = c
    <3>1. PICK s \in Stashes : /\ GenesisController[s] = c
                               /\ ledger[c] = [stash |-> s,
                                               claimed_rewards |-> {}]
      BY <2>2, <1>6, <1>7
    <3> QED BY <3>1 DEF Init
  <2> QED BY <2>1, <2>2 DEF BondedHasLedger
<1> QED BY <1>10, <1>11

\* end_era's reward is an amount.
LEMMA EraRewardType ==
    ASSUME TypeOK
    PROVE  /\ FundAfterWallet \in Nat
           /\ Total(eras_not_claimed_reward, NotClaimedWindow) \in Nat
           /\ EraReward \in Nat
<1>1. FundAfterWallet \in Nat
  BY DEF FundAfterWallet, TypeOK
<1>2. Total(eras_not_claimed_reward, NotClaimedWindow) \in Nat
  <2>1. NotClaimedWindow \in SUBSET Era
    BY DEF NotClaimedWindow
  <2> QED BY <2>1, EraFinite, TotalType DEF TypeOK
<1>3. EraReward \in Nat
  BY <1>1, <1>2, RewardsAssumption DEF EraReward, SaturatingSub
<1> QED BY <1>1, <1>2, <1>3

\* A block's on_initialize keeps the types.
LEMMA BlockTypes ==
    ASSUME TypeOK, ErasTypeOK',
           \/ \E author \in Stashes \cup {None} : BeginBlockBy(author)
           \/ \E author \in Stashes \cup {None}, elected \in BOOLEAN :
                RotateBlockBy(author, elected)
    PROVE  TypeOK'
<1> USE RewardsAssumption, PerbillAssumption
<1>1. Nothing \in [Stashes -> Nat] /\ Nothing \in [Stashes -> Parts]
  BY DEF Nothing, Parts
<1>2. ASSUME NEW author \in Stashes \cup {None}
      PROVE  NoteAuthor(author) \in [Era -> [Stashes -> Nat]]
  <2>1. CASE author = None
    BY <2>1 DEF NoteAuthor, TypeOK
  <2>2. CASE author # None
    <3>1. author \in Stashes /\ active_era \in Era
      BY <2>2, ErasAssumption DEF TypeOK, ErasTypeOK, Era
    <3>2. eras_reward_points[active_era] \in [Stashes -> Nat]
      BY <3>1 DEF TypeOK
    <3>3. [eras_reward_points[active_era] EXCEPT ![author] = @ + 1]
            \in [Stashes -> Nat]
      BY <3>1, <3>2
    <3> QED BY <2>2, <3>3 DEF NoteAuthor, TypeOK
  <2> QED BY <2>1, <2>2
<1>3. ASSUME NEW author \in Stashes \cup {None}, BeginBlockBy(author)
      PROVE  TypeOK'
  BY <1>2, <1>3 DEF BeginBlockBy, TypeOK, moneyVars, rewardVars, bondVars,
                    historyVars
<1>4. ASSUME NEW author \in Stashes \cup {None}, NEW elected \in BOOLEAN,
             RotateBlockBy(author, elected)
      PROVE  TypeOK'
  <2>1. FundAfterWallet \in Nat /\ EraReward \in Nat
    BY EraRewardType
  <2>2. fund' \in Nat /\ wallet' \in Nat /\ users' \in Nat
    BY <1>4, <2>1 DEF RotateBlockBy, MoneyAfterEnd, moneyVars, TypeOK
  <2>5. /\ RewardsAfterEnd \in [Era -> Nat \cup {None}]
        /\ NotClaimedAfterEnd \in [Era -> Nat]
    BY <2>1 DEF RewardsAfterEnd, NotClaimedAfterEnd, TypeOK
  <2>6. /\ eras_validator_reward' \in [Era -> Nat \cup {None}]
        /\ eras_not_claimed_reward' \in [Era -> Nat]
    BY <1>4, <2>5 DEF RotateBlockBy, ClearRewards, Clear
  <2>7. eras_reward_points' \in [Era -> [Stashes -> Nat]]
    BY <1>1, <1>2, <1>4 DEF RotateBlockBy, Clear
  <2>8. /\ eras_stakers_clipped' \in [Era -> [Stashes -> Exposure]]
        /\ eras_validator_prefs' \in [Era -> [Stashes -> Parts]]
    <3>1. CASE PlansEra(elected)
      <4>1. PICK stakers \in ClippedStakers,
                 commission \in [Stashes -> Commissions] :
              /\ eras_stakers_clipped' =
                   [Clear(eras_stakers_clipped, ClearedEras(elected),
                          [v \in Stashes |-> NoExposure])
                      EXCEPT ![current_era + 1] = stakers]
              /\ eras_validator_prefs' =
                   [Clear(eras_validator_prefs, ClearedEras(elected), Nothing)
                      EXCEPT ![current_era + 1] = PrefsOf(stakers, commission)]
        BY <1>4, <3>1 DEF RotateBlockBy
      <4>2. stakers \in [Stashes -> Exposure]
        BY ClippedStakersType
      <4>3. PrefsOf(stakers, commission) \in [Stashes -> Parts]
        BY PrefsType
      <4>4. [v \in Stashes |-> NoExposure] \in [Stashes -> Exposure]
        BY <1>1 DEF NoExposure, Exposure
      <4>5. /\ Clear(eras_stakers_clipped, ClearedEras(elected),
                     [v \in Stashes |-> NoExposure])
                 \in [Era -> [Stashes -> Exposure]]
            /\ Clear(eras_validator_prefs, ClearedEras(elected), Nothing)
                 \in [Era -> [Stashes -> Parts]]
        BY <1>1, <4>4 DEF Clear, TypeOK
      <4> QED BY <4>1, <4>2, <4>3, <4>5
    <3>2. CASE ~PlansEra(elected)
      BY <1>4, <3>2 DEF RotateBlockBy, TypeOK
    <3> QED BY <3>1, <3>2
  <2>9. UNCHANGED <<bondVars, historyVars>>
    BY <1>4 DEF RotateBlockBy
  <2> QED BY <2>2, <2>6, <2>7, <2>8, <2>9 DEF TypeOK, bondVars, historyVars
<1> QED BY <1>3, <1>4

\* A payout is settled in amounts and keeps the types.
LEMMA PayoutTypes ==
    ASSUME TypeOK, BondedHasLedger, NEW v \in Stashes, NEW e \in Era,
           \/ PayoutNothing(v, e)
           \/ \E dead \in SUBSET Stashes : PayoutStakers(v, e, dead)
    PROVE  TypeOK'
<1>1. PayoutAccepted(v, e) /\ MarkClaimed(v, e) /\ UNCHANGED eraVars
  BY DEF PayoutNothing, PayoutStakers
<1>2. ledger' \in [Controllers -> LedgerRecord \cup {None}]
  <2>1. /\ bonded[v] \in Controllers
        /\ ledger[bonded[v]] \in LedgerRecord
    BY <1>1 DEF PayoutAccepted, TypeOK, BondedHasLedger
  <2>2. ClaimedAfterPayout(v, e) \in SUBSET Era
    BY <2>1 DEF ClaimedAfterPayout, LedgerRecord
  <2>3. [ledger[bonded[v]] EXCEPT !.claimed_rewards = ClaimedAfterPayout(v, e)]
          \in LedgerRecord
    BY <2>1, <2>2 DEF LedgerRecord
  <2> QED BY <1>1, <2>1, <2>3 DEF MarkClaimed, TypeOK
<1>3. payouts' \in [Era -> [Stashes -> Nat]]
  <2>1. payouts[e] \in [Stashes -> Nat]
    BY DEF TypeOK
  <2>2. [payouts[e] EXCEPT ![v] = @ + 1] \in [Stashes -> Nat]
    BY <2>1
  <2> QED BY <2>2 DEF TypeOK, PayoutNothing, PayoutStakers
<1>4. ErasTypeOK'
  BY <1>1 DEF TypeOK, ErasTypeOK, eraVars
<1>5. CASE PayoutNothing(v, e)
  BY <1>2, <1>3, <1>4, <1>5 DEF PayoutNothing, TypeOK, moneyVars, rewardVars,
                                stakerVars
<1>6. ASSUME NEW dead \in SUBSET Stashes, PayoutStakers(v, e, dead)
      PROVE  TypeOK'
  <2> DEFINE value == PayoutValue(Due(v, e), dead)
  <2>1. value \in Nat
    BY <1>1, DueType, PayoutValueType DEF PayoutAccepted
  <2>2. /\ CanSettle(value)
        /\ fund' = fund - value
        /\ users' = users + value
        /\ eras_not_claimed_reward' =
             [eras_not_claimed_reward EXCEPT ![e] = SaturatingSub(@, value)]
        /\ excess' = excess + SaturatingSub(value, eras_not_claimed_reward[e])
    BY <1>6 DEF PayoutStakers, UpdateNotClaimedReward
  <2> HIDE DEF value
  <2>3. fund' \in Nat /\ users' \in Nat
    BY <2>1, <2>2, SettleBound DEF TypeOK
  <2>4. eras_not_claimed_reward[e] \in Nat
    BY DEF TypeOK
  <2>5. eras_not_claimed_reward' \in [Era -> Nat] /\ excess' \in Nat
    BY <2>1, <2>2, <2>4 DEF TypeOK, SaturatingSub
  <2> QED BY <1>2, <1>3, <1>4, <1>6, <2>3, <2>5 DEF PayoutStakers, TypeOK,
                                                   stakerVars
<1> QED BY <1>5, <1>6

\* The calls that change bonds keep the types and the agreement of the maps.
LEMMA BondTypes ==
    ASSUME TypeOK, BondedHasLedger,
           \/ \E s \in Stashes, c \in Controllers, dest \in Payees :
                Bond(s, c, dest)
           \/ \E s \in Leavers : KillStash(s)
           \/ \E s \in Stashes, c \in Controllers : SetController(s, c)
           \/ \E c \in Controllers, dest \in Payees : SetPayee(c, dest)
    PROVE  TypeOK' /\ BondedHasLedger'
<1> USE RewardsAssumption
<1> USE DEF eraVars, moneyVars, rewardVars, stakerVars, historyVars
<1>1. ASSUME NEW s \in Stashes, NEW c \in Controllers, NEW dest \in Payees,
             Bond(s, c, dest)
      PROVE  TypeOK' /\ BondedHasLedger'
  <2> DEFINE new == [stash |-> s,
                     claimed_rewards |->
                       {e \in Era :
                          /\ SaturatingSub(current_era, history_depth) <= e
                          /\ e < current_era}]
  <2>1. new \in LedgerRecord /\ new.stash = s
    BY DEF LedgerRecord
  <2>2. /\ bonded[s] = None /\ ledger[c] = None
        /\ bonded' = [bonded EXCEPT ![s] = c]
        /\ ledger' = [ledger EXCEPT ![c] = new]
        /\ payee' = [payee EXCEPT ![s] = dest]
    BY <1>1 DEF Bond
  <2> HIDE DEF new
  <2>3. /\ bonded' \in [Stashes -> Controllers \cup {None}]
        /\ payee' \in [Stashes -> RewardDestination]
        /\ ledger' \in [Controllers -> LedgerRecord \cup {None}]
    BY <2>1, <2>2 DEF TypeOK
  <2>4. TypeOK'
    BY <1>1, <2>3 DEF Bond, TypeOK, ErasTypeOK
  <2>5. BondedHasLedger'
    <3>1. ASSUME NEW t \in Stashes, bonded'[t] # None
          PROVE  ledger'[bonded'[t]] # None /\ ledger'[bonded'[t]].stash = t
      BY <2>1, <2>2, <3>1 DEF TypeOK, BondedHasLedger
    <3>2. ASSUME NEW k \in Controllers, ledger'[k] # None
          PROVE  bonded'[ledger'[k].stash] = k
      BY <2>1, <2>2, <3>2 DEF TypeOK, BondedHasLedger, LedgerRecord
    <3> QED BY <3>1, <3>2 DEF BondedHasLedger
  <2> QED BY <2>4, <2>5
<1>2. ASSUME NEW s \in Leavers, KillStash(s)
      PROVE  TypeOK' /\ BondedHasLedger'
  <2>1. /\ s \in Stashes /\ bonded[s] # None /\ bonded[s] \in Controllers
        /\ bonded' = [bonded EXCEPT ![s] = None]
        /\ ledger' = [ledger EXCEPT ![bonded[s]] = None]
        /\ payee' = [payee EXCEPT ![s] = "Staked"]
    BY <1>2 DEF KillStash, TypeOK
  <2>2. /\ bonded' \in [Stashes -> Controllers \cup {None}]
        /\ payee' \in [Stashes -> RewardDestination]
        /\ ledger' \in [Controllers -> LedgerRecord \cup {None}]
    BY <2>1 DEF TypeOK, RewardDestination
  <2>3. TypeOK'
    BY <1>2, <2>2 DEF KillStash, TypeOK, ErasTypeOK
  <2>4. ASSUME NEW t \in Stashes, bonded'[t] # None
        PROVE  ledger'[bonded'[t]] # None /\ ledger'[bonded'[t]].stash = t
    <3>1. t # s /\ bonded'[t] = bonded[t]
      BY <2>1, <2>4 DEF TypeOK
    <3>2. /\ ledger[bonded[t]].stash = t /\ ledger[bonded[s]].stash = s
          /\ ledger[bonded[t]] # None /\ bonded[t] \in Controllers
      BY <2>1, <2>4, <3>1 DEF TypeOK, BondedHasLedger
    <3>3. bonded[t] # bonded[s]
      BY <3>1, <3>2
    <3> QED BY <2>1, <3>1, <3>2, <3>3 DEF TypeOK
  <2>5. ASSUME NEW k \in Controllers, ledger'[k] # None
        PROVE  bonded'[ledger'[k].stash] = k
    <3>1. k # bonded[s] /\ ledger'[k] = ledger[k] /\ ledger[k] \in LedgerRecord
      BY <2>1, <2>5 DEF TypeOK
    <3>2. ledger[k].stash \in Stashes /\ bonded[ledger[k].stash] = k
      BY <2>5, <3>1 DEF BondedHasLedger, LedgerRecord
    <3> QED BY <2>1, <3>1, <3>2 DEF TypeOK
  <2> QED BY <2>3, <2>4, <2>5 DEF BondedHasLedger
<1>3. ASSUME NEW s \in Stashes, NEW c \in Controllers, SetController(s, c)
      PROVE  TypeOK' /\ BondedHasLedger'
  <2> DEFINE old == bonded[s]
  <2>1. /\ old # None /\ old \in Controllers /\ ledger[c] = None
        /\ ledger[old] \in LedgerRecord /\ ledger[old].stash = s
        /\ ledger[old] # None
    BY <1>3 DEF SetController, TypeOK, BondedHasLedger
  <2>2. /\ bonded' = [bonded EXCEPT ![s] = c]
        /\ ledger' = [ledger EXCEPT ![old] = None, ![c] = ledger[old]]
    BY <1>3 DEF SetController
  <2>3. c # old
    BY <2>1
  <2>4. /\ bonded' \in [Stashes -> Controllers \cup {None}]
        /\ ledger' \in [Controllers -> LedgerRecord \cup {None}]
    BY <2>1, <2>2 DEF TypeOK
  <2>5. TypeOK'
    BY <1>3, <2>4 DEF SetController, TypeOK, ErasTypeOK
  <2>6. /\ ledger'[c] = ledger[old] /\ ledger'[old] = None
        /\ \A k \in Controllers \ {c, old} : ledger'[k] = ledger[k]
        /\ bonded'[s] = c
        /\ \A t \in Stashes \ {s} : bonded'[t] = bonded[t]
    BY <2>1, <2>2, <2>3 DEF TypeOK
  <2>7. ASSUME NEW t \in Stashes, bonded'[t] # None
        PROVE  ledger'[bonded'[t]] # None /\ ledger'[bonded'[t]].stash = t
    <3>1. CASE t = s
      BY <2>1, <2>6, <3>1
    <3>2. CASE t # s
      <4>1. /\ ledger[bonded[t]].stash = t /\ ledger[bonded[t]] # None
            /\ bonded[t] \in Controllers /\ bonded'[t] = bonded[t]
        BY <2>6, <2>7, <3>2 DEF TypeOK, BondedHasLedger
      <4>2. bonded[t] \notin {c, old}
        BY <2>1, <3>2, <4>1
      <4> QED BY <2>6, <4>1, <4>2
    <3> QED BY <3>1, <3>2
  <2>8. ASSUME NEW k \in Controllers, ledger'[k] # None
        PROVE  bonded'[ledger'[k].stash] = k
    <3>1. CASE k = c
      BY <2>1, <2>6, <3>1
    <3>2. CASE k # c
      <4>1. k # old /\ ledger'[k] = ledger[k] /\ ledger[k] \in LedgerRecord
        BY <2>6, <2>8, <3>2 DEF TypeOK
      <4>2. ledger[k].stash \in Stashes /\ bonded[ledger[k].stash] = k
        BY <2>8, <4>1 DEF BondedHasLedger, LedgerRecord
      <4> QED BY <2>6, <4>1, <4>2
    <3> QED BY <3>1, <3>2
  <2> QED BY <2>5, <2>7, <2>8 DEF BondedHasLedger
<1>4. ASSUME NEW c \in Controllers, NEW dest \in Payees, SetPayee(c, dest)
      PROVE  TypeOK' /\ BondedHasLedger'
  <2>1. payee' \in [Stashes -> RewardDestination]
    BY <1>4 DEF SetPayee, TypeOK
  <2>2. UNCHANGED <<bonded, ledger>>
    BY <1>4 DEF SetPayee
  <2> QED BY <1>4, <2>1, <2>2 DEF SetPayee, TypeOK, ErasTypeOK, BondedHasLedger
<1> QED BY <1>1, <1>2, <1>3, <1>4

\* The calls that move money into the fund, and Root's calls, keep the types.
LEMMA OtherTypes ==
    ASSUME TypeOK, ErasTypeOK',
           \/ FinalizeBlock
           \/ \E amount \in Payments : PayFee(amount) \/ Donate(amount)
           \/ Triger
           \/ \E d \in HistoryDepths : ChangeHistoryDepth(d)
           \/ ChangeForcing
           \/ UNCHANGED vars
    PROVE  TypeOK' /\ UNCHANGED bondVars
<1> USE DEF moneyVars, rewardVars, stakerVars, historyVars, bondVars
<1>1. CASE FinalizeBlock \/ ChangeForcing \/ UNCHANGED vars
  BY <1>1 DEF FinalizeBlock, ChangeForcing, vars, TypeOK
<1>2. ASSUME NEW amount \in Payments, PayFee(amount) \/ Donate(amount)
      PROVE  TypeOK' /\ UNCHANGED bondVars
  <2>1. amount \in Nat
    BY RewardsAssumption
  <2> QED BY <1>2, <2>1 DEF PayFee, Donate, TypeOK
<1>3. CASE Triger
  BY <1>3 DEF Triger, FundAfterWallet, TypeOK
<1>4. ASSUME NEW d \in HistoryDepths, ChangeHistoryDepth(d)
      PROVE  TypeOK' /\ UNCHANGED bondVars
  <2>1. Nothing \in [Stashes -> Nat] /\ Nothing \in [Stashes -> Parts]
    BY PerbillAssumption DEF Nothing, Parts
  <2>2. [v \in Stashes |-> NoExposure] \in [Stashes -> Exposure]
    BY <2>1 DEF NoExposure, Exposure
  <2>3. /\ eras_validator_reward' \in [Era -> Nat \cup {None}]
        /\ eras_not_claimed_reward' \in [Era -> Nat]
    BY <1>4 DEF ChangeHistoryDepth, ClearRewards, Clear, TypeOK
  <2>4. /\ eras_reward_points' \in [Era -> [Stashes -> Nat]]
        /\ eras_validator_prefs' \in [Era -> [Stashes -> Parts]]
    BY <1>4, <2>1 DEF ChangeHistoryDepth, Clear, TypeOK
  <2>5. eras_stakers_clipped' \in [Era -> [Stashes -> Exposure]]
    BY <1>4, <2>2 DEF ChangeHistoryDepth, Clear, TypeOK
  <2> QED BY <1>4, <2>3, <2>4, <2>5 DEF ChangeHistoryDepth, TypeOK
<1> QED BY <1>1, <1>2, <1>3, <1>4

\* The steps, grouped by what they may change.
BlockStep ==
    \/ \E author \in Stashes \cup {None} : BeginBlockBy(author)
    \/ \E author \in Stashes \cup {None}, elected \in BOOLEAN :
         RotateBlockBy(author, elected)

PayoutStep(v, e) ==
    \/ PayoutNothing(v, e)
    \/ \E dead \in SUBSET Stashes : PayoutStakers(v, e, dead)

BondStep ==
    \/ \E s \in Stashes, c \in Controllers, dest \in Payees : Bond(s, c, dest)
    \/ \E s \in Leavers : KillStash(s)
    \/ \E s \in Stashes, c \in Controllers : SetController(s, c)
    \/ \E c \in Controllers, dest \in Payees : SetPayee(c, dest)

OtherStep ==
    \/ FinalizeBlock
    \/ \E amount \in Payments : PayFee(amount) \/ Donate(amount)
    \/ Triger
    \/ \E d \in HistoryDepths : ChangeHistoryDepth(d)
    \/ ChangeForcing
    \/ UNCHANGED vars

\* There are no other steps.
LEMMA StepCases ==
    ASSUME [Next]_vars
    PROVE  \/ BlockStep
           \/ \E v \in Stashes, e \in Era : PayoutStep(v, e)
           \/ BondStep
           \/ OtherStep
BY DEF Next, BlockStep, PayoutStep, BondStep, OtherStep

\* Every step keeps the types and the agreement of Bonded and Ledger.
LEMMA TypesStep ==
    ASSUME TypeOK, BondedHasLedger, ErasTypeOK', [Next]_vars
    PROVE  TypeOK' /\ BondedHasLedger'
<1>1. CASE BlockStep
  <2>1. UNCHANGED bondVars
    BY <1>1 DEF BlockStep, BeginBlockBy, RotateBlockBy
  <2> QED BY <1>1, <2>1, BlockTypes DEF BlockStep, bondVars, BondedHasLedger
<1>2. ASSUME NEW v \in Stashes, NEW e \in Era, PayoutStep(v, e)
      PROVE  TypeOK' /\ BondedHasLedger'
  <2>1. TypeOK'
    BY <1>2, PayoutTypes DEF PayoutStep
  <2>2. PayoutAccepted(v, e) /\ MarkClaimed(v, e) /\ UNCHANGED bonded
    BY <1>2 DEF PayoutStep, PayoutNothing, PayoutStakers
  <2>3. /\ bonded[v] \in Controllers
        /\ ledger[bonded[v]] \in LedgerRecord
        /\ ledger[bonded[v]] # None
    BY <2>2 DEF PayoutAccepted, TypeOK, BondedHasLedger
  <2>4. /\ ledger'[bonded[v]].stash = ledger[bonded[v]].stash
        /\ \A c \in Controllers \ {bonded[v]} : ledger'[c] = ledger[c]
    BY <2>2, <2>3 DEF MarkClaimed, TypeOK, LedgerRecord
  <2>5. ledger'[bonded[v]] \in LedgerRecord
    <3>1. ClaimedAfterPayout(v, e) \in SUBSET Era
      BY <2>3 DEF ClaimedAfterPayout, LedgerRecord
    <3>2. [ledger[bonded[v]] EXCEPT !.claimed_rewards = ClaimedAfterPayout(v, e)]
            \in LedgerRecord
      BY <2>3, <3>1 DEF LedgerRecord
    <3> QED BY <2>2, <2>3, <3>2 DEF MarkClaimed, TypeOK
  <2>6. ledger'[bonded[v]] # None
    BY <2>5, RewardsAssumption
  <2>7. ASSUME NEW s \in Stashes, bonded[s] # None
        PROVE  ledger'[bonded[s]] # None /\ ledger'[bonded[s]].stash = s
    BY <2>3, <2>4, <2>6, <2>7 DEF TypeOK, BondedHasLedger
  <2>8. ASSUME NEW c \in Controllers, ledger'[c] # None
        PROVE  bonded[ledger'[c].stash] = c
    BY <2>3, <2>4, <2>8 DEF BondedHasLedger
  <2> QED BY <2>1, <2>2, <2>7, <2>8 DEF BondedHasLedger
<1>3. CASE BondStep
  BY <1>3, BondTypes DEF BondStep
<1>4. CASE OtherStep
  BY <1>4, OtherTypes DEF OtherStep, bondVars, BondedHasLedger
<1> QED BY <1>1, <1>2, <1>3, <1>4, StepCases

\* The type invariant, and with it: set_controller, bond, kill_stash and
\* payout_stakers keep Bonded and Ledger in step.
THEOREM TypesHold ==
    ASSUME U32 - 1 \notin HistoryDepths
    PROVE  Spec => []TypeOK /\ []BondedHasLedger
<1> DEFINE Inv == ErasIInv /\ TypeOK /\ BondedHasLedger
<1>1. Init => Inv
  BY InitTypes, ErasInitInv DEF Init
<1>2. Inv /\ [Next]_vars => Inv'
  <2> SUFFICES ASSUME Inv, [Next]_vars PROVE Inv'
    OBVIOUS
  <2>1. ErasIInv'
    BY ClockStep, ErasNextInv
  <2>2. ErasTypeOK'
    BY <2>1 DEF ErasIInv
  <2> QED BY <2>1, <2>2, TypesStep
<1>3. Inv => TypeOK /\ BondedHasLedger
  OBVIOUS
<1> QED BY <1>1, <1>2, <1>3, PTL DEF Spec

-----------------------------------------------------------------------------
(***************************************************************************)
(* The promised rewards stay in the history window.                        *)
(***************************************************************************)

\* What is owed is owed for a promise.
OwedIsPromised ==
    \A e \in Era : eras_validator_reward[e] = None =>
                     eras_not_claimed_reward[e] = 0

\* A rotation seen from the pipeline: it ends an era exactly if the next one
\* has been planned, and clears at most the era that falls out of the window.
LEMMA RotationFacts ==
    ASSUME U32 - 1 \notin HistoryDepths, ErasIInv, NEW elected \in BOOLEAN,
           BeginBlockRotating(elected)
    PROVE  /\ active_era' = current_era
           /\ EndsEra <=> current_era = active_era + 1
           /\ ~EndsEra => current_era = active_era
           /\ history_depth' = history_depth
           /\ current_era' = IF PlansEra(elected) THEN current_era + 1
                             ELSE current_era
           /\ \A e \in Era : e \in ClearedEras(elected) <=>
                PlansEra(elected) /\ e + history_depth = current_era
<1> USE ErasAssumption DEF Era
<1>1. RotateSession(elected)
  BY DEF BeginBlockRotating
<1>2. /\ session_index \in Nat /\ session_index < MaxSession
      /\ active_era \in Nat /\ active_era <= session_index
      /\ current_era \in Nat /\ current_era <= active_era + 1
      /\ current_era >= active_era
      /\ eras_start_session_index \in [Era -> Nat \cup {None}]
      /\ history_depth \in Nat /\ history_depth \in HistoryDepths
  BY <1>1 DEF ErasIInv, ErasTypeOK, EraPipeline, RotateSession
<1>3. StartsEra <=> current_era = active_era + 1
  BY <1>2 DEF StartsEra, ErasIInv, EraPipeline, HistoryWindow
<1>4. EndsEra <=> current_era = active_era + 1
  BY <1>2 DEF EndsEra, ErasIInv, EraPipeline, HistoryWindow
<1>5. active_era' = current_era
  BY <1>1, <1>2, <1>3 DEF RotateSession
<1>6. (history_depth + 1) % U32 = history_depth + 1
  BY <1>2, DepthPlusOne
<1>7. ASSUME NEW e \in Era
      PROVE  e \in ClearedEras(elected) <=>
               PlansEra(elected) /\ e + history_depth = current_era
  <2>1. e \in ErasClearedByPlanning(current_era + 1) <=>
          e + history_depth = current_era
    BY <1>2, <1>6 DEF ErasClearedByPlanning, WrappingAdd
  <2> QED BY <2>1 DEF ClearedEras
<1> QED BY <1>1, <1>2, <1>4, <1>5, <1>7 DEF RotateSession

\* A rotation keeps the promises in the window.
LEMMA RotationClaimable ==
    ASSUME ProperDepths, ErasIInv, TypeOK, RewardsClaimable, OwedIsPromised,
           NEW author \in Stashes \cup {None}, NEW elected \in BOOLEAN,
           RotateBlockBy(author, elected)
    PROVE  RewardsClaimable' /\ OwedIsPromised'
<1> USE ErasAssumption DEF Era
<1>1. BeginBlockRotating(elected)
  BY DEF RotateBlockBy
<1>2. /\ active_era' = current_era
      /\ EndsEra <=> current_era = active_era + 1
      /\ ~EndsEra => current_era = active_era
      /\ history_depth' = history_depth
      /\ current_era' = IF PlansEra(elected) THEN current_era + 1
                        ELSE current_era
      /\ \A e \in Era : e \in ClearedEras(elected) <=>
           PlansEra(elected) /\ e + history_depth = current_era
  BY <1>1, RotationFacts DEF ProperDepths
<1>3. /\ active_era \in Era /\ active_era \in Nat /\ current_era \in Nat
      /\ history_depth \in Nat /\ history_depth >= 1
  BY DEF ErasIInv, ErasTypeOK, ProperDepths
<1>4. ASSUME NEW e \in Era
      PROVE  /\ eras_validator_reward'[e] =
                  IF e \in ClearedEras(elected) THEN None ELSE RewardsAfterEnd[e]
             /\ eras_not_claimed_reward'[e] =
                  IF e \in ClearedEras(elected) THEN 0 ELSE NotClaimedAfterEnd[e]
  BY DEF RotateBlockBy, ClearRewards, Clear
<1>5. ASSUME NEW e \in Era, RewardsAfterEnd[e] # None
      PROVE  eras_validator_reward[e] # None \/ (EndsEra /\ e = active_era)
  BY <1>3, <1>5 DEF RewardsAfterEnd, TypeOK
<1>6. RewardsClaimable'
  <2> SUFFICES ASSUME NEW e \in Era, eras_validator_reward'[e] # None
               PROVE  /\ e < active_era'
                      /\ e >= SaturatingSub(current_era', history_depth')
    BY DEF RewardsClaimable
  <2>1. e \notin ClearedEras(elected) /\ RewardsAfterEnd[e] # None
    BY <1>4
  <2>2. CASE eras_validator_reward[e] # None
    <3>1. e < active_era /\ e >= SaturatingSub(current_era, history_depth)
      BY <2>2 DEF RewardsClaimable
    <3> QED BY <1>2, <1>3, <2>1, <3>1 DEF SaturatingSub
  <2>3. CASE EndsEra /\ e = active_era
    BY <1>2, <1>3, <2>1, <2>3 DEF SaturatingSub
  <2> QED BY <1>5, <2>1, <2>2, <2>3
<1>7. OwedIsPromised'
  <2> SUFFICES ASSUME NEW e \in Era, eras_validator_reward'[e] = None
               PROVE  eras_not_claimed_reward'[e] = 0
    BY DEF OwedIsPromised
  <2>1. CASE e \in ClearedEras(elected)
    BY <1>4, <2>1
  <2>2. CASE e \notin ClearedEras(elected)
    <3>1. RewardsAfterEnd[e] = None
      BY <1>4, <2>2
    <3>2. NotClaimedAfterEnd[e] = 0
      <4>1. CASE EndsEra /\ active_start
        <5>1. EraReward # None
          <6>1. EraReward \in Nat
            BY EraRewardType
          <6> QED BY <6>1
        <5>2. e # active_era
          BY <1>3, <3>1, <4>1, <5>1 DEF RewardsAfterEnd, TypeOK
        <5> QED BY <1>3, <3>1, <4>1, <5>2 DEF RewardsAfterEnd,
                  NotClaimedAfterEnd, TypeOK, OwedIsPromised
      <4>2. CASE ~(EndsEra /\ active_start)
        BY <3>1, <4>2 DEF RewardsAfterEnd, NotClaimedAfterEnd, OwedIsPromised
      <4> QED BY <4>1, <4>2
    <3> QED BY <1>4, <2>2, <3>2
  <2> QED BY <2>1, <2>2
<1> QED BY <1>6, <1>7

\* Every step keeps the promises in the window.
LEMMA ClaimableStep ==
    ASSUME ProperDepths, ErasIInv, TypeOK, RewardsClaimable, OwedIsPromised,
           [Next]_vars
    PROVE  RewardsClaimable' /\ OwedIsPromised'
<1> USE DEF rewardVars
<1>1. ASSUME UNCHANGED rewardVars, UNCHANGED <<active_era, current_era,
                                               history_depth>>
      PROVE  RewardsClaimable' /\ OwedIsPromised'
  BY <1>1 DEF RewardsClaimable, OwedIsPromised
<1>2. CASE BlockStep
  <2>1. ASSUME NEW author \in Stashes \cup {None}, BeginBlockBy(author)
        PROVE  RewardsClaimable' /\ OwedIsPromised'
    BY <1>1, <2>1 DEF BeginBlockBy, BeginBlock
  <2> QED BY <1>2, <2>1, RotationClaimable DEF BlockStep
<1>3. ASSUME NEW v \in Stashes, NEW e \in Era, PayoutStep(v, e)
      PROVE  RewardsClaimable' /\ OwedIsPromised'
  <2>1. /\ UNCHANGED <<eras_validator_reward, active_era, current_era,
                       history_depth>>
        /\ eras_validator_reward[e] # None
        /\ \A x \in Era \ {e} :
             eras_not_claimed_reward'[x] = eras_not_claimed_reward[x]
    BY <1>3 DEF PayoutStep, PayoutNothing, PayoutStakers, PayoutAccepted,
                UpdateNotClaimedReward, eraVars, TypeOK
  <2> QED BY <2>1 DEF RewardsClaimable, OwedIsPromised
<1>4. CASE BondStep
  BY <1>1, <1>4 DEF BondStep, Bond, KillStash, SetController, SetPayee, eraVars
<1>5. CASE OtherStep
  <2>1. ASSUME NEW d \in HistoryDepths, ChangeHistoryDepth(d)
        PROVE  RewardsClaimable' /\ OwedIsPromised'
    <3>1. /\ active_era' = active_era /\ current_era' = current_era
          /\ history_depth' = d /\ d \in Nat /\ history_depth \in Nat
          /\ current_era \in Nat /\ active_era \in Nat
      BY <2>1, ErasAssumption DEF ChangeHistoryDepth, SetHistoryDepth, ErasIInv,
                                  ErasTypeOK, Era
    <3>2. ASSUME NEW e \in Era
          PROVE  /\ eras_validator_reward'[e] =
                      IF e \in ErasClearedByDepth(d) THEN None
                      ELSE eras_validator_reward[e]
                 /\ eras_not_claimed_reward'[e] =
                      IF e \in ErasClearedByDepth(d) THEN 0
                      ELSE eras_not_claimed_reward[e]
      BY <2>1 DEF ChangeHistoryDepth, ClearRewards, Clear
    <3>3. ASSUME NEW e \in Era, eras_validator_reward'[e] # None
          PROVE  e < active_era /\ e >= SaturatingSub(current_era, d)
      <4>1. /\ e \notin ErasClearedByDepth(d)
            /\ e < active_era
            /\ e >= SaturatingSub(current_era, history_depth)
        BY <3>2, <3>3 DEF RewardsClaimable
      <4> QED BY <3>1, <4>1 DEF ErasClearedByDepth, SaturatingSub, Era
    <3> QED BY <3>1, <3>2, <3>3 DEF RewardsClaimable, OwedIsPromised
  <2>2. CASE FinalizeBlock \/ ChangeForcing
    BY <1>1, <2>2 DEF FinalizeBlock, OnFinalize, ChangeForcing, ForceNoEras,
                      ForceNewEra, ForceNewEraAlways, EnsureNewEra, PutForcing
  <2>3. ASSUME NEW amount \in Payments, PayFee(amount) \/ Donate(amount)
        PROVE  RewardsClaimable' /\ OwedIsPromised'
    BY <1>1, <2>3 DEF PayFee, Donate, eraVars
  <2>4. CASE Triger \/ UNCHANGED vars
    BY <1>1, <2>4 DEF Triger, vars, eraVars
  <2> QED BY <1>5, <2>1, <2>2, <2>3, <2>4 DEF OtherStep
<1> QED BY <1>2, <1>3, <1>4, <1>5, StepCases

-----------------------------------------------------------------------------
(***************************************************************************)
(* No era is paid twice.                                                   *)
(***************************************************************************)

\* Why: an era that has been paid is over, and as long as its reward exists
\* and the validator is bonded, the ledger remembers the payout.
PaidIsRemembered ==
    \A e \in Era, v \in Stashes : payouts[e][v] >= 1 =>
        /\ e < active_era
        /\ eras_validator_reward[e] # None /\ bonded[v] # None =>
             e \in ledger[bonded[v]].claimed_rewards

\* Every step keeps it that way.
LEMMA PaidOnceStep ==
    ASSUME ProperDepths, ErasIInv, TypeOK, BondedHasLedger, RewardsClaimable,
           PaidIsRemembered, NoDoublePayout, [Next]_vars
    PROVE  PaidIsRemembered' /\ NoDoublePayout'
<1> USE RewardsAssumption
<1>1. \A e \in Era, v \in Stashes : payouts[e][v] \in Nat
  BY DEF TypeOK
<1>2. /\ active_era \in Era /\ active_era \in Nat /\ current_era \in Nat
      /\ current_era >= active_era /\ history_depth \in Nat /\ Era \subseteq Nat
  BY ErasAssumption DEF ErasIInv, ErasTypeOK, EraPipeline, Era
<1>3. ASSUME UNCHANGED <<payouts, bonded, ledger>>, active_era' \in Nat,
             active_era' >= active_era,
             \A e \in Era : eras_validator_reward'[e] # None =>
               eras_validator_reward[e] # None \/ e = active_era
      PROVE  PaidIsRemembered' /\ NoDoublePayout'
  <2>1. NoDoublePayout'
    BY <1>3 DEF NoDoublePayout
  <2>2. ASSUME NEW e \in Era, NEW v \in Stashes, payouts[e][v] >= 1
        PROVE  /\ e < active_era'
               /\ eras_validator_reward'[e] # None /\ bonded[v] # None =>
                    e \in ledger[bonded[v]].claimed_rewards
    <3>1. e < active_era
      BY <2>2 DEF PaidIsRemembered
    <3>2. eras_validator_reward'[e] # None => eras_validator_reward[e] # None
      BY <1>2, <1>3, <3>1
    <3> QED BY <1>2, <1>3, <2>2, <3>1, <3>2 DEF PaidIsRemembered
  <2> QED BY <1>3, <2>1, <2>2 DEF PaidIsRemembered
<1>4. CASE BlockStep
  <2>1. ASSUME NEW author \in Stashes \cup {None}, BeginBlockBy(author)
        PROVE  PaidIsRemembered' /\ NoDoublePayout'
    BY <1>2, <1>3, <2>1 DEF BeginBlockBy, BeginBlock, bondVars, historyVars,
                            rewardVars
  <2>2. ASSUME NEW author \in Stashes \cup {None}, NEW elected \in BOOLEAN,
               RotateBlockBy(author, elected)
        PROVE  PaidIsRemembered' /\ NoDoublePayout'
    <3>1. UNCHANGED <<payouts, bonded, ledger>> /\ BeginBlockRotating(elected)
      BY <2>2 DEF RotateBlockBy, bondVars, historyVars
    <3>2. active_era' = current_era
      BY <3>1, RotationFacts DEF ProperDepths
    <3>3. ASSUME NEW e \in Era, eras_validator_reward'[e] # None
          PROVE  eras_validator_reward[e] # None \/ e = active_era
      <4>1. RewardsAfterEnd[e] # None
        BY <2>2, <3>3 DEF RotateBlockBy, ClearRewards, Clear
      <4> QED BY <1>2, <4>1 DEF RewardsAfterEnd, TypeOK
    <3> QED BY <1>2, <1>3, <3>1, <3>2, <3>3
  <2> QED BY <1>4, <2>1, <2>2 DEF BlockStep
<1>5. ASSUME NEW v \in Stashes, NEW e \in Era, PayoutStep(v, e)
      PROVE  PaidIsRemembered' /\ NoDoublePayout'
  <2>1. /\ PayoutAccepted(v, e) /\ MarkClaimed(v, e)
        /\ payouts' = [payouts EXCEPT ![e][v] = @ + 1]
        /\ UNCHANGED <<bonded, active_era, eras_validator_reward>>
    BY <1>5 DEF PayoutStep, PayoutNothing, PayoutStakers, eraVars, rewardVars
  <2>2. /\ bonded[v] \in Controllers /\ ledger[bonded[v]] \in LedgerRecord
        /\ eras_validator_reward[e] # None
        /\ e \notin ledger[bonded[v]].claimed_rewards
    BY <2>1 DEF PayoutAccepted, TypeOK, BondedHasLedger
  <2>3. payouts[e][v] = 0
    BY <1>1, <2>1, <2>2 DEF PaidIsRemembered, PayoutAccepted
  <2>4. /\ payouts'[e][v] = 1
        /\ \A x \in Era, s \in Stashes :
             x # e \/ s # v => payouts'[x][s] = payouts[x][s]
    BY <2>1, <2>3 DEF TypeOK
  <2>5. NoDoublePayout'
    BY <2>4 DEF NoDoublePayout
  <2>6. /\ ledger'[bonded[v]].claimed_rewards = ClaimedAfterPayout(v, e)
        /\ \A c \in Controllers \ {bonded[v]} : ledger'[c] = ledger[c]
    BY <2>1, <2>2 DEF MarkClaimed, TypeOK, LedgerRecord
  <2>7. ASSUME NEW x \in Era, NEW s \in Stashes, payouts'[x][s] >= 1
        PROVE  /\ x < active_era
               /\ eras_validator_reward[x] # None /\ bonded[s] # None =>
                    x \in ledger'[bonded[s]].claimed_rewards
    <3>1. CASE x = e /\ s = v
      BY <2>2, <2>6, <3>1 DEF RewardsClaimable, ClaimedAfterPayout
    <3>2. CASE x # e \/ s # v
      <4>1. /\ x < active_era
            /\ eras_validator_reward[x] # None /\ bonded[s] # None =>
                 x \in ledger[bonded[s]].claimed_rewards
        BY <2>4, <2>7, <3>2 DEF PaidIsRemembered
      <4>2. CASE bonded[s] = bonded[v]
        BY <2>6, <4>1, <4>2 DEF ClaimedAfterPayout, RewardsClaimable
      <4>3. CASE bonded[s] # bonded[v]
        BY <2>6, <4>1, <4>3 DEF TypeOK
      <4> QED BY <4>2, <4>3
    <3> QED BY <3>1, <3>2
  <2> QED BY <2>1, <2>5, <2>7 DEF PaidIsRemembered
<1>6. CASE BondStep
  <2>1. UNCHANGED <<payouts, active_era, eras_validator_reward>>
    BY <1>6 DEF BondStep, Bond, KillStash, SetController, SetPayee, eraVars,
                historyVars, rewardVars
  <2>2. NoDoublePayout'
    BY <2>1 DEF NoDoublePayout
  <2>3. SUFFICES ASSUME NEW e \in Era, NEW v \in Stashes, payouts[e][v] >= 1,
                        eras_validator_reward[e] # None, bonded'[v] # None
                 PROVE  e \in ledger'[bonded'[v]].claimed_rewards
    BY <2>1, <2>2 DEF PaidIsRemembered
  <2>4. /\ e < active_era
        /\ bonded[v] # None => e \in ledger[bonded[v]].claimed_rewards
        /\ e >= SaturatingSub(current_era, history_depth)
    BY <2>3 DEF PaidIsRemembered, RewardsClaimable
  <2>5. ASSUME NEW s \in Stashes, NEW c \in Controllers, NEW dest \in Payees,
               Bond(s, c, dest)
        PROVE  e \in ledger'[bonded'[v]].claimed_rewards
    <3>1. CASE v = s
      <4>1. /\ bonded'[v] = c
            /\ ledger'[c].claimed_rewards =
                 {x \in Era : /\ SaturatingSub(current_era, history_depth) <= x
                              /\ x < current_era}
        BY <2>5, <3>1 DEF Bond, TypeOK
      <4>2. SaturatingSub(current_era, history_depth) <= e /\ e < current_era
        BY <1>2, <2>4 DEF SaturatingSub
      <4> QED BY <4>1, <4>2
    <3>2. CASE v # s
      <4>1. /\ bonded'[v] = bonded[v] /\ bonded[v] \in Controllers
            /\ ledger[c] = None
        BY <2>3, <2>5, <3>2 DEF Bond, TypeOK
      <4>2. bonded[v] # c
        BY <2>3, <4>1 DEF BondedHasLedger
      <4>3. ledger'[bonded[v]] = ledger[bonded[v]]
        BY <2>5, <4>1, <4>2 DEF Bond, TypeOK
      <4> QED BY <2>3, <2>4, <4>1, <4>3
    <3> QED BY <3>1, <3>2
  <2>6. ASSUME NEW s \in Leavers, KillStash(s)
        PROVE  e \in ledger'[bonded'[v]].claimed_rewards
    <3>1. v # s /\ bonded'[v] = bonded[v] /\ bonded[s] # None
      BY <2>3, <2>6 DEF KillStash, TypeOK
    <3>2. bonded[v] # bonded[s] /\ bonded[v] \in Controllers
      BY <2>3, <3>1 DEF BondedHasLedger, TypeOK
    <3>3. ledger'[bonded[v]] = ledger[bonded[v]]
      BY <2>6, <3>2 DEF KillStash, TypeOK
    <3> QED BY <2>3, <2>4, <3>1, <3>3
  <2>7. ASSUME NEW s \in Stashes, NEW c \in Controllers, SetController(s, c)
        PROVE  e \in ledger'[bonded'[v]].claimed_rewards
    <3>1. /\ bonded[s] \in Controllers /\ ledger[c] = None
          /\ ledger[bonded[s]] # None /\ ledger[bonded[s]].stash = s
          /\ bonded' = [bonded EXCEPT ![s] = c]
          /\ ledger' = [ledger EXCEPT ![bonded[s]] = None,
                                      ![c] = ledger[bonded[s]]]
      BY <2>7 DEF SetController, TypeOK, BondedHasLedger
    <3>2. CASE v = s
      <4>1. bonded'[v] = c /\ ledger'[c] = ledger[bonded[v]] /\ bonded[v] # None
        BY <3>1, <3>2 DEF TypeOK
      <4> QED BY <2>4, <4>1
    <3>3. CASE v # s
      <4>1. bonded'[v] = bonded[v] /\ bonded[v] \in Controllers
        BY <2>3, <3>1, <3>3 DEF TypeOK
      <4>2. ledger[bonded[v]] # None /\ ledger[bonded[v]].stash = v
        BY <4>1 DEF BondedHasLedger
      <4>3. bonded[v] # c /\ bonded[v] # bonded[s]
        BY <3>1, <3>3, <4>2
      <4>4. ledger'[bonded[v]] = ledger[bonded[v]]
        BY <3>1, <4>1, <4>3 DEF TypeOK
      <4> QED BY <2>3, <2>4, <4>1, <4>4
    <3> QED BY <3>2, <3>3
  <2>8. ASSUME NEW c \in Controllers, NEW dest \in Payees, SetPayee(c, dest)
        PROVE  e \in ledger'[bonded'[v]].claimed_rewards
    BY <2>3, <2>4, <2>8 DEF SetPayee
  <2> QED BY <1>6, <2>5, <2>6, <2>7, <2>8 DEF BondStep
<1>7. CASE OtherStep
  <2>1. /\ UNCHANGED <<payouts, bonded, ledger>>
        /\ active_era' = active_era
        /\ \A e \in Era : eras_validator_reward'[e] # None =>
             eras_validator_reward[e] # None
    <3>1. ASSUME NEW d \in HistoryDepths, ChangeHistoryDepth(d)
          PROVE  <2>1!1 /\ <2>1!2 /\ <2>1!3
      BY <3>1 DEF ChangeHistoryDepth, SetHistoryDepth, ClearRewards, Clear,
                  bondVars, historyVars
    <3>2. CASE FinalizeBlock \/ ChangeForcing \/ Triger \/ UNCHANGED vars
      BY <3>2 DEF FinalizeBlock, OnFinalize, ChangeForcing, ForceNoEras,
                  ForceNewEra, ForceNewEraAlways, EnsureNewEra, PutForcing,
                  Triger, vars, eraVars, bondVars, historyVars, rewardVars
    <3>3. ASSUME NEW amount \in Payments, PayFee(amount) \/ Donate(amount)
          PROVE  <2>1!1 /\ <2>1!2 /\ <2>1!3
      BY <3>3 DEF PayFee, Donate, eraVars, bondVars, historyVars, rewardVars
    <3> QED BY <1>7, <3>1, <3>2, <3>3 DEF OtherStep
  <2> QED BY <1>2, <1>3, <2>1
<1> QED BY <1>4, <1>5, <1>6, <1>7, StepCases

-----------------------------------------------------------------------------
(***************************************************************************)
(* The fund covers what is owed.                                           *)
(***************************************************************************)

\* get_total_not_claimed_reward sums up everything that is owed when end_era
\* asks: every promise that still exists lies in its window.
LEMMA WindowIsComplete ==
    ASSUME ProperDepths, ErasIInv, TypeOK, RewardsClaimable, OwedIsPromised,
           current_era = active_era + 1
    PROVE  Total(eras_not_claimed_reward, Era)
             = Total(eras_not_claimed_reward, NotClaimedWindow)
<1>1. /\ active_era \in Nat /\ Era \subseteq Nat /\ U32 \in Nat
      /\ history_depth \in 1..(U32 - 1)
  BY ErasAssumption DEF ErasIInv, ErasTypeOK, ProperDepths, Era
<1>2. (history_depth - 1) % U32 = history_depth - 1
  BY <1>1
<1>3. NotClaimedWindow \in SUBSET Era
  BY DEF NotClaimedWindow
<1>4. ASSUME NEW e \in Era \ NotClaimedWindow
      PROVE  eras_not_claimed_reward[e] = 0
  <2>1. SUFFICES ASSUME eras_validator_reward[e] # None PROVE FALSE
    BY DEF OwedIsPromised
  <2>2. e < active_era /\ e >= SaturatingSub(active_era + 1, history_depth)
    BY <2>1 DEF RewardsClaimable
  <2>3. SaturatingSub(active_era, history_depth - 1) <= e
    BY <1>1, <2>2 DEF SaturatingSub
  <2> QED BY <1>2, <1>4, <2>2, <2>3 DEF NotClaimedWindow, WrappingSub
<1>5. eras_not_claimed_reward \in [Era -> Nat]
  BY DEF TypeOK
<1>6. \A e \in Era \ NotClaimedWindow : eras_not_claimed_reward[e] = 0
  BY <1>4
<1> QED BY ONLY <1>3, <1>5, <1>6, TotalIgnoresZero

\* end_era promises all the fund can bear and no more.
LEMMA EndEraPromises ==
    ASSUME ProperDepths, ErasIInv, TypeOK, RewardsClaimable, OwedIsPromised,
           FundCoversRewards, current_era = active_era + 1, EndsEra,
           active_start
    PROVE  /\ Total(NotClaimedAfterEnd, Era) \in Nat
           /\ FundAfterWallet >= ExistentialDeposit
           /\ FundAfterWallet + excess >=
                ExistentialDeposit + Total(NotClaimedAfterEnd, Era)
           /\ FundAfterWallet <=
                ExistentialDeposit + Total(NotClaimedAfterEnd, Era)
<1> DEFINE F == FundAfterWallet
           T == Total(eras_not_claimed_reward, Era)
           A == Total(NotClaimedAfterEnd, Era)
<1>1. /\ F \in Nat /\ fund \in Nat /\ F >= fund /\ excess \in Nat
      /\ EraReward \in Nat /\ ExistentialDeposit \in Nat
  BY EraRewardType, RewardsAssumption DEF FundAfterWallet, TypeOK
<1>2. T \in Nat
  BY EraFinite, TotalType DEF TypeOK
<1>3. EraReward = SaturatingSub(SaturatingSub(F, ExistentialDeposit), T)
  BY WindowIsComplete DEF EraReward
<1>4. eras_not_claimed_reward[active_era] = 0 /\ active_era \in Era
  BY ErasAssumption DEF RewardsClaimable, OwedIsPromised, ErasIInv, ErasTypeOK,
                        Era
<1>5. A = T - eras_not_claimed_reward[active_era] + EraReward
  <2> DEFINE N == NotClaimedAfterEnd
  <2>1. /\ eras_not_claimed_reward \in [Era -> Nat]
        /\ N \in [Era -> Nat]
        /\ N[active_era] = EraReward
        /\ \A e \in Era \ {active_era} : eras_not_claimed_reward[e] = N[e]
    BY <1>1, <1>4 DEF NotClaimedAfterEnd, TypeOK
  <2> HIDE DEF N
  <2>2. Total(N, Era) = T - eras_not_claimed_reward[active_era] + N[active_era]
    BY ONLY <1>4, <2>1, EraFinite, TotalUpdate
  <2> QED BY <2>1, <2>2 DEF N
<1>6. fund >= ExistentialDeposit /\ fund + excess >= ExistentialDeposit + T
  BY DEF FundCoversRewards
<1> HIDE DEF F, T, A
<1>7. A = T + EraReward
  BY <1>2, <1>4, <1>5, <1>1
<1>8. /\ A \in Nat /\ F >= ExistentialDeposit
      /\ F + excess >= ExistentialDeposit + A
      /\ F <= ExistentialDeposit + A
  BY <1>1, <1>2, <1>3, <1>6, <1>7 DEF SaturatingSub
<1> QED BY <1>8 DEF F, A

\* Clearing eras only lowers what is owed.
LEMMA ClearingLowers ==
    ASSUME NEW owed \in [Era -> Nat], NEW cleared,
           eras_not_claimed_reward' = Clear(owed, cleared, 0)
    PROVE  /\ Total(eras_not_claimed_reward, Era)' \in Nat
           /\ Total(eras_not_claimed_reward, Era)' <= Total(owed, Era)
<1> DEFINE left == Clear(owed, cleared, 0)
<1>1. left \in [Era -> Nat] /\ \A e \in Era : left[e] <= owed[e]
  BY DEF Clear
<1> HIDE DEF left
<1>2. Total(left, Era) \in Nat /\ Total(left, Era) <= Total(owed, Era)
  BY <1>1, EraFinite, TotalType, TotalMonotone
<1>3. Total(eras_not_claimed_reward, Era)' = Total(left, Era)
  BY DEF left, Total, Units
<1> QED BY <1>2, <1>3

\* A payout takes from the fund what it takes off the debt, and the excess is
\* what it takes beyond.
LEMMA PayoutCovered ==
    ASSUME TypeOK, FundCoversRewards, NEW v \in Stashes, NEW e \in Era,
           NEW dead \in SUBSET Stashes, PayoutStakers(v, e, dead), TypeOK'
    PROVE  FundCoversRewards'
<1> DEFINE value == PayoutValue(Due(v, e), dead)
           T == Total(eras_not_claimed_reward, Era)
           n == eras_not_claimed_reward[e]
<1>1. value \in Nat
  BY DueType, PayoutValueType DEF PayoutStakers, PayoutAccepted
<1>2. /\ CanSettle(value)
      /\ fund' = fund - value
      /\ eras_not_claimed_reward'[e] = SaturatingSub(n, value)
      /\ \A x \in Era \ {e} :
           eras_not_claimed_reward[x] = eras_not_claimed_reward'[x]
      /\ excess' = excess + SaturatingSub(value, n)
  BY DEF PayoutStakers, UpdateNotClaimedReward, TypeOK
<1>3. /\ n \in Nat /\ T \in Nat /\ fund \in Nat /\ excess \in Nat
      /\ fund >= ExistentialDeposit /\ ExistentialDeposit \in Nat
      /\ fund + excess >= ExistentialDeposit + T
  <2>1. T \in Nat
    BY EraFinite, TotalType DEF TypeOK
  <2> QED BY <2>1, RewardsAssumption DEF TypeOK, FundCoversRewards
<1>4. Total(eras_not_claimed_reward', Era)
        = T - n + eras_not_claimed_reward'[e]
  <2>1. /\ eras_not_claimed_reward \in [Era -> Nat]
        /\ eras_not_claimed_reward' \in [Era -> Nat]
    BY DEF TypeOK
  <2> QED BY ONLY <1>2, <2>1, EraFinite, TotalUpdate
<1> DEFINE left == Total(eras_not_claimed_reward', Era)
<1> HIDE DEF value, T, n
<1>5. fund' \in Nat /\ fund' >= ExistentialDeposit
  BY <1>1, <1>2, <1>3, SettleBound
<1>6. left = T - n + SaturatingSub(n, value)
  BY <1>2, <1>4
<1> HIDE DEF left
<1>7. fund' + excess' >= ExistentialDeposit + left
  BY <1>1, <1>2, <1>3, <1>6 DEF SaturatingSub
<1> QED BY <1>5, <1>7 DEF FundCoversRewards, left

\* More money, or less debt, covers as well.
LEMMA StillCovers ==
    \A f, g, x, d, t, u \in Nat :
        g >= f /\ f >= d /\ f + x >= d + t /\ u <= t =>
          g >= d /\ g + x >= d + u
OBVIOUS

\* Every step keeps the fund solvent.
LEMMA FundStep ==
    ASSUME ProperDepths, ErasIInv, TypeOK, RewardsClaimable, OwedIsPromised,
           FundCoversRewards, TypeOK', [Next]_vars
    PROVE  FundCoversRewards'
<1> USE DEF moneyVars, rewardVars, historyVars
<1> DEFINE T == Total(eras_not_claimed_reward, Era)
<1>1. /\ T \in Nat /\ fund \in Nat /\ excess \in Nat /\ wallet \in Nat
      /\ ExistentialDeposit \in Nat
  <2>1. T \in Nat
    BY EraFinite, TotalType DEF TypeOK
  <2> QED BY <2>1, RewardsAssumption DEF TypeOK
<1>2. ASSUME UNCHANGED <<eras_not_claimed_reward, excess>>, fund' \in Nat,
             fund' >= fund
      PROVE  FundCoversRewards'
  <2>1. Total(eras_not_claimed_reward', Era) = T
    BY <1>2
  <2>2. fund >= ExistentialDeposit /\ fund + excess >= ExistentialDeposit + T
    BY DEF FundCoversRewards
  <2>3. fund' >= ExistentialDeposit /\ fund' + excess >= ExistentialDeposit + T
    <3>1. /\ T \in Nat /\ fund \in Nat /\ excess \in Nat /\ fund' \in Nat
          /\ fund' >= fund /\ ExistentialDeposit \in Nat
      BY <1>1, <1>2
    <3> HIDE DEF T
    <3>2. T <= T
      BY <3>1
    <3> HIDE DEF T
    <3> QED BY ONLY <2>2, <3>1, <3>2, StillCovers
  <2> QED BY <1>2, <2>1, <2>3 DEF FundCoversRewards
<1>3. ASSUME NEW owed \in [Era -> Nat], NEW cleared,
             eras_not_claimed_reward' = Clear(owed, cleared, 0),
             UNCHANGED excess, fund' \in Nat, fund' >= ExistentialDeposit,
             fund' + excess >= ExistentialDeposit + Total(owed, Era)
      PROVE  FundCoversRewards'
  <2> DEFINE left == Total(eras_not_claimed_reward', Era)
             all == Total(owed, Era)
  <2>1. left \in Nat /\ left <= all
    BY <1>3, ClearingLowers
  <2>2. all \in Nat
    BY EraFinite, TotalType
  <2>3. fund' + excess >= ExistentialDeposit + left
    <3>1. /\ fund' + excess >= ExistentialDeposit + all
          /\ fund' \in Nat /\ excess \in Nat /\ ExistentialDeposit \in Nat
      BY <1>1, <1>3
    <3> HIDE DEF left, all
    <3>2. fund' >= fund' /\ fund' >= ExistentialDeposit
      BY <1>3, <3>1
    <3> QED BY ONLY <2>1, <2>2, <3>1, <3>2, StillCovers
  <2> QED BY <1>3, <2>3 DEF FundCoversRewards
<1>4. CASE BlockStep
  <2>1. ASSUME NEW author \in Stashes \cup {None}, BeginBlockBy(author)
        PROVE  FundCoversRewards'
    <3>1. UNCHANGED <<eras_not_claimed_reward, excess, fund>>
      BY <2>1 DEF BeginBlockBy
    <3> QED BY <1>1, <1>2, <3>1
  <2>2. ASSUME NEW author \in Stashes \cup {None}, NEW elected \in BOOLEAN,
               RotateBlockBy(author, elected)
        PROVE  FundCoversRewards'
    <3>1. /\ BeginBlockRotating(elected) /\ MoneyAfterEnd /\ UNCHANGED excess
          /\ eras_not_claimed_reward' =
               Clear(NotClaimedAfterEnd, ClearedEras(elected), 0)
      BY <2>2 DEF RotateBlockBy, ClearRewards
    <3>2. CASE EndsEra /\ active_start
      <4>1. current_era = active_era + 1
        BY <3>1, <3>2, RotationFacts DEF ProperDepths
      <4>2. /\ FundAfterWallet >= ExistentialDeposit
            /\ FundAfterWallet + excess >=
                 ExistentialDeposit + Total(NotClaimedAfterEnd, Era)
        BY <3>2, <4>1, EndEraPromises
      <4>3. fund' = FundAfterWallet /\ FundAfterWallet \in Nat
        BY <3>1, <3>2, EraRewardType DEF MoneyAfterEnd
      <4>4. NotClaimedAfterEnd \in [Era -> Nat]
        BY EraRewardType DEF NotClaimedAfterEnd, TypeOK
      <4> QED BY <1>3, <3>1, <4>2, <4>3, <4>4
    <3>3. CASE ~(EndsEra /\ active_start)
      <4>1. NotClaimedAfterEnd = eras_not_claimed_reward /\ fund' = fund
        BY <3>1, <3>3 DEF NotClaimedAfterEnd, MoneyAfterEnd
      <4>2. /\ eras_not_claimed_reward' =
                 Clear(eras_not_claimed_reward, ClearedEras(elected), 0)
            /\ eras_not_claimed_reward \in [Era -> Nat]
        BY <3>1, <4>1 DEF TypeOK
      <4>3. /\ fund' >= ExistentialDeposit
            /\ fund' + excess >=
                 ExistentialDeposit + Total(eras_not_claimed_reward, Era)
        BY <4>1 DEF FundCoversRewards
      <4> QED BY <1>1, <1>3, <3>1, <4>1, <4>2, <4>3
    <3> QED BY <3>2, <3>3
  <2> QED BY <1>4, <2>1, <2>2 DEF BlockStep
<1>5. ASSUME NEW v \in Stashes, NEW e \in Era, PayoutStep(v, e)
      PROVE  FundCoversRewards'
  <2>1. CASE PayoutNothing(v, e)
    <3>1. UNCHANGED <<eras_not_claimed_reward, excess, fund>>
      BY <2>1 DEF PayoutNothing
    <3> QED BY <1>1, <1>2, <3>1
  <2> QED BY <1>5, <2>1, PayoutCovered DEF PayoutStep
<1>6. CASE BondStep
  <2>1. UNCHANGED <<eras_not_claimed_reward, excess, fund>>
    BY <1>6 DEF BondStep, Bond, KillStash, SetController, SetPayee
  <2> QED BY <1>1, <1>2, <2>1
<1>7. CASE OtherStep
  <2>1. ASSUME NEW d \in HistoryDepths, ChangeHistoryDepth(d)
        PROVE  FundCoversRewards'
    <3>1. /\ eras_not_claimed_reward' =
               Clear(eras_not_claimed_reward, ErasClearedByDepth(d), 0)
          /\ eras_not_claimed_reward \in [Era -> Nat]
          /\ UNCHANGED <<fund, excess>>
      BY <2>1 DEF ChangeHistoryDepth, ClearRewards, TypeOK
    <3>2. /\ fund' >= ExistentialDeposit
          /\ fund' + excess >=
               ExistentialDeposit + Total(eras_not_claimed_reward, Era)
      BY <3>1 DEF FundCoversRewards
    <3> QED BY <1>1, <1>3, <3>1, <3>2
  <2>2. CASE FinalizeBlock \/ ChangeForcing \/ Triger \/ UNCHANGED vars
    <3>1. /\ UNCHANGED <<eras_not_claimed_reward, excess>>
          /\ fund' \in Nat /\ fund' >= fund
      BY <1>1, <2>2 DEF FinalizeBlock, ChangeForcing, Triger, FundAfterWallet,
                        vars
    <3> QED BY <1>2, <3>1
  <2>3. ASSUME NEW amount \in Payments, PayFee(amount) \/ Donate(amount)
        PROVE  FundCoversRewards'
    <3>1. amount \in Nat
      BY RewardsAssumption
    <3>2. /\ UNCHANGED <<eras_not_claimed_reward, excess>>
          /\ fund' \in Nat /\ fund' >= fund
      BY <1>1, <2>3, <3>1 DEF PayFee, Donate
    <3> QED BY <1>2, <3>2
  <2> QED BY <1>7, <2>1, <2>2, <2>3 DEF OtherStep
<1> QED BY <1>4, <1>5, <1>6, <1>7, StepCases

-----------------------------------------------------------------------------
(***************************************************************************)
(* The inductive invariant and what follows from it.                       *)
(***************************************************************************)

\* NoDoublePayout rests on PaidIsRemembered, which rests on RewardsClaimable
\* (claimed_rewards is pruned to the window); FundCoversRewards rests on
\* RewardsClaimable and OwedIsPromised (the sum end_era takes is complete).
RewardsIInv ==
    /\ ErasIInv
    /\ StartedBetweenBlocks
    /\ TypeOK
    /\ BondedHasLedger
    /\ RewardsClaimable
    /\ OwedIsPromised
    /\ PaidIsRemembered
    /\ NoDoublePayout
    /\ FundCoversRewards

\* Genesis establishes the inductive invariant.
LEMMA InitRewardsIInv == Init => RewardsIInv
<1> SUFFICES ASSUME Init PROVE RewardsIInv
  OBVIOUS
<1>1. ErasIInv /\ StartedBetweenBlocks
  BY ErasInitInv DEF Init, ErasInit, StartedBetweenBlocks
<1>2. TypeOK /\ BondedHasLedger
  BY InitTypes
<1>3. /\ eras_validator_reward = [e \in Era |-> None]
      /\ eras_not_claimed_reward = [e \in Era |-> 0]
      /\ payouts = [e \in Era |-> Nothing]
      /\ fund = ExistentialDeposit
      /\ excess = 0
  BY DEF Init
<1>4. RewardsClaimable /\ OwedIsPromised
  BY <1>3 DEF RewardsClaimable, OwedIsPromised
<1>5. PaidIsRemembered /\ NoDoublePayout
  BY <1>3 DEF PaidIsRemembered, NoDoublePayout, Nothing
<1>6. FundCoversRewards
  <2>1. Total(eras_not_claimed_reward, Era)
          = Total(eras_not_claimed_reward, {})
    <3>1. /\ eras_not_claimed_reward \in [Era -> Nat]
          /\ \A e \in Era \ {} : eras_not_claimed_reward[e] = 0
          /\ {} \in SUBSET Era
      BY <1>3
    <3> QED BY ONLY <3>1, TotalIgnoresZero
  <2>2. Total(eras_not_claimed_reward, {}) = 0
    <3>1. Units(eras_not_claimed_reward, {}) = {}
      BY DEF Units
    <3> QED BY <3>1, FS_EmptySet DEF Total
  <2> QED BY <1>3, <2>1, <2>2, RewardsAssumption DEF FundCoversRewards
<1> QED BY <1>1, <1>2, <1>4, <1>5, <1>6 DEF RewardsIInv

\* Every step preserves it.
LEMMA RewardsIInvStep ==
    ASSUME ProperDepths, RewardsIInv, [Next]_vars
    PROVE  RewardsIInv'
<1> USE DEF RewardsIInv
<1>1. ErasIInv'
  BY ClockStep, ErasNextInv DEF ProperDepths
<1>2. StartedBetweenBlocks'
  <2>1. [ErasNext]_eraVars
    BY ClockStep
  <2> QED BY <2>1 DEF StartedBetweenBlocks, ErasNext, eraVars, BeginBlock,
             BeginBlockRotating, RotateSession, OnFinalize, SetHistoryDepth,
             ForceNoEras, ForceNewEra, ForceNewEraAlways, EnsureNewEra,
             PutForcing
<1>3. TypeOK' /\ BondedHasLedger'
  BY <1>1, TypesStep DEF ErasIInv
<1>4. RewardsClaimable' /\ OwedIsPromised'
  BY ClaimableStep
<1>5. PaidIsRemembered' /\ NoDoublePayout'
  BY PaidOnceStep
<1>6. FundCoversRewards'
  BY <1>3, FundStep
<1> QED BY <1>1, <1>2, <1>3, <1>4, <1>5, <1>6

\* The inductive invariant holds.
THEOREM RewardsInvariant ==
    ASSUME ProperDepths
    PROVE  Spec => []RewardsIInv
<1>1. RewardsIInv /\ [Next]_vars => RewardsIInv'
  BY RewardsIInvStep
<1> QED BY <1>1, InitRewardsIInv, PTL DEF Spec

\* payout_stakers never pays a validator twice for an era, through rebonding,
\* changes of the controller and changes of the history depth.
THEOREM NeverPaidTwice ==
    ASSUME ProperDepths
    PROVE  Spec => []NoDoublePayout
<1>1. RewardsIInv => NoDoublePayout
  BY DEF RewardsIInv
<1> QED BY <1>1, RewardsInvariant, PTL

\* The fund keeps its existential deposit and covers everything end_era has
\* promised and payout_stakers has not paid, up to the recorded excess.
THEOREM FundIsSolvent ==
    ASSUME ProperDepths
    PROVE  Spec => []FundCoversRewards
<1>1. RewardsIInv => FundCoversRewards
  BY DEF RewardsIInv
<1> QED BY <1>1, RewardsInvariant, PTL

\* A reward in ErasValidatorReward is never outside the window in which
\* payout_stakers accepts it.
THEOREM PromisesStayClaimable ==
    ASSUME ProperDepths
    PROVE  Spec => []RewardsClaimable
<1>1. RewardsIInv => RewardsClaimable
  BY DEF RewardsIInv
<1> QED BY <1>1, RewardsInvariant, PTL

\* An era ends only in a rotation, with a start time and with the next era
\* planned.
LEMMA EraEnds ==
    ASSUME ProperDepths, RewardsIInv, [Next]_vars, active_era' # active_era
    PROVE  \E author \in Stashes \cup {None}, elected \in BOOLEAN :
             /\ RotateBlockBy(author, elected)
             /\ EndsEra /\ active_start /\ current_era = active_era + 1
<1> USE DEF RewardsIInv
<1>1. \E author \in Stashes \cup {None}, elected \in BOOLEAN :
        RotateBlockBy(author, elected)
  <2>1. CASE BlockStep
    BY <2>1 DEF BlockStep, BeginBlockBy, BeginBlock
  <2>2. ASSUME NEW v \in Stashes, NEW e \in Era, PayoutStep(v, e)
        PROVE  FALSE
    BY <2>2 DEF PayoutStep, PayoutNothing, PayoutStakers, eraVars
  <2>3. CASE BondStep
    BY <2>3 DEF BondStep, Bond, KillStash, SetController, SetPayee, eraVars
  <2>4. CASE OtherStep
    BY <2>4 DEF OtherStep, FinalizeBlock, OnFinalize, PayFee, Donate, Triger,
                ChangeHistoryDepth, SetHistoryDepth, ChangeForcing, ForceNoEras,
                ForceNewEra, ForceNewEraAlways, EnsureNewEra, PutForcing, vars,
                eraVars
  <2> QED BY <2>1, <2>2, <2>3, <2>4, StepCases
<1>2. PICK author \in Stashes \cup {None}, elected \in BOOLEAN :
        RotateBlockBy(author, elected)
  BY <1>1
<1>3. BeginBlockRotating(elected) /\ active_start
  BY <1>2 DEF RotateBlockBy, BeginBlockRotating, StartedBetweenBlocks
<1>4. EndsEra /\ current_era = active_era + 1
  <2>1. /\ active_era' = current_era
        /\ EndsEra <=> current_era = active_era + 1
        /\ ~EndsEra => current_era = active_era
    BY <1>3, RotationFacts DEF ProperDepths
  <2> QED BY <2>1
<1> QED BY <1>2, <1>3, <1>4

\* end_era records a reward for every era that ends; it is gone again at once
\* only if the history is one era deep.
THEOREM EndedErasAreRewarded ==
    ASSUME ProperDepths
    PROVE  Spec => EndedEraIsRewarded
<1>1. ASSUME RewardsIInv, [Next]_vars
      PROVE  [active_era' # active_era =>
                \/ eras_validator_reward'[active_era] # None
                \/ active_era < SaturatingSub(current_era', history_depth)]_vars
  <2> SUFFICES ASSUME active_era' # active_era,
                      eras_validator_reward'[active_era] = None
               PROVE  active_era < SaturatingSub(current_era', history_depth)
    OBVIOUS
  <2>1. PICK author \in Stashes \cup {None}, elected \in BOOLEAN :
          /\ RotateBlockBy(author, elected)
          /\ EndsEra /\ active_start /\ current_era = active_era + 1
    BY <1>1, EraEnds
  <2>2. /\ active_era \in Era /\ active_era \in Nat
        /\ history_depth \in Nat /\ EraReward # None
    BY <1>1, EraRewardType, ErasAssumption DEF RewardsIInv, ErasIInv,
       ErasTypeOK, Era
  <2>3. RewardsAfterEnd[active_era] = EraReward
    BY <1>1, <2>1, <2>2 DEF RewardsAfterEnd, RewardsIInv, TypeOK
  <2>4. active_era \in ClearedEras(elected)
    BY <2>1, <2>2, <2>3 DEF RotateBlockBy, ClearRewards, Clear
  <2>5. current_era' = current_era + 1 /\ active_era + history_depth = current_era
    <3>1. BeginBlockRotating(elected) /\ ErasIInv
      BY <1>1, <2>1 DEF RotateBlockBy, RewardsIInv
    <3> QED BY <2>2, <2>4, <3>1, RotationFacts DEF ProperDepths
  <2> QED BY <2>1, <2>2, <2>5 DEF SaturatingSub
<1> QED BY <1>1, RewardsInvariant, PTL DEF Spec, EndedEraIsRewarded

\* When an era ends nothing beyond the existential deposit is left in the fund
\* that is not promised to some era.
THEOREM NothingLiesIdle ==
    ASSUME ProperDepths
    PROVE  Spec => FundFullyPromised
<1>1. ASSUME RewardsIInv, [Next]_vars
      PROVE  [active_era' # active_era =>
                fund' <= ExistentialDeposit + Total(NotClaimedAfterEnd, Era)]_vars
  <2> SUFFICES ASSUME active_era' # active_era
               PROVE  fund' <= ExistentialDeposit + Total(NotClaimedAfterEnd, Era)
    OBVIOUS
  <2>1. PICK author \in Stashes \cup {None}, elected \in BOOLEAN :
          /\ RotateBlockBy(author, elected)
          /\ EndsEra /\ active_start /\ current_era = active_era + 1
    BY <1>1, EraEnds
  <2>2. fund' = FundAfterWallet
    BY <2>1 DEF RotateBlockBy, MoneyAfterEnd
  <2>3. FundAfterWallet <= ExistentialDeposit + Total(NotClaimedAfterEnd, Era)
    BY <1>1, <2>1, EndEraPromises DEF RewardsIInv
  <2> QED BY <2>2, <2>3
<1> QED BY <1>1, RewardsInvariant, PTL DEF Spec, FundFullyPromised

-----------------------------------------------------------------------------
(***************************************************************************)
(* The pallet implements the budget.                                       *)
(***************************************************************************)

\* The sum of the abstract specification is the sum of this one.
LEMMA BudgetTotal ==
    Budget!Total(eras_not_claimed_reward, Era) = Total(eras_not_claimed_reward, Era)
BY DEF Budget!Total, Budget!Units, Budget!Cardinality, Total, Units, Cardinality

LEMMA InitBudget == Init => Budget!BudgetInit
BY RewardsAssumption DEF Init, Budget!BudgetInit

\* Money that comes in is received, and a step that leaves the money and the
\* promises alone is a stutter.
LEMMA ReceiveStep ==
    ASSUME UNCHANGED <<eras_not_claimed_reward, excess>>, fund \in Nat,
           fund' \in Nat, fund' >= fund
    PROVE  Budget!Receive
<1>1. ExistentialDeposit \in Nat
  BY RewardsAssumption
<1>2. fund' - ExistentialDeposit >= fund - ExistentialDeposit
  <2>1. \A f, g, d \in Nat : g >= f => g - d >= f - d
    OBVIOUS
  <2> QED BY <1>1, <2>1
<1> QED BY <1>2 DEF Budget!Receive

\* Clearing eras forgets their promises.
LEMMA ForgetStep ==
    ASSUME UNCHANGED <<fund, excess>>, NEW cleared,
           eras_not_claimed_reward' = Clear(eras_not_claimed_reward, cleared, 0)
    PROVE  Budget!Forget
BY DEF Budget!Forget, Clear

\* end_era promises the ended era what is in the purse and not yet promised,
\* although it only sums up the eras of its window.
LEMMA PromiseStep ==
    ASSUME ProperDepths, RewardsIInv, current_era = active_era + 1, EndsEra,
           active_start, NEW cleared, fund' = FundAfterWallet,
           UNCHANGED excess,
           eras_not_claimed_reward' = Clear(NotClaimedAfterEnd, cleared, 0)
    PROVE  Budget!Promise
<1> DEFINE F == FundAfterWallet
           T == Total(eras_not_claimed_reward, Era)
           D == ExistentialDeposit
<1>1. /\ F \in Nat /\ fund \in Nat /\ F >= fund /\ D \in Nat /\ fund >= D
      /\ eras_not_claimed_reward \in [Era -> Nat]
  BY EraRewardType, RewardsAssumption
     DEF RewardsIInv, FundAfterWallet, TypeOK, FundCoversRewards
<1>2. T \in Nat
  BY EraFinite, TotalType DEF RewardsIInv, TypeOK
<1>3. EraReward = SaturatingSub(SaturatingSub(F, D), T)
  BY WindowIsComplete DEF EraReward, RewardsIInv
<1>4. eras_not_claimed_reward[active_era] = 0 /\ active_era \in Era
  BY ErasAssumption DEF RewardsIInv, RewardsClaimable, OwedIsPromised, ErasIInv,
                        ErasTypeOK, Era
<1>5. EraReward = Budget!Excess(F - D, T)
  <2> HIDE DEF F, T, D
  <2> QED BY <1>1, <1>2, <1>3 DEF SaturatingSub, Budget!Excess
<1>6. NotClaimedAfterEnd = [eras_not_claimed_reward EXCEPT ![active_era] = EraReward]
  BY DEF NotClaimedAfterEnd
<1>7. \A e \in Era :
        eras_not_claimed_reward'[e] \in
          {0, IF e = active_era THEN EraReward ELSE eras_not_claimed_reward[e]}
  BY <1>1, <1>4, <1>6 DEF Clear
<1>8. fund' - ExistentialDeposit >= fund - ExistentialDeposit
  BY <1>1
<1>9. EraReward = Budget!Excess(fund' - ExistentialDeposit,
                                Budget!Total(eras_not_claimed_reward, Era))
  BY <1>5, BudgetTotal
<1> HIDE DEF F, T, D
<1> QED BY <1>4, <1>7, <1>8, <1>9 DEF Budget!Promise

\* A payout is paid at the expense of its own era.
LEMMA PayStep ==
    ASSUME RewardsIInv, NEW v \in Stashes, NEW e \in Era,
           NEW dead \in SUBSET Stashes, PayoutStakers(v, e, dead)
    PROVE  Budget!Pay
<1> DEFINE value == PayoutValue(Due(v, e), dead)
           n == eras_not_claimed_reward[e]
<1>1. value \in Nat
  BY DueType, PayoutValueType DEF PayoutStakers, PayoutAccepted, RewardsIInv
<1>2. /\ fund' = fund - value
      /\ eras_not_claimed_reward' =
           [eras_not_claimed_reward EXCEPT ![e] = SaturatingSub(@, value)]
      /\ excess' = excess + SaturatingSub(value, n)
  BY DEF PayoutStakers, UpdateNotClaimedReward
<1>3. n \in Nat /\ fund \in Nat /\ ExistentialDeposit \in Nat /\ excess \in Nat
  BY RewardsAssumption DEF RewardsIInv, TypeOK
<1> HIDE DEF value, n
<1>4. /\ (fund - ExistentialDeposit) - (fund' - ExistentialDeposit) = value
      /\ (fund - ExistentialDeposit) - (fund' - ExistentialDeposit) >= 0
  BY <1>1, <1>2, <1>3
<1>5. \A a, b \in Nat : SaturatingSub(a, b) = Budget!Excess(a, b)
  BY DEF SaturatingSub, Budget!Excess
<1>6. /\ SaturatingSub(n, value) = Budget!Excess(n, value)
      /\ SaturatingSub(value, n) = Budget!Excess(value, n)
  BY <1>1, <1>3, <1>5
<1>7. /\ eras_not_claimed_reward' =
           [eras_not_claimed_reward EXCEPT ![e] = Budget!Excess(@, value)]
      /\ excess' = excess + Budget!Excess(value, eras_not_claimed_reward[e])
  BY <1>2, <1>6 DEF n
<1> QED BY <1>4, <1>7 DEF Budget!Pay

\* Every step of the pallet is a step of the budget or changes nothing of it.
LEMMA BudgetStep ==
    ASSUME ProperDepths, RewardsIInv, RewardsIInv', [Next]_vars
    PROVE  Budget!BudgetNext
<1> USE DEF moneyVars, rewardVars, historyVars
<1>1. fund \in Nat /\ fund' \in Nat /\ wallet \in Nat
  BY DEF RewardsIInv, TypeOK
<1>2. CASE BlockStep
  <2>1. ASSUME NEW author \in Stashes \cup {None}, BeginBlockBy(author)
        PROVE  Budget!Receive
    BY <1>1, <2>1, ReceiveStep DEF BeginBlockBy
  <2>2. ASSUME NEW author \in Stashes \cup {None}, NEW elected \in BOOLEAN,
               RotateBlockBy(author, elected)
        PROVE  Budget!Promise \/ Budget!Forget
    <3>1. /\ BeginBlockRotating(elected) /\ MoneyAfterEnd /\ UNCHANGED excess
          /\ eras_not_claimed_reward' =
               Clear(NotClaimedAfterEnd, ClearedEras(elected), 0)
      BY <2>2 DEF RotateBlockBy, ClearRewards
    <3>2. CASE EndsEra /\ active_start
      <4>1. current_era = active_era + 1
        BY <3>1, <3>2, RotationFacts DEF ProperDepths, RewardsIInv
      <4>2. fund' = FundAfterWallet
        BY <3>1, <3>2 DEF MoneyAfterEnd
      <4> QED BY <3>1, <3>2, <4>1, <4>2, PromiseStep
    <3>3. CASE ~(EndsEra /\ active_start)
      <4>1. NotClaimedAfterEnd = eras_not_claimed_reward /\ fund' = fund
        BY <3>1, <3>3 DEF NotClaimedAfterEnd, MoneyAfterEnd
      <4> QED BY <3>1, <4>1, ForgetStep
    <3> QED BY <3>2, <3>3
  <2> QED BY <1>2, <2>1, <2>2 DEF BlockStep, Budget!BudgetNext
<1>3. ASSUME NEW v \in Stashes, NEW e \in Era, PayoutStep(v, e)
      PROVE  Budget!BudgetNext
  <2>1. CASE PayoutNothing(v, e)
    <3>1. UNCHANGED <<eras_not_claimed_reward, excess, fund>>
      BY <2>1 DEF PayoutNothing
    <3> QED BY <1>1, <3>1, ReceiveStep DEF Budget!BudgetNext
  <2>2. ASSUME NEW dead \in SUBSET Stashes, PayoutStakers(v, e, dead)
        PROVE  Budget!BudgetNext
    BY <2>2, PayStep DEF Budget!BudgetNext
  <2> QED BY <1>3, <2>1, <2>2 DEF PayoutStep
<1>4. CASE BondStep
  <2>1. UNCHANGED <<eras_not_claimed_reward, excess, fund>>
    BY <1>4 DEF BondStep, Bond, KillStash, SetController, SetPayee
  <2> QED BY <1>1, <2>1, ReceiveStep DEF Budget!BudgetNext
<1>5. CASE OtherStep
  <2>1. ASSUME NEW d \in HistoryDepths, ChangeHistoryDepth(d)
        PROVE  Budget!BudgetNext
    <3>1. /\ eras_not_claimed_reward' =
               Clear(eras_not_claimed_reward, ErasClearedByDepth(d), 0)
          /\ UNCHANGED <<fund, excess>>
      BY <2>1 DEF ChangeHistoryDepth, ClearRewards
    <3> QED BY <3>1, ForgetStep DEF Budget!BudgetNext
  <2>2. CASE FinalizeBlock \/ ChangeForcing \/ Triger \/ UNCHANGED vars
    <3>1. /\ UNCHANGED <<eras_not_claimed_reward, excess>>
          /\ fund' >= fund
      BY <1>1, <2>2 DEF FinalizeBlock, ChangeForcing, Triger, FundAfterWallet,
                        vars
    <3> QED BY <1>1, <3>1, ReceiveStep DEF Budget!BudgetNext
  <2>3. ASSUME NEW amount \in Payments, PayFee(amount) \/ Donate(amount)
        PROVE  Budget!BudgetNext
    <3>1. amount \in Nat
      BY RewardsAssumption
    <3>2. /\ UNCHANGED <<eras_not_claimed_reward, excess>>
          /\ fund' >= fund
      BY <1>1, <2>3, <3>1 DEF PayFee, Donate
    <3> QED BY <1>1, <3>2, ReceiveStep DEF Budget!BudgetNext
  <2> QED BY <1>5, <2>1, <2>2, <2>3 DEF OtherStep
<1> QED BY <1>2, <1>3, <1>4, <1>5, StepCases

\* The refinement: the pallet implements the budget of EraBudget.
THEOREM RewardsImplementBudget ==
    ASSUME ProperDepths
    PROVE  Spec => ImplementsBudget
<1>1. RewardsIInv /\ RewardsIInv' /\ [Next]_vars
        => [Budget!BudgetNext]_Budget!budgetVars
  BY BudgetStep
<1> QED BY <1>1, InitBudget, RewardsInvariant, PTL
     DEF Spec, ImplementsBudget, Budget!BudgetSpec
=============================================================================
