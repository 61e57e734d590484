--------------------------- MODULE StakingLedger ---------------------------
(***************************************************************************)
(* The stake of one stash: its ledger with the unlocking queue, the lock   *)
(* on its balance, its role, the exposures of it that an offence report    *)
(* can still name, and the slashes deferred against it.  Stashes share     *)
(* none of this, so one of them is enough.                                 *)
(*                                                                         *)
(* Stake is freed by the PLANNED era (withdraw_unbonded reads CurrentEra)  *)
(* and a deferred slash is enacted by the ACTIVE one (start_era), which    *)
(* lags behind: the module is about that race, and about the arithmetic of *)
(* the queue.                                                              *)
(*                                                                         *)
(* Controllers, payees and claimed_rewards are in StakingRewards.  What    *)
(* compute_slash decides (the amount, whether it chills, whether it forces *)
(* an era) is an input here.                                               *)
(***************************************************************************)
EXTENDS Eras, Perbill, Totals, SequencesExt

CONSTANTS
    BondingDuration,    \* T::BondingDuration (28 in the runtime)
    SlashDeferDuration, \* T::SlashDeferDuration (27 in the runtime)
    MaxUnlockingChunks, \* the length of an unlocking queue (32)
    ExistentialDeposit, \* T::Currency::minimum_balance()
    MinNominatorBond,
    MinValidatorBond,
    GenesisBond,        \* the bond of the stash in the genesis configuration
    Amounts,            \* the amounts calls, rewards and transfers move
    ExposedStakes,      \* the exposures an election may give the stash
    SlashAmounts,       \* the amounts compute_slash comes to
    MaxFree,            \* BOUND: the largest balance a behaviour reaches
    MaxPending          \* BOUND: slashes waiting at the same time

UnlockChunk == [value : Nat, era : Nat]
LedgerRecord == [total : Nat, active : Nat, unlocking : Seq(UnlockChunk)]

ASSUME LedgerAssumption ==
    /\ None \notin LedgerRecord
    /\ BondingDuration \in Nat
    /\ SlashDeferDuration \in Nat
    \* integrity_test
    /\ SlashDeferDuration < BondingDuration \/ BondingDuration = 0
    /\ MaxUnlockingChunks \in Nat
    /\ ExistentialDeposit \in Nat \ {0}
    /\ MinNominatorBond \in Nat
    /\ MinValidatorBond \in Nat
    /\ GenesisBond \in Nat
    /\ ExistentialDeposit <= GenesisBond
    /\ GenesisBond <= MaxFree
    /\ Amounts \subseteq Nat \ {0}
    /\ ExposedStakes \subseteq Nat
    /\ SlashAmounts \subseteq Nat \ {0}
    /\ MaxPending \in Nat

VARIABLES
    ledger,     \* Ledger: None, or total, active and the unlocking queue
    free,       \* the free balance of the stash
    lock,       \* the amount of its staking lock
    roles,      \* whether it is in Validators and in Nominators
    exposed,    \* its exposure in each era, while reports can name the era
    unapplied_slashes,        \* UnappliedSlashes: its amounts, by era
    earliest_unapplied_slash  \* EarliestUnappliedSlash

stakeVars == <<ledger, free, lock, roles>>
slashVars == <<exposed, unapplied_slashes, earliest_unapplied_slash>>
ledgerVars == <<eraVars, stakeVars, slashVars>>

-----------------------------------------------------------------------------
(***************************************************************************)
(* The operations of a ledger.                                             *)
(***************************************************************************)

\* What the chunks of the queue with the indices in S hold together.
Unlocking(chunks, S) == Total([i \in DOMAIN chunks |-> chunks[i].value], S)

\* The k-th number of a set, and the elements of a sequence with the indices
\* in S, in their order.
Nth(S, k) == CHOOSE i \in S : Cardinality({j \in S : j <= i}) = k
Subsequence(s, S) == [k \in 1..Cardinality(S) |-> s[Nth(S, k)]]

NonZero(chunks) ==
    Subsequence(chunks, {i \in DOMAIN chunks : chunks[i].value # 0})

\* unbond's chunk: it joins the last one if that is of the same era.
AddChunk(chunks, value, era) ==
    IF chunks # <<>> /\ Last(chunks).era = era
    THEN [chunks EXCEPT ![Len(chunks)].value = @ + value]
    ELSE Append(chunks, [value |-> value, era |-> era])

\* consolidate_unlocked: the chunks that are due leave the ledger.
ConsolidateUnlocked(l) ==
    LET chunks == l.unlocking
        due == {i \in DOMAIN chunks : chunks[i].era <= current_era}
    IN  [l EXCEPT !.unlocking = Subsequence(chunks, DOMAIN chunks \ due),
                  !.total = SaturatingSub(@, Unlocking(chunks, due))]

\* rebond: up to `value` comes back from the queue, the youngest chunk first.
RebondLedger(l, value) ==
    LET chunks == l.unlocking
        younger(i) == Unlocking(chunks, {j \in DOMAIN chunks : j > i})
        back(i) == Min({chunks[i].value, SaturatingSub(value, younger(i))})
    IN  [l EXCEPT
           !.active = @ + Min({value, Unlocking(chunks, DOMAIN chunks)}),
           !.unlocking = NonZero([i \in DOMAIN chunks |->
                           [chunks[i] EXCEPT !.value = @ - back(i)]])]

(***************************************************************************)
(* StakingLedger::slash.  The active stake and the chunks unbonded after   *)
(* `era` are affected alike; a slash below what they hold together is      *)
(* shared in proportion, each share rounded to the nearest unit, and       *)
(* anything that is left then comes from the earlier chunks, the youngest  *)
(* first.  A target that falls below the existential deposit is taken      *)
(* whole.                                                                  *)
(***************************************************************************)

\* How many chunks, from the front of the queue, are not affected.
UnaffectedChunks(chunks, era) ==
    Cardinality({i \in DOMAIN chunks : \A j \in 1..i :
                   chunks[j].era < era + 1 + BondingDuration})

\* slash_out_of: what a target loses.
SlashOutOf(target, remaining, amount, affected) ==
    LET share == IF amount < affected
                 THEN MulNearest(FromRational(amount, affected), target)
                 ELSE Min({remaining, target})
    IN  IF target - share < ExistentialDeposit THEN target ELSE share

\* The order in which the n chunks, m of them not affected, are slashed: the
\* k-th one, and the turn of the chunk i.
NthTarget(n, m, k) == IF k <= n - m THEN m + k ELSE n - k + 1
Turn(n, m, i) == IF i > m THEN i - m ELSE n - i + 1

\* What the k-th target (the active stake is the 0th) loses, and what remains
\* to be slashed after it; the loop over the chunks ends when nothing does.
SlashSteps(l, amount, era) ==
    LET n == Len(l.unlocking)
        m == UnaffectedChunks(l.unlocking, era)
        affected == l.active + Unlocking(l.unlocking, (m + 1)..n)
        target(k) == IF k = 0 THEN l.active
                     ELSE l.unlocking[NthTarget(n, m, k)].value
        loss(k, remaining) ==
          IF k > 0 /\ remaining = 0 THEN 0
          ELSE SlashOutOf(target(k), remaining, amount, affected)
        step(k, remaining) ==
          [loss |-> loss(k, remaining),
           remaining |-> SaturatingSub(remaining, loss(k, remaining))]
        f[k \in 0..n] == step(k, IF k = 0 THEN amount ELSE f[k - 1].remaining)
    IN  f

\* The losses: of the active stake (at 0) and of each chunk (at its index).
SlashLosses(l, amount, era) ==
    LET n == Len(l.unlocking)
        m == UnaffectedChunks(l.unlocking, era)
    IN  [i \in 0..n |->
           SlashSteps(l, amount, era)[IF i = 0 THEN 0 ELSE Turn(n, m, i)].loss]

\* MUTANT: the total forgets the slashed chunks.
SlashActiveTotal(l, amount, era) ==
    LET losses == SlashLosses(l, amount, era)
    IN  [total |-> SaturatingSub(l.total, losses[0]),
         active |-> l.active - losses[0],
         unlocking |-> NonZero([i \in DOMAIN l.unlocking |->
                         [l.unlocking[i] EXCEPT !.value = @ - losses[i]]])]

Slash(l, amount, era) ==
    LET losses == SlashLosses(l, amount, era)
    IN  [total |-> SaturatingSub(l.total,
                                 Total(losses, DOMAIN losses)),
         active |-> l.active - losses[0],
         unlocking |-> NonZero([i \in DOMAIN l.unlocking |->
                         [l.unlocking[i] EXCEPT !.value = @ - losses[i]]])]

-----------------------------------------------------------------------------
(***************************************************************************)
(* Balances (pallet_balances).                                             *)
(***************************************************************************)

\* set_lock does nothing when it is given the amount zero.
SetLock(old, amount) == IF amount = 0 THEN old ELSE amount

\* Currency::slash takes what it can and leaves the existential deposit to an
\* account that others refer to, as a bond does.
SlashedBalance(balance, amount) ==
    IF balance - amount >= ExistentialDeposit THEN balance - amount
    ELSE Min({balance, ExistentialDeposit})

UpdateLedger(l) ==
    /\ ledger' = l
    /\ lock' = SetLock(lock, l.total)

-----------------------------------------------------------------------------
\* Genesis bonds the stash and gives it a role, or leaves it idle; the eras
\* planned at genesis expose it if it is elected.
LedgerInit ==
    /\ ErasInit
    /\ ledger = [total |-> GenesisBond, active |-> GenesisBond,
                 unlocking |-> <<>>]
    /\ free \in {GenesisBond, MaxFree}
    /\ lock = GenesisBond
    /\ roles \in {{}} \cup {{r} : r \in {"Validator", "Nominator"}}
    /\ \E electedIn \in SUBSET {e \in Era : e <= current_era /\ roles # {}} :
         exposed = [e \in Era |-> IF e \in electedIn THEN GenesisBond ELSE 0]
    /\ unapplied_slashes = [e \in Era |-> <<>>]
    /\ earliest_unapplied_slash = None

-----------------------------------------------------------------------------
(***************************************************************************)
(* The calls of the stash and its controller.                              *)
(***************************************************************************)

MayCall == in_block /\ ledger # None

Bond(value) ==
    /\ in_block
    /\ ledger = None
    /\ value >= ExistentialDeposit
    /\ free >= ExistentialDeposit
    /\ LET bond == Min({value, free})
       IN  UpdateLedger([total |-> bond, active |-> bond,
                         unlocking |-> <<>>])
    /\ UNCHANGED <<eraVars, free, roles, slashVars>>

BondExtra(max_additional) ==
    /\ MayCall
    /\ free >= ledger.total
    /\ LET extra == Min({free - ledger.total, max_additional})
       IN  /\ ledger.active + extra >= ExistentialDeposit
           /\ UpdateLedger([ledger EXCEPT !.total = @ + extra,
                                          !.active = @ + extra])
    /\ UNCHANGED <<eraVars, free, roles, slashVars>>

\* The active bond a role demands.
MinActiveBond ==
    IF "Nominator" \in roles THEN MinNominatorBond
    ELSE IF "Validator" \in roles THEN MinValidatorBond
    ELSE 0

Unbond(value) ==
    /\ MayCall
    /\ Len(ledger.unlocking) < MaxUnlockingChunks
    /\ ledger.active > 0
    /\ LET asked == Min({value, ledger.active})
           \* what would be left as dust goes along
           out == IF ledger.active - asked < ExistentialDeposit
                  THEN ledger.active ELSE asked
       IN  /\ ledger.active - out >= MinActiveBond
           /\ UpdateLedger(
                [ledger EXCEPT
                   !.active = @ - out,
                   !.unlocking = AddChunk(@, out,
                                          current_era + BondingDuration)])
    /\ UNCHANGED <<eraVars, free, roles, slashVars>>

\* kill_stash and the removal of the lock that follows it everywhere.
KillStash ==
    /\ ledger' = None
    /\ lock' = 0
    /\ roles' = {}

WithdrawUnbonded ==
    /\ MayCall
    /\ LET l == ConsolidateUnlocked(ledger)
       IN  IF l.unlocking = <<>> /\ l.active < ExistentialDeposit
           THEN KillStash
           ELSE UpdateLedger(l) /\ UNCHANGED roles
    /\ UNCHANGED <<eraVars, free, slashVars>>

Rebond(value) ==
    /\ MayCall
    /\ ledger.unlocking # <<>>
    /\ LET l == RebondLedger(ledger, value)
       IN  /\ l.active >= ExistentialDeposit
           /\ UpdateLedger(l)
    /\ UNCHANGED <<eraVars, free, roles, slashVars>>

Validate ==
    /\ MayCall
    /\ ledger.active >= MinValidatorBond
    /\ roles' = {"Validator"}
    /\ UNCHANGED <<eraVars, ledger, free, lock, slashVars>>

Nominate ==
    /\ MayCall
    /\ ledger.active >= MinNominatorBond
    /\ roles' = {"Nominator"}
    /\ UNCHANGED <<eraVars, ledger, free, lock, slashVars>>

Chill ==
    /\ MayCall
    /\ roles' = {}
    /\ UNCHANGED <<eraVars, ledger, free, lock, slashVars>>

\* chill_other, called by somebody else while the staker limits are in use.
ChillOther ==
    /\ MayCall
    /\ ledger.active < MinActiveBond
    /\ roles' = {}
    /\ UNCHANGED <<eraVars, ledger, free, lock, slashVars>>

ReapStash ==
    /\ MayCall
    /\ free < ExistentialDeposit \/ ledger.total < ExistentialDeposit
    /\ KillStash
    /\ UNCHANGED <<eraVars, free, slashVars>>

ForceUnstake ==
    /\ MayCall
    /\ KillStash
    /\ UNCHANGED <<eraVars, free, slashVars>>

\* make_payout to a stash whose payee is Staked.
RewardStaked(amount) ==
    /\ MayCall
    /\ active_era > 0
    /\ free + amount <= MaxFree
    /\ free' = free + amount
    /\ UpdateLedger([ledger EXCEPT !.total = @ + amount,
                                   !.active = @ + amount])
    /\ UNCHANGED <<eraVars, roles, slashVars>>

\* Money comes in, or leaves: the lock and the account's life hold it back.
Deposit(amount) ==
    /\ in_block
    /\ free + amount <= MaxFree
    /\ free' = free + amount
    /\ UNCHANGED <<eraVars, ledger, lock, roles, slashVars>>

Withdraw(amount) ==
    /\ in_block
    /\ free - amount >= lock
    /\ free - amount >= ExistentialDeposit
    /\ free' = free - amount
    /\ UNCHANGED <<eraVars, ledger, lock, roles, slashVars>>

-----------------------------------------------------------------------------
(***************************************************************************)
(* Slashes.                                                                *)
(***************************************************************************)

Stake == [ledger |-> ledger, free |-> free, lock |-> lock]

\* MUTANT: the slash is taken from the balance and the ledger, and the lock
\* is not brought up to date.
DoSlashKeepsLock(stake, slash) ==
    LET l == Slash(stake.ledger, slash.amount, slash.era)
        value == stake.ledger.total - l.total
    IN  IF stake.ledger = None \/ value = 0 THEN stake
        ELSE [ledger |-> l,
              free |-> SlashedBalance(stake.free, value),
              lock |-> stake.lock]

\* do_slash on a stake, for a slash [amount, era].
DoSlash(stake, slash) ==
    LET l == Slash(stake.ledger, slash.amount, slash.era)
        value == stake.ledger.total - l.total
    IN  IF stake.ledger = None \/ value = 0 THEN stake
        ELSE [ledger |-> l,
              free |-> SlashedBalance(stake.free, value),
              lock |-> SetLock(stake.lock, l.total)]

Pending == Total([e \in Era |-> Len(unapplied_slashes[e])], Era)

\* on_offence for an offence of the era slash_era, which is still a bonded
\* era.  compute_slash may chill the stash and, through
\* add_offending_validator, force a new era.
OnOffence(slash_era, amount, chills, forces) ==
    /\ Pending < MaxPending
    /\ slash_era <= active_era
    /\ amount <= exposed[slash_era]
    /\ earliest_unapplied_slash' =
         IF earliest_unapplied_slash = None THEN active_era
         ELSE earliest_unapplied_slash
    /\ IF SlashDeferDuration = 0
       THEN /\ LET stake == DoSlash(Stake,
                                    [amount |-> amount, era |-> slash_era])
               IN  /\ ledger' = stake.ledger
                   /\ free' = stake.free
                   /\ lock' = stake.lock
            /\ UNCHANGED unapplied_slashes
       ELSE /\ unapplied_slashes' =
                 [unapplied_slashes EXCEPT ![active_era] =
                    Append(@, amount)]
            /\ UNCHANGED <<ledger, free, lock>>
    /\ roles' = IF chills THEN {} ELSE roles
    /\ IF forces THEN EnsureNewEra ELSE UNCHANGED eraVars
    /\ UNCHANGED exposed

CancelDeferredSlash(era, slash_indices) ==
    /\ in_block
    /\ slash_indices # {}
    /\ LET slashes == unapplied_slashes[era]
       IN  /\ slash_indices \subseteq DOMAIN slashes
           /\ unapplied_slashes' =
                [unapplied_slashes EXCEPT ![era] =
                   Subsequence(slashes, DOMAIN slashes \ slash_indices)]
    /\ UNCHANGED <<eraVars, stakeVars, exposed, earliest_unapplied_slash>>

\* MUTANT: apply_unapplied_slashes goes one era further.
ErasEnactedInclusive(started) ==
    IF earliest_unapplied_slash = None THEN {}
    ELSE {e \in Era : /\ earliest_unapplied_slash < e
                      /\ e <= SaturatingSub(started, SlashDeferDuration)}

\* MUTANT: slashes wait one era more.
ErasEnactedLate(started) ==
    IF earliest_unapplied_slash = None THEN {}
    ELSE {e \in Era : /\ earliest_unapplied_slash <= e
                      /\ e + 1 < SaturatingSub(started, SlashDeferDuration)}

\* The eras whose slashes apply_unapplied_slashes takes and enacts when the
\* era `started` begins.
ErasEnacted(started) ==
    IF earliest_unapplied_slash = None THEN {}
    ELSE {e \in Era : /\ earliest_unapplied_slash <= e
                      /\ e < SaturatingSub(started, SlashDeferDuration)}

\* The stake after the slashes of one of them, and of all of them, in order.
EnactEra(stake, era) ==
    LET slashes == unapplied_slashes[era]
        f[i \in 0..Len(slashes)] ==
          IF i = 0 THEN stake
          ELSE DoSlash(f[i - 1], [amount |-> slashes[i], era |-> era])
    IN  f[Len(slashes)]

EnactEras(stake, eras) ==
    LET f[k \in 0..Cardinality(eras)] ==
          IF k = 0 THEN stake ELSE EnactEra(f[k - 1], Nth(eras, k))
    IN  f[Cardinality(eras)]

\* apply_unapplied_slashes(started).
ApplyUnappliedSlashes(started) ==
    LET eras == ErasEnacted(started)
        stake == EnactEras(Stake, eras)
    IN  /\ ledger' = stake.ledger
        /\ free' = stake.free
        /\ lock' = stake.lock
        /\ unapplied_slashes' =
             [e \in Era |-> IF e \in eras THEN <<>> ELSE unapplied_slashes[e]]
        /\ earliest_unapplied_slash' =
             IF earliest_unapplied_slash = None THEN None
             ELSE IF earliest_unapplied_slash
                       >= SaturatingSub(started, SlashDeferDuration)
             THEN earliest_unapplied_slash
             ELSE SaturatingSub(started, SlashDeferDuration)

\* The exposures a report can name: start_era prunes the bonded eras and the
\* historical sessions, collect_exposures adds that of the era planned.  An
\* election works on a snapshot that was taken before, so the stake it exposes
\* need not be the one of this moment.
Exposures(elected, stake) ==
    [e \in Era |->
       IF PlansEra(elected) /\ e = current_era + 1 THEN stake
       ELSE IF StartsEra /\ e + BondingDuration < active_era + 1 THEN 0
       ELSE exposed[e]]

\* A rotation: start_era enacts slashes, then new_session plans an era.
RotateBlock(elected, stake) ==
    /\ BeginBlockRotating(elected)
    /\ IF StartsEra THEN ApplyUnappliedSlashes(active_era + 1)
       ELSE UNCHANGED <<ledger, free, lock, unapplied_slashes,
                        earliest_unapplied_slash>>
    /\ exposed' = Exposures(elected, stake)
    /\ UNCHANGED roles

\* The other steps of the clock (Root's calls are in Eras).
Tick ==
    /\ BeginBlock \/ OnFinalize
    /\ UNCHANGED <<stakeVars, slashVars>>

LedgerNext ==
    \/ Tick
    \/ \E elected \in BOOLEAN, stake \in ExposedStakes :
         RotateBlock(elected, stake)
    \/ \E v \in Amounts : \/ Bond(v)
                          \/ BondExtra(v)
                          \/ Unbond(v)
                          \/ Rebond(v)
                          \/ RewardStaked(v)
                          \/ Deposit(v)
                          \/ Withdraw(v)
    \/ WithdrawUnbonded
    \/ Validate
    \/ Nominate
    \/ Chill
    \/ ChillOther
    \/ ReapStash
    \/ ForceUnstake
    \/ \E e \in Era, amount \in SlashAmounts, chills, forces \in BOOLEAN :
         OnOffence(e, amount, chills, forces)
    \/ \E e \in Era : \E S \in SUBSET DOMAIN unapplied_slashes[e] :
         CancelDeferredSlash(e, S)

LedgerSpec == LedgerInit /\ [][LedgerNext]_ledgerVars

-----------------------------------------------------------------------------
(***************************************************************************)
(* Properties.                                                             *)
(***************************************************************************)

\* "It's just `active` plus all the `unlocking` balances": the total of a
\* ledger stays the sum of its parts through unbonding, rebonding, dust,
\* rewards and slashes of any part.
LedgerAddsUp ==
    ledger # None =>
        /\ ledger \in LedgerRecord
        /\ ledger.total = ledger.active
                            + Unlocking(ledger.unlocking,
                                        DOMAIN ledger.unlocking)

\* The stake of a ledger is there and locked, and nothing but the stake is
\* (set_lock leaves the old lock of a ledger slashed to nothing, until it is
\* withdrawn or reaped); without a ledger nothing is locked.
StakeIsLocked ==
    IF ledger = None THEN lock = 0
    ELSE /\ ledger.total <= free
         /\ ledger.total <= lock
         /\ ledger.total # 0 => lock = ledger.total

\* A deferred slash is not overlooked: apply_unapplied_slashes will come to
\* its era, and it waits for the eras it is deferred for and no longer.
SlashIsScheduled ==
    \A e \in Era : unapplied_slashes[e] # <<>> =>
        /\ earliest_unapplied_slash # None
        /\ earliest_unapplied_slash <= e
        /\ e <= active_era
        /\ active_era <= e + SlashDeferDuration

\* "as long as SlashDeferDuration is less than BondingDuration, this should
\* not be possible": stake unbonded in the era a slash was deferred in, or
\* later, can not be withdrawn while that slash is waiting.
StakerCannotBail ==
    \A e \in Era : unapplied_slashes[e] # <<>> /\ ledger # None =>
        \A i \in DOMAIN ledger.unlocking :
            ledger.unlocking[i].era \notin (e + BondingDuration)..current_era
=============================================================================
