----------------------------- MODULE Intentions -----------------------------
(***************************************************************************)
(* Who wants to validate and who nominates whom: Validators, Nominators    *)
(* and their counters, the sorted voter list that the runtime keeps in     *)
(* pallet_bags_list, Root's limits on all of them, and the voters and      *)
(* targets an election is given.                                           *)
(*                                                                         *)
(* Every stash is its own controller (chain_spec.rs; other controllers are *)
(* in StakingRewards) and of its ledger only the active stake matters.     *)
(* What a slash or a reward amounts to is an input; see Slashing and       *)
(* StakingRewards.  The bags-list pallet is external: a voter is in the    *)
(* bag of the score it was last given, bags are iterated from the largest  *)
(* score down, and the order inside a bag is any order.                    *)
(***************************************************************************)
EXTENDS Perbill, SequencesExt

CONSTANTS
    Stashes,
    ExistentialDeposit, \* T::Currency::minimum_balance()
    MaxNominations,     \* T::MaxNominations (16 in the runtime)
    BagThresholds,      \* the upper bounds of the bags (a table of the runtime)
    VoteFactor,         \* total issuance / u64::MAX, the unit of a vote weight
    GenesisStatus,      \* stash -> "Validator", "Idle" or the targets it has
    GenesisBond,        \* the bond of every genesis staker
    GenesisConfig,      \* the limits of the genesis configuration
    Amounts,            \* the amounts calls, rewards and slashes move
    TargetLists,        \* the targets `nominate` is called with
    Prefs,              \* the preferences `validate` is called with
    ConfigOps,          \* the arguments of `set_staking_configs`
    Switchers,          \* BOUND: the stashes that take either role
    Offenders,          \* BOUND: the stashes that offences are reported of
    Caps,               \* the limits an election provider may impose
    Noop, Unset, None,  \* ConfigOp::Noop, ConfigOp::Remove, an absent entry
    MaxActive,          \* BOUND: the largest active stake
    MaxEra              \* BOUND: the last era

VARIABLES
    active,             \* the ledger's active stake, None when not bonded
    validators,         \* Validators: preferences, or None
    nominators,         \* Nominators: targets and submitted_in, or None
    counters,           \* CounterForValidators, CounterForNominators
    voter_list,         \* the bag of every voter, None when not listed
    last_nonzero_slash, \* of the stash's SlashingSpans, 0 without any
    config,             \* what set_staking_configs sets
    current_era,
    storage,            \* StorageVersion, and whether pre-V6 keys are left
    live                \* this code serves extrinsics: upgrades come first

roleVars == <<validators, nominators, counters, voter_list>>
vars == <<active, roleVars, last_nonzero_slash, config,
          current_era, storage, live>>

\* ValidatorPrefs::default(), which reading an absent entry gives.
DefaultPrefs == [commission |-> 0, blocked |-> FALSE]

ValidatorPrefs == [commission : Parts, blocked : BOOLEAN]

\* A longer list of targets cannot be decoded.
Nominations == [targets : {t \in Seq(Stashes) : Len(t) <= MaxNominations},
                submitted_in : Nat]

Limit == Nat \cup {None}

\* The storage items behind set_staking_configs.  A removed item reads as
\* zero, or as None where it is an Option.
Config == [min_nominator_bond : Nat, min_validator_bond : Nat,
           max_nominators_count : Limit, max_validators_count : Limit,
           chill_threshold : Limit, min_commission : Parts]

ConfigDefault == [min_nominator_bond |-> 0, min_validator_bond |-> 0,
                  max_nominators_count |-> None,
                  max_validators_count |-> None,
                  chill_threshold |-> None, min_commission |-> 0]

ASSUME IntentionsAssumption ==
    /\ IsFiniteSet(Stashes) /\ Offenders \subseteq Stashes
    /\ None \notin ValidatorPrefs /\ None \notin Nominations
    /\ None \notin Nat
    /\ ExistentialDeposit \in Nat /\ MaxNominations \in Nat
    /\ VoteFactor \in Nat \ {0}
    /\ Amounts \subseteq Nat /\ Caps \subseteq Limit
    /\ Prefs \subseteq ValidatorPrefs
    /\ TargetLists \subseteq Seq(Stashes)
    /\ GenesisConfig \in Config
    /\ \A ops \in ConfigOps : ops.min_commission \in Parts \cup {Noop, Unset}
    /\ GenesisBond \in 0..MaxActive
    /\ \A s \in Stashes :
         GenesisStatus[s].role = "Nominator" =>
           [targets |-> GenesisStatus[s].targets, submitted_in |-> 0]
             \in Nominations
    /\ MaxActive \in Nat /\ MaxEra \in Nat
    \* The last bag of the runtime's table holds the largest u64.
    /\ BagThresholds \subseteq Nat
    /\ \A stake \in 0..MaxActive :
         \E t \in BagThresholds : t >= stake \div VoteFactor

Releases == {"V5", "V6", "V7", "V8", "V9"}

-----------------------------------------------------------------------------
(***************************************************************************)
(* Vote weights and the list.                                              *)
(***************************************************************************)

\* slashable_balance_of: zero for a stash that is not bonded.
SlashableBalanceOf(s) == IF active[s] = None THEN 0 ELSE active[s]

\* weight_of: the active stake in units of VoteFactor (U128CurrencyToVote).
VoteWeight(stake) == stake \div VoteFactor

\* The bag of a score: the smallest threshold that holds it.
BagOf(score) == Min({t \in BagThresholds : t >= score})

\* The list after the calls of its SortedListProvider interface, which leave
\* it alone (and return an error) when the voter is, or is not, listed.
OnInsert(list, s, score) ==
    IF list[s] = None THEN [list EXCEPT ![s] = BagOf(score)] ELSE list

OnUpdate(list, s, score) ==
    IF list[s] # None THEN [list EXCEPT ![s] = BagOf(score)] ELSE list

OnRemove(list, s) == [list EXCEPT ![s] = None]

\* The orders in which the list can be iterated.
ListOrders(list) ==
    LET listed == {s \in Stashes : list[s] # None}
    IN  {order \in SetToSeqs(listed) :
           \A i, j \in DOMAIN order :
             i < j => list[order[i]] >= list[order[j]]}

-----------------------------------------------------------------------------
(***************************************************************************)
(* do_add_nominator and its siblings, on the record of the four variables  *)
(* they share.                                                             *)
(***************************************************************************)
Roles == [validators |-> validators, nominators |-> nominators,
          counters |-> counters, voter_list |-> voter_list]

DoAddNominator(r, s, nominations) ==
    [r EXCEPT
       !.voter_list = IF r.nominators[s] = None
                      THEN OnInsert(@, s, VoteWeight(SlashableBalanceOf(s)))
                      ELSE @,
       !.nominators[s] = nominations,
       !.counters.nominators = IF r.nominators[s] = None THEN @ + 1 ELSE @]

DoRemoveNominator(r, s) ==
    IF r.nominators[s] = None THEN r
    ELSE [r EXCEPT !.nominators[s] = None,
                   !.counters.nominators = @ - 1,
                   !.voter_list = OnRemove(@, s)]

DoAddValidator(r, s, prefs) ==
    [r EXCEPT
       !.voter_list = IF r.validators[s] = None
                      THEN OnInsert(@, s, VoteWeight(SlashableBalanceOf(s)))
                      ELSE @,
       !.validators[s] = prefs,
       !.counters.validators = IF r.validators[s] = None THEN @ + 1 ELSE @]

DoRemoveValidator(r, s) ==
    IF r.validators[s] = None THEN r
    ELSE [r EXCEPT !.validators[s] = None,
                   !.counters.validators = @ - 1,
                   !.voter_list = OnRemove(@, s)]

ChillStash(r, s) == DoRemoveNominator(DoRemoveValidator(r, s), s)

SetRoles(r) ==
    /\ validators' = r.validators
    /\ nominators' = r.nominators
    /\ counters' = r.counters
    /\ voter_list' = r.voter_list

IsValidator(s) == validators[s] # None
IsNominator(s) == nominators[s] # None

\* The least active stake the role of s asks for.
MinActiveBond(s) ==
    IF IsNominator(s) THEN config.min_nominator_bond
    ELSE IF IsValidator(s) THEN config.min_validator_bond
    ELSE 0

-----------------------------------------------------------------------------
(***************************************************************************)
(* The chain at genesis, and chains that reach this code by an upgrade.    *)
(***************************************************************************)
Genesis(role) == {s \in Stashes : GenesisStatus[s].role = role}

GenesisStakers == Genesis("Validator") \cup Genesis("Nominator")

\* The list a release leaves behind: none before V8, then nominators only.
\* In genesis build every bond is followed by validate or nominate.
ListedAt(version) ==
    CASE version \in {"V5", "V6", "V7"} -> {}
      [] version = "V8" -> Genesis("Nominator")
      [] OTHER -> GenesisStakers

CountersAt(version) ==
    IF version \in {"V5", "V6"} THEN [validators |-> 0, nominators |-> 0]
    ELSE [validators |-> Cardinality(Genesis("Validator")),
          nominators |-> Cardinality(Genesis("Nominator"))]

Init ==
    /\ active = [s \in Stashes |->
                   IF GenesisStatus[s].role = "None" THEN None
                   ELSE GenesisBond]
    /\ validators = [s \in Stashes |->
                       IF s \in Genesis("Validator") THEN DefaultPrefs
                       ELSE None]
    /\ nominators = [s \in Stashes |->
                       IF s \in Genesis("Nominator")
                       THEN [targets |-> GenesisStatus[s].targets,
                             submitted_in |-> 0]
                       ELSE None]
    /\ last_nonzero_slash = [s \in Stashes |-> 0]
    /\ config = GenesisConfig
    /\ current_era = 0
    /\ \E v \in Releases \ {"V9"}, g \in BOOLEAN :
         /\ g => v = "V7"                  \* genesis build stores V7
         /\ live = g
         /\ storage = [version |-> v, legacy |-> v = "V5"]
         /\ counters = CountersAt(v)
         /\ voter_list =
              LET listed == IF g THEN GenesisStakers ELSE ListedAt(v)
              IN  [s \in Stashes |-> IF s \in listed
                                     THEN BagOf(VoteWeight(GenesisBond))
                                     ELSE None]

(***************************************************************************)
(* migrations.rs.  An upgrade runs what is missing, in order and before    *)
(* any extrinsic; the guards of v6 and v7 are their pre_migrate checks.    *)
(***************************************************************************)
MigrateV6 ==
    /\ ~live /\ storage.legacy
    /\ storage' = [version |-> "V6", legacy |-> FALSE]
    /\ UNCHANGED <<active, roleVars, last_nonzero_slash, config, current_era, live>>

MigrateV7 ==
    /\ ~live /\ storage.version = "V6"
    /\ counters = [validators |-> 0, nominators |-> 0]
    /\ counters' =
         [validators |-> Cardinality({s \in Stashes : IsValidator(s)}),
          nominators |-> Cardinality({s \in Stashes : IsNominator(s)})]
    /\ storage' = [storage EXCEPT !.version = "V7"]
    /\ UNCHANGED <<active, validators, nominators, voter_list,
                   last_nonzero_slash, config, current_era,
                   live>>

\* unsafe_regenerate: the list is cleared and holds the nominators only.
MigrateV8 ==
    /\ storage.version = "V7"
    /\ live' = FALSE
    /\ storage' = [storage EXCEPT !.version = "V8"]
    /\ voter_list' = [s \in Stashes |->
                        IF IsNominator(s)
                        THEN BagOf(VoteWeight(SlashableBalanceOf(s)))
                        ELSE None]
    /\ UNCHANGED <<active, validators, nominators, counters,
                   last_nonzero_slash, config, current_era>>

MigrateV9 ==
    /\ storage.version = "V8"
    /\ live' = TRUE
    /\ storage' = [storage EXCEPT !.version = "V9"]
    /\ voter_list' = [s \in Stashes |->
                        IF IsValidator(s) /\ voter_list[s] = None
                        THEN BagOf(VoteWeight(SlashableBalanceOf(s)))
                        ELSE voter_list[s]]
    /\ UNCHANGED <<active, validators, nominators, counters,
                   last_nonzero_slash, config, current_era>>

-----------------------------------------------------------------------------
(***************************************************************************)
(* Calls that move stake.                                                  *)
(***************************************************************************)

\* update_ledger, and on_update where the call makes it.
SetActive(s, stake) ==
    /\ stake <= MaxActive
    /\ active' = [active EXCEPT ![s] = stake]
    /\ UNCHANGED <<validators, nominators, counters, last_nonzero_slash,
                   config, current_era, storage, live>>

Bond(s, value) ==
    /\ live
    /\ active[s] = None
    /\ value >= ExistentialDeposit
    /\ SetActive(s, value)
    /\ UNCHANGED voter_list

\* on_update with weight_of, after update_ledger.
Relist(s) == OnUpdate(voter_list, s, VoteWeight(active'[s]))

\* bond_extra and rebond.
BondMore(s, value) ==
    /\ live
    /\ active[s] # None
    /\ active[s] + value >= ExistentialDeposit
    /\ SetActive(s, active[s] + value)
    /\ voter_list' = Relist(s)

Unbond(s, value) ==
    LET rest == active[s] - value
        kept == IF rest < ExistentialDeposit THEN 0 ELSE rest
    IN  /\ live
        /\ active[s] # None
        /\ value <= active[s]
        /\ kept >= MinActiveBond(s)
        /\ SetActive(s, kept)
        /\ voter_list' = Relist(s)

\* make_payout to RewardDestination::Staked: the list is not told.
RewardStaked(s, amount) ==
    /\ live
    /\ active[s] # None
    /\ SetActive(s, active[s] + amount)
    /\ UNCHANGED voter_list

\* do_slash, when a slash is applied: the list is not told either.
DoSlash(s, amount) ==
    /\ live
    /\ active[s] # None
    /\ amount <= active[s]
    /\ SetActive(s, IF active[s] - amount < ExistentialDeposit THEN 0
                    ELSE active[s] - amount)
    /\ UNCHANGED voter_list

\* pallet_bags_list's rebag, which anyone may call for anyone.
Rebag(s) ==
    /\ live
    /\ voter_list[s] # None
    /\ voter_list' = OnUpdate(voter_list, s, VoteWeight(SlashableBalanceOf(s)))
    /\ UNCHANGED <<active, validators, nominators, counters,
                   last_nonzero_slash, config, current_era,
                   storage, live>>

\* kill_stash, with whatever stake is active: withdraw_unbonded and reap_stash
\* call it when next to nothing is left, Root's force_unstake at any time. The
\* slashing spans go with the ledger.
KillStash(s) ==
    /\ live
    /\ active[s] # None
    /\ active' = [active EXCEPT ![s] = None]
    /\ last_nonzero_slash' = [last_nonzero_slash EXCEPT ![s] = 0]
    /\ SetRoles(ChillStash(Roles, s))
    /\ UNCHANGED <<config, current_era, storage, live>>

-----------------------------------------------------------------------------
(***************************************************************************)
(* Calls about roles.                                                      *)
(***************************************************************************)
OnlyRoles(r) ==
    /\ SetRoles(r)
    /\ UNCHANGED <<active, last_nonzero_slash, config,
                   current_era, storage, live>>

\* MUTANT: the stash stays among the nominators.
NewValidatorStaysNominator(s, prefs) == DoAddValidator(Roles, s, prefs)

\* What validate does once its checks have passed.
NewValidator(s, prefs) ==
    DoAddValidator(DoRemoveNominator(Roles, s), s, prefs)

\* A newcomer is admitted while the count is below the limit, if there is one.
WithinLimit(count, limit) == limit # None => count < limit

Validate(s, prefs) ==
    /\ live
    /\ s \in Genesis("Nominator") => s \in Switchers
    /\ active[s] # None
    /\ active[s] >= config.min_validator_bond
    /\ prefs.commission >= config.min_commission
    /\ ~IsValidator(s) => WithinLimit(counters.validators, config.max_validators_count)
    /\ OnlyRoles(NewValidator(s, prefs))

\* A target must be one of the old ones, or not be blocked; an account that
\* does not validate reads as the default preferences and is accepted.
TargetAllowed(s, t) ==
    \/ IsNominator(s) /\ t \in Range(nominators[s].targets)
    \/ ~(IsValidator(t) /\ validators[t].blocked)

Nominate(s, targets) ==
    /\ live
    /\ s \in Genesis("Validator") => s \in Switchers
    /\ active[s] # None
    /\ active[s] >= config.min_nominator_bond
    /\ ~IsNominator(s) => WithinLimit(counters.nominators, config.max_nominators_count)
    /\ targets # <<>>
    /\ Len(targets) <= MaxNominations
    /\ \A i \in DOMAIN targets : TargetAllowed(s, targets[i])
    /\ OnlyRoles(DoAddNominator(DoRemoveValidator(Roles, s), s,
                   [targets |-> targets, submitted_in |-> current_era]))

Chill(s) ==
    /\ live
    /\ active[s] # None
    /\ OnlyRoles(ChillStash(Roles, s))

\* The checks of chill_other for a caller who is not the controller.
MayBeChilledByOthers(s) ==
    /\ config.chill_threshold # None
    /\ \/ /\ IsNominator(s)
          /\ config.max_nominators_count # None
          /\ MulNearest(config.chill_threshold, config.max_nominators_count)
               < counters.nominators
       \/ /\ ~IsNominator(s) /\ IsValidator(s)
          /\ config.max_validators_count # None
          /\ MulNearest(config.chill_threshold, config.max_validators_count)
               < counters.validators
    /\ active[s] < MinActiveBond(s)

\* chill_other by someone else (by the controller itself it is chill).
ChillOther(s) ==
    /\ live
    /\ active[s] # None
    /\ MayBeChilledByOthers(s)
    /\ OnlyRoles(ChillStash(Roles, s))

\* Vec::swap_remove: the last element takes the place of the removed one.
SwapRemove(seq, i) == Front([seq EXCEPT ![i] = Last(seq)])

\* kick removes the FIRST occurrence of the caller among the targets.
KickTarget(targets, v) ==
    IF v \in Range(targets)
    THEN SwapRemove(targets, Min({i \in DOMAIN targets : targets[i] = v}))
    ELSE targets

Kick(v, who) ==
    /\ live
    /\ active[v] # None
    /\ OnlyRoles([Roles EXCEPT !.nominators =
         [n \in Stashes |->
            IF n \in who /\ IsNominator(n)
            THEN [nominators[n] EXCEPT !.targets = KickTarget(@, v)]
            ELSE nominators[n]]])

ForceApplyMinCommission(s) ==
    /\ live
    /\ IsValidator(s)
    /\ OnlyRoles([Roles EXCEPT !.validators[s].commission =
                    IF @ < config.min_commission THEN config.min_commission
                    ELSE @])

\* MUTANT: the era of the report replaces a later one.
LastSlashEra(old, era) == era

\* add_slash's last_nonzero_slash.
LaterSlashEra(old, era) == IF era > old THEN era ELSE old

\* on_offence: compute_slash records the era of a slash that is not zero, and
\* chills the validator if the slash falls into its ongoing span.
OffenceReported(s, era, slashed, chills) ==
    /\ live
    /\ active[s] # None
    /\ era <= current_era
    /\ last_nonzero_slash' =
         [last_nonzero_slash EXCEPT ![s] = IF slashed
                                           THEN LaterSlashEra(@, era) ELSE @]
    /\ SetRoles(IF chills THEN ChillStash(Roles, s) ELSE Roles)
    /\ UNCHANGED <<active, config, current_era, storage,
                   live>>

-----------------------------------------------------------------------------
(***************************************************************************)
(* Root.                                                                   *)
(***************************************************************************)
ApplyConfigOp(old, op, default) ==
    IF op = Noop THEN old ELSE IF op = Unset THEN default ELSE op

SetStakingConfigs(ops) ==
    /\ live
    /\ config' = [f \in DOMAIN config |->
                    ApplyConfigOp(config[f], ops[f], ConfigDefault[f])]
    /\ UNCHANGED <<active, roleVars, last_nonzero_slash,
                   current_era, storage, live>>

\* Another era is planned; the calls above note it as submitted_in.
PlanEra ==
    /\ live
    /\ current_era < MaxEra
    /\ current_era' = current_era + 1
    /\ UNCHANGED <<active, roleVars, last_nonzero_slash, config, storage, live>>

Next ==
    \/ MigrateV6 \/ MigrateV7 \/ MigrateV8 \/ MigrateV9
    \/ \E s \in Stashes :
         \/ \E value \in Amounts :
              \/ Bond(s, value) \/ BondMore(s, value) \/ Unbond(s, value)
              \/ RewardStaked(s, value) \/ DoSlash(s, value)
         \/ Rebag(s) \/ KillStash(s) \/ Chill(s) \/ ChillOther(s)
         \/ ForceApplyMinCommission(s)
         \/ \E prefs \in Prefs : Validate(s, prefs)
         \/ \E targets \in TargetLists : Nominate(s, targets)
         \/ \E n \in Stashes : Kick(s, {n})
    \/ \E s \in Offenders, era \in 0..MaxEra, slashed, chills \in BOOLEAN :
         OffenceReported(s, era, slashed, chills)
    \/ \E ops \in ConfigOps : SetStakingConfigs(ops)
    \/ PlanEra

Spec == Init /\ [][Next]_vars

-----------------------------------------------------------------------------
(***************************************************************************)
(* What an election is given.                                              *)
(***************************************************************************)

\* A vote for t submitted before t's last slash does not count.
VoteIsLive(s, t) == nominators[s].submitted_in >= last_nonzero_slash[t]

\* What the voter s adds to the snapshot: nothing when no vote is left.
VoterEntry(s) ==
    LET vote(targets) == <<[who |-> s, targets |-> targets,
                            weight |-> VoteWeight(SlashableBalanceOf(s))]>>
        kept == SelectSeq(nominators[s].targets,
                          LAMBDA t : VoteIsLive(s, t))
    IN  IF IsNominator(s)
        THEN IF kept = <<>> THEN <<>> ELSE vote(kept)
        ELSE IF IsValidator(s) THEN vote(<<s>>) ELSE <<>>

\* NPOS_MAX_ITERATIONS_COEFFICIENT
NposMaxIterationsCoefficient == 2

\* MUTANT: the loop gives up after as many voters as it may return.
KeepsIteratingOnce(taken, seen, max) == taken < max /\ seen < max

\* The condition of get_npos_voters' loop.
KeepsIterating(taken, seen, max) ==
    taken < max /\ seen < NposMaxIterationsCoefficient * max

\* get_npos_voters: the loop over the list in the given order.
GetNposVoters(order, cap) ==
    LET max == IF cap = None \/ Len(order) < cap THEN Len(order) ELSE cap
        voters[i \in 0..Len(order)] ==
          IF i = 0 THEN <<>>
          ELSE IF KeepsIterating(Len(voters[i - 1]), i - 1, max)
               THEN voters[i - 1] \o VoterEntry(order[i])
               ELSE voters[i - 1]
    IN  voters[Len(order)]

\* get_npos_targets, and electable_targets' check of the limit.
GetNposTargets == {s \in Stashes : IsValidator(s)}

ElectableTargets(cap) ==
    IF cap # None /\ counters.validators > cap THEN None ELSE GetNposTargets

\* The voter list that needs no other pallet, UseNominatorsAndValidatorsMap:
\* what `contains` and `count` say of the two maps themselves.
MapContains(s) == IsValidator(s) \/ IsNominator(s)

MapCount == counters.validators + counters.nominators

-----------------------------------------------------------------------------
(***************************************************************************)
(* Properties.                                                             *)
(***************************************************************************)
\* The sorted list holds exactly the stakers, each once and with one role,
\* all of them bonded and decodable, and the counters agree: what the debug
\* assertions of do_add_nominator and its siblings, genesis build and the v9
\* migration's post_upgrade expect.
VoterListIsStakers ==
    live =>
      /\ \A s \in Stashes :
           /\ (voter_list[s] # None) <=> MapContains(s)
           /\ ~(IsValidator(s) /\ IsNominator(s))
           /\ MapContains(s) => active[s] # None
           /\ IsNominator(s) => nominators[s] \in Nominations
           /\ IsValidator(s) => validators[s] \in ValidatorPrefs
      /\ MapCount = Cardinality({s \in Stashes : voter_list[s] # None})
      /\ counters.validators = Cardinality(GetNposTargets)

\* Whatever the order inside the bags and whatever the limit: a snapshot
\* names no voter twice and no more than the limit, and it omits a voter who
\* has a vote to give only when it is full of voters of bags as large, or
\* when twice the limit of voters come first.  Without a limit nobody is left
\* out.  The targets are as many as the counter says, so that the limit
\* electable_targets checks the counter against is the targets' limit too.
SnapshotIsFair ==
    live => \A order \in ListOrders(voter_list), cap \in Caps :
      LET voters == GetNposVoters(order, cap)
          taken == {voters[i].who : i \in DOMAIN voters}
          full == cap # None /\ Len(voters) = cap
      IN  /\ Cardinality(taken) = Len(voters)
          /\ cap # None => Len(voters) <= cap
          /\ cap # None /\ ElectableTargets(cap) # None =>
               Cardinality(ElectableTargets(cap)) <= cap
          /\ \A s \in Stashes \ taken :
               VoterEntry(s) # <<>> =>
                 \/ full /\ \A t \in taken : voter_list[t] >= voter_list[s]
                 \/ cap # None /\ \E i \in DOMAIN order :
                      order[i] = s /\ i > NposMaxIterationsCoefficient * cap

\* A vote that a slash has voided does not come back unless the nominator
\* votes again, or the slashed stash is killed and its record with it.
VoidVotesStayVoid ==
    [][\A s, t \in Stashes :
         /\ IsNominator(s)
         /\ nominators'[s] # None
         /\ nominators'[s].submitted_in = nominators[s].submitted_in
         /\ ~VoteIsLive(s, t)
         /\ VoteIsLive(s, t)'
         => active'[t] = None]_vars

=============================================================================
