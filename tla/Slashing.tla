------------------------------ MODULE Slashing ------------------------------
(***************************************************************************)
(* How much an offence costs (frame/staking/src/slashing.rs).              *)
(*                                                                         *)
(* Offences are found late and out of order, of any era that is still      *)
(* bonded.  A stash pays, for each of its slashing SPANS, the largest      *)
(* slash of an era of the span and not the sum; a slash in the ongoing     *)
(* span ends it.  The spans of a stash tile the eras from the oldest one   *)
(* kept on: they are stored as the start of the ongoing span and the       *)
(* lengths of the ones before it, and pruned against the bonding window.   *)
(* Beside the amounts, an offence makes its validator an offending one,    *)
(* may disable it, and may force an era.                                   *)
(*                                                                         *)
(* What is charged here is deferred and enacted in StakingLedger.  Each    *)
(* offender of a report is a step: on_offence takes them one by one.       *)
(***************************************************************************)
EXTENDS Eras, Perbill, Totals, Sequences

CONSTANTS
    Validators,         \* the stashes elections choose from
    Nominators,
    ExposureOwn,        \* what an elected validator exposes of its own
    ExposureOthers,     \* and of each nominator: 0 if it does not back it
    ElectionResults,    \* the sets of validators an election may give
    Fractions,          \* the slash fractions of reports
    Strategies,         \* the disable strategies of offences
    RewardProportion,   \* SlashRewardFraction
    OffendingThreshold, \* T::OffendingValidatorsThreshold
    BondingDuration,    \* T::BondingDuration
    MaxReports          \* BOUND: offences reported in a behaviour

Stashes == Validators \cup Nominators

\* A span index grows by one for an offence.
SpanIndex == 0..MaxReports

SpansRecord == [span_index : SpanIndex, last_start : Nat,
                last_nonzero_slash : Nat, prior : Seq(Nat)]

ASSUME SlashingAssumption ==
    /\ IsFiniteSet(Validators)
    /\ Validators \cap Nominators = {}
    /\ None \notin BOOLEAN
    /\ None \notin SpansRecord
    /\ ExposureOwn \in [Validators -> Nat]
    /\ ExposureOthers \in [Validators -> [Nominators -> Nat]]
    /\ ElectionResults \subseteq (SUBSET Validators) \ {{}}
    /\ Fractions \subseteq Parts
    /\ Strategies \subseteq {"Never", "WhenSlashed", "Always"}
    /\ RewardProportion \in Parts
    /\ OffendingThreshold \in Parts
    /\ BondingDuration \in Nat
    /\ MaxReports \in Nat

VARIABLES
    elected,                \* the validators of each era, {} where unplanned
    validator_slash_in_era, \* ValidatorSlashInEra: the proportion, 0 if none
    nominator_slash_in_era, \* NominatorSlashInEra
    slashing_spans,         \* SlashingSpans: None, or a record of spans
    span_slash,             \* SpanSlash: slashed and paid_out, by span index
    offending_validators,   \* OffendingValidators: None, or whether disabled
    disabled,               \* pallet_session's DisabledValidators
    \* History variables.
    charged,                \* what a stash was charged for each span
    offended,               \* the slash of an era, for which it is charged
    reports,                \* the number of offences so far
    eras_forbidden          \* Root forbade eras after the last offender that
                            \* reached the threshold

spanVars == <<validator_slash_in_era, nominator_slash_in_era, slashing_spans,
              span_slash, charged, offended>>
slashingVars == <<eraVars, elected, spanVars, offending_validators, disabled,
                  reports, eras_forbidden>>

NoRecord == [slashed |-> 0, paid_out |-> 0]

BiggerOf(a, b) == IF a >= b THEN a ELSE b

-----------------------------------------------------------------------------
(***************************************************************************)
(* The spans of a stash.  Span k is the k-th before the ongoing one, which *)
(* is span 0.                                                              *)
(***************************************************************************)

\* SlashingSpans::new
NewSpans(window_start) ==
    [span_index |-> 0, last_start |-> window_start, last_nonzero_slash |-> 0,
     prior |-> <<>>]

\* SlashingSpans::iter
Spans(spans) == 0..Len(spans.prior)
SpanStart(spans, k) == spans.last_start - Total(spans.prior, 1..k)

\* SlashingSpan::contains_era
ContainsEra(spans, k, era) ==
    /\ SpanStart(spans, k) <= era
    /\ k > 0 => era < SpanStart(spans, k - 1)

\* SlashingSpans::end_span
EndSpan(spans, now) ==
    IF now + 1 <= spans.last_start THEN spans
    ELSE [spans EXCEPT !.prior = <<now + 1 - spans.last_start>> \o @,
                       !.last_start = now + 1,
                       !.span_index = @ + 1]

\* MUTANT: a span that begins before the window is dropped, though it reaches
\* into it.
KeptSpansByStart(spans, window_start) ==
    {k \in 1..Len(spans.prior) : SpanStart(spans, k) > window_start}

\* The earlier spans prune keeps: those that reach into the window.
KeptSpans(spans, window_start) ==
    {k \in 1..Len(spans.prior) : SpanStart(spans, k - 1) > window_start}

\* prune
Prune(spans, window_start) ==
    [spans EXCEPT
       !.prior = SubSeq(@, 1, Cardinality(KeptSpans(spans, window_start))),
       !.last_start = BiggerOf(@, window_start)]

\* MUTANT: the record of the earliest span that is kept goes too.
PrunedIndicesInclusive(spans, window_start) ==
    LET kept == Cardinality(KeptSpans(spans, window_start))
    IN  IF kept = Len(spans.prior) THEN {}
        ELSE (spans.span_index - Len(spans.prior))..(spans.span_index - kept)

\* The span indices whose records go with the spans prune drops.
PrunedIndices(spans, window_start) ==
    (spans.span_index - Len(spans.prior))
      ..(spans.span_index - Cardinality(KeptSpans(spans, window_start)) - 1)

\* The first era of the bonding period.
WindowStart == SaturatingSub(active_era, BondingDuration)

\* fetch_spans
FetchSpans(s) ==
    IF slashing_spans[s] = None THEN NewSpans(WindowStart)
    ELSE slashing_spans[s]

\* What is written when an inspection of the spans of a stash ends (`drop`):
\* they are pruned if anything has changed.
Inspected(spans, records, dirty) ==
    [spans |-> IF dirty THEN Prune(spans, WindowStart) ELSE spans,
     records |-> [i \in SpanIndex |->
                    IF dirty /\ i \in PrunedIndices(spans, WindowStart)
                    THEN NoRecord ELSE records[i]]]

REWARD_F1 == FromRational(1, 2)

\* MUTANT: what was paid for the span before is not taken off.
SpanRewardAgain(record, slash) ==
    IF slash < record.slashed THEN 0
    ELSE MulNearest(REWARD_F1, MulNearest(RewardProportion, slash))

\* The reward for a slash that is the largest of its span, or as large.
SpanReward(record, slash) ==
    IF slash < record.slashed THEN 0
    ELSE MulNearest(REWARD_F1,
                    SaturatingSub(MulNearest(RewardProportion, slash),
                                  record.paid_out))

\* The span record after a slash of `slash` in one of its eras.
RecordAfter(record, slash) ==
    [slashed |-> BiggerOf(record.slashed, slash),
     paid_out |-> record.paid_out + SpanReward(record, slash)]

\* A slash in the ongoing span ends it.
AfterSpanSlash(spans, k) == IF k = 0 THEN EndSpan(spans, active_era) ELSE spans

\* The spans that have an era: one, or none.
EraSpan(spans, era) == {k \in Spans(spans) : ContainsEra(spans, k, era)}

\* compare_and_update_span_slash for a slash in slash_era, which is in the
\* span k of the stash, and the end of that span if it is the ongoing one.
CompareAndUpdate(s, k, slash_era, slash) ==
    LET spans == FetchSpans(s)
        index == spans.span_index - k
        before == span_slash[s][index]
        after == RecordAfter(before, slash)
        marked == [spans EXCEPT !.last_nonzero_slash =
                     IF after.slashed > before.slashed
                     THEN BiggerOf(@, slash_era) ELSE @]
        ended == AfterSpanSlash(marked, k)
    IN  Inspected(ended, [span_slash[s] EXCEPT ![index] = after],
                  before # after \/ marked # ended)

\* The spans, the records and the charges of a stash after a slash; without a
\* span for the era only the fetched spans are stored.
SpansAfter(s, slash_era, slash) ==
    LET ks == EraSpan(FetchSpans(s), slash_era)
    IN  IF ks = {} THEN Inspected(FetchSpans(s), span_slash[s], FALSE)
        ELSE CompareAndUpdate(s, CHOOSE k \in ks : TRUE, slash_era, slash)

ChargedAfter(s, slash_era, slash) ==
    LET spans == FetchSpans(s)
        ks == EraSpan(spans, slash_era)
    IN  [i \in SpanIndex |->
           IF spans.span_index - i \in ks
           THEN charged[s][i] + RecordAfter(span_slash[s][i], slash).slashed
                              - span_slash[s][i].slashed
           ELSE charged[s][i]]

-----------------------------------------------------------------------------
\* Genesis elects the same validators for the eras it plans.
SlashingInit ==
    /\ ErasInit
    /\ \E winners \in ElectionResults :
         elected = [e \in Era |-> IF e <= current_era THEN winners ELSE {}]
    /\ validator_slash_in_era = [e \in Era |-> [v \in Validators |-> 0]]
    /\ nominator_slash_in_era = [e \in Era |-> [n \in Nominators |-> 0]]
    /\ slashing_spans = [s \in Stashes |-> None]
    /\ span_slash = [s \in Stashes |-> [i \in SpanIndex |-> NoRecord]]
    /\ offending_validators = [v \in Validators |-> None]
    /\ disabled = {}
    /\ charged = [s \in Stashes |-> [i \in SpanIndex |-> 0]]
    /\ offended = [s \in Stashes |-> [e \in Era |-> 0]]
    /\ reports = 0
    /\ eras_forbidden = FALSE

-----------------------------------------------------------------------------
(***************************************************************************)
(* Offences.                                                               *)
(***************************************************************************)

\* FilterHistoricalOffences: a report from before the bonding period is
\* discarded.
InBondingPeriod(slash_era) == WindowStart <= slash_era

\* The era of a report is the active one or one that is still bonded, and its
\* offender was a validator then.
Reportable(v, slash_era) ==
    /\ reports < MaxReports
    /\ InBondingPeriod(slash_era) /\ slash_era <= active_era
    /\ v \in elected[slash_era]

ExposureTotal(v) ==
    ExposureOwn[v] + Total(ExposureOthers[v], Nominators)

Offenders == {v \in Validators : offending_validators[v] # None}

\* MUTANT: the offender that reaches the threshold is not counted.
ReachesThresholdLate ==
    Cardinality(Offenders)
      >= MulNearest(OffendingThreshold, Cardinality(elected[active_era]))

\* With one more offender there are enough to force an era.
ReachesThreshold ==
    Cardinality(Offenders) + 1
      >= MulNearest(OffendingThreshold, Cardinality(elected[active_era]))

\* add_offending_validator, for a validator of the session or a former one.
AddOffendingValidator(v, disable) ==
    IF v \notin elected[active_era]
    THEN UNCHANGED <<eraVars, offending_validators, disabled, eras_forbidden>>
    ELSE /\ offending_validators' =
              [offending_validators EXCEPT ![v] = disable \/ @ = TRUE]
         /\ disabled' = IF disable /\ offending_validators[v] # TRUE
                        THEN disabled \cup {v} ELSE disabled
         /\ IF /\ offending_validators[v] = None
               /\ ReachesThreshold
               /\ force_era \notin {"ForceNew", "ForceAlways"}
            THEN EnsureNewEra
            ELSE UNCHANGED eraVars
         /\ eras_forbidden' =
              (eras_forbidden
                 /\ ~(offending_validators[v] = None /\ ReachesThreshold))

\* kick_out_if_recent: an offence that costs nothing.
OffenceWithoutSlash(v, slash_era, fraction, disable_strategy) ==
    /\ Reportable(v, slash_era)
    /\ MulNearest(fraction, ExposureTotal(v)) = 0
    /\ LET spans == FetchSpans(v)
           ended == IF 0 \in EraSpan(spans, slash_era)
                    THEN EndSpan(spans, active_era) ELSE spans
           after == Inspected(ended, span_slash[v], ended # spans)
       IN  /\ slashing_spans' = [slashing_spans EXCEPT ![v] = after.spans]
           /\ span_slash' = [span_slash EXCEPT ![v] = after.records]
    /\ AddOffendingValidator(v, disable_strategy = "Always")
    /\ reports' = reports + 1
    /\ UNCHANGED <<elected, validator_slash_in_era, nominator_slash_in_era,
                   charged, offended>>

\* A nominator's slash in an era is what all validators it backs lost it: the
\* part of a report beyond earlier ones about the same validator is added.
NominatorEraSlash(n, v, slash_era, fraction) ==
    nominator_slash_in_era[slash_era][n]
      + SaturatingSub(
          MulNearest(fraction, ExposureOthers[v][n]),
          MulNearest(validator_slash_in_era[slash_era][v],
                     ExposureOthers[v][n]))

\* compute_slash for a fraction that is the largest for the validator in the
\* era: the validator and all who back it are charged.
OffenceWithSlash(v, slash_era, fraction, disable_strategy) ==
    LET backers == {n \in Nominators : ExposureOthers[v][n] > 0}
        era_slash(s) == IF s = v THEN MulNearest(fraction, ExposureOwn[v])
                        ELSE NominatorEraSlash(s, v, slash_era, fraction)
        hit == {v} \cup backers
    IN  /\ Reportable(v, slash_era)
        /\ MulNearest(fraction, ExposureTotal(v)) # 0
        /\ fraction > validator_slash_in_era[slash_era][v]
        /\ validator_slash_in_era' =
             [validator_slash_in_era EXCEPT ![slash_era][v] = fraction]
        /\ nominator_slash_in_era' =
             [nominator_slash_in_era EXCEPT ![slash_era] =
                [n \in Nominators |-> IF n \in backers THEN era_slash(n)
                                      ELSE @[n]]]
        /\ slashing_spans' =
             [s \in Stashes |->
                IF s \in hit THEN SpansAfter(s, slash_era, era_slash(s)).spans
                ELSE slashing_spans[s]]
        /\ span_slash' =
             [s \in Stashes |->
                IF s \in hit
                THEN SpansAfter(s, slash_era, era_slash(s)).records
                ELSE span_slash[s]]
        /\ charged' =
             [s \in Stashes |->
                IF s \in hit THEN ChargedAfter(s, slash_era, era_slash(s))
                ELSE charged[s]]
        /\ offended' =
             [s \in Stashes |->
                IF s \in hit
                THEN [offended[s] EXCEPT ![slash_era] = era_slash(s)]
                ELSE offended[s]]
        /\ AddOffendingValidator(v, disable_strategy # "Never")
        /\ reports' = reports + 1
        /\ UNCHANGED elected

\* clear_stash_metadata, when a stash stops being bonded; it may bond again.
ClearStashMetadata(s) ==
    /\ in_block
    /\ slashing_spans[s] # None
    /\ slashing_spans' = [slashing_spans EXCEPT ![s] = None]
    /\ span_slash' = [span_slash EXCEPT ![s] =
                        [i \in SpanIndex |->
                           IF \E k \in Spans(slashing_spans[s]) :
                                i = slashing_spans[s].span_index - k
                           THEN NoRecord ELSE @[i]]]
    /\ charged' = [charged EXCEPT ![s] = [i \in SpanIndex |-> 0]]
    /\ offended' = [offended EXCEPT ![s] = [e \in Era |-> 0]]
    /\ UNCHANGED <<eraVars, elected, validator_slash_in_era,
                   nominator_slash_in_era, offending_validators, disabled,
                   reports, eras_forbidden>>

-----------------------------------------------------------------------------
(***************************************************************************)
(* The clock.                                                              *)
(***************************************************************************)

\* clear_era_metadata, for the eras start_era drops from BondedEras.
ClearEraMetadata ==
    LET obsolete == {e \in Era : StartsEra /\ e + BondingDuration
                                                < active_era + 1}
    IN  /\ validator_slash_in_era' =
             [e \in Era |-> IF e \in obsolete THEN [v \in Validators |-> 0]
                            ELSE validator_slash_in_era[e]]
        /\ nominator_slash_in_era' =
             [e \in Era |-> IF e \in obsolete THEN [n \in Nominators |-> 0]
                            ELSE nominator_slash_in_era[e]]

\* MUTANT: start_session leaves the disabled validators to the session pallet.
DisabledInSessionReset(changed) == IF changed THEN {} ELSE disabled

\* The validators that are disabled when the session begins: the session
\* pallet forgets them if the set or a key has changed, and start_session
\* disables again who offended in this era.
DisabledInSession(changed) ==
    (IF changed THEN {} ELSE disabled)
      \cup (IF EndsEra THEN {}
            ELSE {v \in Validators : offending_validators[v] = TRUE})

\* A rotation.  `winners` is what an election that new_session asks for gives,
\* {} if it fails; `keys` says whether a validator changed its session keys.
RotateBlock(winners, keys) ==
    /\ BeginBlockRotating(winners # {})
    /\ elected' = IF PlansEra(winners # {})
                  THEN [elected EXCEPT ![current_era + 1] = winners]
                  ELSE elected
    /\ offending_validators' = IF EndsEra /\ active_start
                               THEN [v \in Validators |-> None]
                               ELSE offending_validators
    /\ disabled' = DisabledInSession(
                     keys \/ elected[active_era'] # elected[active_era])
    /\ ClearEraMetadata
    /\ UNCHANGED <<slashing_spans, span_slash, charged, offended, reports,
                   eras_forbidden>>

Tick ==
    /\ BeginBlock \/ OnFinalize
    /\ UNCHANGED <<elected, spanVars, offending_validators, disabled, reports,
                   eras_forbidden>>

\* force_no_eras, force_new_era and force_new_era_always, at any time: Root's
\* call stands against what an offence has forced, and an offence against it.
RootForces ==
    /\ \/ ForceNoEras /\ eras_forbidden' = TRUE
       \/ ForceNewEra /\ eras_forbidden' = FALSE
       \/ ForceNewEraAlways /\ eras_forbidden' = FALSE
    /\ UNCHANGED <<elected, spanVars, offending_validators, disabled, reports>>

SlashingNext ==
    \/ Tick
    \/ RootForces
    \/ \E winners \in ElectionResults \cup {{}}, keys \in BOOLEAN :
         RotateBlock(winners, keys)
    \/ \E v \in Validators, e \in Era, fraction \in Fractions,
          strategy \in Strategies :
         \/ OffenceWithoutSlash(v, e, fraction, strategy)
         \/ OffenceWithSlash(v, e, fraction, strategy)
    \/ \E s \in Stashes : ClearStashMetadata(s)

SlashingSpec == SlashingInit /\ [][SlashingNext]_slashingVars

-----------------------------------------------------------------------------
(***************************************************************************)
(* Properties.                                                             *)
(***************************************************************************)

\* The spans of a stash, as they are kept after any endings and prunings, have
\* every era an offence may be reported of, so that no report is lost to
\* compare_and_update_span_slash.
SpansCoverWindow ==
    \A s \in Stashes : slashing_spans[s] # None =>
        /\ slashing_spans[s] \in SpansRecord
        /\ \A e \in Era :
             e >= WindowStart => EraSpan(slashing_spans[s], e) # {}

\* "we only slash participants for the _maximum_ slash they receive in some
\* time period, rather than the sum": whatever the order of the reports, a
\* stash was charged for a span what its worst era there costs, for no span
\* less and for none more.
SpanPaysMaximum ==
    \A s \in Stashes : slashing_spans[s] # None =>
        \A k \in Spans(slashing_spans[s]) :
            LET paid == charged[s][slashing_spans[s].span_index - k]
            IN  /\ \A e \in Era : e >= WindowStart
                                    /\ ContainsEra(slashing_spans[s], k, e)
                                      => paid >= offended[s][e]
                /\ paid # 0 => \E e \in Era : paid = offended[s][e]

\* "The maximum percentage of a slash that ever gets paid out": the rewards
\* for all reports about a span stay within SlashRewardFraction of its slash.
RewardWithinFraction ==
    \A s \in Stashes, i \in SpanIndex :
        span_slash[s][i].paid_out
          <= MulNearest(RewardProportion, span_slash[s][i].slashed)

\* "disable all offending validators that have been disabled for the whole
\* era": they stay disabled through the sessions of the era, although the
\* session pallet forgets them.
OffendersStayDisabled ==
    \A v \in Validators : offending_validators[v] = TRUE => v \in disabled

\* "If after adding the validator OffendingValidatorsThreshold is reached a
\* new era will be forced": as long as so many have offended, a new era is
\* planned or will be at the next rotation at which the election succeeds,
\* through failing elections, rotations and changes of the forcing - also when
\* Root had forbidden eras before.  The exception is Root forbidding them
\* after the last offender that reached the threshold: that call stands.
OffendersForceEra ==
    /\ Offenders # {}
    /\ Cardinality(Offenders)
         >= MulNearest(OffendingThreshold, Cardinality(elected[active_era]))
    => \/ force_era \in {"ForceNew", "ForceAlways"}
       \/ current_era > active_era
       \/ eras_forbidden /\ force_era = "ForceNone"
=============================================================================
