----------------------- MODULE SlashingAndFeesProofs -----------------------
(***************************************************************************)
(* Theorems on offending validators, slashing spans, what a span costs and *)
(* what reporters are paid (module Slashing), for every set of validators, *)
(* every exposure and every order of reports; and on the currency (modules *)
(* Genesis and Fees): what slashes take, like every other movement of      *)
(* money, is somewhere, for every specification, fee and amount.           *)
(***************************************************************************)
EXTENDS Slashing, Fees, ErasProofs, TotalsProofs

\* The inductive invariant.  Both properties need the clock: an era's
\* offenders are forgotten exactly when its successor starts, because the two
\* happen in the same rotation and the era has its start time by then.
OffenceIInv ==
    /\ ErasIInv
    /\ StartedBetweenBlocks
    /\ elected \in [Era -> SUBSET Validators]
    /\ offending_validators \in [Validators -> BOOLEAN \cup {None}]
    /\ eras_forbidden \in BOOLEAN
    /\ OffendersStayDisabled
    /\ OffendersForceEra

-----------------------------------------------------------------------------
\* Every step is a step of the era clock, or leaves it alone.
LEMMA SlashingStepsClock == [SlashingNext]_slashingVars => [ErasNext]_eraVars
<1> SUFFICES ASSUME [SlashingNext]_slashingVars
             PROVE  [ErasNext]_eraVars
  OBVIOUS
<1>1. CASE Tick
  BY <1>1 DEF Tick, ErasNext
<1>2. ASSUME NEW winners, NEW keys, RotateBlock(winners, keys)
      PROVE  ErasNext
  <2>1. BeginBlockRotating(winners # {}) /\ (winners # {}) \in BOOLEAN
    BY <1>2 DEF RotateBlock
  <2> QED BY <2>1 DEF ErasNext
<1>3. ASSUME NEW v, NEW e, NEW fraction, NEW strategy,
             OffenceWithoutSlash(v, e, fraction, strategy)
               \/ OffenceWithSlash(v, e, fraction, strategy)
      PROVE  EnsureNewEra \/ UNCHANGED eraVars
  BY <1>3 DEF OffenceWithoutSlash, OffenceWithSlash, AddOffendingValidator
<1>4. ASSUME NEW s, ClearStashMetadata(s)
      PROVE  UNCHANGED eraVars
  BY <1>4 DEF ClearStashMetadata
<1>5. CASE RootForces
  BY <1>5 DEF RootForces, ErasNext
<1>6. CASE UNCHANGED slashingVars
  BY <1>6 DEF slashingVars
<1> QED BY <1>1, <1>2, <1>3, <1>4, <1>5, <1>6 DEF SlashingNext, ErasNext

\* What a call of Root leaves alone, and the forcing it leaves behind.
LEMMA RootForcesOnly ==
    ASSUME RootForces
    PROVE  /\ UNCHANGED <<active_era, current_era, elected, spanVars,
                          offending_validators, disabled, reports>>
           /\ eras_forbidden' \in BOOLEAN
           /\ \/ force_era' \in {"ForceNew", "ForceAlways"}
              \/ eras_forbidden' /\ force_era' = "ForceNone"
BY DEF RootForces, ForceNoEras, ForceNewEra, ForceNewEraAlways, PutForcing

\* The clock keeps its part of the invariant.
LEMMA ClockInv ==
    ASSUME U32 - 1 \notin HistoryDepths, OffenceIInv,
           [SlashingNext]_slashingVars
    PROVE  ErasIInv' /\ StartedBetweenBlocks'
<1>1. [ErasNext]_eraVars
  BY SlashingStepsClock
<1>2. ErasIInv'
  BY <1>1, ErasNextInv DEF OffenceIInv
<1>3. StartedBetweenBlocks'
  BY <1>1 DEF OffenceIInv, StartedBetweenBlocks, ErasNext, eraVars,
              BeginBlock, BeginBlockRotating, RotateSession, OnFinalize,
              SetHistoryDepth, ForceNoEras, ForceNewEra, ForceNewEraAlways,
              EnsureNewEra, PutForcing
<1> QED BY <1>2, <1>3

\* At genesis nobody has offended.
LEMMA OffenceInit == SlashingInit => OffenceIInv
<1> SUFFICES ASSUME SlashingInit PROVE OffenceIInv
  OBVIOUS
<1>1. ErasIInv
  BY ErasInitInv DEF SlashingInit
<1>2. StartedBetweenBlocks
  BY DEF SlashingInit, ErasInit, StartedBetweenBlocks
<1>3. elected \in [Era -> SUBSET Validators]
  BY SlashingAssumption DEF SlashingInit
<1>4. /\ offending_validators = [v \in Validators |-> None]
      /\ eras_forbidden = FALSE
  BY DEF SlashingInit
<1>5. OffendersStayDisabled /\ OffendersForceEra
  <2>1. None # TRUE
    BY SlashingAssumption
  <2>2. Offenders = {}
    BY <1>4 DEF Offenders
  <2> QED BY <1>4, <2>1, <2>2 DEF OffendersStayDisabled, OffendersForceEra
<1> QED BY <1>1, <1>2, <1>3, <1>4, <1>5 DEF OffenceIInv

\* add_offending_validator: who reaches the threshold forces an era.
LEMMA AddOffendingInv ==
    ASSUME OffenceIInv, NEW v \in Validators, NEW disable \in BOOLEAN,
           AddOffendingValidator(v, disable), UNCHANGED elected
    PROVE  /\ offending_validators' \in [Validators -> BOOLEAN \cup {None}]
           /\ eras_forbidden' \in BOOLEAN
           /\ OffendersStayDisabled'
           /\ OffendersForceEra'
<1>1. /\ offending_validators \in [Validators -> BOOLEAN \cup {None}]
      /\ None \notin BOOLEAN
      /\ eras_forbidden \in BOOLEAN
      /\ OffendersStayDisabled
      /\ OffendersForceEra
  BY SlashingAssumption DEF OffenceIInv
<1>2. active_era' = active_era /\ current_era' = current_era
  BY DEF AddOffendingValidator, EnsureNewEra, PutForcing, eraVars
<1>3. CASE v \notin elected[active_era]
  BY <1>1, <1>3 DEF AddOffendingValidator, eraVars, OffendersStayDisabled,
                    OffendersForceEra, Offenders
<1>4. CASE v \in elected[active_era]
  <2>1. /\ offending_validators' =
             [offending_validators EXCEPT
                ![v] = disable \/ offending_validators[v] = TRUE]
        /\ disabled' = IF disable /\ offending_validators[v] # TRUE
                       THEN disabled \cup {v} ELSE disabled
        /\ IF /\ offending_validators[v] = None
              /\ ReachesThreshold
              /\ force_era \notin {"ForceNew", "ForceAlways"}
           THEN EnsureNewEra ELSE UNCHANGED eraVars
        /\ eras_forbidden' =
             (eras_forbidden
                /\ ~(offending_validators[v] = None /\ ReachesThreshold))
    BY <1>4 DEF AddOffendingValidator
  <2>0. eras_forbidden' \in BOOLEAN
    BY <2>1
  <2>2. /\ offending_validators' \in [Validators -> BOOLEAN \cup {None}]
        /\ offending_validators'[v] \in BOOLEAN
        /\ offending_validators'[v] = TRUE
             => disable \/ offending_validators[v] = TRUE
        /\ \A w \in Validators : w # v =>
             offending_validators'[w] = offending_validators[w]
    BY <1>1, <2>1
  <2>3. OffendersStayDisabled'
    <3> SUFFICES ASSUME NEW w \in Validators, offending_validators'[w] = TRUE
                 PROVE  w \in disabled'
      BY DEF OffendersStayDisabled
    <3>1. CASE w = v
      BY <3>1, <1>1, <2>1, <2>2 DEF OffendersStayDisabled
    <3>2. CASE w # v
      BY <3>2, <1>1, <2>1, <2>2 DEF OffendersStayDisabled
    <3> QED BY <3>1, <3>2
  <2>4. Offenders' = Offenders \cup {v}
    BY <1>1, <2>2 DEF Offenders
  <2>5. CASE offending_validators[v] # None
    <3>1. Offenders' = Offenders /\ force_era' = force_era
      BY <2>1, <2>4, <2>5 DEF Offenders, eraVars
    <3>3. eras_forbidden' = eras_forbidden
      BY <1>1, <2>1, <2>5
    <3>2. Offenders # {}
      BY <2>5 DEF Offenders
    <3> QED BY <1>1, <1>2, <2>0, <2>2, <2>3, <3>1, <3>2, <3>3
            DEF OffendersForceEra
  <2>6. CASE offending_validators[v] = None
    <3>1. /\ v \notin Offenders
          /\ IsFiniteSet(Offenders)
      <4>1. Offenders \subseteq Validators /\ v \notin Offenders
        BY <2>6 DEF Offenders
      <4> QED BY <4>1, SlashingAssumption, FS_Subset
    <3>2. Cardinality(Offenders') = Cardinality(Offenders) + 1
      BY <2>4, <3>1, FS_AddElement
    <3>3. CASE ReachesThreshold
      <4>1. force_era' \in {"ForceNew", "ForceAlways"}
        BY <2>1, <2>6, <3>3 DEF EnsureNewEra, PutForcing, eraVars
      <4> QED BY <2>0, <2>2, <2>3, <4>1 DEF OffendersForceEra
    <3>4. CASE ~ReachesThreshold
      <4>1. ~(Cardinality(Offenders')
                >= MulNearest(OffendingThreshold,
                              Cardinality(elected'[active_era'])))
        BY <1>2, <3>2, <3>4 DEF ReachesThreshold
      <4> QED BY <2>0, <2>2, <2>3, <4>1 DEF OffendersForceEra
    <3> QED BY <3>3, <3>4
  <2> QED BY <2>5, <2>6
<1> QED BY <1>3, <1>4

\* A rotation forgets the offenders with their era, or keeps both.
LEMMA RotateOffenceInv ==
    ASSUME OffenceIInv, NEW winners \in ElectionResults \cup {{}},
           NEW keys \in BOOLEAN, RotateBlock(winners, keys)
    PROVE  /\ elected' \in [Era -> SUBSET Validators]
           /\ offending_validators' \in [Validators -> BOOLEAN \cup {None}]
           /\ eras_forbidden' \in BOOLEAN
           /\ OffendersStayDisabled'
           /\ OffendersForceEra'
<1> DEFINE ok == winners # {}
<1>1. /\ RotateSession(ok)
      /\ active_start
      /\ elected' = IF PlansEra(ok)
                    THEN [elected EXCEPT ![current_era + 1] = winners]
                    ELSE elected
      /\ offending_validators' = IF EndsEra /\ active_start
                                 THEN [v \in Validators |-> None]
                                 ELSE offending_validators
      /\ eras_forbidden' = eras_forbidden
  BY DEF RotateBlock, BeginBlockRotating, OffenceIInv, StartedBetweenBlocks
<1> HIDE DEF ok
<1>2. /\ session_index \in Nat /\ active_era \in Nat /\ active_era \in Era
      /\ active_era <= session_index
      /\ current_era \in Nat
      /\ eras_start_session_index \in [Era -> Nat \cup {None}]
      /\ None \notin Nat
      /\ active_era + 1 \in Era
      /\ EraPipeline /\ HistoryWindow
  BY <1>1, ErasAssumption
     DEF OffenceIInv, ErasIInv, ErasTypeOK, Era, RotateSession
<1>3. /\ offending_validators \in [Validators -> BOOLEAN \cup {None}]
      /\ elected \in [Era -> SUBSET Validators]
      /\ None \notin BOOLEAN
      /\ winners \in SUBSET Validators
      /\ eras_forbidden \in BOOLEAN
      /\ OffendersStayDisabled
      /\ OffendersForceEra
  BY SlashingAssumption DEF OffenceIInv
<1>4. elected' \in [Era -> SUBSET Validators]
  BY <1>1, <1>3
<1>5. offending_validators' \in [Validators -> BOOLEAN \cup {None}]
  BY <1>1, <1>3
<1>6. CASE EndsEra
  <2>1. /\ \A v \in Validators : offending_validators'[v] # TRUE
        /\ Offenders' = {}
    BY <1>1, <1>3, <1>6 DEF Offenders
  <2> QED BY <1>1, <1>3, <1>4, <1>5, <2>1
          DEF OffendersStayDisabled, OffendersForceEra
<1>7. CASE ~EndsEra
  <2>1. current_era = active_era /\ ~StartsEra
    BY <1>2, <1>7 DEF EndsEra, StartsEra, EraPipeline, HistoryWindow
  <2>2. /\ active_era' = active_era
        /\ offending_validators' = offending_validators
        /\ elected'[active_era'] = elected[active_era]
        /\ Offenders' = Offenders
    BY <1>1, <1>2, <1>3, <1>7, <2>1 DEF RotateSession, Offenders
  <2>3. OffendersStayDisabled'
    BY <1>7, <2>2 DEF RotateBlock, DisabledInSession, OffendersStayDisabled
  <2>4. OffendersForceEra'
    <3>1. CASE PlansEra(ok)
      <4>1. current_era' = active_era' + 1
        BY <3>1, <1>1, <2>1, <2>2 DEF RotateSession
      <4> QED BY <1>2, <2>2, <4>1 DEF OffendersForceEra
    <3>2. CASE ~PlansEra(ok)
      <4>1. force_era' = force_era /\ current_era' = current_era
        BY <3>2, <1>1 DEF RotateSession
      <4> QED BY <1>1, <1>3, <2>2, <4>1 DEF OffendersForceEra
    <3> QED BY <3>1, <3>2
  <2> QED BY <1>1, <1>3, <1>4, <1>5, <2>3, <2>4
<1> QED BY <1>6, <1>7

\* Every step preserves the invariant.
LEMMA OffenceNextInv ==
    ASSUME U32 - 1 \notin HistoryDepths, OffenceIInv,
           [SlashingNext]_slashingVars
    PROVE  OffenceIInv'
<1>1. ErasIInv' /\ StartedBetweenBlocks'
  BY ClockInv
<1> DEFINE Rest == /\ elected \in [Era -> SUBSET Validators]
                   /\ offending_validators
                        \in [Validators -> BOOLEAN \cup {None}]
                   /\ eras_forbidden \in BOOLEAN
                   /\ OffendersStayDisabled
                   /\ OffendersForceEra
<1>2. Rest
  BY DEF OffenceIInv
<1>3. ASSUME NEW winners \in ElectionResults \cup {{}}, NEW keys \in BOOLEAN,
             RotateBlock(winners, keys)
      PROVE  Rest'
  BY <1>3, RotateOffenceInv
<1>4. ASSUME NEW v \in Validators, NEW e \in Era, NEW fraction \in Fractions,
             NEW strategy \in Strategies,
             OffenceWithoutSlash(v, e, fraction, strategy)
      PROVE  Rest'
  <2>1. /\ AddOffendingValidator(v, strategy = "Always")
        /\ UNCHANGED elected
        /\ (strategy = "Always") \in BOOLEAN
    BY <1>4 DEF OffenceWithoutSlash
  <2> QED BY <1>2, <2>1, AddOffendingInv
<1>5. ASSUME NEW v \in Validators, NEW e \in Era, NEW fraction \in Fractions,
             NEW strategy \in Strategies,
             OffenceWithSlash(v, e, fraction, strategy)
      PROVE  Rest'
  <2>1. /\ AddOffendingValidator(v, strategy # "Never")
        /\ UNCHANGED elected
        /\ (strategy # "Never") \in BOOLEAN
    BY <1>5 DEF OffenceWithSlash
  <2> QED BY <1>2, <2>1, AddOffendingInv
<1>6. ASSUME UNCHANGED <<elected, offending_validators, disabled, active_era,
                         current_era, force_era, eras_forbidden>>
      PROVE  Rest'
  BY <1>2, <1>6 DEF OffendersStayDisabled, OffendersForceEra, Offenders
<1>7. ASSUME Tick PROVE Rest'
  BY <1>6, <1>7 DEF Tick, BeginBlock, OnFinalize
<1>8. ASSUME NEW s, ClearStashMetadata(s)
      PROVE  Rest'
  BY <1>6, <1>8 DEF ClearStashMetadata, eraVars
<1>9. ASSUME UNCHANGED slashingVars PROVE Rest'
  BY <1>6, <1>9 DEF slashingVars, eraVars
<1>10. ASSUME RootForces PROVE Rest'
  BY <1>2, <1>10, RootForcesOnly
     DEF OffendersStayDisabled, OffendersForceEra, Offenders
<1>11. Rest'
  BY <1>3, <1>4, <1>5, <1>7, <1>8, <1>9, <1>10 DEF SlashingNext
<1> QED BY <1>1, <1>11 DEF OffenceIInv

\* The inductive invariant of offences holds.
LEMMA OffenceInvariant ==
    ASSUME U32 - 1 \notin HistoryDepths
    PROVE  SlashingSpec => []OffenceIInv
<1>1. OffenceIInv /\ [SlashingNext]_slashingVars => OffenceIInv'
  BY OffenceNextInv
<1> QED BY <1>1, OffenceInit, PTL DEF SlashingSpec

\* start_session disables again, in every session of the era, the validators
\* that were disabled for an offence, although the session pallet forgets them
\* whenever the set or a key changes.
THEOREM DisabledForTheEra ==
    ASSUME U32 - 1 \notin HistoryDepths
    PROVE  SlashingSpec => []OffendersStayDisabled
<1>1. OffenceIInv => OffendersStayDisabled
  BY DEF OffenceIInv
<1> QED BY <1>1, OffenceInvariant, PTL

\* add_offending_validator's forcing is only lost to Root: while the threshold
\* is reached, an era is forced or one is planned, whatever elections fail,
\* whatever is reported and whatever Root had called before, unless Root calls
\* force_no_eras after the last offender that reached it.
THEOREM ThresholdForcesEra ==
    ASSUME U32 - 1 \notin HistoryDepths
    PROVE  SlashingSpec => []OffendersForceEra
<1>1. OffenceIInv => OffendersForceEra
  BY DEF OffenceIInv
<1> QED BY <1>1, OffenceInvariant, PTL

-----------------------------------------------------------------------------
(***************************************************************************)
(* The rewards for reports.                                                *)
(***************************************************************************)

SpanRecord == [slashed : Nat, paid_out : Nat]

\* The records of a stash pay no more than the fraction of what it lost.
GoodRecords(records) ==
    /\ records \in [SpanIndex -> SpanRecord]
    /\ \A i \in SpanIndex :
         records[i].paid_out <= MulNearest(RewardProportion, records[i].slashed)

\* The inductive invariant: the slashes of an era are amounts, so that every
\* record stays one.
RewardIInv ==
    /\ validator_slash_in_era \in [Era -> [Validators -> Parts]]
    /\ nominator_slash_in_era \in [Era -> [Nominators -> Nat]]
    /\ DOMAIN span_slash = Stashes
    /\ \A s \in Stashes : GoodRecords(span_slash[s])

\* A fraction of an amount is an amount.
LEMMA MulNearestNat ==
    ASSUME NEW part \in Parts, NEW x \in Nat
    PROVE  MulNearest(part, x) \in Nat
BY MulNearestBound

LEMMA NoRecordGood ==
    NoRecord \in SpanRecord
      /\ NoRecord.paid_out <= MulNearest(RewardProportion, NoRecord.slashed)
<1>1. MulNearest(RewardProportion, 0) \in 0..0
  BY MulNearestBound, SlashingAssumption
<1> QED BY <1>1 DEF NoRecord, SpanRecord

\* The reward for one more report stays within the fraction of the largest
\* slash: half of what is left of it at most, also after rounding.
LEMMA RecordAfterGood ==
    ASSUME NEW record \in SpanRecord, NEW slash \in Nat,
           record.paid_out <= MulNearest(RewardProportion, record.slashed)
    PROVE  /\ RecordAfter(record, slash) \in SpanRecord
           /\ RecordAfter(record, slash).paid_out
                <= MulNearest(RewardProportion,
                              RecordAfter(record, slash).slashed)
<1> DEFINE after == RecordAfter(record, slash)
           whole == MulNearest(RewardProportion, slash)
           left == SaturatingSub(whole, record.paid_out)
           reward == SpanReward(record, slash)
           limit == MulNearest(RewardProportion, after.slashed)
<1>1. record.slashed \in Nat /\ record.paid_out \in Nat
  BY DEF SpanRecord
<1>2. /\ after.slashed = BiggerOf(record.slashed, slash)
      /\ after.paid_out = record.paid_out + reward
      /\ after = [slashed |-> after.slashed, paid_out |-> after.paid_out]
  BY DEF RecordAfter
<1>3. /\ after.slashed \in Nat /\ after.slashed >= record.slashed
      /\ after.slashed >= slash
  BY <1>1, <1>2 DEF BiggerOf
<1>4. /\ whole \in Nat /\ limit \in Nat /\ whole <= limit
      /\ MulNearest(RewardProportion, record.slashed) \in Nat
      /\ MulNearest(RewardProportion, record.slashed) <= limit
  <2> HIDE DEF after
  <2>1. RewardProportion \in Parts /\ RewardProportion <= RewardProportion
    BY SlashingAssumption, PerbillAssumption DEF Parts
  <2> QED BY <1>1, <1>3, <2>1, MulNearestNat, MulNearestMonotone
<1>5. left \in Nat /\ left = IF whole >= record.paid_out
                              THEN whole - record.paid_out ELSE 0
  <2> HIDE DEF whole
  <2> QED BY <1>1, <1>4 DEF SaturatingSub
<1>6. REWARD_F1 \in Parts
  BY FromRationalType DEF REWARD_F1
<1>7. reward \in 0..left
  <2>1. MulNearest(REWARD_F1, left) \in 0..left
    <3> HIDE DEF left
    <3> QED BY <1>5, <1>6, MulNearestBound
  <2> QED BY <2>1, <1>5 DEF SpanReward
<1>8. after.paid_out \in Nat /\ after.paid_out <= limit
  <2> HIDE DEF after, whole, left, reward, limit
  <2> QED BY <1>1, <1>2, <1>4, <1>5, <1>7
<1>9. after \in SpanRecord
  <2> HIDE DEF after
  <2> QED BY <1>2, <1>3, <1>8 DEF SpanRecord
<1> QED BY <1>8, <1>9

\* Pruning only drops records.
LEMMA InspectedGood ==
    ASSUME NEW spans, NEW records, NEW dirty, GoodRecords(records)
    PROVE  GoodRecords(Inspected(spans, records, dirty).records)
<1> DEFINE P(i) == dirty /\ i \in PrunedIndices(spans, WindowStart)
           after == [i \in SpanIndex |-> IF P(i) THEN NoRecord ELSE records[i]]
<1>1. Inspected(spans, records, dirty).records = after
  BY DEF Inspected
<1>2. ASSUME NEW i \in SpanIndex
      PROVE  /\ after[i] \in SpanRecord
             /\ after[i].paid_out
                  <= MulNearest(RewardProportion, after[i].slashed)
  <2>1. after[i] = NoRecord \/ after[i] = records[i]
    OBVIOUS
  <2>2. /\ records[i] \in SpanRecord
        /\ records[i].paid_out
             <= MulNearest(RewardProportion, records[i].slashed)
    BY DEF GoodRecords
  <2> HIDE DEF after
  <2> QED BY <2>1, <2>2, NoRecordGood
<1>3. DOMAIN after = SpanIndex /\ after = [i \in SpanIndex |-> after[i]]
  OBVIOUS
<1>4. GoodRecords(after)
  <2> HIDE DEF after
  <2> QED BY <1>2, <1>3 DEF GoodRecords
<1> QED BY <1>1, <1>4

\* Whatever span a slash falls in, its record stays good.
LEMMA SpansAfterGood ==
    ASSUME NEW s, NEW slash_era, NEW slash \in Nat, GoodRecords(span_slash[s])
    PROVE  GoodRecords(SpansAfter(s, slash_era, slash).records)
<1> DEFINE ks == EraSpan(FetchSpans(s), slash_era)
<1>1. CASE ks = {}
  <2>1. SpansAfter(s, slash_era, slash)
          = Inspected(FetchSpans(s), span_slash[s], FALSE)
    BY <1>1 DEF SpansAfter
  <2> QED BY <2>1, InspectedGood
<1>2. CASE ks # {}
  <2> DEFINE k == CHOOSE j \in ks : TRUE
             index == FetchSpans(s).span_index - k
             after == RecordAfter(span_slash[s][index], slash)
             records == [span_slash[s] EXCEPT ![index] = after]
  <2>1. SpansAfter(s, slash_era, slash) = CompareAndUpdate(s, k, slash_era,
                                                           slash)
    BY <1>2 DEF SpansAfter
  <2>2. \E spans, dirty : CompareAndUpdate(s, k, slash_era, slash)
                            = Inspected(spans, records, dirty)
    BY DEF CompareAndUpdate
  <2>3. ASSUME index \in SpanIndex
        PROVE  /\ after \in SpanRecord
               /\ after.paid_out
                    <= MulNearest(RewardProportion, after.slashed)
    <3> HIDE DEF index
    <3>1. /\ span_slash[s][index] \in SpanRecord
          /\ span_slash[s][index].paid_out
               <= MulNearest(RewardProportion, span_slash[s][index].slashed)
      BY <2>3 DEF GoodRecords
    <3> QED BY <3>1, RecordAfterGood
  <2>4. GoodRecords(records)
    <3> HIDE DEF index, after
    <3> QED BY <2>3 DEF GoodRecords
  <2>5. PICK spans, dirty : CompareAndUpdate(s, k, slash_era, slash)
                              = Inspected(spans, records, dirty)
    BY <2>2
  <2>6. GoodRecords(Inspected(spans, records, dirty).records)
    <3> HIDE DEF records
    <3> QED BY <2>4, InspectedGood
  <2> HIDE DEF k, records
  <2> QED BY <2>1, <2>5, <2>6
<1> QED BY <1>1, <1>2

\* What an era costs a backer, which all validators it backs add to.
LEMMA NominatorEraSlashNat ==
    ASSUME RewardIInv, NEW v \in Validators, NEW e \in Era,
           NEW fraction \in Fractions, NEW n \in Nominators
    PROVE  NominatorEraSlash(n, v, e, fraction) \in Nat
<1> DEFINE new == MulNearest(fraction, ExposureOthers[v][n])
           old == MulNearest(validator_slash_in_era[e][v], ExposureOthers[v][n])
<1>1. /\ ExposureOthers[v][n] \in Nat /\ fraction \in Parts
      /\ validator_slash_in_era[e][v] \in Parts
      /\ nominator_slash_in_era[e][n] \in Nat
  BY SlashingAssumption DEF RewardIInv
<1>2. new \in Nat /\ old \in Nat
  BY <1>1, MulNearestNat
<1>3. NominatorEraSlash(n, v, e, fraction)
        = nominator_slash_in_era[e][n] + SaturatingSub(new, old)
  BY DEF NominatorEraSlash
<1> HIDE DEF new, old
<1> QED BY <1>1, <1>2, <1>3 DEF SaturatingSub

\* What the era of an offence costs the offender and a backer.
EraSlash(s, v, e, fraction) ==
    IF s = v THEN MulNearest(fraction, ExposureOwn[v])
    ELSE NominatorEraSlash(s, v, e, fraction)

\* The stashes an offence of a validator is charged to.
Hit(v) == {v} \cup {n \in Nominators : ExposureOthers[v][n] > 0}

LEMMA EraSlashNat ==
    ASSUME RewardIInv, NEW v \in Validators, NEW e \in Era,
           NEW fraction \in Fractions, NEW s \in Hit(v)
    PROVE  EraSlash(s, v, e, fraction) \in Nat
<1>1. CASE s = v
  <2>1. fraction \in Parts /\ ExposureOwn[v] \in Nat
    BY SlashingAssumption
  <2> QED BY <1>1, <2>1, MulNearestNat DEF EraSlash
<1>2. CASE s # v
  BY <1>2, NominatorEraSlashNat DEF Hit, EraSlash
<1> QED BY <1>1, <1>2

LEMMA HitAreStashes ==
    ASSUME NEW v \in Validators
    PROVE  Hit(v) \subseteq Stashes
BY DEF Hit, Stashes

\* An offence with a slash, stash by stash.
LEMMA OffenceByStash ==
    ASSUME NEW v \in Validators, NEW e \in Era, NEW fraction \in Fractions,
           NEW strategy, OffenceWithSlash(v, e, fraction, strategy)
    PROVE  /\ slashing_spans' =
                [s \in Stashes |->
                   IF s \in Hit(v)
                   THEN SpansAfter(s, e, EraSlash(s, v, e, fraction)).spans
                   ELSE slashing_spans[s]]
           /\ span_slash' =
                [s \in Stashes |->
                   IF s \in Hit(v)
                   THEN SpansAfter(s, e, EraSlash(s, v, e, fraction)).records
                   ELSE span_slash[s]]
           /\ charged' =
                [s \in Stashes |->
                   IF s \in Hit(v)
                   THEN ChargedAfter(s, e, EraSlash(s, v, e, fraction))
                   ELSE charged[s]]
           /\ offended' =
                [s \in Stashes |->
                   IF s \in Hit(v)
                   THEN [offended[s] EXCEPT
                           ![e] = EraSlash(s, v, e, fraction)]
                   ELSE offended[s]]
BY DEF OffenceWithSlash, Hit, EraSlash

\* An offence with a slash keeps every record good.
LEMMA OffenceRewardInv ==
    ASSUME RewardIInv, NEW v \in Validators, NEW e \in Era,
           NEW fraction \in Fractions, NEW strategy,
           OffenceWithSlash(v, e, fraction, strategy)
    PROVE  RewardIInv'
<1>1. validator_slash_in_era' \in [Era -> [Validators -> Parts]]
  <2>1. validator_slash_in_era' =
          [validator_slash_in_era EXCEPT ![e][v] = fraction]
    BY DEF OffenceWithSlash
  <2>2. fraction \in Parts
    BY SlashingAssumption
  <2> QED BY <2>1, <2>2 DEF RewardIInv
<1>2. nominator_slash_in_era' \in [Era -> [Nominators -> Nat]]
  <2> DEFINE backers == {n \in Nominators : ExposureOthers[v][n] > 0}
             new == [n \in Nominators |->
                       IF n \in backers THEN EraSlash(n, v, e, fraction)
                       ELSE nominator_slash_in_era[e][n]]
  <2>1. nominator_slash_in_era' =
          [nominator_slash_in_era EXCEPT ![e] = new]
    BY DEF OffenceWithSlash, EraSlash, RewardIInv
  <2>2. \A n \in backers : EraSlash(n, v, e, fraction) \in Nat
    BY EraSlashNat DEF Hit
  <2>3. \A n \in Nominators : nominator_slash_in_era[e][n] \in Nat
    BY DEF RewardIInv
  <2>4. new \in [Nominators -> Nat]
    BY <2>2, <2>3
  <2> HIDE DEF new
  <2> QED BY <2>1, <2>4 DEF RewardIInv
<1>3. /\ DOMAIN span_slash' = Stashes
      /\ \A s \in Stashes : GoodRecords(span_slash'[s])
  <2>1. span_slash' =
          [s \in Stashes |->
             IF s \in Hit(v)
             THEN SpansAfter(s, e, EraSlash(s, v, e, fraction)).records
             ELSE span_slash[s]]
    BY OffenceByStash
  <2>2. ASSUME NEW s \in Stashes PROVE GoodRecords(span_slash'[s])
    <3>1. GoodRecords(span_slash[s])
      BY DEF RewardIInv
    <3>2. CASE s \in Hit(v)
      <4>1. EraSlash(s, v, e, fraction) \in Nat
        BY <3>2, EraSlashNat
      <4>2. GoodRecords(SpansAfter(s, e, EraSlash(s, v, e, fraction)).records)
        BY <3>1, <4>1, SpansAfterGood
      <4> QED BY <2>1, <3>2, <4>2
    <3>3. CASE s \notin Hit(v)
      BY <2>1, <3>1, <3>3
    <3> QED BY <3>2, <3>3
  <2> QED BY <2>1, <2>2
<1>4. \A s \in Stashes : GoodRecords(span_slash[s])'
  BY <1>3 DEF GoodRecords
<1> QED BY <1>1, <1>2, <1>3, <1>4 DEF RewardIInv

\* Every step preserves the invariant.
LEMMA RewardNextInv ==
    ASSUME RewardIInv, [SlashingNext]_slashingVars
    PROVE  RewardIInv'
<1>0. GoodRecords([i \in SpanIndex |-> NoRecord])
  BY NoRecordGood DEF GoodRecords
<1>1. ASSUME UNCHANGED <<validator_slash_in_era, nominator_slash_in_era>>,
             NEW s \in Stashes, NEW records, GoodRecords(records),
             span_slash' = [span_slash EXCEPT ![s] = records]
      PROVE  RewardIInv'
  <2>1. /\ DOMAIN span_slash' = Stashes
        /\ \A t \in Stashes : GoodRecords(span_slash'[t])
    BY <1>1 DEF RewardIInv
  <2>2. \A t \in Stashes : GoodRecords(span_slash[t])'
    BY <2>1 DEF GoodRecords
  <2> QED BY <1>1, <2>1, <2>2 DEF RewardIInv
<1>2. CASE UNCHANGED <<validator_slash_in_era, nominator_slash_in_era,
                       span_slash>>
  BY <1>2 DEF RewardIInv, GoodRecords
<1>3. CASE Tick
  BY <1>2, <1>3 DEF Tick, spanVars
<1>4. ASSUME NEW winners \in ElectionResults \cup {{}}, NEW keys \in BOOLEAN,
             RotateBlock(winners, keys)
      PROVE  RewardIInv'
  <2>1. ClearEraMetadata /\ UNCHANGED span_slash
    BY <1>4 DEF RotateBlock
  <2>2. validator_slash_in_era' \in [Era -> [Validators -> Parts]]
    <3>1. 0 \in Parts
      BY PerbillAssumption DEF Parts
    <3> QED BY <2>1, <3>1 DEF ClearEraMetadata, RewardIInv
  <2>3. nominator_slash_in_era' \in [Era -> [Nominators -> Nat]]
    BY <2>1 DEF ClearEraMetadata, RewardIInv
  <2> QED BY <2>1, <2>2, <2>3 DEF RewardIInv, GoodRecords
<1>5. ASSUME NEW v \in Validators, NEW e \in Era, NEW fraction \in Fractions,
             NEW strategy \in Strategies,
             OffenceWithoutSlash(v, e, fraction, strategy)
      PROVE  RewardIInv'
  <2>1. v \in Stashes /\ GoodRecords(span_slash[v])
    BY DEF Stashes, RewardIInv
  <2>2. PICK spans, dirty :
          span_slash' = [span_slash EXCEPT
                           ![v] = Inspected(spans, span_slash[v], dirty).records]
    BY <1>5 DEF OffenceWithoutSlash
  <2>3. GoodRecords(Inspected(spans, span_slash[v], dirty).records)
    BY <2>1, InspectedGood
  <2>4. UNCHANGED <<validator_slash_in_era, nominator_slash_in_era>>
    BY <1>5 DEF OffenceWithoutSlash
  <2> QED BY <1>1, <2>1, <2>2, <2>3, <2>4
<1>6. ASSUME NEW v \in Validators, NEW e \in Era, NEW fraction \in Fractions,
             NEW strategy \in Strategies,
             OffenceWithSlash(v, e, fraction, strategy)
      PROVE  RewardIInv'
  BY <1>6, OffenceRewardInv
<1>7. ASSUME NEW s \in Stashes, ClearStashMetadata(s)
      PROVE  RewardIInv'
  <2> DEFINE Gone(i) == \E k \in Spans(slashing_spans[s]) :
                          i = slashing_spans[s].span_index - k
             records == [i \in SpanIndex |-> IF Gone(i) THEN NoRecord
                                             ELSE span_slash[s][i]]
  <2>1. GoodRecords(span_slash[s])
    BY DEF RewardIInv
  <2>2. span_slash' = [span_slash EXCEPT ![s] = records]
    BY <1>7 DEF ClearStashMetadata, RewardIInv
  <2>3. GoodRecords(records)
    <3> HIDE DEF Gone
    <3> QED BY <2>1, NoRecordGood DEF GoodRecords
  <2>4. UNCHANGED <<validator_slash_in_era, nominator_slash_in_era>>
    BY <1>7 DEF ClearStashMetadata
  <2> HIDE DEF records
  <2> QED BY <1>1, <2>2, <2>3, <2>4
<1>8. CASE UNCHANGED slashingVars
  BY <1>2, <1>8 DEF slashingVars, spanVars
<1>9. CASE RootForces
  BY <1>2, <1>9, RootForcesOnly DEF spanVars
<1> QED BY <1>3, <1>4, <1>5, <1>6, <1>7, <1>8, <1>9 DEF SlashingNext

\* The rewards for all the reports about a span, in whatever order and of
\* whatever size, stay within SlashRewardFraction of what the span was slashed
\* (compare_and_update_span_slash).
THEOREM RewardsStayWithinFraction == SlashingSpec => []RewardWithinFraction
<1>1. SlashingInit => RewardIInv
  <2> SUFFICES ASSUME SlashingInit PROVE RewardIInv
    OBVIOUS
  <2>1. 0 \in Parts
    BY PerbillAssumption DEF Parts
  <2>2. GoodRecords([i \in SpanIndex |-> NoRecord])
    BY NoRecordGood DEF GoodRecords
  <2> QED BY <2>1, <2>2 DEF SlashingInit, RewardIInv
<1>2. RewardIInv /\ [SlashingNext]_slashingVars => RewardIInv'
  BY RewardNextInv
<1>3. RewardIInv => RewardWithinFraction
  BY DEF RewardIInv, GoodRecords, RewardWithinFraction
<1> QED BY <1>1, <1>2, <1>3, PTL DEF SlashingSpec

-----------------------------------------------------------------------------
(***************************************************************************)
(* The geometry of spans: where they start and which eras they have.       *)
(***************************************************************************)

LEMMA SpansRecordType ==
    ASSUME NEW sp \in SpansRecord
    PROVE  /\ sp.span_index \in SpanIndex /\ sp.span_index \in Nat
           /\ sp.last_start \in Nat
           /\ sp.last_nonzero_slash \in Nat
           /\ sp.prior \in Seq(Nat) /\ Len(sp.prior) \in Nat
           /\ sp.prior \in [1..Len(sp.prior) -> Nat]
           /\ IsFiniteSet(1..Len(sp.prior))
<1>1. /\ sp.span_index \in SpanIndex /\ sp.last_start \in Nat
      /\ sp.last_nonzero_slash \in Nat
      /\ sp.prior \in Seq(Nat)
  BY DEF SpansRecord
<1>2. Len(sp.prior) \in Nat /\ sp.prior \in [1..Len(sp.prior) -> Nat]
  BY <1>1
<1>3. sp.span_index \in Nat
  BY <1>1, SlashingAssumption DEF SpanIndex
<1>4. IsFiniteSet(1..Len(sp.prior))
  <2> DEFINE n == Len(sp.prior)
  <2>1. 1 \in Int /\ n \in Int
    BY <1>2
  <2> HIDE DEF n
  <2> QED BY <2>1, FS_Interval DEF n
<1> QED BY <1>1, <1>2, <1>3, <1>4

\* An earlier span starts no later.
LEMMA SpanStarts ==
    ASSUME NEW sp \in SpansRecord, NEW k \in Spans(sp)
    PROVE  /\ k \in Nat
           /\ SpanStart(sp, k) \in Int
           /\ SpanStart(sp, 0) = sp.last_start
           /\ \A j \in 0..k : SpanStart(sp, k) <= SpanStart(sp, j)
<1> DEFINE S == 1..Len(sp.prior)
           part(j) == Total(sp.prior, 1..j)
<1>1. /\ sp.last_start \in Nat /\ Len(sp.prior) \in Nat
      /\ sp.prior \in [S -> Nat] /\ IsFiniteSet(S)
  BY SpansRecordType
<1>2. k \in Nat /\ 1..k \in SUBSET S
  BY <1>1 DEF Spans
<1>3. part(k) \in Nat
  <2> HIDE DEF S
  <2> QED BY <1>1, <1>2, TotalType
<1>4. part(0) = 0
  <2>1. 1..0 = {}
    OBVIOUS
  <2> QED BY <2>1, TotalEmpty
<1>5. ASSUME NEW j \in 0..k
      PROVE  part(j) \in Nat /\ part(j) <= part(k)
  <2>1. 1..j \in SUBSET (1..k)
    BY <1>2
  <2>2. 1..j \in SUBSET S
    BY <2>1, <1>2
  <2> HIDE DEF S
  <2> QED BY <1>1, <1>2, <2>1, <2>2, TotalType, TotalSubset
<1>6. \A j : SpanStart(sp, j) = sp.last_start - part(j)
  BY DEF SpanStart
<1> HIDE DEF part
<1> QED BY <1>1, <1>2, <1>3, <1>4, <1>5, <1>6

\* No era is in two spans.
LEMMA SpanUnique ==
    ASSUME NEW sp \in SpansRecord, NEW j \in Spans(sp), NEW k \in Spans(sp),
           NEW e \in Int, ContainsEra(sp, j, e), ContainsEra(sp, k, e)
    PROVE  j = k
<1>1. ASSUME NEW a \in Spans(sp), NEW b \in Spans(sp), a < b,
             ContainsEra(sp, a, e), ContainsEra(sp, b, e)
      PROVE  FALSE
  <2>1. /\ a \in Nat /\ b \in Nat /\ b - 1 \in Spans(sp) /\ b > 0
        /\ a \in 0..(b - 1)
    BY <1>1, SpansRecordType DEF Spans
  <2>2. SpanStart(sp, b - 1) <= SpanStart(sp, a)
    BY <2>1, SpanStarts
  <2>3. SpanStart(sp, b - 1) \in Int /\ SpanStart(sp, a) \in Int
    BY <2>1, SpanStarts
  <2>4. SpanStart(sp, a) <= e /\ e < SpanStart(sp, b - 1)
    BY <1>1, <2>1 DEF ContainsEra
  <2> QED BY <2>2, <2>3, <2>4
<1>2. j \in Nat /\ k \in Nat
  BY SpanStarts
<1>3. j < k \/ k < j \/ j = k
  BY <1>2
<1> QED BY <1>1, <1>3

\* The spans that end after some era are the youngest ones.
LEMMA KeptPrefix ==
    ASSUME NEW sp \in SpansRecord, NEW w \in Int
    PROVE  LET m == Cardinality(KeptSpans(sp, w))
           IN  /\ m \in Spans(sp)
               /\ KeptSpans(sp, w) = 1..m
               /\ \A k \in 1..m : SpanStart(sp, k - 1) > w
               /\ m < Len(sp.prior) => SpanStart(sp, m) <= w
<1> DEFINE n == Len(sp.prior)
           K == KeptSpans(sp, w)
           m == Cardinality(K)
<1>1. n \in Nat
  BY SpansRecordType
<1>2. K \in SUBSET (1..n)
  BY DEF KeptSpans
<1>3. \A k \in K : \A j \in 1..k : j \in K
  <2> TAKE k \in K
  <2> TAKE j \in 1..k
  <2>1. /\ k \in 1..n /\ j \in 1..n /\ k - 1 \in Spans(sp)
        /\ j - 1 \in 0..(k - 1) /\ j - 1 \in Spans(sp)
    BY <1>1, <1>2 DEF Spans
  <2>2. SpanStart(sp, k - 1) <= SpanStart(sp, j - 1)
    BY <2>1, SpanStarts
  <2>3. SpanStart(sp, k - 1) \in Int /\ SpanStart(sp, j - 1) \in Int
    BY <2>1, SpanStarts
  <2>4. SpanStart(sp, k - 1) > w
    BY DEF KeptSpans
  <2>5. SpanStart(sp, j - 1) > w
    BY <2>2, <2>3, <2>4
  <2> QED BY <2>1, <2>5 DEF KeptSpans
<1>4. m \in 0..n /\ K = 1..m
  <2> HIDE DEF K, n
  <2> QED BY <1>1, <1>2, <1>3, PrefixSet
<1>5. m \in Spans(sp)
  BY <1>4 DEF Spans
<1>6. \A k \in 1..m : SpanStart(sp, k - 1) > w
  <2>1. \A k \in K : SpanStart(sp, k - 1) > w
    BY DEF KeptSpans
  <2> HIDE DEF K
  <2> QED BY <1>4, <2>1
<1>7. m < n => SpanStart(sp, m) <= w
  <2> SUFFICES ASSUME m < n PROVE SpanStart(sp, m) <= w
    OBVIOUS
  <2>1. m + 1 \in 1..n /\ m + 1 \notin 1..m
    <3> HIDE DEF m, n
    <3> QED BY <1>1, <1>4
  <2>2. m + 1 \notin K
    <3> HIDE DEF m, K, n
    <3> QED BY <1>4, <2>1
  <2>3. ~(SpanStart(sp, (m + 1) - 1) > w)
    <3> HIDE DEF m
    <3> QED BY <2>1, <2>2 DEF KeptSpans
  <2>4. (m + 1) - 1 = m
    <3> HIDE DEF m, n
    <3> QED BY <1>1, <1>4
  <2>5. SpanStart(sp, m) \in Int
    <3> HIDE DEF m
    <3> QED BY <1>5, SpanStarts
  <2> HIDE DEF m
  <2> QED BY <2>3, <2>4, <2>5
<1> QED BY <1>4, <1>5, <1>6, <1>7

\* Every era from the first one of the earliest span on is in a span.
LEMMA SpanExists ==
    ASSUME NEW sp \in SpansRecord, NEW e \in Int,
           SpanStart(sp, Len(sp.prior)) <= e
    PROVE  \E k \in Spans(sp) : ContainsEra(sp, k, e)
<1> DEFINE m == Cardinality(KeptSpans(sp, e))
<1>1. /\ m \in Spans(sp)
      /\ \A k \in 1..m : SpanStart(sp, k - 1) > e
      /\ m < Len(sp.prior) => SpanStart(sp, m) <= e
  BY KeptPrefix
<1> HIDE DEF m
<1>2. m \in 0..Len(sp.prior) /\ Len(sp.prior) \in Nat
  BY <1>1, SpansRecordType DEF Spans
<1>3. SpanStart(sp, m) <= e
  <2>1. CASE m < Len(sp.prior)
    BY <2>1, <1>1
  <2>2. CASE m = Len(sp.prior)
    BY <2>2
  <2> QED BY <1>2, <2>1, <2>2
<1>4. m > 0 => e < SpanStart(sp, m - 1)
  <2> SUFFICES ASSUME m > 0 PROVE e < SpanStart(sp, m - 1)
    OBVIOUS
  <2>1. m \in 1..m /\ m - 1 \in Spans(sp)
    BY <1>2 DEF Spans
  <2>2. SpanStart(sp, m - 1) \in Int
    BY <2>1, SpanStarts
  <2> QED BY <1>1, <2>1, <2>2
<1>5. ContainsEra(sp, m, e)
  BY <1>3, <1>4 DEF ContainsEra
<1> QED BY <1>1, <1>5

\* Arithmetic of EndSpanStarts: the length of a span that ends cancels out.
LEMMA Regroup ==
    ASSUME NEW a \in Nat, NEW b \in Nat, NEW t \in Nat
    PROVE  a - (t + (a - b)) = b - t
OBVIOUS

\* end_span: the ongoing span becomes the first of the earlier ones, and all
\* spans keep their starts.
LEMMA EndSpanStarts ==
    ASSUME NEW sp \in SpansRecord, NEW now \in Nat, now + 1 > sp.last_start,
           sp.span_index + 1 \in SpanIndex
    PROVE  LET q == EndSpan(sp, now)
           IN  /\ q \in SpansRecord
               /\ q.span_index = sp.span_index + 1
               /\ Len(q.prior) = Len(sp.prior) + 1
               /\ SpanStart(q, 0) = now + 1
               /\ \A k \in Spans(sp) : SpanStart(q, k + 1) = SpanStart(sp, k)
<1> DEFINE q == EndSpan(sp, now)
           n == Len(sp.prior)
           x == now + 1 - sp.last_start
           p == sp.prior
           c == <<x>> \o p
<1>1. /\ sp.last_start \in Nat /\ n \in Nat /\ p \in Seq(Nat)
      /\ p \in [1..n -> Nat] /\ sp.last_nonzero_slash \in Nat
  BY SpansRecordType
<1>2. x \in Nat
  BY <1>1
<1>3. /\ c \in Seq(Nat) /\ Len(c) = n + 1 /\ c[1] = x
      /\ \A j \in 1..n : c[j + 1] = p[j]
  <2> HIDE DEF x
  <2> QED BY <1>1, <1>2
<1>4. q = [span_index |-> sp.span_index + 1, last_start |-> now + 1,
           last_nonzero_slash |-> sp.last_nonzero_slash, prior |-> c]
  <2>1. ~(now + 1 <= sp.last_start)
    BY <1>1
  <2>2. q = [sp EXCEPT !.prior = c, !.last_start = now + 1,
                       !.span_index = sp.span_index + 1]
    BY <2>1 DEF EndSpan, SpansRecord
  <2> HIDE DEF q, c
  <2> QED BY <2>2 DEF SpansRecord
<1>5. /\ q.span_index = sp.span_index + 1 /\ q.last_start = now + 1
      /\ q.prior = c
  BY <1>4
<1>6. q \in SpansRecord
  <2>1. now + 1 \in Nat
    OBVIOUS
  <2> HIDE DEF q, c
  <2> QED BY <1>1, <1>3, <1>4, <2>1 DEF SpansRecord
<1>7. SpanStart(q, 0) = now + 1
  <2>1. 0 \in Spans(q)
    <3> HIDE DEF q, c
    <3> QED BY <1>1, <1>3, <1>5 DEF Spans
  <2> HIDE DEF q
  <2> QED BY <1>5, <1>6, <2>1, SpanStarts
<1>8. ASSUME NEW k \in Spans(sp)
      PROVE  SpanStart(q, k + 1) = SpanStart(sp, k)
  <2> DEFINE S == 1..(n + 1)
             h == [j \in 1..k |-> j + 1]
             f == [j \in 1..k |-> p[j]]
             g == [j \in 2..(k + 1) |-> c[j]]
  <2>1. k \in Nat /\ k <= n
    BY <1>1 DEF Spans
  <2>2. h \in Bijection(1..k, 2..(k + 1))
    <3>1. h \in [1..k -> 2..(k + 1)]
      BY <2>1
    <3>2. \A a, b \in 1..k : h[a] = h[b] => a = b
      BY <2>1
    <3>3. \A t \in 2..(k + 1) : \E j \in 1..k : h[j] = t
      <4> TAKE t \in 2..(k + 1)
      <4>1. t - 1 \in 1..k /\ h[t - 1] = t
        BY <2>1
      <4> QED BY <4>1
    <3> HIDE DEF h
    <3> QED BY <3>1, <3>2, <3>3
          DEF Bijection, Injection, Surjection, IsInjective
  <2>3. c \in [S -> Nat]
    <3> HIDE DEF c
    <3> QED BY <1>3
  <2>4. f \in [1..k -> Nat] /\ g \in [2..(k + 1) -> Nat]
    <3>1. \A j \in 1..k : p[j] \in Nat
      <4> HIDE DEF p, n
      <4> QED BY <1>1, <2>1
    <3>2. \A j \in 2..(k + 1) : c[j] \in Nat
      <4> HIDE DEF c, n
      <4> QED BY <1>1, <2>1, <2>3
    <3> HIDE DEF c, p
    <3> QED BY <3>1, <3>2
  <2>5. \A j \in 1..k : g[h[j]] = f[j]
    <3> HIDE DEF c, p
    <3> QED BY <1>3, <2>1
  <2>6. Total(g, 2..(k + 1)) = Total(f, 1..k)
    <3>1. IsFiniteSet(1..k)
      BY <2>1, FS_Interval
    <3> DEFINE A == 1..k
               B == 2..(k + 1)
    <3>2. /\ IsFiniteSet(A) /\ f \in [A -> Nat] /\ g \in [B -> Nat]
          /\ h \in Bijection(A, B) /\ \A j \in A : g[h[j]] = f[j]
      <4> HIDE DEF f, g, h
      <4> QED BY <2>2, <2>4, <2>5, <3>1
    <3>3. Total(g, B) = Total(f, A)
      <4> HIDE DEF f, g, h, A, B
      <4> QED BY <3>2, TotalRename
    <3> QED BY <3>3
  <2>7. Total(f, 1..k) = Total(p, 1..k)
    BY TotalSame
  <2>8. Total(g, 2..(k + 1)) = Total(c, 2..(k + 1))
    <3> HIDE DEF c
    <3> QED BY TotalSame
  <2>9. Total(c, 1..(k + 1)) = Total(c, 2..(k + 1)) + x
    <3>1. IsFiniteSet(S)
      <4>1. 1 \in Int /\ n + 1 \in Int
        BY <1>1
      <4> HIDE DEF n
      <4> QED BY ONLY <4>1, FS_Interval
    <3>2. /\ 1..(k + 1) \in SUBSET S /\ 1 \in 1..(k + 1)
          /\ (1..(k + 1)) \ {1} = 2..(k + 1)
      BY <1>1, <2>1
    <3>3. Total(c, 1..(k + 1)) = Total(c, (1..(k + 1)) \ {1}) + c[1]
      <4> HIDE DEF c, S
      <4> QED BY <2>3, <3>1, <3>2, TotalSplit
    <3> HIDE DEF c
    <3> QED BY <3>2, <3>3, <1>3
  <2>10. Total(p, 1..k) \in Nat
    <3>1. 1..k \in SUBSET (1..n) /\ IsFiniteSet(1..n)
      BY <1>1, <2>1, SpansRecordType
    <3> HIDE DEF p
    <3> QED BY <1>1, <3>1, TotalType
  <2>11. Total(c, 1..(k + 1)) = Total(p, 1..k) + x
    <3> HIDE DEF c, f, g, p
    <3> QED BY <2>6, <2>7, <2>8, <2>9
  <2>12. /\ SpanStart(q, k + 1) = q.last_start - Total(q.prior, 1..(k + 1))
         /\ SpanStart(sp, k) = sp.last_start - Total(p, 1..k)
    <3> HIDE DEF q
    <3> QED BY DEF SpanStart
  <2>13. q.last_start = now + 1 /\ q.prior = c
    BY <1>5
  <2> DEFINE T == Total(p, 1..k)
  <2>14. T \in Nat /\ SpanStart(sp, k) = sp.last_start - T
    BY <2>10, <2>12
  <2>15. Total(q.prior, 1..(k + 1)) = T + x
    <3> HIDE DEF q, c, p, x
    <3> QED BY <2>11, <2>13
  <2>16. SpanStart(q, k + 1) = (now + 1) - (T + x)
    <3> HIDE DEF q, c, p, x, T
    <3> QED BY <2>12, <2>13, <2>15
  <2>17. (now + 1) - (T + x) = sp.last_start - T
    <3>1. T \in Nat /\ now + 1 \in Nat /\ sp.last_start \in Nat
      BY <1>1, <2>14
    <3> HIDE DEF T
    <3> QED BY ONLY <3>1, Regroup
  <2> QED BY <2>14, <2>16, <2>17, Zenon
<1>9. Len(q.prior) = n + 1
  BY <1>3, <1>5
<1> HIDE DEF q
<1>10. q \in SpansRecord /\ q.span_index = sp.span_index + 1
  BY <1>5, <1>6
<1> QED BY <1>7, <1>8, <1>9, <1>10 DEF q

\* prune: the spans that are kept keep their starts, except that the ongoing
\* span starts in the window.
LEMMA PruneStarts ==
    ASSUME NEW sp \in SpansRecord, NEW w \in Nat
    PROVE  LET q == Prune(sp, w)
               m == Cardinality(KeptSpans(sp, w))
           IN  /\ q \in SpansRecord
               /\ q.span_index = sp.span_index
               /\ m \in Spans(sp)
               /\ Len(q.prior) = m
               /\ sp.last_start >= w =>
                    \A k \in 0..m : SpanStart(q, k) = SpanStart(sp, k)
               /\ sp.last_start < w => m = 0 /\ SpanStart(q, 0) = w
               /\ m < Len(sp.prior) => SpanStart(sp, m) <= w
<1> DEFINE q == Prune(sp, w)
           m == Cardinality(KeptSpans(sp, w))
           n == Len(sp.prior)
           p == sp.prior
           c == SubSeq(p, 1, m)
           start == BiggerOf(sp.last_start, w)
<1>1. /\ sp.last_start \in Nat /\ n \in Nat /\ p \in Seq(Nat)
      /\ p \in [1..n -> Nat] /\ sp.last_nonzero_slash \in Nat
      /\ sp.span_index \in SpanIndex
  BY SpansRecordType
<1>2. /\ m \in Spans(sp)
      /\ \A k \in 1..m : SpanStart(sp, k - 1) > w
      /\ m < n => SpanStart(sp, m) <= w
  BY KeptPrefix
<1>3. m \in 0..n
  BY <1>2 DEF Spans
<1>4. c \in Seq(Nat) /\ Len(c) = m /\ \A j \in 1..m : c[j] = p[j]
  <2> HIDE DEF m, p, n
  <2>1. m \in Nat /\ m <= Len(p) /\ p \in Seq(Nat) /\ 1 \in 1..(Len(p) + 1)
    BY <1>1, <1>3 DEF n, p
  <2> QED BY <2>1
<1>5. q = [span_index |-> sp.span_index, last_start |-> start,
           last_nonzero_slash |-> sp.last_nonzero_slash, prior |-> c]
  <2>1. q = [sp EXCEPT !.prior = c, !.last_start = start]
    BY DEF Prune, SpansRecord
  <2> HIDE DEF q, c, start
  <2> QED BY <2>1 DEF SpansRecord
<1>6. start \in Nat
  BY <1>1 DEF BiggerOf
<1>7. /\ q.span_index = sp.span_index /\ q.last_start = start /\ q.prior = c
      /\ q \in SpansRecord
  <2> HIDE DEF q, c, start
  <2> QED BY <1>1, <1>4, <1>5, <1>6 DEF SpansRecord
<1>8. ASSUME sp.last_start >= w, NEW k \in 0..m
      PROVE  SpanStart(q, k) = SpanStart(sp, k)
  <2>1. q.last_start = sp.last_start
    <3> HIDE DEF q
    <3> QED BY <1>1, <1>7, <1>8 DEF BiggerOf
  <2>2. Total(c, 1..k) = Total(p, 1..k)
    <3>1. \A j \in 1..k : c[j] = p[j]
      <4> HIDE DEF m, c, p
      <4> QED BY <1>3, <1>4, <1>8
    <3> HIDE DEF c, p
    <3> QED BY <3>1, TotalSame
  <2> HIDE DEF q, c
  <2> QED BY <1>7, <2>1, <2>2 DEF SpanStart
<1>9. ASSUME sp.last_start < w
      PROVE  m = 0 /\ SpanStart(q, 0) = w
  <2>1. SpanStart(sp, 0) = sp.last_start
    BY <1>2, SpanStarts
  <2>2. m = 0
    <3> SUFFICES ASSUME m # 0 PROVE FALSE
      OBVIOUS
    <3>1. 1 \in 1..m
      <4> HIDE DEF m
      <4> QED BY <1>1, <1>3
    <3>2. SpanStart(sp, 1 - 1) > w
      <4> HIDE DEF m
      <4> QED BY <1>2, <3>1
    <3> QED BY <2>1, <3>2, <1>1, <1>9
  <2>3. 0 \in Spans(q)
    <3> HIDE DEF q, c, m
    <3> QED BY <1>4, <1>7, <2>2 DEF Spans
  <2>4. SpanStart(q, 0) = q.last_start
    <3> HIDE DEF q
    <3> QED BY <1>7, <2>3, SpanStarts
  <2> HIDE DEF q
  <2> QED BY <1>7, <1>9, <1>1, <2>2, <2>4 DEF BiggerOf
<1>10. Len(q.prior) = m
  <2> HIDE DEF q
  <2> QED BY <1>4, <1>7
<1> QED BY <1>2, <1>7, <1>8, <1>9, <1>10

-----------------------------------------------------------------------------
(***************************************************************************)
(* The spans of a stash cover the bonding window.                          *)
(***************************************************************************)

\* The spans of a stash when the window starts with the era w and r offences
\* were reported: the earliest span reaches back to the window.
SpansOK(sp, w, r) ==
    /\ sp \in SpansRecord
    /\ Len(sp.prior) <= sp.span_index
    /\ sp.span_index <= r
    /\ SpanStart(sp, Len(sp.prior)) <= w

\* The inductive invariant.
CoverIInv ==
    /\ ErasIInv
    /\ reports \in Nat
    /\ DOMAIN slashing_spans = Stashes
    /\ \A s \in Stashes : slashing_spans[s] # None =>
         SpansOK(slashing_spans[s], WindowStart, reports)

LEMMA WindowStartType ==
    ASSUME ErasIInv
    PROVE  WindowStart \in Nat /\ active_era \in Nat /\ WindowStart <= active_era
BY ErasAssumption, SlashingAssumption
   DEF ErasIInv, ErasTypeOK, WindowStart, SaturatingSub

LEMMA EndsInSpans ==
    ASSUME NEW sp \in SpansRecord
    PROVE  /\ 0 \in Spans(sp) /\ Len(sp.prior) \in Spans(sp)
           /\ SpanStart(sp, Len(sp.prior)) \in Int
<1>1. 0 \in Spans(sp) /\ Len(sp.prior) \in Spans(sp)
  BY SpansRecordType DEF Spans
<1> QED BY <1>1, SpanStarts

\* Time and reports only weaken what is asked of the spans.
LEMMA SpansOKLater ==
    ASSUME NEW sp, NEW w \in Int, NEW r \in Nat, NEW x \in Int, NEW q \in Nat,
           SpansOK(sp, w, r), w <= x, r <= q
    PROVE  SpansOK(sp, x, q)
<1>1. /\ sp \in SpansRecord /\ sp.span_index \in Nat
      /\ SpanStart(sp, Len(sp.prior)) \in Int
  BY SpansRecordType, EndsInSpans DEF SpansOK
<1> QED BY <1>1 DEF SpansOK

LEMMA NewSpansOK ==
    ASSUME NEW w \in Nat, NEW r \in Nat
    PROVE  SpansOK(NewSpans(w), w, r)
<1> DEFINE sp == NewSpans(w)
<1>1. /\ sp.prior = <<>> /\ sp.span_index = 0 /\ sp.last_start = w
      /\ sp \in SpansRecord
  BY SlashingAssumption DEF NewSpans, SpansRecord, SpanIndex
<1>2. SpanStart(sp, 0) = w
  <2> HIDE DEF sp
  <2> QED BY <1>1, EndsInSpans, SpanStarts
<1>3. Len(sp.prior) = 0
  BY <1>1
<1> HIDE DEF sp
<1>4. SpansOK(sp, w, r)
  BY <1>1, <1>2, <1>3 DEF SpansOK
<1> QED BY <1>4 DEF sp

LEMMA FetchSpansOK ==
    ASSUME CoverIInv, NEW s \in Stashes
    PROVE  SpansOK(FetchSpans(s), WindowStart, reports)
<1>1. WindowStart \in Nat /\ reports \in Nat
  BY WindowStartType DEF CoverIInv
<1> QED BY <1>1, NewSpansOK DEF FetchSpans, CoverIInv

LEMMA EndSpanOK ==
    ASSUME NEW sp, NEW w \in Nat, NEW r \in Nat, NEW now \in Nat,
           r < MaxReports, SpansOK(sp, w, r)
    PROVE  SpansOK(EndSpan(sp, now), w, r + 1)
<1>1. /\ sp \in SpansRecord /\ sp.span_index \in Nat
      /\ sp.last_start \in Nat /\ Len(sp.prior) \in Nat
      /\ Len(sp.prior) \in Spans(sp)
  BY SpansRecordType, EndsInSpans DEF SpansOK
<1>2. CASE now + 1 <= sp.last_start
  <2>1. EndSpan(sp, now) = sp
    BY <1>2 DEF EndSpan
  <2> QED BY <2>1, SpansOKLater
<1>3. CASE now + 1 > sp.last_start
  <2> DEFINE q == EndSpan(sp, now)
  <2>1. sp.span_index + 1 \in SpanIndex
    BY <1>1, SlashingAssumption DEF SpanIndex, SpansOK
  <2>2. /\ q \in SpansRecord /\ q.span_index = sp.span_index + 1
        /\ Len(q.prior) = Len(sp.prior) + 1
        /\ \A k \in Spans(sp) : SpanStart(q, k + 1) = SpanStart(sp, k)
    BY <1>1, <1>3, <2>1, EndSpanStarts
  <2> HIDE DEF q
  <2>3. SpansOK(q, w, r + 1)
    BY <1>1, <2>2 DEF SpansOK
  <2> QED BY <2>3 DEF q
<1> QED BY <1>1, <1>2, <1>3

LEMMA PruneOK ==
    ASSUME NEW sp, NEW w \in Nat, NEW r \in Nat, SpansOK(sp, w, r)
    PROVE  SpansOK(Prune(sp, w), w, r)
<1> DEFINE q == Prune(sp, w)
           m == Cardinality(KeptSpans(sp, w))
<1>1. /\ sp \in SpansRecord /\ sp.span_index \in Nat
      /\ sp.last_start \in Nat /\ Len(sp.prior) \in Nat
  BY SpansRecordType DEF SpansOK
<1>2. /\ q \in SpansRecord
      /\ q.span_index = sp.span_index
      /\ m \in Spans(sp)
      /\ Len(q.prior) = m
      /\ sp.last_start >= w =>
           \A k \in 0..m : SpanStart(q, k) = SpanStart(sp, k)
      /\ sp.last_start < w => m = 0 /\ SpanStart(q, 0) = w
      /\ m < Len(sp.prior) => SpanStart(sp, m) <= w
  BY <1>1, PruneStarts
<1> HIDE DEF q, m
<1>3. m \in 0..Len(sp.prior)
  BY <1>2 DEF Spans
<1>4. SpanStart(q, m) <= w
  <2>1. CASE sp.last_start < w
    BY <2>1, <1>2
  <2>2. CASE sp.last_start >= w
    <3>1. SpanStart(q, m) = SpanStart(sp, m)
      BY <2>2, <1>2, <1>3
    <3>2. SpanStart(sp, m) <= w
      BY <1>1, <1>2, <1>3 DEF SpansOK
    <3> QED BY <3>1, <3>2
  <2> QED BY <1>1, <2>1, <2>2
<1>5. SpansOK(q, w, r)
  BY <1>1, <1>2, <1>3, <1>4 DEF SpansOK
<1> QED BY <1>5 DEF q

LEMMA InspectedOK ==
    ASSUME NEW sp, NEW records, NEW dirty \in BOOLEAN, NEW r \in Nat,
           WindowStart \in Nat, SpansOK(sp, WindowStart, r)
    PROVE  SpansOK(Inspected(sp, records, dirty).spans, WindowStart, r)
<1>1. Inspected(sp, records, dirty).spans
        = IF dirty THEN Prune(sp, WindowStart) ELSE sp
  BY DEF Inspected
<1> QED BY <1>1, PruneOK

\* The mark of the last era with a slash has nothing to do with the spans.
MarkedSpans(sp, era) == [sp EXCEPT !.last_nonzero_slash = era]

LEMMA MarkedSame ==
    ASSUME NEW sp \in SpansRecord, NEW era \in Nat
    PROVE  /\ MarkedSpans(sp, era) \in SpansRecord
           /\ MarkedSpans(sp, era).prior = sp.prior
           /\ MarkedSpans(sp, era).span_index = sp.span_index
           /\ MarkedSpans(sp, era).last_start = sp.last_start
           /\ Spans(MarkedSpans(sp, era)) = Spans(sp)
           /\ \A k : SpanStart(MarkedSpans(sp, era), k) = SpanStart(sp, k)
<1> DEFINE q == MarkedSpans(sp, era)
<1>1. /\ q \in SpansRecord /\ q.prior = sp.prior
      /\ q.span_index = sp.span_index /\ q.last_start = sp.last_start
  BY DEF MarkedSpans, SpansRecord
<1> HIDE DEF q
<1>2. Spans(q) = Spans(sp) /\ \A k : SpanStart(q, k) = SpanStart(sp, k)
  BY <1>1 DEF Spans, SpanStart
<1> QED BY <1>1, <1>2 DEF q

\* What compare_and_update_span_slash does to the spans and records of a stash.
LEMMA CompareShape ==
    ASSUME NEW s, NEW k, NEW e \in Nat, NEW slash,
           FetchSpans(s).last_nonzero_slash \in Nat
    PROVE  \E era \in Nat, dirty \in BOOLEAN :
             CompareAndUpdate(s, k, e, slash) =
               Inspected(AfterSpanSlash(MarkedSpans(FetchSpans(s), era), k),
                         [span_slash[s] EXCEPT
                            ![FetchSpans(s).span_index - k] =
                               RecordAfter(
                                 span_slash[s][FetchSpans(s).span_index - k],
                                 slash)],
                         dirty)
<1> DEFINE sp == FetchSpans(s)
           index == sp.span_index - k
           before == span_slash[s][index]
           after == RecordAfter(before, slash)
           era == IF after.slashed > before.slashed
                  THEN BiggerOf(sp.last_nonzero_slash, e)
                  ELSE sp.last_nonzero_slash
           ended == AfterSpanSlash(MarkedSpans(sp, era), k)
           records == [span_slash[s] EXCEPT ![index] = after]
           dirty == before # after \/ MarkedSpans(sp, era) # ended
<1>1. era \in Nat
  <2> HIDE DEF after, before, sp
  <2> QED BY DEF BiggerOf, sp
<1>2. CompareAndUpdate(s, k, e, slash) = Inspected(ended, records, dirty)
  BY DEF CompareAndUpdate, MarkedSpans
<1>3. dirty \in BOOLEAN
  <2> HIDE DEF before, after, ended
  <2> QED OBVIOUS
<1> QED BY <1>1, <1>2, <1>3

LEMMA AfterSpanSlashOK ==
    ASSUME NEW sp, NEW k, NEW w \in Nat, NEW r \in Nat, active_era \in Nat,
           r < MaxReports, SpansOK(sp, w, r)
    PROVE  SpansOK(AfterSpanSlash(sp, k), w, r + 1)
<1>1. SpansOK(EndSpan(sp, active_era), w, r + 1)
  BY EndSpanOK
<1>2. SpansOK(sp, w, r + 1)
  BY SpansOKLater
<1> QED BY <1>1, <1>2 DEF AfterSpanSlash

LEMMA SpansAfterOK ==
    ASSUME CoverIInv, reports < MaxReports, NEW s \in Stashes, NEW e \in Nat,
           NEW slash
    PROVE  SpansOK(SpansAfter(s, e, slash).spans, WindowStart, reports + 1)
<1> DEFINE sp == FetchSpans(s)
           ks == EraSpan(sp, e)
           k == CHOOSE j \in ks : TRUE
<1>1. SpansOK(sp, WindowStart, reports)
  BY FetchSpansOK
<1>2. WindowStart \in Nat /\ active_era \in Nat /\ reports \in Nat
      /\ reports + 1 \in Nat
  BY WindowStartType DEF CoverIInv
<1>3. sp \in SpansRecord /\ sp.last_nonzero_slash \in Nat
  <2> HIDE DEF sp
  <2> QED BY <1>1, SpansRecordType DEF SpansOK
<1>4. CASE ks = {}
  <2>1. SpansAfter(s, e, slash) = Inspected(sp, span_slash[s], FALSE)
    BY <1>4 DEF SpansAfter
  <2>2. SpansOK(sp, WindowStart, reports + 1)
    <3> HIDE DEF sp
    <3> QED BY <1>1, <1>2, SpansOKLater
  <2> HIDE DEF sp
  <2> QED BY <1>2, <2>1, <2>2, InspectedOK
<1>5. CASE ks # {}
  <2>1. SpansAfter(s, e, slash) = CompareAndUpdate(s, k, e, slash)
    BY <1>5 DEF SpansAfter
  <2> DEFINE index == sp.span_index - k
             records == [span_slash[s] EXCEPT
                           ![index] = RecordAfter(span_slash[s][index], slash)]
  <2>2. PICK era \in Nat, dirty \in BOOLEAN :
          CompareAndUpdate(s, k, e, slash)
            = Inspected(AfterSpanSlash(MarkedSpans(sp, era), k), records,
                        dirty)
    <3> HIDE DEF k
    <3> QED BY <1>3, CompareShape
  <2>3. SpansOK(MarkedSpans(sp, era), WindowStart, reports)
    <3> HIDE DEF sp
    <3> DEFINE q == MarkedSpans(sp, era)
    <3>1. /\ q \in SpansRecord /\ q.prior = sp.prior
          /\ q.span_index = sp.span_index
          /\ \A j : SpanStart(q, j) = SpanStart(sp, j)
      BY <1>3, <2>2, MarkedSame
    <3> HIDE DEF q
    <3>2. SpansOK(q, WindowStart, reports)
      BY <1>1, <3>1 DEF SpansOK
    <3> QED BY <3>2 DEF q
  <2> DEFINE ended == AfterSpanSlash(MarkedSpans(sp, era), k)
  <2>4. SpansOK(ended, WindowStart, reports + 1)
    <3> HIDE DEF sp, k
    <3> QED BY <1>2, <2>3, AfterSpanSlashOK
  <2>5. SpansOK(Inspected(ended, records, dirty).spans, WindowStart,
                reports + 1)
    <3> HIDE DEF ended
    <3> QED BY <1>2, <2>4, InspectedOK
  <2> HIDE DEF ended, k
  <2> QED BY <2>1, <2>2, <2>5 DEF ended
<1> QED BY <1>4, <1>5

\* A step that starts no era leaves the window where it is.
LEMMA OffenceKeepsClock ==
    ASSUME NEW v, NEW disable, AddOffendingValidator(v, disable)
    PROVE  active_era' = active_era /\ WindowStart' = WindowStart
<1>1. active_era' = active_era
  BY DEF AddOffendingValidator, eraVars, EnsureNewEra, PutForcing
<1> QED BY <1>1 DEF WindowStart

\* The window never moves back.
LEMMA WindowMovesOn ==
    ASSUME ErasIInv, NEW winners, NEW keys, RotateBlock(winners, keys)
    PROVE  active_era' \in Nat /\ active_era <= active_era'
           /\ WindowStart' \in Nat /\ WindowStart <= WindowStart'
<1>1. active_era \in Nat /\ BondingDuration \in Nat
  BY SlashingAssumption DEF ErasIInv, ErasTypeOK
<1>2. active_era' = active_era \/ active_era' = active_era + 1
  BY DEF RotateBlock, BeginBlockRotating, RotateSession
<1>3. WindowStart' = SaturatingSub(active_era', BondingDuration)
  BY DEF WindowStart
<1> QED BY <1>1, <1>2, <1>3 DEF WindowStart, SaturatingSub

\* Every step preserves the invariant.
LEMMA CoverNextInv ==
    ASSUME U32 - 1 \notin HistoryDepths, CoverIInv, [SlashingNext]_slashingVars
    PROVE  CoverIInv'
<1>1. ErasIInv'
  BY SlashingStepsClock, ErasNextInv DEF CoverIInv
<1>2. /\ WindowStart \in Nat /\ active_era \in Nat /\ reports \in Nat
      /\ DOMAIN slashing_spans = Stashes
  BY WindowStartType DEF CoverIInv
<1> DEFINE OK(s) == slashing_spans[s] # None =>
                      SpansOK(slashing_spans[s], WindowStart, reports)
<1>3. \A s \in Stashes : OK(s)
  BY DEF CoverIInv
<1> DEFINE Rest == /\ reports \in Nat
                   /\ DOMAIN slashing_spans = Stashes
                   /\ \A s \in Stashes : OK(s)
<1>4. ASSUME UNCHANGED <<active_era, slashing_spans, reports>>
      PROVE  Rest'
  <2>1. WindowStart' = WindowStart
    BY <1>4 DEF WindowStart
  <2>2. \A s \in Stashes : OK(s)'
    BY <1>3, <1>4, <2>1 DEF SpansOK
  <2> QED BY <1>2, <1>4, <2>2
<1>5. ASSUME Tick PROVE Rest'
  BY <1>4, <1>5 DEF Tick, spanVars, BeginBlock, OnFinalize
<1>6. ASSUME NEW winners, NEW keys, RotateBlock(winners, keys)
      PROVE  Rest'
  <2>1. UNCHANGED <<slashing_spans, reports>>
    BY <1>6 DEF RotateBlock
  <2>2. WindowStart' \in Nat /\ WindowStart <= WindowStart'
    BY <1>6, WindowMovesOn DEF CoverIInv
  <2>3. ASSUME NEW s \in Stashes PROVE OK(s)'
    <3>1. slashing_spans[s] # None =>
            SpansOK(slashing_spans[s], WindowStart', reports)
      BY <1>2, <1>3, <2>2, SpansOKLater
    <3> QED BY <2>1, <3>1 DEF SpansOK
  <2> QED BY <1>2, <2>1, <2>3
<1>7. ASSUME NEW v \in Validators, NEW e \in Era, NEW fraction \in Fractions,
             NEW strategy \in Strategies,
             OffenceWithoutSlash(v, e, fraction, strategy)
      PROVE  Rest'
  <2> DEFINE sp == FetchSpans(v)
             ended == IF 0 \in EraSpan(sp, e) THEN EndSpan(sp, active_era)
                      ELSE sp
             dirty == ended # sp
             after == Inspected(ended, span_slash[v], dirty).spans
  <2>1. /\ reports < MaxReports /\ reports' = reports + 1
        /\ slashing_spans' = [slashing_spans EXCEPT ![v] = after]
        /\ WindowStart' = WindowStart
    BY <1>7, OffenceKeepsClock DEF OffenceWithoutSlash, Reportable
  <2>2. v \in Stashes
    BY DEF Stashes
  <2>3. SpansOK(sp, WindowStart, reports)
    BY <2>2, FetchSpansOK
  <2>4. SpansOK(ended, WindowStart, reports + 1)
    <3> HIDE DEF sp
    <3>1. SpansOK(EndSpan(sp, active_era), WindowStart, reports + 1)
      BY <1>2, <2>1, <2>3, EndSpanOK
    <3>2. SpansOK(sp, WindowStart, reports + 1)
      BY <1>2, <2>3, SpansOKLater
    <3> QED BY <3>1, <3>2
  <2>5. SpansOK(after, WindowStart, reports + 1)
    <3>1. dirty \in BOOLEAN /\ reports + 1 \in Nat
      <4> HIDE DEF ended, sp
      <4> QED BY <1>2
    <3> HIDE DEF ended, dirty
    <3> QED BY <1>2, <2>4, <3>1, InspectedOK
  <2>6. ASSUME NEW s \in Stashes PROVE OK(s)'
    <3> HIDE DEF after
    <3>1. CASE s = v
      <4>1. slashing_spans'[s] = after
        BY <1>2, <2>1, <2>2, <3>1
      <4>2. SpansOK(slashing_spans'[s], WindowStart', reports')
        BY <2>1, <2>5, <4>1
      <4> QED BY <4>2 DEF SpansOK
    <3>2. CASE s # v
      <4>1. slashing_spans'[s] = slashing_spans[s]
        BY <1>2, <2>1, <3>2
      <4>2. slashing_spans[s] # None =>
              SpansOK(slashing_spans[s], WindowStart, reports + 1)
        BY <1>2, <1>3, SpansOKLater
      <4>3. slashing_spans'[s] # None =>
              SpansOK(slashing_spans'[s], WindowStart', reports')
        BY <2>1, <4>1, <4>2
      <4> QED BY <4>3 DEF SpansOK
    <3> QED BY <3>1, <3>2
  <2>7. DOMAIN slashing_spans' = Stashes /\ reports' \in Nat
    <3> HIDE DEF after
    <3> QED BY <1>2, <2>1
  <2> QED BY <2>6, <2>7
<1>8. ASSUME NEW v \in Validators, NEW e \in Era, NEW fraction \in Fractions,
             NEW strategy \in Strategies,
             OffenceWithSlash(v, e, fraction, strategy)
      PROVE  Rest'
  <2> DEFINE after(s) == SpansAfter(s, e, EraSlash(s, v, e, fraction)).spans
  <2>1. /\ reports < MaxReports /\ reports' = reports + 1
        /\ WindowStart' = WindowStart
    BY <1>8, OffenceKeepsClock DEF OffenceWithSlash, Reportable
  <2>2. slashing_spans' = [s \in Stashes |-> IF s \in Hit(v) THEN after(s)
                                             ELSE slashing_spans[s]]
    BY <1>8, OffenceByStash
  <2>3. e \in Nat
    BY ErasAssumption DEF Era
  <2>4. ASSUME NEW s \in Stashes PROVE OK(s)'
    <3>1. SpansOK(after(s), WindowStart, reports + 1)
      BY <2>1, <2>3, SpansAfterOK
    <3>2. slashing_spans[s] # None =>
            SpansOK(slashing_spans[s], WindowStart, reports + 1)
      BY <1>2, <1>3, SpansOKLater
    <3>3. slashing_spans'[s] = after(s) \/ slashing_spans'[s] = slashing_spans[s]
      BY <2>2
    <3>4. slashing_spans'[s] # None =>
            SpansOK(slashing_spans'[s], WindowStart', reports')
      <4> HIDE DEF after
      <4> QED BY <2>1, <3>1, <3>2, <3>3
    <3> QED BY <3>4 DEF SpansOK
  <2>5. DOMAIN slashing_spans' = Stashes /\ reports' \in Nat
    <3> HIDE DEF after
    <3> QED BY <1>2, <2>1, <2>2
  <2> QED BY <2>4, <2>5
<1>9. ASSUME NEW v \in Stashes, ClearStashMetadata(v)
      PROVE  Rest'
  <2>1. /\ slashing_spans' = [slashing_spans EXCEPT ![v] = None]
        /\ reports' = reports /\ active_era' = active_era
    BY <1>9 DEF ClearStashMetadata, eraVars
  <2>2. WindowStart' = WindowStart
    BY <2>1 DEF WindowStart
  <2>3. ASSUME NEW s \in Stashes PROVE OK(s)'
    <3>1. slashing_spans'[s] # None => slashing_spans'[s] = slashing_spans[s]
      BY <1>2, <2>1
    <3>2. slashing_spans'[s] # None =>
            SpansOK(slashing_spans'[s], WindowStart', reports')
      BY <1>3, <2>1, <2>2, <3>1
    <3> QED BY <3>2 DEF SpansOK
  <2> QED BY <1>2, <2>1, <2>3
<1>10. ASSUME UNCHANGED slashingVars PROVE Rest'
  BY <1>4, <1>10 DEF slashingVars, eraVars, spanVars
<1>11. ASSUME RootForces PROVE Rest'
  BY <1>4, <1>11, RootForcesOnly DEF spanVars
<1>12. Rest'
  BY <1>5, <1>6, <1>7, <1>8, <1>9, <1>10, <1>11 DEF SlashingNext
<1> QED BY <1>1, <1>12 DEF CoverIInv

LEMMA CoverInvariant ==
    ASSUME U32 - 1 \notin HistoryDepths
    PROVE  SlashingSpec => []CoverIInv
<1>1. SlashingInit => CoverIInv
  BY ErasInitInv DEF SlashingInit, CoverIInv
<1>2. CoverIInv /\ [SlashingNext]_slashingVars => CoverIInv'
  BY CoverNextInv
<1> QED BY <1>1, <1>2, PTL DEF SlashingSpec

\* end_span, prune and the fresh spans of a stash leave no gap: every era an
\* offence may be reported of is in a span, so that no report is lost.
THEOREM SpansAlwaysCover ==
    ASSUME U32 - 1 \notin HistoryDepths
    PROVE  SlashingSpec => []SpansCoverWindow
<1>1. CoverIInv => SpansCoverWindow
  <2> SUFFICES ASSUME CoverIInv, NEW s \in Stashes, slashing_spans[s] # None
               PROVE  /\ slashing_spans[s] \in SpansRecord
                      /\ \A e \in Era : e >= WindowStart =>
                           EraSpan(slashing_spans[s], e) # {}
    BY DEF SpansCoverWindow
  <2> DEFINE sp == slashing_spans[s]
  <2>1. SpansOK(sp, WindowStart, reports) /\ WindowStart \in Nat
    BY WindowStartType DEF CoverIInv
  <2>2. sp \in SpansRecord
    BY <2>1 DEF SpansOK
  <2>3. ASSUME NEW e \in Era, e >= WindowStart
        PROVE  EraSpan(sp, e) # {}
    <3>1. e \in Int
      BY ErasAssumption DEF Era
    <3>2. SpanStart(sp, Len(sp.prior)) \in Int
      BY <2>2, EndsInSpans
    <3>3. SpanStart(sp, Len(sp.prior)) <= e
      BY <2>1, <2>3, <3>1, <3>2 DEF SpansOK
    <3>4. \E k \in Spans(sp) : ContainsEra(sp, k, e)
      BY <2>2, <3>1, <3>3, SpanExists
    <3> QED BY <3>4 DEF EraSpan
  <2> QED BY <2>2, <2>3
<1> QED BY <1>1, CoverInvariant, PTL

-----------------------------------------------------------------------------
(***************************************************************************)
(* A stash pays for a span what its worst era costs.                       *)
(***************************************************************************)

\* The indices of the spans that are kept.
Live(sp) == (sp.span_index - Len(sp.prior))..sp.span_index

\* The records of the spans that are not kept are gone, those of the others
\* say what was charged, and an index to come has not been charged.
RecordsOK(sp, rec, chg) ==
    /\ rec \in [SpanIndex -> SpanRecord]
    /\ chg \in [SpanIndex -> Nat]
    /\ \A i \in SpanIndex : i \notin Live(sp) => rec[i] = NoRecord
    /\ \A i \in Live(sp) : chg[i] = rec[i].slashed
    /\ \A i \in SpanIndex : i > sp.span_index => chg[i] = 0

\* With the window starting at w and the active era a: no era of a span costs
\* more than what was charged for the span, and one costs as much, which is
\* an era of the span or one that can no longer be reported.
ChargesOK(sp, chg, off, w, a) ==
    /\ off \in [Era -> Nat]
    /\ \A e \in Era : off[e] # 0 => e <= a
    /\ \A k \in Spans(sp), e \in Era :
         e >= w /\ ContainsEra(sp, k, e) => chg[sp.span_index - k] >= off[e]
    /\ \A k \in Spans(sp) : chg[sp.span_index - k] # 0 =>
         \E e \in Era : /\ chg[sp.span_index - k] = off[e]
                        /\ e < w \/ ContainsEra(sp, k, e)

LEMMA LiveIndices ==
    ASSUME NEW sp, NEW w \in Int, NEW r \in Nat, SpansOK(sp, w, r)
    PROVE  /\ Live(sp) \subseteq SpanIndex
           /\ \A k \in Spans(sp) : /\ sp.span_index - k \in Live(sp)
                                   /\ sp.span_index - k \in SpanIndex
<1>1. /\ sp.span_index \in Nat /\ Len(sp.prior) \in Nat
      /\ sp.span_index \in 0..MaxReports
  BY SpansRecordType DEF SpansOK, SpanIndex
<1>2. Len(sp.prior) <= sp.span_index /\ MaxReports \in Nat
  BY SlashingAssumption DEF SpansOK
<1> QED BY <1>1, <1>2 DEF Live, Spans, SpanIndex

\* Ending the ongoing span changes the span of no era up to the active one.
LEMMA EndedContains ==
    ASSUME NEW sp \in SpansRecord, NEW a \in Nat, a + 1 > sp.last_start,
           sp.span_index + 1 \in SpanIndex, NEW k \in Spans(sp), NEW e \in Int
    PROVE  /\ ContainsEra(EndSpan(sp, a), k + 1, e) => ContainsEra(sp, k, e)
           /\ e <= a /\ ContainsEra(sp, k, e)
                => ContainsEra(EndSpan(sp, a), k + 1, e)
<1> DEFINE q == EndSpan(sp, a)
<1>1. /\ SpanStart(q, 0) = a + 1
      /\ \A j \in Spans(sp) : SpanStart(q, j + 1) = SpanStart(sp, j)
  BY EndSpanStarts
<1> HIDE DEF q
<1>2. k \in Nat /\ (k > 0 => k - 1 \in Spans(sp))
  BY SpansRecordType DEF Spans
<1>3. SpanStart(q, k + 1) = SpanStart(sp, k)
  BY <1>1
<1>4. k + 1 > 0 /\ (k + 1) - 1 = k
  BY <1>2
<1>5. ContainsEra(q, k + 1, e)
        <=> SpanStart(sp, k) <= e /\ e < SpanStart(q, k)
  BY <1>3, <1>4 DEF ContainsEra
<1>6. CASE k = 0
  <2>1. ContainsEra(sp, k, e) <=> SpanStart(sp, k) <= e
    BY <1>6 DEF ContainsEra
  <2>2. e < SpanStart(q, k) <=> e <= a
    BY <1>1, <1>6
  <2> QED BY <1>5, <2>1, <2>2 DEF q
<1>7. CASE k > 0
  <2>1. SpanStart(q, (k - 1) + 1) = SpanStart(sp, k - 1)
    BY <1>1, <1>2, <1>7
  <2>2. (k - 1) + 1 = k
    BY <1>2
  <2>3. ContainsEra(sp, k, e)
          <=> SpanStart(sp, k) <= e /\ e < SpanStart(sp, k - 1)
    BY <1>7 DEF ContainsEra
  <2> QED BY <1>5, <2>1, <2>2, <2>3 DEF q
<1> QED BY <1>2, <1>6, <1>7

LEMMA EndSpanRecords ==
    ASSUME NEW sp, NEW w \in Nat, NEW r \in Nat, NEW a \in Nat,
           r < MaxReports, SpansOK(sp, w, r), NEW rec, NEW chg,
           RecordsOK(sp, rec, chg)
    PROVE  RecordsOK(EndSpan(sp, a), rec, chg)
<1>1. /\ sp \in SpansRecord /\ sp.span_index \in Nat
      /\ sp.last_start \in Nat /\ Len(sp.prior) \in Nat
  BY SpansRecordType DEF SpansOK
<1>2. CASE a + 1 <= sp.last_start
  BY <1>2 DEF EndSpan
<1>3. CASE a + 1 > sp.last_start
  <2> DEFINE q == EndSpan(sp, a)
  <2>1. sp.span_index + 1 \in SpanIndex
    BY <1>1, SlashingAssumption DEF SpanIndex, SpansOK
  <2>2. /\ q.span_index = sp.span_index + 1
        /\ Len(q.prior) = Len(sp.prior) + 1
    BY <1>1, <1>3, <2>1, EndSpanStarts
  <2> HIDE DEF q
  <2>3. Live(q) = Live(sp) \cup {sp.span_index + 1}
    <3>1. \A x, n \in Nat : (x + 1 - (n + 1))..(x + 1)
                              = ((x - n)..x) \cup {x + 1}
      OBVIOUS
    <3> QED BY <1>1, <2>2, <3>1 DEF Live
  <2>4. sp.span_index + 1 \notin Live(sp)
    BY <1>1 DEF Live
  <2>5. chg[sp.span_index + 1] = 0 /\ rec[sp.span_index + 1] = NoRecord
    BY <1>1, <2>1, <2>4 DEF RecordsOK
  <2>6. \A i \in Live(q) : chg[i] = rec[i].slashed
    BY <2>3, <2>5 DEF RecordsOK, NoRecord
  <2>7. \A i \in SpanIndex : i > q.span_index => chg[i] = 0
    BY <1>1, <2>2 DEF RecordsOK, SpanIndex
  <2>8. RecordsOK(q, rec, chg)
    BY <2>3, <2>6, <2>7 DEF RecordsOK
  <2> QED BY <2>8 DEF q
<1> QED BY <1>1, <1>2, <1>3

LEMMA EndSpanCharges ==
    ASSUME NEW sp, NEW w \in Nat, NEW r \in Nat, NEW a \in Nat,
           r < MaxReports, SpansOK(sp, w, r), NEW rec, NEW chg, NEW off,
           RecordsOK(sp, rec, chg), ChargesOK(sp, chg, off, w, a)
    PROVE  ChargesOK(EndSpan(sp, a), chg, off, w, a)
<1>1. /\ sp \in SpansRecord /\ sp.span_index \in Nat
      /\ sp.last_start \in Nat /\ Len(sp.prior) \in Nat
  BY SpansRecordType DEF SpansOK
<1>2. CASE a + 1 <= sp.last_start
  BY <1>2 DEF EndSpan
<1>3. CASE a + 1 > sp.last_start
  <2> DEFINE q == EndSpan(sp, a)
  <2>1. sp.span_index + 1 \in SpanIndex
    BY <1>1, SlashingAssumption DEF SpanIndex, SpansOK
  <2>2. /\ q.span_index = sp.span_index + 1
        /\ Len(q.prior) = Len(sp.prior) + 1
        /\ SpanStart(q, 0) = a + 1
    BY <1>1, <1>3, <2>1, EndSpanStarts
  <2>3. \A k \in Spans(sp), e \in Era :
          /\ ContainsEra(q, k + 1, e) => ContainsEra(sp, k, e)
          /\ e <= a /\ ContainsEra(sp, k, e) => ContainsEra(q, k + 1, e)
    BY <1>1, <1>3, <2>1, EndedContains, ErasAssumption DEF Era
  <2> HIDE DEF q
  <2>4. chg[sp.span_index + 1] = 0
    BY <1>1, <2>1 DEF RecordsOK
  <2>5. ASSUME NEW k \in Spans(q), k # 0
        PROVE  /\ k - 1 \in Spans(sp) /\ (k - 1) + 1 = k
               /\ q.span_index - k = sp.span_index - (k - 1)
    BY <1>1, <2>2, <2>5 DEF Spans
  <2>6. ASSUME NEW k \in Spans(q), NEW e \in Era, e >= w,
               ContainsEra(q, k, e)
        PROVE  chg[q.span_index - k] >= off[e]
    <3>1. CASE k = 0
      <4>1. a + 1 <= e
        BY <2>2, <2>6, <3>1 DEF ContainsEra
      <4>2. off[e] = 0
        BY <4>1, ErasAssumption DEF ChargesOK, Era
      <4>3. chg[q.span_index - 0] = 0
        BY <1>1, <2>2, <2>4
      <4> QED BY <3>1, <4>2, <4>3
    <3>2. CASE k # 0
      <4>1. ContainsEra(q, (k - 1) + 1, e)
        BY <2>5, <2>6, <3>2
      <4>2. ContainsEra(sp, k - 1, e)
        BY <2>3, <2>5, <3>2, <4>1
      <4>3. chg[sp.span_index - (k - 1)] >= off[e]
        BY <2>5, <2>6, <3>2, <4>2 DEF ChargesOK
      <4> QED BY <2>5, <3>2, <4>3
    <3> QED BY <3>1, <3>2
  <2>7. ASSUME NEW k \in Spans(q), chg[q.span_index - k] # 0
        PROVE  \E e \in Era : /\ chg[q.span_index - k] = off[e]
                              /\ e < w \/ ContainsEra(q, k, e)
    <3>1. k # 0
      <4> SUFFICES ASSUME k = 0 PROVE FALSE
        OBVIOUS
      <4>1. q.span_index - k = sp.span_index + 1
        BY <1>1, <2>2
      <4> QED BY <2>4, <2>7, <4>1
    <3>2. chg[sp.span_index - (k - 1)] # 0
      BY <2>5, <2>7, <3>1
    <3>3. PICK e \in Era : /\ chg[sp.span_index - (k - 1)] = off[e]
                           /\ e < w \/ ContainsEra(sp, k - 1, e)
      BY <2>5, <3>1, <3>2 DEF ChargesOK
    <3>4. e <= a
      BY <3>2, <3>3 DEF ChargesOK
    <3>5. e < w \/ ContainsEra(q, (k - 1) + 1, e)
      BY <2>3, <2>5, <3>1, <3>3, <3>4
    <3> QED BY <2>5, <3>1, <3>3, <3>5
  <2>8. ChargesOK(q, chg, off, w, a)
    BY <2>6, <2>7 DEF ChargesOK
  <2> QED BY <2>8 DEF q
<1> QED BY <1>1, <1>2, <1>3

\* The records prune leaves.
PrunedRecords(sp, rec, w) ==
    [i \in SpanIndex |-> IF i \in PrunedIndices(sp, w) THEN NoRecord
                         ELSE rec[i]]

LEMMA PruneRecords ==
    ASSUME NEW sp \in SpansRecord, NEW w \in Nat, NEW r \in Nat,
           SpansOK(sp, w, r), NEW rec, NEW chg, RecordsOK(sp, rec, chg)
    PROVE  RecordsOK(Prune(sp, w), PrunedRecords(sp, rec, w), chg)
<1> DEFINE q == Prune(sp, w)
           m == Cardinality(KeptSpans(sp, w))
           n == Len(sp.prior)
           x == sp.span_index
           after == PrunedRecords(sp, rec, w)
<1>1. x \in Nat /\ n \in Nat
  BY SpansRecordType
<1>2. q.span_index = x /\ m \in Spans(sp) /\ Len(q.prior) = m
  BY PruneStarts
<1>3. PrunedIndices(sp, w) = (x - n)..(x - m - 1)
  BY DEF PrunedIndices
<1> HIDE DEF q, m
<1>4. m \in 0..n
  BY <1>2 DEF Spans
<1>5. Live(q) = (x - m)..x /\ Live(sp) = (x - n)..x
  BY <1>2 DEF Live
<1>6. ASSUME NEW i \in SpanIndex, i \notin Live(q)
      PROVE  after[i] = NoRecord
  <2>1. i \in Int
    BY SlashingAssumption DEF SpanIndex
  <2>2. i \in PrunedIndices(sp, w) \/ i \notin Live(sp)
    <3> HIDE DEF x, n
    <3> QED BY <1>1, <1>3, <1>4, <1>5, <1>6, <2>1
  <2> QED BY <2>2 DEF RecordsOK, PrunedRecords
<1>7. ASSUME NEW i \in Live(q)
      PROVE  i \in Live(sp) /\ i \notin PrunedIndices(sp, w)
  <2> HIDE DEF x, n
  <2> QED BY <1>1, <1>3, <1>4, <1>5, <1>7
<1>8. ASSUME NEW i \in Live(q)
      PROVE  chg[i] = after[i].slashed
  <2>1. chg[i] = rec[i].slashed
    BY <1>7 DEF RecordsOK
  <2>2. CASE i \in SpanIndex
    BY <1>7, <2>1, <2>2 DEF PrunedRecords
  <2>3. i \in SpanIndex
    BY <1>7, <1>8, LiveIndices
  <2> QED BY <2>2, <2>3
<1>9. after \in [SpanIndex -> SpanRecord]
  BY NoRecordGood DEF PrunedRecords, RecordsOK
<1>10. \A i \in SpanIndex : i > q.span_index => chg[i] = 0
  BY <1>2 DEF RecordsOK
<1>11. RecordsOK(q, after, chg)
  <2> HIDE DEF after
  <2> QED BY <1>6, <1>8, <1>9, <1>10 DEF RecordsOK
<1> QED BY <1>11 DEF q

LEMMA PruneCharges ==
    ASSUME NEW sp \in SpansRecord, NEW w \in Nat, NEW a, NEW chg, NEW off,
           ChargesOK(sp, chg, off, w, a)
    PROVE  ChargesOK(Prune(sp, w), chg, off, w, a)
<1> DEFINE q == Prune(sp, w)
           m == Cardinality(KeptSpans(sp, w))
<1>1. /\ q.span_index = sp.span_index /\ m \in Spans(sp)
      /\ Len(q.prior) = m
      /\ sp.last_start >= w =>
           \A k \in 0..m : SpanStart(q, k) = SpanStart(sp, k)
      /\ sp.last_start < w => m = 0 /\ SpanStart(q, 0) = w
  BY PruneStarts
<1>2. sp.last_start \in Nat /\ Len(sp.prior) \in Nat
  BY SpansRecordType
<1> HIDE DEF q, m
<1>3. m \in 0..Len(sp.prior)
  BY <1>1 DEF Spans
<1>4. Spans(q) = 0..m /\ Spans(q) \subseteq Spans(sp)
  BY <1>1, <1>2, <1>3 DEF Spans
<1>5. ASSUME NEW k \in Spans(q), NEW e \in Era, e >= w
      PROVE  ContainsEra(q, k, e) <=> ContainsEra(sp, k, e)
  <2>1. CASE sp.last_start >= w
    <3>1. SpanStart(q, k) = SpanStart(sp, k)
      BY <1>1, <1>4, <2>1
    <3>2. k > 0 => SpanStart(q, k - 1) = SpanStart(sp, k - 1)
      <4> SUFFICES ASSUME k > 0
                   PROVE  SpanStart(q, k - 1) = SpanStart(sp, k - 1)
        OBVIOUS
      <4>1. k - 1 \in 0..m
        BY <1>2, <1>3, <1>4
      <4> QED BY <1>1, <2>1, <4>1
    <3> QED BY <3>1, <3>2 DEF ContainsEra
  <2>2. CASE sp.last_start < w
    <3>1. k = 0 /\ SpanStart(q, 0) = w
      BY <1>1, <1>4, <2>2
    <3>2. SpanStart(sp, 0) = sp.last_start
      BY <1>1, SpanStarts
    <3>3. e \in Int
      BY ErasAssumption DEF Era
    <3>4. SpanStart(sp, 0) <= e
      BY <1>2, <1>5, <2>2, <3>2, <3>3
    <3> QED BY <1>5, <3>1, <3>4 DEF ContainsEra
  <2> QED BY <1>2, <2>1, <2>2
<1>6. ASSUME NEW k \in Spans(q), NEW e \in Era, e >= w, ContainsEra(q, k, e)
      PROVE  chg[q.span_index - k] >= off[e]
  <2>1. ContainsEra(sp, k, e) /\ k \in Spans(sp)
    BY <1>4, <1>5, <1>6
  <2>2. chg[sp.span_index - k] >= off[e]
    BY <1>6, <2>1 DEF ChargesOK
  <2> QED BY <1>1, <2>2
<1>7. ASSUME NEW k \in Spans(q), chg[q.span_index - k] # 0
      PROVE  \E e \in Era : /\ chg[q.span_index - k] = off[e]
                            /\ e < w \/ ContainsEra(q, k, e)
  <2>1. PICK e \in Era : /\ chg[sp.span_index - k] = off[e]
                         /\ e < w \/ ContainsEra(sp, k, e)
    BY <1>1, <1>4, <1>7 DEF ChargesOK
  <2>2. e \in Int
    BY ErasAssumption DEF Era
  <2>3. e < w \/ ContainsEra(q, k, e)
    BY <1>5, <2>1, <2>2
  <2> QED BY <1>1, <2>1, <2>3
<1>8. ChargesOK(q, chg, off, w, a)
  BY <1>6, <1>7 DEF ChargesOK
<1> QED BY <1>8 DEF q

\* A mark changes neither.
LEMMA MarkedOK ==
    ASSUME NEW sp, NEW era \in Nat, NEW w, NEW r, NEW a, NEW rec, NEW chg,
           NEW off, SpansOK(sp, w, r), RecordsOK(sp, rec, chg),
           ChargesOK(sp, chg, off, w, a)
    PROVE  LET q == MarkedSpans(sp, era)
           IN  /\ SpansOK(q, w, r)
               /\ RecordsOK(q, rec, chg)
               /\ ChargesOK(q, chg, off, w, a)
<1> DEFINE q == MarkedSpans(sp, era)
<1>1. /\ q \in SpansRecord /\ q.prior = sp.prior
      /\ q.span_index = sp.span_index /\ Spans(q) = Spans(sp)
      /\ \A k : SpanStart(q, k) = SpanStart(sp, k)
  BY MarkedSame DEF SpansOK
<1> HIDE DEF q
<1>2. SpansOK(q, w, r)
  BY <1>1 DEF SpansOK
<1>3. Live(q) = Live(sp)
  BY <1>1 DEF Live
<1>4. RecordsOK(q, rec, chg)
  BY <1>1, <1>3 DEF RecordsOK
<1>5. \A k, e : ContainsEra(q, k, e) <=> ContainsEra(sp, k, e)
  BY <1>1 DEF ContainsEra
<1>6. ChargesOK(q, chg, off, w, a)
  BY <1>1, <1>5 DEF ChargesOK
<1> QED BY <1>2, <1>4, <1>6 DEF q

\* A slash in an era of the span k raises what is charged for the span to it.
LEMMA SlashRecords ==
    ASSUME NEW sp, NEW w \in Nat, NEW r \in Nat, SpansOK(sp, w, r),
           NEW rec, NEW chg, RecordsOK(sp, rec, chg), GoodRecords(rec),
           NEW k \in Spans(sp), NEW slash \in Nat
    PROVE  LET i == sp.span_index - k
               after == RecordAfter(rec[i], slash)
           IN  /\ RecordsOK(sp, [rec EXCEPT ![i] = after],
                                [chg EXCEPT ![i] = after.slashed])
               /\ after.slashed = BiggerOf(chg[i], slash)
<1> DEFINE i == sp.span_index - k
           after == RecordAfter(rec[i], slash)
           rec2 == [rec EXCEPT ![i] = after]
           chg2 == [chg EXCEPT ![i] = after.slashed]
<1>1. i \in Live(sp) /\ i \in SpanIndex
  BY LiveIndices
<1>2. sp.span_index \in Nat /\ k \in Nat
  BY SpansRecordType DEF SpansOK, Spans
<1>3. ~(i > sp.span_index)
  BY <1>2
<1> HIDE DEF i
<1>4. after \in SpanRecord
  BY <1>1, RecordAfterGood DEF GoodRecords
<1>5. chg[i] = rec[i].slashed
  BY <1>1 DEF RecordsOK
<1>6. after.slashed = BiggerOf(chg[i], slash)
  BY <1>5 DEF RecordAfter
<1>7. after.slashed \in Nat
  <2> HIDE DEF after
  <2> QED BY <1>4 DEF SpanRecord
<1> HIDE DEF after
<1>8. rec2 \in [SpanIndex -> SpanRecord] /\ chg2 \in [SpanIndex -> Nat]
  BY <1>4, <1>7 DEF RecordsOK
<1>9. \A j \in SpanIndex : j \notin Live(sp) => rec2[j] = NoRecord
  BY <1>1 DEF RecordsOK
<1>10. \A j \in Live(sp) : chg2[j] = rec2[j].slashed
  <2>1. Live(sp) \subseteq SpanIndex
    BY LiveIndices
  <2> QED BY <1>1, <2>1 DEF RecordsOK
<1>11. \A j \in SpanIndex : j > sp.span_index => chg2[j] = 0
  BY <1>3 DEF RecordsOK
<1>12. RecordsOK(sp, rec2, chg2)
  <2> HIDE DEF rec2, chg2
  <2> QED BY <1>8, <1>9, <1>10, <1>11 DEF RecordsOK
<1> QED BY <1>6, <1>12 DEF after, i

LEMMA SlashCharges ==
    ASSUME NEW sp, NEW w \in Nat, NEW r \in Nat, NEW a \in Nat,
           SpansOK(sp, w, r), NEW rec, NEW chg, NEW off,
           RecordsOK(sp, rec, chg), ChargesOK(sp, chg, off, w, a),
           NEW k \in Spans(sp), NEW e \in Era, w <= e, e <= a,
           ContainsEra(sp, k, e), NEW slash \in Nat, off[e] <= slash,
           NEW paid, paid = BiggerOf(chg[sp.span_index - k], slash)
    PROVE  ChargesOK(sp, [chg EXCEPT ![sp.span_index - k] = paid],
                     [off EXCEPT ![e] = slash], w, a)
<1> DEFINE x == sp.span_index
           i == x - k
           chg2 == [chg EXCEPT ![i] = paid]
           off2 == [off EXCEPT ![e] = slash]
<1>1. /\ sp \in SpansRecord /\ x \in Nat /\ e \in Int
      /\ \A j \in Spans(sp) : j \in Nat /\ x - j \in SpanIndex
  <2>1. sp \in SpansRecord
    BY DEF SpansOK
  <2>2. x \in Nat
    BY <2>1, SpansRecordType
  <2>3. e \in Int
    BY ErasAssumption DEF Era
  <2>4. \A j \in Spans(sp) : j \in Nat /\ x - j \in SpanIndex
    BY <2>1, LiveIndices, SpanStarts
  <2> QED BY <2>1, <2>2, <2>3, <2>4
<1>2. chg \in [SpanIndex -> Nat] /\ off \in [Era -> Nat]
  BY DEF RecordsOK, ChargesOK
<1>3. i \in SpanIndex /\ chg[i] \in Nat
  BY <1>1, <1>2
<1>4. paid \in Nat /\ paid >= slash /\ paid >= chg[i]
      /\ (paid = slash \/ paid = chg[i])
  <2> HIDE DEF i
  <2> QED BY <1>3 DEF BiggerOf, i
<1>5. chg2[i] = paid /\ off2[e] = slash
  <2> HIDE DEF i
  <2> QED BY <1>2, <1>3
<1>6. ASSUME NEW j \in Spans(sp), j # k
      PROVE  chg2[x - j] = chg[x - j]
  <2>1. x - j # i
    BY <1>1, <1>6
  <2> HIDE DEF i
  <2> QED BY <1>1, <1>2, <2>1
<1>7. \A d \in Era : d # e => off2[d] = off[d]
  BY <1>2
<1>8. off2 \in [Era -> Nat]
  BY <1>2
<1> HIDE DEF chg2, off2
<1>9. \A d \in Era : off2[d] # 0 => d <= a
  BY <1>7 DEF ChargesOK
<1>10. ASSUME NEW j \in Spans(sp), NEW d \in Era, d >= w,
              ContainsEra(sp, j, d)
       PROVE  chg2[x - j] >= off2[d]
  <2>1. chg[x - j] >= off[d] /\ chg[x - j] \in Nat /\ off[d] \in Nat
    BY <1>1, <1>2, <1>10 DEF ChargesOK
  <2>2. CASE j = k
    <3>1. chg2[x - j] = paid /\ chg[x - j] = chg[i]
      BY <1>5, <2>2
    <3>2. off2[d] = slash \/ off2[d] = off[d]
      BY <1>5, <1>7
    <3> HIDE DEF i
    <3> QED BY <1>3, <1>4, <2>1, <3>1, <3>2
  <2>3. CASE j # k
    <3>1. d # e
      BY <1>1, <1>10, <2>3, SpanUnique
    <3> QED BY <1>6, <1>7, <2>1, <2>3, <3>1
  <2> QED BY <2>2, <2>3
<1>11. ASSUME NEW j \in Spans(sp), chg2[x - j] # 0
       PROVE  \E d \in Era : /\ chg2[x - j] = off2[d]
                             /\ d < w \/ ContainsEra(sp, j, d)
  <2>1. CASE j = k /\ paid = slash
    <3>1. chg2[x - j] = off2[e]
      BY <1>5, <2>1
    <3> QED BY <2>1, <3>1
  <2>2. CASE j = k /\ paid # slash
    <3>1. paid = chg[i] /\ paid > slash /\ chg2[x - j] = paid
          /\ chg[x - j] # 0
      <4>1. chg2[x - j] = paid /\ chg[x - j] = chg[i]
        BY <1>5, <2>2
      <4> HIDE DEF i
      <4> QED BY <1>3, <1>4, <2>2, <4>1
    <3>2. PICK d \in Era : /\ chg[x - j] = off[d]
                           /\ d < w \/ ContainsEra(sp, j, d)
      BY <3>1 DEF ChargesOK
    <3>3. chg[x - j] = paid
      BY <3>1, <2>2
    <3>4. d # e
      <4>1. off[e] \in Nat
        BY <1>2
      <4>2. off[d] > slash
        BY <3>1, <3>2, <3>3
      <4> QED BY <4>1, <4>2
    <3> QED BY <1>7, <3>1, <3>2, <3>3, <3>4
  <2>3. CASE j # k
    <3>1. chg2[x - j] = chg[x - j]
      BY <1>6, <2>3
    <3>2. chg[x - j] # 0
      BY <1>11, <3>1
    <3>3. PICK d \in Era : /\ chg[x - j] = off[d]
                           /\ d < w \/ ContainsEra(sp, j, d)
      BY <3>2 DEF ChargesOK
    <3>4. d # e
      <4>1. CASE d < w
        BY <1>1, <4>1
      <4>2. CASE ContainsEra(sp, j, d)
        BY <1>1, <2>3, <4>2, SpanUnique
      <4> QED BY <3>3, <4>1, <4>2
    <3> QED BY <1>7, <3>1, <3>3, <3>4
  <2> QED BY <2>1, <2>2, <2>3
<1>12. ChargesOK(sp, chg2, off2, w, a)
  BY <1>8, <1>9, <1>10, <1>11 DEF ChargesOK
<1> QED BY <1>12 DEF chg2, off2

\* What is kept of a stash: nothing, or spans with records and charges.
StashOK(spans, rec, chg, off, w, a) ==
    IF spans = None
    THEN /\ rec = [i \in SpanIndex |-> NoRecord]
         /\ chg = [i \in SpanIndex |-> 0]
         /\ off = [e \in Era |-> 0]
    ELSE RecordsOK(spans, rec, chg) /\ ChargesOK(spans, chg, off, w, a)

\* What an era has cost a stash so far is on record while it may still be
\* reported of: a further report can only raise it.
EraCosts ==
    \A e \in Era : e >= WindowStart =>
        /\ \A v \in Validators :
             offended[v][e] <= MulNearest(validator_slash_in_era[e][v],
                                          ExposureOwn[v])
        /\ \A n \in Nominators :
             offended[n][e] <= nominator_slash_in_era[e][n]

\* The inductive invariant.
PaysIInv ==
    /\ CoverIInv
    /\ RewardIInv
    /\ DOMAIN charged = Stashes
    /\ offended \in [Stashes -> [Era -> Nat]]
    /\ EraCosts
    /\ \A s \in Stashes :
         StashOK(slashing_spans[s], span_slash[s], charged[s], offended[s],
                 WindowStart, active_era)

LEMMA FetchPaid ==
    ASSUME PaysIInv, NEW s \in Stashes
    PROVE  /\ RecordsOK(FetchSpans(s), span_slash[s], charged[s])
           /\ ChargesOK(FetchSpans(s), charged[s], offended[s], WindowStart,
                        active_era)
<1>1. StashOK(slashing_spans[s], span_slash[s], charged[s], offended[s],
              WindowStart, active_era)
  BY DEF PaysIInv
<1>2. CASE slashing_spans[s] # None
  BY <1>1, <1>2 DEF StashOK, FetchSpans
<1>3. CASE slashing_spans[s] = None
  <2> DEFINE sp == FetchSpans(s)
  <2>1. /\ span_slash[s] = [i \in SpanIndex |-> NoRecord]
        /\ charged[s] = [i \in SpanIndex |-> 0]
        /\ offended[s] = [e \in Era |-> 0]
    BY <1>1, <1>3 DEF StashOK
  <2>2. sp.span_index = 0 /\ sp.prior = <<>>
    BY <1>3 DEF FetchSpans, NewSpans
  <2> HIDE DEF sp
  <2>3. Live(sp) = {0} /\ Spans(sp) = {0} /\ 0 \in SpanIndex
    BY <2>2, SlashingAssumption DEF Live, Spans, SpanIndex
  <2>4. RecordsOK(sp, span_slash[s], charged[s])
    <3>1. span_slash[s] \in [SpanIndex -> SpanRecord]
      BY <2>1, NoRecordGood
    <3>2. charged[s] \in [SpanIndex -> Nat]
      BY <2>1
    <3>3. \A i \in Live(sp) : charged[s][i] = span_slash[s][i].slashed
      BY <2>1, <2>3 DEF NoRecord
    <3> QED BY <2>1, <3>1, <3>2, <3>3 DEF RecordsOK
  <2>5. ChargesOK(sp, charged[s], offended[s], WindowStart, active_era)
    <3>1. \A k \in Spans(sp) : charged[s][sp.span_index - k] = 0
      BY <2>1, <2>2, <2>3
    <3>2. offended[s] \in [Era -> Nat] /\ \A e \in Era : offended[s][e] = 0
      BY <2>1
    <3> QED BY <3>1, <3>2 DEF ChargesOK
  <2> QED BY <2>4, <2>5 DEF sp
<1> QED BY <1>2, <1>3

\* The end of an inspection keeps what is known of a stash.
LEMMA InspectedPaid ==
    ASSUME NEW sp, NEW r \in Nat, WindowStart \in Nat, NEW rec, NEW chg,
           NEW off, NEW dirty \in BOOLEAN, SpansOK(sp, WindowStart, r),
           RecordsOK(sp, rec, chg),
           ChargesOK(sp, chg, off, WindowStart, active_era)
    PROVE  StashOK(Inspected(sp, rec, dirty).spans,
                   Inspected(sp, rec, dirty).records, chg, off, WindowStart,
                   active_era)
<1> DEFINE res == Inspected(sp, rec, dirty)
<1>1. sp \in SpansRecord
  BY DEF SpansOK
<1>2. res.spans \in SpansRecord /\ res.spans # None
  <2>1. SpansOK(res.spans, WindowStart, r)
    BY InspectedOK
  <2> HIDE DEF res
  <2> QED BY <2>1, SlashingAssumption DEF SpansOK
<1>3. RecordsOK(res.spans, res.records, chg)
      /\ ChargesOK(res.spans, chg, off, WindowStart, active_era)
  <2>1. CASE dirty
    <3>1. /\ res.spans = Prune(sp, WindowStart)
          /\ res.records = PrunedRecords(sp, rec, WindowStart)
      BY <2>1 DEF Inspected, PrunedRecords
    <3> HIDE DEF res
    <3> QED BY <1>1, <3>1, PruneRecords, PruneCharges
  <2>2. CASE ~dirty
    <3>1. res.spans = sp /\ res.records = [i \in SpanIndex |-> rec[i]]
      BY <2>2 DEF Inspected
    <3>2. rec = [i \in SpanIndex |-> rec[i]]
      BY DEF RecordsOK
    <3>3. res.records = rec
      <4> HIDE DEF res
      <4> QED BY <3>1, <3>2
    <3> HIDE DEF res
    <3> QED BY <3>1, <3>3
  <2> QED BY <2>1, <2>2
<1> HIDE DEF res
<1>4. StashOK(res.spans, res.records, chg, off, WindowStart, active_era)
  BY <1>2, <1>3 DEF StashOK
<1> QED BY <1>4 DEF res

\* An offence that costs nothing may end a span of the offender.
LEMMA KickOutPaid ==
    ASSUME PaysIInv, reports < MaxReports, NEW s \in Stashes, NEW ends \in BOOLEAN,
           NEW dirty \in BOOLEAN
    PROVE  LET sp == FetchSpans(s)
               ended == IF ends THEN EndSpan(sp, active_era) ELSE sp
               res == Inspected(ended, span_slash[s], dirty)
           IN  StashOK(res.spans, res.records, charged[s], offended[s],
                       WindowStart, active_era)
<1> DEFINE sp == FetchSpans(s)
           ended == IF ends THEN EndSpan(sp, active_era) ELSE sp
<1>1. SpansOK(sp, WindowStart, reports)
  BY FetchSpansOK DEF PaysIInv
<1>2. /\ WindowStart \in Nat /\ active_era \in Nat /\ reports \in Nat
      /\ reports + 1 \in Nat
  BY WindowStartType DEF PaysIInv, CoverIInv
<1>3. /\ RecordsOK(sp, span_slash[s], charged[s])
      /\ ChargesOK(sp, charged[s], offended[s], WindowStart, active_era)
  BY FetchPaid
<1> HIDE DEF sp
<1>4. SpansOK(ended, WindowStart, reports + 1)
  <2>1. SpansOK(EndSpan(sp, active_era), WindowStart, reports + 1)
    BY <1>1, <1>2, EndSpanOK
  <2>2. SpansOK(sp, WindowStart, reports + 1)
    BY <1>1, <1>2, SpansOKLater
  <2> QED BY <2>1, <2>2
<1>5. /\ RecordsOK(ended, span_slash[s], charged[s])
      /\ ChargesOK(ended, charged[s], offended[s], WindowStart, active_era)
  BY <1>1, <1>2, <1>3, EndSpanRecords, EndSpanCharges
<1>6. LET res == Inspected(ended, span_slash[s], dirty)
      IN  StashOK(res.spans, res.records, charged[s], offended[s],
                  WindowStart, active_era)
  <2> HIDE DEF ended
  <2> QED BY <1>2, <1>4, <1>5, InspectedPaid
<1> QED BY <1>6 DEF sp

\* What is charged to a stash for a slash in an era of its span k.
LEMMA ChargedShape ==
    ASSUME PaysIInv, NEW s \in Stashes, NEW e \in Era, NEW slash \in Nat,
           NEW k \in EraSpan(FetchSpans(s), e)
    PROVE  LET i == FetchSpans(s).span_index - k
           IN  ChargedAfter(s, e, slash)
                 = [charged[s] EXCEPT
                      ![i] = RecordAfter(span_slash[s][i], slash).slashed]
<1> DEFINE sp == FetchSpans(s)
           ks == EraSpan(sp, e)
           i == sp.span_index - k
           new(j) == RecordAfter(span_slash[s][j], slash).slashed
<1>1. SpansOK(sp, WindowStart, reports) /\ RecordsOK(sp, span_slash[s], charged[s])
      /\ WindowStart \in Nat /\ reports \in Nat
  BY FetchSpansOK, FetchPaid, WindowStartType DEF PaysIInv, CoverIInv
<1> HIDE DEF sp
<1>2. sp \in SpansRecord /\ sp.span_index \in Nat
  BY <1>1, SpansRecordType DEF SpansOK
<1>3. k \in Spans(sp) /\ ContainsEra(sp, k, e) /\ k \in Nat /\ e \in Int
  BY <1>2, SpanStarts, ErasAssumption DEF EraSpan, sp, Era
<1>4. \A j \in ks : j = k
  BY <1>2, <1>3, SpanUnique DEF EraSpan
<1>5. k \in ks
  BY DEF sp
<1>6. \A j \in SpanIndex : sp.span_index - j \in ks <=> j = i
  <2>1. SpanIndex \subseteq Int
    BY SlashingAssumption DEF SpanIndex
  <2>2. \A j \in Int : sp.span_index - j = k <=> j = sp.span_index - k
    BY <1>2, <1>3
  <2> HIDE DEF ks
  <2> QED BY <1>4, <1>5, <2>1, <2>2
<1>7. i \in Live(sp) /\ i \in SpanIndex
  BY <1>1, <1>3, LiveIndices
<1>8. charged[s][i] = span_slash[s][i].slashed /\ span_slash[s][i].slashed \in Nat
  <2> HIDE DEF i
  <2> QED BY <1>1, <1>7 DEF RecordsOK, SpanRecord
<1>9. new(i) \in Nat
  <2>1. GoodRecords(span_slash[s])
    BY DEF PaysIInv, RewardIInv
  <2> HIDE DEF i
  <2>2. RecordAfter(span_slash[s][i], slash) \in SpanRecord
    BY <1>7, <2>1, RecordAfterGood DEF GoodRecords
  <2> QED BY <2>2 DEF SpanRecord
<1>10. ChargedAfter(s, e, slash) =
         [j \in SpanIndex |->
            IF sp.span_index - j \in ks
            THEN charged[s][j] + new(j) - span_slash[s][j].slashed
            ELSE charged[s][j]]
  BY DEF ChargedAfter, sp
<1>11. \A j \in SpanIndex :
         ChargedAfter(s, e, slash)[j] = IF j = i THEN new(i) ELSE charged[s][j]
  <2>1. charged[s][i] + new(i) - span_slash[s][i].slashed = new(i)
    <3> HIDE DEF i, new
    <3> QED BY <1>8, <1>9
  <2> HIDE DEF i, new, ks
  <2> QED BY <1>6, <1>10, <2>1
<1>12. DOMAIN charged[s] = SpanIndex
  BY <1>1 DEF RecordsOK
<1>13. ChargedAfter(s, e, slash) = [charged[s] EXCEPT ![i] = new(i)]
  <2>1. DOMAIN ChargedAfter(s, e, slash) = SpanIndex
    <3> HIDE DEF i, new, ks
    <3> QED BY <1>10
  <2>2. ChargedAfter(s, e, slash)
          = [j \in SpanIndex |-> ChargedAfter(s, e, slash)[j]]
    <3> HIDE DEF i, new, ks
    <3> QED BY <1>10
  <2> HIDE DEF i, new
  <2> QED BY <1>7, <1>11, <1>12, <2>1, <2>2
<1> QED BY <1>13 DEF sp

\* A slash of an era that may be reported of.
LEMMA SlashPaid ==
    ASSUME PaysIInv, reports < MaxReports, NEW s \in Stashes, NEW e \in Era,
           WindowStart <= e, e <= active_era, NEW slash \in Nat,
           offended[s][e] <= slash
    PROVE  StashOK(SpansAfter(s, e, slash).spans,
                   SpansAfter(s, e, slash).records,
                   ChargedAfter(s, e, slash),
                   [offended[s] EXCEPT ![e] = slash], WindowStart, active_era)
<1> DEFINE sp == FetchSpans(s)
           ks == EraSpan(sp, e)
           k == CHOOSE j \in ks : TRUE
           i == sp.span_index - k
           after == RecordAfter(span_slash[s][i], slash)
           rec == [span_slash[s] EXCEPT ![i] = after]
           chg == [charged[s] EXCEPT ![i] = after.slashed]
           off == [offended[s] EXCEPT ![e] = slash]
<1>1. SpansOK(sp, WindowStart, reports)
  BY FetchSpansOK DEF PaysIInv
<1>2. /\ WindowStart \in Nat /\ active_era \in Nat /\ reports \in Nat
      /\ reports + 1 \in Nat
  BY WindowStartType DEF PaysIInv, CoverIInv
<1>3. /\ RecordsOK(sp, span_slash[s], charged[s])
      /\ ChargesOK(sp, charged[s], offended[s], WindowStart, active_era)
      /\ GoodRecords(span_slash[s])
  BY FetchPaid DEF PaysIInv, RewardIInv
<1>4. sp \in SpansRecord /\ sp.last_nonzero_slash \in Nat
  <2> HIDE DEF sp
  <2> QED BY <1>1, SpansRecordType DEF SpansOK
<1>5. e \in Nat
  BY ErasAssumption DEF Era
<1>6. ks # {}
  <2>1. SpanStart(sp, Len(sp.prior)) <= WindowStart
    BY <1>1 DEF SpansOK
  <2> HIDE DEF sp
  <2>2. SpanStart(sp, Len(sp.prior)) \in Int
    BY <1>4, EndsInSpans
  <2>3. SpanStart(sp, Len(sp.prior)) <= e
    BY <1>2, <1>5, <2>1, <2>2
  <2>4. \E j \in Spans(sp) : ContainsEra(sp, j, e)
    BY <1>4, <1>5, <2>3, SpanExists
  <2> QED BY <2>4 DEF EraSpan
<1>7. k \in ks
  <2> HIDE DEF ks
  <2> QED BY <1>6
<1>8. SpansAfter(s, e, slash) = CompareAndUpdate(s, k, e, slash)
  BY <1>6 DEF SpansAfter
<1>9. ChargedAfter(s, e, slash) = chg
  <2> HIDE DEF k
  <2> QED BY <1>7, ChargedShape
<1> HIDE DEF k
<1>10. PICK era \in Nat, dirty \in BOOLEAN :
         CompareAndUpdate(s, k, e, slash)
           = Inspected(AfterSpanSlash(MarkedSpans(sp, era), k), rec, dirty)
  BY <1>4, <1>5, CompareShape
<1> HIDE DEF sp
<1>11. k \in Spans(sp) /\ ContainsEra(sp, k, e)
  BY <1>7 DEF EraSpan
<1>12. RecordsOK(sp, rec, chg) /\ after.slashed = BiggerOf(charged[s][i], slash)
  BY <1>1, <1>2, <1>3, <1>11, SlashRecords
<1>13. ChargesOK(sp, chg, off, WindowStart, active_era)
  <2> DEFINE paid == after.slashed
  <2>1. paid = BiggerOf(charged[s][i], slash)
    BY <1>12
  <2> HIDE DEF paid
  <2>2. ChargesOK(sp, [charged[s] EXCEPT ![i] = paid], off, WindowStart,
                  active_era)
    BY <1>1, <1>2, <1>3, <1>11, <2>1, SlashCharges
  <2> QED BY <2>2 DEF paid
<1> HIDE DEF rec, chg, off, i, after
<1> DEFINE q == MarkedSpans(sp, era)
           ended == AfterSpanSlash(q, k)
<1>14. /\ SpansOK(q, WindowStart, reports)
       /\ RecordsOK(q, rec, chg)
       /\ ChargesOK(q, chg, off, WindowStart, active_era)
  BY <1>1, <1>12, <1>13, MarkedOK
<1> HIDE DEF q
<1>15. SpansOK(ended, WindowStart, reports + 1)
  BY <1>2, <1>14, AfterSpanSlashOK
<1>16. /\ RecordsOK(ended, rec, chg)
       /\ ChargesOK(ended, chg, off, WindowStart, active_era)
  <2>1. /\ RecordsOK(EndSpan(q, active_era), rec, chg)
        /\ ChargesOK(EndSpan(q, active_era), chg, off, WindowStart, active_era)
    BY <1>2, <1>14, EndSpanRecords, EndSpanCharges
  <2> QED BY <1>14, <2>1 DEF AfterSpanSlash
<1>17. StashOK(Inspected(ended, rec, dirty).spans,
               Inspected(ended, rec, dirty).records, chg, off, WindowStart,
               active_era)
  <2> HIDE DEF ended
  <2> QED BY <1>2, <1>15, <1>16, InspectedPaid
<1>18. SpansAfter(s, e, slash) = Inspected(ended, rec, dirty)
  BY <1>8, <1>10 DEF q, ended
<1> HIDE DEF ended
<1> QED BY <1>9, <1>17, <1>18 DEF off

\* A further report of an era costs no less than the earlier ones.
LEMMA EraSlashGrows ==
    ASSUME PaysIInv, NEW v \in Validators, NEW e \in Era,
           NEW fraction \in Fractions, WindowStart <= e,
           fraction > validator_slash_in_era[e][v], NEW s \in Hit(v)
    PROVE  offended[s][e] <= EraSlash(s, v, e, fraction)
<1>1. /\ fraction \in Parts /\ ExposureOwn[v] \in Nat
      /\ validator_slash_in_era[e][v] \in Parts
      /\ WindowStart \in Nat /\ e \in Nat
  BY SlashingAssumption, WindowStartType, ErasAssumption
     DEF PaysIInv, CoverIInv, RewardIInv, Era
<1>2. s \in Stashes /\ offended[s][e] \in Nat
  BY HitAreStashes DEF PaysIInv
<1>3. CASE s = v
  <2> DEFINE old == MulNearest(validator_slash_in_era[e][v], ExposureOwn[v])
             new == MulNearest(fraction, ExposureOwn[v])
  <2>1. validator_slash_in_era[e][v] <= fraction
    BY <1>1, PerbillAssumption DEF Parts
  <2>2. old <= new /\ old \in Nat /\ new \in Nat
    BY <1>1, <2>1, MulNearestMonotone, MulNearestNat
  <2>3. offended[s][e] <= old
    BY <1>1, <1>3 DEF PaysIInv, EraCosts
  <2>4. EraSlash(s, v, e, fraction) = new
    BY <1>3 DEF EraSlash
  <2> HIDE DEF old, new
  <2> QED BY <1>2, <2>2, <2>3, <2>4
<1>4. CASE s # v
  <2>1. s \in Nominators
    BY <1>4 DEF Hit
  <2> DEFINE new == MulNearest(fraction, ExposureOthers[v][s])
             old == MulNearest(validator_slash_in_era[e][v],
                               ExposureOthers[v][s])
  <2>2. offended[s][e] <= nominator_slash_in_era[e][s]
        /\ nominator_slash_in_era[e][s] \in Nat
    BY <1>1, <2>1 DEF PaysIInv, EraCosts, RewardIInv
  <2>3. EraSlash(s, v, e, fraction)
          = nominator_slash_in_era[e][s] + SaturatingSub(new, old)
    BY <1>4 DEF EraSlash, NominatorEraSlash
  <2>4. new \in Nat /\ old \in Nat
    <3>1. ExposureOthers[v][s] \in Nat
      BY <2>1, SlashingAssumption
    <3> QED BY <1>1, <3>1, MulNearestNat
  <2> HIDE DEF new, old
  <2> QED BY <1>2, <2>2, <2>3, <2>4 DEF SaturatingSub
<1> QED BY <1>3, <1>4

\* A stash that no offence touched, as time goes on.
LEMMA StashOKLater ==
    ASSUME NEW spans, NEW rec, NEW chg, NEW off, NEW w \in Nat, NEW a \in Nat,
           NEW x \in Nat, NEW b \in Nat, w <= x, a <= b,
           StashOK(spans, rec, chg, off, w, a)
    PROVE  StashOK(spans, rec, chg, off, x, b)
<1>1. CASE spans = None
  BY <1>1 DEF StashOK
<1>2. CASE spans # None
  <2>1. RecordsOK(spans, rec, chg) /\ ChargesOK(spans, chg, off, w, a)
    BY <1>2 DEF StashOK
  <2>2. Era \subseteq Int
    BY ErasAssumption DEF Era
  <2>3. ChargesOK(spans, chg, off, x, b)
    <3>1. \A e \in Era : off[e] # 0 => e <= b
      BY <2>1, <2>2 DEF ChargesOK
    <3>2. \A k \in Spans(spans), e \in Era :
            e >= x /\ ContainsEra(spans, k, e)
              => chg[spans.span_index - k] >= off[e]
      BY <2>1, <2>2 DEF ChargesOK
    <3>3. ASSUME NEW k \in Spans(spans), chg[spans.span_index - k] # 0
          PROVE  \E e \in Era : /\ chg[spans.span_index - k] = off[e]
                                /\ e < x \/ ContainsEra(spans, k, e)
      <4>1. PICK e \in Era : /\ chg[spans.span_index - k] = off[e]
                             /\ e < w \/ ContainsEra(spans, k, e)
        BY <2>1, <3>3 DEF ChargesOK
      <4> QED BY <2>2, <4>1
    <3> QED BY <2>1, <3>1, <3>2, <3>3 DEF ChargesOK
  <2> QED BY <1>2, <2>1, <2>3 DEF StashOK
<1> QED BY <1>1, <1>2

\* An offence with a slash.
LEMMA OffencePaid ==
    ASSUME PaysIInv, NEW v \in Validators, NEW e \in Era,
           NEW fraction \in Fractions, NEW strategy,
           OffenceWithSlash(v, e, fraction, strategy)
    PROVE  /\ DOMAIN charged' = Stashes
           /\ offended' \in [Stashes -> [Era -> Nat]]
           /\ EraCosts'
           /\ \A s \in Stashes :
                StashOK(slashing_spans'[s], span_slash'[s], charged'[s],
                        offended'[s], WindowStart', active_era')
<1> DEFINE cost(s) == EraSlash(s, v, e, fraction)
<1>1. /\ reports < MaxReports /\ WindowStart <= e /\ e <= active_era
      /\ fraction > validator_slash_in_era[e][v]
      /\ WindowStart' = WindowStart /\ active_era' = active_era
  BY OffenceKeepsClock DEF OffenceWithSlash, Reportable, InBondingPeriod
<1>2. /\ slashing_spans' =
           [s \in Stashes |-> IF s \in Hit(v) THEN SpansAfter(s, e, cost(s)).spans
                              ELSE slashing_spans[s]]
      /\ span_slash' =
           [s \in Stashes |-> IF s \in Hit(v)
                              THEN SpansAfter(s, e, cost(s)).records
                              ELSE span_slash[s]]
      /\ charged' =
           [s \in Stashes |-> IF s \in Hit(v) THEN ChargedAfter(s, e, cost(s))
                              ELSE charged[s]]
      /\ offended' =
           [s \in Stashes |-> IF s \in Hit(v)
                              THEN [offended[s] EXCEPT ![e] = cost(s)]
                              ELSE offended[s]]
  BY OffenceByStash
<1>3. \A s \in Hit(v) : /\ s \in Stashes /\ cost(s) \in Nat
                        /\ offended[s][e] <= cost(s)
  <2>1. RewardIInv
    BY DEF PaysIInv
  <2> QED BY <1>1, <2>1, HitAreStashes, EraSlashNat, EraSlashGrows
<1>4. offended \in [Stashes -> [Era -> Nat]]
  BY DEF PaysIInv
<1>5. offended' \in [Stashes -> [Era -> Nat]]
  <2>1. ASSUME NEW s \in Stashes PROVE offended'[s] \in [Era -> Nat]
    <3>1. offended[s] \in [Era -> Nat]
      BY <1>4
    <3>2. CASE s \in Hit(v)
      <4>1. offended'[s] = [offended[s] EXCEPT ![e] = cost(s)] /\ cost(s) \in Nat
        BY <1>2, <1>3, <3>2
      <4> HIDE DEF cost
      <4> QED BY <3>1, <4>1
    <3>3. CASE s \notin Hit(v)
      BY <1>2, <3>1, <3>3
    <3> QED BY <3>2, <3>3
  <2>2. offended' = [s \in Stashes |-> offended'[s]]
    <3> HIDE DEF cost
    <3> QED BY <1>2
  <2> QED BY <2>1, <2>2
<1>6. ASSUME NEW s \in Stashes
      PROVE  StashOK(slashing_spans'[s], span_slash'[s], charged'[s],
                     offended'[s], WindowStart', active_era')
  <2>1. CASE s \in Hit(v)
    <3>1. StashOK(SpansAfter(s, e, cost(s)).spans,
                  SpansAfter(s, e, cost(s)).records,
                  ChargedAfter(s, e, cost(s)),
                  [offended[s] EXCEPT ![e] = cost(s)], WindowStart, active_era)
      <4> HIDE DEF cost
      <4> QED BY <1>1, <1>3, <2>1, SlashPaid
    <3> HIDE DEF cost
    <3> QED BY <1>1, <1>2, <2>1, <3>1
  <2>2. CASE s \notin Hit(v)
    <3>1. StashOK(slashing_spans[s], span_slash[s], charged[s], offended[s],
                  WindowStart, active_era)
      BY DEF PaysIInv
    <3> HIDE DEF cost
    <3> QED BY <1>1, <1>2, <2>2, <3>1
  <2> QED BY <2>1, <2>2
<1>7. EraCosts'
  <2> SUFFICES ASSUME NEW d \in Era, d >= WindowStart
               PROVE  /\ \A x \in Validators :
                           offended'[x][d] <=
                             MulNearest(validator_slash_in_era'[d][x],
                                        ExposureOwn[x])
                      /\ \A n \in Nominators :
                           offended'[n][d] <= nominator_slash_in_era'[d][n]
    BY <1>1 DEF EraCosts
  <2>1. /\ validator_slash_in_era \in [Era -> [Validators -> Parts]]
        /\ nominator_slash_in_era \in [Era -> [Nominators -> Nat]]
        /\ validator_slash_in_era' =
             [validator_slash_in_era EXCEPT ![e][v] = fraction]
    BY DEF PaysIInv, RewardIInv, OffenceWithSlash
  <2>2. \A n \in Nominators :
          nominator_slash_in_era'[e][n] = IF n \in Hit(v) THEN cost(n)
                                          ELSE nominator_slash_in_era[e][n]
    <3>1. v \notin Nominators
      BY SlashingAssumption
    <3>2. nominator_slash_in_era' =
            [nominator_slash_in_era EXCEPT ![e] =
               [n \in Nominators |->
                  IF n \in {b \in Nominators : ExposureOthers[v][b] > 0}
                  THEN cost(n) ELSE nominator_slash_in_era[e][n]]]
      BY <2>1 DEF OffenceWithSlash, EraSlash
    <3> HIDE DEF cost
    <3> QED BY <2>1, <3>1, <3>2 DEF Hit
  <2>3. \A b \in Era : b # e => nominator_slash_in_era'[b]
                                  = nominator_slash_in_era[b]
    BY <2>1 DEF OffenceWithSlash
  <2>4. ASSUME NEW x \in Stashes, d # e \/ x \notin Hit(v)
        PROVE  offended'[x][d] = offended[x][d]
    <3>1. offended[x] \in [Era -> Nat]
      BY <1>4
    <3> HIDE DEF cost
    <3> QED BY <1>2, <2>4, <3>1
  <2>5. ASSUME NEW x \in Hit(v)
        PROVE  offended'[x][e] = cost(x)
    <3>1. offended[x] \in [Era -> Nat] /\ x \in Stashes
      BY <1>3, <1>4
    <3> HIDE DEF cost
    <3> QED BY <1>2, <3>1
  <2>6. ASSUME NEW x \in Validators
        PROVE  offended'[x][d] <= MulNearest(validator_slash_in_era'[d][x],
                                             ExposureOwn[x])
    <3>1. offended[x][d] <= MulNearest(validator_slash_in_era[d][x],
                                       ExposureOwn[x])
      BY DEF PaysIInv, EraCosts
    <3>2. CASE d = e /\ x = v
      <4>1. validator_slash_in_era'[d][x] = fraction
        BY <2>1, <3>2
      <4>2. x \in Hit(v) /\ cost(x) = MulNearest(fraction, ExposureOwn[x])
        BY <3>2 DEF Hit, EraSlash
      <4>3. offended'[x][d] = cost(x)
        <5> HIDE DEF cost
        <5> QED BY <2>5, <3>2, <4>2
      <4>4. cost(x) \in Nat
        BY <1>3, <4>2
      <4>5. offended'[x][d] = MulNearest(validator_slash_in_era'[d][x],
                                         ExposureOwn[x])
        <5> HIDE DEF cost
        <5> QED BY <4>1, <4>2, <4>3
      <4>6. offended'[x][d] \in Nat
        <5> HIDE DEF cost
        <5> QED BY <4>3, <4>4
      <4> QED BY <4>5, <4>6
    <3>3. CASE ~(d = e /\ x = v)
      <4>1. validator_slash_in_era'[d][x] = validator_slash_in_era[d][x]
        BY <2>1, <3>3
      <4>2. x \in Stashes /\ (x # v => x \notin Hit(v))
        BY SlashingAssumption DEF Hit, Stashes
      <4>3. offended'[x][d] = offended[x][d]
        BY <2>4, <3>3, <4>2
      <4> QED BY <3>1, <4>1, <4>3
    <3> QED BY <3>2, <3>3
  <2>7. ASSUME NEW n \in Nominators
        PROVE  offended'[n][d] <= nominator_slash_in_era'[d][n]
    <3>1. offended[n][d] <= nominator_slash_in_era[d][n]
      BY DEF PaysIInv, EraCosts
    <3>2. n \in Stashes
      BY DEF Stashes
    <3>3. CASE d = e /\ n \in Hit(v)
      <4>1. /\ nominator_slash_in_era'[d][n] = cost(n)
            /\ offended'[n][d] = cost(n) /\ cost(n) \in Nat
        <5> HIDE DEF cost
        <5> QED BY <1>3, <2>2, <2>5, <3>3
      <4> HIDE DEF cost
      <4> QED BY <4>1
    <3>4. CASE ~(d = e /\ n \in Hit(v))
      <4>1. nominator_slash_in_era'[d][n] = nominator_slash_in_era[d][n]
        <5> HIDE DEF cost
        <5> QED BY <2>2, <2>3, <3>4
      <4>2. offended'[n][d] = offended[n][d]
        BY <2>4, <3>2, <3>4
      <4> QED BY <3>1, <4>1, <4>2
    <3> QED BY <3>3, <3>4
  <2> QED BY <2>6, <2>7
<1>8. DOMAIN charged' = Stashes
  <2> HIDE DEF cost
  <2> QED BY <1>2
<1> QED BY <1>5, <1>6, <1>7, <1>8

\* A rotation forgets the slashes of eras that leave the window, and no other.
LEMMA RotatePaid ==
    ASSUME PaysIInv, NEW winners, NEW keys, RotateBlock(winners, keys)
    PROVE  EraCosts'
<1>1. /\ active_era \in Nat /\ BondingDuration \in Nat
      /\ WindowStart \in Nat /\ WindowStart' \in Nat
      /\ WindowStart <= WindowStart'
  BY WindowStartType, WindowMovesOn, SlashingAssumption
     DEF PaysIInv, CoverIInv
<1>2. /\ UNCHANGED offended /\ ClearEraMetadata
      /\ active_era' = IF StartsEra THEN active_era + 1 ELSE active_era
  BY DEF RotateBlock, BeginBlockRotating, RotateSession
<1>3. ASSUME NEW e \in Era, e >= WindowStart'
      PROVE  /\ ~(StartsEra /\ e + BondingDuration < active_era + 1)
             /\ e >= WindowStart
  <2>1. e \in Nat
    BY ErasAssumption DEF Era
  <2>2. WindowStart' = SaturatingSub(active_era', BondingDuration)
    BY DEF WindowStart
  <2> QED BY <1>1, <1>2, <1>3, <2>1, <2>2 DEF SaturatingSub
<1>4. ASSUME NEW e \in Era, e >= WindowStart'
      PROVE  /\ validator_slash_in_era'[e] = validator_slash_in_era[e]
             /\ nominator_slash_in_era'[e] = nominator_slash_in_era[e]
  BY <1>2, <1>3, <1>4 DEF ClearEraMetadata
<1> QED BY <1>2, <1>3, <1>4 DEF PaysIInv, EraCosts

\* Every step preserves the invariant.
LEMMA PaysNextInv ==
    ASSUME U32 - 1 \notin HistoryDepths, PaysIInv, [SlashingNext]_slashingVars
    PROVE  PaysIInv'
<1>1. CoverIInv' /\ RewardIInv'
  BY CoverNextInv, RewardNextInv DEF PaysIInv
<1>2. /\ WindowStart \in Nat /\ active_era \in Nat
      /\ DOMAIN slashing_spans = Stashes /\ DOMAIN span_slash = Stashes
      /\ DOMAIN charged = Stashes /\ offended \in [Stashes -> [Era -> Nat]]
  BY WindowStartType DEF PaysIInv, CoverIInv, RewardIInv
<1> DEFINE OK(s) == StashOK(slashing_spans[s], span_slash[s], charged[s],
                            offended[s], WindowStart, active_era)
           Paid(s) == StashOK(slashing_spans'[s], span_slash'[s], charged'[s],
                              offended'[s], WindowStart', active_era')
           Goal == /\ DOMAIN charged' = Stashes
                   /\ offended' \in [Stashes -> [Era -> Nat]]
                   /\ EraCosts'
                   /\ \A s \in Stashes : Paid(s)
<1>3. \A s \in Stashes : OK(s)
  BY DEF PaysIInv
<1>4. ASSUME UNCHANGED <<active_era, spanVars>>
      PROVE  Goal
  <2>1. WindowStart' = WindowStart
    BY <1>4 DEF WindowStart
  <2>2. EraCosts'
    BY <1>4, <2>1 DEF PaysIInv, EraCosts, spanVars
  <2> QED BY <1>2, <1>3, <1>4, <2>1, <2>2 DEF spanVars
<1>5. ASSUME Tick PROVE Goal
  BY <1>4, <1>5 DEF Tick, BeginBlock, OnFinalize
<1>6. ASSUME NEW winners, NEW keys, RotateBlock(winners, keys)
      PROVE  Goal
  <2>1. UNCHANGED <<slashing_spans, span_slash, charged, offended>>
    BY <1>6 DEF RotateBlock
  <2>2. /\ active_era' \in Nat /\ active_era <= active_era'
        /\ WindowStart' \in Nat /\ WindowStart <= WindowStart'
    BY <1>6, WindowMovesOn DEF PaysIInv, CoverIInv
  <2>3. EraCosts'
    BY <1>6, RotatePaid
  <2>4. ASSUME NEW s \in Stashes PROVE Paid(s)
    <3>1. StashOK(slashing_spans[s], span_slash[s], charged[s], offended[s],
                  WindowStart', active_era')
      BY <1>2, <1>3, <2>2, StashOKLater
    <3> QED BY <2>1, <3>1
  <2> QED BY <1>2, <2>1, <2>3, <2>4
<1>7. ASSUME NEW v \in Validators, NEW e \in Era, NEW fraction \in Fractions,
             NEW strategy \in Strategies,
             OffenceWithoutSlash(v, e, fraction, strategy)
      PROVE  Goal
  <2> DEFINE sp == FetchSpans(v)
             ends == 0 \in EraSpan(sp, e)
             ended == IF ends THEN EndSpan(sp, active_era) ELSE sp
             dirty == ended # sp
             res == Inspected(ended, span_slash[v], dirty)
  <2>1. /\ reports < MaxReports
        /\ slashing_spans' = [slashing_spans EXCEPT ![v] = res.spans]
        /\ span_slash' = [span_slash EXCEPT ![v] = res.records]
        /\ UNCHANGED <<validator_slash_in_era, nominator_slash_in_era,
                       charged, offended>>
        /\ WindowStart' = WindowStart /\ active_era' = active_era
    BY <1>7, OffenceKeepsClock DEF OffenceWithoutSlash, Reportable
  <2>2. v \in Stashes /\ ends \in BOOLEAN /\ dirty \in BOOLEAN
    BY DEF Stashes
  <2>3. StashOK(res.spans, res.records, charged[v], offended[v], WindowStart,
                active_era)
    <3> HIDE DEF ends, dirty
    <3> QED BY <2>1, <2>2, KickOutPaid
  <2> HIDE DEF res
  <2>4. ASSUME NEW s \in Stashes PROVE Paid(s)
    <3>1. CASE s = v
      BY <1>2, <2>1, <2>3, <3>1
    <3>2. CASE s # v
      BY <1>2, <1>3, <2>1, <3>2
    <3> QED BY <3>1, <3>2
  <2>5. EraCosts'
    BY <2>1 DEF PaysIInv, EraCosts
  <2> QED BY <1>2, <2>1, <2>4, <2>5
<1>8. ASSUME NEW v \in Validators, NEW e \in Era, NEW fraction \in Fractions,
             NEW strategy \in Strategies,
             OffenceWithSlash(v, e, fraction, strategy)
      PROVE  Goal
  BY <1>8, OffencePaid
<1>9. ASSUME NEW v \in Stashes, ClearStashMetadata(v)
      PROVE  Goal
  <2> DEFINE sp == slashing_spans[v]
             Gone(i) == \E k \in Spans(sp) : i = sp.span_index - k
             rec == [i \in SpanIndex |-> IF Gone(i) THEN NoRecord
                                         ELSE span_slash[v][i]]
  <2>1. /\ sp # None
        /\ slashing_spans' = [slashing_spans EXCEPT ![v] = None]
        /\ charged' = [charged EXCEPT ![v] = [i \in SpanIndex |-> 0]]
        /\ offended' = [offended EXCEPT ![v] = [e \in Era |-> 0]]
        /\ UNCHANGED <<validator_slash_in_era, nominator_slash_in_era>>
        /\ active_era' = active_era
    BY <1>9 DEF ClearStashMetadata, eraVars
  <2>2. span_slash' = [span_slash EXCEPT ![v] = rec]
    BY <1>2, <1>9 DEF ClearStashMetadata
  <2>3. WindowStart' = WindowStart
    BY <2>1 DEF WindowStart
  <2>4. rec = [i \in SpanIndex |-> NoRecord]
    <3>1. RecordsOK(sp, span_slash[v], charged[v])
      BY <1>3, <2>1 DEF StashOK
    <3>2. sp \in SpansRecord
      BY <2>1 DEF PaysIInv, CoverIInv, SpansOK
    <3>3. sp.span_index \in Nat /\ Len(sp.prior) \in Nat
      BY <3>2, SpansRecordType
    <3>4. ASSUME NEW i \in Live(sp) PROVE Gone(i)
      <4> HIDE DEF sp
      <4>1. /\ i \in Int /\ sp.span_index - i \in Spans(sp)
            /\ i = sp.span_index - (sp.span_index - i)
        BY <3>3, <3>4 DEF Live, Spans
      <4> QED BY <4>1
    <3>5. \A i \in SpanIndex : ~Gone(i) => span_slash[v][i] = NoRecord
      <4> HIDE DEF Gone
      <4> QED BY <3>1, <3>4 DEF RecordsOK
    <3> HIDE DEF Gone
    <3> QED BY <3>5
  <2> HIDE DEF rec
  <2>5. ASSUME NEW s \in Stashes PROVE Paid(s)
    <3>1. CASE s = v
      <4>1. /\ slashing_spans'[s] = None
            /\ span_slash'[s] = [i \in SpanIndex |-> NoRecord]
            /\ charged'[s] = [i \in SpanIndex |-> 0]
            /\ offended'[s] = [e \in Era |-> 0]
        BY <1>2, <2>1, <2>2, <2>4, <3>1
      <4> QED BY <4>1 DEF StashOK
    <3>2. CASE s # v
      <4>1. /\ slashing_spans'[s] = slashing_spans[s]
            /\ span_slash'[s] = span_slash[s]
            /\ charged'[s] = charged[s]
            /\ offended'[s] = offended[s]
        BY <1>2, <2>1, <2>2, <3>2
      <4> QED BY <1>3, <2>1, <2>3, <4>1
    <3> QED BY <3>1, <3>2
  <2>6. offended' \in [Stashes -> [Era -> Nat]] /\ DOMAIN charged' = Stashes
    BY <1>2, <2>1
  <2>7. EraCosts'
    <3> SUFFICES ASSUME NEW e \in Era, e >= WindowStart
                 PROVE  /\ \A x \in Validators :
                             offended'[x][e] <=
                               MulNearest(validator_slash_in_era[e][x],
                                          ExposureOwn[x])
                        /\ \A n \in Nominators :
                             offended'[n][e] <= nominator_slash_in_era[e][n]
      BY <2>1, <2>3 DEF EraCosts
    <3>1. \A x \in Stashes : offended'[x][e] = 0
                             \/ offended'[x][e] = offended[x][e]
      BY <1>2, <2>1
    <3>2. ASSUME NEW x \in Validators
          PROVE  /\ x \in Stashes
                 /\ MulNearest(validator_slash_in_era[e][x], ExposureOwn[x])
                      \in Nat
                 /\ offended[x][e] <=
                      MulNearest(validator_slash_in_era[e][x], ExposureOwn[x])
      <4>1. /\ validator_slash_in_era[e][x] \in Parts
            /\ ExposureOwn[x] \in Nat
        BY SlashingAssumption DEF PaysIInv, RewardIInv
      <4> QED BY <4>1, MulNearestNat DEF Stashes, PaysIInv, EraCosts
    <3>3. ASSUME NEW n \in Nominators
          PROVE  /\ n \in Stashes /\ nominator_slash_in_era[e][n] \in Nat
                 /\ offended[n][e] <= nominator_slash_in_era[e][n]
      BY DEF Stashes, PaysIInv, RewardIInv, EraCosts
    <3>4. \A x \in Validators :
            offended'[x][e] <= MulNearest(validator_slash_in_era[e][x],
                                          ExposureOwn[x])
      BY <3>1, <3>2
    <3>5. \A n \in Nominators :
            offended'[n][e] <= nominator_slash_in_era[e][n]
      BY <3>1, <3>3
    <3> QED BY <3>4, <3>5
  <2> QED BY <2>5, <2>6, <2>7
<1>10. ASSUME UNCHANGED slashingVars PROVE Goal
  BY <1>4, <1>10 DEF slashingVars, eraVars
<1>11. ASSUME RootForces PROVE Goal
  BY <1>4, <1>11, RootForcesOnly
<1>12. Goal
  <2> HIDE DEF Goal
  <2> QED BY <1>5, <1>6, <1>7, <1>8, <1>9, <1>10, <1>11 DEF SlashingNext
<1>13. \A s \in Stashes : OK(s)'
  BY <1>12
<1> QED BY <1>1, <1>12, <1>13 DEF PaysIInv

LEMMA PaysInit == SlashingInit => PaysIInv
<1> SUFFICES ASSUME SlashingInit PROVE PaysIInv
  OBVIOUS
<1>1. CoverIInv
  BY ErasInitInv DEF SlashingInit, CoverIInv
<1>2. 0 \in Parts
  BY PerbillAssumption DEF Parts
<1>3. RewardIInv
  <2>1. GoodRecords([i \in SpanIndex |-> NoRecord])
    BY NoRecordGood DEF GoodRecords
  <2> QED BY <1>2, <2>1 DEF SlashingInit, RewardIInv
<1>4. /\ DOMAIN charged = Stashes
      /\ offended \in [Stashes -> [Era -> Nat]]
      /\ \A s \in Stashes : \A e \in Era : offended[s][e] = 0
  BY DEF SlashingInit
<1>5. EraCosts
  <2>1. ASSUME NEW e \in Era, NEW v \in Validators
        PROVE  offended[v][e] <= MulNearest(validator_slash_in_era[e][v],
                                            ExposureOwn[v])
    <3>1. /\ validator_slash_in_era[e][v] \in Parts
          /\ ExposureOwn[v] \in Nat /\ v \in Stashes
      BY <1>3, SlashingAssumption DEF RewardIInv, Stashes
    <3>2. MulNearest(validator_slash_in_era[e][v], ExposureOwn[v]) \in Nat
      BY <3>1, MulNearestNat
    <3> QED BY <1>4, <3>1, <3>2
  <2>2. ASSUME NEW e \in Era, NEW n \in Nominators
        PROVE  offended[n][e] <= nominator_slash_in_era[e][n]
    BY <1>4 DEF SlashingInit, Stashes
  <2> QED BY <2>1, <2>2 DEF EraCosts
<1>6. \A s \in Stashes :
        StashOK(slashing_spans[s], span_slash[s], charged[s], offended[s],
                WindowStart, active_era)
  BY DEF SlashingInit, StashOK
<1> QED BY <1>1, <1>3, <1>4, <1>5, <1>6 DEF PaysIInv

\* "we only slash participants for the _maximum_ slash they receive in some
\* time period, rather than the sum" (slashing.rs): in whatever order offences
\* of whatever eras are reported, spans end, are pruned and are cleared, a
\* stash is charged for each of its spans what its worst era there costs.
THEOREM SpansPayMaximum ==
    ASSUME U32 - 1 \notin HistoryDepths
    PROVE  SlashingSpec => []SpanPaysMaximum
<1>1. PaysIInv /\ [SlashingNext]_slashingVars => PaysIInv'
  BY PaysNextInv
<1>2. PaysIInv => SpanPaysMaximum
  <2> SUFFICES ASSUME PaysIInv, NEW s \in Stashes, slashing_spans[s] # None,
                      NEW k \in Spans(slashing_spans[s])
               PROVE  LET paid == charged[s][slashing_spans[s].span_index - k]
                      IN  /\ \A e \in Era :
                               e >= WindowStart
                                 /\ ContainsEra(slashing_spans[s], k, e)
                               => paid >= offended[s][e]
                          /\ paid # 0 => \E e \in Era : paid = offended[s][e]
    BY DEF SpanPaysMaximum
  <2>1. ChargesOK(slashing_spans[s], charged[s], offended[s], WindowStart,
                  active_era)
    BY DEF PaysIInv, StashOK
  <2> QED BY <2>1 DEF ChargesOK
<1> QED BY <1>1, <1>2, PaysInit, PTL DEF SlashingSpec

-----------------------------------------------------------------------------
(***************************************************************************)
(* The flow of the currency (module Fees).                                 *)
(***************************************************************************)

\* Balances that add up to t on a chain whose fund and treasury exist.
Purses(t) ==
    {f \in [Accounts -> Nat] :
       /\ f[Fund] > 0
       /\ f[Treasury] >= ExistentialDeposit
       /\ Total(f, Accounts) = t}

LEMMA AccountsFacts ==
    /\ IsFiniteSet(Accounts)
    /\ Fund \in Accounts /\ Treasury \in Accounts /\ Wallet \in Accounts
    /\ Author \in Accounts /\ Users \subseteq Accounts
    /\ Fund # Treasury /\ Fund # Wallet /\ Treasury # Wallet
    /\ Fund \notin Users /\ Treasury \notin Users /\ Wallet \notin Users
    /\ Author # Fund /\ Author # Treasury
    /\ ExistentialDeposit \in Nat /\ ExistentialDeposit > 0
<1>1. IsFiniteSet(Users)
  BY GenesisAssumption
<1>2. IsFiniteSet({Author, Fund, Treasury, Wallet})
  <2>1. /\ IsFiniteSet({Author}) /\ IsFiniteSet({Fund})
        /\ IsFiniteSet({Treasury}) /\ IsFiniteSet({Wallet})
    BY FS_Singleton
  <2> DEFINE A == {Author} \cup {Fund}
             B == {Treasury} \cup {Wallet}
  <2>2. IsFiniteSet(A) /\ IsFiniteSet(B)
    BY <2>1, FS_Union
  <2>3. IsFiniteSet(A \cup B)
    <3> HIDE DEF A, B
    <3> QED BY <2>2, FS_Union
  <2>4. A \cup B = {Author, Fund, Treasury, Wallet}
    OBVIOUS
  <2> HIDE DEF A, B
  <2> QED BY <2>3, <2>4, Zenon
<1>3. IsFiniteSet(Accounts)
  BY <1>1, <1>2, FS_Union DEF Accounts
<1>4. /\ Fund # Treasury /\ Fund # Wallet /\ Treasury # Wallet
      /\ Fund \notin Users /\ Treasury \notin Users /\ Wallet \notin Users
      /\ Author # Fund /\ Author # Treasury
  BY GenesisAssumption
<1>5. ExistentialDeposit \in Nat /\ ExistentialDeposit > 0
  BY GenesisAssumption
<1> QED BY <1>3, <1>4, <1>5 DEF Accounts

\* Money put into an account, and taken out of one.
LEMMA PutIn ==
    ASSUME NEW t, NEW f \in Purses(t), NEW a \in Accounts, NEW x \in Nat
    PROVE  /\ [f EXCEPT ![a] = @ + x] \in Purses(t + x)
           /\ t \in Nat
<1> DEFINE g == [f EXCEPT ![a] = f[a] + x]
<1>1. /\ f \in [Accounts -> Nat] /\ f[Fund] > 0
      /\ f[Treasury] >= ExistentialDeposit /\ Total(f, Accounts) = t
  BY DEF Purses
<1>2. /\ IsFiniteSet(Accounts) /\ Fund \in Accounts /\ Treasury \in Accounts
      /\ ExistentialDeposit \in Nat
  BY AccountsFacts
<1>3. g \in [Accounts -> Nat] /\ g[a] = f[a] + x
      /\ \A b \in Accounts \ {a} : f[b] = g[b]
  BY <1>1
<1>4. g[Fund] > 0 /\ g[Treasury] >= ExistentialDeposit
  BY <1>1, <1>2, <1>3
<1> HIDE DEF g
<1>5. Total(g, Accounts) = Total(f, Accounts) - f[a] + g[a]
  BY <1>1, <1>2, <1>3, TotalUpdate
<1>6. Total(f, Accounts) \in Nat
  <2>1. Accounts \in SUBSET Accounts
    OBVIOUS
  <2> QED BY <1>1, <1>2, <2>1, TotalType
<1>7. f[a] \in Nat
  BY <1>1
<1>8. Total(g, Accounts) = t + x /\ t \in Nat
  BY <1>1, <1>3, <1>5, <1>6, <1>7
<1> QED BY <1>3, <1>4, <1>8 DEF Purses, g

LEMMA TakeOut ==
    ASSUME NEW t, NEW f \in Purses(t), NEW a \in Accounts, a # Fund,
           NEW x \in Nat, x <= f[a],
           a = Treasury => f[a] - x >= ExistentialDeposit
    PROVE  /\ [f EXCEPT ![a] = @ - x] \in Purses(t - x)
           /\ t \in Nat /\ x <= t
<1> DEFINE g == [f EXCEPT ![a] = f[a] - x]
<1>1. /\ f \in [Accounts -> Nat] /\ f[Fund] > 0
      /\ f[Treasury] >= ExistentialDeposit /\ Total(f, Accounts) = t
  BY DEF Purses
<1>2. /\ IsFiniteSet(Accounts) /\ Fund \in Accounts /\ Treasury \in Accounts
      /\ ExistentialDeposit \in Nat
  BY AccountsFacts
<1>3. g \in [Accounts -> Nat] /\ g[a] = f[a] - x
      /\ \A b \in Accounts \ {a} : f[b] = g[b]
  BY <1>1
<1>4. g[Fund] > 0 /\ g[Treasury] >= ExistentialDeposit
  BY <1>1, <1>2, <1>3
<1> HIDE DEF g
<1>5. Total(g, Accounts) = Total(f, Accounts) - f[a] + g[a]
  BY <1>1, <1>2, <1>3, TotalUpdate
<1>6. Total(f, Accounts) \in Nat /\ Total(g, Accounts) \in Nat
  <2>1. Accounts \in SUBSET Accounts
    OBVIOUS
  <2> QED BY <1>1, <1>2, <1>3, <2>1, TotalType
<1>7. f[a] \in Nat
  BY <1>1
<1>8. Total(g, Accounts) = t - x /\ t \in Nat /\ x <= t
  BY <1>1, <1>3, <1>5, <1>6, <1>7
<1> QED BY <1>3, <1>4, <1>8 DEF Purses, g

LEMMA PursesType ==
    ASSUME NEW t, NEW f \in Purses(t)
    PROVE  /\ f \in [Accounts -> Nat] /\ t \in Nat
           /\ f[Fund] > 0 /\ f[Treasury] > 0
           /\ f[Treasury] >= ExistentialDeposit /\ f[Treasury] \in Nat
           /\ Total(f, Accounts) = t
<1>1. /\ f \in [Accounts -> Nat] /\ f[Fund] > 0
      /\ f[Treasury] >= ExistentialDeposit /\ Total(f, Accounts) = t
  BY DEF Purses
<1>2. t \in Nat
  <2>1. Fund \in Accounts /\ 0 \in Nat
    BY AccountsFacts
  <2> QED BY <2>1, PutIn
<1>3. f[Treasury] > 0 /\ f[Treasury] \in Nat
  BY <1>1, AccountsFacts
<1> QED BY <1>1, <1>2, <1>3

\* What the fund and the treasury get, they keep.
LEMMA FundTakes ==
    ASSUME NEW t, NEW f \in Purses(t), NEW x \in Nat
    PROVE  FundBalance(f, x) \in Purses(t + x)
<1>1. f[Fund] > 0 /\ Fund \in Accounts
  BY PursesType, AccountsFacts
<1>2. FundBalance(f, x) = [f EXCEPT ![Fund] = @ + x]
  BY <1>1 DEF FundBalance, Credit, Accepts
<1>3. [f EXCEPT ![Fund] = @ + x] \in Purses(t + x)
  BY <1>1, PutIn
<1> QED BY <1>2, <1>3, Zenon

LEMMA TreasuryTakes ==
    ASSUME NEW t, NEW f \in Purses(t), NEW x \in Nat
    PROVE  Credit(f, Treasury, x) \in Purses(t + x)
<1>1. f[Treasury] > 0 /\ Treasury \in Accounts
  BY PursesType, AccountsFacts
<1>2. Credit(f, Treasury, x) = [f EXCEPT ![Treasury] = @ + x]
  BY <1>1 DEF Credit, Accepts
<1>3. [f EXCEPT ![Treasury] = @ + x] \in Purses(t + x)
  BY <1>1, PutIn
<1> QED BY <1>2, <1>3, Zenon

\* Dust moves to the fund.
LEMMA DustIsKept ==
    ASSUME NEW t, NEW f \in Purses(t), NEW a \in Accounts,
           a # Fund, a # Treasury
    PROVE  WithoutDust(f, a) \in Purses(t)
<1>1. CASE ~(0 < f[a] /\ f[a] < ExistentialDeposit)
  BY <1>1 DEF WithoutDust
<1>2. CASE 0 < f[a] /\ f[a] < ExistentialDeposit
  <2> DEFINE x == f[a]
             g == [f EXCEPT ![a] = 0]
  <2>1. x \in Nat /\ f \in [Accounts -> Nat] /\ t \in Nat
    BY PursesType
  <2>2. g = [f EXCEPT ![a] = @ - x]
    <3>1. f[a] - x = 0
      BY <2>1
    <3> HIDE DEF x
    <3> QED BY <3>1, Zenon
  <2>3. g \in Purses(t - x) /\ x <= t
    <3>1. x <= f[a] /\ a # Treasury
      BY <2>1
    <3> HIDE DEF x, g
    <3> QED BY <2>1, <2>2, <3>1, TakeOut
  <2>4. WithoutDust(f, a) = FundBalance(g, x)
    BY <1>2 DEF WithoutDust
  <2> HIDE DEF x, g
  <2>5. FundBalance(g, x) \in Purses((t - x) + x)
    BY <2>1, <2>3, FundTakes
  <2>6. (t - x) + x = t
    BY <2>1
  <2> QED BY <2>4, <2>5, <2>6
<1> QED BY <1>1, <1>2

LEMMA TransferIsKept ==
    ASSUME NEW t, NEW f \in Purses(t), NEW from \in Accounts, from # Fund,
           from # Treasury, NEW to \in Accounts, NEW amount \in Nat,
           amount <= f[from]
    PROVE  Transfer(f, from, to, amount) \in Purses(t)
<1>1. CASE from = to \/ amount = 0
  BY <1>1 DEF Transfer
<1>2. CASE ~(from = to \/ amount = 0)
  <2> DEFINE g == [f EXCEPT ![from] = @ - amount]
             h == [g EXCEPT ![to] = @ + amount]
  <2>1. f \in [Accounts -> Nat] /\ t \in Nat
    BY PursesType
  <2>2. g \in Purses(t - amount) /\ amount <= t
    BY TakeOut
  <2>3. [f EXCEPT ![from] = @ - amount, ![to] = @ + amount] = h
    BY <1>2, <2>1
  <2> HIDE DEF g
  <2>4. h \in Purses((t - amount) + amount)
    BY <2>2, PutIn
  <2>5. (t - amount) + amount = t
    BY <2>1
  <2>6. h \in Purses(t)
    BY <2>4, <2>5
  <2>7. Transfer(f, from, to, amount) = WithoutDust(h, from)
    BY <1>2, <2>3 DEF Transfer
  <2> HIDE DEF h
  <2> QED BY <2>6, <2>7, DustIsKept
<1> QED BY <1>1, <1>2

\* Signed transactions: the call, and the fee around it.
LEMMA CallIsKept ==
    ASSUME NEW t, NEW f \in Purses(t), NEW who \in Users,
           NEW call \in CallsOf(who)
    PROVE  AfterCall(f, who, call) \in Purses(t)
<1>1. /\ who \in Accounts /\ who # Fund /\ who # Treasury
      /\ Wallet \in Accounts /\ Wallet # Fund /\ Wallet # Treasury
      /\ Fund \in Accounts
  BY AccountsFacts
<1>2. f \in [Accounts -> Nat]
  BY PursesType
<1>3. CASE call.name \in {"transfer", "donate"}
  <2>1. call.to \in Accounts /\ call.amount \in Nat
    BY <1>1, <1>3, AccountsFacts, FeesAssumption DEF CallsOf
  <2>2. AfterCall(f, who, call) =
          IF CanTransfer(f, who, call.to, call.amount)
          THEN Transfer(f, who, call.to, call.amount) ELSE f
    BY <1>3 DEF AfterCall
  <2>3. CASE ~CanTransfer(f, who, call.to, call.amount)
    BY <2>2, <2>3
  <2>4. CASE CanTransfer(f, who, call.to, call.amount)
    <3> DEFINE to == call.to
               amount == call.amount
    <3>1. to \in Accounts /\ amount \in Nat /\ amount <= f[who]
      BY <2>1, <2>4 DEF CanTransfer
    <3> HIDE DEF to, amount
    <3>2. Transfer(f, who, to, amount) \in Purses(t)
      BY <1>1, <3>1, TransferIsKept
    <3> QED BY <2>2, <2>4, <3>2 DEF to, amount
  <2> QED BY <2>3, <2>4
<1>4. CASE call.name = "triger"
  <2>1. AfterCall(f, who, call) = Transfer(f, Wallet, Fund, f[Wallet])
    BY <1>4 DEF AfterCall, EmptyWallet, Pot
  <2>2. f[Wallet] \in Nat /\ f[Wallet] <= f[Wallet]
    BY <1>1, <1>2
  <2>3. Transfer(f, Wallet, Fund, f[Wallet]) \in Purses(t)
    BY <1>1, <2>2, TransferIsKept
  <2> QED BY <2>1, <2>3
<1>5. CASE call.name \notin {"transfer", "donate", "triger"}
  BY <1>5 DEF AfterCall
<1> QED BY <1>3, <1>4, <1>5

LEMMA MonotoneProduct ==
    ASSUME NEW c \in Nat, NEW m \in Nat, NEW n \in Nat, m <= n
    PROVE  c * m \in Nat /\ c * n \in Nat /\ c * m <= c * n
<1>1. PICK d \in Nat : n = m + d
  <2>1. n - m \in Nat /\ n = m + (n - m)
    OBVIOUS
  <2> QED BY <2>1
<1>2. c * n = c * m + c * d
  BY <1>1
<1>3. c * d \in Nat /\ c * m \in Nat /\ c * n \in Nat
  <2>1. \A x, y \in Nat : x * y \in Nat
    OBVIOUS
  <2> QED BY <1>1, <2>1
<1> DEFINE p == c * m
           q == c * n
           r == c * d
<1>4. p \in Nat /\ q \in Nat /\ r \in Nat /\ q = p + r
  BY <1>2, <1>3
<1> HIDE DEF p, q, r
<1>5. p <= q
  BY <1>4
<1> QED BY <1>4, <1>5 DEF p, q

LEMMA SignedIsKept ==
    ASSUME NEW t, free \in Purses(t), NEW who \in Users,
           NEW declared \in Nat, NEW actual \in Nat, NEW tip \in Nat,
           NEW call \in CallsOf(who),
           SignedTransaction(who, declared, actual, tip, call)
    PROVE  free' \in Purses(t) /\ lost' = lost
<1> DEFINE fee(weight) == IF PaysFee(call) THEN InclusionFee(weight) ELSE 0
           fd == fee(declared)
           fa == fee(actual)
           total_fee == fd + tip
           before == [free EXCEPT ![who] = @ - total_fee]
           after == AfterCall(before, who, call)
           refund == IF after[who] > 0 THEN fd - fa ELSE 0
           refunded == [after EXCEPT ![who] = @ + refund]
<1>1. /\ actual <= declared
      /\ free[who] >= total_fee + (IF total_fee > 0 THEN ExistentialDeposit ELSE 0)
      /\ free' = FundBalance(refunded, (total_fee - tip - refund) + tip)
      /\ lost' = lost
  BY Zenon DEF SignedTransaction, DealWithFees
<1>2. fd \in Nat /\ fa \in Nat /\ fa <= fd
  <2>1. FeePerWeight \in Nat /\ LengthFee \in Nat
    BY FeesAssumption
  <2> DEFINE wd == FeePerWeight * declared
             wa == FeePerWeight * actual
  <2>2. wd \in Nat /\ wa \in Nat /\ wa <= wd
    BY <1>1, <2>1, MonotoneProduct
  <2>3. InclusionFee(declared) = LengthFee + wd
        /\ InclusionFee(actual) = LengthFee + wa
    BY DEF InclusionFee, WeightToFee
  <2> HIDE DEF wd, wa
  <2> QED BY <2>1, <2>2, <2>3
<1> HIDE DEF fd, fa
<1>3. /\ who \in Accounts /\ who # Fund /\ who # Treasury
      /\ ExistentialDeposit \in Nat
  BY AccountsFacts
<1>4. free \in [Accounts -> Nat] /\ t \in Nat /\ free[who] \in Nat
  BY <1>3, PursesType
<1>5. total_fee \in Nat /\ total_fee <= free[who]
  BY <1>1, <1>2, <1>3, <1>4
<1>6. before \in Purses(t - total_fee) /\ total_fee <= t
  <2> HIDE DEF total_fee
  <2> QED BY <1>3, <1>5, TakeOut
<1>7. after \in Purses(t - total_fee)
  <2> HIDE DEF before
  <2> QED BY <1>6, CallIsKept
<1> HIDE DEF after
<1>8. refund \in Nat /\ refund <= fd
  BY <1>2
<1> HIDE DEF refund
<1>9. refunded \in Purses((t - total_fee) + refund)
  <2> HIDE DEF total_fee
  <2> QED BY <1>3, <1>7, <1>8, PutIn
<1> HIDE DEF refunded
<1> DEFINE x == (total_fee - tip - refund) + tip
<1>10. x \in Nat /\ ((t - total_fee) + refund) + x = t
  BY <1>2, <1>4, <1>8
<1> HIDE DEF x
<1>11. FundBalance(refunded, x) \in Purses(((t - total_fee) + refund) + x)
  <2> HIDE DEF total_fee
  <2> QED BY <1>9, <1>10, FundTakes
<1> QED BY <1>1, <1>10, <1>11 DEF x

\* Ethereum transactions.
LEMMA EvmIsKept ==
    ASSUME NEW t, free \in Purses(t), NEW who \in Users, NEW to \in Users,
           NEW gas_limit \in Nat, NEW used_gas \in Nat, NEW tip \in Nat,
           NEW amount \in Nat, lost \in Nat,
           EvmTransaction(who, gas_limit, used_gas, tip, to, amount)
    PROVE  \E d \in Nat : d <= t /\ free' \in Purses(t - d) /\ lost' = lost + d
<1> DEFINE price == GasPrice + tip
           cost == price * used_gas
           most == price * gas_limit
           base == GasPrice * used_gas
           extra == tip * used_gas
           spent == cost + amount
           less == [free EXCEPT ![who] = @ - spent]
           moved == [less EXCEPT ![to] = @ + amount]
           after == FundBalance(moved, base)
<1>1. /\ who # to /\ used_gas <= gas_limit
      /\ free[who] >= most + amount + ExistentialDeposit
  BY DEF EvmTransaction
<1>2. /\ who \in Accounts /\ who # Fund /\ who # Treasury /\ to \in Accounts
      /\ ExistentialDeposit \in Nat /\ Author \in Accounts
  BY AccountsFacts
<1>3. free \in [Accounts -> Nat] /\ t \in Nat /\ free[who] \in Nat
  BY <1>2, PursesType
<1>4. [free EXCEPT ![who] = @ - spent, ![to] = @ + amount] = moved
  <2> HIDE DEF spent
  <2> QED BY <1>1, <1>2, <1>3
<1>5. /\ free' = IF after[Author] > 0
                 THEN [after EXCEPT ![Author] = @ + extra] ELSE after
      /\ lost' = IF after[Author] > 0 THEN lost ELSE lost + extra
  BY <1>4, Zenon DEF EvmTransaction
<1>6. GasPrice \in Nat /\ price \in Nat
  BY FeesAssumption
<1>7. cost \in Nat /\ most \in Nat /\ cost <= most
  <2> HIDE DEF price
  <2> QED BY <1>1, <1>6, MonotoneProduct
<1>8. base \in Nat /\ extra \in Nat /\ cost = base + extra
  <2>1. \A x, y \in Nat : x * y \in Nat
    OBVIOUS
  <2>2. cost = base + extra
    BY <1>6
  <2> QED BY <1>6, <2>1, <2>2
<1> HIDE DEF cost, most, base, extra
<1>9. spent \in Nat /\ spent <= free[who] /\ spent = base + extra + amount
  BY <1>1, <1>2, <1>3, <1>7, <1>8
<1> HIDE DEF spent
<1>10. less \in Purses(t - spent) /\ spent <= t
  BY <1>2, <1>9, TakeOut
<1> HIDE DEF less
<1>11. moved \in Purses((t - spent) + amount)
  BY <1>2, <1>10, PutIn
<1> HIDE DEF moved
<1>12. after \in Purses(((t - spent) + amount) + base)
  BY <1>8, <1>11, FundTakes
<1>13. ((t - spent) + amount) + base = t - extra /\ extra <= t
  BY <1>3, <1>8, <1>9, <1>10
<1> HIDE DEF after
<1>14. after \in Purses(t - extra)
  BY <1>12, <1>13, Zenon
<1>15. CASE after[Author] > 0
  <2>1. free' = [after EXCEPT ![Author] = @ + extra] /\ lost' = lost
    BY <1>5, <1>15
  <2>2. [after EXCEPT ![Author] = @ + extra] \in Purses((t - extra) + extra)
    BY <1>2, <1>8, <1>14, PutIn
  <2>3. (t - extra) + extra = t /\ t - 0 = t /\ lost = lost + 0
    BY <1>3, <1>8
  <2>4. 0 \in Nat /\ 0 <= t /\ free' \in Purses(t - 0) /\ lost' = lost + 0
    BY <1>3, <2>1, <2>2, <2>3
  <2> QED BY <2>4, Zenon
<1>16. CASE ~(after[Author] > 0)
  <2>1. free' = after /\ lost' = lost + extra
    BY <1>5, <1>16
  <2> QED BY <1>8, <1>13, <1>14, <2>1, Zenon
<1> QED BY <1>15, <1>16

\* The wallet and the treasury.
LEMMA TriggerIsKept ==
    ASSUME NEW t, free \in Purses(t), TriggerWallet
    PROVE  free' \in Purses(t) /\ lost' = lost
<1>1. /\ Wallet \in Accounts /\ Wallet # Fund /\ Wallet # Treasury
      /\ Fund \in Accounts
  BY AccountsFacts
<1>2. free[Wallet] \in Nat /\ free[Wallet] <= free[Wallet]
  BY <1>1, PursesType
<1>3. free' = Transfer(free, Wallet, Fund, free[Wallet]) /\ lost' = lost
  BY DEF TriggerWallet, EmptyWallet, Pot
<1>4. Transfer(free, Wallet, Fund, free[Wallet]) \in Purses(t)
  BY <1>1, <1>2, TransferIsKept
<1> QED BY <1>3, <1>4

LEMMA DivBelow ==
    ASSUME NEW n \in Nat, NEW d \in Nat \ {0}
    PROVE  n \div d \in Nat /\ n \div d <= n /\ d * (n \div d) <= n
<1> DEFINE q == n \div d
           r == n % d
<1>1. q \in Int /\ r \in 0..(d - 1) /\ n = d * q + r
  OBVIOUS
<1> HIDE DEF q, r
<1>2. q >= 0
  BY <1>1
<1>3. d * q <= n
  BY <1>1
<1>4. 1 * q \in Nat /\ q * 1 <= q * d
  <2>1. q \in Nat /\ 1 \in Nat /\ d \in Nat /\ 1 <= d
    BY <1>1, <1>2
  <2>2. q * 1 <= q * d
    BY <2>1, MonotoneProduct
  <2> QED BY <2>1, <2>2
<1>5. q * d = d * q /\ q * 1 = q
  BY <1>1
<1>6. q <= n
  <2> DEFINE p == d * q
  <2>1. p \in Nat /\ p <= n /\ q <= p
    <3>1. \A x, y \in Nat : x * y \in Nat
      OBVIOUS
    <3>2. p \in Nat
      BY <1>1, <1>2, <3>1
    <3> QED BY <1>3, <1>4, <1>5, <3>2
  <2> HIDE DEF p
  <2> QED BY <1>1, <2>1
<1> QED BY <1>1, <1>2, <1>3, <1>6 DEF q

LEMMA SpendIsKept ==
    ASSUME NEW t, free \in Purses(t), NEW beneficiary \in Users,
           NEW value \in Nat, SpendFunds(beneficiary, value)
    PROVE  free' \in Purses(t) /\ lost' = lost
<1> DEFINE pot == free[Treasury] - ExistentialDeposit
           opens == Accepts(free, beneficiary, value)
           burn == (pot - value) \div BurnDivisor
           paid == IF opens THEN value ELSE 0
           credited == Credit(free, beneficiary, value)
           out == burn + paid
           left == [credited EXCEPT ![Treasury] = @ - burn - paid]
<1>1. value <= pot /\ free' = FundBalance(left, burn) /\ lost' = lost
  BY Zenon DEF SpendFunds
<1>2. /\ beneficiary \in Accounts /\ beneficiary # Treasury
      /\ Treasury \in Accounts /\ Treasury # Fund
      /\ ExistentialDeposit \in Nat
  BY AccountsFacts
<1>3. /\ free \in [Accounts -> Nat] /\ t \in Nat
      /\ free[Treasury] \in Nat /\ free[Treasury] >= ExistentialDeposit
  BY PursesType
<1>4. burn \in Nat /\ burn <= pot - value
  <2> DEFINE rest == pot - value
  <2>1. rest \in Nat /\ BurnDivisor \in Nat \ {0}
    BY <1>1, <1>2, <1>3, FeesAssumption
  <2> HIDE DEF rest
  <2>2. rest \div BurnDivisor \in Nat /\ rest \div BurnDivisor <= rest
    BY <2>1, DivBelow
  <2> QED BY <2>2 DEF rest
<1> HIDE DEF burn
<1>5. paid \in Nat /\ paid <= value
  OBVIOUS
<1>6. credited \in Purses(t + paid) /\ credited[Treasury] = free[Treasury]
  <2>1. CASE opens
    <3>1. credited = [free EXCEPT ![beneficiary] = @ + value] /\ paid = value
      BY <2>1 DEF Credit
    <3>2. [free EXCEPT ![beneficiary] = @ + value] \in Purses(t + value)
      BY <1>2, PutIn
    <3>3. [free EXCEPT ![beneficiary] = @ + value][Treasury] = free[Treasury]
      BY <1>2, <1>3
    <3> QED BY <3>1, <3>2, <3>3, Zenon
  <2>2. CASE ~opens
    <3>1. credited = free /\ paid = 0
      BY <2>2 DEF Credit
    <3>2. t + 0 = t
      BY <1>3
    <3> QED BY <3>1, <3>2, Zenon
  <2> QED BY <2>1, <2>2
<1> HIDE DEF paid, credited
<1>7. /\ out \in Nat /\ out <= credited[Treasury]
      /\ credited[Treasury] - out >= ExistentialDeposit
      /\ (credited[Treasury] - burn) - paid = credited[Treasury] - out
  BY <1>1, <1>2, <1>3, <1>4, <1>5, <1>6
<1>8. left = [credited EXCEPT ![Treasury] = @ - out]
  BY <1>7, Zenon
<1> HIDE DEF out, left
<1>9. [credited EXCEPT ![Treasury] = @ - out] \in Purses((t + paid) - out)
      /\ out <= t + paid
  BY <1>2, <1>6, <1>7, TakeOut
<1>10. left \in Purses((t + paid) - out)
  BY <1>8, <1>9, Zenon
<1>11. FundBalance(left, burn) \in Purses(((t + paid) - out) + burn)
  BY <1>4, <1>10, FundTakes
<1>12. ((t + paid) - out) + burn = t
  BY <1>3, <1>4, <1>5 DEF out
<1> QED BY <1>1, <1>11, <1>12

\* Slashes: what do_slash takes is in the imbalance.
Staker == [stash : Users, value : Nat]

Slashed(t, slashes) ==
    {s \in [free : [Accounts -> Nat], imbalance : Nat, payout : Nat] :
       /\ s.imbalance <= t
       /\ s.free \in Purses(t - s.imbalance)
       /\ \A i \in DOMAIN slashes :
            s.free[slashes[i].stash] >= ExistentialDeposit}

LEMMA SlashedParts ==
    ASSUME NEW t, NEW slashes, NEW s \in Slashed(t, slashes)
    PROVE  /\ s.free \in [Accounts -> Nat] /\ s.imbalance \in Nat
           /\ s.payout \in Nat /\ s.imbalance <= t
           /\ s.free \in Purses(t - s.imbalance)
           /\ \A i \in DOMAIN slashes :
                s.free[slashes[i].stash] >= ExistentialDeposit
BY DEF Slashed

LEMMA NewSlashed ==
    ASSUME NEW t, NEW slashes, NEW f \in [Accounts -> Nat], NEW m \in Nat,
           NEW p \in Nat, m <= t, f \in Purses(t - m),
           \A i \in DOMAIN slashes : f[slashes[i].stash] >= ExistentialDeposit
    PROVE  [free |-> f, imbalance |-> m, payout |-> p] \in Slashed(t, slashes)
BY DEF Slashed

LEMMA DoSlashIsKept ==
    ASSUME NEW t \in Nat, NEW slashes \in Seq(Staker),
           NEW i \in DOMAIN slashes, NEW s \in Slashed(t, slashes)
    PROVE  DoSlash(s, slashes[i]) \in Slashed(t, slashes)
<1> DEFINE who == slashes[i].stash
           value == slashes[i].value
           f == s.free
           m == s.imbalance
           taken == Taken(f, who, value)
           missing == value - taken
           g == [f EXCEPT ![who] = @ - taken]
           p == IF s.payout > missing THEN s.payout - missing ELSE 0
<1>1. /\ f \in [Accounts -> Nat] /\ m \in Nat /\ s.payout \in Nat /\ m <= t
      /\ f \in Purses(t - m)
      /\ \A j \in DOMAIN slashes : f[slashes[j].stash] >= ExistentialDeposit
  BY SlashedParts
<1>2. /\ who \in Users /\ value \in Nat
      /\ \A j \in DOMAIN slashes : slashes[j].stash \in Users
  <2>1. \A j \in DOMAIN slashes : slashes[j] \in Staker
    OBVIOUS
  <2> QED BY <2>1 DEF Staker
<1>3. /\ who \in Accounts /\ who # Fund /\ who # Treasury
      /\ ExistentialDeposit \in Nat /\ Users \subseteq Accounts
  BY <1>2, AccountsFacts
<1>4. f[who] \in Nat /\ f[who] >= ExistentialDeposit
  BY <1>1, <1>3
<1>5. DoSlash(s, slashes[i]) = [free |-> g, imbalance |-> m + taken, payout |-> p]
  BY Zenon DEF DoSlash
<1> HIDE DEF who, value, f, m
<1>6. taken \in Nat /\ f[who] - taken >= ExistentialDeposit /\ taken <= value
      /\ taken <= f[who]
  BY <1>2, <1>3, <1>4 DEF Taken
<1> HIDE DEF taken
<1>7. g \in Purses((t - m) - taken) /\ taken <= t - m
  BY <1>1, <1>3, <1>6, TakeOut
<1>8. p \in Nat
  BY <1>1, <1>2, <1>6
<1>9. g \in [Accounts -> Nat]
      /\ \A j \in DOMAIN slashes : g[slashes[j].stash] >= ExistentialDeposit
  <2>1. g \in [Accounts -> Nat]
    BY <1>7, PursesType
  <2>2. \A a \in Users : g[a] = IF a = who THEN f[who] - taken ELSE f[a]
    BY <1>1, <1>3
  <2>3. \A j \in DOMAIN slashes : g[slashes[j].stash] >= ExistentialDeposit
    BY <1>1, <1>2, <1>6, <2>2
  <2> QED BY <2>1, <2>3
<1> HIDE DEF g, p
<1>10. m + taken \in Nat /\ m + taken <= t /\ (t - m) - taken = t - (m + taken)
  BY <1>1, <1>6, <1>7
<1>11. [free |-> g, imbalance |-> m + taken, payout |-> p] \in Slashed(t, slashes)
  <2> DEFINE k == m + taken
  <2>1. k \in Nat /\ k <= t /\ g \in Purses(t - k)
    BY <1>7, <1>10, Zenon
  <2> HIDE DEF k
  <2>2. [free |-> g, imbalance |-> k, payout |-> p] \in Slashed(t, slashes)
    BY <1>8, <1>9, <2>1, NewSlashed
  <2> QED BY <2>2 DEF k
<1> QED BY <1>5, <1>11, Zenon

LEMMA SlashesAreKept ==
    ASSUME NEW t \in Nat, NEW slashes \in Seq(Staker), NEW payout \in Nat,
           NEW f0 \in Purses(t),
           \A i \in DOMAIN slashes : f0[slashes[i].stash] >= ExistentialDeposit
    PROVE  DoSlashes(f0, slashes, payout) \in Slashed(t, slashes)
<1> DEFINE X == Slashed(t, slashes)
           n == Len(slashes)
           st == [free |-> f0, imbalance |-> 0, payout |-> payout]
           step(x, i) == DoSlash(x, slashes[i])
           F(g) == [i \in 0..n |-> IF i = 0 THEN st ELSE step(g[i - 1], i)]
           f == CHOOSE g : g = F(g)
<1>1. n \in Nat /\ DOMAIN slashes = 1..n
  OBVIOUS
<1>2. st \in X
  <2>1. f0 \in [Accounts -> Nat] /\ t - 0 = t
    BY PursesType
  <2>2. f0 \in Purses(t - 0) /\ 0 \in Nat /\ 0 <= t
    BY <2>1
  <2> QED BY <2>1, <2>2, NewSlashed
<1>3. \A i \in 1..n, x \in X : step(x, i) \in X
  BY <1>1, DoSlashIsKept
<1>4. DoSlashes(f0, slashes, payout) = f[n]
  BY Zenon DEF DoSlashes
<1> HIDE DEF step, n, st, X
<1>5. \E g : g = F(g)
  <2> DEFINE h == [i \in 1..n |-> [x \in X |-> step(x, i)]]
  <2>1. h \in StepsOf(n, X)
    BY <1>3 DEF StepsOf
  <2>2. Iterations(n, X, st, h) # {}
    <3> HIDE DEF h
    <3> QED BY <1>1, <1>2, <2>1, IterationExists
  <2>3. PICK g \in [0..n -> X] :
          g[0] = st /\ \A i \in 1..n : g[i] = h[i][g[i - 1]]
    <3> HIDE DEF h
    <3> QED BY <2>2 DEF Iterations
  <2>4. \A i \in 1..n : i - 1 \in 0..n
    BY <1>1
  <2>5. \A i \in 1..n : g[i] = step(g[i - 1], i)
    BY <2>3, <2>4
  <2>6. g = [i \in 0..n |-> g[i]]
    BY <2>3
  <2>7. \A i \in 0..n : g[i] = IF i = 0 THEN st ELSE step(g[i - 1], i)
    <3> TAKE i \in 0..n
    <3>1. CASE i = 0
      BY <2>3, <3>1
    <3>2. CASE i # 0
      <4>1. i \in 1..n
        BY <1>1, <3>2
      <4> QED BY <2>5, <3>2, <4>1
    <3> QED BY <3>1, <3>2
  <2>8. g = F(g)
    BY <2>6, <2>7
  <2> QED BY <2>8
<1>6. f = F(f)
  BY <1>5
<1> HIDE DEF f
<1> DEFINE S == {i \in 0..n : f[i] \in X}
<1>7. \A i \in 0..n : i \in S
  <2>1. 0 \in S
    <3>1. 0 \in 0..n
      BY <1>1
    <3> QED BY <1>2, <1>6, <3>1
  <2>2. ASSUME NEW i \in 1..n, i - 1 \in S
        PROVE  i \in S
    <3>1. i \in 0..n /\ i # 0
      BY <1>1
    <3>2. f[i] = step(f[i - 1], i)
      BY <1>6, <3>1
    <3>3. f[i - 1] \in X
      BY <2>2
    <3> QED BY <1>3, <3>1, <3>2, <3>3
  <2>3. \A i \in 1..n : i - 1 \in S => i \in S
    BY <2>2
  <2> HIDE DEF S
  <2> QED BY <1>1, <2>1, <2>3, IntervalInduction
<1>8. n \in 0..n
  BY <1>1
<1> QED BY <1>4, <1>7, <1>8 DEF X

\* The shares of the reporters: paid, or dropped and recorded.
Rewarded == [free : UNION {Purses(u) : u \in Nat}, lost : Nat]

PayStep(p, r, share) ==
    [free |-> Credit(p.free, r, share),
     lost |-> p.lost + Dropped(p.free, r, share)]

LEMMA PayIsKept ==
    ASSUME NEW u \in Nat, NEW f \in Purses(u), NEW r \in Accounts,
           NEW share \in Nat
    PROVE  \E v \in Nat :
             /\ Credit(f, r, share) \in Purses(v)
             /\ Dropped(f, r, share) \in Nat
             /\ v + Dropped(f, r, share) = u + share
<1>1. CASE Accepts(f, r, share)
  <2>1. Credit(f, r, share) = [f EXCEPT ![r] = @ + share]
        /\ Dropped(f, r, share) = 0
    BY <1>1 DEF Credit, Dropped
  <2>2. [f EXCEPT ![r] = @ + share] \in Purses(u + share)
    BY PutIn
  <2>3. Credit(f, r, share) \in Purses(u + share)
    BY <2>1, <2>2, Zenon
  <2>4. u + share \in Nat /\ (u + share) + 0 = u + share
    OBVIOUS
  <2> QED BY <2>1, <2>3, <2>4
<1>2. CASE ~Accepts(f, r, share)
  <2>1. Credit(f, r, share) = f /\ Dropped(f, r, share) = share
    BY <1>2 DEF Credit, Dropped
  <2> QED BY <2>1
<1> QED BY <1>1, <1>2

LEMMA PayStepIsKept ==
    ASSUME NEW p \in Rewarded, NEW r \in Accounts, NEW share \in Nat,
           NEW u \in Nat, p.free \in Purses(u)
    PROVE  \E v \in Nat :
             /\ PayStep(p, r, share) \in Rewarded
             /\ PayStep(p, r, share).free \in Purses(v)
             /\ v + PayStep(p, r, share).lost = u + p.lost + share
<1> DEFINE f == p.free
           c == Credit(f, r, share)
           d == Dropped(f, r, share)
<1>1. PICK v \in Nat : c \in Purses(v) /\ d \in Nat /\ v + d = u + share
  BY PayIsKept
<1>2. p.lost \in Nat
  BY DEF Rewarded
<1>3. PayStep(p, r, share) = [free |-> c, lost |-> p.lost + d]
  BY Zenon DEF PayStep
<1> HIDE DEF c, d
<1>4. [free |-> c, lost |-> p.lost + d] \in Rewarded
  <2>1. p.lost + d \in Nat
    BY <1>1, <1>2
  <2>2. c \in UNION {Purses(w) : w \in Nat}
    BY <1>1, Zenon
  <2> QED BY <2>1, <2>2 DEF Rewarded
<1>5. v + (p.lost + d) = u + p.lost + share
  BY <1>1, <1>2
<1> WITNESS v \in Nat
<1> QED BY <1>1, <1>3, <1>4, <1>5

LEMMA ReportersArePaid ==
    ASSUME NEW t \in Nat, NEW f0 \in Purses(t), NEW share \in Nat,
           NEW reporters \in Seq(Users \cup {Author})
    PROVE  \E u \in Nat :
             /\ PayReporters(f0, reporters, share).free \in Purses(u)
             /\ PayReporters(f0, reporters, share).lost \in Nat
             /\ u + PayReporters(f0, reporters, share).lost
                  = t + share * Len(reporters)
<1> DEFINE X == Rewarded
           n == Len(reporters)
           st == [free |-> f0, lost |-> 0]
           step(x, i) == PayStep(x, reporters[i], share)
           F(g) == [i \in 0..n |-> IF i = 0 THEN st ELSE step(g[i - 1], i)]
           f == CHOOSE g : g = F(g)
<1>1. n \in Nat /\ DOMAIN reporters = 1..n
      /\ \A i \in 1..n : reporters[i] \in Accounts
  <2>1. n \in Nat /\ DOMAIN reporters = 1..n
        /\ \A i \in 1..n : reporters[i] \in Users \cup {Author}
    OBVIOUS
  <2> QED BY <2>1 DEF Accounts
<1>2. st \in X
  <2>1. f0 \in UNION {Purses(w) : w \in Nat} /\ 0 \in Nat
    BY Zenon
  <2> QED BY <2>1 DEF Rewarded
<1>3. \A i \in 1..n, x \in X : step(x, i) \in X
  <2> TAKE i \in 1..n, x \in X
  <2>1. PICK u \in Nat : x.free \in Purses(u)
    BY DEF Rewarded
  <2>2. reporters[i] \in Accounts
    BY <1>1
  <2> QED BY <2>1, <2>2, PayStepIsKept
<1>4. PayReporters(f0, reporters, share) = f[n]
  BY Zenon DEF PayReporters, PayStep
<1>5. st.free = f0 /\ st.lost = 0
  OBVIOUS
<1>6. ASSUME NEW x \in X, NEW i \in 1..n, NEW u \in Nat, x.free \in Purses(u)
      PROVE  \E v \in Nat :
               /\ step(x, i).free \in Purses(v)
               /\ v + step(x, i).lost = u + x.lost + share
  <2>1. reporters[i] \in Accounts
    BY <1>1
  <2> QED BY <1>6, <2>1, PayStepIsKept
<1>7. \A x \in X : x.lost \in Nat
  BY DEF Rewarded
<1> HIDE DEF step, n, st, X
<1>8. \E g : g = F(g)
  <2> DEFINE h == [i \in 1..n |-> [x \in X |-> step(x, i)]]
  <2>1. h \in StepsOf(n, X)
    BY <1>3 DEF StepsOf
  <2>2. Iterations(n, X, st, h) # {}
    <3> HIDE DEF h
    <3> QED BY <1>1, <1>2, <2>1, IterationExists
  <2>3. PICK g \in [0..n -> X] :
          g[0] = st /\ \A i \in 1..n : g[i] = h[i][g[i - 1]]
    <3> HIDE DEF h
    <3> QED BY <2>2 DEF Iterations
  <2>4. \A i \in 1..n : i - 1 \in 0..n
    BY <1>1
  <2>5. \A i \in 1..n : g[i] = step(g[i - 1], i)
    BY <2>3, <2>4
  <2>6. g = [i \in 0..n |-> g[i]]
    BY <2>3
  <2>7. \A i \in 0..n : g[i] = IF i = 0 THEN st ELSE step(g[i - 1], i)
    <3> TAKE i \in 0..n
    <3>1. CASE i = 0
      BY <2>3, <3>1
    <3>2. CASE i # 0
      <4>1. i \in 1..n
        BY <1>1, <3>2
      <4> QED BY <2>5, <3>2, <4>1
    <3> QED BY <3>1, <3>2
  <2>8. g = F(g)
    BY <2>6, <2>7
  <2> QED BY <2>8
<1>9. f = F(f)
  BY <1>8
<1> HIDE DEF f
<1> DEFINE Paid(i) == /\ f[i] \in X
                      /\ \E u \in Nat : /\ f[i].free \in Purses(u)
                                        /\ u + f[i].lost = t + share * i
           S == {i \in 0..n : Paid(i)}
<1>10. \A i \in 0..n : i \in S
  <2>1. 0 \in S
    <3>1. 0 \in 0..n /\ share * 0 = 0 /\ t + 0 = t
      BY <1>1
    <3>2. f[0] = st
      BY <1>9, <3>1
    <3>3. f[0].free \in Purses(t) /\ t + f[0].lost = t + share * 0
      BY <1>5, <3>1, <3>2
    <3> QED BY <1>2, <3>1, <3>2, <3>3
  <2>2. ASSUME NEW i \in 1..n, i - 1 \in S
        PROVE  i \in S
    <3>1. i \in 0..n /\ i # 0
      BY <1>1
    <3>2. f[i] = step(f[i - 1], i)
      BY <1>9, <3>1
    <3>3. Paid(i - 1)
      BY <2>2
    <3> DEFINE x == f[i - 1]
    <3>4. x \in X
      BY <3>3
    <3>5. PICK u \in Nat : /\ x.free \in Purses(u)
                           /\ u + x.lost = t + share * (i - 1)
      BY <3>3
    <3> HIDE DEF x
    <3>6. PICK v \in Nat : /\ step(x, i).free \in Purses(v)
                           /\ v + step(x, i).lost = u + x.lost + share
      BY <1>6, <3>4, <3>5
    <3>7. share * i = share * (i - 1) + share
      <4>1. i \in Int /\ share \in Int
        BY <1>1
      <4> QED BY <4>1
    <3> DEFINE a == share * (i - 1)
               b == share * i
    <3>8. v + step(x, i).lost = t + b
      <4>1. a \in Nat
        <5>1. \A j, k \in Nat : j * k \in Nat
          OBVIOUS
        <5>2. i - 1 \in Nat
          BY <1>1
        <5> QED BY <5>1, <5>2
      <4>2. u + x.lost = t + a /\ b = a + share
        BY <3>5, <3>7
      <4> HIDE DEF a, b
      <4>3. u + x.lost + share = t + b
        BY <4>1, <4>2
      <4> QED BY <3>6, <4>3
    <3>9. f[i].free \in Purses(v) /\ v + f[i].lost = t + share * i
      BY <3>2, <3>6, <3>8 DEF x
    <3>10. f[i] \in X
      BY <1>3, <3>2, <3>4 DEF x
    <3>11. Paid(i)
      BY <3>9, <3>10
    <3> QED BY <3>1, <3>11
  <2>3. \A i \in 1..n : i - 1 \in S => i \in S
    BY <2>2
  <2> HIDE DEF S
  <2> QED BY <1>1, <2>1, <2>3, IntervalInduction
<1>11. n \in 0..n
  BY <1>1
<1>12. Paid(n)
  BY <1>10, <1>11
<1>13. f[n].lost \in Nat
  BY <1>7, <1>12
<1>14. PICK u \in Nat : f[n].free \in Purses(u) /\ u + f[n].lost = t + share * n
  BY <1>12
<1> DEFINE p == PayReporters(f0, reporters, share)
<1>15. p.free \in Purses(u) /\ p.lost \in Nat /\ u + p.lost = t + share * n
  BY <1>4, <1>13, <1>14
<1> QED BY <1>15 DEF n

LEMMA ApplySlashIsKept ==
    ASSUME NEW t, free \in Purses(t), lost \in Nat,
           NEW slashes \in Seq(Staker), NEW payout \in Nat,
           NEW reporters \in Seq(Users \cup {Author}),
           ApplySlash(slashes, payout, reporters)
    PROVE  \E d \in Nat : d <= t /\ free' \in Purses(t - d) /\ lost' = lost + d
<1> DEFINE s == DoSlashes(free, slashes, payout)
           n == Len(reporters)
           reward == IF s.payout < s.imbalance THEN s.payout ELSE s.imbalance
           share == reward \div n
           paid == PayReporters(s.free, reporters, share)
           f == s.free
           m == s.imbalance
<1>1. /\ \A i \in DOMAIN slashes : free[slashes[i].stash] >= ExistentialDeposit
      /\ IF s.payout = 0 \/ n = 0
         THEN free' = Credit(f, Treasury, m) /\ lost' = lost
         ELSE /\ free' = Credit(paid.free, Treasury, SlashRemainder(m, reward, n))
              /\ lost' = lost + paid.lost
  BY Zenon DEF ApplySlash
<1>2. t \in Nat
  BY PursesType
<1>3. s \in Slashed(t, slashes)
  BY <1>1, <1>2, SlashesAreKept
<1> HIDE DEF s
<1>4. f \in Purses(t - m) /\ m \in Nat /\ m <= t /\ s.payout \in Nat
  BY <1>3, SlashedParts
<1>5. n \in Nat
  OBVIOUS
<1>6. reward \in Nat /\ reward <= m
  BY <1>4
<1>7. CASE s.payout = 0 \/ n = 0
  <2>1. free' = Credit(f, Treasury, m) /\ lost' = lost
    BY <1>1, <1>7
  <2> HIDE DEF f, m
  <2>2. Credit(f, Treasury, m) \in Purses((t - m) + m)
    BY <1>4, TreasuryTakes
  <2>3. (t - m) + m = t - 0 /\ lost + 0 = lost /\ 0 <= t
    BY <1>2, <1>4
  <2>4. 0 \in Nat /\ 0 <= t /\ free' \in Purses(t - 0) /\ lost' = lost + 0
    BY <2>1, <2>2, <2>3
  <2> QED BY <2>4, Zenon
<1>8. CASE ~(s.payout = 0 \/ n = 0)
  <2>1. /\ free' = Credit(paid.free, Treasury, SlashRemainder(m, reward, n))
        /\ lost' = lost + paid.lost
    BY <1>1, <1>8
  <2>2. n \in Nat \ {0}
    BY <1>5, <1>8
  <2> HIDE DEF f, m, reward, n
  <2>3. share \in Nat /\ n * share <= reward
    BY <1>6, <2>2, DivBelow
  <2>4. SlashRemainder(m, reward, n) = m - n * share
    BY DEF SlashRemainder
  <2> HIDE DEF share
  <2> DEFINE all == share * n
             rest == m - all
  <2>5. n * share = all
    BY <2>2, <2>3
  <2>6. all \in Nat
    <3>1. \A j, k \in Nat : j * k \in Nat
      OBVIOUS
    <3> QED BY <2>2, <2>3, <3>1
  <2>7. t - m \in Nat
    BY <1>2, <1>4
  <2>8. PICK u \in Nat : /\ paid.free \in Purses(u) /\ paid.lost \in Nat
                         /\ u + paid.lost = (t - m) + all
    <3>1. s.free \in Purses(t - m)
      BY <1>4 DEF f
    <3> QED BY <2>3, <2>7, <3>1, ReportersArePaid DEF n
  <2> HIDE DEF all, paid
  <2>9. rest \in Nat
    BY <1>4, <1>6, <2>3, <2>5, <2>6
  <2>10. SlashRemainder(m, reward, n) = rest
    BY <2>4, <2>5
  <2> DEFINE d == paid.lost
  <2>11. d \in Nat /\ d <= t /\ u + rest = t - d
    <3>1. d \in Nat /\ u + d = (t - m) + all
      BY <2>8
    <3>2. rest \in Nat /\ rest = m - all
      BY <2>9
    <3> HIDE DEF d, rest
    <3> QED BY <1>2, <1>4, <2>6, <2>8, <3>1, <3>2
  <2> HIDE DEF rest
  <2>12. Credit(paid.free, Treasury, rest) \in Purses(u + rest)
    BY <2>8, <2>9, TreasuryTakes
  <2>13. free' \in Purses(t - d) /\ lost' = lost + d
    BY <2>1, <2>10, <2>11, <2>12
  <2> QED BY <2>11, <2>13
<1> QED BY <1>7, <1>8

\* Whatever moves money keeps it, or records what is dropped.
LEMMA MoneyMovesKeep ==
    ASSUME NEW t, free \in Purses(t), lost \in Nat, MoneyMoves
    PROVE  \E d \in Nat : d <= t /\ free' \in Purses(t - d) /\ lost' = lost + d
<1>1. t \in Nat /\ Tips \subseteq Nat /\ Amounts \subseteq Nat
      /\ MaxWeight \in Nat /\ MaxGas \in Nat
  BY PursesType, FeesAssumption
<1>2. ASSUME free' \in Purses(t), lost' = lost
      PROVE  \E d \in Nat : d <= t /\ free' \in Purses(t - d) /\ lost' = lost + d
  <2>1. 0 \in Nat /\ 0 <= t /\ t - 0 = t /\ lost + 0 = lost
    BY <1>1
  <2> QED BY <1>2, <2>1
<1>3. ASSUME NEW who \in Users, NEW declared \in 1..MaxWeight,
             NEW actual \in 1..MaxWeight, NEW tip \in Tips,
             NEW call \in CallsOf(who),
             SignedTransaction(who, declared, actual, tip, call)
      PROVE  free' \in Purses(t) /\ lost' = lost
  <2>1. declared \in Nat /\ actual \in Nat /\ tip \in Nat
    BY <1>1
  <2> QED BY <1>3, <2>1, SignedIsKept
<1>4. ASSUME NEW who \in Users, NEW to \in Users, NEW gas_limit \in 1..MaxGas,
             NEW used_gas \in 1..MaxGas, NEW tip \in Tips,
             NEW amount \in Amounts \cup {0},
             EvmTransaction(who, gas_limit, used_gas, tip, to, amount)
      PROVE  \E d \in Nat : d <= t /\ free' \in Purses(t - d) /\ lost' = lost + d
  <2>1. gas_limit \in Nat /\ used_gas \in Nat /\ tip \in Nat /\ amount \in Nat
    BY <1>1
  <2> QED BY <1>4, <2>1, EvmIsKept
<1>5. ASSUME NEW slashes \in SeqOf([stash : Users, value : Amounts], MaxSlashed),
             NEW payout \in Amounts,
             NEW reporters \in SeqOf(Users \cup {Author}, MaxReporters),
             ApplySlash(slashes, payout, reporters)
      PROVE  \E d \in Nat : d <= t /\ free' \in Purses(t - d) /\ lost' = lost + d
  <2>1. slashes \in Seq(Staker)
    <3>1. PICK k \in 0..MaxSlashed :
            slashes \in [1..k -> [stash : Users, value : Amounts]]
      BY DEF SeqOf
    <3>2. k \in Nat /\ slashes \in [1..k -> Staker]
      BY <1>1, <3>1, FeesAssumption DEF Staker
    <3> QED BY <3>2
  <2>2. reporters \in Seq(Users \cup {Author})
    <3>1. PICK k \in 0..MaxReporters : reporters \in [1..k -> Users \cup {Author}]
      BY DEF SeqOf
    <3>2. k \in Nat
      BY <3>1, FeesAssumption
    <3> QED BY <3>1, <3>2
  <2>3. payout \in Nat
    BY <1>1
  <2> QED BY <1>5, <2>1, <2>2, <2>3, ApplySlashIsKept
<1>6. ASSUME NEW beneficiary \in Users, NEW value \in Amounts,
             SpendFunds(beneficiary, value)
      PROVE  free' \in Purses(t) /\ lost' = lost
  BY <1>1, <1>6, SpendIsKept
<1>7. TriggerWallet => free' \in Purses(t) /\ lost' = lost
  BY TriggerIsKept
<1> QED BY <1>2, <1>3, <1>4, <1>5, <1>6, <1>7 DEF MoneyMoves

-----------------------------------------------------------------------------
(***************************************************************************)
(* The beginning of a chain (module Genesis).                              *)
(***************************************************************************)

\* The entries of a table of balances.
Tables == Seq(Accounts \X Nat)

LEMMA TableEntries ==
    ASSUME NEW entries \in Tables
    PROVE  /\ Len(entries) \in Nat /\ DOMAIN entries = 1..Len(entries)
           /\ IsFiniteSet(DOMAIN entries)
           /\ \A i \in DOMAIN entries :
                entries[i][1] \in Accounts /\ entries[i][2] \in Nat
           /\ [i \in DOMAIN entries |-> entries[i][2]] \in [DOMAIN entries -> Nat]
<1>1. Len(entries) \in Nat /\ DOMAIN entries = 1..Len(entries)
  BY DEF Tables
<1>2. \A i \in DOMAIN entries : entries[i] \in Accounts \X Nat
  BY DEF Tables
<1>3. \A i \in DOMAIN entries :
        entries[i][1] \in Accounts /\ entries[i][2] \in Nat
  BY <1>2
<1>4. IsFiniteSet(1..Len(entries))
  <2>1. 1 \in Int /\ Len(entries) \in Int
    BY <1>1
  <2> QED BY <2>1, FS_Interval
<1>5. [i \in DOMAIN entries |-> entries[i][2]] \in [DOMAIN entries -> Nat]
  BY <1>3
<1> QED BY <1>1, <1>3, <1>4, <1>5

LEMMA ConstantTotal ==
    ASSUME NEW S, IsFiniteSet(S), NEW f, NEW x \in Nat, \A s \in S : f[s] = x
    PROVE  Total(f, S) = Cardinality(S) * x
<1>1. Units(f, S) = S \X (1..x)
  BY DEF Units
<1>2. IsFiniteSet(1..x) /\ Cardinality(1..x) = x
  <2>1. 1 \in Int /\ x \in Int
    OBVIOUS
  <2>2. IsFiniteSet(1..x) /\ Cardinality(1..x) = IF 1 > x THEN 0 ELSE x - 1 + 1
    BY <2>1, FS_Interval
  <2> QED BY <2>2
<1>3. Cardinality(S \X (1..x)) = Cardinality(S) * x
  BY <1>2, FS_Product
<1> QED BY <1>1, <1>3 DEF Total

\* A table that gives every member of a set the same.
LEMMA EqualTable ==
    ASSUME NEW S \in SUBSET Users, NEW x \in Nat
    PROVE  LET e == [i \in 1..Cardinality(S) |-> <<SetToSeq(S)[i], x>>]
           IN  /\ e \in Tables
               /\ \A i \in DOMAIN e : e[i][1] \in Users
               /\ TableTotal(e) = Cardinality(S) * x
<1> DEFINE c == Cardinality(S)
           s == SetToSeq(S)
           e == [i \in 1..c |-> <<s[i], x>>]
<1>1. IsFiniteSet(S)
  BY GenesisAssumption, FS_Subset
<1>2. c \in Nat /\ ExistsBijection(1..c, S)
  BY <1>1, FS_CardinalityType
<1>3. \E f \in [1..c -> S] : IsInjective(f)
  <2>1. PICK f \in Bijection(1..c, S) : TRUE
    BY <1>2 DEF ExistsBijection
  <2>2. f \in [1..c -> S] /\ IsInjective(f)
    BY <2>1 DEF Bijection, Injection
  <2> QED BY <2>2
<1>4. s \in [1..c -> S]
  BY <1>3 DEF SetToSeq
<1> HIDE DEF c, s
<1>5. \A i \in 1..c : s[i] \in Users /\ s[i] \in Accounts
  BY <1>4, AccountsFacts
<1>6. e \in [1..c -> Accounts \X Nat]
  BY <1>5
<1>7. e \in Tables
  BY <1>2, <1>6 DEF Tables
<1>8. \A i \in 1..c : e[i][1] = s[i] /\ e[i][2] = x
  OBVIOUS
<1>9. DOMAIN e = 1..c
  OBVIOUS
<1> HIDE DEF e
<1> DEFINE f == [i \in DOMAIN e |-> e[i][2]]
<1>10. Total(f, 1..c) = Cardinality(1..c) * x
  <2>1. \A i \in 1..c : f[i] = x
    BY <1>8, <1>9
  <2>2. IsFiniteSet(1..c)
    BY <1>7, <1>9, TableEntries
  <2> HIDE DEF f
  <2> QED BY <2>1, <2>2, ConstantTotal
<1>11. Cardinality(1..c) = c
  <2>1. 1 \in Int /\ c \in Int
    BY <1>2
  <2>2. Cardinality(1..c) = IF 1 > c THEN 0 ELSE c - 1 + 1
    BY <2>1, FS_Interval
  <2> QED BY <1>2, <2>2
<1>12. TableTotal(e) = c * x
  BY <1>9, <1>10, <1>11 DEF TableTotal
<1>13. \A i \in DOMAIN e : e[i][1] \in Users
  BY <1>5, <1>8, <1>9
<1> QED BY <1>7, <1>12, <1>13 DEF e, c, s

\* Two tables, one after the other.
LEMMA TableConcat ==
    ASSUME NEW A \in Tables, NEW B \in Tables
    PROVE  /\ A \o B \in Tables
           /\ TableTotal(A \o B) = TableTotal(A) + TableTotal(B)
           /\ \A i \in DOMAIN (A \o B) :
                \/ \E j \in DOMAIN A : (A \o B)[i] = A[j]
                \/ \E j \in DOMAIN B : (A \o B)[i] = B[j]
<1> DEFINE m == Len(A)
           n == Len(B)
           C == A \o B
           f == [i \in DOMAIN C |-> C[i][2]]
           fa == [i \in DOMAIN A |-> A[i][2]]
           fb == [i \in DOMAIN B |-> B[i][2]]
           U == (m + 1)..(m + n)
<1>1. C \in Tables
  BY DEF Tables
<1>2. /\ Len(C) = m + n
      /\ \A i \in 1..m : C[i] = A[i]
      /\ \A i \in 1..n : C[m + i] = B[i]
  <2> DEFINE P == Accounts \X Nat
  <2>1. A \in Seq(P) /\ B \in Seq(P)
    BY DEF Tables
  <2> HIDE DEF P
  <2>2. Len(C) = m + n
    BY <2>1
  <2>3. \A i \in 1..m : C[i] = A[i]
    BY <2>1
  <2>4. ASSUME NEW i \in 1..n
        PROVE  C[m + i] = B[i]
    <3>1. m \in Nat /\ n \in Nat
      BY <2>1
    <3>2. m + i \in 1..(m + n) /\ ~(m + i <= m) /\ (m + i) - m = i
      BY <3>1
    <3> QED BY <2>1, <3>2
  <2> QED BY <2>2, <2>3, <2>4
<1>3. m \in Nat /\ n \in Nat /\ DOMAIN A = 1..m /\ DOMAIN B = 1..n
  BY TableEntries
<1>4. DOMAIN C = 1..(m + n) /\ IsFiniteSet(1..(m + n)) /\ f \in [1..(m + n) -> Nat]
  <2> HIDE DEF C, m, n
  <2> QED BY <1>1, <1>2, TableEntries
<1>5. fa \in [1..m -> Nat] /\ fb \in [1..n -> Nat] /\ IsFiniteSet(1..n)
  <2> HIDE DEF m, n
  <2> QED BY <1>3, TableEntries
<1>6. /\ \A i \in 1..m : f[i] = fa[i]
      /\ \A i \in 1..n : f[m + i] = fb[i]
  <2> HIDE DEF C, m, n
  <2>1. \A i \in 1..m : i \in DOMAIN C /\ i \in DOMAIN A
    BY <1>3, <1>4
  <2>2. \A i \in 1..n : m + i \in DOMAIN C /\ i \in DOMAIN B
    BY <1>3, <1>4
  <2> QED BY <1>2, <2>1, <2>2
<1> HIDE DEF m, n, C, f, fa, fb
<1>7. /\ 1..m \in SUBSET (1..(m + n)) /\ U \in SUBSET (1..(m + n))
      /\ (1..m) \cap U = {} /\ (1..m) \cup U = 1..(m + n)
  BY <1>3
<1>8. Total(f, 1..(m + n)) = Total(f, 1..m) + Total(f, U)
  <2> DEFINE V == 1..(m + n)
             W == 1..m
  <2>1. /\ W \in SUBSET V /\ U \in SUBSET V /\ W \cap U = {} /\ W \cup U = V
        /\ IsFiniteSet(V) /\ f \in [V -> Nat]
    BY <1>4, <1>7
  <2> HIDE DEF U, V, W
  <2>2. Total(f, W \cup U) = Total(f, W) + Total(f, U)
    BY <2>1, TotalUnion
  <2> QED BY <2>1, <2>2 DEF V, W
<1>9. Total(f, 1..m) = Total(fa, 1..m)
  <2> DEFINE W == 1..m
  <2>1. \A i \in W : f[i] = fa[i]
    BY <1>6
  <2> HIDE DEF W
  <2>2. Total(f, W) = Total(fa, W)
    BY <2>1, TotalSame
  <2> QED BY <2>2 DEF W
<1>10. Total(f, U) = Total(fb, 1..n)
  <2> DEFINE V == 1..n
             g == [i \in U |-> f[i]]
             h == [i \in V |-> m + i]
  <2>1. g \in [U -> Nat]
    BY <1>4, <1>7
  <2>2. h \in Bijection(V, U)
    <3>1. h \in [V -> U]
      BY <1>3
    <3>2. \A a, b \in V : h[a] = h[b] => a = b
      BY <1>3
    <3>3. \A u \in U : \E a \in V : h[a] = u
      <4> TAKE u \in U
      <4>1. u - m \in V /\ h[u - m] = u
        BY <1>3
      <4> QED BY <4>1
    <3> HIDE DEF h, V, U
    <3> QED BY <3>1, <3>2, <3>3 DEF Bijection, Injection, Surjection, IsInjective
  <2>3. \A i \in V : g[h[i]] = fb[i]
    <3> TAKE i \in V
    <3>1. h[i] = m + i /\ m + i \in U
      BY <1>3
    <3>2. g[m + i] = f[m + i]
      BY <3>1
    <3> QED BY <1>6, <3>1, <3>2
  <2>4. \A i \in U : f[i] = g[i]
    OBVIOUS
  <2>5. IsFiniteSet(V) /\ fb \in [V -> Nat]
    BY <1>5
  <2> HIDE DEF g, h, U, V
  <2>6. Total(g, U) = Total(fb, V)
    BY <2>1, <2>2, <2>3, <2>5, TotalRename
  <2>7. Total(f, U) = Total(g, U)
    BY <2>4, TotalSame
  <2> QED BY <2>6, <2>7 DEF V
<1>11. /\ TableTotal(C) = Total(f, 1..(m + n))
       /\ TableTotal(A) = Total(fa, 1..m)
       /\ TableTotal(B) = Total(fb, 1..n)
  BY <1>3, <1>4, Zenon DEF TableTotal, f, fa, fb
<1>12. TableTotal(C) = TableTotal(A) + TableTotal(B)
  BY <1>8, <1>9, <1>10, <1>11
<1>13. \A i \in DOMAIN C : \/ \E j \in DOMAIN A : C[i] = A[j]
                           \/ \E j \in DOMAIN B : C[i] = B[j]
  <2> TAKE i \in DOMAIN C
  <2>1. CASE i <= m
    <3>1. i \in 1..m
      BY <1>3, <1>4, <2>1
    <3> QED BY <1>2, <1>3, <3>1
  <2>2. CASE ~(i <= m)
    <3>1. i - m \in 1..n /\ m + (i - m) = i
      BY <1>3, <1>4, <2>2
    <3>2. C[m + (i - m)] = B[i - m]
      BY <1>2, <3>1
    <3> QED BY <1>3, <3>1, <3>2
  <2> QED BY <2>1, <2>2
<1> QED BY <1>1, <1>12, <1>13 DEF C

\* glitch_genesis gives out the supply but for the three deposits.
LEMMA GlitchTable ==
    ASSUME NEW authorities \in SUBSET Users, NEW endowed \in SUBSET Users,
           AuthorBalance * Cardinality(authorities) + 3 * ExistentialDeposit
             <= TotalSupply,
           CanEndow(authorities, endowed)
    PROVE  LET e == GlitchBalances(authorities, endowed)
           IN  /\ e \in Tables
               /\ \A i \in DOMAIN e : e[i][1] \in Users
               /\ TableTotal(e) + 3 * ExistentialDeposit =
                    IF endowed # {} THEN TotalSupply
                    ELSE TotalSupply - TotalEndowment(authorities)
<1> DEFINE each(S, x) == [i \in 1..Cardinality(S) |-> <<SetToSeq(S)[i], x>>]
           c == Cardinality(endowed)
           k == Cardinality(authorities)
           te == TotalEndowment(authorities)
           x == te \div c
           p == AuthorBalance * k
<1>1. GlitchBalances(authorities, endowed)
        = each(endowed, x) \o each(authorities, AuthorBalance)
  BY Zenon DEF GlitchBalances
<1>2. ExistentialDeposit \in Nat /\ TotalSupply \in Nat /\ AuthorBalance \in Nat
  BY GenesisAssumption
<1>3. IsFiniteSet(endowed) /\ IsFiniteSet(authorities)
  BY GenesisAssumption, FS_Subset
<1>4. c \in Nat /\ k \in Nat
  BY <1>3, FS_CardinalityType
<1>5. p \in Nat
  <2>1. \A i, j \in Nat : i * j \in Nat
    OBVIOUS
  <2> HIDE DEF k
  <2> QED BY <1>2, <1>4, <2>1
<1>6. te = TotalSupply - p - 3 * ExistentialDeposit
  BY DEF TotalEndowment
<1>7. p + 3 * ExistentialDeposit <= TotalSupply
  OBVIOUS
<1>8. k * AuthorBalance = p
  <2> HIDE DEF k
  <2> QED BY <1>2, <1>4
<1>9. CanEndow(authorities, endowed) => (endowed # {} => te % c = 0)
  BY DEF CanEndow
<1> HIDE DEF p, te
<1>10. te \in Nat /\ te + p + 3 * ExistentialDeposit = TotalSupply
  BY <1>2, <1>5, <1>6, <1>7
<1> DEFINE A == each(endowed, x)
           B == each(authorities, AuthorBalance)
<1>11. /\ B \in Tables /\ TableTotal(B) = p
       /\ \A i \in DOMAIN B : B[i][1] \in Users
  BY <1>2, <1>8, EqualTable
<1>12. /\ A \in Tables /\ \A i \in DOMAIN A : A[i][1] \in Users
       /\ TableTotal(A) = IF endowed # {} THEN te ELSE 0
  <2>1. CASE endowed # {}
    <3>1. c # 0
      BY <1>3, <2>1, FS_EmptySet
    <3> HIDE DEF c
    <3>2. c \in Nat \ {0}
      BY <1>4, <3>1
    <3>3. te % c = 0
      BY <1>9, <2>1
    <3>4. x \in Nat /\ c * x = te
      <4>1. te = c * (te \div c) + (te % c)
        BY <1>10, <3>2
      <4>2. te \div c \in Nat
        BY <1>10, <3>2, DivBelow
      <4> DEFINE y == c * (te \div c)
      <4>3. y \in Nat
        <5>1. \A i, j \in Nat : i * j \in Nat
          OBVIOUS
        <5> QED BY <1>4, <4>2, <5>1
      <4>4. te = y + 0
        BY <3>3, <4>1
      <4> HIDE DEF y
      <4>5. te = y
        BY <4>3, <4>4
      <4> QED BY <4>2, <4>5 DEF y
    <3> HIDE DEF x
    <3>5. /\ A \in Tables /\ \A i \in DOMAIN A : A[i][1] \in Users
          /\ TableTotal(A) = c * x
      BY <3>4, EqualTable DEF c
    <3> QED BY <2>1, <3>4, <3>5
  <2>2. CASE endowed = {}
    <3>1. Cardinality(endowed) = 0
      BY <2>2, FS_EmptySet
    <3>2. 1..Cardinality(endowed) = {}
      BY <3>1
    <3>3. A = each(endowed, 0)
      BY <3>2
    <3>4. /\ each(endowed, 0) \in Tables
          /\ \A i \in DOMAIN each(endowed, 0) : each(endowed, 0)[i][1] \in Users
          /\ TableTotal(each(endowed, 0)) = c * 0
      BY EqualTable
    <3>5. c * 0 = 0
      <4> HIDE DEF c
      <4> QED BY <1>4
    <3> DEFINE D == each(endowed, 0)
    <3>6. /\ D \in Tables /\ TableTotal(D) = 0 /\ A = D
          /\ \A i \in DOMAIN D : D[i][1] \in Users
      BY <3>3, <3>4, <3>5
    <3> HIDE DEF A, D
    <3> QED BY <2>2, <3>6
  <2> QED BY <2>1, <2>2
<1> HIDE DEF A, B, c, x, k
<1> DEFINE C == A \o B
<1>13. /\ C \in Tables
       /\ TableTotal(C) = TableTotal(A) + TableTotal(B)
       /\ \A i \in DOMAIN C : \/ \E j \in DOMAIN A : C[i] = A[j]
                              \/ \E j \in DOMAIN B : C[i] = B[j]
  BY <1>11, <1>12, TableConcat
<1> HIDE DEF C
<1>14. \A i \in DOMAIN C : C[i][1] \in Users
  BY <1>11, <1>12, <1>13
<1>15. TableTotal(C) + 3 * ExistentialDeposit =
         IF endowed # {} THEN TotalSupply ELSE TotalSupply - te
  <2>1. CASE endowed # {}
    <3>1. TableTotal(C) = te + p
      BY <1>11, <1>12, <1>13, <2>1
    <3> QED BY <1>2, <1>5, <1>10, <2>1, <3>1
  <2>2. CASE endowed = {}
    <3>1. TableTotal(C) = 0 + p
      BY <1>11, <1>12, <1>13, <2>2
    <3>2. TotalSupply - te = p + 3 * ExistentialDeposit
      BY <1>2, <1>5, <1>10
    <3> QED BY <1>5, <2>2, <3>1, <3>2
  <2> QED BY <2>1, <2>2
<1>16. GlitchBalances(authorities, endowed) = C
  BY <1>1 DEF C, A, B, c, x, k
<1> QED BY <1>13, <1>14, <1>15, <1>16 DEF te

\* Balances that follow a table without repetitions add up to it.
LEMMA TableIsTotal ==
    ASSUME NEW entries \in Tables, NEW f \in [Accounts -> Nat],
           \A i, j \in DOMAIN entries : entries[i][1] = entries[j][1] => i = j,
           \A i \in DOMAIN entries : f[entries[i][1]] = entries[i][2],
           \A a \in Accounts :
             (\A i \in DOMAIN entries : entries[i][1] # a) => f[a] = 0
    PROVE  Total(f, Accounts) = TableTotal(entries)
<1> DEFINE D == DOMAIN entries
           v == [i \in D |-> entries[i][2]]
           h == [i \in D |-> entries[i][1]]
           T == {entries[i][1] : i \in D}
           g == [a \in T |-> f[a]]
<1>1. /\ IsFiniteSet(D)
      /\ \A i \in D : entries[i][1] \in Accounts /\ entries[i][2] \in Nat
      /\ v \in [D -> Nat]
  BY TableEntries
<1>2. T \in SUBSET Accounts
  BY <1>1
<1>3. \A a \in Accounts \ T : f[a] = 0
  OBVIOUS
<1>4. h \in Bijection(D, T)
  <2>1. h \in [D -> T]
    OBVIOUS
  <2>2. \A i, j \in D : h[i] = h[j] => i = j
    OBVIOUS
  <2>3. \A a \in T : \E i \in D : h[i] = a
    OBVIOUS
  <2> HIDE DEF h, T, D
  <2> QED BY <2>1, <2>2, <2>3 DEF Bijection, Injection, Surjection, IsInjective
<1>5. g \in [T -> Nat]
  BY <1>2
<1>6. \A a \in T : f[a] = g[a]
  OBVIOUS
<1>7. \A i \in D : g[h[i]] = v[i]
  OBVIOUS
<1>8. TableTotal(entries) = Total(v, D)
  BY DEF TableTotal
<1> HIDE DEF D, v, h, T, g
<1>9. Total(g, T) = Total(v, D)
  BY <1>1, <1>4, <1>5, <1>7, TotalRename
<1>10. Total(f, T) = Total(g, T)
  BY <1>6, TotalSame
<1>11. Total(f, Accounts) = Total(f, T)
  BY <1>2, <1>3, TotalIgnoresZero
<1> QED BY <1>8, <1>9, <1>10, <1>11

\* The balances that BuildBalances makes of empty ones.
LEMMA TableIsBuilt ==
    ASSUME NEW entries \in Tables, NEW f,
           \A i, j \in DOMAIN entries : entries[i][1] = entries[j][1] => i = j,
           f = [a \in Accounts |->
                  IF \E i \in DOMAIN entries : entries[i][1] = a
                  THEN entries[CHOOSE i \in DOMAIN entries :
                                 entries[i][1] = a][2]
                  ELSE 0]
    PROVE  /\ f \in [Accounts -> Nat]
           /\ \A i \in DOMAIN entries : f[entries[i][1]] = entries[i][2]
           /\ \A a \in Accounts :
                (\A i \in DOMAIN entries : entries[i][1] # a) => f[a] = 0
<1> DEFINE D == DOMAIN entries
<1>1. \A i \in D : entries[i][1] \in Accounts /\ entries[i][2] \in Nat
  BY TableEntries
<1>2. \A i \in D : f[entries[i][1]] = entries[i][2]
  <2> TAKE i \in D
  <2> DEFINE a == entries[i][1]
             j == CHOOSE l \in D : entries[l][1] = a
  <2>1. a \in Accounts
    BY <1>1
  <2>2. j \in D /\ entries[j][1] = a
    OBVIOUS
  <2>3. j = i
    BY <2>2
  <2>4. f[a] = entries[j][2]
    BY <2>1
  <2> QED BY <2>3, <2>4
<1>3. \A a \in Accounts : (\A i \in D : entries[i][1] # a) => f[a] = 0
  OBVIOUS
<1>4. f \in [Accounts -> Nat]
  <2>1. f = [a \in Accounts |-> f[a]]
    OBVIOUS
  <2>2. \A a \in Accounts : f[a] \in Nat
    BY <1>1, <1>2, <1>3
  <2> QED BY <2>1, <2>2
<1> QED BY <1>2, <1>3, <1>4

\* A table that leaves the pallets' deposits, or the mainnet's, which lists
\* two of them.
Promised(entries, total) ==
    /\ entries \in Tables
    /\ \/ /\ \A i \in DOMAIN entries : entries[i][1] \in Users
          /\ TableTotal(entries) + 3 * ExistentialDeposit = total
       \/ entries = InitialBalances /\ total = TotalSupply

\* While the pallets open their accounts: the supply lacks the deposits of
\* those that are not open yet.
Opening(f, total) ==
    /\ f \in [Accounts -> Nat]
    /\ f[Fund] \in {0, ExistentialDeposit}
    /\ f[Treasury] \in {0, ExistentialDeposit}
    /\ f[Wallet] = 0
    /\ Total(f, Accounts) + 3 * ExistentialDeposit
         = total + f[Fund] + f[Treasury]

\* The inductive invariant.
MoneyIInv ==
    /\ supply \in Nat /\ lost \in Nat
    /\ stage # "live" => lost = 0
    /\ stage \in {"Spec", "Balances"} => free = [a \in Accounts |-> 0]
    /\ stage = "Balances" => Promised(chain_spec.balances, supply)
    /\ stage \in {"Staking", "Treasury", "Fund", "RevenueFund"}
         => Opening(free, supply)
    /\ stage \in {"Fund", "RevenueFund"} => free[Treasury] = ExistentialDeposit
    /\ stage = "RevenueFund" => free[Fund] = ExistentialDeposit
    /\ stage = "live" => lost <= supply /\ free \in Purses(supply - lost)

LEMMA SpecIsPromised ==
    ASSUME MoneyIInv, NEW n \in Networks, lost' = lost,
           \/ GlitchGenesis(n.authorities, n.endowed)
           \/ GlitchGenesisMainnet(n.authorities, n.endowed)
    PROVE  MoneyIInv'
<1> DEFINE authorities == n.authorities
           endowed == n.endowed
<1>1. authorities \in SUBSET Users /\ endowed \in SUBSET Users
  BY GenesisAssumption
<1>2. AuthorBalance * Cardinality(authorities) + 3 * ExistentialDeposit
        <= TotalSupply
  BY GenesisAssumption
<1> HIDE DEF authorities, endowed
<1>3. stage = "Spec" /\ free' = free
  BY DEF GlitchGenesis, GlitchGenesisMainnet
<1>4. lost' = 0 /\ free' = [a \in Accounts |-> 0] /\ supply \in Nat
  BY <1>3 DEF MoneyIInv
<1>5. ASSUME stage' = "panic", supply' = supply
      PROVE  MoneyIInv'
  BY <1>4, <1>5 DEF MoneyIInv
<1>6. ASSUME stage' = "Balances", supply' \in Nat,
             Promised(chain_spec'.balances, supply')
      PROVE  MoneyIInv'
  BY <1>4, <1>6 DEF MoneyIInv
<1>7. CASE GlitchGenesis(authorities, endowed)
  <2>1. CASE ~CanEndow(authorities, endowed)
    <3>1. stage' = "panic" /\ supply' = supply
      BY <1>7, <2>1 DEF GlitchGenesis
    <3> QED BY <1>5, <3>1
  <2>2. CASE CanEndow(authorities, endowed)
    <3> DEFINE e == GlitchBalances(authorities, endowed)
    <3>1. /\ stage' = "Balances"
          /\ chain_spec' = [balances |-> e, authorities |-> authorities]
          /\ supply' = IF endowed # {} THEN TotalSupply
                       ELSE TotalSupply - TotalEndowment(authorities)
      BY <1>7, <2>2 DEF GlitchGenesis
    <3>2. /\ e \in Tables
          /\ \A i \in DOMAIN e : e[i][1] \in Users
          /\ TableTotal(e) + 3 * ExistentialDeposit =
               IF endowed # {} THEN TotalSupply
               ELSE TotalSupply - TotalEndowment(authorities)
      BY <1>1, <1>2, <2>2, GlitchTable
    <3> HIDE DEF e
    <3>3. TableTotal(e) + 3 * ExistentialDeposit = supply'
      BY <3>1, <3>2
    <3>4. Promised(e, supply')
      BY <3>2, <3>3 DEF Promised
    <3>5. supply' \in Nat
      <4>1. TableTotal(e) \in Nat
        <5> DEFINE v == [i \in DOMAIN e |-> e[i][2]]
                   D == DOMAIN e
        <5>1. IsFiniteSet(D) /\ v \in [D -> Nat] /\ D \in SUBSET D
          BY <3>2, TableEntries
        <5>2. TableTotal(e) = Total(v, D)
          BY DEF TableTotal
        <5> HIDE DEF v, D
        <5>3. Total(v, D) \in Nat
          BY <5>1, TotalType
        <5> QED BY <5>2, <5>3
      <4>2. ExistentialDeposit \in Nat
        BY AccountsFacts
      <4> QED BY <3>3, <4>1, <4>2
    <3>6. chain_spec'.balances = e
      BY <3>1
    <3> QED BY <1>6, <3>1, <3>4, <3>5, <3>6
  <2> QED BY <2>1, <2>2
<1>8. CASE GlitchGenesisMainnet(authorities, endowed)
  <2>1. /\ stage' = "Balances" /\ supply' = TotalSupply
        /\ chain_spec' = [balances |-> InitialBalances,
                          authorities |-> authorities]
    BY <1>8 DEF GlitchGenesisMainnet
  <2>2. chain_spec'.balances = InitialBalances
    BY <2>1
  <2>3. InitialBalances \in Tables /\ TotalSupply \in Nat
    BY GenesisAssumption DEF Tables
  <2>4. Promised(InitialBalances, TotalSupply)
    BY <2>3 DEF Promised
  <2> QED BY <1>6, <2>1, <2>2, <2>3, <2>4
<1> QED BY <1>7, <1>8 DEF authorities, endowed

LEMMA TableIsOpening ==
    ASSUME NEW entries, NEW total \in Nat, Promised(entries, total),
           NEW f \in [Accounts -> Nat],
           \A i \in DOMAIN entries : f[entries[i][1]] = entries[i][2],
           \A a \in Accounts :
             (\A i \in DOMAIN entries : entries[i][1] # a) => f[a] = 0,
           Total(f, Accounts) = TableTotal(entries)
    PROVE  Opening(f, total)
<1>1. /\ Fund \in Accounts /\ Treasury \in Accounts /\ Wallet \in Accounts
      /\ Fund \notin Users /\ Treasury \notin Users /\ Wallet \notin Users
      /\ ExistentialDeposit \in Nat
  BY AccountsFacts
<1>2. CASE /\ \A i \in DOMAIN entries : entries[i][1] \in Users
           /\ TableTotal(entries) + 3 * ExistentialDeposit = total
  <2>1. f[Fund] = 0 /\ f[Treasury] = 0 /\ f[Wallet] = 0
    BY <1>1, <1>2
  <2>2. Total(f, Accounts) + 3 * ExistentialDeposit = total + 0 + 0
    BY <1>2
  <2> QED BY <2>1, <2>2 DEF Opening
<1>3. CASE entries = InitialBalances /\ total = TotalSupply
  <2>1. /\ \A a \in {Fund, Treasury} : \E i \in DOMAIN InitialBalances :
             InitialBalances[i] = <<a, ExistentialDeposit>>
        /\ \A i \in DOMAIN InitialBalances : InitialBalances[i][1] # Wallet
        /\ TableTotal(InitialBalances) = TotalSupply - ExistentialDeposit
    BY GenesisAssumption
  <2>2. ASSUME NEW a \in {Fund, Treasury}
        PROVE  f[a] = ExistentialDeposit
    <3>1. PICK i \in DOMAIN entries : entries[i] = <<a, ExistentialDeposit>>
      BY <1>3, <2>1
    <3>2. entries[i][1] = a /\ entries[i][2] = ExistentialDeposit
      BY <3>1
    <3> QED BY <3>2
  <2>3. f[Fund] = ExistentialDeposit /\ f[Treasury] = ExistentialDeposit
    BY <2>2
  <2>4. f[Wallet] = 0
    BY <1>1, <1>3, <2>1
  <2>5. Total(f, Accounts) = total - ExistentialDeposit
    BY <1>3, <2>1
  <2>6. Total(f, Accounts) + 3 * ExistentialDeposit
          = total + ExistentialDeposit + ExistentialDeposit
    BY <1>1, <2>5
  <2> QED BY <2>3, <2>4, <2>6 DEF Opening
<1> QED BY <1>2, <1>3 DEF Promised

LEMMA BalancesAreOpening ==
    ASSUME MoneyIInv, BuildBalances, lost' = lost
    PROVE  MoneyIInv'
<1> DEFINE entries == chain_spec.balances
<1>1. /\ stage = "Balances" /\ supply' = supply
      /\ \/ /\ \A i, j \in DOMAIN entries :
                 entries[i][1] = entries[j][1] => i = j
            /\ stage' = "Staking"
            /\ free' = [a \in Accounts |->
                          IF \E i \in DOMAIN entries : entries[i][1] = a
                          THEN entries[CHOOSE i \in DOMAIN entries :
                                         entries[i][1] = a][2]
                          ELSE free[a]]
         \/ stage' = "panic" /\ free' = free
  BY Zenon DEF BuildBalances
<1>2. /\ free = [a \in Accounts |-> 0] /\ lost = 0 /\ supply \in Nat
      /\ Promised(entries, supply)
  BY <1>1 DEF MoneyIInv
<1> HIDE DEF entries
<1>3. CASE stage' = "panic"
  BY <1>1, <1>2, <1>3 DEF MoneyIInv
<1>4. CASE stage' # "panic"
  <2>1. /\ \A i, j \in DOMAIN entries : entries[i][1] = entries[j][1] => i = j
        /\ stage' = "Staking"
        /\ free' = [a \in Accounts |->
                      IF \E i \in DOMAIN entries : entries[i][1] = a
                      THEN entries[CHOOSE i \in DOMAIN entries :
                                     entries[i][1] = a][2]
                      ELSE free[a]]
    BY <1>1, <1>4
  <2>2. \A a \in Accounts : free[a] = 0
    BY <1>2
  <2>3. free' = [a \in Accounts |->
                   IF \E i \in DOMAIN entries : entries[i][1] = a
                   THEN entries[CHOOSE i \in DOMAIN entries :
                                  entries[i][1] = a][2]
                   ELSE 0]
    BY <2>1, <2>2, Zenon
  <2>4. entries \in Tables
    BY <1>2 DEF Promised
  <2>5. /\ free' \in [Accounts -> Nat]
        /\ \A i \in DOMAIN entries : free'[entries[i][1]] = entries[i][2]
        /\ \A a \in Accounts :
             (\A i \in DOMAIN entries : entries[i][1] # a) => free'[a] = 0
    BY <2>1, <2>3, <2>4, TableIsBuilt
  <2>6. Total(free', Accounts) = TableTotal(entries)
    BY <2>1, <2>4, <2>5, TableIsTotal
  <2>7. Opening(free', supply)
    BY <1>2, <2>5, <2>6, TableIsOpening
  <2> QED BY <1>1, <1>2, <2>1, <2>7 DEF MoneyIInv
<1> QED BY <1>3, <1>4

\* An account gets its deposit.
LEMMA DepositIsAdded ==
    ASSUME NEW f \in [Accounts -> Nat], NEW a \in Accounts
    PROVE  LET g == [f EXCEPT ![a] = ExistentialDeposit]
           IN  /\ g \in [Accounts -> Nat] /\ g[a] = ExistentialDeposit
               /\ \A b \in Accounts \ {a} : g[b] = f[b]
               /\ Total(f, Accounts) \in Nat
               /\ Total(g, Accounts) = Total(f, Accounts) - f[a]
                                         + ExistentialDeposit
<1> DEFINE g == [f EXCEPT ![a] = ExistentialDeposit]
<1>1. IsFiniteSet(Accounts) /\ ExistentialDeposit \in Nat
  BY AccountsFacts
<1>2. /\ g \in [Accounts -> Nat] /\ g[a] = ExistentialDeposit
      /\ \A b \in Accounts \ {a} : f[b] = g[b]
  BY <1>1
<1>3. Total(f, Accounts) \in Nat
  <2>1. Accounts \in SUBSET Accounts
    OBVIOUS
  <2> QED BY <1>1, <2>1, TotalType
<1> HIDE DEF g
<1>4. Total(g, Accounts) = Total(f, Accounts) - f[a] + g[a]
  BY <1>1, <1>2, TotalUpdate
<1>5. Total(g, Accounts) = Total(f, Accounts) - f[a] + ExistentialDeposit
  BY <1>2, <1>4
<1> QED BY <1>2, <1>3, <1>5 DEF g

LEMMA TreasuryOpens ==
    ASSUME NEW f, NEW total \in Nat, Opening(f, total)
    PROVE  LET g == IF f[Treasury] < ExistentialDeposit
                    THEN [f EXCEPT ![Treasury] = ExistentialDeposit] ELSE f
           IN  Opening(g, total) /\ g[Treasury] = ExistentialDeposit
<1> DEFINE ed == ExistentialDeposit
<1>1. /\ f \in [Accounts -> Nat] /\ f[Fund] \in {0, ed}
      /\ f[Treasury] \in {0, ed} /\ f[Wallet] = 0
      /\ Total(f, Accounts) + 3 * ed = total + f[Fund] + f[Treasury]
  BY DEF Opening
<1>2. /\ Treasury \in Accounts /\ Fund \in Accounts /\ Wallet \in Accounts
      /\ Fund # Treasury /\ Wallet # Treasury
      /\ ed \in Nat /\ ed > 0
  BY AccountsFacts
<1>3. CASE f[Treasury] = ed
  <2>1. ~(f[Treasury] < ExistentialDeposit)
    BY <1>2, <1>3
  <2> QED BY <1>3, <2>1
<1>4. CASE f[Treasury] # ed
  <2> DEFINE g == [f EXCEPT ![Treasury] = ExistentialDeposit]
  <2>1. f[Treasury] = 0 /\ f[Treasury] < ExistentialDeposit
    BY <1>1, <1>2, <1>4
  <2>2. /\ g \in [Accounts -> Nat] /\ g[Treasury] = ExistentialDeposit
        /\ \A b \in Accounts \ {Treasury} : g[b] = f[b]
        /\ Total(f, Accounts) \in Nat
        /\ Total(g, Accounts) = Total(f, Accounts) - f[Treasury]
                                  + ExistentialDeposit
    BY <1>1, <1>2, DepositIsAdded
  <2> HIDE DEF g
  <2>3. g[Fund] = f[Fund] /\ g[Wallet] = f[Wallet]
    BY <1>2, <2>2
  <2>4. f[Fund] \in Nat
    BY <1>1, <1>2
  <2>5. Total(g, Accounts) + 3 * ed = total + g[Fund] + g[Treasury]
    <3> DEFINE x == Total(f, Accounts)
               y == Total(g, Accounts)
               z == f[Fund]
    <3>1. x \in Nat /\ y = x - 0 + ed /\ x + 3 * ed = total + z + 0 /\ z \in Nat
      BY <1>1, <2>1, <2>2, <2>4
    <3> HIDE DEF x, y, z, ed
    <3>2. y + 3 * ed = total + z + ed
      BY <1>2, <3>1
    <3> QED BY <2>2, <2>3, <3>2 DEF x, y, z, ed
  <2>6. Opening(g, total)
    BY <1>1, <2>2, <2>3, <2>5 DEF Opening
  <2> QED BY <2>1, <2>2, <2>6 DEF g
<1> QED BY <1>3, <1>4

LEMMA FundOpens ==
    ASSUME NEW f, NEW total \in Nat, Opening(f, total)
    PROVE  LET g == [f EXCEPT ![Fund] = ExistentialDeposit]
           IN  /\ Opening(g, total) /\ g[Fund] = ExistentialDeposit
               /\ g[Treasury] = f[Treasury]
<1> DEFINE ed == ExistentialDeposit
           g == [f EXCEPT ![Fund] = ExistentialDeposit]
<1>1. /\ f \in [Accounts -> Nat] /\ f[Fund] \in {0, ed}
      /\ f[Treasury] \in {0, ed} /\ f[Wallet] = 0
      /\ Total(f, Accounts) + 3 * ed = total + f[Fund] + f[Treasury]
  BY DEF Opening
<1>2. /\ Treasury \in Accounts /\ Fund \in Accounts /\ Wallet \in Accounts
      /\ Fund # Treasury /\ Wallet # Fund /\ ed \in Nat
  BY AccountsFacts
<1>3. /\ g \in [Accounts -> Nat] /\ g[Fund] = ExistentialDeposit
      /\ \A b \in Accounts \ {Fund} : g[b] = f[b]
      /\ Total(f, Accounts) \in Nat
      /\ Total(g, Accounts) = Total(f, Accounts) - f[Fund] + ExistentialDeposit
  BY <1>1, <1>2, DepositIsAdded
<1> HIDE DEF g
<1>4. g[Treasury] = f[Treasury] /\ g[Wallet] = f[Wallet]
  BY <1>2, <1>3
<1>5. f[Fund] \in Nat /\ f[Treasury] \in Nat
  BY <1>1, <1>2
<1>6. Total(g, Accounts) + 3 * ed = total + g[Fund] + g[Treasury]
  <2> DEFINE x == Total(f, Accounts)
             y == Total(g, Accounts)
             z == f[Fund]
             w == f[Treasury]
  <2>1. /\ x \in Nat /\ y = x - z + ed /\ x + 3 * ed = total + z + w
        /\ z \in Nat /\ w \in Nat
    BY <1>1, <1>3, <1>5
  <2> HIDE DEF x, y, z, w, ed
  <2>2. y + 3 * ed = total + ed + w
    BY <1>2, <2>1
  <2> QED BY <1>3, <1>4, <2>2 DEF x, y, z, w, ed
<1>7. Opening(g, total)
  BY <1>1, <1>3, <1>4, <1>6 DEF Opening
<1> QED BY <1>3, <1>4, <1>7 DEF g

LEMMA WalletOpens ==
    ASSUME NEW f, NEW total \in Nat, Opening(f, total),
           f[Fund] = ExistentialDeposit, f[Treasury] = ExistentialDeposit
    PROVE  [f EXCEPT ![Wallet] = ExistentialDeposit] \in Purses(total)
<1> DEFINE ed == ExistentialDeposit
           g == [f EXCEPT ![Wallet] = ExistentialDeposit]
<1>1. /\ f \in [Accounts -> Nat] /\ f[Wallet] = 0
      /\ Total(f, Accounts) + 3 * ed = total + f[Fund] + f[Treasury]
  BY DEF Opening
<1>2. /\ Treasury \in Accounts /\ Fund \in Accounts /\ Wallet \in Accounts
      /\ Wallet # Treasury /\ Wallet # Fund /\ ed \in Nat /\ ed > 0
  BY AccountsFacts
<1>3. /\ g \in [Accounts -> Nat]
      /\ \A b \in Accounts \ {Wallet} : g[b] = f[b]
      /\ Total(f, Accounts) \in Nat
      /\ Total(g, Accounts) = Total(f, Accounts) - f[Wallet] + ExistentialDeposit
  BY <1>1, <1>2, DepositIsAdded
<1> HIDE DEF g
<1>4. g[Treasury] = ed /\ g[Fund] = ed
  BY <1>2, <1>3
<1>5. Total(g, Accounts) = total
  <2> DEFINE x == Total(f, Accounts)
             y == Total(g, Accounts)
  <2>1. x \in Nat /\ y = x - 0 + ed /\ x + 3 * ed = total + ed + ed
    BY <1>1, <1>3
  <2> HIDE DEF x, y, ed
  <2>2. y = total
    BY <1>2, <2>1
  <2> QED BY <2>2 DEF y
<1>6. g[Treasury] >= ExistentialDeposit /\ g[Fund] > 0
  BY <1>2, <1>4
<1>7. g \in Purses(total)
  BY <1>3, <1>5, <1>6 DEF Purses
<1> QED BY <1>7 DEF g

LEMMA MoneyNext ==
    MoneyIInv /\ [FeesNext]_moneyVars => MoneyIInv'
<1> SUFFICES ASSUME MoneyIInv, [FeesNext]_moneyVars
             PROVE  MoneyIInv'
  OBVIOUS
<1>1. CASE UNCHANGED moneyVars
  BY <1>1 DEF MoneyIInv, moneyVars, genesisVars
<1>2. ASSUME NEW n \in Networks, lost' = lost,
             \/ GlitchGenesis(n.authorities, n.endowed)
             \/ GlitchGenesisMainnet(n.authorities, n.endowed)
      PROVE  MoneyIInv'
  BY <1>2, SpecIsPromised
<1>3. CASE BuildBalances /\ lost' = lost
  BY <1>3, BalancesAreOpening
<1>4. CASE BuildStaking /\ lost' = lost
  <2>1. /\ stage = "Staking" /\ stage' \in {"Treasury", "panic"}
        /\ free' = free /\ supply' = supply
    BY <1>4 DEF BuildStaking
  <2>2. Opening(free, supply) /\ lost = 0 /\ supply \in Nat
    BY <2>1 DEF MoneyIInv
  <2> QED BY <1>4, <2>1, <2>2 DEF MoneyIInv
<1>5. CASE BuildTreasury /\ lost' = lost
  <2>1. /\ stage = "Treasury" /\ stage' = "Fund" /\ supply' = supply
        /\ free' = IF free[Treasury] < ExistentialDeposit
                   THEN [free EXCEPT ![Treasury] = ExistentialDeposit] ELSE free
    BY <1>5 DEF BuildTreasury
  <2>2. Opening(free, supply) /\ lost = 0 /\ supply \in Nat
    BY <2>1 DEF MoneyIInv
  <2>3. Opening(free', supply) /\ free'[Treasury] = ExistentialDeposit
    BY <2>1, <2>2, TreasuryOpens, Zenon
  <2> QED BY <1>5, <2>1, <2>2, <2>3 DEF MoneyIInv
<1>6. CASE BuildFund /\ lost' = lost
  <2>1. /\ stage = "Fund" /\ stage' = "RevenueFund" /\ supply' = supply
        /\ free' = [free EXCEPT ![Fund] = ExistentialDeposit]
    BY <1>6 DEF BuildFund, MakeFreeBalance
  <2>2. /\ Opening(free, supply) /\ lost = 0 /\ supply \in Nat
        /\ free[Treasury] = ExistentialDeposit
    BY <2>1 DEF MoneyIInv
  <2>3. /\ Opening(free', supply) /\ free'[Fund] = ExistentialDeposit
        /\ free'[Treasury] = free[Treasury]
    BY <2>1, <2>2, FundOpens, Zenon
  <2> QED BY <1>6, <2>1, <2>2, <2>3 DEF MoneyIInv
<1>7. CASE BuildRevenueFund /\ lost' = lost
  <2>1. /\ stage = "RevenueFund" /\ stage' = "live" /\ supply' = supply
        /\ free' = [free EXCEPT ![Wallet] = ExistentialDeposit]
    BY <1>7 DEF BuildRevenueFund, MakeFreeBalance
  <2>2. /\ Opening(free, supply) /\ lost = 0 /\ supply \in Nat
        /\ free[Treasury] = ExistentialDeposit
        /\ free[Fund] = ExistentialDeposit
    BY <2>1 DEF MoneyIInv
  <2>3. free' \in Purses(supply)
    BY <2>1, <2>2, WalletOpens, Zenon
  <2>4. supply' - lost' = supply /\ lost' <= supply' /\ lost' = 0
    BY <1>7, <2>1, <2>2
  <2>5. free' \in Purses(supply' - lost')
    BY <2>3, <2>4
  <2> QED BY <2>1, <2>2, <2>4, <2>5 DEF MoneyIInv
<1>8. CASE live /\ MoneyMoves /\ UNCHANGED genesisVars
  <2>1. stage = "live" /\ stage' = "live" /\ supply' = supply
    BY <1>8 DEF live, genesisVars
  <2> DEFINE t == supply - lost
  <2>2. /\ lost <= supply /\ free \in Purses(t)
        /\ supply \in Nat /\ lost \in Nat
    BY <2>1 DEF MoneyIInv
  <2>3. PICK d \in Nat : d <= t /\ free' \in Purses(t - d) /\ lost' = lost + d
    <3> HIDE DEF t
    <3> QED BY <1>8, <2>2, MoneyMovesKeep
  <2>4. lost' \in Nat /\ lost' <= supply' /\ supply' - lost' = t - d
    BY <2>1, <2>2, <2>3
  <2> HIDE DEF t
  <2>5. free' \in Purses(supply' - lost')
    BY <2>3, <2>4
  <2> QED BY <2>1, <2>2, <2>4, <2>5 DEF MoneyIInv
<1> QED BY <1>1, <1>2, <1>3, <1>4, <1>5, <1>6, <1>7, <1>8
        DEF FeesNext, GenesisNext

\* Money is neither made nor lost, on any chain, whatever its accounts,
\* amounts, fees and networks: what the accounts hold and what was dropped by
\* design is the supply that glitch_genesis or glitch_genesis_mainnet set out
\* with, through the genesis of the pallets, FundBalance and DealWithFees,
\* dust, apply_slash with pay_reporters, trigger_wallet and the treasury.
THEOREM MoneyAlwaysKept == FeesSpec => []MoneyIsKept
<1>1. FeesInit => MoneyIInv
  BY DEF FeesInit, GenesisInit, MoneyIInv
<1>2. MoneyIInv /\ [FeesNext]_moneyVars => MoneyIInv'
  BY MoneyNext
<1>3. MoneyIInv => MoneyIsKept
  <2> SUFFICES ASSUME MoneyIInv, stage = "live"
               PROVE  Total(free, Accounts) + lost = supply
    BY DEF MoneyIsKept, live
  <2>1. /\ lost <= supply /\ free \in Purses(supply - lost)
        /\ supply \in Nat /\ lost \in Nat
    BY DEF MoneyIInv
  <2>2. Total(free, Accounts) = supply - lost
    BY <2>1, PursesType
  <2> QED BY <2>1, <2>2
<1> QED BY <1>1, <1>2, <1>3, PTL DEF FeesSpec
=============================================================================
