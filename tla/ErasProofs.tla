----------------------------- MODULE ErasProofs -----------------------------
(***************************************************************************)
(* Proofs about the era clock, for every SessionsPerEra, every bound       *)
(* MaxSession and every set of history depths that does not contain the    *)
(* largest u32 (for which trigger_new_era clears the era it plans); and    *)
(* about the fixed-point fractions of Perbill.                             *)
(***************************************************************************)
EXTENDS Eras, Perbill, TLAPS

\* The inductive invariant: EraPipeline needs that nothing is stored beyond
\* the planned era (HistoryWindow), and that no era is active before its
\* session.
ErasIInv ==
    /\ ErasTypeOK
    /\ active_era <= session_index
    /\ EraPipeline
    /\ HistoryWindow

\* The depths in question do not wrap when trigger_new_era adds one.
LEMMA DepthPlusOne ==
    ASSUME U32 - 1 \notin HistoryDepths
    PROVE  \A d \in HistoryDepths : (d + 1) % U32 = d + 1
<1> TAKE d \in HistoryDepths
<1>1. d \in Nat /\ d + 1 \in 1..(U32 - 1) /\ U32 \in Nat
  BY ErasAssumption
<1> QED BY <1>1

\* Genesis establishes the invariant.
LEMMA ErasInitInv == ErasInit => ErasIInv
<1> SUFFICES ASSUME ErasInit PROVE ErasIInv
  OBVIOUS
<1> USE ErasAssumption DEF Era
<1>1. current_era \in {0, 1} /\ force_era \in Forcing
  BY DEF ErasInit, Forcing
<1>2. eras_start_session_index =
        [e \in Era |-> IF e <= current_era THEN e ELSE None]
  BY DEF ErasInit
<1>3. ErasTypeOK
  <2>1. eras_start_session_index \in [Era -> Nat \cup {None}]
    BY <1>2
  <2>2. active_start \in BOOLEAN /\ in_block \in BOOLEAN
    BY DEF ErasInit
  <2> QED BY <1>1, <2>1, <2>2 DEF ErasInit, ErasTypeOK
<1>4. EraPipeline
  BY <1>1, <1>2 DEF ErasInit, EraPipeline
<1>5. HistoryWindow
  <2> SUFFICES ASSUME NEW e \in Era, eras_start_session_index[e] # None
               PROVE  e <= current_era
                      /\ e >= SaturatingSub(current_era, history_depth)
    BY DEF HistoryWindow
  <2>1. e <= current_era
    BY <1>2
  <2>2. history_depth \in Nat /\ history_depth >= 1
    BY DEF ErasInit
  <2>3. SaturatingSub(current_era, history_depth) = 0
    BY <1>1, <2>2 DEF SaturatingSub
  <2> QED BY <2>1, <2>3
<1>6. active_era <= session_index
  BY DEF ErasInit
<1> QED BY <1>3, <1>4, <1>5, <1>6 DEF ErasIInv

\* A rotation preserves the invariant: when an era is planned, the era planned
\* before has just become active.
LEMMA RotateInv ==
    ASSUME U32 - 1 \notin HistoryDepths, ErasIInv, NEW elected \in BOOLEAN,
           in_block' \in BOOLEAN, RotateSession(elected)
    PROVE  ErasIInv'
<1> USE ErasAssumption DEF Era
<1>1. /\ session_index \in Nat /\ session_index < MaxSession
      /\ session_index' = session_index + 1
      /\ active_era \in Nat /\ active_era <= session_index
      /\ current_era \in Nat /\ current_era <= active_era + 1
      /\ eras_start_session_index \in [Era -> Nat \cup {None}]
      /\ history_depth \in Nat /\ history_depth < U32 - 1
      /\ history_depth' = history_depth
      /\ MaxSession \in Nat
  BY DEF ErasIInv, ErasTypeOK, EraPipeline, RotateSession
<1>2. StartsEra <=> current_era = active_era + 1
  BY <1>1 DEF StartsEra, ErasIInv, EraPipeline, HistoryWindow
<1>3. active_era' = current_era
  BY <1>1, <1>2 DEF RotateSession, ErasIInv, EraPipeline
<1>4. /\ eras_start_session_index[current_era] \in Nat
      /\ eras_start_session_index[current_era] <= session_index'
      /\ current_era <= session_index'
  BY <1>1 DEF ErasIInv, EraPipeline
<1>5. active_start' \in BOOLEAN
  BY DEF RotateSession
<1>6. CASE PlansEra(elected)
  <2>1. /\ current_era' = current_era + 1
        /\ eras_start_session_index' =
             ClearStart([eras_start_session_index EXCEPT
                           ![current_era + 1] = session_index + 2],
                        ErasClearedByPlanning(current_era + 1))
        /\ force_era' \in Forcing
    BY <1>6 DEF RotateSession, ClearedEras, ErasIInv, ErasTypeOK, Forcing
  <2>2. \A e \in Era : e \in ErasClearedByPlanning(current_era + 1)
                         <=> e + history_depth = current_era
    <3>1. history_depth \in HistoryDepths
      BY DEF ErasIInv, ErasTypeOK
    <3>2. (history_depth + 1) % U32 = history_depth + 1
      BY <3>1, DepthPlusOne
    <3> QED BY <1>1, <3>2 DEF ErasClearedByPlanning, WrappingAdd
  <2>3. current_era + 1 \in Era
    BY <1>1, <1>4
  <2>4. eras_start_session_index'[current_era + 1] = session_index + 2
    BY <1>1, <2>1, <2>2, <2>3 DEF ClearStart
  <2>5. [eras_start_session_index EXCEPT
           ![current_era + 1] = session_index + 2] \in [Era -> Nat \cup {None}]
    BY <1>1
  <2>6. eras_start_session_index' \in [Era -> Nat \cup {None}]
    BY <2>1, <2>5 DEF ClearStart
  <2>7. EraPipeline'
    BY <1>1, <1>3, <2>1, <2>4 DEF EraPipeline
  <2>8. HistoryWindow'
    <3> SUFFICES ASSUME NEW e \in Era, eras_start_session_index'[e] # None
                 PROVE  /\ e <= current_era'
                        /\ e >= SaturatingSub(current_era', history_depth')
      BY DEF HistoryWindow
    <3>1. CASE e = current_era + 1
      BY <3>1, <1>1, <2>1 DEF SaturatingSub
    <3>2. CASE e # current_era + 1
      <4>1. /\ eras_start_session_index[e] # None
            /\ e \notin ErasClearedByPlanning(current_era + 1)
        BY <3>2, <2>1, <1>1 DEF ClearStart
      <4>2. /\ e <= current_era
            /\ e >= SaturatingSub(current_era, history_depth)
        BY <4>1 DEF ErasIInv, HistoryWindow
      <4> QED BY <4>1, <4>2, <2>1, <2>2, <1>1 DEF SaturatingSub
    <3> QED BY <3>1, <3>2
  <2>9. ErasTypeOK'
    <3>1. history_depth' \in HistoryDepths
      BY <1>1 DEF ErasIInv, ErasTypeOK
    <3>2. session_index' \in 0..MaxSession /\ active_era' \in 0..MaxSession
      BY <1>1, <1>3, <1>4
    <3> QED BY <1>5, <2>1, <2>3, <2>6, <3>1, <3>2 DEF ErasTypeOK
  <2> QED BY <1>1, <1>3, <1>4, <2>7, <2>8, <2>9 DEF ErasIInv
<1>7. CASE ~PlansEra(elected)
  <2>1. UNCHANGED <<current_era, eras_start_session_index, force_era>>
    BY <1>7 DEF RotateSession
  <2>2. EraPipeline'
    BY <1>1, <1>3, <1>4, <2>1 DEF EraPipeline
  <2>3. HistoryWindow'
    BY <1>1, <2>1 DEF ErasIInv, HistoryWindow
  <2>4. ErasTypeOK'
    BY <1>1, <1>3, <1>4, <1>5, <2>1 DEF ErasTypeOK, ErasIInv
  <2> QED BY <1>1, <1>3, <1>4, <2>1, <2>2, <2>3, <2>4 DEF ErasIInv
<1> QED BY <1>6, <1>7

\* A change of the depth keeps the planned era and clears what falls out.
LEMMA SetHistoryDepthInv ==
    ASSUME ErasIInv, NEW d \in HistoryDepths, SetHistoryDepth(d)
    PROVE  ErasIInv'
<1> USE ErasAssumption DEF Era
<1>1. /\ session_index' = session_index /\ active_era' = active_era
      /\ current_era' = current_era /\ active_start' = active_start
      /\ force_era' = force_era /\ in_block' = in_block
      /\ history_depth' = d /\ d \in Nat /\ history_depth \in Nat
      /\ current_era \in Era /\ current_era \in Nat
      /\ eras_start_session_index \in [Era -> Nat \cup {None}]
  BY DEF SetHistoryDepth, ErasIInv, ErasTypeOK
<1>2. eras_start_session_index' =
        [e \in Era |-> IF e \in ErasClearedByDepth(d) THEN None
                       ELSE eras_start_session_index[e]]
  BY DEF SetHistoryDepth, ClearStart
<1>3. current_era \notin ErasClearedByDepth(d)
  BY <1>1 DEF ErasClearedByDepth, SaturatingSub
<1>4. eras_start_session_index'[current_era]
        = eras_start_session_index[current_era]
  BY <1>1, <1>2, <1>3
<1>5. EraPipeline'
  BY <1>1, <1>4 DEF ErasIInv, EraPipeline
<1>6. HistoryWindow'
  <2> SUFFICES ASSUME NEW e \in Era, eras_start_session_index'[e] # None
               PROVE  /\ e <= current_era
                      /\ e >= SaturatingSub(current_era, d)
    BY <1>1 DEF HistoryWindow
  <2>1. /\ e \notin ErasClearedByDepth(d)
        /\ eras_start_session_index[e] # None
    BY <1>2
  <2>2. /\ e <= current_era
        /\ e >= SaturatingSub(current_era, history_depth)
    BY <2>1 DEF ErasIInv, HistoryWindow
  <2> QED BY <2>1, <2>2, <1>1 DEF ErasClearedByDepth, SaturatingSub
<1>7. ErasTypeOK'
  <2>1. eras_start_session_index' \in [Era -> Nat \cup {None}]
    BY <1>1, <1>2
  <2> QED BY <1>1, <2>1 DEF ErasIInv, ErasTypeOK
<1> QED BY <1>1, <1>5, <1>6, <1>7 DEF ErasIInv

\* Every step preserves the invariant.
LEMMA ErasNextInv ==
    ASSUME U32 - 1 \notin HistoryDepths, ErasIInv, [ErasNext]_eraVars
    PROVE  ErasIInv'
<1>1. CASE BeginBlock
  BY <1>1 DEF BeginBlock, ErasIInv, ErasTypeOK, EraPipeline, HistoryWindow
<1>2. ASSUME NEW elected \in BOOLEAN, BeginBlockRotating(elected)
      PROVE  ErasIInv'
  <2>1. RotateSession(elected) /\ in_block' \in BOOLEAN
    BY <1>2 DEF BeginBlockRotating
  <2> QED BY <2>1, RotateInv
<1>3. CASE OnFinalize
  BY <1>3 DEF OnFinalize, ErasIInv, ErasTypeOK, EraPipeline, HistoryWindow
<1>4. ASSUME NEW d \in HistoryDepths, SetHistoryDepth(d)
      PROVE  ErasIInv'
  BY <1>4, SetHistoryDepthInv
<1>5. CASE ForceNoEras \/ ForceNewEra \/ ForceNewEraAlways \/ EnsureNewEra
  BY <1>5 DEF ForceNoEras, ForceNewEra, ForceNewEraAlways, EnsureNewEra,
              PutForcing, Forcing, ErasIInv, ErasTypeOK, EraPipeline,
              HistoryWindow
<1>6. CASE UNCHANGED eraVars
  BY <1>6 DEF eraVars, ErasIInv, ErasTypeOK, EraPipeline, HistoryWindow
<1> QED BY <1>1, <1>2, <1>3, <1>4, <1>5, <1>6 DEF ErasNext

\* The inductive invariant of the era clock holds.
THEOREM ErasInvariant ==
    ASSUME U32 - 1 \notin HistoryDepths
    PROVE  ErasSpec => []ErasIInv
<1>1. ErasIInv /\ [ErasNext]_eraVars => ErasIInv'
  BY ErasNextInv
<1> QED BY <1>1, ErasInitInv, PTL DEF ErasSpec

\* Planned and active era stay in step (impls.rs, new_session to end_era): the
\* "session appears to have been skipped" arm is dead.
THEOREM ErasPipelined ==
    ASSUME U32 - 1 \notin HistoryDepths
    PROVE  ErasSpec => []EraPipeline
<1>1. ErasIInv => EraPipeline
  BY DEF ErasIInv
<1> QED BY <1>1, ErasInvariant, PTL

\* Era information is only ever stored for eras of the history window
\* (trigger_new_era, clear_era_information, set_history_depth).
THEOREM ErasWindowed ==
    ASSUME U32 - 1 \notin HistoryDepths
    PROVE  ErasSpec => []HistoryWindow
<1>1. ErasIInv => HistoryWindow
  BY DEF ErasIInv
<1> QED BY <1>1, ErasInvariant, PTL

\* Between two blocks the active era has its start time: on_finalize of the
\* block that started it has run.
StartedBetweenBlocks ==
    /\ in_block \in BOOLEAN
    /\ active_start \in BOOLEAN
    /\ ~in_block => active_start

\* end_era always finds a start time and so always records the era's reward.
THEOREM EndedErasHaveStart == ErasSpec => EndedEraHasStart
<1> USE DEF StartedBetweenBlocks
<1>1. ErasInit => StartedBetweenBlocks
  BY DEF ErasInit
<1>2. StartedBetweenBlocks /\ [ErasNext]_eraVars =>
        /\ StartedBetweenBlocks'
        /\ [active_era' # active_era => active_start]_eraVars
  BY DEF ErasNext, eraVars, BeginBlock, BeginBlockRotating, RotateSession,
         OnFinalize, SetHistoryDepth, ForceNoEras, ForceNewEra,
         ForceNewEraAlways, EnsureNewEra, PutForcing
<1> QED BY <1>1, <1>2, PTL DEF ErasSpec, EndedEraHasStart

\* The prediction counts down with the sessions (next_election_prediction and
\* new_session compute the same progress): the planned era's first session is
\* at most one ahead, so that neither subtraction saturates.
THEOREM PredictionsAreExact ==
    ASSUME U32 - 1 \notin HistoryDepths
    PROVE  ErasSpec => PredictionIsExact
<1> DEFINE Exact ==
      session_index' # session_index =>
         /\ SessionsLeft = 0 <=>
              EraIsDue(session_index + 2, force_era,
                       eras_start_session_index[current_era])
         /\ /\ SessionsLeft \notin {0, U32}
            /\ force_era' = force_era
            => SessionsLeft' = SessionsLeft - 1
<1>1. ErasIInv /\ [ErasNext]_eraVars => [Exact]_eraVars
  <2> SUFFICES ASSUME ErasIInv, ErasNext, session_index' # session_index
               PROVE  Exact
    BY DEF Exact
  <2>1. PICK elected \in BOOLEAN : BeginBlockRotating(elected)
    BY DEF ErasNext, BeginBlock, OnFinalize, SetHistoryDepth, ForceNoEras,
           ForceNewEra, ForceNewEraAlways, EnsureNewEra, PutForcing
  <2> DEFINE start == eras_start_session_index[current_era]
  <2>2. /\ session_index \in Nat /\ session_index' = session_index + 1
        /\ start \in Nat /\ start <= session_index + 1
        /\ start # None
    BY <2>1, ErasAssumption
       DEF ErasIInv, ErasTypeOK, EraPipeline, BeginBlockRotating,
           RotateSession, Era
  <2>3. /\ SessionsPerEra \in Nat /\ U32 \in Nat /\ U32 > 0
        /\ force_era \in Forcing
    BY ErasAssumption DEF ErasIInv, ErasTypeOK
  <2> DEFINE left == SessionsLeft
             due == EraIsDue(session_index + 2, force_era, start)
             counted == (SessionsPerEra - (session_index + 1 - start)) - 1
  <2>4. /\ force_era = "ForceNone" => left = U32
        /\ force_era \in {"ForceNew", "ForceAlways"} => left = 0
        /\ force_era = "NotForcing" =>
             left = IF counted >= 0 THEN counted ELSE 0
    BY <2>2, <2>3 DEF SessionsLeft, SaturatingSub
  <2>5. /\ force_era = "ForceNone" => ~due
        /\ force_era \in {"ForceNew", "ForceAlways"} => due
        /\ force_era = "NotForcing" => (due <=> counted <= 0)
    BY <2>2, <2>3 DEF EraIsDue, SaturatingSub
  <2>6. left = 0 <=> due
    <3> HIDE DEF left, due, start
    <3> QED BY <2>2, <2>3, <2>4, <2>5 DEF Forcing
  <2>7. ASSUME left \notin {0, U32}, force_era' = force_era
        PROVE  SessionsLeft' = left - 1
    <3>1. force_era = "NotForcing"
      <4> HIDE DEF left
      <4> QED BY <2>7, <2>3, <2>4 DEF Forcing
    <3>2. ~PlansEra(elected)
      BY <2>6, <2>7 DEF PlansEra
    <3>3. UNCHANGED <<current_era, eras_start_session_index>>
      BY <2>1, <3>2 DEF BeginBlockRotating, RotateSession
    <3>4. start' = start
      BY <3>3
    <3>5. SessionsLeft' = SaturatingSub(SaturatingSub(SessionsPerEra,
                            SaturatingSub(session_index' + 1, start)), 1)
      BY <3>1, <3>4, <2>2, <2>7 DEF SessionsLeft
    <3>6. left = counted /\ counted > 0
      <4>1. left = IF counted >= 0 THEN counted ELSE 0
        BY <3>1, <2>4
      <4> HIDE DEF left
      <4> QED BY <4>1, <2>2, <2>3, <2>7
    <3> QED BY <3>5, <3>6, <2>2, <2>3 DEF SaturatingSub
  <2> QED BY <2>6, <2>7
<1> QED BY <1>1, ErasInvariant, PTL DEF ErasSpec, PredictionIsExact
-----------------------------------------------------------------------------
(***************************************************************************)
(* The range of the fixed-point operations, for every accuracy: rewards,   *)
(* ledgers and slashes all compute with them.                              *)
(***************************************************************************)

\* Division by a positive number brackets the dividend.
LEMMA DivBrackets ==
    ASSUME NEW n \in Nat, NEW d \in Nat \ {0}
    PROVE  /\ n \div d \in Nat
           /\ n % d \in 0..(d - 1)
           /\ n % d = n - d * (n \div d)
<1>1. n \div d \in Nat
  OBVIOUS
<1>2. n % d \in 0..(d - 1)
  OBVIOUS
<1>3. n % d = n - d * (n \div d)
  OBVIOUS
<1> QED BY <1>1, <1>2, <1>3

\* A factor of a bounded product is bounded.
LEMMA CancelFactor ==
    ASSUME NEW d \in Nat \ {0}, NEW a \in Nat, NEW b \in Nat, d * a <= d * b
    PROVE  a <= b
<1>1. SUFFICES ASSUME a >= b + 1 PROVE FALSE
  OBVIOUS
<1>2. d * a >= d * (b + 1)
  BY <1>1
<1>3. d * (b + 1) = d * b + d
  OBVIOUS
<1> QED BY <1>2, <1>3

\* from_rational returns a fraction of one.
LEMMA FromRationalType ==
    ASSUME NEW p \in Nat, NEW q \in Nat
    PROVE  FromRational(p, q) \in Parts
<1> USE PerbillAssumption
<1>1. CASE q = 0 \/ p >= q
  BY <1>1 DEF FromRational, Parts
<1>2. CASE q # 0 /\ p < q
  <2> DEFINE n == p * Accuracy
  <2>1. n \in Nat /\ n <= q * Accuracy
    BY <1>2
  <2>2. n \div q \in Nat /\ n % q = n - q * (n \div q) /\ n % q >= 0
    <3>1. q \in Nat \ {0} /\ n \in Nat
      BY <1>2, <2>1
    <3> HIDE DEF n
    <3>2. n \div q \in Nat
      BY <3>1, DivBrackets
    <3>3. n % q = n - q * (n \div q)
      BY ONLY <3>1, DivBrackets
    <3>4. n % q >= 0
      BY <3>1
    <3> QED BY <3>2, <3>3, <3>4
  <2>3. q * (n \div q) <= q * Accuracy
    <3> DEFINE m == q * (n \div q)
               k == q * Accuracy
               r == n % q
    <3>1. m \in Nat /\ k \in Nat
      <4> HIDE DEF n
      <4> QED BY <1>2, <2>1, <2>2
    <3>2. n \in Nat /\ n <= k /\ r = n - m /\ r >= 0
      <4> HIDE DEF n
      <4> QED BY <2>1, <2>2
    <3>3. m <= k
      <4> HIDE DEF n, m, k, r
      <4> QED BY <3>1, <3>2
    <3> QED BY <3>3
  <2>4. n \div q <= Accuracy
    <3> HIDE DEF n
    <3> QED BY <1>2, <2>2, <2>3, CancelFactor
  <2>5. n \div q \in Parts
    <3> HIDE DEF n
    <3> QED BY <2>2, <2>4 DEF Parts
  <2> QED BY <1>2, <2>5 DEF FromRational
<1> QED BY <1>1, <1>2

\* A fraction of an amount, rounded to the nearest unit, never exceeds the
\* amount: a single rounding cannot overpay.
LEMMA MulNearestBound ==
    ASSUME NEW part \in Parts, NEW x \in Nat
    PROVE  MulNearest(part, x) \in 0..x
<1> USE PerbillAssumption
<1> DEFINE y == part * x
           d == y \div Accuracy
           r == y % Accuracy
<1>1. y \in Nat /\ y <= Accuracy * x /\ Accuracy * x \in Nat
  BY DEF Parts
<1>2. d \in Nat /\ r \in 0..(Accuracy - 1) /\ r = y - Accuracy * d
  <2> HIDE DEF y
  <2> QED BY <1>1, DivBrackets
<1>3. Accuracy * d \in Nat
  <2> HIDE DEF d
  <2> QED BY <1>2
<1>4. d <= x
  <2>1. Accuracy * d <= Accuracy * x
    <3> HIDE DEF y, d, r
    <3> QED BY <1>1, <1>2, <1>3
  <2> HIDE DEF y, d, r
  <2> QED BY <2>1, <1>2, CancelFactor
<1>5. d = x => r = 0
  <2> HIDE DEF y, d, r
  <2> QED BY <1>1, <1>2, <1>3
<1>6. MulNearest(part, x) = d + (IF 2 * r > Accuracy THEN 1 ELSE 0)
  BY DEF MulNearest
<1> HIDE DEF y, d, r
<1> QED BY <1>2, <1>4, <1>5, <1>6

\* Rounding to the nearest unit keeps the order.
LEMMA NearestMonotone ==
    ASSUME NEW a \in Nat, NEW b \in Nat, a <= b
    PROVE  a \div Accuracy + (IF 2 * (a % Accuracy) > Accuracy THEN 1 ELSE 0)
             <= b \div Accuracy
                  + (IF 2 * (b % Accuracy) > Accuracy THEN 1 ELSE 0)
<1> USE PerbillAssumption
<1> DEFINE d == a \div Accuracy
           e == b \div Accuracy
           r == a % Accuracy
           t == b % Accuracy
<1>1. d \in Nat /\ r \in 0..(Accuracy - 1) /\ r = a - Accuracy * d
  BY DivBrackets
<1>2. e \in Nat /\ t \in 0..(Accuracy - 1) /\ t = b - Accuracy * e
  BY DivBrackets
<1> HIDE DEF d, e, r, t
<1>3. Accuracy * d \in Nat /\ Accuracy * e \in Nat
      /\ Accuracy * (e + 1) = Accuracy * e + Accuracy
  BY <1>1, <1>2
<1>4. d <= e
  <2> SUFFICES ASSUME e + 1 <= d PROVE FALSE
    BY <1>1, <1>2
  <2>1. Accuracy * (e + 1) <= Accuracy * d
    BY <1>1, <1>2
  <2> QED BY <2>1, <1>1, <1>2, <1>3
<1>5. d = e => r <= t
  BY <1>1, <1>2, <1>3
<1>6. d + (IF 2 * r > Accuracy THEN 1 ELSE 0)
        <= e + (IF 2 * t > Accuracy THEN 1 ELSE 0)
  BY <1>1, <1>2, <1>4, <1>5
<1> QED BY <1>6 DEF d, e, r, t

\* A larger amount has no smaller fraction, and a larger fraction of an amount
\* is no smaller, after rounding too.
LEMMA MulNearestMonotone ==
    ASSUME NEW part \in Parts, NEW bigger \in Parts, part <= bigger,
           NEW x \in Nat, NEW z \in Nat, x <= z
    PROVE  MulNearest(part, x) <= MulNearest(bigger, z)
<1>1. part * x \in Nat /\ bigger * z \in Nat
  BY PerbillAssumption DEF Parts
<1>2. part * x <= bigger * z
  <2>1. part * x <= part * z /\ part * z <= bigger * z
    BY PerbillAssumption DEF Parts
  <2>2. part * x \in Int /\ part * z \in Int /\ bigger * z \in Int
    BY PerbillAssumption DEF Parts
  <2> QED BY <2>1, <2>2
<1> DEFINE a == part * x
           b == bigger * z
<1>3. a \in Nat /\ b \in Nat /\ a <= b
  BY <1>1, <1>2
<1>4. /\ MulNearest(part, x) =
           a \div Accuracy + (IF 2 * (a % Accuracy) > Accuracy THEN 1 ELSE 0)
      /\ MulNearest(bigger, z) =
           b \div Accuracy + (IF 2 * (b % Accuracy) > Accuracy THEN 1 ELSE 0)
  BY DEF MulNearest
<1> HIDE DEF a, b
<1> QED BY <1>3, <1>4, NearestMonotone
=============================================================================
