------------------------ MODULE StakingLedgerProofs ------------------------
(***************************************************************************)
(* Theorems on deferred slashes, the arithmetic of ledgers and the locks   *)
(* (module StakingLedger), for every length of bonding and deferral, every *)
(* stake and every history.                                                *)
(***************************************************************************)
EXTENDS StakingLedger, ErasProofs, TotalsProofs

\* The inductive invariant: the slashes that wait are scheduled, and the
\* schedule never runs ahead of the active era.
SlashIInv ==
    /\ unapplied_slashes = [e \in Era |-> unapplied_slashes[e]]
    /\ earliest_unapplied_slash # None =>
         earliest_unapplied_slash \in 0..active_era
    /\ SlashIsScheduled

LedgerIInv == ErasIInv /\ SlashIInv

-----------------------------------------------------------------------------
\* Every step of a ledger is a step of the era clock, or leaves it alone.
LEMMA LedgerStepsClock == [LedgerNext]_ledgerVars => [ErasNext]_eraVars
<1> SUFFICES ASSUME [LedgerNext]_ledgerVars
             PROVE  [ErasNext]_eraVars
  OBVIOUS
<1>1. CASE Tick
  BY <1>1 DEF Tick, ErasNext
<1>2. ASSUME NEW elected \in BOOLEAN, NEW stake \in ExposedStakes,
             RotateBlock(elected, stake)
      PROVE  ErasNext
  BY <1>2 DEF RotateBlock, ErasNext
<1>3. ASSUME NEW v \in Amounts,
             Bond(v) \/ BondExtra(v) \/ Unbond(v) \/ Rebond(v)
               \/ RewardStaked(v) \/ Deposit(v) \/ Withdraw(v)
      PROVE  UNCHANGED eraVars
  BY <1>3 DEF Bond, BondExtra, Unbond, Rebond, RewardStaked, Deposit,
              Withdraw
<1>4. CASE WithdrawUnbonded \/ Validate \/ Nominate \/ Chill \/ ChillOther
             \/ ReapStash \/ ForceUnstake
  BY <1>4 DEF WithdrawUnbonded, Validate, Nominate, Chill, ChillOther,
              ReapStash, ForceUnstake
<1>5. ASSUME NEW e \in Era, NEW amount \in SlashAmounts,
             NEW chills \in BOOLEAN, NEW forces \in BOOLEAN,
             OnOffence(e, amount, chills, forces)
      PROVE  EnsureNewEra \/ UNCHANGED eraVars
  BY <1>5 DEF OnOffence
<1>6. ASSUME NEW e \in Era, NEW S, CancelDeferredSlash(e, S)
      PROVE  UNCHANGED eraVars
  BY <1>6 DEF CancelDeferredSlash
<1>7. CASE UNCHANGED ledgerVars
  BY <1>7 DEF ledgerVars
<1> QED BY <1>1, <1>2, <1>3, <1>4, <1>5, <1>6, <1>7 DEF LedgerNext, ErasNext

\* At genesis nothing is deferred.
LEMMA SlashInit == LedgerInit => SlashIInv
BY DEF LedgerInit, SlashIInv, SlashIsScheduled

\* A report is deferred to the active era, which the schedule has not passed.
LEMMA OnOffenceInv ==
    ASSUME LedgerIInv, NEW slash_era \in Era, NEW amount,
           NEW chills \in BOOLEAN, NEW forces \in BOOLEAN,
           OnOffence(slash_era, amount, chills, forces)
    PROVE  SlashIInv'
<1>1. /\ active_era \in Nat
      /\ active_era \in Era
      /\ Era \subseteq Nat
      /\ None \notin Nat
      /\ SlashDeferDuration \in Nat
  BY ErasAssumption, LedgerAssumption
     DEF LedgerIInv, ErasIInv, ErasTypeOK, Era
<1>2. active_era' = active_era
  BY DEF OnOffence, EnsureNewEra, PutForcing, eraVars
<1>3. earliest_unapplied_slash' =
        IF earliest_unapplied_slash = None THEN active_era
        ELSE earliest_unapplied_slash
  BY DEF OnOffence
<1>4. /\ unapplied_slashes' = [e \in Era |-> unapplied_slashes'[e]]
      /\ \A e \in Era : e # active_era =>
           unapplied_slashes'[e] = unapplied_slashes[e]
  <2>1. unapplied_slashes = [e \in Era |-> unapplied_slashes[e]]
    BY DEF LedgerIInv, SlashIInv
  <2>2. CASE unapplied_slashes' = unapplied_slashes
    BY <2>1, <2>2
  <2>3. CASE unapplied_slashes' = [unapplied_slashes EXCEPT ![active_era] =
                                     Append(@, amount)]
    BY <2>1, <2>3
  <2> QED BY <2>2, <2>3 DEF OnOffence
<1>5. SlashIInv
  BY DEF LedgerIInv
<1>6. SlashIsScheduled'
  <2> SUFFICES ASSUME NEW e \in Era, unapplied_slashes'[e] # <<>>
               PROVE  /\ earliest_unapplied_slash' # None
                      /\ earliest_unapplied_slash' <= e
                      /\ e <= active_era'
                      /\ active_era' <= e + SlashDeferDuration
    BY DEF SlashIsScheduled
  <2>1. CASE e = active_era
    BY <2>1, <1>1, <1>2, <1>3, <1>5 DEF SlashIInv
  <2>2. CASE e # active_era
    BY <2>2, <1>1, <1>2, <1>3, <1>4, <1>5 DEF SlashIInv, SlashIsScheduled
  <2> QED BY <2>1, <2>2
<1> QED BY <1>1, <1>2, <1>3, <1>4, <1>5, <1>6 DEF SlashIInv

\* start_era enacts what has waited long enough and moves the schedule on.
LEMMA RotateSlashInv ==
    ASSUME LedgerIInv, NEW elected \in BOOLEAN, NEW stake \in ExposedStakes,
           RotateBlock(elected, stake)
    PROVE  SlashIInv'
<1>1. /\ active_era \in Nat
      /\ Era \subseteq Nat
      /\ None \notin Nat
      /\ SlashDeferDuration \in Nat
  BY ErasAssumption, LedgerAssumption
     DEF LedgerIInv, ErasIInv, ErasTypeOK, Era
<1>2. SlashIInv
  BY DEF LedgerIInv
<1>3. CASE StartsEra
  <2> DEFINE keep == SaturatingSub(active_era + 1, SlashDeferDuration)
  <2>1. active_era' = active_era + 1
    BY <1>3 DEF RotateBlock, BeginBlockRotating, RotateSession
  <2>2. /\ keep \in 0..(active_era + 1)
        /\ active_era + 1 <= keep + SlashDeferDuration
    BY <1>1 DEF SaturatingSub
  <2>3. ApplyUnappliedSlashes(active_era + 1)
    BY <1>3 DEF RotateBlock
  <2>4. /\ unapplied_slashes' =
             [e \in Era |-> IF e \in ErasEnacted(active_era + 1) THEN <<>>
                            ELSE unapplied_slashes[e]]
        /\ earliest_unapplied_slash' =
             IF earliest_unapplied_slash = None THEN None
             ELSE IF earliest_unapplied_slash >= keep
             THEN earliest_unapplied_slash ELSE keep
    BY <2>3 DEF ApplyUnappliedSlashes
  <2>5. ErasEnacted(active_era + 1) =
          IF earliest_unapplied_slash = None THEN {}
          ELSE {e \in Era : earliest_unapplied_slash <= e /\ e < keep}
    BY DEF ErasEnacted
  <2> HIDE DEF keep
  <2>6. SlashIsScheduled'
    <3> SUFFICES ASSUME NEW e \in Era, unapplied_slashes'[e] # <<>>
                 PROVE  /\ earliest_unapplied_slash' # None
                        /\ earliest_unapplied_slash' <= e
                        /\ e <= active_era'
                        /\ active_era' <= e + SlashDeferDuration
      BY DEF SlashIsScheduled
    <3>1. /\ e \notin ErasEnacted(active_era + 1)
          /\ unapplied_slashes[e] # <<>>
      BY <2>4
    <3>2. /\ earliest_unapplied_slash # None
          /\ earliest_unapplied_slash <= e
          /\ earliest_unapplied_slash \in Nat
          /\ e <= active_era
      BY <1>1, <1>2, <3>1 DEF SlashIInv, SlashIsScheduled
    <3>3. e >= keep
      BY <1>1, <2>2, <2>5, <3>1, <3>2
    <3> QED BY <1>1, <2>1, <2>2, <2>4, <3>2, <3>3
  <2>7. /\ unapplied_slashes' = [e \in Era |-> unapplied_slashes'[e]]
        /\ earliest_unapplied_slash' # None =>
             earliest_unapplied_slash' \in 0..active_era'
    BY <1>1, <1>2, <2>1, <2>2, <2>4 DEF SlashIInv
  <2> QED BY <2>6, <2>7 DEF SlashIInv
<1>4. CASE ~StartsEra
  <2>1. /\ active_era' = active_era
        /\ UNCHANGED <<unapplied_slashes, earliest_unapplied_slash>>
    BY <1>4 DEF RotateBlock, BeginBlockRotating, RotateSession
  <2> QED BY <1>2, <2>1 DEF SlashIInv, SlashIsScheduled
<1> QED BY <1>3, <1>4

\* Cancelling leaves no era with a slash that had none.
LEMMA CancelInv ==
    ASSUME LedgerIInv, NEW era \in Era, NEW S, CancelDeferredSlash(era, S)
    PROVE  SlashIInv'
<1>1. SlashIInv
  BY DEF LedgerIInv
<1>2. /\ active_era' = active_era
      /\ earliest_unapplied_slash' = earliest_unapplied_slash
  BY DEF CancelDeferredSlash, eraVars
<1>3. unapplied_slashes[era] # <<>>
  <2>1. S # {} /\ S \subseteq DOMAIN unapplied_slashes[era]
    BY DEF CancelDeferredSlash
  <2> QED BY <2>1
<1>4. PICK kept : unapplied_slashes' =
                    [unapplied_slashes EXCEPT ![era] = kept]
  BY DEF CancelDeferredSlash
<1>5. /\ unapplied_slashes' = [e \in Era |-> unapplied_slashes'[e]]
      /\ \A e \in Era : e # era =>
           unapplied_slashes'[e] = unapplied_slashes[e]
  BY <1>1, <1>4 DEF SlashIInv
<1>6. SlashIsScheduled'
  BY <1>1, <1>2, <1>3, <1>5 DEF SlashIInv, SlashIsScheduled
<1> QED BY <1>1, <1>2, <1>5, <1>6 DEF SlashIInv

\* Every other step leaves the schedule and the active era alone.
LEMMA LedgerNextInv ==
    ASSUME U32 - 1 \notin HistoryDepths, LedgerIInv, [LedgerNext]_ledgerVars
    PROVE  LedgerIInv'
<1>1. ErasIInv'
  BY LedgerStepsClock, ErasNextInv DEF LedgerIInv
<1> DEFINE Still == UNCHANGED <<active_era, unapplied_slashes,
                                earliest_unapplied_slash>>
<1>2. ASSUME Still PROVE SlashIInv'
  BY <1>2 DEF LedgerIInv, SlashIInv, SlashIsScheduled
<1>3. ASSUME Tick PROVE SlashIInv'
  <2>1. Still
    BY <1>3 DEF Tick, BeginBlock, OnFinalize, slashVars
  <2> QED BY <1>2, <2>1
<1>4. ASSUME NEW v \in Amounts,
             Bond(v) \/ BondExtra(v) \/ Unbond(v) \/ Rebond(v)
               \/ RewardStaked(v) \/ Deposit(v) \/ Withdraw(v)
      PROVE  SlashIInv'
  <2>1. Still
    BY <1>4 DEF Bond, BondExtra, Unbond, Rebond, RewardStaked, Deposit,
                Withdraw, slashVars, eraVars
  <2> QED BY <1>2, <2>1
<1>5. ASSUME WithdrawUnbonded \/ Validate \/ Nominate \/ Chill \/ ChillOther
               \/ ReapStash \/ ForceUnstake
      PROVE  SlashIInv'
  <2>1. Still
    BY <1>5 DEF WithdrawUnbonded, Validate, Nominate, Chill, ChillOther,
                ReapStash, ForceUnstake, slashVars, eraVars
  <2> QED BY <1>2, <2>1
<1>6. ASSUME UNCHANGED ledgerVars PROVE SlashIInv'
  <2>1. Still
    BY <1>6 DEF ledgerVars, slashVars, eraVars
  <2> QED BY <1>2, <2>1
<1>7. SlashIInv'
  BY <1>3, <1>4, <1>5, <1>6, RotateSlashInv, OnOffenceInv, CancelInv
     DEF LedgerNext
<1> QED BY <1>1, <1>7 DEF LedgerIInv

-----------------------------------------------------------------------------
\* on_offence, cancel_deferred_slash and start_era keep the schedule of
\* deferred slashes: none is overlooked and none waits longer than
\* SlashDeferDuration eras.
THEOREM SlashesScheduled ==
    ASSUME U32 - 1 \notin HistoryDepths
    PROVE  LedgerSpec => []SlashIsScheduled
<1>1. LedgerInit => LedgerIInv
  BY SlashInit, ErasInitInv DEF LedgerInit, LedgerIInv
<1>2. LedgerIInv /\ [LedgerNext]_ledgerVars => LedgerIInv'
  BY LedgerNextInv
<1>3. LedgerIInv => SlashIsScheduled
  BY DEF LedgerIInv, SlashIInv
<1> QED BY <1>1, <1>2, <1>3, PTL DEF LedgerSpec

\* With a deferral at least two eras shorter than the bonding, withdraw_unbonded
\* never releases stake that a deferred slash still has a claim on.  (One era
\* shorter, as in the runtime, is not enough: see the run slash_bail.)
THEOREM NobodyBails ==
    ASSUME U32 - 1 \notin HistoryDepths,
           SlashDeferDuration + 1 < BondingDuration
    PROVE  LedgerSpec => []StakerCannotBail
<1>1. LedgerInit => LedgerIInv
  BY SlashInit, ErasInitInv DEF LedgerInit, LedgerIInv
<1>2. LedgerIInv /\ [LedgerNext]_ledgerVars => LedgerIInv'
  BY LedgerNextInv
<1>3. LedgerIInv => StakerCannotBail
  <2> SUFFICES ASSUME LedgerIInv, NEW e \in Era,
                      unapplied_slashes[e] # <<>>
               PROVE  (e + BondingDuration)..current_era = {}
    BY DEF StakerCannotBail
  <2>1. /\ e \in Nat /\ active_era \in Nat /\ current_era \in Nat
        /\ SlashDeferDuration \in Nat /\ BondingDuration \in Nat
    BY ErasAssumption, LedgerAssumption
       DEF LedgerIInv, ErasIInv, ErasTypeOK, Era
  <2>2. current_era <= active_era + 1
    BY <2>1 DEF LedgerIInv, ErasIInv, EraPipeline
  <2>3. active_era <= e + SlashDeferDuration
    BY DEF LedgerIInv, SlashIInv, SlashIsScheduled
  <2> QED BY <2>1, <2>2, <2>3
<1> QED BY <1>1, <1>2, <1>3, PTL DEF LedgerSpec

-----------------------------------------------------------------------------
(***************************************************************************)
(* Parts of a sequence.                                                    *)
(***************************************************************************)

\* Nth lists the members of a set of numbers, each once.
LEMMA NthListsAll ==
    ASSUME NEW S \in SUBSET Nat, IsFiniteSet(S)
    PROVE  /\ Cardinality(S) \in Nat
           /\ [k \in 1..Cardinality(S) |-> Nth(S, k)]
                \in Bijection(1..Cardinality(S), S)
<1> DEFINE n == Cardinality(S)
           upto(i) == {x \in S : x <= i}
           rank == [i \in S |-> Cardinality(upto(i))]
           h == [k \in 1..n |-> Nth(S, k)]
<1>1. n \in Nat
  BY FS_CardinalityType
<1>2. ASSUME NEW i \in S
      PROVE  /\ IsFiniteSet(upto(i)) /\ Cardinality(upto(i)) \in 1..n
  <2>1. upto(i) \in SUBSET S /\ i \in upto(i)
    OBVIOUS
  <2>2. IsFiniteSet(upto(i)) /\ Cardinality(upto(i)) <= n
    <3> HIDE DEF upto
    <3> QED BY <2>1, FS_Subset
  <2>3. Cardinality(upto(i)) \in Nat /\ Cardinality(upto(i)) # 0
    <3> HIDE DEF upto
    <3> QED BY <2>1, <2>2, FS_CardinalityType, FS_EmptySet
  <2> HIDE DEF upto, n
  <2> QED BY <1>1, <2>2, <2>3
<1>3. ASSUME NEW i \in S, NEW j \in S, i < j
      PROVE  Cardinality(upto(i)) # Cardinality(upto(j))
  <2>1. upto(i) \in SUBSET upto(j) /\ j \in upto(j) /\ j \notin upto(i)
    <3>1. \A x \in S : x <= i => x <= j
      BY <1>3
    <3>2. j <= j /\ ~(j <= i)
      BY <1>3
    <3> QED BY <3>1, <3>2, Zenon
  <2>2. upto(i) # upto(j)
    <3> HIDE DEF upto
    <3> QED BY <2>1
  <2> HIDE DEF upto
  <2> QED BY <1>2, <2>1, <2>2, FS_Subset
<1>4. rank \in Injection(S, 1..n)
  <2>1. rank \in [S -> 1..n]
    <3> HIDE DEF upto, n
    <3> QED BY <1>2
  <2>2. ASSUME NEW i \in S, NEW j \in S, rank[i] = rank[j]
        PROVE  i = j
    <3>1. Cardinality(upto(i)) = Cardinality(upto(j))
      <4> HIDE DEF upto
      <4> QED BY <2>2
    <3>2. i \in Nat /\ j \in Nat
      OBVIOUS
    <3> HIDE DEF upto
    <3> QED BY <1>3, <3>1, <3>2
  <2> HIDE DEF rank, n
  <2> QED BY <2>1, <2>2 DEF Injection, IsInjective
<1>5. rank \in Surjection(S, 1..n)
  <2>1. IsFiniteSet(1..n) /\ Cardinality(1..n) = n
    <3> HIDE DEF n
    <3> QED BY <1>1, FS_Interval
  <2> HIDE DEF rank
  <2> QED BY <1>4, <2>1, FS_Injection
<1>6. ASSUME NEW k \in 1..n
      PROVE  Nth(S, k) \in S /\ rank[Nth(S, k)] = k
  <2>1. PICK i \in S : rank[i] = k
    <3> HIDE DEF rank, n
    <3> QED BY <1>5 DEF Surjection
  <2>2. Cardinality({j \in S : j <= i}) = k
    BY <2>1
  <2>3. Nth(S, k) \in S /\ Cardinality({j \in S : j <= Nth(S, k)}) = k
    BY <2>2 DEF Nth
  <2> QED BY <2>3
<1>7. h \in Bijection(1..n, S)
  <2>1. h \in [1..n -> S]
    <3> HIDE DEF n
    <3> QED BY <1>6
  <2>2. \A a, b \in 1..n : h[a] = h[b] => a = b
    <3> HIDE DEF n, rank
    <3> QED BY <1>6
  <2>3. \A i \in S : \E k \in 1..n : h[k] = i
    <3> TAKE i \in S
    <3>1. rank[i] \in 1..n
      <4> HIDE DEF rank, n
      <4> QED BY <1>4 DEF Injection
    <3>2. Nth(S, rank[i]) \in S /\ rank[Nth(S, rank[i])] = rank[i]
      <4> HIDE DEF rank, n
      <4> QED BY <1>6, <3>1
    <3>3. Nth(S, rank[i]) = i
      <4> HIDE DEF rank, n
      <4> QED BY <1>4, <3>2 DEF Injection, IsInjective
    <3>4. h[rank[i]] = i
      <4> HIDE DEF rank, n
      <4> QED BY <3>1, <3>3
    <3> HIDE DEF h, rank, n
    <3> QED BY <3>1, <3>4
  <2> HIDE DEF h, n
  <2> QED BY <2>1, <2>2, <2>3
        DEF Bijection, Injection, Surjection, IsInjective
<1> QED BY <1>1, <1>7

\* A subsequence is one, and holds what its parts hold.
LEMMA SubsequenceType ==
    ASSUME NEW T, NEW s \in Seq(T), NEW S \in SUBSET DOMAIN s
    PROVE  /\ Subsequence(s, S) \in Seq(T)
           /\ DOMAIN Subsequence(s, S) = 1..Cardinality(S)
           /\ IsFiniteSet(S) /\ S \in SUBSET Nat /\ Cardinality(S) \in Nat
<1>1. DOMAIN s = 1..Len(s) /\ Len(s) \in Nat
  OBVIOUS
<1>2. IsFiniteSet(DOMAIN s)
  BY <1>1, FS_Interval
<1>3. IsFiniteSet(S) /\ S \in SUBSET Nat
  BY <1>1, <1>2, FS_Subset
<1> DEFINE n == Cardinality(S)
           h == [k \in 1..n |-> Nth(S, k)]
<1>4. n \in Nat /\ h \in Bijection(1..n, S)
  BY <1>3, NthListsAll
<1>5. \A k \in 1..n : Nth(S, k) \in S
  <2>1. h \in [1..n -> S]
    <3> HIDE DEF h, n
    <3> QED BY <1>4 DEF Bijection, Injection
  <2> HIDE DEF n
  <2> QED BY <2>1
<1>6. \A k \in 1..n : s[Nth(S, k)] \in T
  <2> HIDE DEF n
  <2> QED BY <1>5
<1>7. Subsequence(s, S) \in [1..n -> T]
  <2> HIDE DEF n
  <2> QED BY <1>6 DEF Subsequence, n
<1> HIDE DEF n
<1>8. Subsequence(s, S) \in Seq(T)
  BY <1>4, <1>7
<1> QED BY <1>3, <1>4, <1>7, <1>8 DEF n

LEMMA SubsequenceTotal ==
    ASSUME NEW s \in Seq(UnlockChunk), NEW S \in SUBSET DOMAIN s
    PROVE  Unlocking(Subsequence(s, S), DOMAIN Subsequence(s, S))
             = Unlocking(s, S)
<1> DEFINE n == Cardinality(S)
           q == Subsequence(s, S)
           h == [k \in 1..n |-> Nth(S, k)]
           f == [k \in 1..n |-> q[k].value]
           g == [i \in S |-> s[i].value]
<1>1. /\ q \in Seq(UnlockChunk) /\ DOMAIN q = 1..n
      /\ IsFiniteSet(S) /\ S \in SUBSET Nat /\ n \in Nat
  BY SubsequenceType
<1>2. h \in Bijection(1..n, S)
  BY <1>1, NthListsAll
<1>3. IsFiniteSet(1..n)
  <2> HIDE DEF n
  <2> QED BY <1>1, FS_Interval
<1>4. f \in [1..n -> Nat] /\ g \in [S -> Nat]
  <2>1. \A k \in 1..n : q[k].value \in Nat
    <3>1. \A k \in 1..n : q[k] \in UnlockChunk
      <4> HIDE DEF n, q
      <4> QED BY <1>1
    <3> HIDE DEF n, q
    <3> QED BY <3>1 DEF UnlockChunk
  <2>2. \A i \in S : s[i].value \in Nat
    <3>1. \A i \in S : s[i] \in UnlockChunk
      OBVIOUS
    <3> QED BY <3>1 DEF UnlockChunk
  <2> HIDE DEF q, n
  <2> QED BY <2>1, <2>2
<1>5. \A k \in 1..n : h[k] \in S
  <2> HIDE DEF h, n
  <2> QED BY <1>2 DEF Bijection, Injection
<1>6. \A k \in 1..n : q[k] = s[h[k]]
  <2> HIDE DEF n
  <2> QED BY DEF Subsequence, n
<1>7. \A k \in 1..n : g[h[k]] = f[k]
  <2> HIDE DEF h, n, q
  <2> QED BY <1>5, <1>6
<1>8. Total(g, S) = Total(f, 1..n)
  <2> DEFINE A == 1..n
  <2>1. /\ IsFiniteSet(A) /\ f \in [A -> Nat] /\ g \in [S -> Nat]
        /\ h \in Bijection(A, S) /\ \A k \in A : g[h[k]] = f[k]
    <3> HIDE DEF f, g, h, n
    <3> QED BY <1>2, <1>3, <1>4, <1>7
  <2>2. Total(g, S) = Total(f, A)
    <3> HIDE DEF f, g, h, n, A
    <3> QED BY <2>1, TotalRename
  <2> QED BY <2>2
<1>9. Unlocking(s, S) = Total(g, S)
  <2>1. \A i \in S : [j \in DOMAIN s |-> s[j].value][i] = g[i]
    OBVIOUS
  <2> HIDE DEF g
  <2> QED BY <2>1, TotalSame DEF Unlocking
<1>10. Unlocking(q, DOMAIN q) = Total(f, 1..n)
  <2>1. \A k \in 1..n : [j \in DOMAIN q |-> q[j].value][k] = f[k]
    <3> HIDE DEF n, q
    <3> QED BY <1>1
  <2> HIDE DEF f, n, q
  <2> QED BY <1>1, <2>1, TotalSame DEF Unlocking
<1> QED BY <1>8, <1>9, <1>10

-----------------------------------------------------------------------------
(***************************************************************************)
(* The arithmetic of a ledger.                                             *)
(***************************************************************************)

\* What LedgerAddsUp says of one ledger.
GoodLedger(l) ==
    /\ l \in LedgerRecord
    /\ l.total = l.active + Unlocking(l.unlocking, DOMAIN l.unlocking)

Values(chunks) == [i \in DOMAIN chunks |-> chunks[i].value]

LEMMA MinOfTwo ==
    ASSUME NEW a \in Nat, NEW b \in Nat
    PROVE  Min({a, b}) = IF a <= b THEN a ELSE b
<1> DEFINE least(x) == x \in {a, b} /\ \A y \in {a, b} : x <= y
<1>1. Min({a, b}) = CHOOSE x \in {a, b} : \A y \in {a, b} : x <= y
  BY DEF Min
<1>2. \E x \in {a, b} : \A y \in {a, b} : x <= y
  OBVIOUS
<1>3. Min({a, b}) \in {a, b} /\ \A y \in {a, b} : Min({a, b}) <= y
  BY <1>1, <1>2
<1> QED BY <1>3

LEMMA ChunksType ==
    ASSUME NEW chunks \in Seq(UnlockChunk)
    PROVE  /\ DOMAIN chunks = 1..Len(chunks) /\ Len(chunks) \in Nat
           /\ IsFiniteSet(DOMAIN chunks)
           /\ Values(chunks) \in [DOMAIN chunks -> Nat]
           /\ \A i \in DOMAIN chunks :
                /\ chunks[i] = [value |-> chunks[i].value, era |-> chunks[i].era]
                /\ chunks[i].value \in Nat /\ chunks[i].era \in Nat
           /\ \A S \in SUBSET DOMAIN chunks :
                /\ Unlocking(chunks, S) = Total(Values(chunks), S)
                /\ Unlocking(chunks, S) \in Nat
<1>1. DOMAIN chunks = 1..Len(chunks) /\ Len(chunks) \in Nat
  OBVIOUS
<1>2. IsFiniteSet(DOMAIN chunks)
  BY <1>1, FS_Interval
<1>3. \A i \in DOMAIN chunks : chunks[i] \in UnlockChunk
  OBVIOUS
<1>4. \A i \in DOMAIN chunks :
        /\ chunks[i] = [value |-> chunks[i].value, era |-> chunks[i].era]
        /\ chunks[i].value \in Nat /\ chunks[i].era \in Nat
  BY <1>3 DEF UnlockChunk
<1>5. Values(chunks) \in [DOMAIN chunks -> Nat]
  BY <1>4 DEF Values
<1>6. ASSUME NEW S \in SUBSET DOMAIN chunks
      PROVE  /\ Unlocking(chunks, S) = Total(Values(chunks), S)
             /\ Unlocking(chunks, S) \in Nat
  <2>1. Unlocking(chunks, S) = Total(Values(chunks), S)
    BY DEF Unlocking, Values
  <2>2. Total(Values(chunks), S) \in Nat
    BY <1>2, <1>5, TotalType
  <2> QED BY <2>1, <2>2
<1> QED BY <1>1, <1>2, <1>4, <1>5, <1>6

\* Dropping empty chunks changes nothing.
LEMMA NonZeroGood ==
    ASSUME NEW chunks \in Seq(UnlockChunk)
    PROVE  /\ NonZero(chunks) \in Seq(UnlockChunk)
           /\ Unlocking(NonZero(chunks), DOMAIN NonZero(chunks))
                = Unlocking(chunks, DOMAIN chunks)
<1> DEFINE S == {i \in DOMAIN chunks : chunks[i].value # 0}
           D == DOMAIN chunks
<1>1. S \in SUBSET D /\ NonZero(chunks) = Subsequence(chunks, S)
  BY DEF NonZero
<1>2. NonZero(chunks) \in Seq(UnlockChunk)
  <2> HIDE DEF S
  <2> QED BY <1>1, SubsequenceType
<1>3. Unlocking(NonZero(chunks), DOMAIN NonZero(chunks)) = Unlocking(chunks, S)
  <2> HIDE DEF S
  <2> QED BY <1>1, SubsequenceTotal
<1>4. \A i \in D \ S : Values(chunks)[i] = 0
  BY DEF Values
<1>5. Total(Values(chunks), D) = Total(Values(chunks), S)
  <2>1. Values(chunks) \in [D -> Nat]
    BY ChunksType
  <2> HIDE DEF S, D
  <2> QED BY <1>1, <1>4, <2>1, TotalIgnoresZero
<1>6. /\ Unlocking(chunks, S) = Total(Values(chunks), S)
      /\ Unlocking(chunks, D) = Total(Values(chunks), D)
  <2>1. D \in SUBSET D
    OBVIOUS
  <2> HIDE DEF S
  <2> QED BY <1>1, <2>1, ChunksType
<1> QED BY <1>2, <1>3, <1>5, <1>6

LEMMA ChunkUpdate ==
    ASSUME NEW c \in UnlockChunk, NEW x \in Nat
    PROVE  /\ [c EXCEPT !.value = x] = [value |-> x, era |-> c.era]
           /\ [value |-> x, era |-> c.era] \in UnlockChunk
BY DEF UnlockChunk

\* unbond moves stake from one part of the ledger to the other.
LEMMA AddChunkGood ==
    ASSUME NEW chunks \in Seq(UnlockChunk), NEW value \in Nat, NEW era \in Nat
    PROVE  LET q == AddChunk(chunks, value, era)
           IN  /\ q \in Seq(UnlockChunk)
               /\ Unlocking(q, DOMAIN q) = Unlocking(chunks, DOMAIN chunks) + value
<1> DEFINE q == AddChunk(chunks, value, era)
           n == Len(chunks)
<1> SUFFICES /\ q \in Seq(UnlockChunk)
             /\ Unlocking(q, DOMAIN q) = Unlocking(chunks, DOMAIN chunks) + value
  OBVIOUS
<1>1. /\ DOMAIN chunks = 1..n /\ n \in Nat /\ IsFiniteSet(1..n)
      /\ Values(chunks) \in [1..n -> Nat]
      /\ Unlocking(chunks, DOMAIN chunks) = Total(Values(chunks), 1..n)
      /\ Total(Values(chunks), 1..n) \in Nat
  <2>1. DOMAIN chunks \in SUBSET DOMAIN chunks
    OBVIOUS
  <2> QED BY <2>1, ChunksType
<1>2. CASE chunks # <<>> /\ Last(chunks).era = era
  <2> DEFINE v == chunks[n].value + value
  <2>1. n \in 1..n
    BY <1>1, <1>2
  <2>2. q = [chunks EXCEPT ![n].value = @ + value]
    BY <1>2 DEF AddChunk
  <2>3. chunks[n] \in UnlockChunk
    BY <2>1
  <2>4. [chunks[n] EXCEPT !.value = @ + value] = [value |-> v, era |-> chunks[n].era]
    <3>1. v \in Nat
      BY <2>3 DEF UnlockChunk
    <3> HIDE DEF n
    <3> QED BY <2>3, <3>1, ChunkUpdate
  <2>5. v \in Nat /\ [value |-> v, era |-> chunks[n].era] \in UnlockChunk
    BY <2>3 DEF UnlockChunk
  <2>6. q = [chunks EXCEPT ![n] = [value |-> v, era |-> chunks[n].era]]
    BY <2>2, <2>4
  <2>7. q \in Seq(UnlockChunk) /\ DOMAIN q = 1..n
    <3> HIDE DEF q, v
    <3> QED BY <1>1, <2>1, <2>5, <2>6
  <2>8. /\ q[n].value = v /\ \A i \in (1..n) \ {n} : q[i] = chunks[i]
    <3> HIDE DEF q, v
    <3> QED BY <1>1, <2>1, <2>6
  <2>9. /\ Values(q) \in [1..n -> Nat]
        /\ Unlocking(q, DOMAIN q) = Total(Values(q), 1..n)
    <3>1. DOMAIN q \in SUBSET DOMAIN q
      OBVIOUS
    <3> HIDE DEF q
    <3> QED BY <2>7, <3>1, ChunksType
  <2>10. /\ Values(q)[n] = v /\ Values(chunks)[n] = chunks[n].value
         /\ \A i \in (1..n) \ {n} : Values(chunks)[i] = Values(q)[i]
    <3> HIDE DEF q, v
    <3> QED BY <1>1, <2>1, <2>7, <2>8 DEF Values
  <2>11. Total(Values(q), 1..n)
           = Total(Values(chunks), 1..n) - chunks[n].value + v
    <3> DEFINE D == 1..n
    <3>1. /\ IsFiniteSet(D) /\ Values(chunks) \in [D -> Nat] /\ n \in D
          /\ Values(q) \in [D -> Nat]
          /\ \A i \in D \ {n} : Values(chunks)[i] = Values(q)[i]
      <4> HIDE DEF q, v, n
      <4> QED BY <1>1, <2>1, <2>9, <2>10
    <3>2. Total(Values(q), D)
            = Total(Values(chunks), D) - Values(chunks)[n] + Values(q)[n]
      <4> HIDE DEF q, v, n, D
      <4> QED BY <3>1, TotalUpdate
    <3> HIDE DEF q, v, n
    <3> QED BY <2>10, <3>2
  <2>12. chunks[n].value \in Nat
    BY <2>3 DEF UnlockChunk
  <2> QED BY <1>1, <2>7, <2>9, <2>11, <2>12
<1>3. CASE ~(chunks # <<>> /\ Last(chunks).era = era)
  <2> DEFINE c == [value |-> value, era |-> era]
             m == n + 1
  <2>1. q = Append(chunks, c) /\ c \in UnlockChunk /\ c.value = value
    BY <1>3 DEF AddChunk, UnlockChunk
  <2>2. /\ q \in Seq(UnlockChunk) /\ DOMAIN q = 1..m /\ q[m].value = value
        /\ \A i \in 1..n : q[i] = chunks[i]
    <3> HIDE DEF q, c
    <3> QED BY <1>1, <2>1
  <2>3. /\ Values(q) \in [1..m -> Nat] /\ IsFiniteSet(1..m)
        /\ Unlocking(q, DOMAIN q) = Total(Values(q), 1..m)
    <3>1. DOMAIN q \in SUBSET DOMAIN q
      OBVIOUS
    <3> HIDE DEF q, m
    <3> QED BY <2>2, <3>1, ChunksType
  <2>4. m \in 1..m /\ (1..m) \ {m} = 1..n /\ 1..m \in SUBSET (1..m)
    BY <1>1
  <2>5. Total(Values(q), 1..m) = Total(Values(q), (1..m) \ {m}) + Values(q)[m]
    <3> HIDE DEF q, m
    <3> QED BY <2>3, <2>4, TotalSplit
  <2>6. \A i \in 1..n : Values(q)[i] = Values(chunks)[i]
    <3> HIDE DEF q, n
    <3> QED BY <1>1, <2>2 DEF Values
  <2>7. Values(q)[m] = value
    <3> HIDE DEF q, m
    <3> QED BY <2>2, <2>4 DEF Values
  <2>8. Total(Values(q), 1..n) = Total(Values(chunks), 1..n)
    <3> HIDE DEF q
    <3> QED BY <2>6, TotalSame
  <2> HIDE DEF q, m, n
  <2> QED BY <1>1, <2>2, <2>3, <2>4, <2>5, <2>7, <2>8
<1> QED BY <1>2, <1>3

LEMMA LedgerParts ==
    ASSUME NEW l, GoodLedger(l)
    PROVE  /\ l.total \in Nat /\ l.active \in Nat
           /\ l.unlocking \in Seq(UnlockChunk)
           /\ l = [total |-> l.total, active |-> l.active,
                   unlocking |-> l.unlocking]
           /\ l.total = l.active + Unlocking(l.unlocking, DOMAIN l.unlocking)
           /\ Unlocking(l.unlocking, DOMAIN l.unlocking) \in Nat
<1>1. /\ l.total \in Nat /\ l.active \in Nat
      /\ l.unlocking \in Seq(UnlockChunk)
      /\ l = [total |-> l.total, active |-> l.active, unlocking |-> l.unlocking]
      /\ l.total = l.active + Unlocking(l.unlocking, DOMAIN l.unlocking)
  BY DEF GoodLedger, LedgerRecord
<1>2. Unlocking(l.unlocking, DOMAIN l.unlocking) \in Nat
  <2> DEFINE q == l.unlocking
  <2>1. DOMAIN q \in SUBSET DOMAIN q
    OBVIOUS
  <2>2. q \in Seq(UnlockChunk)
    BY <1>1
  <2> HIDE DEF q
  <2>3. Unlocking(q, DOMAIN q) \in Nat
    BY <2>1, <2>2, ChunksType
  <2> QED BY <2>3 DEF q
<1> QED BY <1>1, <1>2

LEMMA NewLedger ==
    ASSUME NEW a \in Nat, NEW q \in Seq(UnlockChunk), NEW t,
           t = a + Unlocking(q, DOMAIN q)
    PROVE  GoodLedger([total |-> t, active |-> a, unlocking |-> q])
<1> DEFINE l == [total |-> t, active |-> a, unlocking |-> q]
<1>1. DOMAIN q \in SUBSET DOMAIN q
  OBVIOUS
<1>2. Unlocking(q, DOMAIN q) \in Nat
  BY <1>1, ChunksType
<1>3. t \in Nat
  BY <1>2
<1>4. l \in LedgerRecord /\ l.total = t /\ l.active = a /\ l.unlocking = q
  BY <1>3 DEF LedgerRecord
<1> HIDE DEF l
<1>5. l.total = l.active + Unlocking(l.unlocking, DOMAIN l.unlocking)
  BY <1>4
<1>6. GoodLedger(l)
  BY <1>4, <1>5 DEF GoodLedger
<1> QED BY <1>6 DEF l

\* consolidate_unlocked takes from the total what leaves the queue.
LEMMA ConsolidateGood ==
    ASSUME NEW l, GoodLedger(l)
    PROVE  /\ GoodLedger(ConsolidateUnlocked(l))
           /\ ConsolidateUnlocked(l).total <= l.total
           /\ ConsolidateUnlocked(l).active = l.active
<1> DEFINE q == l.unlocking
           D == DOMAIN q
           due == {i \in D : q[i].era <= current_era}
           p == Subsequence(q, D \ due)
           t == SaturatingSub(l.total, Unlocking(q, due))
<1>1. /\ l.total \in Nat /\ l.active \in Nat /\ q \in Seq(UnlockChunk)
      /\ l = [total |-> l.total, active |-> l.active, unlocking |-> q]
      /\ l.total = l.active + Unlocking(q, D)
  BY LedgerParts
<1>2. ConsolidateUnlocked(l) =
        [total |-> t, active |-> l.active, unlocking |-> p]
  <2>1. ConsolidateUnlocked(l) = [l EXCEPT !.unlocking = p, !.total = t]
    BY DEF ConsolidateUnlocked
  <2> HIDE DEF p, t, q
  <2> QED BY <1>1, <2>1
<1>3. due \in SUBSET D /\ D \ due \in SUBSET D /\ (D \ due) \cup due = D
      /\ (D \ due) \cap due = {}
  OBVIOUS
<1> HIDE DEF due, q
<1>4. p \in Seq(UnlockChunk) /\ Unlocking(p, DOMAIN p) = Unlocking(q, D \ due)
  BY <1>1, <1>3, SubsequenceType, SubsequenceTotal
<1>5. /\ Unlocking(q, D) = Total(Values(q), D)
      /\ Unlocking(q, due) = Total(Values(q), due)
      /\ Unlocking(q, D \ due) = Total(Values(q), D \ due)
      /\ Unlocking(q, due) \in Nat /\ Unlocking(q, D \ due) \in Nat
      /\ IsFiniteSet(D) /\ Values(q) \in [D -> Nat]
  <2>1. D \in SUBSET D
    OBVIOUS
  <2> QED BY <1>1, <1>3, <2>1, ChunksType
<1>6. Total(Values(q), D) = Total(Values(q), D \ due) + Total(Values(q), due)
  <2>1. Total(Values(q), (D \ due) \cup due) =
          Total(Values(q), D \ due) + Total(Values(q), due)
    <3> HIDE DEF D
    <3> QED BY <1>3, <1>5, TotalUnion
  <2> QED BY <1>3, <2>1
<1> HIDE DEF D, p
<1>7. t = l.active + Unlocking(p, DOMAIN p) /\ t <= l.total
  BY <1>1, <1>4, <1>5, <1>6 DEF SaturatingSub
<1> HIDE DEF t
<1>8. GoodLedger([total |-> t, active |-> l.active, unlocking |-> p])
  BY <1>1, <1>4, <1>7, NewLedger
<1> QED BY <1>2, <1>7, <1>8

\* A loss of every part, no larger than the part, and of the total.
LEMMA LossesGood ==
    ASSUME NEW l, GoodLedger(l), NEW losses \in [DOMAIN l.unlocking -> Nat],
           \A i \in DOMAIN l.unlocking : losses[i] <= l.unlocking[i].value
    PROVE  LET q == [i \in DOMAIN l.unlocking |->
                       [l.unlocking[i] EXCEPT !.value = @ - losses[i]]]
           IN  /\ NonZero(q) \in Seq(UnlockChunk)
               /\ Unlocking(NonZero(q), DOMAIN NonZero(q)) \in Nat
               /\ Unlocking(l.unlocking, DOMAIN l.unlocking)
                    = Unlocking(NonZero(q), DOMAIN NonZero(q))
                        + Total(losses, DOMAIN l.unlocking)
<1> DEFINE p == l.unlocking
           D == DOMAIN p
           q == [i \in D |-> [p[i] EXCEPT !.value = @ - losses[i]]]
           z == NonZero(q)
<1> SUFFICES /\ z \in Seq(UnlockChunk) /\ Unlocking(z, DOMAIN z) \in Nat
             /\ Unlocking(p, D) = Unlocking(z, DOMAIN z) + Total(losses, D)
  OBVIOUS
<1>1. p \in Seq(UnlockChunk)
  BY LedgerParts
<1>2. /\ D = 1..Len(p) /\ Len(p) \in Nat /\ IsFiniteSet(D)
      /\ Values(p) \in [D -> Nat]
      /\ \A i \in D : p[i] \in UnlockChunk /\ p[i].value \in Nat
      /\ Unlocking(p, D) = Total(Values(p), D)
  <2>1. D \in SUBSET D
    OBVIOUS
  <2>2. \A i \in D : p[i] \in UnlockChunk
    <3> HIDE DEF p
    <3> QED BY <1>1
  <2> HIDE DEF p
  <2> QED BY <1>1, <2>1, <2>2, ChunksType
<1>3. \A i \in D : losses[i] \in Nat /\ losses[i] <= p[i].value
  OBVIOUS
<1> HIDE DEF p
<1>4. ASSUME NEW i \in D
      PROVE  /\ q[i] \in UnlockChunk
             /\ q[i].value = p[i].value - losses[i]
  <2> DEFINE c == p[i]
             x == p[i].value - losses[i]
  <2>1. c \in UnlockChunk /\ x \in Nat
    BY <1>2, <1>3
  <2>2. q[i] = [c EXCEPT !.value = x]
    OBVIOUS
  <2>3. /\ [c EXCEPT !.value = x] = [value |-> x, era |-> c.era]
        /\ [value |-> x, era |-> c.era] \in UnlockChunk
    <3> HIDE DEF c, x
    <3> QED BY <2>1, ChunkUpdate
  <2> HIDE DEF q, c
  <2> QED BY <2>2, <2>3
<1>5. q \in Seq(UnlockChunk) /\ DOMAIN q = D
  <2>1. q = [i \in D |-> q[i]]
    OBVIOUS
  <2>2. q \in [D -> UnlockChunk]
    <3> HIDE DEF q
    <3> QED BY <1>4, <2>1
  <2> HIDE DEF q, D
  <2> QED BY <1>2, <2>2
<1>6. /\ z \in Seq(UnlockChunk)
      /\ Unlocking(z, DOMAIN z) = Unlocking(q, D)
      /\ Unlocking(q, D) = Total(Values(q), D) /\ Unlocking(q, D) \in Nat
      /\ Values(q) \in [D -> Nat]
  <2>1. D \in SUBSET D
    OBVIOUS
  <2> HIDE DEF q, D
  <2> QED BY <1>5, <2>1, NonZeroGood, ChunksType
<1>7. \A i \in D : Values(p)[i] = Values(q)[i] + losses[i]
  <2>1. \A i \in D : Values(p)[i] = p[i].value /\ Values(q)[i] = q[i].value
    <3> HIDE DEF q
    <3> QED BY <1>5 DEF Values
  <2> HIDE DEF q, D
  <2> QED BY <1>2, <1>3, <1>4, <2>1
<1>8. Total(Values(p), D) = Total(Values(q), D) + Total(losses, D)
  <2> DEFINE vp == Values(p)
             vq == Values(q)
  <2>1. losses \in [D -> Nat]
    BY DEF p
  <2>2. /\ IsFiniteSet(D) /\ vp \in [D -> Nat] /\ vq \in [D -> Nat]
        /\ \A i \in D : vp[i] = vq[i] + losses[i]
    <3> HIDE DEF q, D
    <3> QED BY <1>2, <1>6, <1>7
  <2>3. Total(vp, D) = Total(vq, D) + Total(losses, D)
    <3> HIDE DEF vp, vq, D
    <3> QED BY <2>1, <2>2, TotalAdd
  <2> QED BY <2>3
<1> HIDE DEF z, q, D
<1> QED BY <1>2, <1>6, <1>8

\* rebond takes back from the queue exactly what it adds to the active stake.
LEMMA RebondTotal ==
    ASSUME NEW chunks \in Seq(UnlockChunk), NEW value \in Nat, NEW back,
           back = [i \in DOMAIN chunks |->
                     Min({chunks[i].value,
                          SaturatingSub(value,
                            Unlocking(chunks, {j \in DOMAIN chunks : j > i}))})]
    PROVE  /\ back \in [DOMAIN chunks -> Nat]
           /\ \A i \in DOMAIN chunks : back[i] <= chunks[i].value
           /\ Total(back, DOMAIN chunks)
                = Min({value, Unlocking(chunks, DOMAIN chunks)})
<1> DEFINE D == DOMAIN chunks
           n == Len(chunks)
           v == Values(chunks)
           younger(i) == {j \in D : j > i}
           least(a, b) == IF a <= b THEN a ELSE b
           tail(k) == {j \in D : j > n - k}
<1>1. /\ D = 1..n /\ n \in Nat /\ IsFiniteSet(D) /\ v \in [D -> Nat]
      /\ \A i \in D : v[i] = chunks[i].value /\ v[i] \in Nat
      /\ \A S \in SUBSET D : Unlocking(chunks, S) = Total(v, S)
                               /\ Total(v, S) \in Nat
  <2>1. \A i \in D : v[i] = chunks[i].value
    BY DEF Values
  <2> QED BY <2>1, ChunksType
<1> HIDE DEF v
<1>2. ASSUME NEW i \in D
      PROVE  /\ back[i] = least(v[i], SaturatingSub(value, Total(v, younger(i))))
             /\ back[i] \in Nat /\ back[i] <= v[i]
  <2>1. younger(i) \in SUBSET D
    OBVIOUS
  <2> DEFINE s == SaturatingSub(value, Total(v, younger(i)))
  <2>2. s \in Nat
    <3>1. Total(v, younger(i)) \in Nat
      <4> HIDE DEF younger, D
      <4> QED BY <1>1, <2>1
    <3> QED BY <3>1 DEF SaturatingSub
  <2>3. back[i] = Min({v[i], s})
    <3>1. back[i] = Min({chunks[i].value,
                         SaturatingSub(value, Unlocking(chunks, younger(i)))})
      OBVIOUS
    <3>2. Unlocking(chunks, younger(i)) = Total(v, younger(i))
      <4> HIDE DEF younger, D
      <4> QED BY <1>1, <2>1
    <3>3. chunks[i].value = v[i]
      BY <1>1
    <3> QED BY <3>1, <3>2, <3>3, Zenon
  <2>4. Min({v[i], s}) = least(v[i], s)
    <3> HIDE DEF s, D
    <3> QED BY <1>1, <2>2, MinOfTwo
  <2>5. v[i] \in Nat
    BY <1>1
  <2> HIDE DEF s
  <2>6. back[i] = least(v[i], s)
    BY <2>3, <2>4, Zenon
  <2>7. back[i] \in Nat /\ back[i] <= v[i]
    BY <2>2, <2>5, <2>6
  <2> QED BY <2>6, <2>7 DEF s
<1>3. back \in [D -> Nat]
  <2>1. back = [i \in D |-> back[i]]
    OBVIOUS
  <2> HIDE DEF D
  <2> QED BY <1>2, <2>1
<1> DEFINE S == {k \in 0..n : Total(back, tail(k)) = least(value, Total(v, tail(k)))}
<1>4. 0 \in S
  <2>1. tail(0) = {}
    BY <1>1
  <2>2. Total(back, {}) = 0 /\ Total(v, {}) = 0
    BY TotalEmpty
  <2>3. Total(back, tail(0)) = least(value, Total(v, tail(0)))
    <3>1. Total(back, tail(0)) = 0 /\ Total(v, tail(0)) = 0
      <4> HIDE DEF tail
      <4> QED BY <2>1, <2>2, Zenon
    <3> HIDE DEF tail
    <3> QED BY <3>1
  <2> HIDE DEF tail, n
  <2> QED BY <1>1, <2>3
<1>5. ASSUME NEW k \in 1..n, k - 1 \in S
      PROVE  k \in S
  <2> DEFINE i == n - k + 1
  <2>1. /\ i \in D /\ i \in tail(k) /\ tail(k) \in SUBSET D
        /\ tail(k) \ {i} = tail(k - 1) /\ younger(i) = tail(k - 1)
        /\ tail(k - 1) \in SUBSET D
    BY <1>1
  <2>2. Total(back, tail(k - 1)) = least(value, Total(v, tail(k - 1)))
    <3> HIDE DEF tail, n
    <3> QED BY <1>5
  <2> HIDE DEF tail, younger, i, D
  <2>3. /\ Total(back, tail(k)) = Total(back, tail(k) \ {i}) + back[i]
        /\ Total(v, tail(k)) = Total(v, tail(k) \ {i}) + v[i]
    <3> DEFINE T == tail(k)
    <3>1. i \in T /\ T \in SUBSET D
      BY <2>1
    <3> HIDE DEF T
    <3>2. IsFiniteSet(D) /\ v \in [D -> Nat] /\ back \in [D -> Nat]
      BY <1>1, <1>3
    <3>3. Total(back, T) = Total(back, T \ {i}) + back[i]
      BY <3>1, <3>2, TotalSplit
    <3>4. Total(v, T) = Total(v, T \ {i}) + v[i]
      BY <3>1, <3>2, TotalSplit
    <3> QED BY <3>3, <3>4 DEF T
  <2> DEFINE t == Total(v, tail(k - 1))
             b == Total(back, tail(k - 1))
             w == v[i]
  <2>4. t \in Nat /\ w \in Nat
    BY <1>1, <2>1
  <2>5. back[i] = least(w, SaturatingSub(value, t))
    BY <1>2, <2>1
  <2>6. Total(back, tail(k)) = b + back[i] /\ Total(v, tail(k)) = t + w
    BY <2>1, <2>3
  <2>7. b = least(value, t)
    BY <2>2
  <2> HIDE DEF t, b, w
  <2>8. b + back[i] = least(value, t + w)
    BY <2>4, <2>5, <2>7 DEF SaturatingSub
  <2>9. Total(back, tail(k)) = least(value, Total(v, tail(k)))
    BY <2>6, <2>8
  <2>10. k \in 0..n
    BY <1>1
  <2> HIDE DEF n
  <2> QED BY <2>9, <2>10
<1>6. n \in S
  <2>1. \A k \in 1..n : k - 1 \in S => k \in S
    BY <1>5
  <2>2. \A k \in 0..n : k \in S
    <3> HIDE DEF S
    <3> QED BY <1>1, <1>4, <2>1, IntervalInduction
  <2>3. n \in 0..n
    BY <1>1
  <2> HIDE DEF S
  <2> QED BY <2>2, <2>3
<1>7. tail(n) = D
  BY <1>1
<1>8. Total(back, D) = least(value, Total(v, D))
  <2>1. Total(back, tail(n)) = least(value, Total(v, tail(n)))
    <3> HIDE DEF tail, n
    <3> QED BY <1>6
  <2> HIDE DEF tail, D
  <2> QED BY <1>7, <2>1
<1>9. Min({value, Unlocking(chunks, D)}) = least(value, Total(v, D))
  <2>1. Unlocking(chunks, D) = Total(v, D) /\ Total(v, D) \in Nat
    <3>1. D \in SUBSET D
      OBVIOUS
    <3> HIDE DEF D
    <3> QED BY <1>1, <3>1
  <2> HIDE DEF D
  <2> QED BY <2>1, MinOfTwo
<1> HIDE DEF D
<1>10. \A i \in D : back[i] <= chunks[i].value
  BY <1>1, <1>2
<1> QED BY <1>3, <1>8, <1>9, <1>10 DEF D

LEMMA RebondGood ==
    ASSUME NEW l, GoodLedger(l), NEW value \in Nat
    PROVE  /\ GoodLedger(RebondLedger(l, value))
           /\ RebondLedger(l, value).total = l.total
<1> DEFINE q == l.unlocking
           D == DOMAIN q
           back == [i \in D |->
                      Min({q[i].value,
                           SaturatingSub(value,
                             Unlocking(q, {j \in D : j > i}))})]
           p == NonZero([i \in D |-> [q[i] EXCEPT !.value = @ - back[i]]])
           a == l.active + Min({value, Unlocking(q, D)})
<1>1. /\ l.total \in Nat /\ l.active \in Nat /\ q \in Seq(UnlockChunk)
      /\ l = [total |-> l.total, active |-> l.active, unlocking |-> q]
      /\ l.total = l.active + Unlocking(q, D) /\ Unlocking(q, D) \in Nat
  BY LedgerParts
<1>2. RebondLedger(l, value) =
        [total |-> l.total, active |-> a, unlocking |-> p]
  <2>1. [i \in D |-> [q[i] EXCEPT !.value = @ - back[i]]] =
          [i \in D |-> [q[i] EXCEPT !.value = @ -
             Min({q[i].value,
                  SaturatingSub(value, Unlocking(q, {j \in D : j > i}))})]]
    OBVIOUS
  <2>2. RebondLedger(l, value) = [l EXCEPT !.active = a, !.unlocking = p]
    BY <2>1, Zenon DEF RebondLedger
  <2> HIDE DEF p, a, q
  <2> QED BY <1>1, <2>2
<1>3. /\ back \in [D -> Nat] /\ \A i \in D : back[i] <= q[i].value
      /\ Total(back, D) = Min({value, Unlocking(q, D)})
  <2> DEFINE bk == back
  <2>1. bk = back
    OBVIOUS
  <2> HIDE DEF q, bk
  <2> QED BY <1>1, <2>1, RebondTotal
<1> HIDE DEF back
<1>4. /\ p \in Seq(UnlockChunk) /\ Unlocking(p, DOMAIN p) \in Nat
      /\ Unlocking(q, D) = Unlocking(p, DOMAIN p) + Total(back, D)
  BY <1>3, LossesGood
<1> HIDE DEF p, q, D
<1>5. Min({value, Unlocking(q, D)}) \in Nat
  BY <1>1, MinOfTwo
<1>6. a \in Nat /\ l.total = a + Unlocking(p, DOMAIN p)
  BY <1>1, <1>3, <1>4, <1>5
<1> HIDE DEF a
<1>7. GoodLedger([total |-> l.total, active |-> a, unlocking |-> p])
  BY <1>4, <1>6, NewLedger
<1> QED BY <1>2, <1>7

-----------------------------------------------------------------------------
(***************************************************************************)
(* A slash of a ledger takes from each part at most what the part holds,   *)
(* and from the total what it takes from the parts.                        *)
(***************************************************************************)

LEMMA SlashOutOfBound ==
    ASSUME NEW target \in Nat, NEW remaining \in Nat, NEW amount \in Nat,
           NEW affected \in Nat
    PROVE  SlashOutOf(target, remaining, amount, affected) \in 0..target
<1> DEFINE part == FromRational(amount, affected)
           share == IF amount < affected THEN MulNearest(part, target)
                    ELSE Min({remaining, target})
<1>1. MulNearest(part, target) \in 0..target
  <2>1. part \in Parts
    BY FromRationalType
  <2> HIDE DEF part
  <2> QED BY <2>1, MulNearestBound
<1>2. Min({remaining, target}) \in 0..target
  BY MinOfTwo
<1>3. share \in 0..target
  <2> HIDE DEF part
  <2> QED BY <1>1, <1>2
<1>4. SlashOutOf(target, remaining, amount, affected) =
        IF target - share < ExistentialDeposit THEN target ELSE share
  BY DEF SlashOutOf
<1> HIDE DEF share
<1> QED BY <1>3, <1>4

LEMMA TurnsReturn ==
    ASSUME NEW n \in Nat, NEW m \in 0..n, NEW i \in 1..n
    PROVE  Turn(n, m, i) \in 1..n /\ NthTarget(n, m, Turn(n, m, i)) = i
           /\ NthTarget(n, m, i) \in 1..n
BY DEF Turn, NthTarget

\* The loop over the targets, as a recursion that has a solution.
LEMMA SlashStepsBound ==
    ASSUME NEW l, GoodLedger(l), NEW amount \in Nat, NEW era \in Nat
    PROVE  LET n == Len(l.unlocking)
               m == UnaffectedChunks(l.unlocking, era)
           IN  /\ m \in 0..n
               /\ SlashSteps(l, amount, era)[0].loss \in 0..l.active
               /\ \A k \in 1..n : SlashSteps(l, amount, era)[k].loss
                    \in 0..l.unlocking[NthTarget(n, m, k)].value
<1> DEFINE q == l.unlocking
           n == Len(q)
           m == UnaffectedChunks(q, era)
           affected == l.active + Unlocking(q, (m + 1)..n)
           target(k) == IF k = 0 THEN l.active ELSE q[NthTarget(n, m, k)].value
           loss(k, remaining) ==
             IF k > 0 /\ remaining = 0 THEN 0
             ELSE SlashOutOf(target(k), remaining, amount, affected)
           step(k, remaining) ==
             [loss |-> loss(k, remaining),
              remaining |-> SaturatingSub(remaining, loss(k, remaining))]
           steps == SlashSteps(l, amount, era)
           X == [loss : Nat, remaining : Nat]
<1>1. /\ l.active \in Nat /\ q \in Seq(UnlockChunk)
  BY LedgerParts
<1>2. /\ DOMAIN q = 1..n /\ n \in Nat /\ IsFiniteSet(DOMAIN q)
      /\ \A i \in 1..n : q[i].value \in Nat
  <2> HIDE DEF q
  <2> QED BY <1>1, ChunksType
<1>3. m \in 0..n
  <2> DEFINE U == {i \in DOMAIN q : \A j \in 1..i :
                     q[j].era < era + 1 + BondingDuration}
  <2>1. U \in SUBSET DOMAIN q /\ m = Cardinality(U)
    BY DEF UnaffectedChunks
  <2>2. Cardinality(DOMAIN q) = n
    <3> HIDE DEF n
    <3> QED BY <1>2, FS_Interval
  <2> HIDE DEF U, q
  <2>3. m \in Nat /\ m <= n
    BY <1>2, <2>1, <2>2, FS_Subset, FS_CardinalityType
  <2> QED BY <1>2, <2>3
<1> HIDE DEF m
<1>4. affected \in Nat
  <2>1. (m + 1)..n \in SUBSET DOMAIN q
    <3> HIDE DEF n
    <3> QED BY <1>2, <1>3
  <2>2. Unlocking(q, (m + 1)..n) \in Nat
    <3> HIDE DEF q, n
    <3> QED BY <1>1, <2>1, ChunksType
  <2> HIDE DEF q, n
  <2> QED BY <1>1, <2>2
<1> HIDE DEF affected
<1>5. ASSUME NEW k \in 0..n
      PROVE  target(k) \in Nat
  <2>1. CASE k = 0
    BY <1>1, <2>1
  <2>2. CASE k # 0
    <3>1. k \in 1..n
      BY <2>2
    <3>2. NthTarget(n, m, k) \in 1..n
      <4> HIDE DEF n
      <4> QED BY <1>2, <1>3, <3>1, TurnsReturn
    <3> HIDE DEF q, n
    <3> QED BY <1>2, <2>2, <3>2
  <2> QED BY <2>1, <2>2
<1> HIDE DEF target
<1>6. ASSUME NEW k \in 0..n, NEW r \in Nat
      PROVE  loss(k, r) \in 0..target(k) /\ step(k, r) \in X
  <2>1. SlashOutOf(target(k), r, amount, affected) \in 0..target(k)
    <3> HIDE DEF n
    <3> QED BY <1>4, <1>5, SlashOutOfBound
  <2>2. target(k) \in Nat
    BY <1>5
  <2>3. loss(k, r) \in 0..target(k)
    <3> HIDE DEF n
    <3> QED BY <2>1, <2>2
  <2>4. loss(k, r) \in Nat /\ SaturatingSub(r, loss(k, r)) \in Nat
    <3> HIDE DEF loss, n
    <3> QED BY <2>2, <2>3 DEF SaturatingSub
  <2> HIDE DEF loss
  <2> QED BY <2>3, <2>4
<1>7. \A k, r : step(k, r).loss = loss(k, r)
  <2> HIDE DEF loss
  <2> QED OBVIOUS
<1>8. steps = CHOOSE f : f = [k \in 0..n |->
                 step(k, IF k = 0 THEN amount ELSE f[k - 1].remaining)]
  BY DEF SlashSteps, target, affected, m
<1> HIDE DEF step, loss, q, n
<1>9. \E g : g = [k \in 0..n |->
                step(k, IF k = 0 THEN amount ELSE g[k - 1].remaining)]
  <2> DEFINE x0 == step(0, amount)
             h == [k \in 1..n |-> [x \in X |-> step(k, x.remaining)]]
  <2>1. 0 \in 0..n /\ \A k \in 1..n : k \in 0..n
    BY <1>2
  <2>2. x0 \in X
    BY <1>6, <2>1
  <2>3. \A k \in 1..n, x \in X : step(k, x.remaining) \in X
    BY <1>6, <2>1
  <2>4. h \in StepsOf(n, X)
    <3> HIDE DEF X
    <3> QED BY <2>3 DEF StepsOf
  <2>5. PICK g \in [0..n -> X] :
          g[0] = x0 /\ \A k \in 1..n : g[k] = h[k][g[k - 1]]
    <3>1. n \in Nat
      BY <1>2
    <3> HIDE DEF X, x0, h
    <3>2. Iterations(n, X, x0, h) # {}
      BY <2>2, <2>4, <3>1, IterationExists
    <3> QED BY <3>2 DEF Iterations
  <2>6. \A k \in 1..n : k - 1 \in 0..n
    BY <1>2
  <2>7. \A k \in 1..n : g[k] = step(k, g[k - 1].remaining)
    <3> HIDE DEF X
    <3> QED BY <2>5, <2>6
  <2>8. ASSUME NEW k \in 0..n
        PROVE  g[k] = step(k, IF k = 0 THEN amount ELSE g[k - 1].remaining)
    <3>1. CASE k = 0
      BY <2>5, <3>1
    <3>2. CASE k # 0
      <4>1. k \in 1..n
        BY <1>2, <3>2
      <4> QED BY <2>7, <3>2, <4>1
    <3> QED BY <3>1, <3>2
  <2>9. g = [k \in 0..n |-> g[k]]
    BY <2>5
  <2>10. g = [k \in 0..n |->
                step(k, IF k = 0 THEN amount ELSE g[k - 1].remaining)]
    BY <2>8, <2>9
  <2> QED BY <2>10
<1>10. steps = [k \in 0..n |->
                 step(k, IF k = 0 THEN amount ELSE steps[k - 1].remaining)]
  <2> HIDE DEF steps
  <2> QED BY <1>8, <1>9
<1> HIDE DEF steps
<1> DEFINE S == {k \in 0..n : steps[k] \in X}
<1>11. \A k \in 0..n : k \in S
  <2>1. 0 \in S
    <3>1. 0 \in 0..n
      BY <1>2
    <3>2. steps[0] = step(0, amount)
      BY <1>10, <3>1
    <3> HIDE DEF X
    <3> QED BY <1>6, <3>1, <3>2
  <2>2. ASSUME NEW k \in 1..n, k - 1 \in S
        PROVE  k \in S
    <3>1. k \in 0..n /\ k # 0
      BY <1>2
    <3>2. steps[k] = step(k, steps[k - 1].remaining)
      BY <1>10, <3>1
    <3>3. steps[k - 1].remaining \in Nat
      <4>1. steps[k - 1] \in X
        <5> HIDE DEF X
        <5> QED BY <2>2
      <4> QED BY <4>1
    <3> HIDE DEF X
    <3> QED BY <1>6, <3>1, <3>2, <3>3
  <2>3. \A k \in 1..n : k - 1 \in S => k \in S
    BY <2>2
  <2> HIDE DEF S
  <2> QED BY <1>2, <2>1, <2>3, IntervalInduction
<1>12. ASSUME NEW k \in 0..n
       PROVE  steps[k].loss \in 0..target(k)
  <2> DEFINE r == IF k = 0 THEN amount ELSE steps[k - 1].remaining
  <2>1. r \in Nat
    <3>1. CASE k = 0
      BY <3>1
    <3>2. CASE k # 0
      <4>1. k - 1 \in 0..n
        BY <1>2, <3>2
      <4>2. steps[k - 1] \in X
        <5> HIDE DEF X
        <5> QED BY <1>11, <4>1
      <4> QED BY <3>2, <4>2
    <3> QED BY <3>1, <3>2
  <2>2. steps[k] = step(k, r)
    BY <1>10
  <2> HIDE DEF r, X
  <2>3. steps[k].loss = loss(k, r)
    BY <1>7, <2>2
  <2> QED BY <1>6, <2>1, <2>3
<1>13. steps[0].loss \in 0..l.active
  <2>1. 0 \in 0..n
    BY <1>2
  <2> QED BY <1>12, <2>1 DEF target
<1>14. \A k \in 1..n : steps[k].loss \in 0..q[NthTarget(n, m, k)].value
  <2> TAKE k \in 1..n
  <2>1. k \in 0..n /\ k # 0
    BY <1>2
  <2>2. target(k) = q[NthTarget(n, m, k)].value
    BY <2>1 DEF target
  <2>3. steps[k].loss \in 0..target(k)
    BY <1>12, <2>1
  <2> QED BY <2>2, <2>3, Zenon
<1> QED BY <1>3, <1>13, <1>14 DEF steps, q, n, m

LEMMA SlashGood ==
    ASSUME NEW l, GoodLedger(l), NEW amount \in Nat, NEW era \in Nat
    PROVE  /\ GoodLedger(Slash(l, amount, era))
           /\ Slash(l, amount, era).total <= l.total
<1> DEFINE q == l.unlocking
           D == DOMAIN q
           n == Len(q)
           m == UnaffectedChunks(q, era)
           steps == SlashSteps(l, amount, era)
           losses == SlashLosses(l, amount, era)
           part == [i \in D |-> losses[i]]
           p == NonZero([i \in D |-> [q[i] EXCEPT !.value = @ - losses[i]]])
           t == SaturatingSub(l.total, Total(losses, DOMAIN losses))
           a == l.active - losses[0]
<1>1. /\ l.total \in Nat /\ l.active \in Nat /\ q \in Seq(UnlockChunk)
      /\ l.total = l.active + Unlocking(q, D) /\ Unlocking(q, D) \in Nat
  BY LedgerParts
<1>2. /\ m \in 0..n /\ steps[0].loss \in 0..l.active
      /\ \A k \in 1..n : steps[k].loss \in 0..q[NthTarget(n, m, k)].value
  BY SlashStepsBound
<1>3. D = 1..n /\ n \in Nat
  <2> HIDE DEF q
  <2> QED BY <1>1
<1>4. losses = [i \in 0..n |-> steps[IF i = 0 THEN 0 ELSE Turn(n, m, i)].loss]
  BY DEF SlashLosses
<1> HIDE DEF steps, losses, m, q, n
<1>5. losses[0] \in 0..l.active
  <2>1. 0 \in 0..n
    BY <1>3
  <2> QED BY <1>2, <1>4, <2>1
<1>6. ASSUME NEW i \in 1..n
      PROVE  losses[i] \in Nat /\ losses[i] <= q[i].value
  <2> DEFINE k == Turn(n, m, i)
  <2>1. k \in 1..n /\ NthTarget(n, m, k) = i
    BY <1>2, <1>3, TurnsReturn
  <2>2. i \in 0..n /\ i # 0
    BY <1>3
  <2>3. losses[i] = steps[k].loss
    BY <1>4, <2>2
  <2> HIDE DEF k
  <2>4. losses[i] \in 0..q[i].value
    BY <1>2, <2>1, <2>3
  <2>5. q[i].value \in Nat
    BY <1>1, <1>3, ChunksType
  <2> QED BY <2>4, <2>5
<1>7. part \in [D -> Nat] /\ \A i \in D : part[i] = losses[i]
  BY <1>3, <1>6
<1>8. /\ p \in Seq(UnlockChunk) /\ Unlocking(p, DOMAIN p) \in Nat
      /\ Unlocking(q, D) = Unlocking(p, DOMAIN p) + Total(part, D)
  <2>1. p = NonZero([i \in D |-> [q[i] EXCEPT !.value = @ - part[i]]])
    <3>1. [i \in D |-> [q[i] EXCEPT !.value = @ - losses[i]]]
            = [i \in D |-> [q[i] EXCEPT !.value = @ - part[i]]]
      BY <1>7
    <3> QED BY <3>1
  <2>2. \A i \in D : part[i] <= q[i].value
    BY <1>3, <1>6, <1>7
  <2> HIDE DEF part, p
  <2> QED BY <1>7, <2>1, <2>2, LossesGood DEF q
<1>9. Total(part, D) = Total(losses, D)
  <2> HIDE DEF part, D
  <2> QED BY <1>7, TotalSame
<1>10. Total(losses, DOMAIN losses) = Total(losses, D) + losses[0]
  <2> DEFINE Z == 0..n
  <2>1. /\ DOMAIN losses = Z /\ 0 \in Z /\ Z \ {0} = D /\ Z \in SUBSET Z
    BY <1>3, <1>4
  <2>2. losses \in [Z -> Nat]
    <3>1. \A i \in Z : losses[i] \in Nat
      <4> TAKE i \in Z
      <4>1. CASE i = 0
        BY <1>1, <1>5, <4>1
      <4>2. CASE i # 0
        <5>1. i \in 1..n
          BY <1>3, <4>2
        <5> QED BY <1>6, <5>1
      <4> QED BY <4>1, <4>2
    <3> QED BY <1>4, <3>1
  <2>3. IsFiniteSet(Z)
    BY <1>3, FS_Interval
  <2>4. Total(losses, Z) = Total(losses, Z \ {0}) + losses[0]
    <3> HIDE DEF Z
    <3> QED BY <2>1, <2>2, <2>3, TotalSplit
  <2> HIDE DEF Z, D
  <2> QED BY <2>1, <2>4
<1>11. Slash(l, amount, era) = [total |-> t, active |-> a, unlocking |-> p]
  BY DEF Slash, losses, q
<1>12. Total(losses, D) \in Nat
  <2>1. D \in SUBSET D /\ IsFiniteSet(D)
    BY <1>3, FS_Interval
  <2>2. Total(part, D) \in Nat
    <3> HIDE DEF part, D
    <3> QED BY <1>7, <2>1, TotalType
  <2> QED BY <1>9, <2>2, Zenon
<1> HIDE DEF part, p, D
<1>13. a \in Nat /\ t = a + Unlocking(p, DOMAIN p) /\ t <= l.total
  <2> DEFINE x == Total(losses, D)
             u == Unlocking(p, DOMAIN p)
             y == losses[0]
             all == Total(losses, DOMAIN losses)
  <2>1. /\ x \in Nat /\ u \in Nat /\ y \in 0..l.active /\ all = x + y
        /\ l.total = l.active + (u + x) /\ l.active \in Nat
    BY <1>1, <1>5, <1>8, <1>9, <1>10, <1>12
  <2> HIDE DEF x, u, y, all
  <2>2. SaturatingSub(l.total, all) = (l.active - y) + u
        /\ SaturatingSub(l.total, all) <= l.total
    BY <2>1 DEF SaturatingSub
  <2>3. l.active - y \in Nat
    BY <2>1
  <2> QED BY <2>2, <2>3 DEF u, y, all
<1> HIDE DEF a, t
<1>14. GoodLedger([total |-> t, active |-> a, unlocking |-> p])
  BY <1>8, <1>13, NewLedger
<1> QED BY <1>11, <1>13, <1>14

-----------------------------------------------------------------------------
(***************************************************************************)
(* The stake: the ledger, the balance and the lock.                        *)
(***************************************************************************)

Stakes ==
    {st \in [ledger : LedgerRecord \cup {None}, free : Nat, lock : Nat] :
       IF st.ledger = None THEN st.lock = 0
       ELSE /\ GoodLedger(st.ledger)
            /\ st.ledger.total <= st.free
            /\ st.ledger.total <= st.lock
            /\ st.ledger.total # 0 => st.lock = st.ledger.total}

LEMMA SomeStake ==
    ASSUME NEW l, GoodLedger(l), NEW f \in Nat, NEW old \in Nat, l.total <= f
    PROVE  [ledger |-> l, free |-> f, lock |-> SetLock(old, l.total)] \in Stakes
<1> DEFINE k == SetLock(old, l.total)
           st == [ledger |-> l, free |-> f, lock |-> k]
<1>1. l.total \in Nat /\ l \in LedgerRecord /\ l # None
  BY LedgerParts, LedgerAssumption DEF GoodLedger
<1>2. k \in Nat /\ l.total <= k /\ (l.total # 0 => k = l.total)
  BY <1>1 DEF SetLock
<1> HIDE DEF k
<1>3. /\ st \in [ledger : LedgerRecord \cup {None}, free : Nat, lock : Nat]
      /\ st.ledger = l /\ st.free = f /\ st.lock = k
  BY <1>1, <1>2
<1> HIDE DEF st
<1>4. st \in Stakes
  BY <1>1, <1>2, <1>3 DEF Stakes
<1> QED BY <1>4 DEF st, k

LEMMA NoStake ==
    ASSUME NEW f \in Nat
    PROVE  [ledger |-> None, free |-> f, lock |-> 0] \in Stakes
BY DEF Stakes

LEMMA StakeParts ==
    ASSUME NEW st \in Stakes
    PROVE  /\ st.free \in Nat /\ st.lock \in Nat
           /\ st = [ledger |-> st.ledger, free |-> st.free, lock |-> st.lock]
           /\ st.ledger = None => st.lock = 0
           /\ st.ledger # None =>
                /\ GoodLedger(st.ledger)
                /\ st.ledger.total <= st.free
                /\ st.ledger.total <= st.lock
                /\ st.ledger.total # 0 => st.lock = st.ledger.total
BY DEF Stakes

\* do_slash keeps a stake one: the balance never falls below the ledger.
LEMMA DoSlashGood ==
    ASSUME NEW st \in Stakes, NEW amount \in Nat, NEW era \in Nat
    PROVE  DoSlash(st, [amount |-> amount, era |-> era]) \in Stakes
<1> DEFINE slash == [amount |-> amount, era |-> era]
           l == Slash(st.ledger, amount, era)
           value == st.ledger.total - l.total
           f == SlashedBalance(st.free, value)
<1>1. DoSlash(st, slash) =
        IF st.ledger = None \/ value = 0 THEN st
        ELSE [ledger |-> l, free |-> f, lock |-> SetLock(st.lock, l.total)]
  BY DEF DoSlash
<1>2. CASE st.ledger = None \/ value = 0
  BY <1>1, <1>2
<1>3. CASE ~(st.ledger = None \/ value = 0)
  <2>1. /\ st.free \in Nat /\ st.lock \in Nat /\ GoodLedger(st.ledger)
        /\ st.ledger.total <= st.free
    BY <1>3, StakeParts
  <2>2. GoodLedger(l) /\ l.total <= st.ledger.total
    <3> DEFINE sl == st.ledger
    <3> HIDE DEF sl
    <3>1. GoodLedger(Slash(sl, amount, era)) /\ Slash(sl, amount, era).total <= sl.total
      BY <2>1, SlashGood DEF sl
    <3> QED BY <3>1 DEF sl
  <2>3. st.ledger.total \in Nat /\ l.total \in Nat
    <3> HIDE DEF l
    <3> QED BY <2>1, <2>2, LedgerParts
  <2> HIDE DEF l
  <2>4. value \in Nat /\ st.ledger.total = l.total + value
    BY <2>2, <2>3
  <2> HIDE DEF value
  <2>5. f \in Nat /\ l.total <= f
    <3>1. ExistentialDeposit \in Nat
      BY LedgerAssumption
    <3>2. Min({st.free, ExistentialDeposit}) =
            IF st.free <= ExistentialDeposit THEN st.free ELSE ExistentialDeposit
      BY <2>1, <3>1, MinOfTwo
    <3>3. f = IF st.free - value >= ExistentialDeposit THEN st.free - value
              ELSE Min({st.free, ExistentialDeposit})
      BY DEF SlashedBalance
    <3> HIDE DEF f
    <3> QED BY <2>1, <2>3, <2>4, <3>1, <3>2, <3>3
  <2> HIDE DEF f
  <2>6. [ledger |-> l, free |-> f, lock |-> SetLock(st.lock, l.total)] \in Stakes
    BY <2>1, <2>2, <2>5, SomeStake
  <2> QED BY <1>1, <1>3, <2>6
<1> QED BY <1>2, <1>3

\* And so do the slashes of an era, and of several.
LEMMA EnactEraGood ==
    ASSUME unapplied_slashes \in [Era -> Seq(Nat)],
           NEW st \in Stakes, NEW era \in Era
    PROVE  EnactEra(st, era) \in Stakes
<1> DEFINE slashes == unapplied_slashes[era]
           n == Len(slashes)
           step(x, i) == DoSlash(x, [amount |-> slashes[i], era |-> era])
           F(g) == [i \in 0..n |-> IF i = 0 THEN st ELSE step(g[i - 1], i)]
           f == CHOOSE g : g = F(g)
<1>1. slashes \in Seq(Nat) /\ n \in Nat /\ era \in Nat
  BY ErasAssumption DEF Era
<1>2. \A i \in 1..n, x \in Stakes : step(x, i) \in Stakes
  <2> TAKE i \in 1..n, x \in Stakes
  <2>1. slashes[i] \in Nat
    BY <1>1
  <2> HIDE DEF slashes
  <2> QED BY <1>1, <2>1, DoSlashGood
<1>3. EnactEra(st, era) = f[n]
  BY DEF EnactEra
<1> HIDE DEF step, n, slashes
<1>4. \E g : g = F(g)
  <2> DEFINE h == [i \in 1..n |-> [x \in Stakes |-> step(x, i)]]
  <2>1. h \in StepsOf(n, Stakes)
    BY <1>2 DEF StepsOf
  <2>2. Iterations(n, Stakes, st, h) # {}
    <3> HIDE DEF h
    <3> QED BY <1>1, <2>1, IterationExists
  <2>3. PICK g \in [0..n -> Stakes] :
          g[0] = st /\ \A i \in 1..n : g[i] = h[i][g[i - 1]]
    <3> HIDE DEF h
    <3> QED BY <2>2 DEF Iterations
  <2>4. \A i \in 1..n : i - 1 \in 0..n
    BY <1>1
  <2>5. \A i \in 1..n : g[i] = step(g[i - 1], i)
    BY <2>3, <2>4
  <2>6. g = [i \in 0..n |-> g[i]]
    BY <2>3
  <2>7. \A i \in 0..n : g[i] = IF i = 0 THEN st ELSE step(g[i - 1], i)
    <3> TAKE i \in 0..n
    <3>1. CASE i = 0
      BY <2>3, <3>1
    <3>2. CASE i # 0
      <4>1. i \in 1..n
        BY <1>1, <3>2
      <4> QED BY <2>5, <3>2, <4>1
    <3> QED BY <3>1, <3>2
  <2>8. g = F(g)
    BY <2>6, <2>7
  <2> QED BY <2>8
<1>5. f = F(f)
  BY <1>4
<1> HIDE DEF f
<1> DEFINE S == {i \in 0..n : f[i] \in Stakes}
<1>6. \A i \in 0..n : i \in S
  <2>1. 0 \in S
    <3>1. 0 \in 0..n
      BY <1>1
    <3> QED BY <1>5, <3>1
  <2>2. ASSUME NEW i \in 1..n, i - 1 \in S
        PROVE  i \in S
    <3>1. i \in 0..n /\ i # 0
      BY <1>1
    <3>2. f[i] = step(f[i - 1], i)
      BY <1>5, <3>1
    <3>3. f[i - 1] \in Stakes
      BY <2>2
    <3> QED BY <1>2, <3>1, <3>2, <3>3
  <2>3. \A i \in 1..n : i - 1 \in S => i \in S
    BY <2>2
  <2> HIDE DEF S
  <2> QED BY <1>1, <2>1, <2>3, IntervalInduction
<1>7. n \in 0..n
  BY <1>1
<1> QED BY <1>3, <1>6, <1>7

LEMMA EnactErasGood ==
    ASSUME unapplied_slashes \in [Era -> Seq(Nat)],
           NEW st \in Stakes, NEW eras \in SUBSET Era
    PROVE  EnactEras(st, eras) \in Stakes
<1> DEFINE n == Cardinality(eras)
           step(x, i) == EnactEra(x, Nth(eras, i))
           F(g) == [i \in 0..n |-> IF i = 0 THEN st ELSE step(g[i - 1], i)]
           f == CHOOSE g : g = F(g)
<1>1. n \in Nat /\ \A i \in 1..n : Nth(eras, i) \in eras
  <2>1. eras \in SUBSET Nat /\ IsFiniteSet(eras)
    <3>1. Era \subseteq Nat /\ IsFiniteSet(Era)
      BY ErasAssumption, FS_Interval DEF Era
    <3> QED BY <3>1, FS_Subset
  <2> DEFINE h == [i \in 1..n |-> Nth(eras, i)]
  <2>2. n \in Nat /\ h \in Bijection(1..n, eras)
    BY <2>1, NthListsAll
  <2>3. h \in [1..n -> eras]
    <3> HIDE DEF h, n
    <3> QED BY <2>2 DEF Bijection, Injection
  <2> HIDE DEF n
  <2> QED BY <2>2, <2>3
<1>2. \A i \in 1..n, x \in Stakes : step(x, i) \in Stakes
  <2> TAKE i \in 1..n, x \in Stakes
  <2>1. Nth(eras, i) \in Era
    <3> HIDE DEF n
    <3> QED BY <1>1
  <2> QED BY <2>1, EnactEraGood
<1>3. EnactEras(st, eras) = f[n]
  BY DEF EnactEras
<1> HIDE DEF step, n
<1>4. \E g : g = F(g)
  <2> DEFINE h == [i \in 1..n |-> [x \in Stakes |-> step(x, i)]]
  <2>1. h \in StepsOf(n, Stakes)
    BY <1>2 DEF StepsOf
  <2>2. Iterations(n, Stakes, st, h) # {}
    <3> HIDE DEF h
    <3> QED BY <1>1, <2>1, IterationExists
  <2>3. PICK g \in [0..n -> Stakes] :
          g[0] = st /\ \A i \in 1..n : g[i] = h[i][g[i - 1]]
    <3> HIDE DEF h
    <3> QED BY <2>2 DEF Iterations
  <2>4. \A i \in 1..n : i - 1 \in 0..n
    BY <1>1
  <2>5. \A i \in 1..n : g[i] = step(g[i - 1], i)
    BY <2>3, <2>4
  <2>6. g = [i \in 0..n |-> g[i]]
    BY <2>3
  <2>7. \A i \in 0..n : g[i] = IF i = 0 THEN st ELSE step(g[i - 1], i)
    <3> TAKE i \in 0..n
    <3>1. CASE i = 0
      BY <2>3, <3>1
    <3>2. CASE i # 0
      <4>1. i \in 1..n
        BY <1>1, <3>2
      <4> QED BY <2>5, <3>2, <4>1
    <3> QED BY <3>1, <3>2
  <2>8. g = F(g)
    BY <2>6, <2>7
  <2> QED BY <2>8
<1>5. f = F(f)
  BY <1>4
<1> HIDE DEF f
<1> DEFINE S == {i \in 0..n : f[i] \in Stakes}
<1>6. \A i \in 0..n : i \in S
  <2>1. 0 \in S
    <3>1. 0 \in 0..n
      BY <1>1
    <3> QED BY <1>5, <3>1
  <2>2. ASSUME NEW i \in 1..n, i - 1 \in S
        PROVE  i \in S
    <3>1. i \in 0..n /\ i # 0
      BY <1>1
    <3>2. f[i] = step(f[i - 1], i)
      BY <1>5, <3>1
    <3>3. f[i - 1] \in Stakes
      BY <2>2
    <3> QED BY <1>2, <3>1, <3>2, <3>3
  <2>3. \A i \in 1..n : i - 1 \in S => i \in S
    BY <2>2
  <2> HIDE DEF S
  <2> QED BY <1>1, <2>1, <2>3, IntervalInduction
<1>7. n \in 0..n
  BY <1>1
<1> QED BY <1>3, <1>6, <1>7

-----------------------------------------------------------------------------
\* The inductive invariant of the stake; unlike the schedule of slashes it
\* needs nothing of the clock but that eras are numbers.
StakeIInv ==
    /\ Stake \in Stakes
    /\ current_era \in Nat
    /\ unapplied_slashes \in [Era -> Seq(Nat)]

LEMMA StakeInit == LedgerInit => StakeIInv
<1> SUFFICES ASSUME LedgerInit PROVE StakeIInv
  OBVIOUS
<1>1. current_era \in Nat
  BY DEF LedgerInit, ErasInit
<1>2. unapplied_slashes \in [Era -> Seq(Nat)]
  BY DEF LedgerInit
<1>3. Stake \in Stakes
  <2> DEFINE l == [total |-> GenesisBond, active |-> GenesisBond,
                   unlocking |-> <<>>]
             q == << >>
  <2>1. GenesisBond \in Nat /\ free \in Nat /\ GenesisBond <= free
        /\ GenesisBond # 0
    BY LedgerAssumption DEF LedgerInit
  <2>2. q \in Seq(UnlockChunk) /\ DOMAIN q = {}
    OBVIOUS
  <2>3. Unlocking(q, DOMAIN q) = 0
    <3> HIDE DEF q
    <3> QED BY <2>2, TotalEmpty DEF Unlocking
  <2>4. GoodLedger([total |-> GenesisBond, active |-> GenesisBond, unlocking |-> q])
    <3> HIDE DEF q
    <3>1. GenesisBond = GenesisBond + Unlocking(q, DOMAIN q)
      BY <2>1, <2>3
    <3> QED BY <2>1, <2>2, <3>1, NewLedger
  <2>5. l.total = GenesisBond /\ SetLock(0, GenesisBond) = GenesisBond
    BY <2>1 DEF SetLock
  <2>6. [ledger |-> l, free |-> free, lock |-> SetLock(0, l.total)] \in Stakes
    <3>1. GoodLedger(l)
      BY <2>4
    <3> HIDE DEF l
    <3> QED BY <2>1, <2>5, <3>1, SomeStake
  <2>7. Stake = [ledger |-> l, free |-> free, lock |-> SetLock(0, l.total)]
    BY <2>5 DEF Stake, LedgerInit
  <2> QED BY <2>6, <2>7
<1> QED BY <1>1, <1>2, <1>3 DEF StakeIInv

\* What the invariant says of the variables.
LEMMA StakeNow ==
    ASSUME Stake \in Stakes
    PROVE  /\ free \in Nat /\ lock \in Nat
           /\ ledger = None => lock = 0
           /\ ledger # None =>
                /\ GoodLedger(ledger)
                /\ ledger.total <= free
                /\ ledger.total <= lock
                /\ ledger.total # 0 => lock = ledger.total
<1>1. Stake.ledger = ledger /\ Stake.free = free /\ Stake.lock = lock
  BY DEF Stake
<1> QED BY <1>1, StakeParts

\* update_ledger, with the balance after the call.
LEMMA UpdateGood ==
    ASSUME Stake \in Stakes, NEW l, GoodLedger(l), UpdateLedger(l),
           free' \in Nat, l.total <= free'
    PROVE  Stake' \in Stakes
<1>1. Stake' = [ledger |-> l, free |-> free', lock |-> SetLock(lock, l.total)]
  BY DEF UpdateLedger, Stake
<1>2. lock \in Nat
  BY StakeNow
<1>3. [ledger |-> l, free |-> free', lock |-> SetLock(lock, l.total)] \in Stakes
  BY <1>2, SomeStake
<1> QED BY <1>1, <1>3

LEMMA KillGood ==
    ASSUME Stake \in Stakes, KillStash, free' = free
    PROVE  Stake' \in Stakes
<1>1. Stake' = [ledger |-> None, free |-> free, lock |-> 0]
  BY DEF KillStash, Stake
<1> QED BY <1>1, StakeNow, NoStake

\* The calls on the ledger: the total moves with its parts, and the balance
\* covers it.
LEMMA BondGood ==
    ASSUME Stake \in Stakes, NEW value \in Nat, Bond(value)
    PROVE  Stake' \in Stakes
<1> DEFINE q == << >>
           bond == Min({value, free})
           l == [total |-> bond, active |-> bond, unlocking |-> q]
<1>1. free \in Nat /\ free' = free
  BY StakeNow DEF Bond
<1>2. bond \in Nat /\ bond <= free
  <2>1. bond = IF value <= free THEN value ELSE free
    BY <1>1, MinOfTwo
  <2> HIDE DEF bond
  <2> QED BY <1>1, <2>1
<1>3. UpdateLedger(l)
  BY DEF Bond
<1>4. q \in Seq(UnlockChunk) /\ DOMAIN q = {}
  OBVIOUS
<1> HIDE DEF q, bond
<1>5. bond = bond + Unlocking(q, DOMAIN q)
  <2>1. Unlocking(q, DOMAIN q) = 0
    BY <1>4, TotalEmpty DEF Unlocking
  <2> QED BY <1>2, <2>1
<1>6. GoodLedger(l) /\ l.total = bond
  BY <1>2, <1>4, <1>5, NewLedger
<1> HIDE DEF l
<1> QED BY <1>1, <1>2, <1>3, <1>6, UpdateGood

\* What an update of a ledger's fields makes of it.
LEMMA LedgerExcept ==
    ASSUME NEW l, GoodLedger(l), NEW a, NEW q, NEW new,
           new = [l EXCEPT !.active = a, !.unlocking = q]
    PROVE  new = [total |-> l.total, active |-> a, unlocking |-> q]
<1>1. l = [total |-> l.total, active |-> l.active, unlocking |-> l.unlocking]
  BY LedgerParts
<1> QED BY <1>1

LEMMA TotalExcept ==
    ASSUME NEW l, GoodLedger(l), NEW t, NEW a, NEW new,
           new = [l EXCEPT !.total = t, !.active = a]
    PROVE  new = [total |-> t, active |-> a, unlocking |-> l.unlocking]
<1>1. l = [total |-> l.total, active |-> l.active, unlocking |-> l.unlocking]
  BY LedgerParts
<1> QED BY <1>1

\* A ledger whose total and active part grow alike, or whose queue takes
\* what the active part loses.
Grown(l, extra) ==
    [l EXCEPT !.total = l.total + extra, !.active = l.active + extra]

LEMMA GrownLedger ==
    ASSUME NEW l, GoodLedger(l), NEW extra \in Nat
    PROVE  /\ GoodLedger(Grown(l, extra))
           /\ Grown(l, extra).total = l.total + extra
<1> DEFINE q == l.unlocking
           u == Unlocking(q, DOMAIN q)
           t == l.total + extra
           a == l.active + extra
           new == Grown(l, extra)
<1>1. l.total \in Nat /\ l.active \in Nat /\ q \in Seq(UnlockChunk)
      /\ l.total = l.active + u /\ u \in Nat
  BY LedgerParts
<1>2. t = a + u /\ a \in Nat
  <2> DEFINE lt == l.total
             la == l.active
  <2>1. lt \in Nat /\ la \in Nat /\ lt = la + u /\ u \in Nat
    BY <1>1
  <2> HIDE DEF u, lt, la
  <2>2. lt + extra = (la + extra) + u /\ la + extra \in Nat
    BY <2>1
  <2> QED BY <2>2 DEF lt, la
<1>3. GoodLedger([total |-> t, active |-> a, unlocking |-> q])
  <2> HIDE DEF q, t, a
  <2> QED BY <1>1, <1>2, NewLedger
<1>4. new = [total |-> t, active |-> a, unlocking |-> q]
  <2>1. new = [l EXCEPT !.total = t, !.active = a]
    BY Zenon DEF Grown
  <2> HIDE DEF t, a, new
  <2> QED BY <2>1, TotalExcept, Zenon
<1> HIDE DEF new, t, a, q
<1>5. new.total = t
  BY <1>4
<1> QED BY <1>3, <1>4, <1>5 DEF new, t

LEMMA UnbondedLedger ==
    ASSUME NEW l, GoodLedger(l), NEW out \in 0..l.active, NEW era \in Nat
    PROVE  GoodLedger([total |-> l.total, active |-> l.active - out,
                       unlocking |-> AddChunk(l.unlocking, out, era)])
<1> DEFINE q == l.unlocking
           u == Unlocking(q, DOMAIN q)
           p == AddChunk(q, out, era)
           w == Unlocking(p, DOMAIN p)
           a == l.active - out
<1>1. l.total \in Nat /\ l.active \in Nat /\ q \in Seq(UnlockChunk)
      /\ l.total = l.active + u /\ u \in Nat
  BY LedgerParts
<1>2. out \in Nat /\ out <= l.active
  BY <1>1
<1>3. p \in Seq(UnlockChunk) /\ w = u + out
  <2> HIDE DEF q
  <2> QED BY <1>1, <1>2, AddChunkGood
<1>4. l.total = a + w /\ a \in Nat
  <2> DEFINE lt == l.total
             la == l.active
  <2>1. /\ lt \in Nat /\ la \in Nat /\ lt = la + u /\ u \in Nat
        /\ out \in Nat /\ out <= la /\ w = u + out
    BY <1>1, <1>2, <1>3
  <2> HIDE DEF u, w, lt, la
  <2>2. lt = (la - out) + w /\ la - out \in Nat
    BY <2>1
  <2> QED BY <2>2 DEF lt, la
<1>5. GoodLedger([total |-> l.total, active |-> a, unlocking |-> p])
  <2> HIDE DEF q, p, a
  <2> QED BY <1>3, <1>4, NewLedger
<1> QED BY <1>5

\* bond_extra, and a reward that is staked.
LEMMA AddStakeGood ==
    ASSUME Stake \in Stakes, ledger # None, NEW extra \in Nat,
           free' \in Nat, ledger.total + extra <= free',
           UpdateLedger(Grown(ledger, extra))
    PROVE  Stake' \in Stakes
<1> DEFINE l == Grown(ledger, extra)
<1>1. GoodLedger(ledger)
  BY StakeNow
<1>2. GoodLedger(l) /\ l.total = ledger.total + extra
  BY <1>1, GrownLedger, Zenon
<1> HIDE DEF l
<1>3. l.total <= free'
  BY <1>2
<1>4. UpdateLedger(l)
  BY DEF l
<1> QED BY <1>2, <1>3, <1>4, UpdateGood

LEMMA BondExtraGood ==
    ASSUME Stake \in Stakes, NEW max_additional \in Nat,
           BondExtra(max_additional)
    PROVE  Stake' \in Stakes
<1> DEFINE room == free - ledger.total
           extra == Min({room, max_additional})
<1>1. /\ ledger # None /\ free >= ledger.total /\ free' = free
      /\ UpdateLedger(Grown(ledger, extra))
  BY DEF BondExtra, MayCall, Grown
<1>2. free \in Nat /\ ledger.total \in Nat
  BY <1>1, StakeNow, LedgerParts
<1>3. extra \in Nat /\ ledger.total + extra <= free
  <2>1. room \in Nat
    BY <1>1, <1>2
  <2>2. extra = IF room <= max_additional THEN room ELSE max_additional
    <3> HIDE DEF room
    <3> QED BY <2>1, MinOfTwo
  <2>3. extra \in Nat /\ extra <= room
    <3> HIDE DEF room, extra
    <3> QED BY <2>1, <2>2
  <2> HIDE DEF extra
  <2> QED BY <1>2, <2>3
<1>4. free' \in Nat /\ ledger.total + extra <= free'
  <2> HIDE DEF extra
  <2> QED BY <1>1, <1>2, <1>3
<1> HIDE DEF extra
<1> QED BY <1>1, <1>3, <1>4, AddStakeGood, Zenon

LEMMA RewardStakedGood ==
    ASSUME Stake \in Stakes, NEW amount \in Nat, RewardStaked(amount)
    PROVE  Stake' \in Stakes
<1>1. /\ ledger # None /\ free' = free + amount
      /\ UpdateLedger(Grown(ledger, amount))
  BY DEF RewardStaked, MayCall, Grown
<1>2. free \in Nat /\ ledger.total \in Nat /\ ledger.total <= free
  BY <1>1, StakeNow, LedgerParts
<1>3. free' \in Nat /\ ledger.total + amount <= free'
  BY <1>1, <1>2
<1> QED BY <1>1, <1>3, AddStakeGood, Zenon

LEMMA UnbondGood ==
    ASSUME Stake \in Stakes, NEW value \in Nat, current_era \in Nat,
           Unbond(value)
    PROVE  Stake' \in Stakes
<1> DEFINE asked == Min({value, ledger.active})
           out == IF ledger.active - asked < ExistentialDeposit
                  THEN ledger.active ELSE asked
           era == current_era + BondingDuration
           p == AddChunk(ledger.unlocking, out, era)
           a == ledger.active - out
           l == [total |-> ledger.total, active |-> a, unlocking |-> p]
<1>1. /\ ledger # None /\ free' = free
      /\ UpdateLedger([ledger EXCEPT !.active = a, !.unlocking = p])
  BY DEF Unbond, MayCall
<1>2. /\ ledger.active \in Nat /\ ledger.total \in Nat
      /\ free \in Nat /\ ledger.total <= free /\ GoodLedger(ledger)
  BY <1>1, StakeNow, LedgerParts
<1>3. out \in 0..ledger.active
  <2>1. asked = IF value <= ledger.active THEN value ELSE ledger.active
    BY <1>2, MinOfTwo
  <2> HIDE DEF asked
  <2> QED BY <1>2, <2>1
<1>4. era \in Nat
  BY LedgerAssumption
<1> HIDE DEF out, era
<1>5. GoodLedger(l)
  BY <1>2, <1>3, <1>4, UnbondedLedger
<1> HIDE DEF p, a
<1>6. [ledger EXCEPT !.active = a, !.unlocking = p] = l
  <2> DEFINE new == [ledger EXCEPT !.active = a, !.unlocking = p]
  <2>1. new = [ledger EXCEPT !.active = a, !.unlocking = p]
    BY Zenon
  <2> HIDE DEF new
  <2>2. new = l
    BY <1>2, <2>1, LedgerExcept, Zenon
  <2> QED BY <2>2, Zenon DEF new
<1>7. UpdateLedger(l)
  BY <1>1, <1>6, Zenon
<1>8. l.total = ledger.total
  OBVIOUS
<1> HIDE DEF l
<1>9. l.total <= free' /\ free' \in Nat
  BY <1>1, <1>2, <1>8, Zenon
<1> QED BY <1>5, <1>7, <1>9, UpdateGood

LEMMA WithdrawUnbondedGood ==
    ASSUME Stake \in Stakes, WithdrawUnbonded
    PROVE  Stake' \in Stakes
<1> DEFINE l == ConsolidateUnlocked(ledger)
<1>1. /\ ledger # None /\ free' = free
      /\ KillStash \/ UpdateLedger(l)
  BY DEF WithdrawUnbonded, MayCall
<1>2. GoodLedger(ledger) /\ free \in Nat /\ ledger.total <= free
  BY <1>1, StakeNow
<1>3. GoodLedger(l) /\ l.total <= ledger.total
  BY <1>2, ConsolidateGood
<1> HIDE DEF l
<1>4. ledger.total \in Nat /\ l.total \in Nat
  BY <1>2, <1>3, LedgerParts
<1>5. l.total <= free' /\ free' \in Nat
  BY <1>1, <1>2, <1>3, <1>4
<1>6. CASE KillStash
  BY <1>1, <1>6, KillGood
<1>7. CASE UpdateLedger(l)
  BY <1>3, <1>5, <1>7, UpdateGood
<1> QED BY <1>1, <1>6, <1>7

LEMMA RebondActionGood ==
    ASSUME Stake \in Stakes, NEW value \in Nat, Rebond(value)
    PROVE  Stake' \in Stakes
<1> DEFINE l == RebondLedger(ledger, value)
<1>1. ledger # None /\ free' = free /\ UpdateLedger(l)
  BY DEF Rebond, MayCall
<1>2. GoodLedger(ledger) /\ free \in Nat /\ ledger.total <= free
  BY <1>1, StakeNow
<1>3. GoodLedger(l) /\ l.total = ledger.total
  BY <1>2, RebondGood
<1> HIDE DEF l
<1> QED BY <1>1, <1>2, <1>3, UpdateGood

\* A balance that changes while the ledger stays.
LEMMA BalanceGood ==
    ASSUME Stake \in Stakes, ledger' = ledger, lock' = lock, free' \in Nat,
           free' >= free \/ free' >= lock
    PROVE  Stake' \in Stakes
<1>1. Stake' = [ledger |-> ledger, free |-> free', lock |-> lock]
  BY DEF Stake
<1>2. free \in Nat /\ lock \in Nat
  BY StakeNow
<1>3. CASE ledger = None
  <2>1. lock = 0
    BY <1>3, StakeNow
  <2> QED BY <1>1, <1>3, <2>1, NoStake
<1>4. CASE ledger # None
  <2>1. GoodLedger(ledger) /\ ledger.total <= free /\ ledger.total <= lock
        /\ (ledger.total # 0 => lock = ledger.total)
    BY <1>4, StakeNow
  <2>2. ledger.total \in Nat
    BY <2>1, LedgerParts
  <2>3. ledger.total <= free' /\ lock = SetLock(lock, ledger.total)
    BY <1>2, <2>1, <2>2 DEF SetLock
  <2>4. [ledger |-> ledger, free |-> free', lock |-> SetLock(lock, ledger.total)]
          \in Stakes
    BY <1>2, <2>1, <2>3, SomeStake
  <2> QED BY <1>1, <2>3, <2>4
<1> QED BY <1>3, <1>4

\* Offences, slashes and rotations.
LEMMA StakeIs ==
    ASSUME NEW st \in Stakes, ledger' = st.ledger, free' = st.free,
           lock' = st.lock
    PROVE  Stake' \in Stakes
<1>1. Stake' = [ledger |-> st.ledger, free |-> st.free, lock |-> st.lock]
  BY DEF Stake
<1>2. st = [ledger |-> st.ledger, free |-> st.free, lock |-> st.lock]
  BY StakeParts
<1>3. Stake' = st
  BY <1>1, <1>2, Zenon
<1> QED BY <1>3

LEMMA OnOffenceGood ==
    ASSUME StakeIInv, NEW slash_era \in Era, NEW amount \in Nat, NEW chills,
           NEW forces, OnOffence(slash_era, amount, chills, forces)
    PROVE  StakeIInv'
<1>1. Stake \in Stakes /\ current_era \in Nat
      /\ unapplied_slashes \in [Era -> Seq(Nat)]
  BY DEF StakeIInv
<1>2. current_era' = current_era
  BY DEF OnOffence, EnsureNewEra, PutForcing, eraVars
<1>3. CASE SlashDeferDuration = 0
  <2> DEFINE st == DoSlash(Stake, [amount |-> amount, era |-> slash_era])
  <2>1. /\ ledger' = st.ledger /\ free' = st.free /\ lock' = st.lock
        /\ unapplied_slashes' = unapplied_slashes
    BY <1>3 DEF OnOffence
  <2>2. slash_era \in Nat
    BY ErasAssumption DEF Era
  <2>3. st \in Stakes
    BY <1>1, <2>2, DoSlashGood
  <2> HIDE DEF st
  <2>4. Stake' \in Stakes
    BY <2>1, <2>3, StakeIs
  <2> QED BY <1>1, <1>2, <2>1, <2>4 DEF StakeIInv
<1>4. CASE SlashDeferDuration # 0
  <2>1. /\ unapplied_slashes' = [unapplied_slashes EXCEPT ![active_era] =
                                   Append(unapplied_slashes[active_era], amount)]
        /\ UNCHANGED <<ledger, free, lock>>
    BY <1>4 DEF OnOffence
  <2>2. unapplied_slashes' \in [Era -> Seq(Nat)]
    <3>1. CASE active_era \in Era
      <4>1. Append(unapplied_slashes[active_era], amount) \in Seq(Nat)
        BY <1>1, <3>1
      <4> QED BY <1>1, <2>1, <3>1, <4>1
    <3>2. CASE active_era \notin Era
      BY <1>1, <2>1, <3>2
    <3> QED BY <3>1, <3>2
  <2>3. Stake' = Stake
    BY <2>1 DEF Stake
  <2> QED BY <1>1, <1>2, <2>2, <2>3 DEF StakeIInv
<1> QED BY <1>3, <1>4

LEMMA CancelGood ==
    ASSUME StakeIInv, NEW e \in Era, NEW S, CancelDeferredSlash(e, S)
    PROVE  StakeIInv'
<1> DEFINE slashes == unapplied_slashes[e]
           kept == Subsequence(slashes, DOMAIN slashes \ S)
<1>1. /\ Stake \in Stakes /\ current_era \in Nat
      /\ unapplied_slashes \in [Era -> Seq(Nat)]
  BY DEF StakeIInv
<1>2. /\ unapplied_slashes' = [unapplied_slashes EXCEPT ![e] = kept]
      /\ UNCHANGED <<ledger, free, lock>> /\ current_era' = current_era
  BY DEF CancelDeferredSlash, stakeVars, eraVars
<1>3. kept \in Seq(Nat)
  <2> DEFINE D == DOMAIN slashes \ S
  <2>1. slashes \in Seq(Nat) /\ D \in SUBSET DOMAIN slashes
    BY <1>1
  <2> HIDE DEF slashes, D
  <2>2. Subsequence(slashes, D) \in Seq(Nat)
    BY <2>1, SubsequenceType
  <2> QED BY <2>2 DEF D
<1> HIDE DEF kept
<1>4. unapplied_slashes' \in [Era -> Seq(Nat)]
  BY <1>1, <1>2, <1>3
<1>5. Stake' = Stake
  BY <1>2 DEF Stake
<1> QED BY <1>1, <1>2, <1>4, <1>5 DEF StakeIInv

LEMMA RotateGood ==
    ASSUME StakeIInv, NEW elected \in BOOLEAN, NEW stake,
           RotateBlock(elected, stake)
    PROVE  StakeIInv'
<1>1. /\ Stake \in Stakes /\ current_era \in Nat
      /\ unapplied_slashes \in [Era -> Seq(Nat)]
  BY DEF StakeIInv
<1>2. current_era' \in Nat
  BY <1>1 DEF RotateBlock, BeginBlockRotating, RotateSession
<1>3. CASE StartsEra
  <2> DEFINE eras == ErasEnacted(active_era + 1)
             st == EnactEras(Stake, eras)
  <2>1. /\ ledger' = st.ledger /\ free' = st.free /\ lock' = st.lock
        /\ unapplied_slashes' =
             [e \in Era |-> IF e \in eras THEN <<>> ELSE unapplied_slashes[e]]
    BY <1>3 DEF RotateBlock, ApplyUnappliedSlashes
  <2>2. eras \in SUBSET Era
    BY DEF ErasEnacted
  <2> HIDE DEF eras
  <2>3. st \in Stakes
    BY <1>1, <2>2, EnactErasGood
  <2> HIDE DEF st
  <2>4. Stake' \in Stakes
    BY <2>1, <2>3, StakeIs
  <2>5. unapplied_slashes' \in [Era -> Seq(Nat)]
    <3>1. \A e \in Era : (IF e \in eras THEN <<>> ELSE unapplied_slashes[e])
                           \in Seq(Nat)
      BY <1>1
    <3> QED BY <2>1, <3>1
  <2> QED BY <1>2, <2>4, <2>5 DEF StakeIInv
<1>4. CASE ~StartsEra
  <2>1. UNCHANGED <<ledger, free, lock, unapplied_slashes>>
    BY <1>4 DEF RotateBlock
  <2>2. Stake' = Stake
    BY <2>1 DEF Stake
  <2> QED BY <1>1, <1>2, <2>1, <2>2 DEF StakeIInv
<1> QED BY <1>3, <1>4

\* Every step keeps the stake.
LEMMA StakeNext == StakeIInv /\ [LedgerNext]_ledgerVars => StakeIInv'
<1> SUFFICES ASSUME StakeIInv, [LedgerNext]_ledgerVars
             PROVE  StakeIInv'
  OBVIOUS
<1>1. /\ Stake \in Stakes /\ current_era \in Nat
      /\ unapplied_slashes \in [Era -> Seq(Nat)]
  BY DEF StakeIInv
<1>2. Amounts \subseteq Nat /\ SlashAmounts \subseteq Nat
  BY LedgerAssumption
<1>3. ASSUME UNCHANGED <<ledger, free, lock, current_era, unapplied_slashes>>
      PROVE  StakeIInv'
  <2>1. Stake' = Stake
    BY <1>3 DEF Stake
  <2> QED BY <1>1, <1>3, <2>1 DEF StakeIInv
<1>4. CASE Tick
  <2>1. UNCHANGED <<ledger, free, lock, current_era, unapplied_slashes>>
    BY <1>4 DEF Tick, BeginBlock, OnFinalize, stakeVars, slashVars
  <2> QED BY <1>3, <2>1
<1>5. ASSUME NEW elected \in BOOLEAN, NEW stake \in ExposedStakes,
             RotateBlock(elected, stake)
      PROVE  StakeIInv'
  BY <1>5, RotateGood
<1>6. ASSUME NEW v \in Amounts,
             Bond(v) \/ BondExtra(v) \/ Unbond(v) \/ Rebond(v)
               \/ RewardStaked(v) \/ Deposit(v) \/ Withdraw(v)
      PROVE  StakeIInv'
  <2>1. v \in Nat
    BY <1>2
  <2>2. UNCHANGED <<current_era, unapplied_slashes>>
    BY <1>6 DEF Bond, BondExtra, Unbond, Rebond, RewardStaked, Deposit,
                Withdraw, eraVars, slashVars
  <2>3. CASE Deposit(v)
    <3>1. free' = free + v /\ ledger' = ledger /\ lock' = lock
      BY <2>3 DEF Deposit
    <3>2. free \in Nat
      BY <1>1, StakeNow
    <3>3. free' \in Nat /\ free' >= free
      BY <2>1, <3>1, <3>2
    <3>4. Stake' \in Stakes
      BY <1>1, <3>1, <3>3, BalanceGood
    <3> QED BY <1>1, <2>2, <3>4 DEF StakeIInv
  <2>4. CASE Withdraw(v)
    <3>1. /\ free' = free - v /\ ledger' = ledger /\ lock' = lock
          /\ free - v >= lock
      BY <2>4 DEF Withdraw
    <3>2. free \in Nat /\ lock \in Nat
      BY <1>1, StakeNow
    <3>3. free' \in Nat /\ free' >= lock
      BY <2>1, <3>1, <3>2
    <3>4. Stake' \in Stakes
      BY <1>1, <3>1, <3>3, BalanceGood
    <3> QED BY <1>1, <2>2, <3>4 DEF StakeIInv
  <2>5. CASE Bond(v) \/ BondExtra(v) \/ Unbond(v) \/ Rebond(v)
               \/ RewardStaked(v)
    <3>1. Stake' \in Stakes
      BY <1>1, <2>1, <2>5, BondGood, BondExtraGood, UnbondGood,
         RebondActionGood, RewardStakedGood
    <3> QED BY <1>1, <2>2, <3>1 DEF StakeIInv
  <2> QED BY <1>6, <2>3, <2>4, <2>5
<1>7. CASE WithdrawUnbonded
  <2>1. UNCHANGED <<current_era, unapplied_slashes>>
    BY <1>7 DEF WithdrawUnbonded, eraVars, slashVars
  <2>2. Stake' \in Stakes
    BY <1>1, <1>7, WithdrawUnbondedGood
  <2> QED BY <1>1, <2>1, <2>2 DEF StakeIInv
<1>8. CASE Validate \/ Nominate \/ Chill \/ ChillOther
  <2>1. UNCHANGED <<ledger, free, lock, current_era, unapplied_slashes>>
    BY <1>8 DEF Validate, Nominate, Chill, ChillOther, eraVars, slashVars
  <2> QED BY <1>3, <2>1
<1>9. CASE ReapStash \/ ForceUnstake
  <2>1. KillStash /\ UNCHANGED <<free, current_era, unapplied_slashes>>
    BY <1>9 DEF ReapStash, ForceUnstake, eraVars, slashVars
  <2>2. Stake' \in Stakes
    BY <1>1, <2>1, KillGood
  <2> QED BY <1>1, <2>1, <2>2 DEF StakeIInv
<1>10. ASSUME NEW e \in Era, NEW amount \in SlashAmounts,
              NEW chills \in BOOLEAN, NEW forces \in BOOLEAN,
              OnOffence(e, amount, chills, forces)
       PROVE  StakeIInv'
  <2>1. amount \in Nat
    BY <1>2
  <2> QED BY <1>10, <2>1, OnOffenceGood
<1>11. ASSUME NEW e \in Era, NEW S, CancelDeferredSlash(e, S)
       PROVE  StakeIInv'
  BY <1>11, CancelGood
<1>12. CASE UNCHANGED ledgerVars
  <2>1. UNCHANGED <<ledger, free, lock, current_era, unapplied_slashes>>
    BY <1>12 DEF ledgerVars, eraVars, stakeVars, slashVars
  <2> QED BY <1>3, <2>1
<1> QED BY <1>4, <1>5, <1>6, <1>7, <1>8, <1>9, <1>10, <1>11, <1>12
        DEF LedgerNext

LEMMA StakeAlways == LedgerSpec => []StakeIInv
<1>1. StakeIInv /\ [LedgerNext]_ledgerVars => StakeIInv'
  BY StakeNext
<1> QED BY <1>1, StakeInit, PTL DEF LedgerSpec

\* The total of a ledger is its active part plus what is unlocking, for every
\* queue: through the merged chunk of unbond, the chunks consolidate_unlocked
\* drops, the youngest-first order of rebond and the proportional shares,
\* the dust and the left-overs of StakingLedger::slash.
THEOREM LedgersAddUp == LedgerSpec => []LedgerAddsUp
<1>1. StakeIInv => LedgerAddsUp
  <2> SUFFICES ASSUME StakeIInv, ledger # None
               PROVE  GoodLedger(ledger)
    BY DEF LedgerAddsUp, GoodLedger
  <2> QED BY StakeNow DEF StakeIInv
<1> QED BY <1>1, StakeAlways, PTL

\* update_ledger and kill_stash keep the lock at the total of the ledger, and
\* no call, reward, transfer or slash leaves a balance below it.
THEOREM StakeStaysLocked == LedgerSpec => []StakeIsLocked
<1>1. StakeIInv => StakeIsLocked
  BY StakeNow DEF StakeIInv, StakeIsLocked
<1> QED BY <1>1, StakeAlways, PTL
=============================================================================
