-------------------------- MODULE IntentionsProofs --------------------------
(***************************************************************************)
(* Proofs about the roles of stashes, the voter list and the snapshots for *)
(* the election, for every set of stashes, every genesis, limit and bag,   *)
(* and every upgrade.                                                      *)
(***************************************************************************)
EXTENDS Intentions, TotalsProofs, SequenceTheorems,
        WellFoundedInduction, TLAPS

\* The stashes a map has an entry for.
Present(map) == {s \in Stashes : map[s] # None}

RolesRecord ==
    [validators : [Stashes -> ValidatorPrefs \cup {None}],
     nominators : [Stashes -> Nominations \cup {None}],
     counters : [validators : Int, nominators : Int],
     voter_list : [Stashes -> Nat \cup {None}]]

\* Nobody has two roles, and nobody has one without a bond.
RolesApart(r) ==
    /\ Present(r.validators) \cap Present(r.nominators) = {}
    /\ Present(r.validators) \cup Present(r.nominators) \subseteq Present(active)

Counted(r) ==
    /\ r.counters.validators = Cardinality(Present(r.validators))
    /\ r.counters.nominators = Cardinality(Present(r.nominators))

Listed(r) ==
    Present(r.voter_list) = Present(r.validators) \cup Present(r.nominators)

\* The two maps, the counters and the list are in step.
InStep(r) == r \in RolesRecord /\ RolesApart(r) /\ Counted(r) /\ Listed(r)

IntentionsTypeOK ==
    /\ active \in [Stashes -> (0..MaxActive) \cup {None}]
    /\ Roles \in RolesRecord
    /\ last_nonzero_slash \in [Stashes -> Nat]
    /\ "min_commission" \in DOMAIN config
    /\ config.min_commission \in Parts
    /\ current_era \in Nat
    /\ storage \in [version : Releases, legacy : BOOLEAN]
    /\ live \in BOOLEAN

\* The inductive invariant: what the storage of every release promises.  The
\* counters are of V7; the list of V8 holds the nominators only, and that of a
\* chain that serves calls (a fresh one, or one that was migrated) everybody.
IntentionsIInv ==
    /\ IntentionsTypeOK
    /\ RolesApart(Roles)
    /\ live => storage.version \in {"V7", "V9"}
    /\ storage.version \in {"V7", "V8", "V9"} => Counted(Roles)
    /\ live => Listed(Roles)
    /\ storage.version = "V8" => Present(voter_list) = Present(nominators)

-----------------------------------------------------------------------------
(***************************************************************************)
(* Bags, and sets of stashes.                                              *)
(***************************************************************************)

LEMMA LeastExists ==
    ASSUME NEW S \in SUBSET Nat, S # {}
    PROVE  Min(S) \in S
<1> DEFINE below == {p \in Nat \X Nat : p[1] < p[2]}
<1>1. OpToRel(<, Nat) = below
  BY DEF OpToRel
<1>2. IsWellFoundedOn(below, Nat)
  BY <1>1, NatLessThanWellFounded
<1>3. PICK x \in S : \A y \in S : ~(<<y, x>> \in below)
  <2> HIDE DEF below
  <2> QED BY <1>2, WFMin
<1>4. \A y \in S : x <= y
  <2> TAKE y \in S
  <2>1. x \in Nat /\ y \in Nat /\ ~(y < x)
    BY <1>3
  <2> QED BY <2>1
<1>5. \E m \in S : \A y \in S : m <= y
  BY <1>4
<1> QED BY <1>5 DEF Min

\* Every stake has a bag.
LEMMA BagOfType ==
    ASSUME NEW stake \in 0..MaxActive
    PROVE  BagOf(VoteWeight(stake)) \in Nat
<1> DEFINE bags == {t \in BagThresholds : t >= VoteWeight(stake)}
<1>1. bags # {} /\ bags \in SUBSET Nat
  BY IntentionsAssumption DEF VoteWeight
<1>2. Min(bags) \in Nat
  BY <1>1, LeastExists
<1> QED BY <1>2 DEF BagOf

LEMMA SlashableType ==
    ASSUME IntentionsTypeOK, NEW s \in Stashes
    PROVE  SlashableBalanceOf(s) \in 0..MaxActive
BY IntentionsAssumption DEF IntentionsTypeOK, SlashableBalanceOf

LEMMA PresentFinite ==
    ASSUME NEW map
    PROVE  IsFiniteSet(Present(map)) /\ Cardinality(Present(map)) \in Nat
<1>1. Present(map) \in SUBSET Stashes /\ IsFiniteSet(Stashes)
  BY IntentionsAssumption DEF Present
<1>2. IsFiniteSet(Present(map))
  BY <1>1, FS_Subset
<1> QED BY <1>2, FS_CardinalityType

\* What an entry more and an entry less do to the count of a map.
LEMMA PresentAdd ==
    ASSUME NEW map, NEW new, NEW s \in Stashes, new[s] # None,
           \A t \in Stashes \ {s} : new[t] = map[t]
    PROVE  /\ Present(new) = Present(map) \cup {s}
           /\ Cardinality(Present(new)) =
                Cardinality(Present(map)) + (IF map[s] = None THEN 1 ELSE 0)
<1>1. Present(new) = Present(map) \cup {s}
  BY DEF Present
<1>2. s \in Present(map) <=> map[s] # None
  BY DEF Present
<1>3. IsFiniteSet(Present(map)) /\ Cardinality(Present(map)) \in Nat
  BY PresentFinite
<1>4. Cardinality(Present(map) \cup {s}) =
        IF s \in Present(map) THEN Cardinality(Present(map))
        ELSE Cardinality(Present(map)) + 1
  BY <1>3, FS_AddElement
<1>5. Cardinality(Present(new)) = Cardinality(Present(map) \cup {s})
  BY <1>1, Zenon
<1>6. Cardinality(Present(new)) =
        Cardinality(Present(map)) + (IF map[s] = None THEN 1 ELSE 0)
  BY <1>2, <1>3, <1>4, <1>5
<1> QED BY <1>1, <1>6, Zenon

LEMMA PresentRemove ==
    ASSUME NEW map, NEW new, NEW s \in Stashes, new[s] = None, map[s] # None,
           \A t \in Stashes \ {s} : new[t] = map[t]
    PROVE  /\ Present(new) = Present(map) \ {s}
           /\ Cardinality(Present(new)) = Cardinality(Present(map)) - 1
<1>1. Present(new) = Present(map) \ {s}
  BY DEF Present
<1>2. s \in Present(map)
  BY DEF Present
<1>3. IsFiniteSet(Present(map))
  BY PresentFinite
<1>4. Cardinality(Present(map) \ {s}) = Cardinality(Present(map)) - 1
  BY <1>2, <1>3, FS_RemoveElement
<1>5. Cardinality(Present(new)) = Cardinality(Present(map) \ {s})
  BY <1>1, Zenon
<1> QED BY <1>1, <1>4, <1>5, Zenon

-----------------------------------------------------------------------------
(***************************************************************************)
(* do_add_nominator and its siblings keep maps, counters and list in step. *)
(***************************************************************************)

LEMMA RemoveNominatorParts ==
    ASSUME NEW r \in RolesRecord, NEW s \in Stashes, r.nominators[s] # None,
           NEW q, q = DoRemoveNominator(r, s)
    PROVE  /\ q \in RolesRecord
           /\ q.validators = r.validators
           /\ q.nominators = [r.nominators EXCEPT ![s] = None]
           /\ q.counters.validators = r.counters.validators
           /\ q.counters.nominators = r.counters.nominators - 1
           /\ q.voter_list = [r.voter_list EXCEPT ![s] = None]
<1>1. q = [r EXCEPT !.nominators = [r.nominators EXCEPT ![s] = None],
                    !.counters = [r.counters EXCEPT !.nominators = @ - 1],
                    !.voter_list = [r.voter_list EXCEPT ![s] = None]]
  BY DEF DoRemoveNominator, OnRemove, RolesRecord
<1>2. /\ r.counters \in [validators : Int, nominators : Int]
      /\ r.nominators \in [Stashes -> Nominations \cup {None}]
      /\ r.voter_list \in [Stashes -> Nat \cup {None}]
  BY DEF RolesRecord
<1>3. /\ [r.counters EXCEPT !.nominators = @ - 1]
           \in [validators : Int, nominators : Int]
      /\ [r.nominators EXCEPT ![s] = None] \in [Stashes -> Nominations \cup {None}]
      /\ [r.voter_list EXCEPT ![s] = None] \in [Stashes -> Nat \cup {None}]
  BY <1>2
<1> QED BY <1>1, <1>2, <1>3 DEF RolesRecord

LEMMA RemoveNominatorInStep ==
    ASSUME NEW r, InStep(r), NEW s \in Stashes, NEW q, q = DoRemoveNominator(r, s)
    PROVE  /\ InStep(q)
           /\ q.nominators[s] = None
           /\ q.validators = r.validators
<1>1. CASE r.nominators[s] = None
  BY <1>1 DEF DoRemoveNominator
<1>2. CASE r.nominators[s] # None
  <2>1. /\ r \in RolesRecord /\ RolesApart(r) /\ Counted(r) /\ Listed(r)
        /\ r.nominators \in [Stashes -> Nominations \cup {None}]
        /\ r.voter_list \in [Stashes -> Nat \cup {None}]
    BY DEF InStep, RolesRecord
  <2>2. /\ q \in RolesRecord
        /\ q.validators = r.validators
        /\ q.nominators = [r.nominators EXCEPT ![s] = None]
        /\ q.counters.validators = r.counters.validators
        /\ q.counters.nominators = r.counters.nominators - 1
        /\ q.voter_list = [r.voter_list EXCEPT ![s] = None]
    BY <1>2, <2>1, RemoveNominatorParts
  <2>10. /\ q.nominators[s] = None /\ q.voter_list[s] = None
         /\ \A t \in Stashes \ {s} : /\ q.nominators[t] = r.nominators[t]
                                   /\ q.voter_list[t] = r.voter_list[t]
    BY <2>1, <2>2
  <2>3. /\ Present(q.nominators) = Present(r.nominators) \ {s}
        /\ Cardinality(Present(q.nominators)) =
             Cardinality(Present(r.nominators)) - 1
    <3>1. \A t \in Stashes \ {s} : q.nominators[t] = r.nominators[t]
      BY <2>10
    <3>2. q.nominators[s] = None
      BY <2>10
    <3> QED BY <1>2, <3>1, <3>2, PresentRemove
  <2>4. Present(q.voter_list) = Present(r.voter_list) \ {s}
    BY <2>10 DEF Present
  <2>5. s \in Present(r.nominators)
    BY <1>2 DEF Present
  <2>6. Present(q.validators) = Present(r.validators)
    BY <2>2, Zenon
  <2>7. RolesApart(q)
    BY <2>1, <2>3, <2>6, SMTT(20) DEF RolesApart
  <2>11. Listed(q)
    BY <2>1, <2>3, <2>4, <2>5, <2>6, SMTT(20) DEF RolesApart, Listed
  <2>8. Cardinality(Present(r.nominators)) \in Nat
    BY PresentFinite
  <2>9. Counted(q)
    BY <2>1, <2>2, <2>3, <2>6, <2>8 DEF Counted
  <2> QED BY <2>2, <2>7, <2>9, <2>10, <2>11 DEF InStep
<1> QED BY <1>1, <1>2
LEMMA RemoveValidatorParts ==
    ASSUME NEW r \in RolesRecord, NEW s \in Stashes, r.validators[s] # None,
           NEW q, q = DoRemoveValidator(r, s)
    PROVE  /\ q \in RolesRecord
           /\ q.nominators = r.nominators
           /\ q.validators = [r.validators EXCEPT ![s] = None]
           /\ q.counters.nominators = r.counters.nominators
           /\ q.counters.validators = r.counters.validators - 1
           /\ q.voter_list = [r.voter_list EXCEPT ![s] = None]
<1>1. q = [r EXCEPT !.validators = [r.validators EXCEPT ![s] = None],
                    !.counters = [r.counters EXCEPT !.validators = @ - 1],
                    !.voter_list = [r.voter_list EXCEPT ![s] = None]]
  BY DEF DoRemoveValidator, OnRemove, RolesRecord
<1>2. /\ r.counters \in [validators : Int, nominators : Int]
      /\ r.validators \in [Stashes -> ValidatorPrefs \cup {None}]
      /\ r.voter_list \in [Stashes -> Nat \cup {None}]
  BY DEF RolesRecord
<1>3. /\ [r.counters EXCEPT !.validators = @ - 1]
           \in [validators : Int, nominators : Int]
      /\ [r.validators EXCEPT ![s] = None] \in [Stashes -> ValidatorPrefs \cup {None}]
      /\ [r.voter_list EXCEPT ![s] = None] \in [Stashes -> Nat \cup {None}]
  BY <1>2
<1> QED BY <1>1, <1>2, <1>3 DEF RolesRecord

LEMMA RemoveValidatorInStep ==
    ASSUME NEW r, InStep(r), NEW s \in Stashes, NEW q, q = DoRemoveValidator(r, s)
    PROVE  /\ InStep(q)
           /\ q.validators[s] = None
           /\ q.nominators = r.nominators
<1>1. CASE r.validators[s] = None
  BY <1>1 DEF DoRemoveValidator
<1>2. CASE r.validators[s] # None
  <2>1. /\ r \in RolesRecord /\ RolesApart(r) /\ Counted(r) /\ Listed(r)
        /\ r.validators \in [Stashes -> ValidatorPrefs \cup {None}]
        /\ r.voter_list \in [Stashes -> Nat \cup {None}]
    BY DEF InStep, RolesRecord
  <2>2. /\ q \in RolesRecord
        /\ q.nominators = r.nominators
        /\ q.validators = [r.validators EXCEPT ![s] = None]
        /\ q.counters.nominators = r.counters.nominators
        /\ q.counters.validators = r.counters.validators - 1
        /\ q.voter_list = [r.voter_list EXCEPT ![s] = None]
    BY <1>2, <2>1, RemoveValidatorParts
  <2>10. /\ q.validators[s] = None /\ q.voter_list[s] = None
         /\ \A t \in Stashes \ {s} : /\ q.validators[t] = r.validators[t]
                                   /\ q.voter_list[t] = r.voter_list[t]
    BY <2>1, <2>2
  <2>3. /\ Present(q.validators) = Present(r.validators) \ {s}
        /\ Cardinality(Present(q.validators)) =
             Cardinality(Present(r.validators)) - 1
    <3>1. \A t \in Stashes \ {s} : q.validators[t] = r.validators[t]
      BY <2>10
    <3>2. q.validators[s] = None
      BY <2>10
    <3> QED BY <1>2, <3>1, <3>2, PresentRemove
  <2>4. Present(q.voter_list) = Present(r.voter_list) \ {s}
    BY <2>10 DEF Present
  <2>5. s \in Present(r.validators)
    BY <1>2 DEF Present
  <2>6. Present(q.nominators) = Present(r.nominators)
    BY <2>2, Zenon
  <2>7. RolesApart(q)
    BY <2>1, <2>3, <2>6, SMTT(20) DEF RolesApart
  <2>11. Listed(q)
    BY <2>1, <2>3, <2>4, <2>5, <2>6, SMTT(20) DEF RolesApart, Listed
  <2>8. Cardinality(Present(r.validators)) \in Nat
    BY PresentFinite
  <2>9. Counted(q)
    BY <2>1, <2>2, <2>3, <2>6, <2>8 DEF Counted
  <2> QED BY <2>2, <2>7, <2>9, <2>10, <2>11 DEF InStep
<1> QED BY <1>1, <1>2

LEMMA AddNominatorParts ==
    ASSUME IntentionsTypeOK, NEW r, InStep(r), NEW s \in Stashes,
           r.validators[s] = None, NEW n \in Nominations,
           NEW q, q = DoAddNominator(r, s, n)
    PROVE  /\ q \in RolesRecord
           /\ q.validators = r.validators
           /\ q.nominators = [r.nominators EXCEPT ![s] = n]
           /\ q.counters.validators = r.counters.validators
           /\ q.counters.nominators =
                r.counters.nominators + (IF r.nominators[s] = None THEN 1 ELSE 0)
           /\ q.voter_list[s] # None
           /\ \A t \in Stashes \ {s} : q.voter_list[t] = r.voter_list[t]
<1> DEFINE bag == BagOf(VoteWeight(SlashableBalanceOf(s)))
           list == IF r.nominators[s] = None
                   THEN [r.voter_list EXCEPT ![s] = bag] ELSE r.voter_list
           more == IF r.nominators[s] = None THEN r.counters.nominators + 1
                   ELSE r.counters.nominators
<1>1. /\ r \in RolesRecord
      /\ r.counters \in [validators : Int, nominators : Int]
      /\ r.nominators \in [Stashes -> Nominations \cup {None}]
      /\ r.voter_list \in [Stashes -> Nat \cup {None}]
  BY DEF InStep, RolesRecord
<1>2. (r.voter_list[s] # None) <=> (r.nominators[s] # None)
  <2>1. s \in Present(r.voter_list) <=> s \in Present(r.validators)
                                        \/ s \in Present(r.nominators)
    BY DEF InStep, Listed
  <2> QED BY <2>1 DEF Present
<1>3. bag \in Nat
  BY SlashableType, BagOfType
<1>4. q = [r EXCEPT !.voter_list = list,
                    !.nominators = [r.nominators EXCEPT ![s] = n],
                    !.counters = [r.counters EXCEPT !.nominators = more]]
  BY <1>1, <1>2 DEF DoAddNominator, OnInsert, RolesRecord
<1>5. /\ list \in [Stashes -> Nat \cup {None}]
      /\ list[s] # None
      /\ \A t \in Stashes \ {s} : list[t] = r.voter_list[t]
  <2>1. None \notin Nat
    BY IntentionsAssumption
  <2> HIDE DEF bag
  <2> QED BY <1>1, <1>2, <1>3, <2>1
<1>6. /\ [r.nominators EXCEPT ![s] = n] \in [Stashes -> Nominations \cup {None}]
      /\ [r.counters EXCEPT !.nominators = more]
           \in [validators : Int, nominators : Int]
  BY <1>1
<1>7. more = r.counters.nominators + (IF r.nominators[s] = None THEN 1 ELSE 0)
  BY <1>1
<1> HIDE DEF list, more
<1> QED BY <1>1, <1>4, <1>5, <1>6, <1>7 DEF RolesRecord

LEMMA AddNominatorInStep ==
    ASSUME IntentionsTypeOK, NEW r, InStep(r), NEW s \in Stashes,
           r.validators[s] = None, NEW n \in Nominations, active[s] # None,
           NEW q, q = DoAddNominator(r, s, n)
    PROVE  InStep(q)
<1>1. /\ q \in RolesRecord
      /\ q.validators = r.validators
      /\ q.nominators = [r.nominators EXCEPT ![s] = n]
      /\ q.counters.validators = r.counters.validators
      /\ q.counters.nominators =
           r.counters.nominators + (IF r.nominators[s] = None THEN 1 ELSE 0)
      /\ q.voter_list[s] # None
      /\ \A t \in Stashes \ {s} : q.voter_list[t] = r.voter_list[t]
  BY AddNominatorParts
<1>2. /\ RolesApart(r) /\ Counted(r) /\ Listed(r)
      /\ r.nominators \in [Stashes -> Nominations \cup {None}]
  BY DEF InStep, RolesRecord
<1>3. /\ q.nominators[s] # None
      /\ \A t \in Stashes \ {s} : q.nominators[t] = r.nominators[t]
  BY <1>1, <1>2, IntentionsAssumption
<1>4. /\ Present(q.nominators) = Present(r.nominators) \cup {s}
      /\ Cardinality(Present(q.nominators)) =
           Cardinality(Present(r.nominators))
             + (IF r.nominators[s] = None THEN 1 ELSE 0)
  <2>1. q.nominators[s] # None
    BY <1>3
  <2>2. \A t \in Stashes \ {s} : q.nominators[t] = r.nominators[t]
    BY <1>3
  <2> QED BY <2>1, <2>2, PresentAdd
<1>5. Present(q.voter_list) = Present(r.voter_list) \cup {s}
  BY <1>1 DEF Present
<1>6. Present(q.validators) = Present(r.validators)
  BY <1>1, Zenon
<1>7. s \notin Present(r.validators) /\ s \in Present(active)
  BY DEF Present
<1>8. RolesApart(q)
  BY <1>2, <1>4, <1>6, <1>7, SMTT(20) DEF RolesApart
<1>9. Listed(q)
  BY <1>2, <1>4, <1>5, <1>6, SMTT(20) DEF Listed
<1>10. Counted(q)
  BY <1>1, <1>2, <1>4, <1>6 DEF Counted
<1> QED BY <1>1, <1>8, <1>9, <1>10 DEF InStep

LEMMA AddValidatorParts ==
    ASSUME IntentionsTypeOK, NEW r, InStep(r), NEW s \in Stashes,
           r.nominators[s] = None, NEW p \in ValidatorPrefs,
           NEW q, q = DoAddValidator(r, s, p)
    PROVE  /\ q \in RolesRecord
           /\ q.nominators = r.nominators
           /\ q.validators = [r.validators EXCEPT ![s] = p]
           /\ q.counters.nominators = r.counters.nominators
           /\ q.counters.validators =
                r.counters.validators + (IF r.validators[s] = None THEN 1 ELSE 0)
           /\ q.voter_list[s] # None
           /\ \A t \in Stashes \ {s} : q.voter_list[t] = r.voter_list[t]
<1> DEFINE bag == BagOf(VoteWeight(SlashableBalanceOf(s)))
           list == IF r.validators[s] = None
                   THEN [r.voter_list EXCEPT ![s] = bag] ELSE r.voter_list
           more == IF r.validators[s] = None THEN r.counters.validators + 1
                   ELSE r.counters.validators
<1>1. /\ r \in RolesRecord
      /\ r.counters \in [validators : Int, nominators : Int]
      /\ r.validators \in [Stashes -> ValidatorPrefs \cup {None}]
      /\ r.voter_list \in [Stashes -> Nat \cup {None}]
  BY DEF InStep, RolesRecord
<1>2. (r.voter_list[s] # None) <=> (r.validators[s] # None)
  <2>1. s \in Present(r.voter_list) <=> s \in Present(r.nominators)
                                        \/ s \in Present(r.validators)
    BY DEF InStep, Listed
  <2> QED BY <2>1 DEF Present
<1>3. bag \in Nat
  BY SlashableType, BagOfType
<1>4. q = [r EXCEPT !.voter_list = list,
                    !.validators = [r.validators EXCEPT ![s] = p],
                    !.counters = [r.counters EXCEPT !.validators = more]]
  BY <1>1, <1>2 DEF DoAddValidator, OnInsert, RolesRecord
<1>5. /\ list \in [Stashes -> Nat \cup {None}]
      /\ list[s] # None
      /\ \A t \in Stashes \ {s} : list[t] = r.voter_list[t]
  <2>1. None \notin Nat
    BY IntentionsAssumption
  <2> HIDE DEF bag
  <2> QED BY <1>1, <1>2, <1>3, <2>1
<1>6. /\ [r.validators EXCEPT ![s] = p] \in [Stashes -> ValidatorPrefs \cup {None}]
      /\ [r.counters EXCEPT !.validators = more]
           \in [validators : Int, nominators : Int]
  BY <1>1
<1>7. more = r.counters.validators + (IF r.validators[s] = None THEN 1 ELSE 0)
  BY <1>1
<1> HIDE DEF list, more
<1> QED BY <1>1, <1>4, <1>5, <1>6, <1>7 DEF RolesRecord

LEMMA AddValidatorInStep ==
    ASSUME IntentionsTypeOK, NEW r, InStep(r), NEW s \in Stashes,
           r.nominators[s] = None, NEW p \in ValidatorPrefs, active[s] # None,
           NEW q, q = DoAddValidator(r, s, p)
    PROVE  InStep(q)
<1>1. /\ q \in RolesRecord
      /\ q.nominators = r.nominators
      /\ q.validators = [r.validators EXCEPT ![s] = p]
      /\ q.counters.nominators = r.counters.nominators
      /\ q.counters.validators =
           r.counters.validators + (IF r.validators[s] = None THEN 1 ELSE 0)
      /\ q.voter_list[s] # None
      /\ \A t \in Stashes \ {s} : q.voter_list[t] = r.voter_list[t]
  BY AddValidatorParts
<1>2. /\ RolesApart(r) /\ Counted(r) /\ Listed(r)
      /\ r.validators \in [Stashes -> ValidatorPrefs \cup {None}]
  BY DEF InStep, RolesRecord
<1>3. /\ q.validators[s] # None
      /\ \A t \in Stashes \ {s} : q.validators[t] = r.validators[t]
  BY <1>1, <1>2, IntentionsAssumption
<1>4. /\ Present(q.validators) = Present(r.validators) \cup {s}
      /\ Cardinality(Present(q.validators)) =
           Cardinality(Present(r.validators))
             + (IF r.validators[s] = None THEN 1 ELSE 0)
  <2>1. q.validators[s] # None
    BY <1>3
  <2>2. \A t \in Stashes \ {s} : q.validators[t] = r.validators[t]
    BY <1>3
  <2> QED BY <2>1, <2>2, PresentAdd
<1>5. Present(q.voter_list) = Present(r.voter_list) \cup {s}
  BY <1>1 DEF Present
<1>6. Present(q.nominators) = Present(r.nominators)
  BY <1>1, Zenon
<1>7. s \notin Present(r.nominators) /\ s \in Present(active)
  BY DEF Present
<1>8. RolesApart(q)
  BY <1>2, <1>4, <1>6, <1>7, SMTT(20) DEF RolesApart
<1>9. Listed(q)
  BY <1>2, <1>4, <1>5, <1>6, SMTT(20) DEF Listed
<1>10. Counted(q)
  BY <1>1, <1>2, <1>4, <1>6 DEF Counted
<1> QED BY <1>1, <1>8, <1>9, <1>10 DEF InStep

LEMMA ChillInStep ==
    ASSUME NEW r, InStep(r), NEW s \in Stashes, NEW q, q = ChillStash(r, s)
    PROVE  /\ InStep(q)
           /\ q.validators[s] = None /\ q.nominators[s] = None
<1> DEFINE p == DoRemoveValidator(r, s)
<1>1. InStep(p) /\ p.validators[s] = None
  BY RemoveValidatorInStep
<1>2. q = DoRemoveNominator(p, s)
  BY DEF ChillStash
<1> HIDE DEF p
<1>3. InStep(q) /\ q.nominators[s] = None /\ q.validators = p.validators
  BY <1>1, <1>2, RemoveNominatorInStep
<1> QED BY <1>1, <1>3


-----------------------------------------------------------------------------
(***************************************************************************)
(* The steps.                                                              *)
(***************************************************************************)

LEMMA LiveInStep ==
    ASSUME IntentionsIInv, live
    PROVE  InStep(Roles)
BY DEF IntentionsIInv, IntentionsTypeOK, InStep

\* Calls are made, and the chain stays in step, while it is live.
LEMMA InStepIInv ==
    ASSUME IntentionsIInv, live, live' = live, storage' = storage,
           IntentionsTypeOK', InStep(Roles)'
    PROVE  IntentionsIInv'
<1>1. /\ RolesApart(Roles)' /\ Counted(Roles)' /\ Listed(Roles)'
  BY DEF InStep
<1>2. storage.version \in {"V7", "V9"} /\ storage'.version = storage.version
  BY DEF IntentionsIInv
<1> QED BY <1>1, <1>2 DEF IntentionsIInv

LEMMA RolesAreSet ==
    ASSUME NEW r \in RolesRecord, SetRoles(r)
    PROVE  Roles' = r
BY DEF SetRoles, Roles, RolesRecord

LEMMA InStepLater ==
    ASSUME NEW r, InStep(r), active' = active, Roles' = r
    PROVE  InStep(Roles)'
BY DEF InStep, RolesApart, Counted, Listed

\* A call that only touches roles.
LEMMA OnlyRolesIInv ==
    ASSUME IntentionsIInv, live, NEW r, InStep(r), OnlyRoles(r)
    PROVE  IntentionsIInv'
<1>1. r \in RolesRecord
  BY DEF InStep
<1>2. Roles' = r /\ active' = active /\ live' = live /\ storage' = storage
  BY <1>1, RolesAreSet DEF OnlyRoles
<1>3. InStep(Roles)'
  BY <1>2, InStepLater
<1>4. IntentionsTypeOK'
  BY <1>1, <1>2 DEF OnlyRoles, IntentionsIInv, IntentionsTypeOK
<1> QED BY <1>2, <1>3, <1>4, InStepIInv

\* A call that moves stake; the list may be told.
LEMMA StakeIInv ==
    ASSUME IntentionsIInv, live, NEW s \in Stashes, NEW stake \in Nat,
           SetActive(s, stake),
           \/ voter_list' = voter_list
           \/ voter_list' = Relist(s)
    PROVE  IntentionsIInv'
<1>1. /\ stake \in 0..MaxActive
      /\ active' = [active EXCEPT ![s] = stake]
      /\ active \in [Stashes -> (0..MaxActive) \cup {None}]
      /\ active' \in [Stashes -> (0..MaxActive) \cup {None}]
      /\ active'[s] = stake
      /\ live' = live /\ storage' = storage
      /\ validators' = validators /\ nominators' = nominators
      /\ counters' = counters
  BY IntentionsAssumption DEF SetActive, IntentionsIInv, IntentionsTypeOK
<1>2. InStep(Roles) /\ Roles \in RolesRecord
  BY LiveInStep DEF InStep
<1>3. voter_list \in [Stashes -> Nat \cup {None}]
  BY <1>2 DEF Roles, RolesRecord
<1>4. /\ voter_list' \in [Stashes -> Nat \cup {None}]
      /\ \A t \in Stashes : (voter_list'[t] # None) <=> (voter_list[t] # None)
  <2>1. BagOf(VoteWeight(stake)) \in Nat
    BY <1>1, BagOfType
  <2>2. None \notin Nat
    BY IntentionsAssumption
  <2>3. CASE voter_list' = Relist(s)
    <3>1. voter_list' = IF voter_list[s] # None
                        THEN [voter_list EXCEPT ![s] = BagOf(VoteWeight(stake))]
                        ELSE voter_list
      BY <1>1, <2>3 DEF Relist, OnUpdate
    <3> QED BY <1>3, <2>1, <2>2, <3>1
  <2> QED BY <1>3, <2>3
<1>5. Present(voter_list') = Present(voter_list)
  BY <1>4 DEF Present
<1>6. Present(active) \subseteq Present(active')
  BY <1>1, IntentionsAssumption DEF Present
<1>7. Roles' \in RolesRecord
  BY <1>1, <1>2, <1>4 DEF Roles, RolesRecord
<1>8. /\ Roles.validators = validators /\ Roles.nominators = nominators
      /\ Roles.counters = counters /\ Roles.voter_list = voter_list
  BY DEF Roles
<1>9. /\ Roles'.validators = validators /\ Roles'.nominators = nominators
      /\ Roles'.counters = counters /\ Roles'.voter_list = voter_list'
  BY <1>1 DEF Roles
<1>10. RolesApart(Roles)'
  <2>1. RolesApart(Roles)
    BY <1>2 DEF InStep
  <2> QED BY <1>6, <1>8, <1>9, <2>1 DEF RolesApart
<1>11. Counted(Roles)'
  BY <1>2, <1>8, <1>9 DEF InStep, Counted
<1>12. Listed(Roles)'
  BY <1>2, <1>5, <1>8, <1>9 DEF InStep, Listed
<1>13. IntentionsTypeOK'
  BY <1>1, <1>7 DEF SetActive, IntentionsIInv, IntentionsTypeOK
<1> QED BY <1>1, <1>7, <1>10, <1>11, <1>12, <1>13, InStepIInv DEF InStep

LEMMA KillStashIInv ==
    ASSUME IntentionsIInv, NEW s \in Stashes, KillStash(s)
    PROVE  IntentionsIInv'
<1> DEFINE q == ChillStash(Roles, s)
<1>1. live /\ live' = live /\ storage' = storage /\ SetRoles(q)
      /\ active' = [active EXCEPT ![s] = None]
  BY DEF KillStash
<1>2. InStep(Roles)
  BY <1>1, LiveInStep
<1>3. InStep(q) /\ q.validators[s] = None /\ q.nominators[s] = None
  BY <1>2, ChillInStep
<1> HIDE DEF q
<1>4. Roles' = q /\ q \in RolesRecord
  BY <1>1, <1>3, RolesAreSet DEF InStep
<1>5. active \in [Stashes -> (0..MaxActive) \cup {None}]
  BY DEF IntentionsIInv, IntentionsTypeOK
<1>6. Present(active') = Present(active) \ {s}
  BY <1>1, <1>5 DEF Present
<1>7. s \notin Present(q.validators) /\ s \notin Present(q.nominators)
  BY <1>3 DEF Present
<1>8. RolesApart(Roles)'
  <2>1. RolesApart(q)
    BY <1>3 DEF InStep
  <2> QED BY <1>4, <1>6, <1>7, <2>1 DEF RolesApart
<1>9. Counted(Roles)' /\ Listed(Roles)'
  BY <1>3, <1>4 DEF InStep, Counted, Listed
<1>10. last_nonzero_slash' \in [Stashes -> Nat]
  BY DEF KillStash, IntentionsIInv, IntentionsTypeOK
<1>11. active' \in [Stashes -> (0..MaxActive) \cup {None}]
  BY <1>1, <1>5
<1>12. IntentionsTypeOK'
  BY <1>1, <1>4, <1>10, <1>11 DEF KillStash, IntentionsIInv, IntentionsTypeOK
<1> QED BY <1>1, <1>4, <1>8, <1>9, <1>12, InStepIInv DEF InStep

\* A record of roles that differs from one in step only in what the entries
\* hold is in step.
LEMMA SameKeysInStep ==
    ASSUME NEW r, InStep(r), NEW q \in RolesRecord,
           q.counters = r.counters, q.voter_list = r.voter_list,
           Present(q.validators) = Present(r.validators),
           Present(q.nominators) = Present(r.nominators)
    PROVE  InStep(q)
<1>1. RolesApart(q)
  BY DEF InStep, RolesApart
<1>2. Counted(q)
  BY DEF InStep, Counted
<1>3. Listed(q)
  BY DEF InStep, Listed
<1> QED BY <1>1, <1>2, <1>3 DEF InStep

LEMMA ForceApplyIInv ==
    ASSUME IntentionsIInv, NEW s \in Stashes, ForceApplyMinCommission(s)
    PROVE  IntentionsIInv'
<1> DEFINE fee == IF validators[s].commission < config.min_commission
                  THEN config.min_commission ELSE validators[s].commission
           prefs == [validators[s] EXCEPT !.commission = fee]
           q == [Roles EXCEPT !.validators[s].commission =
                    IF @ < config.min_commission THEN config.min_commission
                    ELSE @]
<1>1. live /\ validators[s] # None /\ OnlyRoles(q)
  BY DEF ForceApplyMinCommission, IsValidator
<1>2. InStep(Roles) /\ Roles \in RolesRecord
  BY <1>1, LiveInStep DEF InStep
<1>3. validators \in [Stashes -> ValidatorPrefs \cup {None}]
  BY <1>2 DEF Roles, RolesRecord
<1>4. validators[s] \in ValidatorPrefs /\ config.min_commission \in Parts
  BY <1>1, <1>3 DEF IntentionsIInv, IntentionsTypeOK
<1>5. prefs \in ValidatorPrefs
  BY <1>4 DEF ValidatorPrefs
<1>6. prefs # None
  BY <1>5, IntentionsAssumption
<1>7. q = [validators |-> [validators EXCEPT ![s] = prefs],
           nominators |-> nominators, counters |-> counters,
           voter_list |-> voter_list]
  BY <1>3, <1>4 DEF Roles, ValidatorPrefs
<1> HIDE DEF prefs, q
<1>8. Present([validators EXCEPT ![s] = prefs]) = Present(validators)
  BY <1>1, <1>3, <1>6 DEF Present
<1>9. [validators EXCEPT ![s] = prefs] \in [Stashes -> ValidatorPrefs \cup {None}]
  BY <1>3, <1>5
<1>10. /\ q \in RolesRecord
       /\ q.counters = Roles.counters /\ q.voter_list = Roles.voter_list
       /\ q.nominators = Roles.nominators
       /\ q.validators = [validators EXCEPT ![s] = prefs]
       /\ Roles.validators = validators
  BY <1>2, <1>7, <1>9 DEF Roles, RolesRecord
<1>11. /\ Present(q.validators) = Present(Roles.validators)
       /\ Present(q.nominators) = Present(Roles.nominators)
  BY <1>8, <1>10
<1>12. InStep(q)
  BY <1>2, <1>10, <1>11, SameKeysInStep
<1> QED BY <1>1, <1>12, OnlyRolesIInv

\* swap_remove shortens a list of targets.
LEMMA KickTargetType ==
    ASSUME NEW targets \in Seq(Stashes), NEW v \in Stashes
    PROVE  /\ KickTarget(targets, v) \in Seq(Stashes)
           /\ Len(KickTarget(targets, v)) <= Len(targets)
<1>1. CASE v \in Range(targets)
  <2> DEFINE i == Min({k \in DOMAIN targets : targets[k] = v})
             swapped == [targets EXCEPT ![i] = Last(targets)]
  <2>1. Len(targets) \in Nat /\ Len(targets) >= 1
    BY <1>1 DEF Range
  <2>2. Last(targets) \in Stashes
    BY <2>1 DEF Last
  <2>3. swapped \in Seq(Stashes) /\ Len(swapped) = Len(targets)
    <3> DEFINE places == {k \in DOMAIN targets : targets[k] = v}
    <3>1. places # {} /\ places \subseteq 1..Len(targets)
      BY <1>1 DEF Range
    <3>2. i \in 1..Len(targets)
      <4>1. places \in SUBSET Nat /\ i = Min(places)
        BY <3>1
      <4> HIDE DEF places, i
      <4> QED BY <3>1, <4>1, LeastExists
    <3> HIDE DEF i
    <3> QED BY <2>2, <3>2, ExceptSeq
  <2>4. KickTarget(targets, v) = Front(swapped)
    BY <1>1 DEF KickTarget, SwapRemove
  <2> HIDE DEF swapped
  <2>5. Front(swapped) = SubSeq(swapped, 1, Len(swapped) - 1)
    BY DEF Front
  <2>6. /\ SubSeq(swapped, 1, Len(swapped) - 1) \in Seq(Stashes)
        /\ Len(SubSeq(swapped, 1, Len(swapped) - 1)) = Len(swapped) - 1
    BY <2>1, <2>3
  <2> QED BY <2>1, <2>3, <2>4, <2>5, <2>6
<1>2. CASE v \notin Range(targets)
  BY <1>2 DEF KickTarget
<1> QED BY <1>1, <1>2

LEMMA KickIInv ==
    ASSUME IntentionsIInv, NEW v \in Stashes, NEW who, Kick(v, who)
    PROVE  IntentionsIInv'
<1> DEFINE left(n) == [nominators[n] EXCEPT !.targets = KickTarget(@, v)]
           map == [n \in Stashes |-> IF n \in who /\ IsNominator(n)
                                     THEN left(n) ELSE nominators[n]]
           q == [Roles EXCEPT !.nominators = map]
<1>1. live /\ OnlyRoles(q)
  BY DEF Kick
<1>2. InStep(Roles) /\ Roles \in RolesRecord
  BY <1>1, LiveInStep DEF InStep
<1>3. nominators \in [Stashes -> Nominations \cup {None}]
  BY <1>2 DEF Roles, RolesRecord
<1>4. ASSUME NEW n \in Stashes, IsNominator(n)
      PROVE  left(n) \in Nominations /\ left(n) # None
  <2>1. nominators[n] \in Nominations
    BY <1>3, <1>4 DEF IsNominator
  <2>2. /\ nominators[n].targets \in Seq(Stashes)
        /\ Len(nominators[n].targets) <= MaxNominations
    BY <2>1 DEF Nominations
  <2>3. /\ KickTarget(nominators[n].targets, v) \in Seq(Stashes)
        /\ Len(KickTarget(nominators[n].targets, v)) <= MaxNominations
    <3>1. Len(KickTarget(nominators[n].targets, v)) <= Len(nominators[n].targets)
          /\ KickTarget(nominators[n].targets, v) \in Seq(Stashes)
      BY <2>2, KickTargetType
    <3>2. MaxNominations \in Nat
      BY IntentionsAssumption
    <3> QED BY <2>2, <3>1, <3>2
  <2>4. left(n) \in Nominations
    BY <2>1, <2>3 DEF Nominations
  <2> QED BY <2>4, IntentionsAssumption
<1> HIDE DEF left
<1>5. map \in [Stashes -> Nominations \cup {None}]
  BY <1>3, <1>4
<1>6. Present(map) = Present(nominators)
  BY <1>4 DEF Present, IsNominator
<1> HIDE DEF map
<1>7. /\ q \in RolesRecord
      /\ q.counters = Roles.counters /\ q.voter_list = Roles.voter_list
      /\ q.validators = Roles.validators
      /\ q.nominators = map /\ Roles.nominators = nominators
  BY <1>2, <1>5 DEF Roles, RolesRecord
<1> HIDE DEF q
<1>8. InStep(q)
  BY <1>2, <1>6, <1>7, SameKeysInStep
<1> QED BY <1>1, <1>8, OnlyRolesIInv

LEMMA ValidateIInv ==
    ASSUME IntentionsIInv, NEW s \in Stashes, NEW prefs \in Prefs,
           Validate(s, prefs)
    PROVE  IntentionsIInv'
<1> DEFINE p == DoRemoveNominator(Roles, s)
<1>1. live /\ active[s] # None /\ OnlyRoles(DoAddValidator(p, s, prefs))
  BY DEF Validate, NewValidator
<1>2. InStep(Roles) /\ prefs \in ValidatorPrefs /\ IntentionsTypeOK
  BY <1>1, LiveInStep, IntentionsAssumption DEF IntentionsIInv
<1>3. InStep(p) /\ p.nominators[s] = None
  BY <1>2, RemoveNominatorInStep
<1> HIDE DEF p
<1>4. InStep(DoAddValidator(p, s, prefs))
  BY <1>1, <1>2, <1>3, AddValidatorInStep
<1> QED BY <1>1, <1>4, OnlyRolesIInv

LEMMA NominateIInv ==
    ASSUME IntentionsIInv, NEW s \in Stashes, NEW targets \in TargetLists,
           Nominate(s, targets)
    PROVE  IntentionsIInv'
<1> DEFINE p == DoRemoveValidator(Roles, s)
           n == [targets |-> targets, submitted_in |-> current_era]
<1>1. live /\ active[s] # None /\ OnlyRoles(DoAddNominator(p, s, n))
  BY DEF Nominate
<1>2. InStep(Roles) /\ IntentionsTypeOK
  BY <1>1, LiveInStep DEF IntentionsIInv
<1>3. n \in Nominations
  BY <1>2, IntentionsAssumption DEF Nominate, IntentionsTypeOK, Nominations
<1>4. InStep(p) /\ p.validators[s] = None
  BY <1>2, RemoveValidatorInStep
<1> HIDE DEF p, n
<1>5. InStep(DoAddNominator(p, s, n))
  BY <1>1, <1>2, <1>3, <1>4, AddNominatorInStep
<1> QED BY <1>1, <1>5, OnlyRolesIInv

LEMMA OffenceIInv ==
    ASSUME IntentionsIInv, NEW s, NEW era \in Nat, NEW slashed, NEW chills,
           s \in Stashes, OffenceReported(s, era, slashed, chills)
    PROVE  IntentionsIInv'
<1> DEFINE q == IF chills THEN ChillStash(Roles, s) ELSE Roles
<1>1. live /\ live' = live /\ storage' = storage /\ active' = active
      /\ SetRoles(q)
  BY DEF OffenceReported
<1>2. InStep(Roles)
  BY <1>1, LiveInStep
<1>3. InStep(q)
  <2>1. InStep(ChillStash(Roles, s))
    BY <1>2, ChillInStep
  <2> QED BY <1>2, <2>1
<1> HIDE DEF q
<1>4. q \in RolesRecord
  BY <1>3 DEF InStep
<1>5. Roles' = q
  BY <1>1, <1>4, RolesAreSet
<1>6. InStep(Roles)'
  BY <1>1, <1>3, <1>5, InStepLater
<1>7. last_nonzero_slash' \in [Stashes -> Nat]
  BY DEF OffenceReported, LaterSlashEra, IntentionsIInv, IntentionsTypeOK
<1>8. IntentionsTypeOK'
  BY <1>1, <1>4, <1>5, <1>7 DEF OffenceReported, IntentionsIInv, IntentionsTypeOK
<1> QED BY <1>1, <1>6, <1>8, InStepIInv

LEMMA StakeCallsIInv ==
    ASSUME IntentionsIInv, NEW s \in Stashes, NEW value \in Amounts,
           \/ Bond(s, value) \/ BondMore(s, value) \/ Unbond(s, value)
           \/ RewardStaked(s, value) \/ DoSlash(s, value)
    PROVE  IntentionsIInv'
<1>1. /\ value \in Nat /\ ExistentialDeposit \in Nat
      /\ active[s] # None => active[s] \in Nat
  BY IntentionsAssumption DEF IntentionsIInv, IntentionsTypeOK
<1>2. CASE Bond(s, value)
  BY <1>1, <1>2, StakeIInv DEF Bond
<1>3. CASE BondMore(s, value)
  <2>1. active[s] + value \in Nat
    BY <1>1, <1>3 DEF BondMore
  <2> QED BY <1>3, <2>1, StakeIInv DEF BondMore
<1>4. CASE Unbond(s, value)
  <2> DEFINE rest == active[s] - value
             kept == IF rest < ExistentialDeposit THEN 0 ELSE rest
  <2>1. kept \in Nat
    BY <1>1, <1>4 DEF Unbond
  <2>2. live /\ SetActive(s, kept) /\ voter_list' = Relist(s)
    BY <1>4 DEF Unbond
  <2> HIDE DEF kept
  <2> QED BY <2>1, <2>2, StakeIInv
<1>5. CASE RewardStaked(s, value)
  <2>1. active[s] + value \in Nat
    BY <1>1, <1>5 DEF RewardStaked
  <2> QED BY <1>5, <2>1, StakeIInv DEF RewardStaked
<1>6. CASE DoSlash(s, value)
  <2> DEFINE kept == IF active[s] - value < ExistentialDeposit THEN 0
                     ELSE active[s] - value
  <2>1. kept \in Nat
    BY <1>1, <1>6 DEF DoSlash
  <2>2. live /\ SetActive(s, kept) /\ voter_list' = voter_list
    BY <1>6 DEF DoSlash
  <2> HIDE DEF kept
  <2> QED BY <2>1, <2>2, StakeIInv
<1> QED BY <1>2, <1>3, <1>4, <1>5, <1>6

LEMMA RebagIInv ==
    ASSUME IntentionsIInv, NEW s \in Stashes, Rebag(s)
    PROVE  IntentionsIInv'
<1> DEFINE bag == BagOf(VoteWeight(SlashableBalanceOf(s)))
<1>1. /\ live /\ voter_list[s] # None
      /\ voter_list' = [voter_list EXCEPT ![s] = bag]
      /\ active' = active /\ live' = live /\ storage' = storage
      /\ validators' = validators /\ nominators' = nominators
      /\ counters' = counters
  BY DEF Rebag, OnUpdate
<1>2. InStep(Roles) /\ Roles \in RolesRecord
  BY <1>1, LiveInStep DEF InStep
<1>3. bag \in Nat /\ bag # None
  BY SlashableType, BagOfType, IntentionsAssumption DEF IntentionsIInv
<1> HIDE DEF bag
<1>4. voter_list \in [Stashes -> Nat \cup {None}]
  BY <1>2 DEF Roles, RolesRecord
<1>5. voter_list' \in [Stashes -> Nat \cup {None}]
  BY <1>1, <1>3, <1>4
<1>6. Present(voter_list') = Present(voter_list)
  BY <1>1, <1>3, <1>4 DEF Present
<1>7. Roles' \in RolesRecord
  BY <1>1, <1>2, <1>5 DEF Roles, RolesRecord
<1>8. /\ Roles.validators = validators /\ Roles.nominators = nominators
      /\ Roles.counters = counters /\ Roles.voter_list = voter_list
      /\ Roles'.validators = validators /\ Roles'.nominators = nominators
      /\ Roles'.counters = counters /\ Roles'.voter_list = voter_list'
  BY <1>1 DEF Roles
<1>9. RolesApart(Roles)'
  BY <1>1, <1>2, <1>8 DEF InStep, RolesApart
<1>10. Counted(Roles)'
  BY <1>2, <1>8 DEF InStep, Counted
<1>11. Listed(Roles)'
  BY <1>2, <1>6, <1>8 DEF InStep, Listed
<1>12. IntentionsTypeOK'
  BY <1>1, <1>7 DEF Rebag, IntentionsIInv, IntentionsTypeOK
<1> QED BY <1>1, <1>7, <1>9, <1>10, <1>11, <1>12, InStepIInv DEF InStep

\* Steps that touch neither stakes nor roles.
LEMMA RolesStay ==
    ASSUME IntentionsIInv, UNCHANGED <<active, roleVars, storage, live>>,
           IntentionsTypeOK'
    PROVE  IntentionsIInv'
<1>1. Roles' = Roles /\ active' = active /\ storage' = storage /\ live' = live
      /\ voter_list' = voter_list /\ nominators' = nominators
  BY DEF roleVars, Roles
<1>2. RolesApart(Roles)' <=> RolesApart(Roles)
  BY <1>1 DEF RolesApart
<1>3. Counted(Roles)' <=> Counted(Roles)
  BY <1>1 DEF Counted
<1>4. Listed(Roles)' <=> Listed(Roles)
  BY <1>1 DEF Listed
<1> QED BY <1>1, <1>2, <1>3, <1>4 DEF IntentionsIInv

LEMMA ConfigIInv ==
    ASSUME IntentionsIInv, NEW ops \in ConfigOps, SetStakingConfigs(ops)
    PROVE  IntentionsIInv'
<1>1. /\ UNCHANGED <<active, roleVars, storage, live>>
      /\ Roles' = Roles
  BY DEF SetStakingConfigs, roleVars, Roles
<1>2. /\ "min_commission" \in DOMAIN config /\ config.min_commission \in Parts
      /\ ops.min_commission \in Parts \cup {Noop, Unset}
      /\ ConfigDefault.min_commission \in Parts
  BY IntentionsAssumption, PerbillAssumption
     DEF IntentionsIInv, IntentionsTypeOK, ConfigDefault, Parts
<1>3. /\ "min_commission" \in DOMAIN config'
      /\ config'.min_commission =
           ApplyConfigOp(config.min_commission, ops.min_commission,
                         ConfigDefault.min_commission)
  BY <1>2 DEF SetStakingConfigs
<1>4. config'.min_commission \in Parts
  BY <1>2, <1>3 DEF ApplyConfigOp
<1>5. IntentionsTypeOK'
  BY <1>1, <1>3, <1>4 DEF SetStakingConfigs, IntentionsIInv, IntentionsTypeOK
<1> QED BY <1>1, <1>5, RolesStay

LEMMA PlanEraIInv ==
    ASSUME IntentionsIInv, PlanEra
    PROVE  IntentionsIInv'
<1>1. /\ UNCHANGED <<active, roleVars, storage, live>>
      /\ Roles' = Roles
  BY DEF PlanEra, roleVars, Roles
<1>2. IntentionsTypeOK'
  BY <1>1 DEF PlanEra, IntentionsIInv, IntentionsTypeOK
<1> QED BY <1>1, <1>2, RolesStay

-----------------------------------------------------------------------------
(***************************************************************************)
(* Upgrades and genesis.                                                   *)
(***************************************************************************)

LEMMA MigrateV6IInv ==
    ASSUME IntentionsIInv, MigrateV6
    PROVE  IntentionsIInv'
<1>1. /\ Roles' = Roles /\ active' = active /\ ~live /\ live' = live
      /\ storage' = [version |-> "V6", legacy |-> FALSE]
  BY DEF MigrateV6, roleVars, Roles
<1>2. IntentionsTypeOK'
  BY <1>1 DEF MigrateV6, IntentionsIInv, IntentionsTypeOK, Releases
<1>3. RolesApart(Roles)'
  BY <1>1 DEF IntentionsIInv, RolesApart
<1> QED BY <1>1, <1>2, <1>3 DEF IntentionsIInv

LEMMA MigrateV7IInv ==
    ASSUME IntentionsIInv, MigrateV7
    PROVE  IntentionsIInv'
<1>1. /\ active' = active /\ ~live /\ live' = live
      /\ validators' = validators /\ nominators' = nominators
      /\ voter_list' = voter_list
      /\ storage' = [storage EXCEPT !.version = "V7"]
      /\ storage \in [version : Releases, legacy : BOOLEAN]
  BY DEF MigrateV7, IntentionsIInv, IntentionsTypeOK
<1>2. /\ Present(validators) = {s \in Stashes : IsValidator(s)}
      /\ Present(nominators) = {s \in Stashes : IsNominator(s)}
  BY DEF Present, IsValidator, IsNominator
<1>3. counters' = [validators |-> Cardinality(Present(validators)),
                   nominators |-> Cardinality(Present(nominators))]
  BY <1>2, Zenon DEF MigrateV7
<1>4. Cardinality(Present(validators)) \in Nat
      /\ Cardinality(Present(nominators)) \in Nat
  BY PresentFinite
<1>5. Roles' = [validators |-> validators, nominators |-> nominators,
                counters |-> counters', voter_list |-> voter_list]
  BY <1>1 DEF Roles
<1>6. counters' \in [validators : Int, nominators : Int]
      /\ counters'.validators = Cardinality(Present(validators))
      /\ counters'.nominators = Cardinality(Present(nominators))
  BY <1>3, <1>4
<1>7. Roles \in RolesRecord
  BY DEF IntentionsIInv, IntentionsTypeOK
<1>8. Roles' \in RolesRecord
  BY <1>5, <1>6, <1>7 DEF RolesRecord, Roles
<1>9. Counted(Roles)'
  BY <1>5, <1>6 DEF Counted
<1>10. RolesApart(Roles)'
  <2>1. RolesApart(Roles)
    BY DEF IntentionsIInv
  <2> QED BY <1>1, <1>5, <2>1 DEF RolesApart, Roles
<1>11. storage' \in [version : Releases, legacy : BOOLEAN]
       /\ storage'.version = "V7"
  BY <1>1 DEF Releases
<1>12. IntentionsTypeOK'
  BY <1>1, <1>8, <1>11 DEF MigrateV7, IntentionsIInv, IntentionsTypeOK
<1> QED BY <1>1, <1>9, <1>10, <1>11, <1>12 DEF IntentionsIInv

LEMMA MigrateV8IInv ==
    ASSUME IntentionsIInv, MigrateV8
    PROVE  IntentionsIInv'
<1>1. /\ active' = active /\ ~live' /\ live' \in BOOLEAN
      /\ validators' = validators /\ nominators' = nominators
      /\ counters' = counters /\ storage.version = "V7"
      /\ storage' = [storage EXCEPT !.version = "V8"]
      /\ storage \in [version : Releases, legacy : BOOLEAN]
  BY DEF MigrateV8, IntentionsIInv, IntentionsTypeOK
<1>2. /\ voter_list' \in [Stashes -> Nat \cup {None}]
      /\ \A s \in Stashes : (voter_list'[s] # None) <=> IsNominator(s)
  <2>1. \A s \in Stashes : BagOf(VoteWeight(SlashableBalanceOf(s))) \in Nat
    BY SlashableType, BagOfType DEF IntentionsIInv
  <2>2. None \notin Nat
    BY IntentionsAssumption
  <2> QED BY <2>1, <2>2 DEF MigrateV8
<1>3. Present(voter_list') = Present(nominators')
  BY <1>1, <1>2 DEF Present, IsNominator
<1>4. /\ Roles \in RolesRecord /\ RolesApart(Roles) /\ Counted(Roles)
  BY <1>1 DEF IntentionsIInv, IntentionsTypeOK
<1>5. /\ Roles'.validators = Roles.validators
      /\ Roles'.nominators = Roles.nominators
      /\ Roles'.counters = Roles.counters
  BY <1>1 DEF Roles
<1>6. Roles' \in RolesRecord
  BY <1>1, <1>2, <1>4 DEF RolesRecord, Roles
<1>7. RolesApart(Roles)'
  BY <1>1, <1>4, <1>5 DEF RolesApart
<1>8. Counted(Roles)'
  BY <1>4, <1>5 DEF Counted
<1>9. storage' \in [version : Releases, legacy : BOOLEAN]
      /\ storage'.version = "V8"
  BY <1>1 DEF Releases
<1>10. IntentionsTypeOK'
  BY <1>1, <1>6, <1>9 DEF MigrateV8, IntentionsIInv, IntentionsTypeOK
<1> QED BY <1>1, <1>3, <1>7, <1>8, <1>9, <1>10 DEF IntentionsIInv

LEMMA MigrateV9IInv ==
    ASSUME IntentionsIInv, MigrateV9
    PROVE  IntentionsIInv'
<1>1. /\ active' = active /\ live' /\ live' \in BOOLEAN
      /\ validators' = validators /\ nominators' = nominators
      /\ counters' = counters /\ storage.version = "V8"
      /\ storage' = [storage EXCEPT !.version = "V9"]
      /\ storage \in [version : Releases, legacy : BOOLEAN]
  BY DEF MigrateV9, IntentionsIInv, IntentionsTypeOK
<1>2. /\ Roles \in RolesRecord /\ RolesApart(Roles) /\ Counted(Roles)
      /\ Present(voter_list) = Present(nominators)
      /\ voter_list \in [Stashes -> Nat \cup {None}]
  BY <1>1 DEF IntentionsIInv, IntentionsTypeOK, Roles, RolesRecord
<1>3. /\ voter_list' \in [Stashes -> Nat \cup {None}]
      /\ \A s \in Stashes : (voter_list'[s] # None) <=>
           (voter_list[s] # None \/ IsValidator(s))
  <2>1. \A s \in Stashes : BagOf(VoteWeight(SlashableBalanceOf(s))) \in Nat
    BY SlashableType, BagOfType DEF IntentionsIInv
  <2>2. None \notin Nat
    BY IntentionsAssumption
  <2> QED BY <1>2, <2>1, <2>2 DEF MigrateV9
<1>4. Present(voter_list') = Present(validators) \cup Present(nominators)
  <2>1. \A s \in Stashes : (voter_list[s] # None) <=> (nominators[s] # None)
    BY <1>2 DEF Present
  <2> QED BY <1>3, <2>1 DEF Present, IsValidator
<1>5. /\ Roles'.validators = Roles.validators
      /\ Roles'.nominators = Roles.nominators
      /\ Roles'.counters = Roles.counters
      /\ Roles'.voter_list = voter_list'
      /\ Roles.validators = validators /\ Roles.nominators = nominators
  BY <1>1 DEF Roles
<1>6. Roles' \in RolesRecord
  BY <1>1, <1>2, <1>3 DEF RolesRecord, Roles
<1>7. RolesApart(Roles)'
  BY <1>1, <1>2, <1>5 DEF RolesApart
<1>8. Counted(Roles)'
  BY <1>2, <1>5 DEF Counted
<1>9. Listed(Roles)'
  BY <1>4, <1>5 DEF Listed
<1>10. storage' \in [version : Releases, legacy : BOOLEAN]
       /\ storage'.version = "V9"
  BY <1>1 DEF Releases
<1>11. IntentionsTypeOK'
  BY <1>1, <1>6, <1>10 DEF MigrateV9, IntentionsIInv, IntentionsTypeOK
<1> QED BY <1>1, <1>7, <1>8, <1>9, <1>10, <1>11 DEF IntentionsIInv

LEMMA IntentionsInitIInv == Init => IntentionsIInv
<1> SUFFICES ASSUME Init PROVE IntentionsIInv
  OBVIOUS
<1>1. DefaultPrefs \in ValidatorPrefs /\ DefaultPrefs # None
  <2>1. DefaultPrefs \in ValidatorPrefs
    BY PerbillAssumption DEF DefaultPrefs, ValidatorPrefs, Parts
  <2> QED BY <2>1, IntentionsAssumption
<1>2. GenesisBond \in 0..MaxActive /\ GenesisBond # None
  BY IntentionsAssumption
<1>3. /\ validators \in [Stashes -> ValidatorPrefs \cup {None}]
      /\ Present(validators) = Genesis("Validator")
  BY <1>1 DEF Init, Present, Genesis
<1>4. \A s \in Genesis("Nominator") :
        /\ [targets |-> GenesisStatus[s].targets, submitted_in |-> 0] \in Nominations
        /\ [targets |-> GenesisStatus[s].targets, submitted_in |-> 0] # None
  BY IntentionsAssumption DEF Genesis
<1>5. /\ nominators \in [Stashes -> Nominations \cup {None}]
      /\ Present(nominators) = Genesis("Nominator")
  <2>1. nominators = [s \in Stashes |->
                        IF s \in Genesis("Nominator")
                        THEN [targets |-> GenesisStatus[s].targets,
                              submitted_in |-> 0]
                        ELSE None]
    BY DEF Init
  <2>2. \A s \in Stashes : nominators[s] # None <=> s \in Genesis("Nominator")
    BY <1>4, <2>1
  <2>3. nominators \in [Stashes -> Nominations \cup {None}]
    BY <1>4, <2>1
  <2>4. Genesis("Nominator") \subseteq Stashes
    BY DEF Genesis
  <2> QED BY <2>2, <2>3, <2>4 DEF Present
<1>6. active \in [Stashes -> (0..MaxActive) \cup {None}]
  BY <1>2 DEF Init
<1>7. /\ Genesis("Validator") \cap Genesis("Nominator") = {}
      /\ Genesis("Validator") \cup Genesis("Nominator") \subseteq Present(active)
  BY <1>2 DEF Init, Present, Genesis
<1>8. PICK v \in Releases \ {"V9"}, g \in BOOLEAN :
         /\ g => v = "V7"
         /\ live = g
         /\ storage = [version |-> v, legacy |-> v = "V5"]
         /\ counters = CountersAt(v)
         /\ voter_list =
              [s \in Stashes |->
                 IF s \in (IF g THEN GenesisStakers ELSE ListedAt(v))
                 THEN BagOf(VoteWeight(GenesisBond)) ELSE None]
  BY DEF Init
<1> DEFINE listed == IF g THEN GenesisStakers ELSE ListedAt(v)
           bag == BagOf(VoteWeight(GenesisBond))
<1>9. bag \in Nat /\ bag # None
  BY <1>2, BagOfType, IntentionsAssumption
<1>10. listed \subseteq Stashes
  BY DEF ListedAt, GenesisStakers, Genesis
<1>11. voter_list = [s \in Stashes |-> IF s \in listed THEN bag ELSE None]
  BY <1>8
<1> HIDE DEF bag, listed
<1>12. voter_list \in [Stashes -> Nat \cup {None}] /\ Present(voter_list) = listed
  BY <1>9, <1>10, <1>11 DEF Present
<1>13. /\ Cardinality(Genesis("Validator")) \in Nat
       /\ Cardinality(Genesis("Nominator")) \in Nat
  <2>1. /\ Cardinality(Present(validators)) \in Nat
        /\ Cardinality(Present(nominators)) \in Nat
    BY PresentFinite
  <2> QED BY <1>3, <1>5, <2>1, Zenon
<1>14. counters \in [validators : Int, nominators : Int]
  BY <1>8, <1>13 DEF CountersAt
<1>15. /\ Roles.validators = validators /\ Roles.nominators = nominators
       /\ Roles.counters = counters /\ Roles.voter_list = voter_list
       /\ Roles \in RolesRecord
  BY <1>3, <1>5, <1>12, <1>14 DEF Roles, RolesRecord
<1>16. RolesApart(Roles)
  BY <1>3, <1>5, <1>7, <1>15 DEF RolesApart
<1>17. storage.version \in {"V7", "V8", "V9"} => Counted(Roles)
  <2> SUFFICES ASSUME v \in {"V7", "V8", "V9"} PROVE Counted(Roles)
    BY <1>8
  <2>1. /\ counters.validators = Cardinality(Genesis("Validator"))
        /\ counters.nominators = Cardinality(Genesis("Nominator"))
    BY <1>8 DEF CountersAt
  <2>2. /\ Cardinality(Present(validators)) = Cardinality(Genesis("Validator"))
        /\ Cardinality(Present(nominators)) = Cardinality(Genesis("Nominator"))
    BY <1>3, <1>5, Zenon
  <2> QED BY <1>15, <2>1, <2>2 DEF Counted
<1>18. live => Listed(Roles)
  BY <1>3, <1>5, <1>8, <1>12, <1>15 DEF Listed, listed, GenesisStakers
<1>19. storage.version = "V8" => Present(voter_list) = Present(nominators)
  BY <1>5, <1>8, <1>12 DEF listed, ListedAt
<1>20. /\ "min_commission" \in DOMAIN config /\ config.min_commission \in Parts
  BY IntentionsAssumption DEF Init, Config
<1>21. IntentionsTypeOK
  BY <1>6, <1>8, <1>15, <1>20 DEF Init, IntentionsTypeOK, Releases
<1> QED BY <1>8, <1>16, <1>17, <1>18, <1>19, <1>21 DEF IntentionsIInv

LEMMA IntentionsStepIInv == IntentionsIInv /\ [Next]_vars => IntentionsIInv'
<1> SUFFICES ASSUME IntentionsIInv, [Next]_vars PROVE IntentionsIInv'
  OBVIOUS
<1>1. ASSUME NEW s \in Stashes, Chill(s) \/ ChillOther(s)
      PROVE  IntentionsIInv'
  <2>1. live /\ OnlyRoles(ChillStash(Roles, s))
    BY <1>1 DEF Chill, ChillOther
  <2>2. InStep(ChillStash(Roles, s))
    BY <2>1, LiveInStep, ChillInStep
  <2> QED BY <2>1, <2>2, OnlyRolesIInv
<1>2. ASSUME NEW s \in Offenders, NEW era \in 0..MaxEra,
             NEW slashed \in BOOLEAN, NEW chills \in BOOLEAN,
             OffenceReported(s, era, slashed, chills)
      PROVE  IntentionsIInv'
  <2>1. s \in Stashes /\ era \in Nat
    BY IntentionsAssumption
  <2> QED BY <1>2, <2>1, OffenceIInv
<1>3. CASE UNCHANGED vars
  <2>1. /\ UNCHANGED <<active, roleVars, storage, live>> /\ Roles' = Roles
    BY <1>3 DEF vars, roleVars, Roles
  <2>2. IntentionsTypeOK'
    BY <1>3, <2>1 DEF vars, IntentionsIInv, IntentionsTypeOK
  <2> QED BY <2>1, <2>2, RolesStay
<1>4. CASE MigrateV6 \/ MigrateV7 \/ MigrateV8 \/ MigrateV9
  BY <1>4, MigrateV6IInv, MigrateV7IInv, MigrateV8IInv, MigrateV9IInv
<1>5. ASSUME NEW s \in Stashes, NEW value \in Amounts,
             \/ Bond(s, value) \/ BondMore(s, value) \/ Unbond(s, value)
             \/ RewardStaked(s, value) \/ DoSlash(s, value)
      PROVE  IntentionsIInv'
  BY <1>5, StakeCallsIInv
<1>6. ASSUME NEW s \in Stashes,
             Rebag(s) \/ KillStash(s) \/ ForceApplyMinCommission(s)
      PROVE  IntentionsIInv'
  BY <1>6, RebagIInv, KillStashIInv, ForceApplyIInv
<1>7. ASSUME NEW s \in Stashes, NEW prefs \in Prefs, Validate(s, prefs)
      PROVE  IntentionsIInv'
  BY <1>7, ValidateIInv
<1>8. ASSUME NEW s \in Stashes, NEW targets \in TargetLists,
             Nominate(s, targets)
      PROVE  IntentionsIInv'
  BY <1>8, NominateIInv
<1>9. ASSUME NEW s \in Stashes, NEW n \in Stashes, Kick(s, {n})
      PROVE  IntentionsIInv'
  BY <1>9, KickIInv
<1>10. ASSUME NEW ops \in ConfigOps, SetStakingConfigs(ops)
       PROVE  IntentionsIInv'
  BY <1>10, ConfigIInv
<1>11. CASE PlanEra
  BY <1>11, PlanEraIInv
<1> QED BY <1>1, <1>2, <1>3, <1>4, <1>5, <1>6, <1>7, <1>8, <1>9, <1>10, <1>11
        DEF Next

LEMMA IntentionsInvariant == Spec => []IntentionsIInv
BY IntentionsInitIInv, IntentionsStepIInv, PTL DEF Spec

-----------------------------------------------------------------------------
(***************************************************************************)
(* The theorems.                                                           *)
(***************************************************************************)

LEMMA InStepIsStakers ==
    ASSUME IntentionsIInv
    PROVE  VoterListIsStakers
<1> SUFFICES ASSUME live PROVE VoterListIsStakers
  BY DEF VoterListIsStakers
<1> DEFINE V == Present(validators)
           N == Present(nominators)
<1>1. /\ Roles \in RolesRecord /\ RolesApart(Roles) /\ Counted(Roles)
      /\ Listed(Roles)
  BY LiveInStep DEF InStep
<1>2. /\ V \cap N = {}
      /\ V \cup N \subseteq Present(active)
      /\ counters.validators = Cardinality(V)
      /\ counters.nominators = Cardinality(N)
      /\ Present(voter_list) = V \cup N
  BY <1>1 DEF Roles, RolesApart, Counted, Listed
<1>3. /\ validators \in [Stashes -> ValidatorPrefs \cup {None}]
      /\ nominators \in [Stashes -> Nominations \cup {None}]
  BY <1>1 DEF Roles, RolesRecord
<1>4. /\ \A s \in Stashes : s \in V <=> IsValidator(s)
      /\ \A s \in Stashes : s \in N <=> IsNominator(s)
      /\ \A s \in Stashes : s \in Present(voter_list) <=> voter_list[s] # None
      /\ \A s \in Stashes : s \in Present(active) <=> active[s] # None
  BY DEF Present, IsValidator, IsNominator
<1>5. ASSUME NEW s \in Stashes
      PROVE  /\ (voter_list[s] # None) <=> MapContains(s)
             /\ ~(IsValidator(s) /\ IsNominator(s))
             /\ MapContains(s) => active[s] # None
             /\ IsNominator(s) => nominators[s] \in Nominations
             /\ IsValidator(s) => validators[s] \in ValidatorPrefs
  <2>1. (voter_list[s] # None) <=> MapContains(s)
    BY <1>2, <1>4 DEF MapContains
  <2>2. ~(IsValidator(s) /\ IsNominator(s))
    BY <1>2, <1>4
  <2>3. MapContains(s) => active[s] # None
    BY <1>2, <1>4 DEF MapContains
  <2>4. /\ IsNominator(s) => nominators[s] \in Nominations
        /\ IsValidator(s) => validators[s] \in ValidatorPrefs
    BY <1>3 DEF IsNominator, IsValidator
  <2> QED BY <2>1, <2>2, <2>3, <2>4
<1>6. MapCount = Cardinality({s \in Stashes : voter_list[s] # None})
  <2>1. /\ IsFiniteSet(V) /\ IsFiniteSet(N)
        /\ Cardinality(V) \in Nat /\ Cardinality(N) \in Nat
    BY PresentFinite
  <2>2. Cardinality(V \cup N) =
          Cardinality(V) + Cardinality(N) - Cardinality(V \cap N)
    <3> HIDE DEF V, N
    <3> QED BY <2>1, FS_Union
  <2>3. Cardinality(V \cap N) = 0
    <3>1. Cardinality({}) = 0
      BY FS_EmptySet
    <3> HIDE DEF V, N
    <3> QED BY <1>2, <3>1, Zenon
  <2>4. {s \in Stashes : voter_list[s] # None} = V \cup N
    BY <1>2 DEF Present
  <2>5. Cardinality({s \in Stashes : voter_list[s] # None}) =
          Cardinality(V \cup N)
    BY <2>4, Zenon
  <2> HIDE DEF V, N
  <2> QED BY <1>2, <2>1, <2>2, <2>3, <2>5 DEF MapCount
<1>7. counters.validators = Cardinality(GetNposTargets)
  <2>1. GetNposTargets = V
    BY DEF GetNposTargets, Present, IsValidator
  <2> QED BY <1>2, <2>1, Zenon
<1> QED BY <1>5, <1>6, <1>7 DEF VoterListIsStakers

\* The voter list, the two maps and the counters agree whenever the chain
\* serves calls: after genesis and after the migrations of any older storage,
\* through every call, slash, kill and chill, for all stashes, limits and bags.
THEOREM VoterListStaysStakers == Spec => []VoterListIsStakers
BY IntentionsInvariant, InStepIsStakers, PTL

\* The last slash of a stash is forgotten only with the stash.
LEMMA SlashIsRemembered ==
    ASSUME IntentionsIInv, [Next]_vars, NEW t \in Stashes
    PROVE  \/ last_nonzero_slash'[t] >= last_nonzero_slash[t]
           \/ active'[t] = None
<1>1. last_nonzero_slash \in [Stashes -> Nat]
  BY DEF IntentionsIInv, IntentionsTypeOK
<1>2. CASE last_nonzero_slash' = last_nonzero_slash
  BY <1>1, <1>2
<1>3. ASSUME NEW s \in Stashes, KillStash(s)
      PROVE  \/ last_nonzero_slash'[t] >= last_nonzero_slash[t]
             \/ active'[t] = None
  <2>1. active \in [Stashes -> (0..MaxActive) \cup {None}]
    BY DEF IntentionsIInv, IntentionsTypeOK
  <2> QED BY <1>1, <1>3, <2>1 DEF KillStash
<1>4. ASSUME NEW s \in Offenders, NEW era \in 0..MaxEra, NEW slashed \in BOOLEAN,
             NEW chills \in BOOLEAN, OffenceReported(s, era, slashed, chills)
      PROVE  last_nonzero_slash'[t] >= last_nonzero_slash[t]
  <2>1. last_nonzero_slash' =
          [last_nonzero_slash EXCEPT ![s] = IF slashed THEN LaterSlashEra(@, era)
                                            ELSE @]
    BY <1>4 DEF OffenceReported
  <2> QED BY <1>1, <2>1 DEF LaterSlashEra
<1>5. CASE UNCHANGED vars
  BY <1>2, <1>5 DEF vars
<1>6. CASE MigrateV6 \/ MigrateV7 \/ MigrateV8 \/ MigrateV9 \/ PlanEra
  BY <1>2, <1>6 DEF MigrateV6, MigrateV7, MigrateV8, MigrateV9, PlanEra
<1>7. ASSUME NEW s \in Stashes, NEW value \in Amounts,
             \/ Bond(s, value) \/ BondMore(s, value) \/ Unbond(s, value)
             \/ RewardStaked(s, value) \/ DoSlash(s, value)
      PROVE  last_nonzero_slash' = last_nonzero_slash
  BY <1>7 DEF Bond, BondMore, Unbond, RewardStaked, DoSlash, SetActive
<1>8. ASSUME NEW s \in Stashes,
             \/ Rebag(s) \/ Chill(s) \/ ChillOther(s)
             \/ ForceApplyMinCommission(s)
             \/ \E prefs \in Prefs : Validate(s, prefs)
             \/ \E targets \in TargetLists : Nominate(s, targets)
             \/ \E n \in Stashes : Kick(s, {n})
      PROVE  last_nonzero_slash' = last_nonzero_slash
  BY <1>8 DEF Rebag, Chill, ChillOther, ForceApplyMinCommission, Validate,
              Nominate, Kick, OnlyRoles
<1>9. ASSUME NEW ops \in ConfigOps, SetStakingConfigs(ops)
      PROVE  last_nonzero_slash' = last_nonzero_slash
  BY <1>9 DEF SetStakingConfigs
<1> QED BY <1>2, <1>3, <1>4, <1>5, <1>6, <1>7, <1>8, <1>9 DEF Next

\* A vote that a slash has voided stays void until the nominator votes again
\* or the slashed stash is killed, for all stashes, nominations and orders of
\* reports.
THEOREM VoidVotesAlwaysStayVoid == Spec => VoidVotesStayVoid
<1> DEFINE Step ==
      \A s, t \in Stashes :
         /\ IsNominator(s)
         /\ nominators'[s] # None
         /\ nominators'[s].submitted_in = nominators[s].submitted_in
         /\ ~VoteIsLive(s, t)
         /\ VoteIsLive(s, t)'
         => active'[t] = None
<1>1. IntentionsIInv /\ [Next]_vars => [Step]_vars
  <2> SUFFICES ASSUME IntentionsIInv, [Next]_vars,
                      NEW s \in Stashes, NEW t \in Stashes, IsNominator(s),
                      nominators'[s].submitted_in = nominators[s].submitted_in,
                      ~VoteIsLive(s, t), VoteIsLive(s, t)'
               PROVE  active'[t] = None
    OBVIOUS
  <2>1. /\ nominators \in [Stashes -> Nominations \cup {None}]
        /\ last_nonzero_slash \in [Stashes -> Nat]
    BY DEF IntentionsIInv, IntentionsTypeOK, Roles, RolesRecord
  <2>2. last_nonzero_slash' \in [Stashes -> Nat]
    BY IntentionsStepIInv DEF IntentionsIInv, IntentionsTypeOK
  <2>3. nominators[s].submitted_in \in Nat
    BY <2>1 DEF IsNominator, Nominations
  <2>4. /\ ~(nominators[s].submitted_in >= last_nonzero_slash[t])
        /\ nominators[s].submitted_in >= last_nonzero_slash'[t]
    BY DEF VoteIsLive
  <2>5. ~(last_nonzero_slash'[t] >= last_nonzero_slash[t])
    BY <2>1, <2>2, <2>3, <2>4
  <2> QED BY <2>5, SlashIsRemembered
<1>2. [][Step]_vars => VoidVotesStayVoid
  BY DEF VoidVotesStayVoid
<1> QED BY <1>1, <1>2, IntentionsInvariant, PTL DEF Spec

-----------------------------------------------------------------------------
(***************************************************************************)
(* The snapshot of the voters.                                             *)
(***************************************************************************)

\* A voter adds one entry of its own, or nothing.
Entries == {VoterEntry(s)[1] : s \in Stashes}

LEMMA VoterEntryShape ==
    ASSUME NEW s \in Stashes, VoterEntry(s) # <<>>
    PROVE  /\ MapContains(s)
           /\ \E e \in Entries : VoterEntry(s) = <<e>> /\ e.who = s
<1> DEFINE kept == SelectSeq(nominators[s].targets, LAMBDA t : VoteIsLive(s, t))
           weight == VoteWeight(SlashableBalanceOf(s))
           e == [who |-> s, targets |-> IF IsNominator(s) THEN kept ELSE <<s>>,
                 weight |-> weight]
<1>1. VoterEntry(s) =
        IF IsNominator(s)
        THEN IF kept = <<>> THEN <<>>
             ELSE <<[who |-> s, targets |-> kept, weight |-> weight]>>
        ELSE IF IsValidator(s)
             THEN <<[who |-> s, targets |-> <<s>>, weight |-> weight]>>
             ELSE <<>>
  BY Zenon DEF VoterEntry
<1> HIDE DEF kept, weight
<1>2. MapContains(s)
  BY <1>1, Zenon DEF MapContains
<1>3. VoterEntry(s) = <<e>>
  <2>1. CASE IsNominator(s)
    BY <1>1, <2>1, Zenon
  <2>2. CASE ~IsNominator(s)
    BY <1>1, <2>2, Zenon
  <2> QED BY <2>1, <2>2
<1>4. e.who = s
  OBVIOUS
<1> HIDE DEF e
<1>5. VoterEntry(s)[1] = e
  BY <1>3
<1>6. e \in Entries
  BY <1>5, Zenon DEF Entries
<1> QED BY <1>2, <1>3, <1>4, <1>6

\* The loop of get_npos_voters after i voters of the list: v is what it has
\* taken, and whoever it has left out came after it was full, or after twice
\* the limit.
SnapshotUpto(v, i, order, max) ==
    /\ v \in Seq(Entries)
    /\ Len(v) <= i /\ Len(v) <= max
    /\ \A k \in 1..Len(v) : \E j \in 1..i : v[k].who = order[j]
    /\ \A k, l \in 1..Len(v) : v[k].who = v[l].who => k = l
    /\ \A j \in 1..i : VoterEntry(order[j]) # <<>> =>
         \/ \E k \in 1..Len(v) : v[k].who = order[j]
         \/ j > 2 * max
         \/ /\ Len(v) = max /\ Len(v) < j
            /\ \A k \in 1..Len(v) : \E m \in 1..(j - 1) : v[k].who = order[m]

VoterStep(v, i, order, max) ==
    IF KeepsIterating(Len(v), i - 1, max) THEN v \o VoterEntry(order[i]) ELSE v

LEMMA SnapshotSame ==
    ASSUME NEW n \in Nat, NEW i \in 1..n, NEW order \in [1..n -> Stashes],
           NEW max \in Nat, NEW v, SnapshotUpto(v, i - 1, order, max),
           VoterEntry(order[i]) = <<>> \/ Len(v) = max \/ i > 2 * max
    PROVE  SnapshotUpto(v, i, order, max)
<1>1. /\ v \in Seq(Entries) /\ Len(v) \in Nat
      /\ Len(v) <= i - 1 /\ Len(v) <= max
      /\ \A k, l \in 1..Len(v) : v[k].who = v[l].who => k = l
  BY DEF SnapshotUpto
<1>2. \A k \in 1..Len(v) : \E j \in 1..(i - 1) : v[k].who = order[j]
  BY DEF SnapshotUpto
<1>3. \A j \in 1..(i - 1) : VoterEntry(order[j]) # <<>> =>
         \/ \E k \in 1..Len(v) : v[k].who = order[j]
         \/ j > 2 * max
         \/ /\ Len(v) = max /\ Len(v) < j
            /\ \A k \in 1..Len(v) : \E m \in 1..(j - 1) : v[k].who = order[m]
  BY DEF SnapshotUpto
<1>4. i \in Nat /\ 1..(i - 1) \subseteq 1..i /\ 1..i = (1..(i - 1)) \cup {i}
  OBVIOUS
<1>5. \A k \in 1..Len(v) : \E j \in 1..i : v[k].who = order[j]
  BY <1>2, <1>4, Zenon
<1>6. ASSUME NEW j \in 1..i, VoterEntry(order[j]) # <<>>
      PROVE  \/ \E k \in 1..Len(v) : v[k].who = order[j]
             \/ j > 2 * max
             \/ /\ Len(v) = max /\ Len(v) < j
                /\ \A k \in 1..Len(v) : \E m \in 1..(j - 1) : v[k].who = order[m]
  <2>1. CASE j \in 1..(i - 1)
    BY <1>3, <1>6, <2>1, Zenon
  <2>2. CASE j = i
    <3>1. CASE Len(v) = max
      <4>1. Len(v) < j
        BY <1>1, <2>2
      <4> QED BY <1>2, <2>2, <3>1, <4>1, Zenon
    <3>2. CASE i > 2 * max
      BY <2>2, <3>2, Zenon
    <3>3. CASE VoterEntry(order[i]) = <<>>
      BY <1>6, <2>2, <3>3, Zenon
    <3> QED BY <3>1, <3>2, <3>3
  <2> QED BY <1>4, <2>1, <2>2
<1>7. Len(v) <= i
  BY <1>1
<1> QED BY <1>1, <1>5, <1>6, <1>7, Zenon DEF SnapshotUpto

LEMMA SnapshotMore ==
    ASSUME NEW n \in Nat, NEW i \in 1..n, NEW order \in [1..n -> Stashes],
           \A j, m \in 1..n : j # m => order[j] # order[m],
           NEW max \in Nat, NEW v, SnapshotUpto(v, i - 1, order, max),
           Len(v) < max, NEW e \in Entries, e.who = order[i]
    PROVE  SnapshotUpto(v \o <<e>>, i, order, max)
<1> DEFINE w == v \o <<e>>
           c == Len(v)
<1>1. /\ v \in Seq(Entries) /\ c \in Nat
      /\ c <= i - 1 /\ c < max
      /\ \A k, l \in 1..c : v[k].who = v[l].who => k = l
  BY DEF SnapshotUpto
<1>2. \A k \in 1..c : \E j \in 1..(i - 1) : v[k].who = order[j]
  BY DEF SnapshotUpto
<1>3. \A j \in 1..(i - 1) : VoterEntry(order[j]) # <<>> =>
         \/ \E k \in 1..c : v[k].who = order[j]
         \/ j > 2 * max
  BY DEF SnapshotUpto
<1>4. i \in Nat /\ 1..(i - 1) \subseteq 1..i /\ 1..i = (1..(i - 1)) \cup {i}
      /\ i \in 1..i /\ (\A j \in 1..(i - 1) : j # i /\ j \in 1..n)
  OBVIOUS
<1>5. /\ w \in Seq(Entries) /\ Len(w) = c + 1
      /\ \A k \in 1..c : w[k] = v[k]
      /\ w[c + 1] = e
  BY <1>1
<1> HIDE DEF w
<1>6. 1..Len(w) = (1..c) \cup {c + 1} /\ (\A k \in 1..c : k # c + 1)
  BY <1>1, <1>5
<1> HIDE DEF c
<1>7. \A k \in 1..c : w[k].who # order[i]
  <2> TAKE k \in 1..c
  <2>1. PICK j \in 1..(i - 1) : v[k].who = order[j]
    BY <1>2
  <2>2. j # i /\ j \in 1..n /\ w[k] = v[k]
    BY <1>4, <1>5, Zenon
  <2>3. order[j] # order[i]
    BY <2>2, Zenon
  <2> QED BY <2>1, <2>2, <2>3, Zenon
<1>8. w[c + 1].who = order[i]
  BY <1>5, Zenon
<1>9. ASSUME NEW k \in 1..Len(w)
      PROVE  \E j \in 1..i : w[k].who = order[j]
  <2>1. CASE k \in 1..c
    BY <1>2, <1>4, <1>5, <2>1, Zenon
  <2>2. CASE k = c + 1
    BY <1>4, <1>8, <2>2, Zenon
  <2> QED BY <1>6, <2>1, <2>2, Zenon
<1>10. ASSUME NEW k \in 1..Len(w), NEW l \in 1..Len(w), w[k].who = w[l].who
       PROVE  k = l
  <2>1. CASE k \in 1..c /\ l \in 1..c
    BY <1>1, <1>5, <1>10, <2>1, Zenon
  <2>2. CASE k = c + 1 /\ l = c + 1
    BY <2>2
  <2>3. CASE k \in 1..c /\ l = c + 1
    BY <1>7, <1>8, <1>10, <2>3, Zenon
  <2>4. CASE k = c + 1 /\ l \in 1..c
    BY <1>7, <1>8, <1>10, <2>4, Zenon
  <2> QED BY <1>6, <2>1, <2>2, <2>3, <2>4, Zenon
<1>11. ASSUME NEW j \in 1..i, VoterEntry(order[j]) # <<>>
       PROVE  \/ \E k \in 1..Len(w) : w[k].who = order[j]
              \/ j > 2 * max
  <2>1. CASE j = i
    BY <1>6, <1>8, <2>1, Zenon
  <2>2. CASE j \in 1..(i - 1)
    BY <1>3, <1>5, <1>6, <1>11, <2>2, Zenon
  <2> QED BY <1>4, <2>1, <2>2, Zenon
<1>12. Len(w) <= i /\ Len(w) <= max
  BY <1>1, <1>5
<1>13. SnapshotUpto(w, i, order, max)
  BY <1>5, <1>9, <1>10, <1>11, <1>12, Zenon DEF SnapshotUpto
<1> QED BY <1>13 DEF w

LEMMA SnapshotStep ==
    ASSUME NEW n \in Nat, NEW i \in 1..n, NEW order \in [1..n -> Stashes],
           \A j, m \in 1..n : j # m => order[j] # order[m],
           NEW max \in Nat, NEW v, SnapshotUpto(v, i - 1, order, max)
    PROVE  SnapshotUpto(VoterStep(v, i, order, max), i, order, max)
<1>1. v \in Seq(Entries) /\ Len(v) \in Nat /\ Len(v) <= max
  BY DEF SnapshotUpto
<1>2. CASE ~KeepsIterating(Len(v), i - 1, max)
  <2>1. VoterStep(v, i, order, max) = v
    BY <1>2 DEF VoterStep
  <2>2. Len(v) = max \/ i > 2 * max
    BY <1>1, <1>2 DEF KeepsIterating, NposMaxIterationsCoefficient
  <2>3. SnapshotUpto(v, i, order, max)
    BY <2>2, SnapshotSame
  <2> QED BY <2>1, <2>3
<1>3. CASE KeepsIterating(Len(v), i - 1, max)
  <2>1. VoterStep(v, i, order, max) = v \o VoterEntry(order[i])
    BY <1>3 DEF VoterStep
  <2>2. Len(v) < max
    BY <1>3 DEF KeepsIterating
  <2>3. CASE VoterEntry(order[i]) = <<>>
    <3>1. v \o <<>> = v
      BY <1>1
    <3>2. SnapshotUpto(v, i, order, max)
      BY <2>3, SnapshotSame
    <3> QED BY <2>1, <2>3, <3>1, <3>2
  <2>4. CASE VoterEntry(order[i]) # <<>>
    <3>1. order[i] \in Stashes
      OBVIOUS
    <3>2. PICK e \in Entries : VoterEntry(order[i]) = <<e>> /\ e.who = order[i]
      BY <2>4, <3>1, VoterEntryShape
    <3>3. SnapshotUpto(v \o <<e>>, i, order, max)
      BY <2>2, <3>2, SnapshotMore
    <3> QED BY <2>1, <3>2, <3>3
  <2> QED BY <2>3, <2>4
<1> QED BY <1>2, <1>3

\* The whole loop.
LEMMA SnapshotOfList ==
    ASSUME NEW n \in Nat, NEW order \in [1..n -> Stashes],
           \A j, m \in 1..n : j # m => order[j] # order[m], Len(order) = n,
           NEW cap, NEW max \in Nat,
           max = IF cap = None \/ n < cap THEN n ELSE cap
    PROVE  SnapshotUpto(GetNposVoters(order, cap), n, order, max)
<1> DEFINE X == Seq(Entries)
           step(x, i) == VoterStep(x, i, order, max)
           F(g) == [i \in 0..n |-> IF i = 0 THEN <<>> ELSE step(g[i - 1], i)]
           f == CHOOSE g : g = F(g)
<1>1. GetNposVoters(order, cap) = f[n]
  <2>1. \A x, i : step(x, i) =
          IF KeepsIterating(Len(x), i - 1, max) THEN x \o VoterEntry(order[i])
          ELSE x
    BY Zenon DEF VoterStep
  <2>2. GetNposVoters(order, cap) =
          (CHOOSE g : g = [i \in 0..n |->
             IF i = 0 THEN <<>>
             ELSE IF KeepsIterating(Len(g[i - 1]), i - 1, max)
                  THEN g[i - 1] \o VoterEntry(order[i])
                  ELSE g[i - 1]])[n]
    BY Zenon DEF GetNposVoters
  <2> QED BY <2>2, Zenon DEF VoterStep
<1>2. \A i \in 1..n, x \in X : step(x, i) \in X
  <2> TAKE i \in 1..n, x \in X
  <2>1. VoterEntry(order[i]) \in Seq(Entries)
    <3>1. order[i] \in Stashes
      OBVIOUS
    <3>2. CASE VoterEntry(order[i]) = <<>>
      BY <3>2
    <3>3. CASE VoterEntry(order[i]) # <<>>
      <4>1. PICK e \in Entries : VoterEntry(order[i]) = <<e>>
        BY <3>1, <3>3, VoterEntryShape
      <4> QED BY <4>1
    <3> QED BY <3>2, <3>3
  <2>2. x \o VoterEntry(order[i]) \in Seq(Entries)
    BY <2>1
  <2> QED BY <2>2 DEF VoterStep
<1> HIDE DEF step
<1>3. \E g : g = F(g)
  <2> DEFINE h == [i \in 1..n |-> [x \in X |-> step(x, i)]]
  <2>1. h \in StepsOf(n, X)
    BY <1>2 DEF StepsOf
  <2>2. <<>> \in X
    OBVIOUS
  <2>3. Iterations(n, X, <<>>, h) # {}
    <3> HIDE DEF h, X
    <3> QED BY <2>1, <2>2, IterationExists
  <2>4. PICK g \in [0..n -> X] :
          g[0] = <<>> /\ \A i \in 1..n : g[i] = h[i][g[i - 1]]
    <3> HIDE DEF h, X
    <3> QED BY <2>3 DEF Iterations
  <2>5. \A i \in 1..n : i - 1 \in 0..n
    OBVIOUS
  <2> HIDE DEF X
  <2>6. \A i \in 1..n : g[i] = step(g[i - 1], i)
    BY <2>4, <2>5
  <2>7. g = [i \in 0..n |-> g[i]]
    BY <2>4
  <2>8. \A i \in 0..n : g[i] = IF i = 0 THEN <<>> ELSE step(g[i - 1], i)
    <3> TAKE i \in 0..n
    <3>1. CASE i = 0
      BY <2>4, <3>1
    <3>2. CASE i # 0
      <4>1. i \in 1..n
        BY <3>2
      <4> QED BY <2>6, <3>2, <4>1
    <3> QED BY <3>1, <3>2
  <2>9. g = F(g)
    BY <2>7, <2>8
  <2> QED BY <2>9
<1>4. f = F(f)
  BY <1>3
<1> HIDE DEF f
<1> DEFINE S == {i \in 0..n : SnapshotUpto(f[i], i, order, max)}
<1>5. \A i \in 0..n : i \in S
  <2>1. 0 \in S
    <3>1. 0 \in 0..n /\ f[0] = <<>>
      BY <1>4
    <3>2. SnapshotUpto(<<>>, 0, order, max)
      BY DEF SnapshotUpto
    <3> QED BY <3>1, <3>2
  <2>2. ASSUME NEW i \in 1..n, i - 1 \in S
        PROVE  i \in S
    <3>1. i \in 0..n /\ i # 0
      OBVIOUS
    <3>2. f[i] = VoterStep(f[i - 1], i, order, max)
      BY <1>4, <3>1 DEF step
    <3>3. SnapshotUpto(f[i - 1], i - 1, order, max)
      BY <2>2
    <3> DEFINE v == f[i - 1]
    <3>4. SnapshotUpto(VoterStep(v, i, order, max), i, order, max)
      <4>1. SnapshotUpto(v, i - 1, order, max)
        BY <3>3
      <4> HIDE DEF v
      <4> QED BY <4>1, SnapshotStep
    <3> QED BY <3>1, <3>2, <3>4
  <2>3. \A i \in 1..n : i - 1 \in S => i \in S
    BY <2>2
  <2> HIDE DEF S
  <2> QED BY <2>1, <2>3, IntervalInduction
<1>6. n \in 0..n
  OBVIOUS
<1> QED BY <1>1, <1>5, <1>6

\* An order of the list has every listed stash at one place.
LEMMA ListOrderShape ==
    ASSUME voter_list \in [Stashes -> Nat \cup {None}],
           NEW order \in ListOrders(voter_list)
    PROVE  \E n \in Nat :
             /\ order \in [1..n -> Stashes] /\ Len(order) = n
             /\ DOMAIN order = 1..n
             /\ \A i, j \in 1..n : i # j => order[i] # order[j]
             /\ \A s \in Present(voter_list) : \E i \in 1..n : order[i] = s
             /\ \A i, j \in 1..n :
                  i < j => voter_list[order[i]] >= voter_list[order[j]]
<1> DEFINE L == {s \in Stashes : voter_list[s] # None}
           n == Cardinality(L)
<1>1. IsFiniteSet(L) /\ n \in Nat
  <2>1. IsFiniteSet(L)
    BY IntentionsAssumption, FS_Subset
  <2> HIDE DEF L
  <2> QED BY <2>1, FS_CardinalityType
<1>2. /\ order \in SetToSeqs(L)
      /\ \A i, j \in DOMAIN order :
           i < j => voter_list[order[i]] >= voter_list[order[j]]
  BY DEF ListOrders
<1>3. /\ order \in [1..n -> L]
      /\ \A i, j \in 1..n : i # j => order[i] # order[j]
  BY <1>2 DEF SetToSeqs
<1>4. L \subseteq Stashes /\ L = Present(voter_list)
  BY DEF Present
<1> HIDE DEF L
<1>5. \A s \in L : \E i \in 1..n : order[i] = s
  <2> DEFINE D == 1..n
  <2>1. IsFiniteSet(D) /\ Cardinality(D) = n
    <3> HIDE DEF n
    <3>1. 1 \in Int /\ n \in Int
      BY <1>1
    <3> QED BY <1>1, <3>1, FS_Interval
  <2>2. order \in Injection(D, L)
    BY <1>3 DEF Injection, IsInjective
  <2>3. Cardinality(D) = Cardinality(L)
    BY <2>1
  <2>4. order \in Surjection(D, L)
    <3> HIDE DEF D, n
    <3> QED BY <1>1, <2>2, <2>3, FS_Injection
  <2> QED BY <2>4 DEF Surjection
<1> HIDE DEF n
<1>6. order \in [1..n -> Stashes] /\ DOMAIN order = 1..n /\ Len(order) = n
  <2>1. order \in [1..n -> Stashes] /\ DOMAIN order = 1..n
    BY <1>3, <1>4
  <2>2. order \in Seq(Stashes)
    BY <1>1, <2>1
  <2> QED BY <1>1, <2>1, <2>2
<1>7. \A i, j \in 1..n : i < j => voter_list[order[i]] >= voter_list[order[j]]
  BY <1>2, <1>6, Zenon
<1> WITNESS n \in Nat
<1> QED BY <1>3, <1>4, <1>5, <1>6, <1>7, Zenon

\* As many voters as entries: nobody is named twice.
LEMMA SnapshotNamesOnce ==
    ASSUME NEW v \in Seq(Entries),
           \A k, l \in 1..Len(v) : v[k].who = v[l].who => k = l
    PROVE  Cardinality({v[k].who : k \in DOMAIN v}) = Len(v)
<1> DEFINE c == Len(v)
           T == {v[k].who : k \in DOMAIN v}
           h == [k \in 1..c |-> v[k].who]
<1>1. c \in Nat /\ DOMAIN v = 1..c
  OBVIOUS
<1>2. h \in Bijection(1..c, T)
  <2>1. h \in [1..c -> T]
    BY <1>1
  <2>2. \A k, l \in 1..c : h[k] = h[l] => k = l
    OBVIOUS
  <2>3. \A t \in T : \E k \in 1..c : h[k] = t
    BY <1>1
  <2> HIDE DEF h, T, c
  <2> QED BY <2>1, <2>2, <2>3 DEF Bijection, Injection, Surjection, IsInjective
<1>3. ExistsBijection(1..c, T)
  <2> HIDE DEF h, T, c
  <2> QED BY <1>2 DEF ExistsBijection
<1>4. IsFiniteSet(1..c) /\ Cardinality(1..c) = c
  <2> HIDE DEF c
  <2>1. 1 \in Int /\ c \in Int
    BY <1>1
  <2> QED BY <1>1, <2>1, FS_Interval
<1>5. Cardinality(T) = c
  <2> DEFINE D == 1..c
  <2>1. IsFiniteSet(D) /\ Cardinality(D) = c /\ ExistsBijection(D, T)
    BY <1>3, <1>4
  <2> HIDE DEF T, c, D
  <2> QED BY <2>1, FS_Bijection
<1> QED BY <1>5

LEMMA SnapshotOfOrder ==
    ASSUME IntentionsIInv, live, NEW order \in ListOrders(voter_list),
           NEW cap \in Caps
    PROVE  LET voters == GetNposVoters(order, cap)
               taken == {voters[i].who : i \in DOMAIN voters}
               full == cap # None /\ Len(voters) = cap
           IN  /\ Cardinality(taken) = Len(voters)
               /\ cap # None => Len(voters) <= cap
               /\ \A s \in Stashes \ taken :
                    VoterEntry(s) # <<>> =>
                      \/ full /\ \A t \in taken : voter_list[t] >= voter_list[s]
                      \/ cap # None /\ \E i \in DOMAIN order :
                           order[i] = s /\ i > NposMaxIterationsCoefficient * cap
<1> DEFINE voters == GetNposVoters(order, cap)
           taken == {voters[i].who : i \in DOMAIN voters}
           full == cap # None /\ Len(voters) = cap
<1>1. cap \in Nat \/ cap = None
  BY IntentionsAssumption DEF Limit
<1>2. /\ voter_list \in [Stashes -> Nat \cup {None}]
      /\ \A s \in Stashes : MapContains(s) => s \in Present(voter_list)
  <2>1. VoterListIsStakers
    BY InStepIsStakers
  <2>2. voter_list \in [Stashes -> Nat \cup {None}]
    BY DEF IntentionsIInv, IntentionsTypeOK, Roles, RolesRecord
  <2>3. \A s \in Stashes : MapContains(s) => voter_list[s] # None
    BY <2>1 DEF VoterListIsStakers
  <2> QED BY <2>2, <2>3 DEF Present
<1>3. PICK n \in Nat :
             /\ order \in [1..n -> Stashes] /\ Len(order) = n
             /\ DOMAIN order = 1..n
             /\ \A i, j \in 1..n : i # j => order[i] # order[j]
             /\ \A s \in Present(voter_list) : \E i \in 1..n : order[i] = s
             /\ \A i, j \in 1..n :
                  i < j => voter_list[order[i]] >= voter_list[order[j]]
  BY <1>2, ListOrderShape
<1> DEFINE max == IF cap = None \/ n < cap THEN n ELSE cap
<1>4. max \in Nat /\ (max = n \/ (cap # None /\ max = cap))
      /\ (cap # None => max <= cap)
  BY <1>1
<1>5. SnapshotUpto(voters, n, order, max)
  <2>1. max = IF cap = None \/ n < cap THEN n ELSE cap
    OBVIOUS
  <2> HIDE DEF max
  <2> QED BY <1>3, <1>4, <2>1, SnapshotOfList
<1> HIDE DEF max, voters
<1>6. /\ voters \in Seq(Entries) /\ Len(voters) \in Nat
      /\ Len(voters) <= max /\ DOMAIN voters = 1..Len(voters)
      /\ \A k, l \in 1..Len(voters) : voters[k].who = voters[l].who => k = l
  BY <1>5 DEF SnapshotUpto
<1>7. \A j \in 1..n : VoterEntry(order[j]) # <<>> =>
         \/ \E k \in 1..Len(voters) : voters[k].who = order[j]
         \/ j > 2 * max
         \/ /\ Len(voters) = max /\ Len(voters) < j
            /\ \A k \in 1..Len(voters) :
                 \E m \in 1..(j - 1) : voters[k].who = order[m]
  BY <1>5 DEF SnapshotUpto
<1>8. Cardinality(taken) = Len(voters)
  BY <1>6, SnapshotNamesOnce
<1>9. cap # None => Len(voters) <= cap
  BY <1>1, <1>4, <1>6
<1>10. ASSUME NEW s \in Stashes \ taken, VoterEntry(s) # <<>>
       PROVE  \/ full /\ \A t \in taken : voter_list[t] >= voter_list[s]
              \/ cap # None /\ \E i \in DOMAIN order :
                   order[i] = s /\ i > NposMaxIterationsCoefficient * cap
  <2>1. s \in Present(voter_list)
    BY <1>2, <1>10, VoterEntryShape
  <2>2. PICK j \in 1..n : order[j] = s
    BY <1>3, <2>1
  <2>3. ~\E k \in 1..Len(voters) : voters[k].who = order[j]
    BY <1>6, <2>2
  <2>4. CASE j > 2 * max
    <3>1. j \in Nat /\ j <= n /\ ~(j > 2 * n)
      OBVIOUS
    <3>2. cap # None /\ max = cap
      BY <1>4, <2>4, <3>1
    <3>3. j > NposMaxIterationsCoefficient * cap
      BY <2>4, <3>2 DEF NposMaxIterationsCoefficient
    <3> QED BY <1>3, <2>2, <3>2, <3>3, Zenon
  <2>5. CASE /\ Len(voters) = max /\ Len(voters) < j
             /\ \A k \in 1..Len(voters) :
                  \E m \in 1..(j - 1) : voters[k].who = order[m]
    <3>1. cap # None /\ max = cap
      BY <1>4, <1>6, <2>5
    <3>2. full
      BY <2>5, <3>1
    <3>3. ASSUME NEW t \in taken
          PROVE  voter_list[t] >= voter_list[s]
      <4>1. PICK k \in 1..Len(voters) : t = voters[k].who
        BY <1>6
      <4>2. PICK m \in 1..(j - 1) : voters[k].who = order[m]
        BY <2>5
      <4>3. m \in 1..n /\ m < j
        OBVIOUS
      <4>4. voter_list[order[m]] >= voter_list[order[j]]
        BY <1>3, <4>3
      <4> QED BY <2>2, <4>1, <4>2, <4>4, Zenon
    <3> QED BY <3>2, <3>3, Zenon
  <2> QED BY <1>7, <1>10, <2>2, <2>3, <2>4, <2>5
<1> HIDE DEF taken, full
<1>11. \A s \in Stashes \ taken : VoterEntry(s) # <<>> =>
         \/ full /\ \A t \in taken : voter_list[t] >= voter_list[s]
         \/ cap # None /\ \E i \in DOMAIN order :
              order[i] = s /\ i > NposMaxIterationsCoefficient * cap
  BY <1>10, Zenon
<1> QED BY <1>8, <1>9, <1>11, Zenon DEF taken, full, voters

LEMMA TargetsWithinLimit ==
    ASSUME IntentionsIInv, live, NEW cap \in Caps, cap # None,
           ElectableTargets(cap) # None
    PROVE  Cardinality(ElectableTargets(cap)) <= cap
<1>1. cap \in Nat
  BY IntentionsAssumption DEF Limit
<1>2. counters.validators = Cardinality(GetNposTargets)
      /\ counters.validators \in Int
  <2>1. VoterListIsStakers
    BY InStepIsStakers
  <2>2. counters.validators \in Int
    BY DEF IntentionsIInv, IntentionsTypeOK, Roles, RolesRecord
  <2> QED BY <2>1, <2>2 DEF VoterListIsStakers
<1>3. ElectableTargets(cap) =
        IF cap # None /\ counters.validators > cap THEN None
        ELSE GetNposTargets
  BY DEF ElectableTargets
<1>4. ~(counters.validators > cap) /\ ElectableTargets(cap) = GetNposTargets
  BY <1>3, Zenon
<1>5. Cardinality(ElectableTargets(cap)) = counters.validators
  BY <1>2, <1>4, Zenon
<1> QED BY <1>1, <1>2, <1>4, <1>5

\* get_npos_voters is fair for every list, every order inside its bags and
\* every limit: nobody twice, never more than the limit, and a voter with a
\* vote to give is left out only for others of bags as large, or behind twice
\* the limit of voters.  electable_targets keeps to the limit as well.
THEOREM SnapshotsAreFair == Spec => []SnapshotIsFair
<1>1. IntentionsIInv => SnapshotIsFair
  <2> SUFFICES ASSUME IntentionsIInv, live PROVE SnapshotIsFair
    BY DEF SnapshotIsFair
  <2>1. \A cap \in Caps : cap # None /\ ElectableTargets(cap) # None =>
          Cardinality(ElectableTargets(cap)) <= cap
    BY TargetsWithinLimit
  <2> QED BY <2>1, SnapshotOfOrder, Zenon DEF SnapshotIsFair
<1> QED BY <1>1, IntentionsInvariant, PTL
=============================================================================
