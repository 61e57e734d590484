----------------------------- MODULE MCSlashing -----------------------------
(***************************************************************************)
(* Instances of Slashing for TLC: two validators, and a nominator that     *)
(* backs both of them.                                                     *)
(***************************************************************************)
EXTENDS Slashing

\* Stakes of which the fractions take different, and different whole, parts.
MCExposureOwn == [v \in Validators |-> 8]
MCExposureOthers == [v \in Validators |-> [n \in Nominators |-> 4]]

(***************************************************************************)
(* The forcing decides which eras there are, the amounts are computed for  *)
(* the eras there are: Root only forces while nobody has been charged, and *)
(* nobody is charged once Root has forbidden eras or forced them all.      *)
(* Before the first report Root's choice is that of the initial state.     *)
(***************************************************************************)
Unslashed == \A s \in Stashes, i \in SpanIndex : span_slash[s][i] = NoRecord

MCNext ==
    \/ Tick
    \/ Unslashed /\ reports > 0 /\ RootForces
    \/ \E winners \in ElectionResults \cup {{}}, keys \in BOOLEAN :
         RotateBlock(winners, keys)
    \/ \E v \in Validators, e \in Era, fraction \in Fractions,
          strategy \in Strategies :
         \/ OffenceWithoutSlash(v, e, fraction, strategy)
         \/ /\ force_era \in {"NotForcing", "ForceNew"}
            /\ OffenceWithSlash(v, e, fraction, strategy)
    \/ \E s \in Stashes : ClearStashMetadata(s)

MCSpec == SlashingInit /\ [][MCNext]_slashingVars
=============================================================================
