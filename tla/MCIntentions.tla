---------------------------- MODULE MCIntentions ----------------------------
(***************************************************************************)
(* An instance of Intentions for TLC: v validates, n nominates, w takes    *)
(* either role.                                                            *)
(***************************************************************************)
EXTENDS Intentions

CONSTANTS v, w, n

MCGenesisStatus ==
    [s \in Stashes |->
       CASE s = v -> [role |-> "Validator", targets |-> <<>>]
         [] s = n -> [role |-> "Nominator", targets |-> <<v, w>>]
         [] OTHER -> [role |-> "None", targets |-> <<>>]]

MCGenesisConfig == ConfigDefault

MCTargetLists == {<<v>>, <<v, w>>}

MCPrefs == {DefaultPrefs, [commission |-> 1, blocked |-> TRUE]}

\* Root sets limits that a second nominator or validator exceeds, or takes
\* them back.
MCConfigOps ==
    {[min_nominator_bond |-> 1, min_validator_bond |-> 1,
      max_nominators_count |-> 2, max_validators_count |-> 2,
      chill_threshold |-> 5, min_commission |-> 1],
     [min_nominator_bond |-> Unset, min_validator_bond |-> Unset,
      max_nominators_count |-> Unset, max_validators_count |-> Unset,
      chill_threshold |-> Unset, min_commission |-> Noop]}
=============================================================================
