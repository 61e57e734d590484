-------------------------- MODULE MCStakingRewards --------------------------
(***************************************************************************)
(* Instances of StakingRewards for TLC.                                    *)
(***************************************************************************)
EXTENDS StakingRewards

CONSTANTS v1, v2, v3, c1, c2, c3

\* The genesis stakers: v1, v2 and v3 with the controllers that are in use.
MCGenesisController ==
    [s \in Stashes |-> CASE s = v1 /\ c1 \in Controllers -> c1
                         [] s = v2 /\ c2 \in Controllers -> c2
                         [] s = v3 /\ c3 \in Controllers -> c3
                         [] OTHER -> None]

\* v1 is elected, backed by itself and by every other stash alike.
MCBackedElection ==
    {[v \in Stashes |-> [n \in Stashes |-> IF v = v1 THEN 1 ELSE 0]]}

=============================================================================
