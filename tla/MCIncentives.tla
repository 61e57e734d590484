---------------------------- MODULE MCIncentives ----------------------------
(***************************************************************************)
(* An instance of Incentives for TLC: two currencies, whose pair has two   *)
(* entries in the genesis configuration, in either order.                  *)
(***************************************************************************)
EXTENDS Incentives

MCDexRewards == <<<<2, 1, 3>>, <<1, 2, 4>>>>

MCPair == <<1, 2>>
=============================================================================
