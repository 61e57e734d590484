------------------------------- MODULE MCFees -------------------------------
(***************************************************************************)
(* The three places where the runtime's own numbers become money, in one   *)
(* instance: the inflation curve, which is computed when the runtime is    *)
(* compiled, and on the chain that runs it the currency's fees and the     *)
(* weight trader's.  They share no state.  So the chain is only run with   *)
(* one of the curves, messages are only tried with the balances that the   *)
(* mainnet starts with, and money only moves while the registries are      *)
(* empty.                                                                  *)
(***************************************************************************)
EXTENDS Fees, AssetTrader, RewardCurve

CONSTANTS u1, u2

\* A development chain, one with an endowed account, one whose endowment does
\* not divide, one that endows its authority too (an account with two balances)
\* and one whose authority the mainnet's table does not give its stake.
MCNetworks ==
    [authorities : {{u2}}, endowed : {{}, {u1}, {u2}, {u1, u2}}]
      \cup {[authorities |-> {u1}, endowed |-> {}]}

MCInitialBalances == <<<<u1, 5>>, <<u2, 7>>, <<Fund, 2>>, <<Treasury, 2>>>>

Untouched ==
    /\ live
    /\ free = [a \in Accounts |-> CASE a = u1 -> 5 [] a = u2 -> 7
                                     [] a = Author -> 0
                                     [] OTHER -> ExistentialDeposit]

\* Steep and flat falls, few and many pieces.
MCInputs ==
    [min_inflation : {2, 10, 40}, max_inflation : {10, 30, 80},
     ideal_stake : {10, 50, 75, 90}, falloff : {10, 20, 50, 100},
     max_piece_count : {2, 5, 12, 30}]

\* The curve of the chain that is run.
Compiled ==
    /\ status = "done"
    /\ input = [min_inflation |-> 2, max_inflation |-> 10, ideal_stake |-> 50,
                falloff |-> 10, max_piece_count |-> 12]

MCInit == Init /\ FeesInit /\ TraderInit

MCNext ==
    \/ /\ UNCHANGED <<moneyVars, assetVars>>
       /\ Next
    \/ /\ UNCHANGED <<vars, assetVars>>
       /\ Compiled
       /\ ~executing
       /\ \A a \in Assets : asset_id_location[a] = Absent
                            /\ fee_rate_per_second[a] = Absent
       /\ \A h \in Addresses : native_erc20_assets[h] = Absent
       /\ FeesNext
    \/ /\ UNCHANGED <<vars, moneyVars>>
       /\ Compiled
       /\ Untouched
       /\ TraderNext

MCSpec == MCInit /\ [][MCNext]_<<vars, moneyVars, assetVars>> /\ WF_vars(Next)
=============================================================================
