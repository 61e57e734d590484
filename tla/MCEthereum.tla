----------------------------- MODULE MCEthereum -----------------------------
(***************************************************************************)
(* Instances of Ethereum for TLC: one address sends transactions, another  *)
(* one receives what they move.                                            *)
(***************************************************************************)
EXTENDS EthereumPool, TLC

CONSTANTS e1, e2

MCCall(type, gas_limit, gas_price, tip) ==
    [type |-> type, from |-> e1, to |-> e2, gas_limit |-> gas_limit,
     gas_price |-> gas_price, max_priority_fee_per_gas |-> tip, value |-> 1,
     input |-> TRUE]

\* A legacy transaction with a tip, one that offers too little, and an EIP-1559
\* transaction with a tip and gas to spare.
MCCalls == {MCCall("Legacy", 1, 2, 0), MCCall("Legacy", 1, 0, 0),
            MCCall("EIP1559", 2, 1, 1)}

\* Users are interchangeable.
UserSymmetry == Permutations(Users)
=============================================================================
