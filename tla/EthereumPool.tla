---------------------------- MODULE EthereumPool ----------------------------
(***************************************************************************)
(* The way of an Ethereum transaction into a block: what the pallet tells  *)
(* the transaction pool of it, the white list that lowers its priority     *)
(* (frame/pallet-revenue), and the checks that are made again when its     *)
(* turn comes.                                                             *)
(*                                                                         *)
(* The pool itself is external.  It holds what was valid when it was       *)
(* submitted: entries that provide a tag each, of which the pool keeps the *)
(* one with the highest priority, and may require another.  A requirement  *)
(* is gone once a transaction of some block has provided it.  Blocks hold  *)
(* transactions of any node's pool.                                        *)
(***************************************************************************)
EXTENDS Ethereum, FiniteSets

CONSTANTS
    U64,            \* 2^64: the priority is a u64 and wraps in a release build
    WeightPerGas,   \* WEIGHT_PER_GAS
    TipUnit,        \* 10_000, the divisor of a tip; doubled for unlisted calls
    Contracts,      \* the addresses that root lists
    MaxPooled       \* BOUND: the entries of the pool

ASSUME PoolAssumption ==
    /\ U64 \in Nat \ {0} /\ WeightPerGas \in Nat /\ TipUnit \in Nat \ {0}
    /\ Contracts \subseteq EthAddresses
    /\ MaxPooled \in Nat

VARIABLES
    whitelist,      \* pallet_revenue's Whitelist
    pool            \* the entries of this node's pool

poolVars == <<ethereumVars, whitelist, pool>>

-----------------------------------------------------------------------------
(***************************************************************************)
(* pallet_revenue: calls of the root origin.  Adding what is there and     *)
(* removing what is not only leaves an event.                              *)
(***************************************************************************)

AddAddresses(addresses) ==
    /\ whitelist' = whitelist \cup addresses
    /\ UNCHANGED <<ethereumVars, pool>>

RemoveAddresses(addresses) ==
    /\ whitelist' = whitelist \ addresses
    /\ UNCHANGED <<ethereumVars, pool>>

IsInWhiteList(address) == address \in whitelist

-----------------------------------------------------------------------------
(***************************************************************************)
(* What validate_transaction_in_pool answers.                              *)
(***************************************************************************)

\* GlitchGasWeightMapping::gas_to_weight
GasToWeight(gas) == gas * WeightPerGas

\* The tip for each unit of gas: what a legacy transaction offers beyond the
\* base fee, or the priority fee of an EIP-1559 transaction.
Tip(t) == IF t.call.type = "Legacy" THEN t.call.gas_price - BaseFee
          ELSE t.call.max_priority_fee_per_gas

\* A call with input of a contract that is not listed.
IsLowerPriority(t) == t.call.input /\ ~IsInWhiteList(t.call.to)

\* The end of validate_transaction_common.  A tip that does not outweigh the
\* gas makes the difference negative, and the u64 large.
Priority(t) ==
    (Tip(t) \div (IF IsLowerPriority(t) THEN 2 * TipUnit ELSE TipUnit)
       - GasToWeight(t.call.gas_limit)) % U64

Provides(t) == <<t.call.from, t.nonce>>

\* MUTANT: only a nonce that is more than one ahead needs its predecessor.
RequiresPreviousLate(t) == t.nonce > AccountNonce(t.call.from) + 1

\* A nonce that is still ahead: the transaction waits for the one before it.
RequiresPrevious(t) == t.nonce > AccountNonce(t.call.from)

\* validate_transaction_in_pool: the transaction is accepted.
ValidInPool(t) ==
    /\ ValidTransaction(t)
    /\ t.nonce >= AccountNonce(t.call.from)

\* `reset` is a history variable: since the entry was submitted, the nonce of
\* its sender went back.
NewEntry(t) ==
    [transaction |-> t, requires |-> RequiresPrevious(t),
     priority |-> Priority(t), reset |-> FALSE]

\* submit_transaction of the Ethereum RPC: TransactionConverter makes an
\* unsigned extrinsic of it, which the runtime treats as self-contained.
Submit(t) ==
    LET same == {p \in pool : Provides(p.transaction) = Provides(t)}
    IN  /\ ~building
        /\ ValidInPool(t)
        /\ \A p \in same : Priority(t) > p.priority
        /\ Cardinality(pool \ same) < MaxPooled
        /\ pool' = (pool \ same) \cup {NewEntry(t)}
        /\ UNCHANGED <<ethereumVars, whitelist>>

\* A pooled transaction whose turn has come, but that pre_dispatch refuses,
\* leaves the pool.
Discard(p) ==
    /\ Dispatching
    /\ ~p.requires
    /\ ~ValidInBlock(p.transaction)
    /\ pool' = pool \ {p}
    /\ UNCHANGED <<ethereumVars, whitelist>>

-----------------------------------------------------------------------------
\* A step of the chain, and what the pool learns from it: the tags that the
\* executed transactions provide.
NewTags ==
    IF building /\ executed' = executed THEN {}
    ELSE {Provides(executed'[i].transaction) : i \in DOMAIN executed'}

Learn(p) ==
    LET from == p.transaction.call.from
    IN  [p EXCEPT !.requires = @ /\ <<from, p.transaction.nonce - 1>> \notin NewTags,
                  !.reset = \/ @
                            \/ nonce'[IntoAccountId(from)']
                                 < nonce[IntoAccountId(from)]]

ChainStep ==
    /\ EthereumNext
    /\ pool' = {Learn(p) : p \in {q \in pool : Provides(q.transaction) \notin NewTags}}
    /\ UNCHANGED whitelist

PoolInit == EthereumInit /\ whitelist = {} /\ pool = {}

PoolNext ==
    \/ ChainStep
    \/ ~building /\ \E a \in Contracts :
         AddAddresses({a}) \/ RemoveAddresses({a})
    \/ \E t \in Transaction : Submit(t)
    \/ \E p \in pool : Discard(p)

PoolSpec == PoolInit /\ [][PoolNext]_poolVars

-----------------------------------------------------------------------------
(***************************************************************************)
(* Properties.                                                             *)
(***************************************************************************)

\* The tags carry the order of a sender's nonces: once the predecessor of a
\* pooled transaction is in a block, on this node or on another, the account
\* has reached the transaction's nonce, and validate_transaction_in_block does
\* not find it too early; unless the nonce itself went back, by a claim of the
\* address or the death of its account.
ReadyIsNotEarly ==
    \A p \in pool : ~p.requires /\ ~p.reset =>
        AccountNonce(p.transaction.call.from) >= p.transaction.nonce

=============================================================================
