------------------------------ MODULE Ethereum ------------------------------
(***************************************************************************)
(* Ethereum transactions and blocks (frame/ethereum), together with the    *)
(* accounts Ethereum addresses act through (EvmAccounts).                  *)
(*                                                                         *)
(* A transaction is validated just before it is applied, and applying a    *)
(* valid one must not fail.  It is kept in Pending with its receipt until  *)
(* on_finalize makes a block of Pending, and the hashes of the last        *)
(* BlockHashCount + 1 blocks are kept for the EVM.  A Substrate block may  *)
(* bring a whole Ethereum block in its digest instead (a pre-log), whose   *)
(* transactions on_initialize applies.                                     *)
(*                                                                         *)
(* The EVM is external: it says how much gas is used and whether the call  *)
(* succeeds.  EIP-2930 transactions are treated as legacy ones are.        *)
(***************************************************************************)
EXTENDS EvmAccounts, Totals, Sequences

CONSTANTS
    BaseFee,            \* T::FeeCalculator::min_gas_price
    BlockGasLimit,      \* T::BlockGasLimit
    IntrinsicGas,       \* the gas a transaction's data costs
    BlockHashCount,     \* T::BlockHashCount
    Calls,              \* what transactions say, but for their nonces
    Amounts,            \* the amounts of Substrate transfers
    MaxBlock            \* BOUND: the number of the last block

ASSUME EthereumAssumption ==
    /\ BaseFee \in Nat /\ BlockGasLimit \in Nat /\ IntrinsicGas \in Nat
    /\ BlockHashCount \in Nat /\ MaxBlock \in Nat
    /\ Calls \subseteq [type : {"Legacy", "EIP1559"}, from : EthAddresses,
                        to : EthAddresses, gas_limit : Nat, gas_price : Nat,
                        max_priority_fee_per_gas : Nat, value : Nat,
                        input : BOOLEAN]
    /\ \A c \in Calls : c.type = "Legacy" => c.max_priority_fee_per_gas = 0
    /\ Amounts \subseteq Nat \ {0}

VARIABLES
    block_number,   \* of the block that is built, or of the last one
    building,       \* between on_initialize and on_finalize
    pre_log,        \* of the digest: "Importing" while on_initialize applies
                    \* its transactions, then "Imported", or "Absent"
    pending,        \* Pending: a transaction and the gas used in the block
    current_block,  \* CurrentBlock, and CurrentReceipts with it
    block_hash,     \* BlockHash, None for the default
    \* History variable.
    executed        \* the transactions applied since on_initialize, with gas

chainVars == <<block_number, building, pre_log, pending, current_block,
               block_hash, executed>>
ethereumVars == <<evmVars, chainVars>>

\* A transaction, with the fields of TransactionData that matter.  gas_price
\* stands for max_fee_per_gas in an EIP-1559 transaction; a legacy one has no
\* priority fee.
Transaction == [call : Calls, nonce : 0..MaxNonce]

\* The hash of a header.  On one chain the number tells blocks apart.
HashOf(block) == block.number

-----------------------------------------------------------------------------
(***************************************************************************)
(* Validation.                                                             *)
(***************************************************************************)

\* pallet_evm's account_basic: what an address may spend.  Its account keeps
\* the existential deposit.
AccountBalance(from) ==
    LET a == IntoAccountId(from)
    IN  IF free[a] < ExistentialDeposit THEN 0
        ELSE free[a] - ExistentialDeposit
AccountNonce(from) == nonce[IntoAccountId(from)]

\* MUTANT: the tip is not added to the fee.
PayableFeeWithoutTip(t) == t.call.gas_price * t.call.gas_limit

\* The most a transaction may have to pay for its gas.
PayableFee(t) ==
    t.call.gas_price * t.call.gas_limit + t.call.max_priority_fee_per_gas * t.call.gas_limit

\* validate_transaction_common
ValidTransaction(t) ==
    /\ t.call.gas_limit >= IntrinsicGas
    /\ t.call.gas_limit < BlockGasLimit
    /\ t.call.gas_price >= BaseFee
    /\ AccountBalance(t.call.from) >= t.call.value + PayableFee(t)

\* validate_transaction_in_block
ValidInBlock(t) ==
    /\ ValidTransaction(t)
    /\ t.nonce = AccountNonce(t.call.from)

-----------------------------------------------------------------------------
(***************************************************************************)
(* Execution.                                                              *)
(***************************************************************************)

\* The fees per gas execute hands to the EVM: for a legacy transaction the
\* base fee, and the rest of its gas price as the priority fee.
MaxFeePerGas(t) == IF t.call.type = "EIP1559" THEN t.call.gas_price ELSE BaseFee
MaxPriorityFeePerGas(t) ==
    IF t.call.type = "EIP1559" THEN t.call.max_priority_fee_per_gas
    ELSE t.call.gas_price - BaseFee

\* execute gives no error: neither its own, nor one of the EVM's runner.
ExecuteAccepts(t) ==
    /\ t.call.type = "Legacy" => t.call.gas_price >= BaseFee
    /\ MaxFeePerGas(t) >= BaseFee
    /\ AccountBalance(t.call.from)
         >= t.call.value + (MaxFeePerGas(t) + MaxPriorityFeePerGas(t)) * t.call.gas_limit
    /\ t.nonce = AccountNonce(t.call.from)

\* The EVM charges the gas used, and moves the value if the call succeeds.
\* It cannot succeed if the value would not keep the receiving account alive.
RunnerCall(t, used_gas, succeeds) ==
    LET source == IntoAccountId(t.call.from)
        target == IntoAccountId(t.call.to)
        fee == (BaseFee + MaxPriorityFeePerGas(t)) * used_gas
    IN  /\ succeeds => t.call.value = 0 \/ free[target] + t.call.value
                                        >= ExistentialDeposit
        /\ free' = IF succeeds /\ source # target
                   THEN [free EXCEPT ![source] = @ - fee - t.call.value,
                                     ![target] = @ + t.call.value]
                   ELSE [free EXCEPT ![source] = @ - fee]
        /\ nonce' = [nonce EXCEPT ![source] = @ + 1]
        /\ UNCHANGED <<accounts, evm_addresses>>

\* The gas used in the block, in the receipt of the next transaction.
CumulativeGas(before, used_gas) ==
    IF before = <<>> THEN used_gas
    ELSE before[Len(before)].used_gas + used_gas

\* apply_validated_transaction, after validate_transaction_in_block.
ApplyValidatedTransaction(t, used_gas, succeeds) ==
    /\ ValidInBlock(t)
    /\ ExecuteAccepts(t)
    /\ nonce[IntoAccountId(t.call.from)] < MaxNonce
    /\ IntrinsicGas <= used_gas /\ used_gas <= t.call.gas_limit
    /\ RunnerCall(t, used_gas, succeeds)
    /\ pending' = Append(pending, [transaction |-> t,
                                   used_gas |-> CumulativeGas(pending, used_gas)])
    /\ executed' = Append(executed, [transaction |-> t, gas |-> used_gas])
    /\ UNCHANGED <<block_number, building, pre_log, current_block, block_hash>>

\* on_initialize is done, and the block takes extrinsics.
Dispatching == building /\ pre_log # "Importing"

\* transact: refused in a block with a pre-log.
Transact(t, used_gas, succeeds) ==
    /\ Dispatching
    /\ pre_log = "Absent"
    /\ ApplyValidatedTransaction(t, used_gas, succeeds)

\* A transaction that is not valid when its turn comes changes nothing.
Rejected ==
    /\ Dispatching
    /\ {t \in Transaction : ~ValidInBlock(t)} # {}
    /\ UNCHANGED ethereumVars

-----------------------------------------------------------------------------
(***************************************************************************)
(* Blocks.                                                                 *)
(***************************************************************************)

\* store_block makes a block of what is pending.
StoreBlock ==
    LET block == [number |-> block_number,
                  parent_hash |-> HashOf(current_block),
                  transactions |-> [i \in DOMAIN pending |->
                                      pending[i].transaction],
                  receipts |-> [i \in DOMAIN pending |-> pending[i].used_gas],
                  gas_used |-> IF pending = <<>> THEN 0
                               ELSE pending[Len(pending)].used_gas]
    IN  current_block' = block

\* The genesis block is stored with number 0 and no parent.
EthereumInit ==
    /\ EvmInit
    /\ block_number = 0
    /\ building = FALSE
    /\ pre_log = "Absent"
    /\ pending = <<>>
    /\ current_block = [number |-> 0, parent_hash |-> None,
                        transactions |-> <<>>, receipts |-> <<>>,
                        gas_used |-> 0]
    /\ block_hash = [n \in 0..MaxBlock |-> IF n = 0 THEN 0 ELSE None]
    /\ executed = <<>>

\* MUTANT: what was pending stays.
KilledPendingStays == pending

\* What on_initialize leaves of Pending.
KilledPending == <<>>

\* on_initialize, up to the loop over the transactions of a pre-log.
OnInitialize(log) ==
    /\ ~building
    /\ building' = TRUE
    /\ block_number' = block_number + 1
    /\ pre_log' = log
    /\ pending' = KilledPending
    /\ executed' = <<>>
    /\ UNCHANGED <<evmVars, current_block, block_hash>>

\* A turn of the loop.  With a transaction that is not valid "the block cannot
\* be built".
ImportTransaction(t, used_gas, succeeds) ==
    /\ pre_log = "Importing"
    /\ ApplyValidatedTransaction(t, used_gas, succeeds)

\* The pre-log has no more transactions.
ImportEnds ==
    /\ pre_log = "Importing"
    /\ pre_log' = "Imported"
    /\ UNCHANGED <<evmVars, block_number, building, pending, current_block,
                   block_hash, executed>>

\* MUTANT: the window is a block shorter.
HashesRemovedEarly ==
    {n \in 1..MaxBlock : n = block_number - BlockHashCount}

\* The hash on_finalize removes: the one that falls out of the window, but not
\* that of genesis.
HashesRemoved ==
    {n \in 1..MaxBlock : n = block_number - BlockHashCount - 1}

\* on_finalize
OnFinalize ==
    /\ Dispatching
    /\ block_number < MaxBlock
    /\ building' = FALSE
    /\ StoreBlock
    /\ block_hash' = [n \in 0..MaxBlock |->
                        IF n \in HashesRemoved THEN None
                        ELSE IF n = block_number THEN HashOf(current_block')
                        ELSE block_hash[n]]
    /\ UNCHANGED <<evmVars, block_number, pre_log, pending, executed>>

-----------------------------------------------------------------------------
\* Substrate's transactions in a block.
AccountStep ==
    /\ Dispatching
    /\ \/ \E a \in Users, to \in AccountIds, amount \in Amounts :
            Spend(a, to, amount)
       \/ \E who \in Users, e \in EthAddresses : ClaimAccount(who, e)
    /\ UNCHANGED chainVars

EthereumNext ==
    \/ \E log \in {"Absent", "Importing"} : OnInitialize(log)
    \/ ImportEnds
    \/ \E t \in Transaction, used_gas \in IntrinsicGas..BlockGasLimit,
          succeeds \in BOOLEAN :
         \/ ImportTransaction(t, used_gas, succeeds)
         \/ Transact(t, used_gas, succeeds)
    \/ Rejected
    \/ AccountStep
    \/ OnFinalize

EthereumSpec == EthereumInit /\ [][EthereumNext]_ethereumVars

-----------------------------------------------------------------------------
(***************************************************************************)
(* Properties.                                                             *)
(***************************************************************************)

\* "transaction is already validated; error indicates that the block is
\* invalid": whatever claims, deaths and transactions came before it in the
\* block, a transaction that validate_transaction_in_block lets through is one
\* that execute accepts, so that its `expect` never panics.
ValidatedExecutes ==
    \A t \in Transaction : ValidInBlock(t) => ExecuteAccepts(t)

\* The block that on_finalize stores has the transactions that were applied
\* since on_initialize, each once and in their order, and none of an earlier
\* block, whether they came by themselves or in a pre-log.  Its receipts count
\* the gas of the block up to their transaction, and the header has the sum.
BlockIsWhatWasExecuted ==
    ~building =>
        LET gas == [i \in DOMAIN executed |-> executed[i].gas]
        IN  /\ current_block.transactions
                 = [i \in DOMAIN executed |-> executed[i].transaction]
            /\ current_block.receipts
                 = [i \in DOMAIN executed |-> Total(gas, 1..i)]
            /\ current_block.gas_used = Total(gas, DOMAIN gas)

\* While a block is built the EVM finds the hashes of genesis and of the last
\* BlockHashCount + 1 blocks, and only of these, and the block that is stored
\* last is the parent of the one that is stored next.
HashWindow ==
    /\ building => \A n \in 0..MaxBlock :
         block_hash[n] = IF n = 0 \/ n \in (block_number - 1 - BlockHashCount)
                                             ..(block_number - 1)
                         THEN n ELSE None
    /\ current_block.number > 0 =>
         current_block.parent_hash = current_block.number - 1
=============================================================================
