--------------------------- MODULE EthereumProofs ---------------------------
(***************************************************************************)
(* Proofs about the accounts of Ethereum addresses, Ethereum's blocks and  *)
(* the tags of the pool, for all accounts, addresses, calls, fees, gas     *)
(* limits and lengths of the window of hashes.                             *)
(***************************************************************************)
EXTENDS EthereumPool, TotalsProofs

EvmTypeOK ==
    /\ accounts \in [EthAddresses -> Users \cup {None}]
    /\ evm_addresses \in [Users -> EthAddresses \cup {None}]
    /\ free \in [AccountIds -> Nat]
    /\ nonce \in [AccountIds -> Nat]

EvmIInv == EvmTypeOK /\ MappingsInverse

-----------------------------------------------------------------------------
(***************************************************************************)
(* Accounts.                                                               *)
(***************************************************************************)

LEMMA IntoAccountIdType ==
    ASSUME EvmTypeOK, NEW e \in EthAddresses
    PROVE  IntoAccountId(e) \in AccountIds
BY DEF EvmTypeOK, IntoAccountId, AccountIds

LEMMA EvmInitIInv == EvmInit => EvmIInv
BY EvmAssumption
   DEF EvmInit, EvmIInv, EvmTypeOK, MappingsInverse, AccountIds

\* A dead account takes both entries with it.
LEMMA KilledIInv ==
    ASSUME EvmIInv, NEW a \in AccountIds, OnKilledAccount(a)
    PROVE  /\ accounts' \in [EthAddresses -> Users \cup {None}]
           /\ evm_addresses' \in [Users -> EthAddresses \cup {None}]
           /\ MappingsInverse'
<1>1. /\ accounts \in [EthAddresses -> Users \cup {None}]
      /\ evm_addresses \in [Users -> EthAddresses \cup {None}]
      /\ MappingsInverse
      /\ None \notin Users /\ None \notin EthAddresses
  BY EvmAssumption DEF EvmIInv, EvmTypeOK, AccountIds
<1>2. CASE a \in Users /\ evm_addresses[a] # None
  <2> DEFINE e == evm_addresses[a]
  <2>1. /\ e \in EthAddresses /\ accounts[e] = a
        /\ accounts' = [accounts EXCEPT ![e] = None]
        /\ evm_addresses' = [evm_addresses EXCEPT ![a] = None]
    BY <1>1, <1>2 DEF OnKilledAccount, MappingsInverse
  <2> HIDE DEF e
  <2>2. MappingsInverse'
    BY <1>1, <1>2, <2>1 DEF MappingsInverse
  <2> QED BY <1>1, <2>1, <2>2
<1>3. CASE ~(a \in Users /\ evm_addresses[a] # None)
  BY <1>1, <1>3 DEF OnKilledAccount, MappingsInverse
<1> QED BY <1>2, <1>3

LEMMA SpendIInv ==
    ASSUME EvmIInv, NEW a \in AccountIds, NEW to \in AccountIds,
           NEW amount \in Nat, Spend(a, to, amount)
    PROVE  EvmIInv'
<1> DEFINE left == free[a] - amount
           dies == left < ExistentialDeposit
<1>1. /\ free \in [AccountIds -> Nat] /\ nonce \in [AccountIds -> Nat]
      /\ ExistentialDeposit \in Nat
  BY EvmAssumption DEF EvmIInv, EvmTypeOK
<1>2. /\ a # to /\ amount <= free[a]
      /\ free' = [free EXCEPT ![a] = IF dies THEN 0 ELSE left,
                              ![to] = @ + amount]
      /\ nonce' = [nonce EXCEPT ![a] = IF dies THEN 0 ELSE @ + 1]
      /\ IF dies THEN OnKilledAccount(a) ELSE UNCHANGED <<accounts, evm_addresses>>
  BY DEF Spend
<1>3. left \in Nat
  BY <1>1, <1>2
<1>4. free' \in [AccountIds -> Nat]
  <2> HIDE DEF left
  <2> QED BY <1>1, <1>2, <1>3
<1>5. nonce' \in [AccountIds -> Nat]
  <2> HIDE DEF left
  <2> QED BY <1>1, <1>2
<1>6. /\ accounts' \in [EthAddresses -> Users \cup {None}]
      /\ evm_addresses' \in [Users -> EthAddresses \cup {None}]
      /\ MappingsInverse'
  <2>1. CASE OnKilledAccount(a)
    BY <2>1, KilledIInv
  <2>2. CASE UNCHANGED <<accounts, evm_addresses>>
    BY <2>2 DEF EvmIInv, EvmTypeOK, MappingsInverse
  <2> QED BY <1>2, <2>1, <2>2
<1> QED BY <1>4, <1>5, <1>6 DEF EvmIInv, EvmTypeOK

LEMMA ClaimAccountIInv ==
    ASSUME EvmIInv, NEW who \in Users, NEW e \in EthAddresses,
           ClaimAccount(who, e)
    PROVE  EvmIInv'
<1>1. /\ accounts \in [EthAddresses -> Users \cup {None}]
      /\ evm_addresses \in [Users -> EthAddresses \cup {None}]
      /\ free \in [AccountIds -> Nat] /\ nonce \in [AccountIds -> Nat]
      /\ MappingsInverse
      /\ None \notin Users /\ None \notin EthAddresses
      /\ who \in AccountIds /\ e \in AccountIds
  BY EvmAssumption DEF EvmIInv, EvmTypeOK, AccountIds
<1>2. /\ evm_addresses[who] = None /\ accounts[e] = None
      /\ accounts' = [accounts EXCEPT ![e] = who]
      /\ evm_addresses' = [evm_addresses EXCEPT ![who] = e]
  BY DEF ClaimAccount
<1>3. free' \in [AccountIds -> Nat]
  BY <1>1 DEF ClaimAccount
<1>4. nonce' \in [AccountIds -> Nat]
  <2>1. NonceAfterMerge(e) \in Nat
    BY <1>1 DEF NonceAfterMerge
  <2> QED BY <1>1, <2>1 DEF ClaimAccount
<1>5. /\ accounts' \in [EthAddresses -> Users \cup {None}]
      /\ evm_addresses' \in [Users -> EthAddresses \cup {None}]
  BY <1>1, <1>2
<1>6. MappingsInverse'
  BY <1>1, <1>2 DEF MappingsInverse
<1> QED BY <1>3, <1>4, <1>5, <1>6 DEF EvmIInv, EvmTypeOK

-----------------------------------------------------------------------------
(***************************************************************************)
(* Validation and execution.                                               *)
(***************************************************************************)

LEMMA CallType ==
    ASSUME NEW t \in Transaction
    PROVE  /\ t.call \in Calls /\ t.nonce \in Nat
           /\ t.call.type \in {"Legacy", "EIP1559"}
           /\ t.call.from \in EthAddresses /\ t.call.to \in EthAddresses
           /\ t.call.gas_limit \in Nat /\ t.call.gas_price \in Nat
           /\ t.call.max_priority_fee_per_gas \in Nat /\ t.call.value \in Nat
           /\ t.call.type = "Legacy" => t.call.max_priority_fee_per_gas = 0
<1>1. t.call \in Calls /\ t.nonce \in Nat
  BY EvmAssumption DEF Transaction
<1>2. \A c \in Calls :
        c \in [type : {"Legacy", "EIP1559"}, from : EthAddresses,
               to : EthAddresses, gas_limit : Nat, gas_price : Nat,
               max_priority_fee_per_gas : Nat, value : Nat, input : BOOLEAN]
  BY EthereumAssumption
<1>3. t.call.type = "Legacy" => t.call.max_priority_fee_per_gas = 0
  BY <1>1, EthereumAssumption
<1> QED BY <1>1, <1>2, <1>3

\* What execute asks for, gas at the fees it hands to the EVM, is what
\* validation made sure of.
LEMMA FeesAgree ==
    ASSUME NEW t \in Transaction, t.call.gas_price >= BaseFee
    PROVE  /\ MaxFeePerGas(t) \in Nat /\ MaxPriorityFeePerGas(t) \in Nat
           /\ MaxFeePerGas(t) >= BaseFee
           /\ PayableFee(t) =
                (MaxFeePerGas(t) + MaxPriorityFeePerGas(t)) * t.call.gas_limit
<1> DEFINE p == t.call.gas_price
           q == t.call.max_priority_fee_per_gas
           g == t.call.gas_limit
<1>1. /\ p \in Nat /\ q \in Nat /\ g \in Nat /\ BaseFee \in Nat
      /\ p >= BaseFee
      /\ t.call.type = "Legacy" => q = 0
      /\ t.call.type \in {"Legacy", "EIP1559"}
  BY CallType, EthereumAssumption
<1>2. PayableFee(t) = p * g + q * g
  BY DEF PayableFee
<1>3. p * g + q * g = (p + q) * g
  <2> HIDE DEF p, q, g
  <2> QED BY <1>1
<1>4. CASE t.call.type = "EIP1559"
  <2>1. MaxFeePerGas(t) = p /\ MaxPriorityFeePerGas(t) = q
    BY <1>4 DEF MaxFeePerGas, MaxPriorityFeePerGas
  <2> HIDE DEF p, q, g
  <2> QED BY <1>1, <1>2, <1>3, <2>1 DEF g
<1>5. CASE t.call.type = "Legacy"
  <2>1. MaxFeePerGas(t) = BaseFee /\ MaxPriorityFeePerGas(t) = p - BaseFee
    BY <1>5 DEF MaxFeePerGas, MaxPriorityFeePerGas
  <2>2. q = 0
    BY <1>1, <1>5
  <2>3. BaseFee + (p - BaseFee) = p /\ p + q = p
    <3> HIDE DEF p, q
    <3> QED BY <1>1, <2>2
  <2>4. PayableFee(t) = (MaxFeePerGas(t) + MaxPriorityFeePerGas(t)) * g
    BY <1>2, <1>3, <2>1, <2>3
  <2>5. p - BaseFee \in Nat
    <3> HIDE DEF p
    <3> QED BY <1>1
  <2>6. MaxFeePerGas(t) >= BaseFee
    <3> HIDE DEF p
    <3> QED BY <1>1, <2>1
  <2> QED BY <1>1, <2>1, <2>4, <2>5, <2>6
<1> QED BY <1>1, <1>4, <1>5

\* A transaction that validate_transaction_in_block lets through is one that
\* execute accepts.
LEMMA ValidIsAccepted ==
    ASSUME NEW t \in Transaction, ValidInBlock(t)
    PROVE  ExecuteAccepts(t)
<1>1. /\ t.call.gas_price >= BaseFee
      /\ AccountBalance(t.call.from) >= t.call.value + PayableFee(t)
      /\ t.nonce = AccountNonce(t.call.from)
  BY DEF ValidInBlock, ValidTransaction
<1> QED BY <1>1, FeesAgree DEF ExecuteAccepts

\* A product grows with its factors.
LEMMA ProductMonotone ==
    ASSUME NEW a \in Nat, NEW b \in Nat, NEW c \in Nat, NEW d \in Nat,
           a <= b, c <= d
    PROVE  a * c <= b * d /\ a * c \in Nat
<1>1. PICK x \in Nat : b = a + x
  <2>1. b - a \in Nat /\ b = a + (b - a)
    OBVIOUS
  <2> QED BY <2>1
<1>2. PICK y \in Nat : d = c + y
  <2>1. d - c \in Nat /\ d = c + (d - c)
    OBVIOUS
  <2> QED BY <2>1
<1>3. b * d = a * c + a * y + x * c + x * y
  BY <1>1, <1>2
<1>4. a * c \in Nat /\ a * y \in Nat /\ x * c \in Nat /\ x * y \in Nat
  OBVIOUS
<1> QED BY <1>3, <1>4

\* What the EVM takes from the sender is covered by what was validated, and
\* leaves the existential deposit: the sender's account is not killed.
LEMMA SenderCanPay ==
    ASSUME EvmTypeOK, NEW t \in Transaction, ExecuteAccepts(t), ValidInBlock(t),
           NEW used_gas \in Nat, used_gas <= t.call.gas_limit
    PROVE  /\ (BaseFee + MaxPriorityFeePerGas(t)) * used_gas \in Nat
           /\ t.call.value \in Nat
           /\ \/ free[IntoAccountId(t.call.from)]
                   >= ExistentialDeposit + t.call.value
                        + (BaseFee + MaxPriorityFeePerGas(t)) * used_gas
              \/ /\ t.call.value = 0
                 /\ (BaseFee + MaxPriorityFeePerGas(t)) * used_gas = 0
<1> DEFINE m == MaxFeePerGas(t)
           q == MaxPriorityFeePerGas(t)
           g == t.call.gas_limit
           v == t.call.value
           f == free[IntoAccountId(t.call.from)]
           B == AccountBalance(t.call.from)
<1>1. /\ m \in Nat /\ q \in Nat /\ m >= BaseFee /\ g \in Nat /\ v \in Nat
      /\ BaseFee \in Nat
  BY FeesAgree, CallType, EthereumAssumption DEF ValidInBlock, ValidTransaction
<1>2. B >= v + (m + q) * g
  BY DEF ExecuteAccepts
<1>3. f \in Nat /\ ExistentialDeposit \in Nat
  BY CallType, IntoAccountIdType, EvmAssumption DEF EvmTypeOK
<1>4. B = IF f < ExistentialDeposit THEN 0 ELSE f - ExistentialDeposit
  BY DEF AccountBalance
<1> DEFINE fee == (BaseFee + q) * used_gas
           most == (m + q) * g
<1>5. fee <= most /\ fee \in Nat /\ most \in Nat
  <2>1. BaseFee + q \in Nat /\ m + q \in Nat /\ BaseFee + q <= m + q
    <3> HIDE DEF m, q
    <3> QED BY <1>1
  <2>2. used_gas <= g
    OBVIOUS
  <2>3. fee <= most /\ fee \in Nat
    <3> HIDE DEF m, q, g
    <3> QED BY <1>1, <2>1, <2>2, ProductMonotone
  <2>4. most \in Nat
    <3> HIDE DEF m, q, g
    <3> QED BY <1>1, <2>1
  <2> QED BY <2>3, <2>4
<1>6. f >= ExistentialDeposit + v + fee \/ (v = 0 /\ fee = 0)
  <2> HIDE DEF m, q, g, v, f, B, fee
  <2>1. B >= v + most
    BY <1>2
  <2> HIDE DEF most
  <2> QED BY <1>1, <1>3, <1>4, <1>5, <2>1
<1> QED BY <1>1, <1>5, <1>6

LEMMA RunnerCallIInv ==
    ASSUME EvmIInv, NEW t \in Transaction, ExecuteAccepts(t), ValidInBlock(t),
           NEW used_gas \in Nat, used_gas <= t.call.gas_limit,
           NEW succeeds \in BOOLEAN, RunnerCall(t, used_gas, succeeds)
    PROVE  EvmIInv'
<1> DEFINE source == IntoAccountId(t.call.from)
           target == IntoAccountId(t.call.to)
           fee == (BaseFee + MaxPriorityFeePerGas(t)) * used_gas
           v == t.call.value
<1>1. /\ source \in AccountIds /\ target \in AccountIds
      /\ free \in [AccountIds -> Nat] /\ nonce \in [AccountIds -> Nat]
  BY CallType, IntoAccountIdType DEF EvmIInv, EvmTypeOK
<1>2. /\ free' = IF succeeds /\ source # target
                 THEN [free EXCEPT ![source] = @ - fee - v, ![target] = @ + v]
                 ELSE [free EXCEPT ![source] = @ - fee]
      /\ nonce' = [nonce EXCEPT ![source] = @ + 1]
      /\ UNCHANGED <<accounts, evm_addresses>>
  BY DEF RunnerCall
<1>3. /\ fee \in Nat /\ v \in Nat
      /\ free[source] >= ExistentialDeposit + v + fee \/ (v = 0 /\ fee = 0)
      /\ ExistentialDeposit \in Nat
  BY SenderCanPay, EvmAssumption DEF EvmIInv
<1> HIDE DEF source, target, fee, v
<1>4. free[source] - fee - v \in Nat /\ free[source] - fee \in Nat
  BY <1>1, <1>3
<1>5. free' \in [AccountIds -> Nat]
  BY <1>1, <1>2, <1>3, <1>4
<1>6. nonce' \in [AccountIds -> Nat]
  BY <1>1, <1>2
<1> QED BY <1>2, <1>5, <1>6 DEF EvmIInv, EvmTypeOK, MappingsInverse

-----------------------------------------------------------------------------
(***************************************************************************)
(* Blocks.                                                                 *)
(***************************************************************************)

ExecutedEntry == [transaction : Transaction, gas : Nat]
PendingEntry == [transaction : Transaction, used_gas : Nat]

ChainTypeOK ==
    /\ block_number \in Nat
    /\ building \in BOOLEAN
    /\ pre_log = "Importing" => building
    /\ executed \in Seq(ExecutedEntry)
    /\ pending \in Seq(PendingEntry)

\* The gas of a sequence of executed transactions, and how what is pending
\* agrees with it.
Gas(done) == [i \in DOMAIN done |-> done[i].gas]

Agrees(before, done) ==
    /\ Len(before) = Len(done)
    /\ \A i \in 1..Len(done) :
         /\ before[i].transaction = done[i].transaction
         /\ before[i].used_gas = Total(Gas(done), 1..i)

PendingIsExecuted == Agrees(pending, executed)

\* The number of the last block, and the window of hashes that ends with it.
LastBlock == IF building THEN block_number - 1 ELSE block_number

WindowOfLast ==
    /\ current_block.number = LastBlock
    /\ building => block_number > 0
    /\ current_block.number > 0 =>
         current_block.parent_hash = current_block.number - 1
    /\ \A n \in 0..MaxBlock :
         block_hash[n] = IF n = 0 \/ n \in (LastBlock - BlockHashCount)..LastBlock
                         THEN n ELSE None

EthereumIInv ==
    /\ EvmIInv
    /\ ChainTypeOK
    /\ PendingIsExecuted
    /\ BlockIsWhatWasExecuted
    /\ WindowOfLast

LEMMA EthereumInitIInv == EthereumInit => EthereumIInv
<1> SUFFICES ASSUME EthereumInit PROVE EthereumIInv
  OBVIOUS
<1> USE DEF EthereumInit
<1>1. EvmIInv
  BY EvmInitIInv
<1>2. ChainTypeOK
  <2>1. block_number \in Nat /\ building \in BOOLEAN
    OBVIOUS
  <2>2. /\ executed \in Seq(ExecutedEntry)
        /\ pending \in Seq(PendingEntry)
    OBVIOUS
  <2> QED BY <2>1, <2>2 DEF ChainTypeOK
<1>3. PendingIsExecuted
  BY DEF PendingIsExecuted, Agrees
<1>4. BlockIsWhatWasExecuted
  <2> DEFINE gas == [i \in DOMAIN executed |-> executed[i].gas]
  <2>1. DOMAIN executed = {}
    OBVIOUS
  <2>2. DOMAIN gas = {}
    BY <2>1
  <2>3. Units(gas, {}) = {}
    BY DEF Units
  <2>4. Total(gas, DOMAIN gas) = 0
    BY <2>2, <2>3, FS_EmptySet DEF Total
  <2>5. /\ [i \in DOMAIN executed |-> executed[i].transaction] = <<>>
        /\ [i \in DOMAIN executed |-> Total(gas, 1..i)] = <<>>
    BY <2>1
  <2> QED BY <2>4, <2>5 DEF BlockIsWhatWasExecuted
<1>5. WindowOfLast
  BY EthereumAssumption DEF WindowOfLast, LastBlock
<1> QED BY <1>1, <1>2, <1>3, <1>4, <1>5 DEF EthereumIInv

\* One more transaction: its receipt has the gas of all before it and its own.
LEMMA AppendAgrees ==
    ASSUME NEW done \in Seq(ExecutedEntry),
           NEW before \in Seq(PendingEntry),
           Agrees(before, done), NEW t \in Transaction, NEW used_gas \in Nat
    PROVE  LET x == [transaction |-> t,
                     used_gas |-> CumulativeGas(before, used_gas)]
               y == [transaction |-> t, gas |-> used_gas]
           IN  /\ Append(before, x)
                    \in Seq(PendingEntry)
               /\ Append(done, y) \in Seq(ExecutedEntry)
               /\ Agrees(Append(before, x), Append(done, y))
<1> DEFINE c == CumulativeGas(before, used_gas)
           x == [transaction |-> t, used_gas |-> c]
           y == [transaction |-> t, gas |-> used_gas]
           n == Len(done)
           b2 == Append(before, x)
           d2 == Append(done, y)
           g == Gas(done)
           h == Gas(d2)
<1>1. /\ n \in Nat /\ Len(before) = n
      /\ DOMAIN done = 1..n
      /\ \A i \in 1..n : done[i].gas \in Nat /\ before[i].used_gas \in Nat
  <2>1. n \in Nat /\ Len(before) = n /\ DOMAIN done = 1..n
    BY DEF Agrees
  <2>2. \A i \in 1..n :
          /\ done[i] \in ExecutedEntry
          /\ before[i] \in PendingEntry
    BY <2>1
  <2> QED BY <2>1, <2>2 DEF ExecutedEntry, PendingEntry
<1>2. c = IF n = 0 THEN used_gas ELSE before[n].used_gas + used_gas
  <2>1. before = <<>> <=> n = 0
    BY <1>1
  <2> QED BY <1>1, <2>1 DEF CumulativeGas
<1> HIDE DEF c
<1>10. c \in Nat
  <2> HIDE DEF n
  <2>1. CASE n = 0
    BY <1>2, <2>1
  <2>2. CASE n # 0
    <3>1. before[n].used_gas \in Nat
      BY <1>1, <2>2
    <3> QED BY <1>2, <2>2, <3>1
  <2> QED BY <2>1, <2>2
<1>3. /\ x \in PendingEntry
      /\ y \in ExecutedEntry
  BY <1>10 DEF ExecutedEntry, PendingEntry
<1>4. /\ b2 \in Seq(PendingEntry)
      /\ d2 \in Seq(ExecutedEntry)
      /\ Len(b2) = n + 1 /\ Len(d2) = n + 1
      /\ \A i \in 1..n : b2[i] = before[i] /\ d2[i] = done[i]
      /\ b2[n + 1] = x /\ d2[n + 1] = y
  <2> HIDE DEF x, y
  <2> QED BY <1>1, <1>3
<1>5. DOMAIN d2 = 1..(n + 1)
  <2> HIDE DEF d2
  <2> QED BY <1>4
<1>6. /\ g \in [1..n -> Nat] /\ h \in [1..(n + 1) -> Nat]
      /\ \A i \in 1..n : g[i] = h[i]
      /\ h[n + 1] = used_gas
  <2> HIDE DEF d2, n
  <2>1. \A i \in 1..(n + 1) : d2[i].gas \in Nat
    <3>1. \A i \in 1..(n + 1) : d2[i] \in ExecutedEntry
      BY <1>4
    <3> QED BY <3>1 DEF ExecutedEntry
  <2>2. g = [i \in 1..n |-> done[i].gas]
    BY <1>1 DEF Gas
  <2>3. h = [i \in 1..(n + 1) |-> d2[i].gas]
    BY <1>5 DEF Gas
  <2> HIDE DEF g, h
  <2> QED BY <1>1, <1>4, <2>1, <2>2, <2>3
<1>7. \A i \in 1..n : Total(h, 1..i) = Total(g, 1..i)
  <2> SUFFICES ASSUME NEW i \in 1..n PROVE Total(h, 1..i) = Total(g, 1..i)
    OBVIOUS
  <2> HIDE DEF g, h, n
  <2>1. \A j \in 1..i : h[j] = g[j]
    BY <1>1, <1>6
  <2> QED BY ONLY <2>1, TotalSame
<1>8. Total(h, 1..(n + 1)) = c
  <2> HIDE DEF g, h, n
  <2>1. IsFiniteSet(1..(n + 1))
    BY <1>1, FS_Interval
  <2>2. Total(h, 1..(n + 1)) = Total(h, (1..(n + 1)) \ {n + 1}) + h[n + 1]
    <3>1. /\ n + 1 \in 1..(n + 1)
          /\ 1..(n + 1) \in SUBSET (1..(n + 1))
      BY <1>1
    <3> QED BY ONLY <1>6, <2>1, <3>1, TotalSplit
  <2>3. (1..(n + 1)) \ {n + 1} = 1..n
    BY <1>1
  <2>4. CASE n = 0
    <3>1. Units(h, 1..n) = {}
      BY <2>4 DEF Units
    <3>2. Total(h, 1..n) = 0
      BY <3>1, FS_EmptySet DEF Total
    <3>3. c = used_gas
      BY <1>2, <2>4
    <3>4. Total(h, 1..(n + 1)) = Total(h, 1..n) + used_gas
      BY <1>6, <2>2, <2>3
    <3> QED BY ONLY <3>2, <3>3, <3>4, used_gas \in Nat
  <2>5. CASE n > 0
    <3>1. n \in 1..n
      BY <1>1, <2>5
    <3>2. before[n].used_gas = Total(g, 1..n)
      BY <3>1 DEF Agrees, n, g
    <3>3. Total(h, 1..n) = Total(g, 1..n)
      BY <1>7, <3>1
    <3>4. c = before[n].used_gas + used_gas
      BY <1>1, <1>2, <2>5
    <3> QED BY <1>6, <2>2, <2>3, <3>2, <3>3, <3>4
  <2> QED BY <1>1, <2>4, <2>5
<1>9. Agrees(b2, d2)
  <2> SUFFICES ASSUME NEW i \in 1..(n + 1)
               PROVE  /\ b2[i].transaction = d2[i].transaction
                      /\ b2[i].used_gas = Total(h, 1..i)
    <3> HIDE DEF b2, d2, n
    <3> QED BY <1>4 DEF Agrees
  <2>1. CASE i \in 1..n
    <3>1. /\ before[i].transaction = done[i].transaction
          /\ before[i].used_gas = Total(g, 1..i)
      BY <2>1 DEF Agrees
    <3> HIDE DEF b2, d2, n, g, h
    <3> QED BY <1>4, <1>7, <2>1, <3>1
  <2>2. CASE i = n + 1
    <3>1. b2[i] = x /\ d2[i] = y
      BY <1>4, <2>2
    <3>2. Total(h, 1..i) = c
      BY <1>8, <2>2
    <3> HIDE DEF b2, d2, n, g, h, c
    <3> QED BY <3>1, <3>2
  <2> HIDE DEF n
  <2> QED BY <1>1, <2>1, <2>2
<1> QED BY <1>4, <1>9 DEF c

LEMMA ApplyIInv ==
    ASSUME EvmIInv, NEW t \in Transaction, NEW used_gas \in Nat,
           NEW succeeds \in BOOLEAN, executed \in Seq(ExecutedEntry),
           pending \in Seq(PendingEntry), Agrees(pending, executed),
           ApplyValidatedTransaction(t, used_gas, succeeds)
    PROVE  /\ EvmIInv'
           /\ executed' \in Seq(ExecutedEntry)
           /\ pending' \in Seq(PendingEntry)
           /\ Agrees(pending', executed')
<1>1. /\ ValidInBlock(t) /\ ExecuteAccepts(t) /\ used_gas <= t.call.gas_limit
      /\ RunnerCall(t, used_gas, succeeds)
  BY DEF ApplyValidatedTransaction
<1>2. EvmIInv'
  BY <1>1, RunnerCallIInv
<1>3. /\ pending' = Append(pending, [transaction |-> t,
                                     used_gas |-> CumulativeGas(pending, used_gas)])
      /\ executed' = Append(executed, [transaction |-> t, gas |-> used_gas])
  BY DEF ApplyValidatedTransaction
<1> QED BY <1>2, <1>3, AppendAgrees

\* Nothing is pending when a block begins.
LEMMA EmptyAgrees ==
    /\ <<>> \in Seq(ExecutedEntry) /\ KilledPending \in Seq(PendingEntry)
    /\ Agrees(KilledPending, <<>>)
BY DEF KilledPending, Agrees

\* The window of hashes moves with the block that is stored.
LEMMA FinalizeWindow ==
    ASSUME ChainTypeOK, WindowOfLast, OnFinalize
    PROVE  WindowOfLast'
<1>1. /\ block_number \in Nat /\ BlockHashCount \in Nat /\ MaxBlock \in Nat
      /\ building = TRUE /\ building' = FALSE /\ block_number' = block_number
  BY EthereumAssumption DEF ChainTypeOK, OnFinalize, Dispatching
<1>2. /\ block_number > 0
      /\ current_block.number = block_number - 1
      /\ \A n \in 0..MaxBlock :
           block_hash[n] = IF n = 0 \/ n \in (block_number - 1 - BlockHashCount)
                                              ..(block_number - 1)
                           THEN n ELSE None
  BY <1>1 DEF WindowOfLast, LastBlock
<1>3. /\ current_block'.number = block_number
      /\ current_block'.parent_hash = current_block.number
  BY DEF OnFinalize, StoreBlock, HashOf
<1>4. block_hash' = [n \in 0..MaxBlock |->
                       IF n \in HashesRemoved THEN None
                       ELSE IF n = block_number THEN block_number
                       ELSE block_hash[n]]
  BY <1>3 DEF OnFinalize, HashOf
<1>5. LastBlock' = block_number
  BY <1>1 DEF LastBlock
<1>6. ASSUME NEW n \in 0..MaxBlock
      PROVE  block_hash'[n] =
               IF n = 0 \/ n \in (block_number - BlockHashCount)..block_number
               THEN n ELSE None
  <2>1. n \in HashesRemoved <=> n > 0 /\ n = block_number - BlockHashCount - 1
    BY <1>1, <1>6 DEF HashesRemoved
  <2>2. block_hash'[n] = IF n \in HashesRemoved THEN None
                         ELSE IF n = block_number THEN block_number
                         ELSE block_hash[n]
    BY <1>4, <1>6
  <2> QED BY <1>1, <1>2, <1>6, <2>1, <2>2
<1> QED BY <1>1, <1>2, <1>3, <1>5, <1>6 DEF WindowOfLast

\* The block on_finalize stores is what was executed.
LEMMA FinalizeBlock ==
    ASSUME ChainTypeOK, PendingIsExecuted, OnFinalize
    PROVE  BlockIsWhatWasExecuted'
<1> DEFINE n == Len(executed)
           gas == [i \in DOMAIN executed |-> executed[i].gas]
<1>1. /\ executed \in Seq(ExecutedEntry) /\ pending \in Seq(PendingEntry)
      /\ executed' = executed
  BY DEF ChainTypeOK, OnFinalize
<1>2. /\ Len(pending) = n /\ n \in Nat
      /\ DOMAIN pending = 1..n /\ DOMAIN executed = 1..n
  BY <1>1 DEF PendingIsExecuted, Agrees
<1>3. \A i \in 1..n : /\ pending[i].transaction = executed[i].transaction
                      /\ pending[i].used_gas = Total(gas, 1..i)
  BY DEF PendingIsExecuted, Agrees, Gas
<1>4. /\ current_block'.transactions =
           [i \in DOMAIN pending |-> pending[i].transaction]
      /\ current_block'.receipts =
           [i \in DOMAIN pending |-> pending[i].used_gas]
      /\ current_block'.gas_used =
           IF pending = <<>> THEN 0 ELSE pending[Len(pending)].used_gas
  BY DEF OnFinalize, StoreBlock
<1> HIDE DEF n, gas
<1>5. current_block'.transactions =
        [i \in DOMAIN executed |-> executed[i].transaction]
  BY <1>2, <1>3, <1>4
<1>6. current_block'.receipts = [i \in DOMAIN executed |-> Total(gas, 1..i)]
  BY <1>2, <1>3, <1>4
<1>7. current_block'.gas_used = Total(gas, 1..n)
  <2>1. CASE n = 0
    <3>1. pending = <<>>
      BY <1>1, <1>2, <2>1
    <3>2. Units(gas, 1..n) = {}
      BY <2>1 DEF Units
    <3> QED BY <1>4, <3>1, <3>2, FS_EmptySet DEF Total
  <2>2. CASE n # 0
    <3>1. n \in 1..n /\ pending # <<>>
      BY <1>1, <1>2, <2>2
    <3> QED BY <1>2, <1>3, <1>4, <3>1
  <2> QED BY <2>1, <2>2
<1>8. DOMAIN gas = 1..n
  BY <1>2 DEF gas
<1>9. current_block'.gas_used = Total(gas, DOMAIN gas)
  BY <1>7, <1>8
<1> QED BY <1>1, <1>5, <1>6, <1>9 DEF BlockIsWhatWasExecuted, gas

LEMMA EthereumStepIInv ==
    EthereumIInv /\ [EthereumNext]_ethereumVars => EthereumIInv'
<1> SUFFICES ASSUME EthereumIInv, [EthereumNext]_ethereumVars
             PROVE  EthereumIInv'
  OBVIOUS
<1>1. ASSUME NEW log, OnInitialize(log)
      PROVE  EthereumIInv'
  <2> USE <1>1 DEF OnInitialize
  <2>1. EvmIInv'
    BY DEF evmVars, EthereumIInv, EvmIInv, EvmTypeOK, MappingsInverse
  <2>2. /\ block_number' \in Nat /\ building' = TRUE
        /\ executed' = <<>> /\ pending' = KilledPending
    BY DEF EthereumIInv, ChainTypeOK
  <2>3. ChainTypeOK' /\ PendingIsExecuted'
    BY <2>2, EmptyAgrees DEF ChainTypeOK, PendingIsExecuted
  <2>4. BlockIsWhatWasExecuted'
    BY DEF BlockIsWhatWasExecuted
  <2>5. WindowOfLast'
    BY DEF EthereumIInv, ChainTypeOK, WindowOfLast, LastBlock
  <2> QED BY <2>1, <2>3, <2>4, <2>5 DEF EthereumIInv
<1>2. CASE ImportEnds
  <2> USE <1>2 DEF ImportEnds
  <2>1. EvmIInv'
    BY DEF evmVars, EthereumIInv, EvmIInv, EvmTypeOK, MappingsInverse
  <2>2. ChainTypeOK' /\ PendingIsExecuted'
    BY DEF EthereumIInv, ChainTypeOK, PendingIsExecuted
  <2>3. BlockIsWhatWasExecuted'
    BY DEF EthereumIInv, BlockIsWhatWasExecuted
  <2>4. WindowOfLast'
    BY DEF EthereumIInv, WindowOfLast, LastBlock
  <2> QED BY <2>1, <2>2, <2>3, <2>4 DEF EthereumIInv
<1>3. ASSUME NEW t \in Transaction, NEW used_gas \in Nat,
             NEW succeeds \in BOOLEAN,
             ImportTransaction(t, used_gas, succeeds)
               \/ Transact(t, used_gas, succeeds)
      PROVE  EthereumIInv'
  <2>1. /\ ApplyValidatedTransaction(t, used_gas, succeeds)
        /\ building = TRUE
    BY <1>3 DEF ImportTransaction, Transact, Dispatching, EthereumIInv,
                ChainTypeOK
  <2>2. UNCHANGED <<block_number, building, pre_log, current_block, block_hash>>
    BY <2>1 DEF ApplyValidatedTransaction
  <2>3. /\ EvmIInv' /\ executed' \in Seq(ExecutedEntry)
        /\ pending' \in Seq(PendingEntry) /\ Agrees(pending', executed')
    BY <2>1, ApplyIInv DEF EthereumIInv, ChainTypeOK, PendingIsExecuted
  <2>4. ChainTypeOK' /\ PendingIsExecuted'
    BY <2>1, <2>2, <2>3 DEF EthereumIInv, ChainTypeOK, PendingIsExecuted
  <2>5. BlockIsWhatWasExecuted'
    BY <2>1, <2>2 DEF BlockIsWhatWasExecuted
  <2>6. WindowOfLast'
    BY <2>2 DEF EthereumIInv, WindowOfLast, LastBlock
  <2> QED BY <2>3, <2>4, <2>5, <2>6 DEF EthereumIInv
<1>4. ASSUME UNCHANGED chainVars, EvmIInv'
      PROVE  EthereumIInv'
  <2>1. ChainTypeOK' /\ PendingIsExecuted' /\ BlockIsWhatWasExecuted'
        /\ WindowOfLast'
    BY <1>4 DEF chainVars, EthereumIInv, ChainTypeOK, PendingIsExecuted,
                BlockIsWhatWasExecuted, WindowOfLast, LastBlock
  <2> QED BY <1>4, <2>1 DEF EthereumIInv
<1>5. CASE AccountStep
  <2>1. ASSUME NEW a \in Users, NEW to \in AccountIds, NEW amount \in Amounts,
               Spend(a, to, amount)
        PROVE  EvmIInv'
    <3>1. amount \in Nat /\ a \in AccountIds
      BY EthereumAssumption DEF AccountIds
    <3> QED BY <2>1, <3>1, SpendIInv DEF EthereumIInv
  <2>2. ASSUME NEW who \in Users, NEW e \in EthAddresses, ClaimAccount(who, e)
        PROVE  EvmIInv'
    BY <2>2, ClaimAccountIInv DEF EthereumIInv
  <2> QED BY <1>4, <1>5, <2>1, <2>2 DEF AccountStep
<1>6. CASE OnFinalize
  <2>1. EvmIInv'
    BY <1>6 DEF OnFinalize, evmVars, EthereumIInv, EvmIInv, EvmTypeOK,
                MappingsInverse
  <2>2. ChainTypeOK'
    BY <1>6 DEF OnFinalize, Dispatching, EthereumIInv, ChainTypeOK
  <2>3. PendingIsExecuted'
    BY <1>6 DEF OnFinalize, EthereumIInv, PendingIsExecuted
  <2>4. BlockIsWhatWasExecuted' /\ WindowOfLast'
    BY <1>6, FinalizeBlock, FinalizeWindow DEF EthereumIInv
  <2> QED BY <2>1, <2>2, <2>3, <2>4 DEF EthereumIInv
<1>7. CASE UNCHANGED ethereumVars
  <2>1. UNCHANGED chainVars /\ UNCHANGED evmVars
    BY <1>7 DEF ethereumVars
  <2>2. EvmIInv'
    BY <2>1 DEF evmVars, EthereumIInv, EvmIInv, EvmTypeOK, MappingsInverse
  <2> QED BY <1>4, <2>1, <2>2
<1>8. \A used_gas \in IntrinsicGas..BlockGasLimit : used_gas \in Nat
  BY EthereumAssumption
<1> QED BY <1>1, <1>2, <1>3, <1>5, <1>6, <1>7, <1>8 DEF EthereumNext, Rejected

-----------------------------------------------------------------------------
(***************************************************************************)
(* The pool.  A step of the pool leaves the chain alone.                   *)
(***************************************************************************)

PooledEntry == [transaction : Transaction, requires : BOOLEAN,
                priority : Int, reset : BOOLEAN]

\* What an executed transaction provides to a pooled one: the sender's account
\* has reached its nonce, unless the nonce went back.
ProvidedIsReached ==
    building => \A p \in pool, i \in DOMAIN executed :
        /\ ~p.reset
        /\ Provides(executed[i].transaction) =
             <<p.transaction.call.from, p.transaction.nonce - 1>>
        => AccountNonce(p.transaction.call.from) >= p.transaction.nonce

PoolIInv ==
    /\ EthereumIInv
    /\ pool \in SUBSET PooledEntry
    /\ ProvidedIsReached
    /\ ReadyIsNotEarly

LEMMA PoolChainStep ==
    EthereumIInv /\ [PoolNext]_poolVars => EthereumIInv'
<1> SUFFICES ASSUME EthereumIInv, [PoolNext]_poolVars PROVE EthereumIInv'
  OBVIOUS
<1>1. [EthereumNext]_ethereumVars
  BY DEF PoolNext, ChainStep, AddAddresses, RemoveAddresses, Submit, Discard,
         poolVars
<1> QED BY <1>1, EthereumStepIInv

LEMMA AccountNonceType ==
    ASSUME EvmTypeOK, NEW e \in EthAddresses
    PROVE  AccountNonce(e) \in Nat
BY IntoAccountIdType DEF EvmTypeOK, AccountNonce

\* The nonce of a transaction's sender after it was applied.
LEMMA AppliedNonce ==
    ASSUME EvmIInv, NEW t \in Transaction, NEW used_gas, NEW succeeds,
           ApplyValidatedTransaction(t, used_gas, succeeds)
    PROVE  AccountNonce(t.call.from)' = t.nonce + 1
<1> DEFINE source == IntoAccountId(t.call.from)
<1>1. /\ nonce' = [nonce EXCEPT ![source] = @ + 1]
      /\ accounts' = accounts
      /\ t.nonce = nonce[source]
  BY DEF ApplyValidatedTransaction, RunnerCall, ValidInBlock, AccountNonce
<1>2. source \in AccountIds /\ nonce \in [AccountIds -> Nat]
  BY CallType, IntoAccountIdType DEF EvmIInv, EvmTypeOK
<1>3. IntoAccountId(t.call.from)' = source
  BY <1>1 DEF IntoAccountId
<1>4. nonce'[source] = t.nonce + 1
  <2> HIDE DEF source
  <2> QED BY <1>1, <1>2
<1> QED BY <1>3, <1>4 DEF AccountNonce

\* In a block that is built, a transaction was executed before this step or
\* has just left its sender with the next nonce.
LEMMA ExecutedStep ==
    ASSUME EthereumIInv, EthereumNext, building', NEW i \in DOMAIN executed'
    PROVE  \/ building /\ i \in DOMAIN executed /\ executed'[i] = executed[i]
           \/ \E t \in Transaction : /\ executed'[i].transaction = t
                                     /\ AccountNonce(t.call.from)' = t.nonce + 1
<1>1. EvmIInv /\ executed \in Seq(ExecutedEntry)
  BY DEF EthereumIInv, ChainTypeOK
<1>3. ASSUME NEW t \in Transaction, NEW used_gas \in Nat, NEW succeeds,
             ImportTransaction(t, used_gas, succeeds)
               \/ Transact(t, used_gas, succeeds)
      PROVE  \/ building /\ i \in DOMAIN executed /\ executed'[i] = executed[i]
             \/ /\ executed'[i].transaction = t
                /\ AccountNonce(t.call.from)' = t.nonce + 1
  <2> DEFINE y == [transaction |-> t, gas |-> used_gas]
  <2>1. /\ ApplyValidatedTransaction(t, used_gas, succeeds)
        /\ executed' = Append(executed, y)
        /\ building
    BY <1>3 DEF ImportTransaction, Transact, Dispatching,
                ApplyValidatedTransaction, EthereumIInv, ChainTypeOK
  <2>2. AccountNonce(t.call.from)' = t.nonce + 1
    BY <1>1, <2>1, AppliedNonce
  <2>3. y \in ExecutedEntry
    BY DEF ExecutedEntry
  <2>4. y.transaction = t
    OBVIOUS
  <2> HIDE DEF y
  <2>5. \/ i \in DOMAIN executed /\ executed'[i] = executed[i]
        \/ executed'[i] = y
    BY <1>1, <2>1, <2>3
  <2> QED BY <2>1, <2>2, <2>4, <2>5
<1>4. \A used_gas \in IntrinsicGas..BlockGasLimit : used_gas \in Nat
  BY EthereumAssumption
<1>5. ASSUME NEW log, OnInitialize(log)
      PROVE  FALSE
  BY <1>5 DEF OnInitialize
<1>6. CASE building /\ executed' = executed
  BY <1>6
<1>7. CASE ImportEnds \/ Rejected \/ AccountStep \/ OnFinalize
  BY <1>6, <1>7 DEF ImportEnds, Rejected, AccountStep, OnFinalize, Dispatching,
                    EthereumIInv, ChainTypeOK, ethereumVars, chainVars
<1>8. ASSUME NEW t \in Transaction, NEW used_gas \in IntrinsicGas..BlockGasLimit,
             NEW succeeds \in BOOLEAN,
             ImportTransaction(t, used_gas, succeeds)
               \/ Transact(t, used_gas, succeeds)
      PROVE  \/ building /\ i \in DOMAIN executed /\ executed'[i] = executed[i]
             \/ \E u \in Transaction :
                  /\ executed'[i].transaction = u
                  /\ AccountNonce(u.call.from)' = u.nonce + 1
  BY <1>3, <1>4, <1>8
<1> QED BY <1>5, <1>7, <1>8 DEF EthereumNext

\* A block that is not built any more was stored by this step.
LEMMA StoredKeepsExecuted ==
    ASSUME ChainTypeOK, EthereumNext, ~building'
    PROVE  building /\ executed' = executed
BY DEF ChainTypeOK, EthereumNext, OnInitialize, ImportTransaction, ImportEnds,
       ApplyValidatedTransaction, Transact, Rejected, AccountStep, OnFinalize,
       Dispatching, ethereumVars, chainVars

\* What the pool learns of an entry.
LEMMA LearnedEntry ==
    ASSUME NEW p \in PooledEntry
    PROVE  /\ Learn(p) \in PooledEntry
           /\ Learn(p).transaction = p.transaction
           /\ Learn(p).requires <=>
                p.requires /\ <<p.transaction.call.from, p.transaction.nonce - 1>>
                                \notin NewTags
           /\ Learn(p).reset <=>
                p.reset \/ AccountNonce(p.transaction.call.from)'
                             < AccountNonce(p.transaction.call.from)
<1> DEFINE r == p.requires /\ <<p.transaction.call.from, p.transaction.nonce - 1>>
                                \notin NewTags
           s == p.reset \/ AccountNonce(p.transaction.call.from)'
                             < AccountNonce(p.transaction.call.from)
<1>1. Learn(p) = [p EXCEPT !.requires = r, !.reset = s]
  BY DEF Learn, AccountNonce
<1>2. r \in BOOLEAN /\ s \in BOOLEAN
  BY DEF PooledEntry
<1> HIDE DEF r, s
<1>3. /\ Learn(p) \in PooledEntry
      /\ Learn(p).transaction = p.transaction
      /\ Learn(p).requires = r /\ Learn(p).reset = s
  BY <1>1, <1>2 DEF PooledEntry
<1> QED BY <1>3 DEF r, s

LEMMA PriorityType ==
    ASSUME NEW t \in Transaction
    PROVE  Priority(t) \in Int
<1> DEFINE d == IF IsLowerPriority(t) THEN 2 * TipUnit ELSE TipUnit
<1>1. Tip(t) \in Int /\ GasToWeight(t.call.gas_limit) \in Int
  BY CallType, EthereumAssumption, PoolAssumption DEF Tip, GasToWeight
<1>2. d \in Nat \ {0}
  BY PoolAssumption
<1> HIDE DEF d
<1>3. Tip(t) \div d - GasToWeight(t.call.gas_limit) \in Int
  BY <1>1, <1>2
<1>4. U64 \in Nat \ {0}
  BY PoolAssumption
<1> QED BY <1>3, <1>4 DEF Priority, d

LEMMA PoolInitIInv == PoolInit => PoolIInv
BY EthereumInitIInv DEF PoolInit, PoolIInv, ProvidedIsReached, ReadyIsNotEarly

\* The chain moves, and the pool learns of it.
LEMMA ChainStepIInv ==
    ASSUME PoolIInv, ChainStep
    PROVE  PoolIInv'
<1>1. EthereumIInv /\ EthereumNext
  BY DEF PoolIInv, ChainStep
<1>2. EthereumIInv'
  BY <1>1, EthereumStepIInv
<1>3. ASSUME NEW q \in pool'
      PROVE  \E p \in pool :
               /\ p \in PooledEntry /\ q = Learn(p)
  BY <1>3 DEF ChainStep, PoolIInv
<1>4. pool' \in SUBSET PooledEntry
  BY <1>3, LearnedEntry
\* Whoever provided the predecessor of a pooled transaction took the sender's
\* nonce to it.
<1>5. ASSUME building', NEW p \in pool, NEW i \in DOMAIN executed',
             AccountNonce(p.transaction.call.from)'
               >= AccountNonce(p.transaction.call.from),
             ~p.reset,
             Provides(executed'[i].transaction) =
               <<p.transaction.call.from, p.transaction.nonce - 1>>
      PROVE  AccountNonce(p.transaction.call.from)' >= p.transaction.nonce
  <2>1. p.transaction \in Transaction
    BY DEF PoolIInv, PooledEntry
  <2>2. /\ p.transaction.nonce \in Nat
        /\ AccountNonce(p.transaction.call.from) \in Nat
        /\ AccountNonce(p.transaction.call.from)' \in Nat
    <3>1. p.transaction.call.from \in EthAddresses /\ p.transaction.nonce \in Nat
      BY <2>1, CallType
    <3>2. EvmTypeOK /\ EvmTypeOK'
      BY <1>1, <1>2 DEF EthereumIInv, EvmIInv
    <3>3. AccountNonce(p.transaction.call.from) \in Nat
      BY <3>1, <3>2, AccountNonceType
    <3>4. AccountNonce(p.transaction.call.from)' \in Nat
      BY <3>1, <3>2 DEF EvmTypeOK, AccountNonce, IntoAccountId, AccountIds
    <3> QED BY <3>1, <3>3, <3>4
  <2>3. CASE building /\ i \in DOMAIN executed /\ executed'[i] = executed[i]
    <3>1. AccountNonce(p.transaction.call.from) >= p.transaction.nonce
      BY <1>5, <2>3 DEF PoolIInv, ProvidedIsReached
    <3> QED BY <1>5, <2>2, <3>1
  <2>4. ASSUME NEW t \in Transaction, executed'[i].transaction = t,
               AccountNonce(t.call.from)' = t.nonce + 1
        PROVE  AccountNonce(p.transaction.call.from)' >= p.transaction.nonce
    <3>1. /\ t.call.from = p.transaction.call.from
          /\ t.nonce = p.transaction.nonce - 1
      BY <1>5, <2>4 DEF Provides
    <3>2. AccountNonce(p.transaction.call.from)' = t.nonce + 1
      BY <2>4, <3>1 DEF AccountNonce, IntoAccountId
    <3> QED BY <2>2, <3>1, <3>2
  <2> QED BY <1>1, <1>5, <2>3, <2>4, ExecutedStep
<1>6. ASSUME NEW p \in pool, p \in PooledEntry, ~Learn(p).reset
      PROVE  /\ ~p.reset
             /\ AccountNonce(p.transaction.call.from)'
                  >= AccountNonce(p.transaction.call.from)
             /\ AccountNonce(p.transaction.call.from) \in Nat
             /\ AccountNonce(p.transaction.call.from)' \in Nat
             /\ p.transaction.nonce \in Nat
  <2>1. /\ ~p.reset
        /\ ~(AccountNonce(p.transaction.call.from)'
               < AccountNonce(p.transaction.call.from))
    BY <1>6, LearnedEntry
  <2>2. p.transaction.call.from \in EthAddresses /\ p.transaction.nonce \in Nat
    BY <1>6, CallType DEF PooledEntry
  <2>3. EvmTypeOK /\ EvmTypeOK'
    BY <1>1, <1>2 DEF EthereumIInv, EvmIInv
  <2>4. AccountNonce(p.transaction.call.from) \in Nat
    BY <2>2, <2>3, AccountNonceType
  <2>5. AccountNonce(p.transaction.call.from)' \in Nat
    BY <2>2, <2>3 DEF EvmTypeOK, AccountNonce, IntoAccountId, AccountIds
  <2> QED BY <2>1, <2>2, <2>4, <2>5
<1>7. ProvidedIsReached'
  <2> SUFFICES ASSUME building', NEW q \in pool', NEW i \in DOMAIN executed',
                      ~q.reset,
                      Provides(executed'[i].transaction) =
                        <<q.transaction.call.from, q.transaction.nonce - 1>>
               PROVE  AccountNonce(q.transaction.call.from)'
                        >= q.transaction.nonce
    BY DEF ProvidedIsReached, Provides
  <2>1. PICK p \in pool : p \in PooledEntry /\ q = Learn(p)
    BY <1>3
  <2>2. q.transaction = p.transaction
    BY <2>1, LearnedEntry
  <2>3. AccountNonce(p.transaction.call.from)' >= p.transaction.nonce
    BY <1>5, <1>6, <2>1, <2>2
  <2> QED BY <2>2, <2>3 DEF AccountNonce, IntoAccountId
<1>8. ReadyIsNotEarly'
  <2> SUFFICES ASSUME NEW q \in pool', ~q.requires, ~q.reset
               PROVE  AccountNonce(q.transaction.call.from)'
                        >= q.transaction.nonce
    BY DEF ReadyIsNotEarly
  <2>1. PICK p \in pool : p \in PooledEntry /\ q = Learn(p)
    BY <1>3
  <2>2. q.transaction = p.transaction
    BY <2>1, LearnedEntry
  <2>3. AccountNonce(p.transaction.call.from)' >= p.transaction.nonce
    <3>1. CASE ~p.requires
      <4>1. AccountNonce(p.transaction.call.from) >= p.transaction.nonce
        BY <1>6, <2>1, <3>1 DEF PoolIInv, ReadyIsNotEarly
      <4> QED BY <1>6, <2>1, <4>1
    <3>2. CASE p.requires
      <4>1. <<p.transaction.call.from, p.transaction.nonce - 1>> \in NewTags
        BY <2>1, <3>2, LearnedEntry
      <4>2. ~(building /\ executed' = executed)
        BY <4>1 DEF NewTags
      <4>3. PICK i \in DOMAIN executed' :
              Provides(executed'[i].transaction) =
                <<p.transaction.call.from, p.transaction.nonce - 1>>
        BY <4>1, <4>2 DEF NewTags
      <4>4. building'
        BY <1>1, <4>2, StoredKeepsExecuted DEF EthereumIInv
      <4> QED BY <1>5, <1>6, <2>1, <4>3, <4>4
    <3> QED BY <3>1, <3>2
  <2> QED BY <2>2, <2>3 DEF AccountNonce, IntoAccountId
<1> QED BY <1>2, <1>4, <1>7, <1>8 DEF PoolIInv

LEMMA PoolStepIInv == PoolIInv /\ [PoolNext]_poolVars => PoolIInv'
<1> SUFFICES ASSUME PoolIInv, [PoolNext]_poolVars PROVE PoolIInv'
  OBVIOUS
<1>1. EthereumIInv'
  BY PoolChainStep DEF PoolIInv
\* A step that keeps the chain and adds nothing to the pool.
<1>2. ASSUME UNCHANGED ethereumVars, pool' \subseteq pool
      PROVE  PoolIInv'
  <2>1. UNCHANGED <<accounts, nonce, building, executed>>
    BY <1>2 DEF ethereumVars, evmVars, chainVars
  <2>2. \A e : AccountNonce(e)' = AccountNonce(e)
    BY <2>1 DEF AccountNonce, IntoAccountId
  <2>3. pool' \in SUBSET PooledEntry
    BY <1>2 DEF PoolIInv
  <2>4. ReadyIsNotEarly'
    BY <1>2, <2>2 DEF PoolIInv, ReadyIsNotEarly
  <2>5. ProvidedIsReached'
    BY <1>2, <2>1, <2>2 DEF PoolIInv, ProvidedIsReached, Provides
  <2> QED BY <1>1, <2>3, <2>4, <2>5 DEF PoolIInv
<1>3. ASSUME NEW t \in Transaction, Submit(t)
      PROVE  PoolIInv'
  <2>1. UNCHANGED <<accounts, nonce, building, executed>> /\ ~building
    BY <1>3 DEF Submit, ethereumVars, evmVars, chainVars
  <2>2. \A e : AccountNonce(e)' = AccountNonce(e)
    BY <2>1 DEF AccountNonce, IntoAccountId
  <2>3. \A q \in pool' : q \in pool \/ q = NewEntry(t)
    BY <1>3 DEF Submit
  <2>4. NewEntry(t) \in PooledEntry
    <3>1. RequiresPrevious(t) \in BOOLEAN
      BY DEF RequiresPrevious
    <3> QED BY <3>1, PriorityType DEF NewEntry, PooledEntry
  <2>5. pool' \in SUBSET PooledEntry
    BY <2>3, <2>4 DEF PoolIInv
  <2>6. ProvidedIsReached'
    BY <2>1 DEF ProvidedIsReached
  <2>7. ReadyIsNotEarly'
    <3> SUFFICES ASSUME NEW q \in pool', ~q.requires, ~q.reset
                 PROVE  AccountNonce(q.transaction.call.from)
                          >= q.transaction.nonce
      BY <2>2 DEF ReadyIsNotEarly
    <3>1. CASE q \in pool
      BY <3>1 DEF PoolIInv, ReadyIsNotEarly
    <3>2. CASE q = NewEntry(t)
      <4>1. q.transaction = t /\ q.requires = RequiresPrevious(t)
        BY <3>2 DEF NewEntry
      <4>2. ~(t.nonce > AccountNonce(t.call.from))
        BY <4>1 DEF RequiresPrevious
      <4>3. t.nonce \in Nat /\ AccountNonce(t.call.from) \in Nat
        BY CallType, AccountNonceType DEF PoolIInv, EthereumIInv, EvmIInv
      <4> QED BY <4>1, <4>2, <4>3
    <3> QED BY <2>3, <3>1, <3>2
  <2> QED BY <1>1, <2>5, <2>6, <2>7 DEF PoolIInv
<1>4. CASE UNCHANGED poolVars
  BY <1>2, <1>4 DEF poolVars
<1>5. ASSUME NEW a, AddAddresses({a}) \/ RemoveAddresses({a})
      PROVE  PoolIInv'
  BY <1>2, <1>5 DEF AddAddresses, RemoveAddresses
<1>6. ASSUME NEW p \in pool, Discard(p)
      PROVE  PoolIInv'
  BY <1>2, <1>6 DEF Discard
<1> QED BY <1>3, <1>4, <1>5, <1>6, ChainStepIInv DEF PoolNext

-----------------------------------------------------------------------------
(***************************************************************************)
(* Theorems of the specification, with the pool.                           *)
(***************************************************************************)

LEMMA PoolSpecIInv == PoolSpec => []PoolIInv
BY PoolInitIInv, PoolStepIInv, PTL DEF PoolSpec

\* Type correctness: balances and nonces are natural numbers.  In particular
\* what execute takes from a sender is always covered by what validation saw.
THEOREM EthereumTypeCorrect == PoolSpec => [](EvmTypeOK /\ ChainTypeOK)
<1>1. PoolIInv => EvmTypeOK /\ ChainTypeOK
  BY DEF PoolIInv, EthereumIInv, EvmIInv
<1> QED BY <1>1, PoolSpecIInv, PTL

\* An address belongs to the account that says so and to no other, through
\* claims, deaths of accounts and new claims.
THEOREM EthereumMappingsInverse == PoolSpec => []MappingsInverse
<1>1. PoolIInv => MappingsInverse
  BY DEF PoolIInv, EthereumIInv, EvmIInv
<1> QED BY <1>1, PoolSpecIInv, PTL

\* A transaction that validate_transaction_in_block lets through is one that
\* execute accepts: the `expect` of apply_validated_transaction never panics.
THEOREM EthereumValidatedExecutes == PoolSpec => []ValidatedExecutes
<1>1. ValidatedExecutes
  BY ValidIsAccepted DEF ValidatedExecutes
<1> QED BY <1>1, PTL

\* The block on_finalize stores has what was applied since on_initialize, and
\* its receipts count the gas up to their transaction.
THEOREM EthereumBlockIsWhatWasExecuted == PoolSpec => []BlockIsWhatWasExecuted
<1>1. PoolIInv => BlockIsWhatWasExecuted
  BY DEF PoolIInv, EthereumIInv
<1> QED BY <1>1, PoolSpecIInv, PTL

\* While a block is built the EVM finds the hashes of genesis and of the last
\* BlockHashCount + 1 blocks, and only of these.
THEOREM EthereumHashWindow == PoolSpec => []HashWindow
<1>1. PoolIInv => HashWindow
  <2> SUFFICES ASSUME PoolIInv PROVE HashWindow
    OBVIOUS
  <2>1. WindowOfLast /\ block_number \in Nat
    BY DEF PoolIInv, EthereumIInv, ChainTypeOK
  <2>2. building => LastBlock = block_number - 1
    BY DEF LastBlock
  <2>3. (block_number - 1) - BlockHashCount = block_number - 1 - BlockHashCount
    OBVIOUS
  <2> QED BY <2>1, <2>2, <2>3 DEF WindowOfLast, HashWindow
<1> QED BY <1>1, PoolSpecIInv, PTL

\* The tags carry the order of a sender's nonces: a pooled transaction whose
\* predecessor is in a block is not too early, unless the nonce went back.
THEOREM EthereumReadyIsNotEarly == PoolSpec => []ReadyIsNotEarly
<1>1. PoolIInv => ReadyIsNotEarly
  BY DEF PoolIInv
<1> QED BY <1>1, PoolSpecIInv, PTL
=============================================================================
