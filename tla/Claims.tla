------------------------------- MODULE Claims -------------------------------
(***************************************************************************)
(* The bridge (modules/claims): tokens locked on another network are       *)
(* minted here, once per locking transaction, and tokens burned here are   *)
(* released there.                                                         *)
(*                                                                         *)
(* The bridge account of a network records a claim of an Ethereum address  *)
(* (mint_claim_elastic), whose owner then claims it with a signature       *)
(* (claim_elastic, an unsigned transaction that nodes validate when it     *)
(* enters their pools and again in the block), or pays it out at once      *)
(* (mint_and_send_claim_elastic).  on_runtime_upgrade moves the storage of *)
(* the bridge's first version, which only knew BSC.                        *)
(*                                                                         *)
(* The runtime runs on_runtime_upgrade after every change of its code and  *)
(* before any call of the new code.  A call that returns an error is no    *)
(* step.                                                                   *)
(***************************************************************************)
EXTENDS Currency, Totals

CONSTANTS
    Networks,           \* BridgeNetworks
    BSC,                \* the network of the first version
    Txs,                \* locking transactions of the other networks
    EthAddresses,       \* whose owners can sign
    ZeroAddress,        \* nobody can sign for it
    Nodes,              \* nodes with a transaction pool
    Values,             \* amounts locked and burned
    MintFees, BurnFees, \* the fees Root sets
    Limits,             \* the limits Root sets
    GenesisBalance,     \* what an account may have in the beginning
    None,               \* an absent entry
    MaxUpgrades         \* BOUND: changes of the runtime's code

\* A claim of ElasticClaims or of the first version's Claims.
Claim == [who : EthAddresses \cup {ZeroAddress}, amount : Nat,
          claimed : BOOLEAN]

ASSUME ClaimsAssumption ==
    /\ BSC \in Networks
    /\ IsFiniteSet(Networks) /\ IsFiniteSet(Txs) /\ IsFiniteSet(Accounts)
    /\ None \notin Claim
    /\ ZeroAddress \notin EthAddresses
    /\ None \notin Accounts
    /\ Values \subseteq Nat \ {0}
    /\ MintFees \subseteq Nat /\ BurnFees \subseteq Nat /\ Limits \subseteq Nat
    /\ GenesisBalance \in Nat
    /\ MaxUpgrades \in Nat

VARIABLES
    claims,                  \* Claims of the first version, by transaction
    claim_limit,             \* its ClaimLimit
    old_fees,                \* its MintFee and BurnFee
    bridge_account,          \* its BridgeAccount
    elastic_claims,          \* ElasticClaims, by network and transaction
    elastic_claim_limits,    \* ElasticClaimLimits
    elastic_bridge_accounts, \* ElasticBridgeAccounts
    bridge_fees,             \* BridgeFees
    storage_version,         \* PalletStorageVersion
    upgrade_due,             \* the code has changed since the last block
    upgrades,                \* changes of the code so far
    free,                    \* free balances of the accounts
    fee_account,             \* and of the pallet's account
    pool,                    \* the claims in the transaction pool of each node
    locked,                  \* HISTORY: what there was in the beginning plus
                             \* what is locked for this chain elsewhere
    granted, spent           \* HISTORY: the limit last set for a network, and
                             \* the claims recorded since

oldVars == <<claims, claim_limit, old_fees, bridge_account>>
configVars == <<elastic_claim_limits, elastic_bridge_accounts, bridge_fees>>
moneyVars == <<free, fee_account, locked>>
limitVars == <<granted, spent>>
upgradeVars == <<storage_version, upgrade_due, upgrades>>
claimsVars == <<oldVars, elastic_claims, configVars, upgradeVars, moneyVars,
                pool, limitVars>>

Fees(mint, burn) == [mint |-> mint, burn |-> burn]
NoFees == Fees(0, 0)

\* What is still to be paid of a claim.
Unpaid(claim) ==
    IF claim = None THEN 0 ELSE IF claim.claimed THEN 0 ELSE claim.amount

-----------------------------------------------------------------------------
(***************************************************************************)
(* The beginning: a chain of the first version about to be upgraded, or a  *)
(* new one.                                                                *)
(***************************************************************************)

OldClaims ==
    {None} \cup [who : EthAddresses, amount : Values, claimed : BOOLEAN]

OldStorageIsEmpty ==
    /\ \A t \in Txs : claims[t] = None
    /\ claim_limit = 0
    /\ old_fees = NoFees
    /\ bridge_account = None

ClaimsInit ==
    /\ claims \in [Txs -> OldClaims]
    /\ claim_limit \in Limits \cup {0}
    /\ old_fees \in {NoFees} \cup {Fees(m, b) : m \in MintFees, b \in BurnFees}
    /\ bridge_account \in Accounts \cup {None}
    /\ elastic_claims = [n \in Networks |-> [t \in Txs |-> None]]
    /\ elastic_claim_limits = [n \in Networks |-> 0]
    /\ elastic_bridge_accounts = [n \in Networks |-> None]
    /\ bridge_fees = [n \in Networks |-> NoFees]
    /\ storage_version = 1
    /\ upgrade_due \in BOOLEAN
    /\ upgrades = 0
    /\ upgrade_due \/ OldStorageIsEmpty
    /\ free \in [Accounts -> {0, GenesisBalance}]
    /\ fee_account = 0
    /\ pool = [node \in Nodes |-> {}]
    /\ locked = Total(free, Accounts)
                + Total([t \in Txs |-> Unpaid(claims[t])], Txs)
    /\ granted = [n \in Networks |-> IF n = BSC THEN claim_limit ELSE 0]
    /\ spent = [n \in Networks |-> 0]

\* Calls are possible.
Running == ~upgrade_due

\* set_code: the next block runs new code.
SetCode ==
    /\ Running
    /\ upgrades < MaxUpgrades
    /\ upgrade_due' = TRUE
    /\ upgrades' = upgrades + 1
    /\ UNCHANGED <<oldVars, elastic_claims, configVars, storage_version,
                   moneyVars, pool, limitVars>>

\* The storage of the first version moves: what the new storage already has
\* for BSC stays, except the limit; the old limit is not removed.
MigrateConfig ==
    /\ elastic_claim_limits' = IF claim_limit = 0 THEN elastic_claim_limits
                               ELSE [elastic_claim_limits EXCEPT
                                       ![BSC] = claim_limit]
    /\ elastic_bridge_accounts' =
         IF bridge_account = None \/ elastic_bridge_accounts[BSC] # None
         THEN elastic_bridge_accounts
         ELSE [elastic_bridge_accounts EXCEPT ![BSC] = bridge_account]
    /\ bridge_fees' = IF old_fees = NoFees \/ bridge_fees[BSC] # NoFees
                      THEN bridge_fees
                      ELSE [bridge_fees EXCEPT ![BSC] = old_fees]
    /\ bridge_account' = None
    /\ old_fees' = NoFees
    /\ UNCHANGED claim_limit

\* MUTANT: claims already paid are not moved.
MigrateUnpaidClaims ==
    /\ elastic_claims' = [elastic_claims EXCEPT ![BSC] =
         [t \in Txs |-> IF @[t] = None /\ Unpaid(claims[t]) > 0
                        THEN claims[t] ELSE @[t]]]
    /\ claims' = [t \in Txs |-> None]

MigrateClaims ==
    /\ elastic_claims' = [elastic_claims EXCEPT ![BSC] =
         [t \in Txs |-> IF @[t] = None THEN claims[t] ELSE @[t]]]
    /\ claims' = [t \in Txs |-> None]

\* MUTANT: the version is not written, so the next upgrade migrates again.
OnRuntimeUpgradeEveryTime ==
    /\ upgrade_due
    /\ upgrade_due' = FALSE
    /\ storage_version < 2
    /\ MigrateClaims
    /\ MigrateConfig
    /\ UNCHANGED <<storage_version, upgrades, moneyVars, pool, limitVars>>

\* on_runtime_upgrade of the first version's storage.
OnRuntimeUpgrade ==
    /\ upgrade_due
    /\ upgrade_due' = FALSE
    /\ storage_version < 2
    /\ MigrateClaims
    /\ MigrateConfig
    /\ storage_version' = 2
    /\ UNCHANGED <<upgrades, moneyVars, pool, limitVars>>

\* on_runtime_upgrade of the latest storage.
OnRuntimeUpgradeLatest ==
    /\ upgrade_due
    /\ upgrade_due' = FALSE
    /\ storage_version >= 2
    /\ UNCHANGED <<oldVars, elastic_claims, configVars, storage_version,
                   upgrades, moneyVars, pool, limitVars>>

-----------------------------------------------------------------------------
(***************************************************************************)
(* Root's calls.                                                           *)
(***************************************************************************)

SetBridgeAccountElastic(network, to) ==
    /\ Running
    /\ elastic_bridge_accounts' = [elastic_bridge_accounts EXCEPT ![network] = to]
    /\ UNCHANGED <<oldVars, elastic_claims, elastic_claim_limits, bridge_fees,
                   upgradeVars, moneyVars, pool, limitVars>>

SetClaimLimitElastic(network, limit) ==
    /\ Running
    /\ elastic_claim_limits' = [elastic_claim_limits EXCEPT ![network] = limit]
    /\ granted' = [granted EXCEPT ![network] = limit]
    /\ spent' = [spent EXCEPT ![network] = 0]
    /\ UNCHANGED <<oldVars, elastic_claims, elastic_bridge_accounts, bridge_fees,
                   upgradeVars, moneyVars, pool>>

SetBridgeFeeElastic(network, mint_fee, burn_fee) ==
    /\ Running
    /\ bridge_fees' = [bridge_fees EXCEPT ![network] = Fees(mint_fee, burn_fee)]
    /\ UNCHANGED <<oldVars, elastic_claims, elastic_claim_limits,
                   elastic_bridge_accounts, upgradeVars, moneyVars, pool,
                   limitVars>>

-----------------------------------------------------------------------------
(***************************************************************************)
(* Minting, claiming and burning.                                          *)
(***************************************************************************)

\* deposit_creating: an account that does not exist is not created by less
\* than the existential deposit; the deposit is lost.
Deposit(balance, amount) ==
    IF balance = 0 /\ amount < ExistentialDeposit THEN 0 ELSE balance + amount

\* MUTANT: the fee is charged on top and not taken off the claim.
ClaimAmountWithFee(network, value) == value

\* What is left of a locked value after the fee.
ClaimAmount(network, value) == value - bridge_fees[network].mint

\* The checks of do_mint_claim and do_mint_and_send_claim.
CanMint(from, network, tx, value) ==
    /\ Running
    /\ elastic_bridge_accounts[network] = from
    /\ elastic_claims[network][tx] = None
    /\ elastic_claim_limits[network] >= value
    /\ bridge_fees[network].mint > 0 => value > bridge_fees[network].mint

\* What both do: the claim is recorded and its amount taken off the limit; the
\* fee, which the limit does not count, goes to the pallet's account.
RecordClaim(network, tx, value, who, claimed) ==
    LET amount == ClaimAmount(network, value)
    IN  /\ elastic_claims' = [elastic_claims EXCEPT ![network][tx] =
             [who |-> who, amount |-> amount, claimed |-> claimed]]
        /\ elastic_claim_limits' =
             [elastic_claim_limits EXCEPT ![network] = @ - amount]
        /\ spent' = [spent EXCEPT ![network] = @ + amount]
        /\ fee_account' = Deposit(fee_account, bridge_fees[network].mint)
        /\ locked' = locked + value
        /\ UNCHANGED <<oldVars, elastic_bridge_accounts, bridge_fees,
                       upgradeVars, pool, granted>>

\* MUTANT: the claim is recorded for the zero address, as the other mint does.
MintClaimForNobody(from, network, tx, who, value) ==
    /\ CanMint(from, network, tx, value)
    /\ RecordClaim(network, tx, value, ZeroAddress, FALSE)
    /\ UNCHANGED free

MintClaimElastic(from, network, tx, who, value) ==
    /\ CanMint(from, network, tx, value)
    /\ RecordClaim(network, tx, value, who, FALSE)
    /\ UNCHANGED free

\* do_mint_and_send_claim: the claim is recorded as paid, and is.
DoMintAndSendClaim(from, network, tx, dest, value) ==
    /\ CanMint(from, network, tx, value)
    /\ RecordClaim(network, tx, value, ZeroAddress, TRUE)
    /\ free' = [free EXCEPT ![dest] = Deposit(@, ClaimAmount(network, value))]

\* mint_and_send_claim_elastic of a signed origin.
MintAndSendClaimElastic(from, network, tx, dest, value) ==
    DoMintAndSendClaim(from, network, tx, dest, value)

\* The checks of do_validate and do_claim.  `signer` is the address recovered
\* from the signature of the destination and the transaction.
ValidClaim(network, tx, signer) ==
    /\ elastic_claims[network][tx] # None
    /\ elastic_claims[network][tx].who = signer
    /\ ~elastic_claims[network][tx].claimed

PoolEntry(network, tx, dest, signer) ==
    [network |-> network, tx |-> tx, dest |-> dest, signer |-> signer]

\* do_validate: the claim is valid, and no other one of the pool `provides`
\* the tag of its signer.
DoValidate(node, network, tx, signer) ==
    /\ ValidClaim(network, tx, signer)
    /\ \A e \in pool[node] : e.signer # signer

\* validate_unsigned: a claim enters the pool of a node.
ValidateUnsigned(node, network, tx, dest, signer) ==
    /\ Running
    /\ DoValidate(node, network, tx, signer)
    /\ pool' = [pool EXCEPT
                  ![node] = @ \cup {PoolEntry(network, tx, dest, signer)}]
    /\ UNCHANGED <<oldVars, elastic_claims, configVars, upgradeVars,
                   moneyVars, limitVars>>

\* do_claim: a claim is paid once.
DoClaim(network, dest, tx, signer) ==
    /\ ValidClaim(network, tx, signer)
    /\ free' = [free EXCEPT ![dest] =
                  Deposit(@, elastic_claims[network][tx].amount)]
    /\ elastic_claims' =
         [elastic_claims EXCEPT ![network][tx].claimed = TRUE]

\* claim_elastic in a block of the node, where it is validated once more: the
\* same claim may have been paid out of the pool of another node.
ClaimElastic(node, e) ==
    /\ Running
    /\ e \in pool[node]
    /\ DoClaim(e.network, e.dest, e.tx, e.signer)
    /\ pool' = [pool EXCEPT ![node] = @ \ {e}]
    /\ UNCHANGED <<oldVars, configVars, upgradeVars, fee_account, locked,
                   limitVars>>

\* A claim that is no longer valid leaves the pool.
DropInvalid(node, e) ==
    /\ e \in pool[node]
    /\ ~ValidClaim(e.network, e.tx, e.signer)
    /\ pool' = [pool EXCEPT ![node] = @ \ {e}]
    /\ UNCHANGED <<oldVars, elastic_claims, configVars, upgradeVars,
                   moneyVars, limitVars>>

\* What a burn releases on the other network.
BurnAmount(network, amount) == amount - bridge_fees[network].burn

\* do_burn, which must leave the account alive.
DoBurn(who, network, amount) ==
    /\ bridge_fees[network].burn > 0 => amount > bridge_fees[network].burn
    /\ free[who] >= amount
    /\ free[who] - amount >= ExistentialDeposit
    /\ free' = [free EXCEPT ![who] = @ - amount]
    /\ fee_account' = Deposit(fee_account, bridge_fees[network].burn)
    /\ locked' = locked - BurnAmount(network, amount)

BurnElastic(who, network, amount) ==
    /\ Running
    /\ DoBurn(who, network, amount)
    /\ UNCHANGED <<oldVars, elastic_claims, configVars, upgradeVars, pool,
                   limitVars>>

-----------------------------------------------------------------------------
ClaimsNext ==
    \/ SetCode
    \/ OnRuntimeUpgrade
    \/ OnRuntimeUpgradeLatest
    \/ \E n \in Networks, a \in Accounts : SetBridgeAccountElastic(n, a)
    \/ \E n \in Networks, limit \in Limits : SetClaimLimitElastic(n, limit)
    \/ \E n \in Networks, m \in MintFees, b \in BurnFees :
         SetBridgeFeeElastic(n, m, b)
    \/ \E from \in Accounts, n \in Networks, t \in Txs, value \in Values :
         \/ \E who \in EthAddresses : MintClaimElastic(from, n, t, who, value)
         \/ \E dest \in Accounts :
              MintAndSendClaimElastic(from, n, t, dest, value)
    \/ \E node \in Nodes, n \in Networks, t \in Txs, dest \in Accounts,
          signer \in EthAddresses : ValidateUnsigned(node, n, t, dest, signer)
    \/ \E node \in Nodes : \E e \in pool[node] : ClaimElastic(node, e)
    \/ \E node \in Nodes : \E e \in pool[node] : DropInvalid(node, e)
    \/ \E who \in Accounts, n \in Networks, amount \in Values :
         BurnElastic(who, n, amount)

ClaimsSpec == ClaimsInit /\ [][ClaimsNext]_claimsVars

\* An upgrade that is due happens; the owner of a claim submits it to some
\* node; what is in a node's pool gets into one of its blocks or is dropped.
ClaimsFairness ==
    /\ WF_claimsVars(OnRuntimeUpgrade \/ OnRuntimeUpgradeLatest)
    /\ \A n \in Networks, t \in Txs, signer \in EthAddresses :
         WF_claimsVars(\E node \in Nodes, dest \in Accounts :
                         ValidateUnsigned(node, n, t, dest, signer))
    /\ \A node \in Nodes :
         WF_claimsVars(\E e \in pool[node] :
                         ClaimElastic(node, e) \/ DropInvalid(node, e))

ClaimsFairSpec == ClaimsSpec /\ ClaimsFairness

-----------------------------------------------------------------------------
(***************************************************************************)
(* Properties.                                                             *)
(***************************************************************************)

\* The claim for a transaction, in the old storage or the new.
ClaimOf(network, tx) ==
    IF elastic_claims[network][tx] # None \/ network # BSC
    THEN elastic_claims[network][tx]
    ELSE claims[tx]

\* A transaction is claimed once and for all: through mints, both ways of
\* paying and the migration, a claim changes only by being paid, and never
\* again after that.
ClaimIsFinal ==
    [][\A n \in Networks, t \in Txs :
         ClaimOf(n, t) # None /\ ClaimOf(n, t)' # ClaimOf(n, t) =>
           /\ ~ClaimOf(n, t).claimed
           /\ ClaimOf(n, t)' = [ClaimOf(n, t) EXCEPT !.claimed = TRUE]]_claimsVars

\* What the bridge still owes under the old storage and the new.
UnpaidClaims ==
    Total([nt \in Networks \X Txs |-> Unpaid(ClaimOf(nt[1], nt[2]))],
          Networks \X Txs)

\* The bridge is backed: what exists here and what may still be claimed here
\* never exceeds what there was in the beginning and what is locked elsewhere,
\* whatever fees are taken on the way.
BridgeIsBacked == Total(free, Accounts) + fee_account + UnpaidClaims <= locked

\* The claims recorded since Root last set a network's limit, and what may
\* still be recorded, are within it: no upgrade gives back what was used.
MintedWithinLimit ==
    \A n \in Networks : spent[n] + elastic_claim_limits[n] <= granted[n]

\* Whoever claims is paid: a recorded claim is paid in the end although a
\* signer has room for one claim in a pool and others hold the same claim.
ClaimsArePaid ==
    \A n \in Networks, t \in Txs :
        Unpaid(ClaimOf(n, t)) > 0 ~> Unpaid(ClaimOf(n, t)) = 0
=============================================================================
