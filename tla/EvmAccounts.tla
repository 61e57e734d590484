---------------------------- MODULE EvmAccounts ----------------------------
(***************************************************************************)
(* Claiming an Ethereum address for an account (modules/evm-accounts).     *)
(*                                                                         *)
(* An Ethereum address acts through an account: the one that claimed it,   *)
(* or else its "padded" account, which nobody holds a key of.  A claim     *)
(* moves what the padded account holds to the claiming account.  Accounts  *)
(* die when they spend what they have; the claim dies with them.           *)
(*                                                                         *)
(* An account is a free balance and a nonce (frame_system and              *)
(* pallet_balances); an Ethereum address stands for its padded account.    *)
(***************************************************************************)
EXTENDS Integers

CONSTANTS
    Users,              \* accounts with a key
    EthAddresses,       \* Ethereum addresses, and their padded accounts
    GenesisBalance,     \* what users have in the beginning
    ExistentialDeposit,
    None,               \* an absent entry
    MaxNonce            \* BOUND: transactions of an account

AccountIds == Users \cup EthAddresses

ASSUME EvmAssumption ==
    /\ Users \cap EthAddresses = {}
    /\ None \notin AccountIds
    /\ ExistentialDeposit \in Nat \ {0}
    /\ GenesisBalance \in Nat
    /\ GenesisBalance >= ExistentialDeposit
    /\ MaxNonce \in Nat

VARIABLES
    accounts,       \* Accounts: Ethereum address -> account, or None
    evm_addresses,  \* EvmAddresses: account -> Ethereum address, or None
    free,           \* free balance, 0 for an account that does not exist
    nonce           \* frame_system's nonce

evmVars == <<accounts, evm_addresses, free, nonce>>

-----------------------------------------------------------------------------
EvmInit ==
    /\ accounts = [e \in EthAddresses |-> None]
    /\ evm_addresses = [u \in Users |-> None]
    /\ free = [a \in AccountIds |-> IF a \in Users THEN GenesisBalance ELSE 0]
    /\ nonce = [a \in AccountIds |-> 0]

\* EvmAddressMapping::into_account_id: the account an address acts through.
IntoAccountId(e) == IF accounts[e] # None THEN accounts[e] ELSE e

\* The accounts transactions come from: those with a key, and the ones that
\* Ethereum addresses act through.
Origins == Users \cup {IntoAccountId(e) : e \in EthAddresses}

\* MUTANT: the address keeps pointing at the dead account.
KilledForgetsAccount(a) ==
    /\ evm_addresses' = IF a \in Users THEN [evm_addresses EXCEPT ![a] = None]
                        ELSE evm_addresses
    /\ UNCHANGED accounts

\* on_killed_account: both entries of the account go.
OnKilledAccount(a) ==
    IF a \in Users /\ evm_addresses[a] # None
    THEN /\ accounts' = [accounts EXCEPT ![evm_addresses[a]] = None]
         /\ evm_addresses' = [evm_addresses EXCEPT ![a] = None]
    ELSE UNCHANGED <<accounts, evm_addresses>>

\* A transaction of account `a` that moves `amount` to another account: a
\* Substrate transfer, or an Ethereum transaction of an address that acts
\* through `a`.  The nonce counts before the call is made; below the
\* existential deposit the account dies, its nonce with it, and the dust goes.
Spend(a, to, amount) ==
    /\ a \in Origins
    /\ a # to
    /\ nonce[a] < MaxNonce
    /\ 0 < amount /\ amount <= free[a]
    /\ free[to] + amount >= ExistentialDeposit
    /\ LET left == free[a] - amount
           dies == left < ExistentialDeposit
       IN  /\ free' = [free EXCEPT ![a] = IF dies THEN 0 ELSE left,
                                   ![to] = @ + amount]
           /\ nonce' = [nonce EXCEPT ![a] = IF dies THEN 0 ELSE @ + 1]
           /\ IF dies THEN OnKilledAccount(a)
              ELSE UNCHANGED <<accounts, evm_addresses>>

\* The nonce claim_account reads of the padded account: merge_account has
\* emptied it before, and an account that held something is gone by then.
NonceAfterMerge(e) == IF free[e] > 0 THEN 0 ELSE nonce[e]

\* claim_account, by a user that has a signature of the address's owner.  It
\* costs nothing, so the user need not have any balance.
ClaimAccount(who, e) ==
    /\ evm_addresses[who] = None
    /\ accounts[e] = None
    /\ nonce[who] < MaxNonce
    /\ free' = [free EXCEPT ![who] = @ + free[e], ![e] = 0]
    /\ nonce' = [nonce EXCEPT
                   ![e] = NonceAfterMerge(e),
                   ![who] = IF NonceAfterMerge(e) > @ + 1
                            THEN NonceAfterMerge(e) ELSE @ + 1]
    /\ accounts' = [accounts EXCEPT ![e] = who]
    /\ evm_addresses' = [evm_addresses EXCEPT ![who] = e]

EvmNext ==
    \/ \E a, to \in AccountIds : \E amount \in 1..free[a] : Spend(a, to, amount)
    \/ \E who \in Users, e \in EthAddresses : ClaimAccount(who, e)

EvmSpec == EvmInit /\ [][EvmNext]_evmVars

-----------------------------------------------------------------------------
(***************************************************************************)
(* Properties.                                                             *)
(***************************************************************************)

\* An address belongs to the account that says so and to no other, through
\* claims, deaths of accounts and new claims: the two maps are inverses.
MappingsInverse ==
    \A e \in EthAddresses, u \in Users :
        accounts[e] = u <=> evm_addresses[u] = e

\* "make the origin nonce the max between origin amd evm padded address": by a
\* claim the account gets at least the nonce of the padded account.
ClaimKeepsNonce ==
    [][\A e \in EthAddresses :
         accounts[e] = None /\ accounts'[e] # None =>
           nonce'[accounts'[e]] >= nonce[e]]_evmVars
=============================================================================
