------------------------------ MODULE Genesis ------------------------------
(***************************************************************************)
(* How a chain begins: glitch_genesis and glitch_genesis_mainnet of the    *)
(* node write a chain specification, and the pallets build their storage   *)
(* from it in the order of construct_runtime.                              *)
(*                                                                         *)
(* The specification divides the total supply without ever seeing three of *)
(* its accounts: the treasury, the fund and the revenue wallet are opened  *)
(* by their own pallets with the existential deposit, which                *)
(* glitch_genesis sets aside as 3 * DOLLARS / 10 and the mainnet's table   *)
(* partly lists itself.  Wrong input panics: there is then no chain.       *)
(*                                                                         *)
(* Only balances are modelled here.  What staking makes of its genesis     *)
(* stakers is the initial state of Intentions and StakingRewards; the      *)
(* other pallets get keys, or nothing.                                     *)
(***************************************************************************)
EXTENDS Integers, Sequences, SequencesExt, FiniteSets, Totals

CONSTANTS
    Users,                \* accounts with a key
    Author,               \* the account of the block author's address
    Fund, Treasury, Wallet,
    ExistentialDeposit,
    TotalSupply,          \* TOTAL_SUPPLY
    AuthorBalance,        \* AUTHOR_BALANCE
    Stash,                \* STASH
    InitialBalances,      \* initial_balances of the mainnet, a sequence of
                          \* accounts with their amounts
    Networks              \* the authorities and the endowed accounts of the
                          \* networks' configurations

Accounts == Users \cup {Author, Fund, Treasury, Wallet}

\* What a table of accounts and amounts adds up to.
TableTotal(entries) ==
    Total([i \in DOMAIN entries |-> entries[i][2]], DOMAIN entries)

ASSUME GenesisAssumption ==
    /\ IsFiniteSet(Users)
    \* the accounts of the pallets are apart from those with a key
    /\ Fund # Treasury /\ Fund # Wallet /\ Treasury # Wallet
    /\ {Fund, Treasury, Wallet} \cap (Users \cup {Author}) = {}
    /\ ExistentialDeposit \in Nat \ {0}
    /\ TotalSupply \in Nat /\ AuthorBalance \in Nat /\ Stash \in Nat
    /\ InitialBalances \in Seq(Accounts \X Nat)
    /\ Networks \subseteq [authorities : SUBSET Users, endowed : SUBSET Users]
    \* no network has so many authorities that the endowment would wrap
    /\ \A n \in Networks :
         AuthorBalance * Cardinality(n.authorities) + 3 * ExistentialDeposit
           <= TotalSupply
    \* the table lists the deposits of the fund and of the treasury, and
    \* leaves that of the wallet, and only that
    /\ \A a \in {Fund, Treasury} : \E i \in DOMAIN InitialBalances :
         InitialBalances[i] = <<a, ExistentialDeposit>>
    /\ \A i \in DOMAIN InitialBalances : InitialBalances[i][1] # Wallet
    /\ TableTotal(InitialBalances) = TotalSupply - ExistentialDeposit

VARIABLES
    stage,      \* the pallet that builds next, "live", or "panic"
    chain_spec, \* the balances and the authorities of the specification
    free,       \* free balances, 0 for an account that does not exist
    supply      \* HISTORY: the supply the specification is meant to have

genesisVars == <<stage, chain_spec, supply>>

NoSpec == [balances |-> <<>>, authorities |-> {}]

GenesisInit ==
    /\ stage = "Spec"
    /\ chain_spec = NoSpec
    /\ free = [a \in Accounts |-> 0]
    /\ supply = 0

-----------------------------------------------------------------------------
(***************************************************************************)
(* The specification.                                                      *)
(***************************************************************************)

TotalEndowment(authorities) ==
    TotalSupply - AuthorBalance * Cardinality(authorities)
      - 3 * ExistentialDeposit

\* The division must leave no remainder.
CanEndow(authorities, endowed) ==
    endowed # {} => TotalEndowment(authorities) % Cardinality(endowed) = 0

\* The balances of glitch_genesis; they may name an account twice.
GlitchBalances(authorities, endowed) ==
    LET each(accounts, amount) ==
          [i \in 1..Cardinality(accounts) |-> <<SetToSeq(accounts)[i], amount>>]
    IN  each(endowed, TotalEndowment(authorities) \div Cardinality(endowed))
          \o each(authorities, AuthorBalance)

\* glitch_genesis.  Without endowed accounts, on a development chain, nobody
\* gets the endowment.
GlitchGenesis(authorities, endowed) ==
    /\ stage = "Spec"
    /\ IF CanEndow(authorities, endowed)
       THEN /\ stage' = "Balances"
            /\ chain_spec' =
                 [balances |-> GlitchBalances(authorities, endowed),
                  authorities |-> authorities]
            /\ supply' = IF endowed # {} THEN TotalSupply
                         ELSE TotalSupply - TotalEndowment(authorities)
       ELSE stage' = "panic" /\ UNCHANGED <<chain_spec, supply>>
    /\ UNCHANGED free

\* glitch_genesis_mainnet: all of glitch_genesis (which may panic), then the
\* table for its balances.
GlitchGenesisMainnet(authorities, endowed) ==
    /\ stage = "Spec"
    /\ CanEndow(authorities, endowed)
    /\ stage' = "Balances"
    /\ chain_spec' = [balances |-> InitialBalances, authorities |-> authorities]
    /\ supply' = TotalSupply
    /\ UNCHANGED free

-----------------------------------------------------------------------------
(***************************************************************************)
(* The pallets.                                                            *)
(***************************************************************************)

\* pallet_balances: every account once, and with the existential deposit.
BuildBalances ==
    LET entries == chain_spec.balances
    IN  /\ stage = "Balances"
        /\ IF /\ \A i \in DOMAIN entries : entries[i][2] >= ExistentialDeposit
              /\ \A i, j \in DOMAIN entries :
                   entries[i][1] = entries[j][1] => i = j
           THEN /\ stage' = "Staking"
                /\ free' = [a \in Accounts |->
                              IF \E i \in DOMAIN entries : entries[i][1] = a
                              THEN entries[CHOOSE i \in DOMAIN entries :
                                             entries[i][1] = a][2]
                              ELSE free[a]]
           ELSE stage' = "panic" /\ UNCHANGED free
        /\ UNCHANGED <<chain_spec, supply>>

\* pallet_staking: every authority bonds Stash, as its own controller.
BuildStaking ==
    /\ stage = "Staking"
    /\ stage' = IF \A a \in chain_spec.authorities : free[a] >= Stash
                THEN "Treasury" ELSE "panic"
    /\ UNCHANGED <<chain_spec, free, supply>>

\* make_free_balance_be(minimum_balance) of pallet_fund and
\* pallet_revenue_fund, whatever the account held.
MakeFreeBalance(a) == [free EXCEPT ![a] = ExistentialDeposit]

BuildTreasury ==
    /\ stage = "Treasury"
    /\ stage' = "Fund"
    /\ free' = IF free[Treasury] < ExistentialDeposit
               THEN [free EXCEPT ![Treasury] = ExistentialDeposit] ELSE free
    /\ UNCHANGED <<chain_spec, supply>>

BuildFund ==
    /\ stage = "Fund"
    /\ stage' = "RevenueFund"
    /\ free' = MakeFreeBalance(Fund)
    /\ UNCHANGED <<chain_spec, supply>>

\* The last one; the specification has served.
BuildRevenueFund ==
    /\ stage = "RevenueFund"
    /\ stage' = "live"
    /\ free' = MakeFreeBalance(Wallet)
    /\ chain_spec' = NoSpec
    /\ UNCHANGED supply

GenesisNext ==
    \/ \E n \in Networks : \/ GlitchGenesis(n.authorities, n.endowed)
                          \/ GlitchGenesisMainnet(n.authorities, n.endowed)
    \/ BuildBalances \/ BuildStaking
    \/ BuildTreasury \/ BuildFund \/ BuildRevenueFund

live == stage = "live"
=============================================================================
