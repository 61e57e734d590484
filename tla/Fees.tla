-------------------------------- MODULE Fees --------------------------------
(***************************************************************************)
(* Where the money of the runtime goes: fees and tips of signed            *)
(* transactions, fees of Ethereum transactions, dust, slashes with the     *)
(* rewards of their reporters, donations, and the treasury's burn.         *)
(*                                                                         *)
(* pallet_balances hands money on as imbalances; an imbalance nobody takes *)
(* leaves the issuance when it is dropped.  Each of these handlers gives   *)
(* what it gets to the fund or to the treasury, and both accounts are      *)
(* there from genesis on, so nothing should be dropped.  The balances, the *)
(* payment and treasury pallets and the EVM's runner are external; `lost`  *)
(* records what they drop by design.  The deposits of signed solutions are *)
(* left out: the election provider burns those it slashes and mints its    *)
(* rewards (SlashHandler and RewardHandler are ()).                        *)
(***************************************************************************)
EXTENDS Genesis

CONSTANTS
    FeePerWeight,         \* the coefficient of WeightToFee
    LengthFee,            \* the fee of a transaction's base weight and length
    MaxWeight,            \* the weights that calls declare
    Tips, Amounts,
    GasPrice,             \* FixedGasPrice
    MaxGas,               \* the gas limits of Ethereum transactions
    BurnDivisor,          \* 1 / Burn of the treasury
    MaxSlashed,           \* BOUND: the stakers one slash falls on
    MaxReporters          \* BOUND: the reporters of an offence

ASSUME FeesAssumption ==
    /\ FeePerWeight \in Nat /\ LengthFee \in Nat /\ MaxWeight \in Nat
    /\ Tips \subseteq Nat /\ Amounts \subseteq Nat
    /\ GasPrice \in Nat /\ MaxGas \in Nat
    /\ BurnDivisor \in Nat \ {0}
    /\ MaxSlashed \in Nat /\ MaxReporters \in Nat

VARIABLE
    lost        \* HISTORY: imbalances that were dropped by design

moneyVars == <<genesisVars, free, lost>>

-----------------------------------------------------------------------------
(***************************************************************************)
(* pallet_balances.                                                        *)
(***************************************************************************)

\* resolve_creating, and what of it is dropped: an amount that cannot open an
\* account.
Accepts(f, a, amount) == f[a] > 0 \/ amount >= ExistentialDeposit
Credit(f, a, amount) ==
    IF Accepts(f, a, amount) THEN [f EXCEPT ![a] = @ + amount] ELSE f
Dropped(f, a, amount) == IF Accepts(f, a, amount) THEN 0 ELSE amount

\* The `on_nonzero_unbalanced` of FundBalance.
FundBalance(f, amount) == Credit(f, Fund, amount)

\* DustRemoval: an account below the existential deposit is closed, and what
\* it holds goes to the fund.
WithoutDust(f, a) ==
    IF 0 < f[a] /\ f[a] < ExistentialDeposit
    THEN FundBalance([f EXCEPT ![a] = 0], f[a]) ELSE f

\* A transfer that may close the account it comes from.
CanTransfer(f, from, to, amount) ==
    amount <= f[from] /\ Accepts(f, to, amount)
Transfer(f, from, to, amount) ==
    IF from = to \/ amount = 0 THEN f
    ELSE WithoutDust([f EXCEPT ![from] = @ - amount, ![to] = @ + amount], from)

-----------------------------------------------------------------------------
(***************************************************************************)
(* Signed transactions.                                                    *)
(***************************************************************************)

\* A polynomial of one term.
WeightToFee(weight) == FeePerWeight * weight

\* With ConstantFeeUpdate the multiplier stays what it is, 1.
InclusionFee(weight) == LengthFee + WeightToFee(weight)

\* pallet_revenue_fund: the wallet's balance, all of it, goes to the fund.
Pot(f, a) == f[a]
EmptyWallet(f) == Transfer(f, Wallet, Fund, Pot(f, Wallet))

\* The calls: a transfer, the two of pallet_revenue_fund (which pay no fee),
\* and any call that moves no money or fails.
CallsOf(who) ==
    [name : {"transfer"}, to : Users \cup {Author, Treasury}, amount : Amounts]
      \cup [name : {"donate"}, to : {Wallet}, amount : Amounts]
      \cup [name : {"triger", "other"}, to : {who}, amount : {0}]

AfterCall(f, who, call) ==
    CASE call.name \in {"transfer", "donate"} ->
           IF CanTransfer(f, who, call.to, call.amount)
           THEN Transfer(f, who, call.to, call.amount) ELSE f
      [] call.name = "triger" -> EmptyWallet(f)
      [] OTHER -> f

PaysFee(call) == call.name \notin {"donate", "triger"}

\* The fees and the tips, merged.
DealWithFees(f, fees, tips) == FundBalance(f, fees + tips)

\* withdraw_fee, the call, and correct_and_deposit_fee: weight that was not
\* used is paid back, if the account still exists.
SignedTransaction(who, declared, actual, tip, call) ==
    LET fee(weight) == IF PaysFee(call) THEN InclusionFee(weight) ELSE 0
        charged == fee(declared) + tip
        after == AfterCall([free EXCEPT ![who] = @ - charged], who, call)
        refund == IF after[who] > 0 THEN fee(declared) - fee(actual) ELSE 0
    IN  /\ actual <= declared
        /\ free[who] >= charged + (IF charged > 0 THEN ExistentialDeposit
                                   ELSE 0)
        /\ free' = DealWithFees([after EXCEPT ![who] = @ + refund],
                                charged - tip - refund, tip)
        /\ UNCHANGED lost

-----------------------------------------------------------------------------
(***************************************************************************)
(* Ethereum transactions: EVMCurrencyAdapter with FundBalance.  The base   *)
(* fee goes to the fund; the priority fee goes to the account of the       *)
(* author's address (EthereumFindAuthor), if there is one.                 *)
(***************************************************************************)

EvmTransaction(who, gas_limit, used_gas, tip, to, amount) ==
    LET spent == (GasPrice + tip) * used_gas + amount
        after == FundBalance([free EXCEPT ![who] = @ - spent,
                                          ![to] = @ + amount],
                             GasPrice * used_gas)
    IN  /\ who # to
        /\ used_gas <= gas_limit
        /\ free[who] >= (GasPrice + tip) * gas_limit + amount
                          + ExistentialDeposit
        /\ amount > 0 => Accepts(free, to, amount)
        /\ free' = IF after[Author] > 0
                   THEN [after EXCEPT ![Author] = @ + tip * used_gas]
                   ELSE after
        /\ lost' = IF after[Author] > 0 THEN lost ELSE lost + tip * used_gas

-----------------------------------------------------------------------------
(***************************************************************************)
(* Slashes.                                                                *)
(***************************************************************************)

\* Currency::slash of a staker, whose account cannot close: what is taken.
Taken(f, stash, value) ==
    IF f[stash] < ExistentialDeposit + value THEN f[stash] - ExistentialDeposit
    ELSE value

\* do_slash for an entry of the list: balances, the slashed imbalance and what
\* is left of the reward.
DoSlash(s, e) ==
    LET taken == Taken(s.free, e.stash, e.value)
        missing == e.value - taken
    IN  [free |-> [s.free EXCEPT ![e.stash] = @ - taken],
         imbalance |-> s.imbalance + taken,
         payout |-> IF s.payout > missing THEN s.payout - missing ELSE 0]

\* The validator's own slash and those of its nominators, in their order.
DoSlashes(f, slashes, payout) ==
    LET s[i \in 0..Len(slashes)] ==
          IF i = 0 THEN [free |-> f, imbalance |-> 0, payout |-> payout]
          ELSE DoSlash(s[i - 1], slashes[i])
    IN  s[Len(slashes)]

\* The shares of the reporters, and what is dropped of them.
PayReporters(f, reporters, share) ==
    LET p[i \in 0..Len(reporters)] ==
          IF i = 0 THEN [free |-> f, lost |-> 0]
          ELSE [free |-> Credit(p[i - 1].free, reporters[i], share),
                lost |-> p[i - 1].lost
                           + Dropped(p[i - 1].free, reporters[i], share)]
    IN  p[Len(reporters)]

\* MUTANT: the remainder of the division is not given to the treasury.
SlashRemainderTruncated(imbalance, reward, n) == imbalance - reward

\* What pay_reporters leaves for the treasury: all but the equal shares.
SlashRemainder(imbalance, reward, n) == imbalance - n * (reward \div n)

\* apply_slash with pay_reporters; Slash is the treasury.
ApplySlash(slashes, payout, reporters) ==
    LET s == DoSlashes(free, slashes, payout)
        n == Len(reporters)
        reward == IF s.payout < s.imbalance THEN s.payout ELSE s.imbalance
        paid == PayReporters(s.free, reporters, reward \div n)
    IN  /\ \A i \in DOMAIN slashes : free[slashes[i].stash] >= ExistentialDeposit
        /\ IF s.payout = 0 \/ n = 0
           THEN /\ free' = Credit(s.free, Treasury, s.imbalance)
                /\ UNCHANGED lost
           ELSE /\ free' = Credit(paid.free, Treasury,
                                  SlashRemainder(s.imbalance, reward, n))
                /\ lost' = lost + paid.lost

-----------------------------------------------------------------------------
(***************************************************************************)
(* The end of an era and of a spend period.                                *)
(***************************************************************************)

\* trigger_wallet, called by end_era.
TriggerWallet ==
    /\ Pot(free, Wallet) > 0
    /\ free' = EmptyWallet(free)
    /\ UNCHANGED lost

\* spend_funds of the treasury, with one approved proposal: it is paid if the
\* pot allows, and then a share of the rest goes to BurnDestination, the fund.
SpendFunds(beneficiary, value) ==
    LET pot == free[Treasury] - ExistentialDeposit
        opens == Accepts(free, beneficiary, value)
        burn == (pot - value) \div BurnDivisor
    IN  /\ value <= pot
        /\ free' = FundBalance(
                     [Credit(free, beneficiary, value)
                        EXCEPT ![Treasury] = @ - burn
                                               - (IF opens THEN value ELSE 0)],
                     burn)
        /\ UNCHANGED lost

-----------------------------------------------------------------------------
FeesInit == GenesisInit /\ lost = 0

\* What moves money on a chain that lives.
MoneyMoves ==
    \/ \E who \in Users, declared, actual \in 1..MaxWeight, tip \in Tips :
         \E call \in CallsOf(who) :
           SignedTransaction(who, declared, actual, tip, call)
    \/ \E who, to \in Users, gas_limit, used_gas \in 1..MaxGas, tip \in Tips,
          amount \in Amounts \cup {0} :
         EvmTransaction(who, gas_limit, used_gas, tip, to, amount)
    \/ \E slashes \in SeqOf([stash : Users, value : Amounts], MaxSlashed),
          payout \in Amounts,
          reporters \in SeqOf(Users \cup {Author}, MaxReporters) :
         slashes # <<>> /\ ApplySlash(slashes, payout, reporters)
    \/ TriggerWallet
    \/ \E beneficiary \in Users, value \in Amounts :
         SpendFunds(beneficiary, value)

FeesNext ==
    \/ GenesisNext /\ UNCHANGED lost
    \/ live /\ MoneyMoves /\ UNCHANGED genesisVars

FeesSpec == FeesInit /\ [][FeesNext]_moneyVars

-----------------------------------------------------------------------------
(***************************************************************************)
(* Properties.                                                             *)
(***************************************************************************)

\* No unit of the currency leaves or enters the issuance by way of fees, tips,
\* refunds, dust, slashes, reporters' shares, donations, the wallet or the
\* treasury's burn, whatever accounts close on the way, but for priority fees
\* without an author's account and shares too small to open a reporter's.
MoneyIsKept == live => Total(free, Accounts) + lost = supply
=============================================================================
