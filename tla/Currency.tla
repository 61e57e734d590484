------------------------------ MODULE Currency ------------------------------
(***************************************************************************)
(* The currency that the pallets of modules/ are given (T::Currency): the  *)
(* accounts that hold it and the least balance one can hold.               *)
(***************************************************************************)
EXTENDS Integers

CONSTANTS
    Accounts,           \* accounts of this chain
    ExistentialDeposit  \* T::Currency::minimum_balance()

ASSUME CurrencyAssumption == ExistentialDeposit \in Nat
=============================================================================
