----------------------------- MODULE EraBudget -----------------------------
(***************************************************************************)
(* What the reward scheme of the staking pallet promises, without eras'    *)
(* windows, stakers, points, claims and rounding: a purse out of which     *)
(* eras are paid.  An era that ends is promised all that the purse holds   *)
(* and nobody else is promised; payments come out of the purse and reduce  *)
(* the promise of their era, and of no other; a promise that is forgotten  *)
(* stays in the purse, for the next era.  StakingRewards implements it.    *)
(***************************************************************************)
EXTENDS Integers, Totals

CONSTANT Eras

VARIABLES
    purse,      \* what the fund holds beyond its existential deposit
    promises,   \* what each era is still owed
    overdraft   \* what payments have taken beyond their era's promise

budgetVars == <<purse, promises, overdraft>>

Excess(a, b) == IF a > b THEN a - b ELSE 0

BudgetInit ==
    /\ purse = 0
    /\ promises = [e \in Eras |-> 0]
    /\ overdraft = 0

\* Fees, donations and the revenue wallet.
Receive ==
    /\ purse' >= purse
    /\ UNCHANGED <<promises, overdraft>>

\* An era ends: what came in is in the purse, and the era is promised all
\* that is not promised yet.  Old promises may be forgotten with it.
Promise ==
    /\ purse' >= purse
    /\ UNCHANGED overdraft
    /\ \E ended \in Eras :
         LET free == Excess(purse', Total(promises, Eras))
         IN  /\ promises[ended] = 0
             /\ \A e \in Eras :
                  promises'[e] \in {0, IF e = ended THEN free
                                       ELSE promises[e]}

Pay ==
    LET amount == purse - purse'
    IN  /\ amount >= 0
        /\ \E e \in Eras :
             /\ promises' = [promises EXCEPT ![e] = Excess(@, amount)]
             /\ overdraft' = overdraft + Excess(amount, promises[e])

Forget ==
    /\ UNCHANGED <<purse, overdraft>>
    /\ \A e \in Eras : promises'[e] \in {0, promises[e]}

BudgetNext == Receive \/ Promise \/ Pay \/ Forget

BudgetSpec == BudgetInit /\ [][BudgetNext]_budgetVars
=============================================================================
