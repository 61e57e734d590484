---------------------------- MODULE AssetTrader ----------------------------
(***************************************************************************)
(* Buying execution weight with assets: the registry of asset locations    *)
(* and prices (modules/asset-config) and the weight trader that charges a  *)
(* cross-chain message with them (runtime/src/asset_trader.rs), and the    *)
(* registry of assets that have an EVM address (modules/erc20-precompile). *)
(*                                                                         *)
(* The executor makes a trader for one message, buys weight and asks for   *)
(* refunds in any number and order, and drops it; all that happens inside  *)
(* one call, so Root's calls fall between messages.                        *)
(***************************************************************************)
EXTENDS Integers

CONSTANTS
    Assets,           \* asset ids
    Locations,        \* asset locations
    Rates,            \* the prices Root sets, in units per second
    Weights,          \* the weights the executor buys and gives back
    Addresses,        \* EVM addresses
    NativeErc20Ids,   \* NATIVE_ERC20_ID_RANGE, without its end
    IssuedAssets,     \* the assets whose total issuance is not zero
    MaxPayment,       \* what a message has of an asset
    WeightPerSecond,  \* WEIGHT_PER_SECOND
    Absent,           \* an absent entry
    MaxBuys           \* BOUND: purchases of one message

\* The trader's second field, when it is there.
Payment == [location : Locations, amount : Nat, rate : Rates]

ASSUME TraderAssumption ==
    /\ Absent \notin Payment
    /\ Absent \notin Assets /\ Absent \notin Locations
    /\ Rates \subseteq Nat /\ Absent \notin Rates
    /\ Weights \subseteq Nat
    /\ Addresses \subseteq Nat /\ NativeErc20Ids \subseteq Nat
    /\ IssuedAssets \subseteq Assets
    /\ MaxPayment \in Nat
    /\ WeightPerSecond \in Nat \ {0}
    /\ MaxBuys \in Nat

VARIABLES
    asset_id_location,    \* AssetIdLocation
    asset_location_id,    \* AssetLocationId
    fee_rate_per_second,  \* FeeRatePerSecond
    native_erc20_assets,  \* NativeErc20Assets
    executing,            \* a message is being executed: the trader exists
    weight_bought,        \* the trader's first field
    payment,              \* its second: location, amount and price, or Absent
    buys,                 \* purchases of the message so far
    \* History variables, of the asset of `payment`.
    paid,                 \* the amount paid in it
    refunded,             \* the amount given back
    weight_paid,          \* the weight bought with it
    weight_returned,      \* the weight a refund was made for
    within                \* no refund was for more weight than was paid for

registryVars == <<asset_id_location, asset_location_id, fee_rate_per_second,
                  native_erc20_assets>>
historyVars == <<paid, refunded, weight_paid, weight_returned, within>>
traderVars == <<executing, weight_bought, payment, buys, historyVars>>
assetVars == <<registryVars, traderVars>>

-----------------------------------------------------------------------------
TraderInit ==
    /\ asset_id_location = [a \in Assets |-> Absent]
    /\ asset_location_id = [l \in Locations |-> Absent]
    /\ fee_rate_per_second = [a \in Assets |-> Absent]
    /\ native_erc20_assets = [h \in Addresses |-> Absent]
    /\ executing = FALSE
    /\ weight_bought = 0
    /\ payment = Absent
    /\ buys = 0
    /\ paid = 0 /\ refunded = 0
    /\ weight_paid = 0 /\ weight_returned = 0 /\ within = TRUE

\* set_fee_rate, with Absent to remove the price.
SetFeeRate(asset, rate) ==
    /\ ~executing
    /\ fee_rate_per_second' = [fee_rate_per_second EXCEPT ![asset] = rate]
    /\ UNCHANGED <<asset_id_location, asset_location_id, native_erc20_assets,
                   traderVars>>

RegisterAssetLocation(location, asset) ==
    /\ ~executing
    /\ asset_id_location[asset] = Absent
    /\ asset_location_id[location] = Absent
    /\ asset_id_location' = [asset_id_location EXCEPT ![asset] = location]
    /\ asset_location_id' = [asset_location_id EXCEPT ![location] = asset]
    /\ UNCHANGED <<fee_rate_per_second, native_erc20_assets, traderVars>>

RegisterNativeErc20Asset(address, asset) ==
    /\ ~executing
    /\ address \in NativeErc20Ids
    /\ native_erc20_assets[address] = Absent
    /\ asset \in IssuedAssets
    /\ native_erc20_assets' = [native_erc20_assets EXCEPT ![address] = asset]
    /\ UNCHANGED <<asset_id_location, asset_location_id, fee_rate_per_second,
                   traderVars>>

-----------------------------------------------------------------------------
\* The price of the asset at a location, Absent if there is none.
UnitsPerSecond(location) ==
    IF asset_location_id[location] = Absent THEN Absent
    ELSE fee_rate_per_second[asset_location_id[location]]

Price(rate, weight) == (rate * weight) \div WeightPerSecond

\* A trader without a payment.
FreshTrader ==
    /\ weight_bought' = 0
    /\ payment' = Absent
    /\ buys' = 0
    /\ paid' = 0 /\ refunded' = 0
    /\ weight_paid' = 0 /\ weight_returned' = 0 /\ within' = TRUE

NewTrader ==
    /\ ~executing
    /\ executing' = TRUE
    /\ FreshTrader
    /\ UNCHANGED registryVars

\* buy_weight is charged: the asset has a price, the fee is not zero (else the
\* payment is returned and nothing happens) and the message can pay it.
Charges(location, weight) ==
    /\ executing
    /\ buys < MaxBuys
    /\ UnitsPerSecond(location) # Absent
    /\ Price(UnitsPerSecond(location), weight) \in 1..MaxPayment

\* buy_weight with the first asset, or with the same one again: the weight is
\* added to the first field twice.  That the price has changed since "should
\* not happen really": Root sets prices between messages.
BuyWeight(location, weight) ==
    LET rate == UnitsPerSecond(location)
    IN  /\ Charges(location, weight)
        /\ payment # Absent => payment.location = location /\ payment.rate = rate
        /\ payment' = [location |-> location,
                       amount |-> Price(rate, weight)
                                    + (IF payment = Absent THEN 0
                                       ELSE payment.amount),
                       rate |-> rate]
        /\ weight_bought' = weight_bought + weight + weight
        /\ buys' = buys + 1
        /\ paid' = paid + Price(rate, weight)
        /\ weight_paid' = weight_paid + weight
        /\ UNCHANGED <<registryVars, executing, refunded, weight_returned, within>>

\* buy_weight with another asset than before: that payment is ignored from
\* then on.
BuyWeightOtherAsset(location, weight) ==
    /\ Charges(location, weight)
    /\ payment # Absent
    /\ payment.location # location
    /\ weight_bought' = weight_bought + weight
    /\ buys' = buys + 1
    /\ UNCHANGED <<registryVars, executing, payment, historyVars>>

\* The weight a refund is made for: at most the first field.
Refundable(weight) == IF weight <= weight_bought THEN weight ELSE weight_bought

\* The history of a refund of `amount` for the weight `weight`.
RefundHistory(amount, weight) ==
    /\ refunded' = refunded + amount
    /\ weight_returned' = weight_returned + weight
    /\ within' = (within /\ weight_returned + weight <= weight_paid)
    /\ UNCHANGED <<buys, paid, weight_paid>>

\* MUTANT: what is refunded stays in the payment, and is revenue too.
RefundWeightKeepsPayment(weight) ==
    /\ executing
    /\ payment # Absent
    /\ weight_bought' = weight_bought - Refundable(weight)
    /\ RefundHistory(Price(payment.rate, Refundable(weight)), Refundable(weight))
    /\ UNCHANGED <<registryVars, executing, payment>>

\* refund_weight.
RefundWeight(weight) ==
    LET amount == Price(payment.rate, Refundable(weight))
    IN  /\ executing
        /\ payment # Absent
        /\ weight_bought' = weight_bought - Refundable(weight)
        /\ payment' = [payment EXCEPT
                         !.amount = IF @ >= amount THEN @ - amount ELSE 0]
        /\ RefundHistory(amount, Refundable(weight))
        /\ UNCHANGED <<registryVars, executing>>

\* The trader is dropped: what is left of the payment is revenue.
DropTrader ==
    /\ executing
    /\ executing' = FALSE
    /\ FreshTrader
    /\ UNCHANGED registryVars

TraderNext ==
    \/ \E asset \in Assets, rate \in Rates \cup {Absent} : SetFeeRate(asset, rate)
    \/ \E location \in Locations, asset \in Assets :
         RegisterAssetLocation(location, asset)
    \/ \E address \in Addresses, asset \in Assets :
         RegisterNativeErc20Asset(address, asset)
    \/ NewTrader
    \/ \E location \in Locations, weight \in Weights : BuyWeight(location, weight)
    \/ \E location \in Locations, weight \in Weights :
         BuyWeightOtherAsset(location, weight)
    \/ \E weight \in Weights : RefundWeight(weight)
    \/ DropTrader

TraderSpec == TraderInit /\ [][TraderNext]_assetVars

-----------------------------------------------------------------------------
(***************************************************************************)
(* Properties.                                                             *)
(***************************************************************************)

\* What a message pays in its first asset is given back or left as revenue for
\* drop to take: through any sequence of purchases and refunds nothing of it
\* vanishes.  And nothing is made: an executor that asks for no more weight
\* back than was bought with the asset gets, with the revenue, what was paid.
\* What one refund of several purchases gives is rounded down once where the
\* prices were rounded down each, which may add less than a unit for each.
PaymentIsAccounted ==
    payment # Absent =>
        /\ payment.amount + refunded >= paid
        /\ within => payment.amount + refunded <= paid + buys - 1

\* "ensure we refund at most the weight we paid": refund_weight's own bound,
\* whatever the executor asks for.
RefundsWithinPayment == payment # Absent => weight_returned <= weight_paid
=============================================================================
