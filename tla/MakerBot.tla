------------------------------ MODULE MakerBot ------------------------------
(***************************************************************************)
(* The maker contract driven block after block.  Each block the bot that  *)
(* owns the contract queries get_action with the current market snapshot *)
(* (mid price, volatility), the subaccount's position and total balance, *)
(* and the derivative orders still resting on the book from the previous *)
(* plan; a "replace" answer is applied as one MsgBatchUpdateOrders that   *)
(* cancels everything on the market and creates the new ladders.  Between *)
(* queries the market moves and the exchange fills resting orders, which *)
(* changes the position and the balance.                                  *)
(***************************************************************************)
EXTENDS MakerPricing

CONSTANTS
    Mids,           \* mid prices the market data may report
    Vols,           \* volatilities it may report
    Positions,      \* positions the subaccount may hold (NoPosition included)
    Balances        \* total balances the subaccount may have

ASSUME InputsAssumption ==
    /\ Mids \subseteq Dec /\ Mids # {}
    /\ Vols \subseteq Dec /\ Vols # {}
    /\ Positions \subseteq Position \cup {NoPosition} /\ Positions # {}
    /\ Balances \subseteq Dec /\ Balances # {}

NoPlan == [snapshot |-> <<>>, orders |-> <<>>]

VARIABLES
    mid_price,      \* the mid price of the current block
    volatility,     \* the volatility of the current block
    position,       \* the subaccount's position, or NoPosition
    inv_val,        \* deposit.total_balance of the subaccount
    open_orders,    \* the contract's orders resting on the book, as queried
    outcome,        \* the answer of the latest get_action
    lastPlan,       \* snapshot and orders of the latest batch placed (history)
    redundant       \* the latest batch re-placed an untouched book unchanged

vars == <<mid_price, volatility, position, inv_val, open_orders, outcome, lastPlan, redundant>>

\* The inputs get_action receives apart from the open orders.
Snapshot == <<mid_price, volatility, position, inv_val>>

Answer == GetAction(mid_price, volatility, position, inv_val, open_orders)

TypeOK ==
    /\ mid_price \in Mids
    /\ volatility \in Vols
    /\ position \in Positions
    /\ inv_val \in Balances
    /\ open_orders \in Seq(Order)
    /\ outcome \in {"none", "noop", "replace", "panic"}
    /\ lastPlan.orders \in Seq(Order)
    /\ redundant \in BOOLEAN

Init ==
    /\ mid_price \in Mids
    /\ volatility \in Vols
    /\ position \in Positions
    /\ inv_val \in Balances
    /\ open_orders = << >>
    /\ outcome = "none"
    /\ lastPlan = NoPlan
    /\ redundant = FALSE

-----------------------------------------------------------------------------
\* Mutant: the batch creates the new ladders without cancelling the old ones.
ApplyReplaceNoCancel ==
    /\ Answer.kind = "replace"
    /\ open_orders' = open_orders \o Answer.orders
    /\ lastPlan' = [snapshot |-> Snapshot, orders |-> Answer.orders]
    /\ redundant' = (lastPlan.snapshot = Snapshot /\ lastPlan.orders = open_orders)
    /\ outcome' = "replace"
    /\ UNCHANGED <<mid_price, volatility, position, inv_val>>

(* The query answers "replace": the batch cancels all orders on the      *)
(* market and creates both new ladders, atomically.                      *)
ApplyReplace ==
    /\ Answer.kind = "replace"
    /\ open_orders' = Answer.orders
    /\ lastPlan' = [snapshot |-> Snapshot, orders |-> Answer.orders]
    /\ redundant' = (lastPlan.snapshot = Snapshot /\ lastPlan.orders = open_orders)
    /\ outcome' = "replace"
    /\ UNCHANGED <<mid_price, volatility, position, inv_val>>

\* The query answers with no message: the book stays as it is.
ApplyNoop ==
    /\ Answer.kind = "noop"
    /\ outcome' = "noop"
    /\ redundant' = FALSE
    /\ UNCHANGED <<mid_price, volatility, position, inv_val, open_orders, lastPlan>>

\* The query panics on an unsigned underflow: no answer, nothing placed.
QueryFails ==
    /\ Answer.kind = "panic"
    /\ outcome' = "panic"
    /\ redundant' = FALSE
    /\ UNCHANGED <<mid_price, volatility, position, inv_val, open_orders, lastPlan>>

\* A new block brings a new mid price and volatility.
MarketUpdate ==
    /\ \E m \in Mids, v \in Vols : mid_price' = m /\ volatility' = v
    /\ UNCHANGED <<position, inv_val, open_orders, outcome, lastPlan, redundant>>

\* The sequence s without its i-th element.
RemoveAt(s, i) == [j \in 1..Len(s) - 1 |-> IF j < i THEN s[j] ELSE s[j + 1]]

(* The exchange fills the i-th resting order: it leaves the book, and the *)
(* subaccount's position and balance move.                               *)
Fill ==
    /\ \E i \in 1..Len(open_orders), p \in Positions, b \in Balances :
          /\ open_orders' = RemoveAt(open_orders, i)
          /\ position' = p
          /\ inv_val' = b
    /\ UNCHANGED <<mid_price, volatility, outcome, lastPlan, redundant>>

Next ==
    \/ ApplyReplace
    \/ ApplyNoop
    \/ QueryFails
    \/ MarketUpdate
    \/ Fill

Spec == Init /\ [][Next]_vars

-----------------------------------------------------------------------------
\* The buy and sell orders of a sequence of orders.
SideOrders(s, side) == {s[i] : i \in {k \in DOMAIN s : s[k].order_type = side}}

\* No buy of the sequence s is priced above one of its sells.
Uncrossed(s) ==
    \A b \in SideOrders(s, BUY), o \in SideOrders(s, SELL) : b.price <= o.price

(* No resting buy of the contract is priced above one of its resting      *)
(* sells: the ladders of new_head_prices/create_orders and the fills that *)
(* thin them out never leave the contract's own book crossed.             *)
OwnBookUncrossed == Uncrossed(open_orders)

(* head_chg_is_gt_tol only re-places a book that nothing has touched      *)
(* since it was placed, under the very same inputs, when one side of that *)
(* book is empty: otherwise the sorted heads equal the new heads and the  *)
(* gate stays shut.                                                       *)
ChurnOnlyWithEmptySide ==
    redundant => \/ SideOrders(lastPlan.orders, BUY) = {}
                 \/ SideOrders(lastPlan.orders, SELL) = {}

(* A replace batch sent for a book that nothing has touched since it was *)
(* placed, under the same mid price, volatility, position and balance,   *)
(* cancels that book and creates it again order for order: the ladders  *)
(* of create_orders depend on the snapshot only, so churn costs fees but *)
(* never changes what rests on the book.                                 *)
RedundantReplaceKeepsBook ==
    [][ApplyReplace /\ lastPlan.snapshot = Snapshot /\ lastPlan.orders = open_orders
         => open_orders' = open_orders]_vars

-----------------------------------------------------------------------------
(* The bot loop implements the promise of BookAbstract: the book is the  *)
(* resting orders, the plan the orders of the latest batch placed.       *)
Abs == INSTANCE BookAbstract WITH book <- open_orders, plan <- lastPlan.orders

(* Every step of the bot keeps the book what is left of the latest plan: *)
(* a replace batch cancels all and places an uncrossed plan, a fill takes *)
(* out one order, and a noop, a failed query or a market move leave both *)
(* alone.                                                                 *)
AbsSpec == Abs!Spec

-----------------------------------------------------------------------------
(* Properties the code is expected to have by the spec and which it does *)
(* not have; each is checked by a run that expects a violation.          *)

(* Spec 4.9 and 7: given valid parameters the pricing pipeline is total, *)
(* so get_action never panics.  The subtractions of reservation_price    *)
(* and new_head_prices panic when the volatility is large against the    *)
(* mid price.                                                            *)
QueryTotal == outcome # "panic"

(* Spec 2 and 4.6: the hysteresis gate suppresses churn, so a book placed *)
(* under unchanged inputs is never cancelled and placed again as it is.  *)
NoRedundantReplace == ~redundant

=============================================================================
