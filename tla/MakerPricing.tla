---------------------------- MODULE MakerPricing ----------------------------
(***************************************************************************)
(* The pricing pipeline of the maker contract (contracts/maker/src/       *)
(* contract.rs) as pure operators: inventory imbalance, reservation price,*)
(* head prices, the head-change gate, tail prices, capital allocation,    *)
(* the order ladder, the splitting of the open orders, and get_action,    *)
(* which wires them together.  The CONSTANTS are the Decimal fields of    *)
(* the persisted State (state.rs) the pipeline reads.  imbalance, the     *)
(* tail check, the allocation and the ladder builder live in derivative.rs*)
(* and risk_management.rs, which are not part of the sources at hand:     *)
(* they follow the spec (sections 4.2, 4.3, 4.8).                         *)
(***************************************************************************)
EXTENDS FixedPoint, Sequences, FiniteSets

CONSTANTS
    Leverage,           \* state.leverage
    OrderDensity,       \* state.order_density: levels per side
    ReservationParam,   \* state.reservation_param
    SpreadParam,        \* state.spread_param
    ActiveCapital,      \* state.active_capital
    HeadChgTol,         \* state.head_chg_tol (already a fraction)
    TailDistFromMid,    \* state.tail_dist_from_mid (already a fraction)
    MinTailDist,        \* state.min_tail_dist (already a fraction)
    NoPosition          \* the None of Option<WrappedPosition>

\* instantiate stores whatever it parses: no range check on the fractions.
ASSUME ParamsAssumption ==
    /\ {Leverage, ReservationParam, SpreadParam, ActiveCapital,
        HeadChgTol, TailDistFromMid, MinTailDist} \subseteq Dec
    /\ OrderDensity \in Nat \ {0}

\* Injective order types of the orders this contract places and reads.
BUY == 1
SELL == 2

\* A derivative limit order as far as the pipeline looks at it.
Order == [order_type : {BUY, SELL}, price : Dec, quantity : Dec]

\* WrappedPosition: direction, size, entry price and margin.
Position == [is_long : BOOLEAN, quantity : Dec, entry_price : Dec, margin : Dec]

-----------------------------------------------------------------------------
(* Inventory imbalance (derivative.rs, spec 4.3): position notional over  *)
(* the account value, capped at one, and the position's direction.        *)
InvImbalanceDeriv(position, inv_val) ==
    IF position = NoPosition
    THEN <<0, TRUE>>
    ELSE <<DecMin(DivDec(DecMul(position.quantity, position.entry_price), inv_val), ONE),
           position.is_long>>

\* The shift inv_imbal * volatility * reservation_param, evaluated left to right.
ReservationShift(inv_imbal, volatility) ==
    DecMul(DecMul(inv_imbal, volatility), ReservationParam)

(* reservation_price: a long inventory moves the centre down, a short one *)
(* up.  The result is an Int: the long branch may go below zero, which is *)
(* the panic ReservationFails.                                             *)
ReservationPrice(mid_price, inv_imbal, volatility, imbal_is_long) ==
    IF inv_imbal = 0 THEN mid_price
    ELSE IF imbal_is_long THEN mid_price - ReservationShift(inv_imbal, volatility)
    ELSE mid_price + ReservationShift(inv_imbal, volatility)

ReservationFails(mid_price, inv_imbal, volatility, imbal_is_long) ==
    /\ inv_imbal # 0
    /\ imbal_is_long
    /\ ReservationShift(inv_imbal, volatility) > mid_price

\* new_head_prices: both heads half a spread away from the reservation price.
HeadDist(volatility) == DivDec(DecMul(volatility, SpreadParam), FromNat(2))

\* Mutant: the two heads swapped.
NewHeadPricesSwapped(volatility, reservation_price) ==
    <<reservation_price + HeadDist(volatility), reservation_price - HeadDist(volatility)>>

NewHeadPrices(volatility, reservation_price) ==
    <<reservation_price - HeadDist(volatility), reservation_price + HeadDist(volatility)>>

\* Mutant: the head subtraction never fails (a signed or saturating type).
HeadsNeverFail(volatility, reservation_price) == FALSE

HeadsFail(volatility, reservation_price) == HeadDist(volatility) > reservation_price

(* head_chg_is_gt_tol: replace when there is no order on the side, or when *)
(* the relative move of the head at index 0 exceeds the tolerance.         *)
HeadChgIsGtTol(open_orders, new_head) ==
    \/ Len(open_orders) = 0
    \/ DivDec(SubAbs(open_orders[1].price, new_head), open_orders[1].price) > HeadChgTol

(* check_tail_dist (risk_management.rs, spec 4.2): keep a proposed tail    *)
(* only if it lies at least min_tail_dist beyond its head.                 *)
CheckTailDist(buy_head, sell_head, proposed_buy_tail, proposed_sell_tail) ==
    << IF /\ proposed_buy_tail <= buy_head
          /\ DivDec(buy_head - proposed_buy_tail, buy_head) >= MinTailDist
       THEN proposed_buy_tail
       ELSE DecMul(buy_head, ONE - MinTailDist),
       IF /\ proposed_sell_tail >= sell_head
          /\ DivDec(proposed_sell_tail - sell_head, sell_head) >= MinTailDist
       THEN proposed_sell_tail
       ELSE DecMul(sell_head, ONE + MinTailDist) >>

\* new_tail_prices: tails at tail_dist_from_mid around the mid price, then checked.
NewTailPrices(buy_head, sell_head, mid_price) ==
    CheckTailDist(buy_head, sell_head,
                  DecMul(mid_price, ONE - TailDistFromMid),
                  DecMul(mid_price, ONE + TailDistFromMid))

\* Decimal::one() - tail_dist_from_mid, and one - min_tail_dist, underflow.
TailsFail == TailDistFromMid > ONE \/ MinTailDist > ONE

(* get_alloc_bal_new_orders (risk_management.rs, spec 4.2): the active    *)
(* share of the account value less the margin already committed, >= 0.   *)
GetAllocBalNewOrders(inv_val, position_margin) ==
    LET active == DecMul(inv_val, ActiveCapital)
    IN  IF active > position_margin THEN active - position_margin ELSE 0

(* create_new_orders_deriv (derivative.rs, spec 4.8): order_density       *)
(* levels from the head towards the tail, evenly spaced.  Quantities come *)
(* from the opposing position when there is one to reduce, otherwise from *)
(* the allocated value, leverage-scaled; nothing to size means no orders. *)
CreateNewOrdersDeriv(new_head, new_tail, alloc_val, position_qty, is_buy) ==
    LET n     == OrderDensity
        step  == IF n = 1 THEN 0 ELSE DecDiv(SubAbs(new_head, new_tail), FromNat(n - 1))
        qty   == IF position_qty > 0
                 THEN DecDiv(position_qty, FromNat(n))
                 ELSE DecMul(DivDec(DivDec(alloc_val, new_head), FromNat(n)), Leverage)
    IN  IF position_qty = 0 /\ alloc_val = 0
        THEN << >>
        ELSE [i \in 1..n |->
                [order_type |-> IF is_buy THEN BUY ELSE SELL,
                 price      |-> IF is_buy THEN new_head - (i - 1) * step
                                          ELSE new_head + (i - 1) * step,
                 quantity   |-> qty]]

(* create_orders: a position in the side's own direction contributes its *)
(* margin (it is subtracted from the capital), one in the other direction *)
(* its quantity (the ladder reduces it).                                 *)
CreateOrders(new_head, new_tail, inv_val, position, is_buy) ==
    LET same  == position # NoPosition /\ position.is_long = is_buy
        other == position # NoPosition /\ position.is_long # is_buy
    IN  CreateNewOrdersDeriv(new_head, new_tail,
                             GetAllocBalNewOrders(inv_val, IF same THEN position.margin ELSE 0),
                             IF other THEN position.quantity ELSE 0,
                             is_buy)

-----------------------------------------------------------------------------
(* split_open_orders: filter pushes the buys and collects the sells in   *)
(* the order of the book, then sort_by sorts the buys by descending and   *)
(* the sells by ascending price, so that index 0 of each is that side's   *)
(* head.  sort_by is stable: orders of equal price keep their book order. *)

\* The positions in the book of the orders of one side.
SideIndices(s, side) == {k \in DOMAIN s : s[k].order_type = side}

\* Mutant: the comparison of sort_by turned round, the tail at index 0.
SortsBeforeReversed(s, descending, j, k) ==
    IF s[j].price = s[k].price THEN j < k
    ELSE IF descending THEN s[j].price < s[k].price ELSE s[j].price > s[k].price

(* The order at position j comes before the one at position k: a better   *)
(* price (higher for the buys, lower for the sells), or the same price    *)
(* and earlier in the book.                                               *)
SortsBefore(s, descending, j, k) ==
    IF s[j].price = s[k].price THEN j < k
    ELSE IF descending THEN s[j].price > s[k].price ELSE s[j].price < s[k].price

(* One side filtered and sorted: its positions listed once each, in the   *)
(* order SortsBefore gives them.                                          *)
SortedSide(s, side, descending) ==
    LET I     == SideIndices(s, side)
        n     == Cardinality(I)
        order == CHOOSE f \in [1..n -> I] :
                    /\ \A k \in I : \E i \in 1..n : f[i] = k
                    /\ \A i, j \in 1..n : i < j => SortsBefore(s, descending, f[i], f[j])
    IN  [i \in 1..n |-> s[order[i]]]

SplitOpenOrders(open_orders) ==
    << SortedSide(open_orders, BUY, TRUE), SortedSide(open_orders, SELL, FALSE) >>

-----------------------------------------------------------------------------
(* get_action: the whole query.  Its result is "panic" when one of its    *)
(* unsigned subtractions underflows (the query then fails and nothing is  *)
(* placed), "noop" when neither head moved enough, and otherwise "replace"*)
(* with the new buy ladder followed by the new sell ladder, to be placed  *)
(* after cancelling everything on the market.                             *)
GetAction(mid_price, volatility, position, inv_val, open_orders) ==
    LET imbal      == InvImbalanceDeriv(position, inv_val)
        res_price  == ReservationPrice(mid_price, imbal[1], volatility, imbal[2])
        heads      == NewHeadPrices(volatility, res_price)
        split      == SplitOpenOrders(open_orders)
        tails      == NewTailPrices(heads[1], heads[2], mid_price)
    IN  IF \/ ReservationFails(mid_price, imbal[1], volatility, imbal[2])
           \/ HeadsFail(volatility, res_price)
        THEN [kind |-> "panic", orders |-> << >>]
        ELSE IF HeadChgIsGtTol(split[1], heads[1]) \/ HeadChgIsGtTol(split[2], heads[2])
        THEN IF TailsFail
             THEN [kind |-> "panic", orders |-> << >>]
             ELSE [kind   |-> "replace",
                   orders |-> CreateOrders(heads[1], tails[1], inv_val, position, TRUE)
                              \o CreateOrders(heads[2], tails[2], inv_val, position, FALSE)]
        ELSE [kind |-> "noop", orders |-> << >>]

=============================================================================
