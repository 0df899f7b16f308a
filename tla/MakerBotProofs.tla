--------------------------- MODULE MakerBotProofs ---------------------------
(***************************************************************************)
(* Proofs about MakerBot for every value of the constants.               *)
(***************************************************************************)
EXTENDS MakerBot, SequenceTheorems, TLAPS

-----------------------------------------------------------------------------
(* Facts about the fixed-point operators.                                 *)

\* Products and quotients of Decimals are Decimals.
LEMMA DecOpsNat ==
    ASSUME NEW a \in Nat, NEW b \in Nat
    PROVE  /\ DecMul(a, b) \in Nat
           /\ DivDec(a, b) \in Nat
           /\ b # 0 => DecDiv(a, b) \in Nat
  BY OneAssumption DEF DecMul, DivDec, DecDiv

\* Scaling by a fraction of at most one never increases a Decimal.
LEMMA DecMulFraction ==
    ASSUME NEW a \in Nat, NEW f \in 0..ONE
    PROVE  DecMul(a, f) <= a
  BY OneAssumption DEF DecMul

\* The i-th of k equal steps across a distance x stays within it.
LEMMA StepWithin ==
    ASSUME NEW x \in Nat, NEW k \in Nat \ {0}, NEW i \in 0..k
    PROVE  /\ DecDiv(x, FromNat(k)) \in Nat
           /\ i * DecDiv(x, FromNat(k)) <= x
  BY OneAssumption DEF DecDiv, FromNat

-----------------------------------------------------------------------------
(* The ladder of create_new_orders_deriv: well-typed orders of one side, *)
(* a buy ladder at or below its head when its tail is, a sell ladder at  *)
(* or above its head.                                                    *)

LadderOK(L, head, is_buy) ==
    /\ L \in Seq(Order)
    /\ \A k \in 1..Len(L) :
          /\ L[k].order_type = IF is_buy THEN BUY ELSE SELL
          /\ is_buy => L[k].price <= head
          /\ ~is_buy => L[k].price >= head

LEMMA LadderShape ==
    ASSUME NEW h \in Nat, NEW t \in Nat, NEW a \in Nat, NEW q \in Nat,
           NEW is_buy \in BOOLEAN, is_buy => t <= h
    PROVE  LadderOK(CreateNewOrdersDeriv(h, t, a, q, is_buy), h, is_buy)
  <1> DEFINE n == OrderDensity
             step == IF n = 1 THEN 0 ELSE DecDiv(SubAbs(h, t), FromNat(n - 1))
             qty  == IF q > 0 THEN DecDiv(q, FromNat(n))
                     ELSE DecMul(DivDec(DivDec(a, h), FromNat(n)), Leverage)
  <1>1. n \in Nat \ {0} /\ Leverage \in Nat
    BY ParamsAssumption DEF Dec
  <1>2. step \in Nat /\ \A i \in 0..n - 1 : i * step <= SubAbs(h, t)
    <2>1. CASE n = 1
      BY <2>1 DEF SubAbs
    <2>2. CASE n # 1
      <3>1. SubAbs(h, t) \in Nat /\ n - 1 \in Nat \ {0}
        BY <1>1, <2>2 DEF SubAbs
      <3>2. step = DecDiv(SubAbs(h, t), FromNat(n - 1))
        BY <2>2
      <3>3. ASSUME NEW i \in 0..n - 1
            PROVE  step \in Nat /\ i * step <= SubAbs(h, t)
        BY <3>1, <3>2, StepWithin
      <3>4. QED
        BY <3>3, <1>1
    <2>3. QED
      BY <2>1, <2>2
  <1>3. qty \in Nat
    <2>1. FromNat(n) \in Nat \ {0}
      BY <1>1, OneAssumption DEF FromNat
    <2>2. QED
      BY <1>1, <2>1, DecOpsNat
  <1>4. CASE q = 0 /\ a = 0
    <2>1. CreateNewOrdersDeriv(h, t, a, q, is_buy) = << >>
      BY <1>4 DEF CreateNewOrdersDeriv
    <2>2. QED
      BY <2>1 DEF LadderOK
  <1>5. CASE ~(q = 0 /\ a = 0)
    <2> DEFINE price(i) == IF is_buy THEN h - (i - 1) * step ELSE h + (i - 1) * step
    <2>1. CreateNewOrdersDeriv(h, t, a, q, is_buy) =
            [i \in 1..n |-> [order_type |-> IF is_buy THEN BUY ELSE SELL,
                             price |-> price(i), quantity |-> qty]]
      BY <1>5 DEF CreateNewOrdersDeriv
    <2>2. \A i \in 1..n : /\ price(i) \in Nat
                          /\ is_buy => price(i) <= h
                          /\ ~is_buy => price(i) >= h
      BY <1>1, <1>2 DEF SubAbs
    <2>3. QED
      BY <2>1, <2>2, <1>1, <1>3 DEF LadderOK, Order, Dec, BUY, SELL
  <1>6. QED
    BY <1>4, <1>5

(* A buy ladder followed by a sell ladder whose head is not below the buy *)
(* head, as get_action concatenates them, is an uncrossed book.          *)
LEMMA LaddersUncrossed ==
    ASSUME NEW B, NEW S, NEW hb \in Int, NEW hs \in Int, hb <= hs,
           LadderOK(B, hb, TRUE), LadderOK(S, hs, FALSE)
    PROVE  /\ B \o S \in Seq(Order)
           /\ Uncrossed(B \o S)
  <1>1. B \in Seq(Order) /\ S \in Seq(Order)
    BY DEF LadderOK
  <1>2. /\ B \o S \in Seq(Order)
        /\ Len(B \o S) = Len(B) + Len(S)
        /\ \A i \in 1..Len(B) + Len(S) :
              (B \o S)[i] = IF i <= Len(B) THEN B[i] ELSE S[i - Len(B)]
    BY <1>1, ConcatProperties
  <1>3. \A i \in DOMAIN (B \o S) :
          /\ (B \o S)[i].order_type = BUY => (B \o S)[i].price <= hb
          /\ (B \o S)[i].order_type = SELL => (B \o S)[i].price >= hs
    <2> SUFFICES ASSUME NEW i \in 1..Len(B) + Len(S)
                 PROVE  /\ (B \o S)[i].order_type = BUY => (B \o S)[i].price <= hb
                        /\ (B \o S)[i].order_type = SELL => (B \o S)[i].price >= hs
      BY <1>2
    <2>1. CASE i <= Len(B)
      BY <1>2, <2>1 DEF LadderOK, BUY, SELL
    <2>2. CASE ~(i <= Len(B))
      BY <1>1, <1>2, <2>2 DEF LadderOK, BUY, SELL
    <2>3. QED
      BY <2>1, <2>2
  <1>4. ASSUME NEW x \in SideOrders(B \o S, BUY), NEW y \in SideOrders(B \o S, SELL)
        PROVE  x.price <= y.price
    <2>1. PICK i \in DOMAIN (B \o S) : (B \o S)[i].order_type = BUY /\ x = (B \o S)[i]
      BY DEF SideOrders
    <2>2. PICK j \in DOMAIN (B \o S) : (B \o S)[j].order_type = SELL /\ y = (B \o S)[j]
      BY DEF SideOrders
    <2>3. x \in Order /\ y \in Order
      BY <1>2, <2>1, <2>2
    <2>4. x.price <= hb /\ y.price >= hs
      BY <1>3, <2>1, <2>2
    <2>5. QED
      BY <2>3, <2>4 DEF Order, Dec
  <1>5. QED
    BY <1>2, <1>4 DEF Uncrossed

-----------------------------------------------------------------------------
(* What get_action answers, for any inputs of the right types: one of    *)
(* three kinds, and well-typed, uncrossed orders to place.               *)
AnswerOK(A) ==
    /\ A.kind \in {"panic", "noop", "replace"}
    /\ A.orders \in Seq(Order)
    /\ Uncrossed(A.orders)

LEMMA EmptyUncrossed == Uncrossed(<< >>)
  BY DEF Uncrossed, SideOrders

LEMMA ReservationNat ==
    ASSUME NEW m \in Nat, NEW v \in Nat, NEW i \in Nat, NEW l \in BOOLEAN,
           ~ReservationFails(m, i, v, l)
    PROVE  ReservationPrice(m, i, v, l) \in Nat
  <1>1. ReservationShift(i, v) \in Nat
    BY ParamsAssumption, DecOpsNat DEF ReservationShift, Dec
  <1>2. CASE i = 0
    BY <1>2 DEF ReservationPrice
  <1>3. CASE i # 0 /\ l
    BY <1>1, <1>3 DEF ReservationPrice, ReservationFails
  <1>4. CASE i # 0 /\ ~l
    BY <1>1, <1>4 DEF ReservationPrice
  <1>5. QED
    BY <1>2, <1>3, <1>4

LEMMA HeadsOrdered ==
    ASSUME NEW v \in Nat, NEW r \in Nat, ~HeadsFail(v, r)
    PROVE  /\ NewHeadPrices(v, r)[1] \in Nat
           /\ NewHeadPrices(v, r)[2] \in Nat
           /\ NewHeadPrices(v, r)[1] <= NewHeadPrices(v, r)[2]
  <1>1. HeadDist(v) \in Nat
    BY ParamsAssumption, OneAssumption DEF HeadDist, FromNat, Dec, DivDec, DecDiv, DecMul
  <1>2. HeadDist(v) <= r
    BY <1>1 DEF HeadsFail
  <1>3. QED
    BY <1>1, <1>2 DEF NewHeadPrices

LEMMA TailsBounded ==
    ASSUME NEW bh \in Nat, NEW sh \in Nat, NEW m \in Nat, ~TailsFail
    PROVE  /\ NewTailPrices(bh, sh, m)[1] \in Nat
           /\ NewTailPrices(bh, sh, m)[1] <= bh
           /\ NewTailPrices(bh, sh, m)[2] \in Nat
  <1>1. MinTailDist \in 0..ONE /\ TailDistFromMid \in 0..ONE
    BY ParamsAssumption, OneAssumption DEF TailsFail, Dec
  <1>2. DecMul(m, ONE - TailDistFromMid) \in Nat /\ DecMul(m, ONE + TailDistFromMid) \in Nat
    BY <1>1, OneAssumption DEF DecMul
  <1>3. DecMul(bh, ONE - MinTailDist) \in Nat /\ DecMul(bh, ONE - MinTailDist) <= bh
    BY <1>1, OneAssumption, DecMulFraction DEF DecMul
  <1>4. DecMul(sh, ONE + MinTailDist) \in Nat
    BY <1>1, OneAssumption DEF DecMul
  <1>5. QED
    BY <1>2, <1>3, <1>4 DEF NewTailPrices, CheckTailDist

LEMMA CreateOrdersShape ==
    ASSUME NEW is_buy \in BOOLEAN, NEW hh \in Nat, NEW tt \in Nat, is_buy => tt <= hh,
           NEW b \in Nat, NEW p \in Position \cup {NoPosition}
    PROVE  LadderOK(CreateOrders(hh, tt, b, p, is_buy), hh, is_buy)
  <1>1. DecMul(b, ActiveCapital) \in Nat
    BY ParamsAssumption, OneAssumption DEF DecMul, Dec
  <1>2. /\ (IF p # NoPosition /\ p.is_long = is_buy THEN p.margin ELSE 0) \in Nat
        /\ (IF p # NoPosition /\ p.is_long # is_buy THEN p.quantity ELSE 0) \in Nat
    <2>1. CASE p = NoPosition
      BY <2>1
    <2>2. CASE p # NoPosition
      <3>1. p \in Position
        BY <2>2
      <3>2. QED
        BY <3>1 DEF Position, Dec
    <2>3. QED
      BY <2>1, <2>2
  <1>3. /\ GetAllocBalNewOrders(b, IF p # NoPosition /\ p.is_long = is_buy THEN p.margin ELSE 0) \in Nat
        /\ (IF p # NoPosition /\ p.is_long # is_buy THEN p.quantity ELSE 0) \in Nat
    BY <1>1, <1>2 DEF GetAllocBalNewOrders
  <1>4. QED
    BY <1>3, LadderShape DEF CreateOrders

LEMMA ImbalanceShape ==
    ASSUME NEW p \in Position \cup {NoPosition}, NEW b \in Nat
    PROVE  InvImbalanceDeriv(p, b)[1] \in Nat /\ InvImbalanceDeriv(p, b)[2] \in BOOLEAN
  <1>1. CASE p = NoPosition
    BY <1>1 DEF InvImbalanceDeriv
  <1>2. CASE p # NoPosition
    <2>1. p \in Position
      BY <1>2
    <2>2. DecMul(p.quantity, p.entry_price) \in Nat
      BY <2>1, DecOpsNat DEF Position, Dec
    <2>3. QED
      BY <1>2, <2>1, <2>2, DecOpsNat, OneAssumption DEF InvImbalanceDeriv, DecMin, Position
  <1>3. QED
    BY <1>1, <1>2

LEMMA AnswerShape ==
    ASSUME NEW m \in Nat, NEW v \in Nat, NEW p \in Position \cup {NoPosition},
           NEW b \in Nat, NEW oo
    PROVE  AnswerOK(GetAction(m, v, p, b, oo))
  <1> DEFINE imbal == InvImbalanceDeriv(p, b)
             r     == ReservationPrice(m, imbal[1], v, imbal[2])
             hd    == NewHeadPrices(v, r)
             tl    == NewTailPrices(hd[1], hd[2], m)
             fails == \/ ReservationFails(m, imbal[1], v, imbal[2])
                      \/ HeadsFail(v, r)
             gate  == \/ HeadChgIsGtTol(SplitOpenOrders(oo)[1], hd[1])
                      \/ HeadChgIsGtTol(SplitOpenOrders(oo)[2], hd[2])
             A     == GetAction(m, v, p, b, oo)
  <1>1. CASE fails
    <2>1. A = [kind |-> "panic", orders |-> << >>]
      BY <1>1 DEF GetAction, fails, imbal, r, A
    <2>2. QED
      BY <2>1, EmptyUncrossed DEF AnswerOK, A
  <1>2. CASE ~fails /\ ~gate
    <2>1. A = [kind |-> "noop", orders |-> << >>]
      BY <1>2 DEF GetAction, fails, gate, imbal, r, hd, A
    <2>2. QED
      BY <2>1, EmptyUncrossed DEF AnswerOK, A
  <1>3. CASE ~fails /\ gate /\ TailsFail
    <2>1. A = [kind |-> "panic", orders |-> << >>]
      BY <1>3 DEF GetAction, fails, gate, imbal, r, hd, A
    <2>2. QED
      BY <2>1, EmptyUncrossed DEF AnswerOK, A
  <1>4. CASE ~fails /\ gate /\ ~TailsFail
    <2>1. r \in Nat
      BY <1>4, ImbalanceShape, ReservationNat DEF fails, imbal, r
    <2>2. hd[1] \in Nat /\ hd[2] \in Nat /\ hd[1] <= hd[2]
      BY <1>4, <2>1, HeadsOrdered DEF fails, hd
    <2>3. tl[1] \in Nat /\ tl[1] <= hd[1] /\ tl[2] \in Nat
      BY <1>4, <2>2, TailsBounded DEF tl
    <2>4. /\ LadderOK(CreateOrders(hd[1], tl[1], b, p, TRUE), hd[1], TRUE)
          /\ LadderOK(CreateOrders(hd[2], tl[2], b, p, FALSE), hd[2], FALSE)
      BY <2>2, <2>3, CreateOrdersShape
    <2>5. A = [kind |-> "replace",
               orders |-> CreateOrders(hd[1], tl[1], b, p, TRUE)
                          \o CreateOrders(hd[2], tl[2], b, p, FALSE)]
      BY <1>4 DEF GetAction, fails, gate, imbal, r, hd, tl, A
    <2> DEFINE BL == CreateOrders(hd[1], tl[1], b, p, TRUE)
               SL == CreateOrders(hd[2], tl[2], b, p, FALSE)
    <2>6. BL \o SL \in Seq(Order) /\ Uncrossed(BL \o SL)
      <3>1. hd[1] \in Int /\ hd[2] \in Int /\ hd[1] <= hd[2]
        BY <2>2
      <3>2. LadderOK(BL, hd[1], TRUE) /\ LadderOK(SL, hd[2], FALSE)
        BY <2>4 DEF BL, SL
      <3>3. QED
        BY <3>1, <3>2, LaddersUncrossed
    <2>7. A = [kind |-> "replace", orders |-> BL \o SL]
      BY <2>5 DEF BL, SL
    <2>8. AnswerOK([kind |-> "replace", orders |-> BL \o SL])
      BY <2>6 DEF AnswerOK
    <2>9. QED
      BY <2>7, <2>8
  <1>5. QED
    BY <1>1, <1>2, <1>3, <1>4

-----------------------------------------------------------------------------
(* A fill removes one order from the book: what is left is a book of the *)
(* same kind, and each side keeps only orders it already had.            *)
LEMMA RemoveAtShape ==
    ASSUME NEW s \in Seq(Order), NEW i \in 1..Len(s)
    PROVE  /\ RemoveAt(s, i) \in Seq(Order)
           /\ \A side \in {BUY, SELL} :
                 SideOrders(RemoveAt(s, i), side) \subseteq SideOrders(s, side)
  <1>1. Len(s) \in Nat /\ Len(s) - 1 \in Nat /\ s \in [1..Len(s) -> Order]
    BY LenProperties
  <1>3. RemoveAt(s, i) \in Seq(Order)
    <2>1. \A j \in 1..Len(s) - 1 : (IF j < i THEN s[j] ELSE s[j + 1]) \in Order
      BY <1>1
    <2>2. QED
      BY <1>1, <2>1, IsASeq DEF RemoveAt
  <1>4. ASSUME NEW side \in {BUY, SELL}, NEW x \in SideOrders(RemoveAt(s, i), side)
        PROVE  x \in SideOrders(s, side)
    <2>1. PICK j \in DOMAIN RemoveAt(s, i) :
                 RemoveAt(s, i)[j].order_type = side /\ x = RemoveAt(s, i)[j]
      BY DEF SideOrders
    <2>2. j \in 1..Len(s) - 1 /\ RemoveAt(s, i)[j] = IF j < i THEN s[j] ELSE s[j + 1]
      BY <2>1 DEF RemoveAt
    <2>3. PICK k \in DOMAIN s : x = s[k]
      BY <1>1, <2>1, <2>2
    <2>4. QED
      BY <2>1, <2>3 DEF SideOrders
  <1>5. QED
    BY <1>3, <1>4

-----------------------------------------------------------------------------
(* Type correctness of the bot loop.  The invariant is inductive as it   *)
(* stands once AnswerShape gives the type of what get_action answers.    *)

\* The initial states are typed: the book and the plan start empty.
LEMMA InitTyped == Init => TypeOK
  <1> SUFFICES ASSUME Init PROVE TypeOK
    OBVIOUS
  <1>1. << >> \in Seq(Order)
    BY EmptySeq
  <1>2. lastPlan.orders = << >> /\ open_orders = << >>
    BY DEF Init, NoPlan
  <1>3. QED
    BY <1>1, <1>2 DEF Init, TypeOK

\* Every step of the bot loop keeps the variables' types.
LEMMA TypeStep == TypeOK /\ [Next]_vars => TypeOK'
  <1> SUFFICES ASSUME TypeOK, [Next]_vars PROVE TypeOK'
    OBVIOUS
  <1>0. /\ mid_price \in Nat /\ volatility \in Nat /\ inv_val \in Nat
        /\ position \in Position \cup {NoPosition}
    BY InputsAssumption DEF TypeOK, Dec
  <1>1. CASE ApplyReplace
    <2>1. AnswerOK(Answer)
      BY <1>0, AnswerShape DEF Answer
    <2>2. QED
      BY <1>1, <2>1 DEF ApplyReplace, TypeOK, AnswerOK
  <1>2. CASE ApplyNoop
    BY <1>2 DEF ApplyNoop, TypeOK
  <1>3. CASE QueryFails
    BY <1>3 DEF QueryFails, TypeOK
  <1>4. CASE MarketUpdate
    BY <1>4 DEF MarketUpdate, TypeOK
  <1>5. CASE Fill
    <2>1. PICK i \in 1..Len(open_orders), p \in Positions, b \in Balances :
               /\ open_orders' = RemoveAt(open_orders, i)
               /\ position' = p
               /\ inv_val' = b
      BY <1>5 DEF Fill
    <2>2. RemoveAt(open_orders, i) \in Seq(Order)
      BY <2>1, RemoveAtShape DEF TypeOK
    <2>3. QED
      BY <1>5, <2>1, <2>2 DEF Fill, TypeOK
  <1>6. CASE UNCHANGED vars
    BY <1>6 DEF vars, TypeOK
  <1>7. QED
    BY <1>1, <1>2, <1>3, <1>4, <1>5, <1>6 DEF Next

(* The model's variables keep their types along every run: in particular *)
(* what a replace batch places and what a fill leaves are both sequences *)
(* of well-formed orders, as get_action and the exchange produce them.   *)
THEOREM TypeCorrect == Spec => []TypeOK
  <1>1. Init => TypeOK
    BY InitTyped
  <1>2. QED
    BY <1>1, TypeStep, PTL DEF Spec

-----------------------------------------------------------------------------
(* The contract's own book stays uncrossed.  OwnBookUncrossed is not     *)
(* inductive alone: a fill of an ill-typed order or a replace with an   *)
(* ill-typed answer could break it, so it is strengthened with TypeOK.  *)
IInv == TypeOK /\ OwnBookUncrossed

(* No resting buy of the contract is ever priced above one of its resting *)
(* sells: the ladders that get_action places are uncrossed (heads ordered *)
(* around the reservation price, ladders moving away from their heads),  *)
(* and the fills that thin the book only remove orders from it.          *)
THEOREM BookUncrossed == Spec => []OwnBookUncrossed
  <1>1. Init => IInv
    <2> SUFFICES ASSUME Init PROVE IInv
      OBVIOUS
    <2>1. TypeOK
      BY InitTyped
    <2>2. Uncrossed(<< >>)
      BY EmptyUncrossed
    <2>3. QED
      BY <2>1, <2>2 DEF Init, IInv, OwnBookUncrossed
  <1>2. IInv /\ [Next]_vars => IInv'
    <2> SUFFICES ASSUME IInv, [Next]_vars PROVE IInv'
      OBVIOUS
    <2>0. TypeOK'
      BY TypeStep DEF IInv
    <2>1. CASE ApplyReplace
      <3>1. AnswerOK(Answer)
        BY InputsAssumption, AnswerShape DEF Answer, IInv, TypeOK, Dec
      <3>2. QED
        BY <2>0, <2>1, <3>1 DEF ApplyReplace, AnswerOK, IInv, OwnBookUncrossed
    <2>2. CASE ApplyNoop \/ QueryFails \/ MarketUpdate \/ UNCHANGED vars
      BY <2>0, <2>2 DEF ApplyNoop, QueryFails, MarketUpdate, vars, IInv, OwnBookUncrossed
    <2>3. CASE Fill
      <3>1. PICK i \in 1..Len(open_orders) : open_orders' = RemoveAt(open_orders, i)
        BY <2>3 DEF Fill
      <3>2. /\ SideOrders(open_orders', BUY) \subseteq SideOrders(open_orders, BUY)
            /\ SideOrders(open_orders', SELL) \subseteq SideOrders(open_orders, SELL)
        BY <3>1, RemoveAtShape DEF IInv, TypeOK
      <3>3. QED
        BY <2>0, <3>2 DEF IInv, OwnBookUncrossed, Uncrossed
    <2>4. QED
      BY <2>1, <2>2, <2>3 DEF Next
  <1>3. IInv => OwnBookUncrossed
    BY DEF IInv
  <1>4. QED
    BY <1>1, <1>2, <1>3, PTL DEF Spec

-----------------------------------------------------------------------------
(* The refinement of BookAbstract.  A replace is a Place: AnswerShape    *)
(* gives that its orders are quotes and uncrossed, which are the two     *)
(* guards of Place; a fill is a Consume of the same order; every other   *)
(* action leaves the book and the plan alone.                            *)

\* The orders of the bot are the quotes of the abstract book.
LEMMA OrderIsQuote == Order = Abs!Quote
  BY DEF Order, Abs!Quote, Dec, BUY, SELL

\* Uncrossed is the abstract NotCrossed.
LEMMA UncrossedIsNotCrossed ==
    ASSUME NEW s
    PROVE  Uncrossed(s) <=> Abs!NotCrossed(s)
  BY DEF Uncrossed, SideOrders, Abs!NotCrossed, Abs!Side, BUY, SELL

LEMMA RefinementStep ==
    TypeOK /\ [Next]_vars => [Abs!Place \/ Abs!Consume]_Abs!absVars
  <1> SUFFICES ASSUME TypeOK, [Next]_vars
               PROVE  [Abs!Place \/ Abs!Consume]_Abs!absVars
    OBVIOUS
  <1>0. /\ mid_price \in Nat /\ volatility \in Nat /\ inv_val \in Nat
        /\ position \in Position \cup {NoPosition}
    BY InputsAssumption DEF TypeOK, Dec
  <1>1. CASE ApplyReplace
    <2>1. AnswerOK(Answer)
      BY <1>0, AnswerShape DEF Answer
    <2>2. lastPlan'.orders = Answer.orders /\ open_orders' = Answer.orders
      BY <1>1 DEF ApplyReplace
    <2>3. Answer.orders \in Seq(Abs!Quote) /\ Abs!NotCrossed(Answer.orders)
      BY <2>1, OrderIsQuote, UncrossedIsNotCrossed DEF AnswerOK
    <2>4. QED
      BY <2>2, <2>3 DEF Abs!Place
  <1>2. CASE Fill
    <2>1. PICK i \in 1..Len(open_orders) : open_orders' = RemoveAt(open_orders, i)
      BY <1>2 DEF Fill
    <2>2. lastPlan' = lastPlan
      BY <1>2 DEF Fill
    <2>3. QED
      BY <2>1, <2>2 DEF Abs!Consume, Abs!Without, RemoveAt
  <1>3. CASE ApplyNoop \/ QueryFails \/ MarketUpdate \/ UNCHANGED vars
    BY <1>3 DEF ApplyNoop, QueryFails, MarketUpdate, vars, Abs!absVars
  <1>4. QED
    BY <1>1, <1>2, <1>3 DEF Next

(* The bot loop implements BookAbstract: along every run, the contract's *)
(* resting orders are what the fills have left of the latest batch, and  *)
(* every batch get_action makes it place is uncrossed.                   *)
THEOREM Refinement == Spec => AbsSpec
  <1>1. Init => Abs!Init
    BY DEF Init, Abs!Init, NoPlan
  <1>2. QED
    BY <1>1, RefinementStep, TypeCorrect, PTL DEF Spec, AbsSpec, Abs!Spec

=============================================================================
