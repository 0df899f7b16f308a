-------------------------- MODULE MakerChurnProofs --------------------------
(***************************************************************************)
(* Proof that head_chg_is_gt_tol never lets the bot re-place an untouched *)
(* book under unchanged inputs while both sides of that book hold orders  *)
(* (MakerBot's ChurnOnlyWithEmptySide), for every value of the constants. *)
(***************************************************************************)
EXTENDS MakerBotProofs, FiniteSetTheorems

-----------------------------------------------------------------------------
(* What get_action computes from a snapshot <<mid_price, volatility,      *)
(* position, inv_val>> before it looks at the book, named as in its LET.  *)
SnapImbal(snap) == InvImbalanceDeriv(snap[3], snap[4])

SnapRes(snap) == ReservationPrice(snap[1], SnapImbal(snap)[1], snap[2], SnapImbal(snap)[2])

SnapHeads(snap) == NewHeadPrices(snap[2], SnapRes(snap))

SnapTails(snap) == NewTailPrices(SnapHeads(snap)[1], SnapHeads(snap)[2], snap[1])

\* None of the unsigned subtractions of the query panics.
SnapSound(snap) ==
    /\ ~ReservationFails(snap[1], SnapImbal(snap)[1], snap[2], SnapImbal(snap)[2])
    /\ ~HeadsFail(snap[2], SnapRes(snap))
    /\ ~TailsFail

\* The buy and the sell ladder a replace answer places for the snapshot.
BuyLadder(snap) ==
    CreateOrders(SnapHeads(snap)[1], SnapTails(snap)[1], snap[4], snap[3], TRUE)

SellLadder(snap) ==
    CreateOrders(SnapHeads(snap)[2], SnapTails(snap)[2], snap[4], snap[3], FALSE)

-----------------------------------------------------------------------------
(* ChurnOnlyWithEmptySide is not inductive: whether a replace is          *)
(* redundant depends on what the book held, and what it held was placed   *)
(* by an earlier replace.  The strengthening says that the latest plan is *)
(* exactly the two ladders get_action computed for the snapshot recorded  *)
(* with it, a snapshot on which the query did not panic.                  *)
PlanFromSnapshot ==
    lastPlan # NoPlan =>
        /\ lastPlan.snapshot \in Mids \X Vols \X Positions \X Balances
        /\ SnapSound(lastPlan.snapshot)
        /\ lastPlan.orders = BuyLadder(lastPlan.snapshot) \o SellLadder(lastPlan.snapshot)

ChurnInv == TypeOK /\ PlanFromSnapshot /\ ChurnOnlyWithEmptySide

-----------------------------------------------------------------------------
(* The ladder of create_new_orders_deriv starts at its head and moves     *)
(* away from it level by level: buys down, sells up.                      *)
LadderSorted(L, head, is_buy) ==
    /\ Len(L) > 0 => L[1].price = head
    /\ \A i, j \in 1..Len(L) :
          i < j => /\ is_buy => L[i].price >= L[j].price
                   /\ ~is_buy => L[i].price <= L[j].price

LEMMA LadderMonotone ==
    ASSUME NEW h \in Nat, NEW t \in Nat, NEW a, NEW q, NEW is_buy \in BOOLEAN
    PROVE  LadderSorted(CreateNewOrdersDeriv(h, t, a, q, is_buy), h, is_buy)
  <1> DEFINE n == OrderDensity
             step == IF n = 1 THEN 0 ELSE DecDiv(SubAbs(h, t), FromNat(n - 1))
             qty  == IF q > 0 THEN DecDiv(q, FromNat(n))
                     ELSE DecMul(DivDec(DivDec(a, h), FromNat(n)), Leverage)
  <1>1. n \in Nat \ {0}
    BY ParamsAssumption
  <1>2. step \in Nat
    <2>1. CASE n = 1
      BY <2>1
    <2>2. CASE n # 1
      BY <1>1, <2>2, StepWithin DEF SubAbs
    <2>3. QED
      BY <2>1, <2>2
  <1>3. CASE q = 0 /\ a = 0
    <2>1. CreateNewOrdersDeriv(h, t, a, q, is_buy) = << >>
      BY <1>3 DEF CreateNewOrdersDeriv
    <2>2. QED
      BY <2>1 DEF LadderSorted
  <1>4. CASE ~(q = 0 /\ a = 0)
    <2> DEFINE price(i) == IF is_buy THEN h - (i - 1) * step ELSE h + (i - 1) * step
    <2>1. CreateNewOrdersDeriv(h, t, a, q, is_buy) =
            [i \in 1..n |-> [order_type |-> IF is_buy THEN BUY ELSE SELL,
                             price |-> price(i), quantity |-> qty]]
      BY <1>4 DEF CreateNewOrdersDeriv
    <2>2. price(1) = h
      BY <1>2
    <2>3. \A i, j \in 1..n : i < j => /\ is_buy => price(i) >= price(j)
                                      /\ ~is_buy => price(i) <= price(j)
      <3> SUFFICES ASSUME NEW i \in 1..n, NEW j \in 1..n, i < j
                   PROVE  (i - 1) * step <= (j - 1) * step
        BY <1>2
      <3> QED
        BY <1>2
    <2>4. QED
      BY <1>1, <2>1, <2>2, <2>3 DEF LadderSorted
  <1>5. QED
    BY <1>3, <1>4

-----------------------------------------------------------------------------
(* The sort of split_open_orders.                                         *)

\* Two positions of the book are never each sorted before the other.
LEMMA SortsBeforeAsym ==
    ASSUME NEW s, NEW desc \in BOOLEAN, NEW j \in Int, NEW k \in Int,
           s[j].price \in Int, s[k].price \in Int
    PROVE  ~(SortsBefore(s, desc, j, k) /\ SortsBefore(s, desc, k, j))
  BY DEF SortsBefore

(* When the orders of one side sit at the positions a..b of the book and   *)
(* are already in the order sort_by gives them, the sorted side holds     *)
(* b - a + 1 orders and the one at position a comes first.  The sorted    *)
(* listing exists (the positions in their own order are one), and the     *)
(* CHOOSE cannot put a later position first, for position a sorts before  *)
(* it.                                                                     *)
SortedRun(s, desc, a, b) ==
    /\ \A j \in a..b : s[j].price \in Int
    /\ \A j, k \in a..b : j < k => SortsBefore(s, desc, j, k)

LEMMA SortedRunHead ==
    ASSUME NEW s, NEW side, NEW desc \in BOOLEAN, NEW a \in Nat, NEW b \in Nat, a <= b,
           SideIndices(s, side) = a..b, SortedRun(s, desc, a, b)
    PROVE  /\ Len(SortedSide(s, side, desc)) = b - a + 1
           /\ SortedSide(s, side, desc)[1] = s[a]
  <1> DEFINE I == SideIndices(s, side)
             n == Cardinality(I)
             P(f) == /\ \A k \in I : \E i \in 1..n : f[i] = k
                     /\ \A i, j \in 1..n : i < j => SortsBefore(s, desc, f[i], f[j])
             order == CHOOSE f \in [1..n -> I] : P(f)
  <1>0. /\ \A j \in a..b : s[j].price \in Int
        /\ \A j, k \in a..b : j < k => SortsBefore(s, desc, j, k)
    BY DEF SortedRun
  <1>1. n = b - a + 1
    BY FS_Interval
  <1>2. \E f \in [1..n -> I] : P(f)
    <2> DEFINE g == [i \in 1..n |-> a + i - 1]
    <2>1. g \in [1..n -> I]
      BY <1>1
    <2>2. \A k \in I : \E i \in 1..n : g[i] = k
      <3> SUFFICES ASSUME NEW k \in a..b PROVE \E i \in 1..n : g[i] = k
        OBVIOUS
      <3>1. k - a + 1 \in 1..n /\ g[k - a + 1] = k
        BY <1>1
      <3>2. QED
        BY <3>1
    <2>3. \A i, j \in 1..n : i < j => SortsBefore(s, desc, g[i], g[j])
      BY <1>0, <1>1
    <2>4. QED
      BY <2>1, <2>2, <2>3
  <1>3. order \in [1..n -> I] /\ P(order)
    BY <1>2
  <1>4. SortedSide(s, side, desc) = [i \in 1..n |-> s[order[i]]]
    BY DEF SortedSide
  <1>5. order[1] = a
    <2>1. 1 \in 1..n /\ a \in I
      BY <1>1
    <2>2. PICK i0 \in 1..n : order[i0] = a
      BY <1>3, <2>1
    <2>3. CASE i0 = 1
      BY <2>2, <2>3
    <2>4. CASE i0 # 1
      <3>1. SortsBefore(s, desc, order[1], a)
        <4>1. 1 < i0 /\ i0 \in 1..n
          BY <2>2, <2>4, <1>1
        <4>2. QED
          BY <1>3, <2>1, <2>2, <4>1 DEF P
      <3>2. order[1] \in a..b
        BY <1>3, <2>1
      <3>3. order[1] # a
        <4>1. a \in Int
          OBVIOUS
        <4>2. ~SortsBefore(s, desc, a, a)
          BY <4>1 DEF SortsBefore
        <4>3. QED
          BY <3>1, <4>2
      <3>4. SortsBefore(s, desc, a, order[1])
        BY <1>0, <3>2, <3>3
      <3>5. QED
        BY <1>0, <3>1, <3>2, <3>4, SortsBeforeAsym
    <2>5. QED
      BY <2>3, <2>4
  <1>6. n \in Nat /\ 1 \in 1..n
    BY <1>1
  <1>7. Len([i \in 1..n |-> s[order[i]]]) = n
    BY <1>6
  <1>8. QED
    BY <1>1, <1>4, <1>5, <1>6, <1>7

(* split_open_orders of a buy ladder followed by a sell ladder, as a      *)
(* replace places them, gives back each ladder's head at index 0.          *)
LEMMA SplitHeads ==
    ASSUME NEW B, NEW S, NEW hb \in Nat, NEW hs \in Nat,
           LadderOK(B, hb, TRUE), LadderOK(S, hs, FALSE),
           LadderSorted(B, hb, TRUE), LadderSorted(S, hs, FALSE),
           Len(B) > 0, Len(S) > 0
    PROVE  /\ Len(SplitOpenOrders(B \o S)[1]) > 0
           /\ SplitOpenOrders(B \o S)[1][1].price = hb
           /\ Len(SplitOpenOrders(B \o S)[2]) > 0
           /\ SplitOpenOrders(B \o S)[2][1].price = hs
  <1> DEFINE s == B \o S
             nb == Len(B)
             ns == Len(S)
  <1>1. B \in Seq(Order) /\ S \in Seq(Order) /\ nb \in Nat /\ ns \in Nat
    BY DEF LadderOK
  <1>2. /\ s \in Seq(Order)
        /\ DOMAIN s = 1..nb + ns
        /\ \A i \in 1..nb + ns : s[i] = IF i <= nb THEN B[i] ELSE S[i - nb]
    BY <1>1, ConcatProperties
  <1>3. \A i \in 1..nb + ns : s[i].price \in Int
    <2> SUFFICES ASSUME NEW i \in 1..nb + ns PROVE s[i].price \in Int
      OBVIOUS
    <2>1. s[i] \in Order
      BY <1>1, <1>2, ElementOfSeq
    <2>2. QED
      BY <2>1 DEF Order, Dec
  <1>4. SideIndices(s, BUY) = 1..nb /\ SideIndices(s, SELL) = nb + 1..nb + ns
    BY <1>1, <1>2 DEF SideIndices, LadderOK, BUY, SELL
  <1>5. SortedRun(s, TRUE, 1, nb)
    <2>1. \A j, k \in 1..nb : j < k => SortsBefore(s, TRUE, j, k)
      BY <1>1, <1>2, <1>3 DEF LadderSorted, SortsBefore
    <2>2. \A j \in 1..nb : s[j].price \in Int
      BY <1>1, <1>3
    <2>3. QED
      BY <2>1, <2>2 DEF SortedRun
  <1>6. SortedRun(s, FALSE, nb + 1, nb + ns)
    <2>1. ASSUME NEW j \in nb + 1..nb + ns, NEW k \in nb + 1..nb + ns, j < k
          PROVE  SortsBefore(s, FALSE, j, k)
      <3>1. s[j] = S[j - nb] /\ s[k] = S[k - nb]
            /\ j - nb \in 1..ns /\ k - nb \in 1..ns /\ j - nb < k - nb
        BY <1>1, <1>2, <2>1
      <3>2. S[j - nb].price <= S[k - nb].price
        BY <3>1 DEF LadderSorted
      <3>3. QED
        BY <1>1, <1>3, <2>1, <3>1, <3>2 DEF SortsBefore
    <2>2. \A j \in nb + 1..nb + ns : s[j].price \in Int
      BY <1>1, <1>3
    <2>3. QED
      BY <2>1, <2>2 DEF SortedRun
  <1>sr. \A side : \A desc \in BOOLEAN, a \in Nat, b \in Nat :
           a <= b /\ SideIndices(s, side) = a..b /\ SortedRun(s, desc, a, b) =>
              /\ Len(SortedSide(s, side, desc)) = b - a + 1
              /\ SortedSide(s, side, desc)[1] = s[a]
    <2>1. \A ss, side : \A desc \in BOOLEAN, a \in Nat, b \in Nat :
            a <= b /\ SideIndices(ss, side) = a..b /\ SortedRun(ss, desc, a, b) =>
               /\ Len(SortedSide(ss, side, desc)) = b - a + 1
               /\ SortedSide(ss, side, desc)[1] = ss[a]
      BY SortedRunHead
    <2>2. QED
      BY <2>1
  <1>7. Len(SortedSide(s, BUY, TRUE)) = nb /\ SortedSide(s, BUY, TRUE)[1] = s[1]
    <2>1. 1 \in Nat /\ 1 <= nb /\ nb - 1 + 1 = nb
      BY <1>1
    <2>2. Len(SortedSide(s, BUY, TRUE)) = nb - 1 + 1 /\ SortedSide(s, BUY, TRUE)[1] = s[1]
      BY <1>1, <1>4, <1>5, <2>1, <1>sr
    <2>3. QED
      BY <2>1, <2>2
  <1>8. Len(SortedSide(s, SELL, FALSE)) = ns /\ SortedSide(s, SELL, FALSE)[1] = s[nb + 1]
    <2>1. nb + 1 \in Nat /\ nb + ns \in Nat /\ nb + 1 <= nb + ns
          /\ (nb + ns) - (nb + 1) + 1 = ns
      BY <1>1
    <2>2. /\ Len(SortedSide(s, SELL, FALSE)) = (nb + ns) - (nb + 1) + 1
          /\ SortedSide(s, SELL, FALSE)[1] = s[nb + 1]
      BY <1>4, <1>6, <2>1, <1>sr
    <2>3. QED
      BY <2>1, <2>2
  <1>9. s[1] = B[1] /\ s[nb + 1] = S[1]
    BY <1>1, <1>2
  <1>10. QED
    BY <1>7, <1>8, <1>9 DEF SplitOpenOrders, LadderSorted

\* A head that did not move keeps head_chg_is_gt_tol shut.
LEMMA GateShutOnSameHead ==
    ASSUME NEW t, NEW h \in Nat, Len(t) > 0, t[1].price = h
    PROVE  ~HeadChgIsGtTol(t, h)
  <1>1. DivDec(SubAbs(h, h), h) = 0
    BY OneAssumption DEF DivDec, DecDiv, SubAbs
  <1>2. QED
    BY <1>1, ParamsAssumption DEF HeadChgIsGtTol, Dec

-----------------------------------------------------------------------------
(* What a replace answer is made of.                                      *)

\* The snapshots the bot can query with.
SnapType == Nat \X Nat \X (Position \cup {NoPosition}) \X Nat

(* A replace answer comes from a snapshot on which nothing panics, places *)
(* the two ladders of that snapshot, and was let through by the gate on  *)
(* one of the sides of the book it was given.                            *)
LEMMA ReplaceFromSnapshot ==
    ASSUME NEW snap \in SnapType, NEW oo,
           GetAction(snap[1], snap[2], snap[3], snap[4], oo).kind = "replace"
    PROVE  /\ SnapSound(snap)
           /\ GetAction(snap[1], snap[2], snap[3], snap[4], oo).orders
                = BuyLadder(snap) \o SellLadder(snap)
           /\ \/ HeadChgIsGtTol(SplitOpenOrders(oo)[1], SnapHeads(snap)[1])
              \/ HeadChgIsGtTol(SplitOpenOrders(oo)[2], SnapHeads(snap)[2])
  <1> DEFINE m     == snap[1]
             v     == snap[2]
             p     == snap[3]
             b     == snap[4]
             imbal == InvImbalanceDeriv(p, b)
             r     == ReservationPrice(m, imbal[1], v, imbal[2])
             hd    == NewHeadPrices(v, r)
             tl    == NewTailPrices(hd[1], hd[2], m)
             fails == \/ ReservationFails(m, imbal[1], v, imbal[2])
                      \/ HeadsFail(v, r)
             gate  == \/ HeadChgIsGtTol(SplitOpenOrders(oo)[1], hd[1])
                      \/ HeadChgIsGtTol(SplitOpenOrders(oo)[2], hd[2])
  <1>1. SnapImbal(snap) = imbal /\ SnapRes(snap) = r /\ SnapHeads(snap) = hd
        /\ SnapTails(snap) = tl
    BY DEF SnapImbal, SnapRes, SnapHeads, SnapTails
  <1>2. ~fails /\ gate /\ ~TailsFail
    BY DEF GetAction
  <1>3. GetAction(m, v, p, b, oo).orders
          = CreateOrders(hd[1], tl[1], b, p, TRUE) \o CreateOrders(hd[2], tl[2], b, p, FALSE)
    BY <1>2 DEF GetAction
  <1>4. QED
    BY <1>1, <1>2, <1>3 DEF SnapSound, BuyLadder, SellLadder

(* The two ladders of a snapshot on which nothing panics are well-typed,  *)
(* one-sided, and start at their heads, from which they move away.        *)
LEMMA SnapLadders ==
    ASSUME NEW snap \in SnapType, SnapSound(snap)
    PROVE  /\ SnapHeads(snap)[1] \in Nat /\ SnapHeads(snap)[2] \in Nat
           /\ LadderOK(BuyLadder(snap), SnapHeads(snap)[1], TRUE)
           /\ LadderOK(SellLadder(snap), SnapHeads(snap)[2], FALSE)
           /\ LadderSorted(BuyLadder(snap), SnapHeads(snap)[1], TRUE)
           /\ LadderSorted(SellLadder(snap), SnapHeads(snap)[2], FALSE)
  <1> DEFINE m == snap[1]
             v == snap[2]
             p == snap[3]
             b == snap[4]
             hd == SnapHeads(snap)
             tl == SnapTails(snap)
  <1>1. m \in Nat /\ v \in Nat /\ p \in Position \cup {NoPosition} /\ b \in Nat
    BY DEF SnapType
  <1>2. SnapRes(snap) \in Nat
    BY <1>1, ImbalanceShape, ReservationNat DEF SnapSound, SnapRes, SnapImbal
  <1>3. hd[1] \in Nat /\ hd[2] \in Nat /\ hd[1] <= hd[2]
    BY <1>1, <1>2, HeadsOrdered DEF SnapSound, SnapHeads
  <1>4. tl[1] \in Nat /\ tl[1] <= hd[1] /\ tl[2] \in Nat
    BY <1>1, <1>3, TailsBounded DEF SnapSound, SnapTails
  <1>5. /\ LadderOK(BuyLadder(snap), hd[1], TRUE)
        /\ LadderOK(SellLadder(snap), hd[2], FALSE)
    BY <1>1, <1>3, <1>4, CreateOrdersShape DEF BuyLadder, SellLadder
  <1>6. /\ LadderSorted(BuyLadder(snap), hd[1], TRUE)
        /\ LadderSorted(SellLadder(snap), hd[2], FALSE)
    BY <1>3, <1>4, LadderMonotone DEF BuyLadder, SellLadder, CreateOrders
  <1>7. QED
    BY <1>3, <1>5, <1>6

(* The heart of ChurnOnlyWithEmptySide: queried with the very book it     *)
(* placed, under the very same snapshot, get_action finds both old heads   *)
(* equal to the new ones when both ladders hold orders, and the gate       *)
(* stays shut.                                                            *)
LEMMA NoReplaceOfOwnTwoSidedBook ==
    ASSUME NEW snap \in SnapType, SnapSound(snap),
           SideOrders(BuyLadder(snap) \o SellLadder(snap), BUY) # {},
           SideOrders(BuyLadder(snap) \o SellLadder(snap), SELL) # {}
    PROVE  GetAction(snap[1], snap[2], snap[3], snap[4],
                     BuyLadder(snap) \o SellLadder(snap)).kind # "replace"
  <1> DEFINE BL == BuyLadder(snap)
             SL == SellLadder(snap)
             L  == BL \o SL
             hd == SnapHeads(snap)
  <1>1. /\ hd[1] \in Nat /\ hd[2] \in Nat
        /\ LadderOK(BL, hd[1], TRUE) /\ LadderOK(SL, hd[2], FALSE)
        /\ LadderSorted(BL, hd[1], TRUE) /\ LadderSorted(SL, hd[2], FALSE)
    BY SnapLadders
  <1>2. /\ BL \in Seq(Order) /\ SL \in Seq(Order)
        /\ DOMAIN L = 1..Len(BL) + Len(SL)
        /\ \A i \in 1..Len(BL) + Len(SL) :
              L[i] = IF i <= Len(BL) THEN BL[i] ELSE SL[i - Len(BL)]
    BY <1>1, ConcatProperties DEF LadderOK
  <1>3. Len(BL) > 0
    <2>1. PICK i \in DOMAIN L : L[i].order_type = BUY
      BY DEF SideOrders
    <2>2. i <= Len(BL)
      <3>1. SUFFICES ASSUME ~(i <= Len(BL)) PROVE FALSE
        OBVIOUS
      <3>2. L[i] = SL[i - Len(BL)] /\ i - Len(BL) \in 1..Len(SL)
        BY <1>2, <2>1, <3>1
      <3>3. QED
        BY <1>1, <2>1, <3>2 DEF LadderOK, BUY, SELL
    <2>3. QED
      BY <1>2, <2>1, <2>2
  <1>4. Len(SL) > 0
    <2>1. PICK i \in DOMAIN L : L[i].order_type = SELL
      BY DEF SideOrders
    <2>2. ~(i <= Len(BL))
      <3>1. SUFFICES ASSUME i <= Len(BL) PROVE FALSE
        OBVIOUS
      <3>2. L[i] = BL[i] /\ i \in 1..Len(BL)
        BY <1>2, <2>1, <3>1
      <3>3. QED
        BY <1>1, <2>1, <3>2 DEF LadderOK, BUY, SELL
    <2>3. QED
      BY <1>2, <2>1, <2>2
  <1>5. /\ Len(SplitOpenOrders(L)[1]) > 0 /\ SplitOpenOrders(L)[1][1].price = hd[1]
        /\ Len(SplitOpenOrders(L)[2]) > 0 /\ SplitOpenOrders(L)[2][1].price = hd[2]
    <2>1. \A B, S : \A hb, hs \in Nat :
             /\ LadderOK(B, hb, TRUE) /\ LadderOK(S, hs, FALSE)
             /\ LadderSorted(B, hb, TRUE) /\ LadderSorted(S, hs, FALSE)
             /\ Len(B) > 0 /\ Len(S) > 0
             => /\ Len(SplitOpenOrders(B \o S)[1]) > 0
                /\ SplitOpenOrders(B \o S)[1][1].price = hb
                /\ Len(SplitOpenOrders(B \o S)[2]) > 0
                /\ SplitOpenOrders(B \o S)[2][1].price = hs
      BY SplitHeads
    <2>2. /\ LadderOK(BL, hd[1], TRUE) /\ LadderOK(SL, hd[2], FALSE)
          /\ LadderSorted(BL, hd[1], TRUE) /\ LadderSorted(SL, hd[2], FALSE)
          /\ Len(BL) > 0 /\ Len(SL) > 0
          => /\ Len(SplitOpenOrders(BL \o SL)[1]) > 0
             /\ SplitOpenOrders(BL \o SL)[1][1].price = hd[1]
             /\ Len(SplitOpenOrders(BL \o SL)[2]) > 0
             /\ SplitOpenOrders(BL \o SL)[2][1].price = hd[2]
      BY <1>1, <2>1, Zenon
    <2>3. QED
      BY <1>1, <1>3, <1>4, <2>2, Zenon
  <1>6. /\ ~HeadChgIsGtTol(SplitOpenOrders(L)[1], hd[1])
        /\ ~HeadChgIsGtTol(SplitOpenOrders(L)[2], hd[2])
    BY <1>1, <1>5, GateShutOnSameHead
  <1>7. QED
    BY <1>6, ReplaceFromSnapshot

-----------------------------------------------------------------------------
(* ChurnInv is inductive.                                                 *)

LEMMA ChurnInit == Init => ChurnInv
  BY InitTyped DEF Init, ChurnInv, PlanFromSnapshot, ChurnOnlyWithEmptySide

LEMMA ChurnStep == ChurnInv /\ [Next]_vars => ChurnInv'
  <1> SUFFICES ASSUME ChurnInv, [Next]_vars PROVE ChurnInv'
    OBVIOUS
  <1>0. TypeOK'
    BY TypeStep DEF ChurnInv
  <1>1. /\ Snapshot \in SnapType
        /\ Snapshot \in Mids \X Vols \X Positions \X Balances
        /\ mid_price \in Nat /\ volatility \in Nat /\ inv_val \in Nat
        /\ position \in Position \cup {NoPosition}
    BY InputsAssumption DEF ChurnInv, TypeOK, Snapshot, SnapType, Dec
  <1>2. CASE ApplyReplace
    <2>1. /\ Answer.kind = "replace"
          /\ lastPlan' = [snapshot |-> Snapshot, orders |-> Answer.orders]
          /\ redundant' = (lastPlan.snapshot = Snapshot /\ lastPlan.orders = open_orders)
      BY <1>2 DEF ApplyReplace
    <2>2. /\ SnapSound(Snapshot)
          /\ Answer.orders = BuyLadder(Snapshot) \o SellLadder(Snapshot)
      <3>1. GetAction(Snapshot[1], Snapshot[2], Snapshot[3], Snapshot[4], open_orders).kind
              = "replace"
        BY <2>1 DEF Answer, Snapshot
      <3>2. /\ SnapSound(Snapshot)
            /\ GetAction(Snapshot[1], Snapshot[2], Snapshot[3], Snapshot[4], open_orders).orders
                 = BuyLadder(Snapshot) \o SellLadder(Snapshot)
        BY <1>1, <3>1, ReplaceFromSnapshot
      <3>3. QED
        BY <3>2 DEF Answer, Snapshot
    <2>3. PlanFromSnapshot'
      BY <1>1, <2>1, <2>2 DEF PlanFromSnapshot
    <2>4. ChurnOnlyWithEmptySide'
      <3>1. SUFFICES ASSUME redundant',
                            SideOrders(lastPlan'.orders, BUY) # {},
                            SideOrders(lastPlan'.orders, SELL) # {}
                     PROVE  FALSE
        BY DEF ChurnOnlyWithEmptySide
      <3>2. lastPlan.snapshot = Snapshot /\ lastPlan.orders = open_orders
        BY <2>1, <3>1
      <3>3. lastPlan # NoPlan
        BY <3>2 DEF NoPlan, Snapshot
      <3>4. open_orders = BuyLadder(Snapshot) \o SellLadder(Snapshot)
        BY <3>2, <3>3 DEF ChurnInv, PlanFromSnapshot
      <3>5. lastPlan'.orders = BuyLadder(Snapshot) \o SellLadder(Snapshot)
        BY <2>1, <2>2
      <3>6. GetAction(Snapshot[1], Snapshot[2], Snapshot[3], Snapshot[4],
                      BuyLadder(Snapshot) \o SellLadder(Snapshot)).kind # "replace"
        BY <1>1, <2>2, <3>1, <3>5, NoReplaceOfOwnTwoSidedBook
      <3>7. QED
        BY <2>1, <3>4, <3>6 DEF Answer, Snapshot
    <2>5. QED
      BY <1>0, <2>3, <2>4 DEF ChurnInv
  <1>3. CASE ApplyNoop \/ QueryFails
    BY <1>0, <1>3 DEF ApplyNoop, QueryFails, ChurnInv, PlanFromSnapshot, ChurnOnlyWithEmptySide
  <1>4. CASE MarketUpdate \/ Fill \/ UNCHANGED vars
    <2>1. lastPlan' = lastPlan /\ redundant' = redundant
      BY <1>4 DEF MarketUpdate, Fill, vars
    <2>2. QED
      BY <1>0, <2>1 DEF ChurnInv, PlanFromSnapshot, ChurnOnlyWithEmptySide
  <1>5. QED
    BY <1>2, <1>3, <1>4 DEF Next

(* For every value of the parameters, prices and positions: the bot only  *)
(* cancels and re-places a book that nothing has touched since it placed  *)
(* it, under the very same mid price, volatility, position and balance,   *)
(* when one side of that book is empty.  With both sides present,         *)
(* split_open_orders sorts each ladder's head back to index 0, those      *)
(* heads are the ones new_head_prices computes again, and                 *)
(* head_chg_is_gt_tol stays shut on both sides.                           *)
THEOREM ChurnOnlyWithEmptySideHolds == Spec => []ChurnOnlyWithEmptySide
  <1>1. ChurnInv => ChurnOnlyWithEmptySide
    BY DEF ChurnInv
  <1>2. QED
    BY <1>1, ChurnInit, ChurnStep, PTL DEF Spec

-----------------------------------------------------------------------------
(* The action property RedundantReplaceKeepsBook rests on the same        *)
(* invariant: the book of a redundant replace is the latest plan, which   *)
(* PlanFromSnapshot says is the pair of ladders get_action computes again *)
(* from the same snapshot.                                                *)

LEMMA RedundantReplaceStep ==
    ChurnInv /\ [Next]_vars =>
        [ApplyReplace /\ lastPlan.snapshot = Snapshot /\ lastPlan.orders = open_orders
           => open_orders' = open_orders]_vars
  <1> SUFFICES ASSUME ChurnInv, ApplyReplace,
                      lastPlan.snapshot = Snapshot, lastPlan.orders = open_orders
               PROVE  open_orders' = open_orders
    OBVIOUS
  <1>1. Snapshot \in SnapType
    BY InputsAssumption DEF ChurnInv, TypeOK, Snapshot, SnapType, Dec
  <1>2. lastPlan # NoPlan
    BY DEF NoPlan, Snapshot
  <1>3. open_orders = BuyLadder(Snapshot) \o SellLadder(Snapshot)
    BY <1>2 DEF ChurnInv, PlanFromSnapshot
  <1>4. GetAction(Snapshot[1], Snapshot[2], Snapshot[3], Snapshot[4], open_orders).kind
          = "replace"
        /\ open_orders' = GetAction(Snapshot[1], Snapshot[2], Snapshot[3], Snapshot[4],
                                    open_orders).orders
    BY DEF ApplyReplace, Answer, Snapshot
  <1>5. QED
    BY <1>1, <1>3, <1>4, ReplaceFromSnapshot

(* For every value of the parameters, prices and positions: a replace     *)
(* batch for an untouched book under unchanged inputs puts back exactly    *)
(* the orders it cancels, since the ladders of get_action depend on the    *)
(* snapshot and not on the book it is given.                              *)
THEOREM RedundantReplaceKeepsBookHolds == Spec => RedundantReplaceKeepsBook
  BY ChurnInit, ChurnStep, RedundantReplaceStep, PTL DEF Spec, RedundantReplaceKeepsBook

=============================================================================
