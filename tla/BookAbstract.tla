---------------------------- MODULE BookAbstract ----------------------------
(***************************************************************************)
(* What the maker contract promises about its resting orders, whatever   *)
(* the pricing: the orders resting on the book are what is left of the   *)
(* latest plan it placed, and a plan it places never has a buy priced    *)
(* above one of its sells.  The book changes in two ways only: a new plan *)
(* replaces all of it (cancel-all, then create), or the exchange takes    *)
(* one order out of it (a fill).                                          *)
(***************************************************************************)
EXTENDS Naturals, Sequences

VARIABLES
    book,   \* the orders resting on the book
    plan    \* the latest plan placed

absVars == <<book, plan>>

\* An order as far as the promise looks at it: side (1 buy, 2 sell) and price.
Quote == [order_type : {1, 2}, price : Nat, quantity : Nat]

\* The buys or the sells of a sequence of quotes.
Side(s, t) == {s[i] : i \in {k \in DOMAIN s : s[k].order_type = t}}

\* No buy of s above one of its sells.
NotCrossed(s) == \A b \in Side(s, 1), o \in Side(s, 2) : b.price <= o.price

\* s without its i-th element.
Without(s, i) == [j \in 1..Len(s) - 1 |-> IF j < i THEN s[j] ELSE s[j + 1]]

Init == book = << >> /\ plan = << >>

\* A new uncrossed plan replaces everything that rests.
Place ==
    /\ plan' \in Seq(Quote)
    /\ NotCrossed(plan')
    /\ book' = plan'

\* One resting order leaves the book.
Consume ==
    /\ \E i \in 1..Len(book) : book' = Without(book, i)
    /\ plan' = plan

Spec == Init /\ [][Place \/ Consume]_absVars

=============================================================================
