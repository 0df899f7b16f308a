----------------------------- MODULE MC_MakerBot -----------------------------
(***************************************************************************)
(* A small instance of MakerBot.  Decimals carry two fractional digits    *)
(* (ONE = 100), so 4000 is a mid price of 40.00.  The parameters give     *)
(* heads half a unit around the reservation price, tails five percent     *)
(* from the mid, a one-percent head tolerance and two levels per side.    *)
(***************************************************************************)
EXTENDS MakerBot

MC_One == 100

\* Mid prices: a base, a move inside the tolerance, a move beyond it.
MC_Mids == {4000, 4020, 4400}

(* Mid prices for the totality run: a low one, against which the largest *)
(* reservation shift (0.4 x 100.00 x 0.5 = 20.00) exceeds the mid price.  *)
MC_LowMids == {1000, 4000}

\* No volatility (heads collapse), a normal one, and one larger than the mid.
MC_Vols == {0, 200, 10000}

\* Flat, long one unit at 40 with 10 margin, short the same.
MC_Positions ==
    { NoPosition,
      [is_long |-> TRUE,  quantity |-> 100, entry_price |-> 4000, margin |-> 1000],
      [is_long |-> FALSE, quantity |-> 100, entry_price |-> 4000, margin |-> 1000] }

\* A funded account and an emptied one.
MC_Balances == {10000, 0}

=============================================================================
