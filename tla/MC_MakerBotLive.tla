--------------------------- MODULE MC_MakerBotLive ---------------------------
(* The instance of MC_MakerBot, with two environment steps: enough for a  *)
(* market move and a fill of the head between queries.                   *)
EXTENDS MakerBotLive

MC_One == 100
MC_Mids == {4000, 4020, 4400}
MC_Vols == {0, 200, 10000}
MC_Positions ==
    { NoPosition,
      [is_long |-> TRUE,  quantity |-> 100, entry_price |-> 4000, margin |-> 1000],
      [is_long |-> FALSE, quantity |-> 100, entry_price |-> 4000, margin |-> 1000] }
MC_Balances == {10000, 0}

=============================================================================
