-------------------------- MODULE MC_MakerContract --------------------------
(* A small instance of MakerContract: the contract and one stranger as    *)
(* senders, two possible child addresses (a failed attempt followed by a  *)
(* successful one), a bp value in range and one above 10000, and an       *)
(* order_density of zero and of two.                                      *)
EXTENDS MakerContract

CONSTANTS Stranger, C1, C2

MC_Senders == {ContractAddr, Stranger}
MC_Children == {C1, C2}
MC_BpInputs == {100, 20000}
MC_DensityInputs == {0, 2}
MC_One == 100

=============================================================================
