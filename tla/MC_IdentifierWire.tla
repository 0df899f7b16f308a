-------------------------- MODULE MC_IdentifierWire --------------------------
(* Hex identifiers of five bytes ("0x" and three), so that the last     *)
(* three characters of a SubaccountId are all of its digits, and so that *)
(* "0x" and one Kelvin sign (three bytes) are an id new accepts; strings of *)
(* up to five characters, so that a short id may carry a sign, leading   *)
(* zeros, four digits (above 999) or five (above 65535).                 *)
EXTENDS IdentifierWire

MC_HexIdLen == 5
MC_MaxStrLen == 5
MC_HashLen == 2

(* Bytes whose nibbles are 0, 9 or 10 stand for u8: a digit, a letter,  *)
(* and the zero that shows a swap of the two nibbles of a byte.          *)
MC_Bytes == {16 * h + l : h, l \in {0, 9, 10}}

=============================================================================
