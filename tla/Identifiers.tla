----------------------------- MODULE Identifiers -----------------------------
(***************************************************************************)
(* The identifier newtypes of injective-cosmwasm (exchange/types.rs):      *)
(* MarketId, SubaccountId and ShortSubaccountId, with their checked        *)
(* constructors, their unchecked ones, their Deserialize impls and the     *)
(* conversion From<SubaccountId> for ShortSubaccountId; the storage key    *)
(* of a SubaccountId and its from_vec; Hash with to_hex and from_hex.      *)
(* Serialize is the derived newtype serialisation: the inner string goes   *)
(* on the wire as it is.  Strings are sequences over a small alphabet that *)
(* holds what the checks tell apart (the 0x prefix, upper and lower case,  *)
(* decimal digits, a hex letter, the sign u16 parsing accepts, and a       *)
(* character whose UTF-8 length to_lowercase changes).  str::len counts    *)
(* bytes: the 66 bytes of a hex identifier are HexIdLen bytes.  The 32     *)
(* bytes of a Hash are HashLen bytes.                                      *)
(***************************************************************************)
EXTENDS Naturals, Sequences

CONSTANTS
    HexIdLen,       \* 66 in the code: "0x" and 64 hex digits
    MaxStrLen,      \* longest string the model sends
    HashLen         \* 32 in the code: the bytes of a Hash

ASSUME IdAssumption ==
    HexIdLen \in 3..MaxStrLen /\ MaxStrLen \in Nat /\ HashLen \in Nat \ {0}

(* "KelvinSign" is U+212A, three bytes in UTF-8, whose lower case is the *)
(* one-byte ASCII "k".  Every other character of the alphabet is ASCII.  *)
Chars == {"0", "9", "a", "A", "x", "X", "+", "KelvinSign", "k"}

\* The length of a character in UTF-8.
Width(c) == IF c = "KelvinSign" THEN 3 ELSE 1

\* str::len: the number of bytes of the string.
ByteLen(s) ==
    LET len[i \in 0..Len(s)] == IF i = 0 THEN 0 ELSE len[i - 1] + Width(s[i])
    IN  len[Len(s)]

Strings == UNION {[1..n -> Chars] : n \in 0..MaxStrLen}

\* MAX_SHORT_SUBACCOUNT_NONCE and the largest u16.
MaxShortNonce == 999
MaxU16 == 65535

\* A StdResult: Ok with a value, or an error.
Ok(v) == [ok |-> TRUE, val |-> v]
Err == [ok |-> FALSE, val |-> << >>]

\* char::to_lowercase on the alphabet: the Kelvin sign becomes ASCII "k".
LowerChar(c) ==
    IF c = "A" THEN "a" ELSE IF c = "X" THEN "x" ELSE IF c = "KelvinSign" THEN "k" ELSE c

\* str::to_lowercase, character by character.
ToLower(s) == [i \in 1..Len(s) |-> LowerChar(s[i])]

StartsWith0x(s) == Len(s) >= 2 /\ s[1] = "0" /\ s[2] = "x"

-----------------------------------------------------------------------------
(* MarketId::new: prefix, then the byte length of the string it was given, *)
(* then the lower-cased string, whose byte length nothing checks.          *)
MarketIdNew(s) ==
    IF ~StartsWith0x(s) \/ ByteLen(s) # HexIdLen THEN Err ELSE Ok(ToLower(s))

\* MarketId::unchecked lower-cases and checks nothing.
MarketIdUnchecked(s) == ToLower(s)

\* Deserialize for MarketId: the same two checks, then unchecked.
MarketIdDeserialize(s) ==
    IF ~StartsWith0x(s) \/ ByteLen(s) # HexIdLen THEN Err ELSE Ok(MarketIdUnchecked(s))

\* SubaccountId::new, unchecked and Deserialize follow the MarketId code.
SubaccountIdNew(s) ==
    IF ~StartsWith0x(s) \/ ByteLen(s) # HexIdLen THEN Err ELSE Ok(ToLower(s))

SubaccountIdUnchecked(s) == ToLower(s)

SubaccountIdDeserialize(s) ==
    IF ~StartsWith0x(s) \/ ByteLen(s) # HexIdLen THEN Err ELSE Ok(SubaccountIdUnchecked(s))

-----------------------------------------------------------------------------
(* str::parse::<u16>: an optional leading "+", then one or more decimal   *)
(* digits whose value fits in 16 bits.                                    *)
Digits(s) == IF Len(s) > 0 /\ s[1] = "+" THEN Tail(s) ELSE s

DecimalValue(d) ==
    LET val[i \in 0..Len(d)] == IF i = 0 THEN 0 ELSE 10 * val[i - 1] + (IF d[i] = "9" THEN 9 ELSE 0)
    IN  val[Len(d)]

ParseU16(s) ==
    IF /\ Len(Digits(s)) > 0
       /\ \A i \in 1..Len(Digits(s)) : Digits(s)[i] \in {"0", "9"}
       /\ DecimalValue(Digits(s)) <= MaxU16
    THEN Ok(DecimalValue(Digits(s)))
    ELSE Err

\* ShortSubaccountId::new keeps the string it was given, not the number.
ShortSubaccountIdNew(s) ==
    IF ParseU16(s).ok /\ ParseU16(s).val <= MaxShortNonce THEN Ok(s) ELSE Err

ShortSubaccountIdUnchecked(s) == s

ShortSubaccountIdDeserialize(s) ==
    IF ParseU16(s).ok /\ ParseU16(s).val <= MaxShortNonce
    THEN Ok(ShortSubaccountIdUnchecked(s)) ELSE Err

(* From<SubaccountId>: the last three bytes of the id, unchecked.  The    *)
(* stored id is lower-cased, and every lower-case character of the        *)
(* alphabet is one byte, so the last three bytes are the last three       *)
(* characters.                                                            *)
ShortFromSubaccount(sub) == ShortSubaccountIdUnchecked(SubSeq(sub, Len(sub) - 2, Len(sub)))

-----------------------------------------------------------------------------
(* The storage key of a SubaccountId (PrimaryKey::key, Prefixer::prefix): *)
(* the bytes of its string.                                               *)
SubaccountIdKey(id) == id

\* KeyDeserialize::from_vec: the bytes as a string, then unchecked.
SubaccountIdFromVec(v) == Ok(SubaccountIdUnchecked(v))

-----------------------------------------------------------------------------
(* hex::encode writes each nibble as one of 0-9a-f; hex::decode also      *)
(* reads A-F.                                                             *)
HexLower == <<"0", "1", "2", "3", "4", "5", "6", "7", "8", "9", "a", "b", "c", "d", "e", "f">>
HexUpper == <<"0", "1", "2", "3", "4", "5", "6", "7", "8", "9", "A", "B", "C", "D", "E", "F">>

HexChars == {HexLower[i] : i \in 1..16} \cup {HexUpper[i] : i \in 1..16}

NibbleChar(n) == HexLower[n + 1]

NibbleValue(c) == CHOOSE n \in 0..15 : HexLower[n + 1] = c \/ HexUpper[n + 1] = c

\* u8.
Bytes == 0..255

\* Hash([u8; 32]), as HashLen bytes.
HashValues == [1..HashLen -> Bytes]

\* Hash::to_hex: hex::encode, the high nibble of each byte first.
HashToHex(h) ==
    [i \in 1..2 * HashLen |->
        IF i % 2 = 1 THEN NibbleChar(h[(i + 1) \div 2] \div 16)
                     ELSE NibbleChar(h[i \div 2] % 16)]

\* Mutant: the two nibbles of a byte decoded in the wrong order.
HashFromHexSwapped(s) ==
    IF Len(s) = 2 * HashLen /\ \A i \in 1..Len(s) : s[i] \in HexChars
    THEN Ok([k \in 1..HashLen |-> NibbleValue(s[2 * k - 1]) + 16 * NibbleValue(s[2 * k])])
    ELSE Err

(* Hash::from_hex: hex::decode_to_slice into 32 bytes fails unless the   *)
(* string has exactly twice as many hex digits as there are bytes.       *)
HashFromHex(s) ==
    IF Len(s) = 2 * HashLen /\ \A i \in 1..Len(s) : s[i] \in HexChars
    THEN Ok([k \in 1..HashLen |-> 16 * NibbleValue(s[2 * k - 1]) + NibbleValue(s[2 * k])])
    ELSE Err

=============================================================================
