--------------------------- MODULE IdentifierProofs ---------------------------
(***************************************************************************)
(* Proofs about the identifier types (Identifiers, IdentifierWire) for     *)
(* every length of a string and of a Hash, and for every byte of a Hash.   *)
(***************************************************************************)
EXTENDS IdentifierWire, SequenceTheorems, TLAPS

USE IdAssumption

-----------------------------------------------------------------------------
(* Facts about the conversions.                                           *)

\* Lower-casing keeps the length and is idempotent.
LEMMA ToLowerProps ==
    ASSUME NEW s \in Seq(Chars)
    PROVE  /\ Len(ToLower(s)) = Len(s)
           /\ ToLower(ToLower(s)) = ToLower(s)
  <1>1. Len(s) \in Nat /\ DOMAIN s = 1..Len(s)
    BY LenProperties
  <1>2. \A c \in Chars : LowerChar(c) \in Chars /\ LowerChar(LowerChar(c)) = LowerChar(c)
    BY DEF Chars, LowerChar
  <1>3. ToLower(s) \in Seq(Chars) /\ Len(ToLower(s)) = Len(s)
    BY <1>1, <1>2, IsASeq DEF ToLower
  <1>4. QED
    BY <1>1, <1>2, <1>3 DEF ToLower

\* Every string the model sends is a sequence over the alphabet.
LEMMA StringsAreSeqs == Strings \subseteq Seq(Chars)
  BY DEF Strings

(* Each nibble is written as one hex digit, and that digit is read back  *)
(* as the same nibble: the sixteen lower-case digits are distinct, and   *)
(* none of them is an upper-case letter.                                 *)
LEMMA NibbleRoundTrip ==
    ASSUME NEW n \in 0..15
    PROVE  NibbleChar(n) \in HexChars /\ NibbleValue(NibbleChar(n)) = n
  <1>1. NibbleChar(n) \in HexChars
    BY DEF NibbleChar, HexChars
  <1>2. \A m \in 0..15 :
           (HexLower[m + 1] = HexLower[n + 1] \/ HexUpper[m + 1] = HexLower[n + 1]) => m = n
    BY DEF HexLower, HexUpper
  <1>3. QED
    BY <1>1, <1>2 DEF NibbleValue, NibbleChar

(* from_hex of to_hex gives the hash back: each byte is written as its    *)
(* high and its low nibble, and read back in the same order.               *)
LEMMA HashRoundTrip ==
    ASSUME NEW h \in HashValues
    PROVE  HashFromHex(HashToHex(h)) = Ok(h)
  <1> DEFINE s == HashToHex(h)
  <1>1. HashLen \in Nat \ {0} /\ h \in [1..HashLen -> Bytes]
    BY DEF HashValues
  <1>2. \A n \in 0..15 : NibbleChar(n) \in HexChars /\ NibbleValue(NibbleChar(n)) = n
    BY NibbleRoundTrip
  <1>3. \A b \in Bytes : /\ b \div 16 \in 0..15 /\ b % 16 \in 0..15
                         /\ 16 * (b \div 16) + (b % 16) = b
    BY DEF Bytes
  <1>4. \A i \in 1..2 * HashLen : s[i] \in HexChars
    <2>1. \A i \in 1..2 * HashLen : (i + 1) \div 2 \in 1..HashLen /\ i \div 2 \in 0..HashLen
      BY <1>1
    <2>2. QED
      BY <1>1, <1>2, <1>3, <2>1 DEF s, HashToHex
  <1>5. s \in Seq(HexChars) /\ Len(s) = 2 * HashLen /\ \A i \in 1..Len(s) : s[i] \in HexChars
    BY <1>1, <1>4, IsASeq DEF s, HashToHex
  <1>6. \A k \in 1..HashLen :
           16 * NibbleValue(s[2 * k - 1]) + NibbleValue(s[2 * k]) = h[k]
    <2> TAKE k \in 1..HashLen
    <2>1. ((2 * k - 1) + 1) \div 2 = k /\ (2 * k) \div 2 = k
          /\ (2 * k - 1) % 2 = 1 /\ (2 * k) % 2 = 0
          /\ 2 * k - 1 \in 1..2 * HashLen /\ 2 * k \in 1..2 * HashLen
      BY <1>1
    <2>2. s[2 * k - 1] = NibbleChar(h[k] \div 16) /\ s[2 * k] = NibbleChar(h[k] % 16)
      BY <2>1 DEF s, HashToHex
    <2>3. QED
      BY <1>1, <1>2, <1>3, <2>2
  <1>7. [k \in 1..HashLen |-> 16 * NibbleValue(s[2 * k - 1]) + NibbleValue(s[2 * k])] = h
    BY <1>1, <1>6
  <1>8. QED
    BY <1>4, <1>5, <1>7 DEF HashFromHex

-----------------------------------------------------------------------------
(* EncodingRoundTrip is not inductive: it speaks of what was received,    *)
(* and what will be received is decided when the key or the hash is       *)
(* written.  The strengthening says that a key or a hash in flight        *)
(* decodes to its value, and that what was received is the decoding of    *)
(* what was written.                                                      *)
Encoded(m) == m # NoMsg /\ m.type \in {"key", "hash"}

InFlightDecodes == Encoded(sent) => Decode(sent) = Ok(sent.val)

ReceivedDecoded == received # NoMsg => sent # NoMsg /\ received = Decode(sent)

EncodingInv == InFlightDecodes /\ ReceivedDecoded

LEMMA EncodingInit == Init => EncodingInv
  BY DEF Init, EncodingInv, InFlightDecodes, ReceivedDecoded, Encoded

\* A message a sender puts on the wire is never the empty slot.
LEMMA SentIsMsg ==
    ASSUME NEW t, NEW v, NEW w, NEW f, t # "none"
    PROVE  [type |-> t, val |-> v, wire |-> w, via |-> f] # NoMsg
  BY DEF NoMsg

LEMMA EncodingStep == EncodingInv /\ [Next]_vars => EncodingInv'
  <1> SUFFICES ASSUME EncodingInv, [Next]_vars PROVE EncodingInv'
    OBVIOUS
  <1>1. CASE SendMarketId \/ SendSubaccountId \/ SendShortSubaccountId \/ SendShortFromSubaccount
    <2>1. sent' # NoMsg /\ sent'.type \in {"market", "subaccount", "short"} /\ received' = NoMsg
      BY <1>1, SentIsMsg
         DEF SendMarketId, SendSubaccountId, SendShortSubaccountId, SendShortFromSubaccount, SendNew
    <2>2. QED
      BY <2>1 DEF EncodingInv, InFlightDecodes, ReceivedDecoded, Encoded
  <1>2. CASE StoreSubaccountKey
    <2>1. PICK s \in Strings :
              /\ sent' = [type |-> "key", val |-> SubaccountIdUnchecked(s),
                          wire |-> SubaccountIdKey(SubaccountIdUnchecked(s)), via |-> "unchecked"]
              /\ received' = NoMsg
      BY <1>2 DEF StoreSubaccountKey
    <2>2. SubaccountIdFromVec(SubaccountIdKey(SubaccountIdUnchecked(s))) = Ok(SubaccountIdUnchecked(s))
      BY ToLowerProps, StringsAreSeqs DEF SubaccountIdFromVec, SubaccountIdKey, SubaccountIdUnchecked
    <2>3. QED
      BY <2>1, <2>2, SentIsMsg DEF EncodingInv, InFlightDecodes, ReceivedDecoded, Decode, Encoded
  <1>3. CASE SendHash
    <2>1. PICK h \in HashValues :
              /\ sent' = [type |-> "hash", val |-> h, wire |-> HashToHex(h), via |-> "new"]
              /\ received' = NoMsg
      BY <1>3 DEF SendHash
    <2>2. QED
      BY <2>1, HashRoundTrip, SentIsMsg
         DEF EncodingInv, InFlightDecodes, ReceivedDecoded, Decode, Encoded
  <1>4. CASE Receive
    BY <1>4 DEF Receive, EncodingInv, InFlightDecodes, ReceivedDecoded, Encoded
  <1>5. CASE UNCHANGED vars
    BY <1>5 DEF vars, EncodingInv, InFlightDecodes, ReceivedDecoded, Encoded
  <1>6. QED
    BY <1>1, <1>2, <1>3, <1>4, <1>5 DEF Next

-----------------------------------------------------------------------------
(* For every length of a string and of a Hash, and every value of its    *)
(* bytes: a SubaccountId stored as a key comes back from from_vec        *)
(* unchanged, because to_lowercase is idempotent, and a Hash sent as     *)
(* to_hex comes back from from_hex unchanged, because each byte is read  *)
(* back high nibble first as it was written.                             *)
THEOREM EncodingRoundTripHolds == Spec => []EncodingRoundTrip
  <1>1. EncodingInv => EncodingRoundTrip
    BY DEF EncodingInv, InFlightDecodes, ReceivedDecoded, EncodingRoundTrip, Encoded
  <1>2. QED
    BY <1>1, EncodingInit, EncodingStep, PTL DEF Spec

=============================================================================
