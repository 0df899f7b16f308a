---------------------------- MODULE IdentifierWire ----------------------------
(***************************************************************************)
(* Identifiers crossing a message boundary: a sender builds a MarketId, a  *)
(* SubaccountId or a ShortSubaccountId with one of the constructors of     *)
(* exchange/types.rs and serialises it into a message; the receiver       *)
(* deserialises the field with the type's Deserialize impl.  A constructor *)
(* that returns an error sends nothing.  Each behaviour follows one      *)
(* identifier: it is built and sent once, received once, and the exchange *)
(* is over.                                                               *)
(***************************************************************************)
EXTENDS Identifiers

NoMsg == [type |-> "none"]

VARIABLES
    sent,       \* the identifier in the message: type, value, serialised form, constructor
    received    \* what Deserialize gave the receiver, or NoMsg

vars == <<sent, received>>

Init == sent = NoMsg /\ received = NoMsg

\* Build an identifier with a checked constructor and send it.
SendNew(type, New(_)) ==
    /\ sent = NoMsg
    /\ \E s \in Strings :
          /\ New(s).ok
          /\ sent' = [type |-> type, val |-> New(s).val, wire |-> New(s).val, via |-> "new"]
    /\ received' = NoMsg

SendMarketId == SendNew("market", MarketIdNew)

SendSubaccountId == SendNew("subaccount", SubaccountIdNew)

SendShortSubaccountId == SendNew("short", ShortSubaccountIdNew)

\* Convert a valid SubaccountId into a ShortSubaccountId and send that.
SendShortFromSubaccount ==
    /\ sent = NoMsg
    /\ \E s \in Strings :
          /\ SubaccountIdNew(s).ok
          /\ LET short == ShortFromSubaccount(SubaccountIdNew(s).val)
             IN  sent' = [type |-> "short", val |-> short, wire |-> short, via |-> "from"]
    /\ received' = NoMsg

(* A SubaccountId, checked or not, used as a storage key: the key is     *)
(* written, and read back with from_vec.                                 *)
StoreSubaccountKey ==
    /\ sent = NoMsg
    /\ \E s \in Strings :
          sent' = [type |-> "key", val |-> SubaccountIdUnchecked(s),
                   wire |-> SubaccountIdKey(SubaccountIdUnchecked(s)), via |-> "unchecked"]
    /\ received' = NoMsg

\* A Hash sent as its to_hex string.
SendHash ==
    /\ sent = NoMsg
    /\ \E h \in HashValues :
          sent' = [type |-> "hash", val |-> h, wire |-> HashToHex(h), via |-> "new"]
    /\ received' = NoMsg

\* What the receiver's decoder makes of a message: the type's Deserialize,
\* from_vec for a storage key, from_hex for a hash.
Decode(m) ==
    CASE m.type = "market"     -> MarketIdDeserialize(m.wire)
      [] m.type = "subaccount" -> SubaccountIdDeserialize(m.wire)
      [] m.type = "short"      -> ShortSubaccountIdDeserialize(m.wire)
      [] m.type = "key"        -> SubaccountIdFromVec(m.wire)
      [] m.type = "hash"       -> HashFromHex(m.wire)

\* The receiver decodes the field as the type it is declared with.
Receive ==
    /\ sent # NoMsg /\ received = NoMsg
    /\ received' = Decode(sent)
    /\ UNCHANGED sent

Next ==
    \/ SendMarketId
    \/ SendSubaccountId
    \/ SendShortSubaccountId
    \/ SendShortFromSubaccount
    \/ StoreSubaccountKey
    \/ SendHash
    \/ Receive

Spec == Init /\ [][Next]_vars

-----------------------------------------------------------------------------
(* An identifier built by a checked constructor survives the wire: its  *)
(* Deserialize accepts what was sent and gives back the very same value. *)
(* Both new and Deserialize say an id is "exactly 66 characters", and    *)
(* both count str::len, yet new counts the string it was given and keeps *)
(* its lower case, and Deserialize counts the lower case.                *)
IdRoundTrip ==
    (received # NoMsg /\ sent.via = "new" /\ sent.type \in {"market", "subaccount", "short"})
        => received = Ok(sent.val)

(* A SubaccountId, checked or not, survives storage as a key, and a Hash *)
(* survives to_hex: from_vec and from_hex give back the very same value, *)
(* so the key bytes, the case, the order of the nibbles within a byte   *)
(* and the order of the bytes all agree between writer and reader.      *)
EncodingRoundTrip ==
    (received # NoMsg /\ sent.type \in {"key", "hash"}) => received = Ok(sent.val)

(* From<SubaccountId> yields a ShortSubaccountId that its own Deserialize *)
(* accepts, i.e. "a number between 0-999" as the type's error message     *)
(* says every ShortSubaccountId is.                                       *)
ShortFromSubaccountValid ==
    (received # NoMsg /\ sent.via = "from") => received.ok

=============================================================================
