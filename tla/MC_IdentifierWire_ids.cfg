CONSTANTS
    HexIdLen <- MC_HexIdLen
    MaxStrLen <- MC_MaxStrLen
    HashLen <- MC_HashLen
    Bytes <- MC_Bytes
SPECIFICATION Spec
INVARIANTS
    IdRoundTrip
CHECK_DEADLOCK FALSE
