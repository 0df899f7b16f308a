CONSTANTS
    HexIdLen <- MC_HexIdLen
    MaxStrLen <- MC_MaxStrLen
    HashLen <- MC_HashLen
    Bytes <- MC_Bytes
SPECIFICATION Spec
INVARIANTS
    ShortFromSubaccountValid
CHECK_DEADLOCK FALSE
