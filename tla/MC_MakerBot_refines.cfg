CONSTANTS
    ONE <- MC_One
    Leverage = 100
    OrderDensity = 2
    ReservationParam = 50
    SpreadParam = 50
    ActiveCapital = 50
    HeadChgTol = 1
    TailDistFromMid = 5
    MinTailDist = 1
    NoPosition = NoPosition
    Mids <- MC_Mids
    Vols <- MC_Vols
    Positions <- MC_Positions
    Balances <- MC_Balances

SPECIFICATION Spec

PROPERTIES
    AbsSpec
