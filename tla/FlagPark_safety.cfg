\* Two wakers and two clones, three unparks, one spurious return.
SPECIFICATION Spec
CONSTANTS
    p = p
    u1 = u1
    u2 = u2
    Parker = p
    Unparkers <- TwoUnparkers
    MaxWakers = 2
    MaxClones = 2
    MaxUnparks = 3
    MaxSpurious = 1
SYMMETRY UnparkerSymmetry
INVARIANTS
    TypeOK
    CountLaw
    ParkIsEarned
PROPERTY KeepsPermit
CHECK_DEADLOCK FALSE
