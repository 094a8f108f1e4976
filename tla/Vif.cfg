SPECIFICATION Spec
CONSTANTS
    s1 = s1  s2 = s2  s3 = s3
    k1 = k1  k2 = k2  k3 = k3
    Stas = {s1, s2}
    LinkIdMax = 2
    Keys = {k1, k2, k3}
    MaxKeyEntries = 2
    MaxEvents = 2
    MaxPm = 3
SYMMETRY Symmetry
INVARIANTS PmOneAtATime NoOrphan LossJustified IndexesOwned
CHECK_DEADLOCK FALSE
