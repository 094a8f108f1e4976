SPECIFICATION FairSpec
CONSTANTS
    f1 = f1  f2 = f2  f3 = f3
    r1 = r1  r2 = r2  r3 = r3
    i1 = i1  i2 = i2
    Frames = {f1, f2}
    Rates = {r1, r2, r3}
    Policies = {i1, i2}
    NoRates = NoRates
    Invalid = Invalid
    MaxSenders = 2
PROPERTIES WokenAgain
CHECK_DEADLOCK FALSE
