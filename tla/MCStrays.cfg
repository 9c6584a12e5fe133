SPECIFICATION Spec
CONSTANTS
    c1 = c1
    f1 = f1
    h1 = h1
    h2 = h2
    Cids = {c1}
    Fids = {f1}
    FidOf <- MCFidOf
    NoFid = NoFid
    NoCid = NoCid
    MaxLeft = 1
    HandIds = {h1, h2}
    Slots <- MCSlots
INVARIANT TypeOK NoPanic RecordedOverWholeFile
CONSTRAINT NotRaced
