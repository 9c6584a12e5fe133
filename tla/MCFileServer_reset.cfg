SPECIFICATION ResetSpec
CONSTANTS
    c1 = c1
    c2 = c2
    f1 = f1
    Cids = {c1, c2}
    Fids = {f1}
    FidOf <- MCFidOf
    NoFid = NoFid
    NoCid = NoCid
    Handlers = {h1}
    DealStates = {"none", "unverified"}
    MaxMisses = 0
INVARIANT OverdueHasContract
