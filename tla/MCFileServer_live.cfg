SPECIFICATION FairSpec
CONSTANTS
    c1 = c1
    c2 = c2
    f1 = f1
    Cids = {c1}
    Fids = {f1}
    FidOf <- MCFidOfOne
    NoFid = NoFid
    NoCid = NoCid
    Handlers = {h1}
    DealStates = {"none", "unverified", "verified", "elsewhere"}
    MaxMisses = 1
PROPERTY ExpiredIsRemoved UnverifiedIsProved
