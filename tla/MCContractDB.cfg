SPECIFICATION Spec
CONSTANTS
    c1 = c1
    c2 = c2
    c3 = c3
    f1 = f1
    f2 = f2
    s1 = s1
    s2 = s2
    Cids = {c1, c2, c3}
    Fids = {f1, f2}
    FidOf <- MCFidOf
    NoFid = NoFid
    NoCid = NoCid
    Setters = {s1, s2}
    Purger = purger
    MaxCopies = 2
INVARIANTS TypeOK RefsMatchContracts
PROPERTIES PurgeIffLast ImplementsContractMap
SYMMETRY SetterSymmetry
