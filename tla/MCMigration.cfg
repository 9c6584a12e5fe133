SPECIFICATION Spec
CONSTANTS
    f1 = f1
    Fids = {f1}
    NoFid = NoFid
    BlockCount = 2
    ShortLast = {f1}
    MaxDepth = 2
INVARIANTS TypeOK MarkedOnlyAfterTrouble
PROPERTIES LastCopyKept MigratedInTheEnd HybridFinds
CONSTRAINT Checked
