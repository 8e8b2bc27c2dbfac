SPECIFICATION FairSpec
CONSTANTS
    w1 = w1  w2 = w2  r1 = r1  r2 = r2
    Calls = {w1, w2}
    Writes = {w1, w2}
    Downloads = {}
    Body <- SeekerAndFile
    MaxAttempts = 2
    MaxReads = 1
INVARIANTS TypeOK SlotsCounted SuccessMeansApplied
PROPERTIES ImplementsCall WritesDoNotInterleave EveryCallReturns
