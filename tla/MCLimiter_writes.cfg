SPECIFICATION FairSpec
CONSTANTS
    r1 = r1  r2 = r2  r3 = r3  w1 = w1  w2 = w2
    slow = slow  fast = fast
    Calls = {r1, w1, w2}
    Writes = {w1, w2}
    Clients = {slow, fast}
    Rate <- MCRate
    ReadConcurrency <- MCReads
    DefaultInterval = 2
    DefaultReads = 1
    Horizon = 3
INVARIANTS SlotsCounted
PROPERTIES EveryCallSettles
