SPECIFICATION Spec
CONSTANTS
    w1 = w1  w2 = w2  r1 = r1  r2 = r2
    Calls = {w1, w2, r1}
    Writes = {w1, w2}
    Downloads = {r1}
    Body <- NoBodies
    MaxAttempts = 2
    MaxReads = 1
PROPERTIES OpenCircuitIsSilent
