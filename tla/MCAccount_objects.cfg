SPECIFICATION AccountSpec
CONSTANTS
    a = a  b = b  g1 = g1  g2 = g2  g3 = g3
    Clients = {a, b}
    Routines = {g1, g2, g3}
    Calls = {g1, g2, g3}
    ClientOf <- Callers
    Configs <- SomeConfigs
    Ordered = {}
    Tries <- Sends
    Entries <- TwoProcesses
    Modelled <- Fields
    Targets <- Meant
    Programs <- SomePrograms
    Home = "home"
INVARIANTS TypeOK BudgetMatchesTarget RecordsAccounted
PROPERTIES EntriesKept AccountWritesInOrder
CHECK_DEADLOCK FALSE
