SPECIFICATION FairSpec
CONSTANTS
    a = a  b = b
    Callers = {a, b}
    Classes = 2
    None = None
    Old = Old
INVARIANTS TypeOK OwnRows WayCleared NothingLeftBehind
PROPERTIES EveryReportEnds
