SPECIFICATION MCSpec
CONSTANTS
    c1 = c1  c2 = c2  c3 = c3  f1 = f1  f2 = f2  f3 = f3
    Rows = {1, 2, 3, 4, 5}
    Ids = {1, 2, 3, 4, 5}
    PageSize = 2
    MaxDisturbances = 2
    bulkChunk = 2
    Components = {c1, c2, c3}
    Folders = {f1, f2, f3}
    Comparisons <- SomeComparisons
    MaxDepth = 3
    Expressions <- SomeExpressions
    folderBatchSize = 2
    FolderLists <- SomeFolderLists
    PageRows = 1
    MaxEdits = 2
INVARIANTS TypeOK CompleteOrFail EveryIdAccountedFor StayersListedOnce MeaningKept
PROPERTIES QueryEnds
