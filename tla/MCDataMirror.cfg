SPECIFICATION FairSpec
CONSTANTS
    Dates <- TheDates
    WindowStart = 1
    RetainFrom = 1
    MaxEdits = 2
    MaxFaults = 1
    Readers = {r1}
    Importers <- BothKinds
    Signatures <- FewSignatures
    Nothing = Nothing
INVARIANT MemoNeverStale
PROPERTIES RowsMoveForward WindowCatchesUp
