\* Two check_task calls that flip one checkbox against each other, on a server
\* that never refuses a write.
SPECIFICATION FairSpec
CONSTANTS
    Line <- MCLine
    BadText = BadText
    Absent = Absent
    HonorsIfMatch = FALSE
    HonorsIfNoneMatch = TRUE
    PutEtag = "hash"
    GetEtag = "hash"
    Calls = {c1, c2}
    Requests <- FlipRequests
    EditorPages <- MCEditorPages
    EditorLines <- NoLines
    InitialPage <- MCInitialPage
    BodyLimit = 3
    MaxSaves = 1
    Faults = FALSE
PROPERTIES
    AckSeesOwnWrite
    EveryCallReturns
CHECK_DEADLOCK FALSE
