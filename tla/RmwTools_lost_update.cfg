\* A check_task call acknowledged over an edit that landed between its GET and
\* its PUT.
SPECIFICATION Spec
CONSTANTS
    Line <- MCLine
    BadText = BadText
    Absent = Absent
    HonorsIfMatch = FALSE
    HonorsIfNoneMatch = FALSE
    PutEtag = "size"
    GetEtag = "size"
    Calls = {c1}
    Requests <- CheckRequests
    EditorPages <- NoPages
    EditorLines <- MCEditorLines
    InitialPage <- MCInitialPage
    BodyLimit = 4
    MaxSaves = 1
    Faults = FALSE
INVARIANTS
    AckedNeverClobbered
CHECK_DEADLOCK FALSE
