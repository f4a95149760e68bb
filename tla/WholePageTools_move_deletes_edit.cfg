\* An edit between the GET and the DELETE of a move whose caller gave no token.
SPECIFICATION Spec
CONSTANTS
    Line <- MCLine
    BadText = BadText
    Absent = Absent
    HonorsIfMatch = TRUE
    HonorsIfNoneMatch = TRUE
    PutEtag = "hash"
    GetEtag = "hash"
    Names = {"p", "q"}
    Calls = {c1}
    Requests <- MoveAway
    Oversized <- TooBig
    EditorBodies <- MCEditorBodies
    InitialPages <- MCInitialPages
    MaxSaves = 1
    Faults = FALSE
PROPERTIES
    MoveDeletesWhatItCopied
CHECK_DEADLOCK FALSE
