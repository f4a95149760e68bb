\* create_page of a page that exists, on a server that enforces If-Match.
SPECIFICATION Spec
CONSTANTS
    Line <- MCLine
    BadText = BadText
    Absent = Absent
    HonorsIfMatch = TRUE
    HonorsIfNoneMatch = TRUE
    PutEtag = "hash"
    GetEtag = "hash"
    Names = {"p", "q"}
    Calls = {c1}
    Requests <- CreateAnywhere
    Oversized <- TooBig
    EditorBodies <- MCEditorBodies
    InitialPages <- MCInitialPages
    MaxSaves = 0
    Faults = FALSE
PROPERTIES
    CreateNeverOverwrites
CHECK_DEADLOCK FALSE
