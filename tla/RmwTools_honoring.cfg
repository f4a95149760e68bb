\* Two calls and an outside writer on a server that enforces If-Match and
\* returns the hash of the body; responses may be lost.
SPECIFICATION Spec
CONSTANTS
    Line <- MCLine
    BadText = BadText
    Absent = Absent
    HonorsIfMatch = TRUE
    HonorsIfNoneMatch = TRUE
    PutEtag = "hash"
    GetEtag = "hash"
    Calls = {c1, c2}
    Requests <- LiveRequests
    EditorPages <- MCEditorPages
    EditorLines <- MCEditorLines
    InitialPage <- MCInitialPage
    BodyLimit = 4
    MaxSaves = 2
    Faults = TRUE
INVARIANTS
    AnswersAccountForWrites
    AutoTokenNeverClobbers
    ConflictsAreCaused
PROPERTIES
    ConflictIsReal
    EditsAreAtomic
CHECK_DEADLOCK FALSE
