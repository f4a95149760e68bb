\* One call of every tool with every kind of argument, against an outside writer.
SPECIFICATION Spec
CONSTANTS
    Line <- MCLine
    BadText = BadText
    Absent = Absent
    HonorsIfMatch = TRUE
    HonorsIfNoneMatch = TRUE
    PutEtag = "hash"
    GetEtag = "hash"
    Calls = {c1}
    Requests <- EveryRequest
    EditorPages <- MCEditorPages
    EditorLines <- MCEditorLines
    InitialPage <- MCInitialPage
    BodyLimit = 4
    MaxSaves = 2
    Faults = TRUE
INVARIANTS
    TypeOK
    AnswersAccountForWrites
    AutoTokenNeverClobbers
PROPERTY
    DryRunForetells
CHECK_DEADLOCK FALSE
