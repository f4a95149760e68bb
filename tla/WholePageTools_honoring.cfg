\* Two calls, of every tool with every kind of argument, and an outside writer on
\* a server that enforces preconditions and returns the hash of the body;
\* responses may be lost.
SPECIFICATION FairSpec
CONSTANTS
    Line <- MCLine
    BadText = BadText
    Absent = Absent
    HonorsIfMatch = TRUE
    HonorsIfNoneMatch = TRUE
    PutEtag = "hash"
    GetEtag = "hash"
    Names = {"p", "q"}
    Calls = {c1, c2}
    Requests <- EachRequest
    Oversized <- TooBig
    EditorBodies <- WithHuge
    InitialPages <- MCInitialPages
    MaxSaves = 1
    Faults = TRUE
INVARIANTS
    TypeOK
    AnswersAccountForEffects
PROPERTIES
    EffectsAreAtomic
    EveryCallReturns
    NothingDestroyedUnseen
    WriteConflictIsReal
CHECK_DEADLOCK FALSE
