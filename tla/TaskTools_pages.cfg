\* Every tool on every page of a few lines.
SPECIFICATION Spec
CONSTANTS
    Plain = {"a", "b"}
    Wide = {"e'"}
    Refs = {"R", "S"}
    Pages <- MCPages
    Texts <- MCTexts
    MaxCalls = 1
INVARIANTS
    TypeOK
    ListedTaskIsCheckable
    ListedLineIsPatchable
PROPERTIES
    FlipTouchesOnlyTheMark
    TasksSurviveAdditions
    EditsAreLineEdits
CHECK_DEADLOCK FALSE
