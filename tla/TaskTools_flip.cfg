\* The flip of a task against its description.
SPECIFICATION Spec
CONSTANTS
    Plain = {"a", "b"}
    Wide = {"e'"}
    Refs = {"R", "S"}
    Pages <- WidePages
    Texts <- MCTexts
    MaxCalls = 1
PROPERTY
    FlipTouchesOnlyTheMarkAlways
CHECK_DEADLOCK FALSE
