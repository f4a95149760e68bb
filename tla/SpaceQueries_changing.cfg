\* Every read-only tool on a space that others write meanwhile.
SPECIFICATION FairSpec
CONSTANTS
    Names <- MCNames
    Markdown <- MCMarkdown
    Dir <- MCDir
    Order <- MCOrder
    Resolved <- MCResolved
    NameHits <- MCNameHits
    Content <- MCContent
    Absent = Absent
    InitialSpaces <- MCInitialSpaces
    Queries <- MCQueries
    MaxSaves = 2
    Faults = TRUE
INVARIANTS
    TypeOK
    AnswersWereTrue
    UntouchedPagesAreExact
    AnswersAreBounded
    OnlyNamedPagesFail
PROPERTY
    EveryQueryReturns
CHECK_DEADLOCK FALSE
