\* From every environment, and with keys that come and go.
SPECIFICATION FairSpec
CONSTANTS
    Environments <- MCEnvironments
    Key <- MCKey
    Kid <- MCKid
    JWT <- MCJWT
    Lifespan = 1
    ExpiryChecked = TRUE
    NoCache = NoCache
    Secret = Secret
    Garbage = Garbage
    NoToken = NoToken
    MaxClock = 3
INVARIANTS
    TypeOK
    MisconfigurationExits
    AcceptedTokensAreCurrent
    RefusalsAreEarned
PROPERTY
    EveryVerificationEnds
CHECK_DEADLOCK FALSE
