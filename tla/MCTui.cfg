\* Two sessions of three records, three keys, and channels for two messages.
SPECIFICATION FairSpec
CONSTANTS
    m1 = m1
    m2 = m2
    gateway = gateway
    Empty = Empty
    None = None
    Commands <- TheCommands
    Roster <- TheRoster
    Settings <- TheSettings
    Begins <- TheBegins
    Within <- TheWithin
    Inside = {}
    Texts <- TheTexts
    Initial <- Hello
    Facts <- TheFacts
    Capacity = 2
    Sessions = {1, 2}
    MaxRecords = 3
    MaxKeys = 3
    MaxSteps = 1
    MaxPolls = 1
    MaxDeaths = 1
\* The interface really ends.
CHECK_DEADLOCK FALSE
INVARIANTS
    ShownIsTrue
    ViewFollows
    OneAtATime
PROPERTIES
    ComesToRest
