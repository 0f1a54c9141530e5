\* Forks, rewinds, selections, failing turns and restarts, turns that are longer
\* than what a queue has room for, and frames that share it with the patches.
SPECIFICATION FairSpec
CONSTANTS
    owner = owner
    reader = reader
    Actors <- TwoActors
    Roles <- TwoRoles
    Commands = {c}
    Views = {v}
    None = None
    Capacity = 2
    Followers = {reader}
    MaxOffset = 4
    MaxBurst = 2
    MaxFrames = 1
    MaxRewinds = 1
    MaxFailures = 1
    MaxCrashes = 1
\* The journal is full.
CHECK_DEADLOCK FALSE
INVARIANTS
    Contiguous
    QueueDiscipline
    CommandsOnce
PROPERTIES
    CatchesUp
