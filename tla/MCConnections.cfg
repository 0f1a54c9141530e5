\* Two connections that claim one id, in one role or another, and an approval that
\* is asked for, resolved, used up, left on a branch or written by a patch.
SPECIFICATION FairSpec
CONSTANTS
    Connections = {c1, c2}
    Actors = {owner}
    Owner = owner
    Offered = {"Controller", "AutomationWorker"}
    Ids = {p}
    None = None
    MaxConnections = 2
    MaxOffset = 5
    Patches <- MCPatches
    MaxNotes = 1
    MaxPatches = 1
    MaxFaults = 1
INVARIANTS
    NoGhost
    OneShot
PROPERTIES
    ShutdownEnds
\* The service really ends.
CHECK_DEADLOCK FALSE
