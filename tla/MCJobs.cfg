\* Two jobs, for one of which there is room; the one that writes is signalled.
SPECIFICATION FairSpec
CONSTANTS
    Jobs <- TwoJobs
    None = None
    MaxConcurrent = 1
    DrainLimit = 1
    EventLimit = 1
    MaxOutput = 1
    Chunks <- FirstWrites
    Reached = {1}
    MaxFaults = 1
\* The host really stops.
CHECK_DEADLOCK FALSE
INVARIANTS
    SlotsKept
PROPERTIES
    TerminalSticks
    Settles
