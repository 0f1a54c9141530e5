\* Two children, a forced tool with one attempt left, one that is pushed, and
\* one fault.
SPECIFICATION Spec
CONSTANTS
    Tools = {"write", "Agent"}
    PlanTools = {"write"}
    Children = {c1, c2}
    None = None
    DirectorStacks <- MCStacks
    Forces <- MCForces
    MaxTurnSteps = 2
    MaxChildren = 2
    Replies <- MCReplies
    MaxTurns = 1
    MaxFaults = 1
    ForkPoints = {"Call"}
\* The process really ends.
CHECK_DEADLOCK FALSE
INVARIANTS
    RunningHasOwner
    ForceBinds
PROPERTIES
    TurnsEnd
    ChildrenReaped
