\* Three records and three faults: a torn append, its repair, a second crash in
\* the middle of that repair and a third behind it; or a failed read, and power
\* lost in the middle of the repair.  No symmetry: one property is liveness.
SPECIFICATION FairSpec
CONSTANTS
    Elements = {e1, e2}
    NoElement = NoElement
    Branches = {b1}
    Main = Main
    NoPending = NoPending
    MaxOffset = 3
    MaxAcked = 3
    MaxFaults = 3
\* A session whose creation was cut short can never be opened: it stops.
CHECK_DEADLOCK FALSE
INVARIANTS
    AckedDurable
    SnapshotIsReplay
PROPERTIES
    ImplementsLog
    Recovers
