\* Two blocks of up to three lines, which can shrink by three rows, a ring of four
\* rows and the heights below it: at three the bridge of a newer block holds rows.
SPECIFICATION Spec
CONSTANTS
    Ids = {b1, b2}
    x = x
    y = y
    Lines = {x, y}
    Snapshots <- MCSnapshots
    NoBlock = NoBlock
    Blank = Blank
    Hidden = Hidden
    Marker = Marker
    Heights = {0, 1, 2, 3}
    MaxRows = 4
    LiveLimit = 2
    MaxResizes = 1
SYMMETRY IdSymmetry
\* A scheduler whose terminal failed stops.
CHECK_DEADLOCK FALSE
INVARIANTS
    ScrollbackIsLedger
    FrameTells
PROPERTIES
    LedgerGrows
