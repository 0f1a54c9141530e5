\* One reply of any of the shapes of MCReplies, tried as often as the code tries.
SPECIFICATION Spec
CONSTANTS
    Symbols = {"<", "/", "t", "a", "}"}
    Thoughts = {"r"}
    Open <- MCOpen
    Close <- MCClose
    Action = "a"
    Brace = "}"
    Replies <- MCReplies
    None = None
INVARIANTS
    ToldOnce
    SettledAsTold
    CallsWhole
