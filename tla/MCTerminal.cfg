\* Up to four tokens, read two ahead, and a buffer, a history and a paste that
\* they fill.
SPECIFICATION Spec
CONSTANTS
    Tokens <- AllTokens
    Earlier <- TwoEarlier
    Wide = {19990}
    Marks = {769}
    BufferLimit = 4
    HistoryLimit = 2
    PasteLimit = 6
    SequenceLimit = 12
    None = None
    MaxTokens = 4
    MaxAhead = 2
    Widths = {1, 2, 3}
INVARIANTS
    HeardAsTyped
    DraftKept
    CursorShown
