\* Two writers, overlapping or not; the timer and a run started by hand over two
\* seconds; twice, a ship fails or dies anywhere or two log calls overlap.
CONSTANTS
    Writers = {w1, w2}
    Shippers = {timer, manual}
    OldLines = 0
    MaxLines = 2
    MaxUpsets = 2
    MaxSeconds = 2
    NoFile = NoFile
    Empty = Empty
    Garbled = Garbled
    NoPrev = NoPrev
    NotHashed = NotHashed
SPECIFICATION FairSpec
CHECK_DEADLOCK FALSE
INVARIANTS
    NothingSkipped
    ReplaysInOrder
    ChainIntact
PROPERTIES
    EventuallyShipped
