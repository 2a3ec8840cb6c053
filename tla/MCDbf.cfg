SPECIFICATION MCSpec
CONSTANTS
    Slices = {s0, s1}
    Killed = FALSE
    PicWidthInMbs = 3
    PicHeightInMbs = 2
    SliceIds = {0, 1, 2}
    Destinations = {0, 4}
    Rows <- MCRows
    Blocks <- MCBlocks
    Quantizers = {26, 44, 51}
    SliceOffsets = {0, 2}
    SignedChar = {TRUE, FALSE}
    Masks <- MCMasks
    QueueSize = 1
    MaxAsked = 3
INVARIANTS
    PendingIsDone
    HandlerAnswers
    SlicesAreApart
    NoSampleWraps
    ResponsesInOrder
PROPERTIES
    JobReported
    CopyIsRaster
CHECK_DEADLOCK FALSE
