\* Small buffers, at most two of them written in one go.
SPECIFICATION FairSpec
CONSTANTS
    SmallSize = 16
    NumericSize = 5
    DoubleSize = 3
    TextLengths = {1, 4, 7}
    Magnitudes = {0, 19}
    DoubleLengths = {2, 4}
    MaxItems = 2
    BufferSize = 20
    Lengths = {8, 12}
    MaxBuffers = 2
    MaxLines = 4
    RollSize = 17
    MaxSeconds = 2
    MaxErrors = 1
INVARIANTS TypeOK FilesHoldWholeLines VectorHoldsNeeded LinesInTheLog
PROPERTIES JournalSpec EverythingIsWritten StopEnds
\* After stop() and the last append nothing happens.
CHECK_DEADLOCK FALSE
