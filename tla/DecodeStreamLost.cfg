CONSTANTS
    Frames <- MCFrames
    Streams <- MCStreams
    Headers <- MCHeaders
    Splits <- MCAnySplits
SPECIFICATION Spec
INVARIANTS
    StaysAligned
\* The stream ends, or the decoder has failed.
CHECK_DEADLOCK FALSE
