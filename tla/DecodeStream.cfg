CONSTANTS
    Frames <- MCFrames
    Streams <- MCStreams
    Headers <- MCHeaders
    Splits <- MCKindSplits
SPECIFICATION Spec
INVARIANTS
    TypeOK
    FramesHandedOver
    StaysAligned
\* The stream ends, or the decoder has failed.
CHECK_DEADLOCK FALSE
