\* Buffers that overflow in the third, the sixth or (both sensors in a frame)
\* the second frame, at different places of it, under each of the readers.
SPECIFICATION Spec
CONSTANTS
    Kinds = {"acc", "gyr", "sync"}
    BufSizes = {16, 32}
    Positions = {0, 1, 2, 3, 4, 5, 6, 7}
    EarlyFrames = 1
    MaxFrames = 7
INVARIANTS FramesKept TornHasNoSeconds RemapIsRotation
CHECK_DEADLOCK FALSE
