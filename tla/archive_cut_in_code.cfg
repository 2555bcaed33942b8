CONSTANTS
    ByteBits = 4
    InitBits = 5
    MaxMaxBits = 6
    MaxBytes = 6
SPECIFICATION CompressSpec
INVARIANT CutIsNoticed
\* A scan ends with its verdict.
CHECK_DEADLOCK FALSE
