CONSTANTS
    Caller = {c1, c2}
    Nobody = Nobody
    Ghost = Ghost
    Key = {"k1", "k2"}
    Value = {"a", "b"}
    t1 = t1
    t2 = t2
    Text = {t1, t2}
    RecordList <- MCRecordList
    CommentList <- MCCommentList
    MaxRecords = 3
    MaxBefore = 3
    Thread = {d1, d2}
    Row = {r1, r2}
    System = {"GPS", "UTC"}
    MaxRows = 3
    ByteBits = 4
    InitBits = 5
    MaxMaxBits = 6
    MaxBytes = 30
SPECIFICATION NativeSpec
SYMMETRY NativeSymmetry
INVARIANTS NativeTypeOK HolderCanPublish OwnershipEndsWithBlock ScanJudgesArchives
PROPERTIES KeepsTheDocument BatchAllOrNothing
\* A scan ends with its verdict.
CHECK_DEADLOCK FALSE
