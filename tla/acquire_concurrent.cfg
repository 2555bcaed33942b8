CONSTANTS
    Proc = {a, b}
    Source = {cddis, local}
    Network = {cddis}
    Content <- Products
    Bad = Bad
    Requests <- Calls
    Retries = 2
    None = None
    NoPin = NoPin
    cddis = cddis
    local = local
    P = P
    Q = Q
SPECIFICATION FairSpec
INVARIANTS AcquireTypeOK NoRedundantDownload
PROPERTIES HandedOutIsPinned IntegrityFailureStops ReportedFailure GoodEntryKept AcquireEnds
