CONSTANTS
    Stream = {s, t}
    Config <- Clients
    Unlimited = Unlimited
    StallTicks = 1
    ExpLimit = 2
SPECIFICATION FairSpec
INVARIANTS NtripTypeOK AttemptsBounded ClosedStreamWindsDown RawStreamOutlivesOutages
PROPERTIES CloseEndsStreams
