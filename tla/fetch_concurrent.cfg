CONSTANTS
    Proc = {a, b}
    Content <- WithUserFile
    Archive <- Issues
    Pin <- PinP
    Tag <- Tags
    InitialData <- AnyFile
    InitialSidecar <- AnySidecar
    Faults <- AnyFault
    Retries = 2
    OnDate = OnDate
    NoFile = NoFile
    NoSidecar = NoSidecar
    NoPin = NoPin
    P = P
    Q = Q
    U = U
SPECIFICATION Spec
SYMMETRY Callers
INVARIANTS TypeOK HandedOutIsTrusted
PROPERTIES
    TrustedStaysTrusted
    DataAfterProvenance
    ReturnedEntryIsVerified
    VerifiedStaysVerified
