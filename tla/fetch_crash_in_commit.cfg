CONSTANTS
    Proc = {a}
    Content <- Issues
    Archive <- Issues
    Pin <- PinQ
    Tag <- Tags
    InitialData <- CleanFile
    InitialSidecar <- CleanSidecar
    Faults <- OnlyCrash
    Retries = 2
    OnDate = OnDate
    NoFile = NoFile
    NoSidecar = NoSidecar
    NoPin = NoPin
    P = P
    Q = Q
    U = U
SPECIFICATION Spec
SYMMETRY Callers
INVARIANTS CommitsAreAtomic
