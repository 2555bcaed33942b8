CONSTANTS
    Proc = {a, b}
    Content <- Issues
    Archive <- Issues
    Pin <- NoPins
    Tag <- Ticks
    Faults <- NoFault
    Retries = 1
    MaxAge = 0
    MaxTime = 1
    NoFile = NoFile
    NoSidecar = NoSidecar
    NoPin = NoPin
    P = P
    Q = Q
SPECIFICATION Spec
SYMMETRY Callers
INVARIANTS TableIsFresh
