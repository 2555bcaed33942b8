CONSTANTS
    Proc = {a, b}
    Content <- Issues
    Archive <- Issues
    Pin <- PinP
    Tag <- Ticks
    Faults <- AnyFault
    Retries = 1
    MaxAge = 0
    MaxTime = 1
    NoFile = NoFile
    NoSidecar = NoSidecar
    NoPin = NoPin
    P = P
    Q = Q
SPECIFICATION Spec
SYMMETRY Callers
INVARIANTS SpaceWeatherTypeOK TableIsFreshAlone TableIsPinnedAlone TableIsTrusted
