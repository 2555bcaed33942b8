CONSTANTS
    Stream = {s}
    Config <- ExplicitRev2
    Unlimited = Unlimited
    StallTicks = 1
    ExpLimit = 2
SPECIFICATION Spec
PROPERTIES DroppedStreamReconnects
