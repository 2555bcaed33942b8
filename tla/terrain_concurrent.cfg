CONSTANTS
    Proc = {a, b}
    Content <- Tiles
    Archive <- NewTiles
    ZeroVoid <- OldTiles
    Pin <- PinZ
    Tag <- Converters
    Faults <- AnyFault
    Retries = 2
    NoFile = NoFile
    NoSidecar = NoSidecar
    NoPin = NoPin
    Z = Z
    N = N
    Tile = {t1, t2, t3}
    MaxLength = 4
    Unbound = Unbound
SPECIFICATION TerrainSpec
INVARIANTS
    TerrainTypeOK
    NoZeroVoidTile
    NoCoverageWasAnswered
    TileIsTrusted
    PartitionedUnlessStrict
    EveryTileReported
PROPERTIES MarkerNeverHidesTile TileCallEnds
