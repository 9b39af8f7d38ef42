SPECIFICATION ArtifactsSpec
CONSTANTS
    Specs = {"0000", "0001"}
    SeedSpec = "0001"
    Generators = {1, 2}
    BuilderRuns = {1, 2}
    BupSpecs = {"0000"}
    Largest = 7
    TableSize = 2
    Piece = 3
    StorageSize = 6
    EraseSize = 2
    Payloads <- MCPayloads
    NoImage = NoImage
    Erased = "erased"
    Catalogs <- MCCatalogs
    Exchanges = 1
    Publishers = {1, 2}
    Builds = 2
    Block = 64
    WordBytes = 4
    Word = 256
    Sizes <- MCSizes
    ChunkSizes <- MCChunkSizes
INVARIANTS
    PartsInPlace
    RebuildAccepted
    InputsWhole
    ChecksumMeansImage
    CatalogTrue
    SiteRestored
    HashesPaddedFile
PROPERTIES
    SiteNeverLost
    ForeignKept
CHECK_DEADLOCK FALSE
