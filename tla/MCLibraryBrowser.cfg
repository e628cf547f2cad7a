SPECIFICATION Spec
CONSTANTS
    None = None  r1 = r1  r2 = r2  a = a  b = b  upper = upper
    Roots <- MCRoots
    Names <- MCNames
    Present <- MCPresent
    Earlier <- MCEarlier
    NameRank <- MCNameRank
    Paths <- MCPaths
    PathKey <- MCPathKey
    Tags = {t1}
    maxRecentItems = 2
    maxBookmarkItems = 1
    Instruments = {}
    Deep = Deep
    MaxVersion = 2
    MaxTick = 1
    MaxPreviewBatch = 1
    maxRootPartitions = 1
    Sessions <- MCSessions
INVARIANTS OnlyWholeScans PreviewsAreTrue EveryWaitIsServed
