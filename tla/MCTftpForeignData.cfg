\* Two servers, the second without the file, and one datagram that may be
\* duplicated on a network that loses none.  The 4-byte file gives each
\* thread a chunk of two 1-byte segments, as long as the payload of
\* "ERROR File not found" (12 bytes in the code, 2 here).
CONSTANTS
    SizeMod = 1073741824
    NumServers = 2
    FileSize <- SecondLacksFile
    NoFile = NoFile
    NumConnections = 2
    PayloadMax = 1
    ErrPayload = 2
    MaxRetries = 1
    MaxQueue = 5
    InitialStale = 0
    GarbageSizes = {0}
    MaxLoss = 0
    MaxDup = 1
    Zero = Zero
    Junk = Junk

SPECIFICATION Spec

INVARIANT RegionIntact

CHECK_DEADLOCK FALSE
