\* A perfect network, but the server's ack_queue may start with up to
\* MAX_QUEUE_SIZE stale ACKs left by earlier clients.
CONSTANTS
    SizeMod = 1073741824
    NumServers = 1
    FileSize <- SameFile3
    NoFile = NoFile
    NumConnections = 2
    PayloadMax = 1
    ErrPayload = 1
    MaxRetries = 1
    MaxQueue = 5
    InitialStale = 5
    GarbageSizes = {0}
    MaxLoss = 0
    MaxDup = 0
    Zero = Zero
    Junk = Junk

SPECIFICATION Spec

PROPERTY DownloadCompletes

CHECK_DEADLOCK FALSE
