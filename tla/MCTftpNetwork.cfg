\* Two servers with the same file, three threads, queues with nothing
\* stale, and a network that may lose up to two datagrams of any kind.
\* A 4-byte file in 1-byte datagrams gives chunks of 1, 1 and 2
\* datagrams; the first and third threads share server 1, where their
\* ACKs, with colliding sequence numbers, meet in one ack_queue, and the
\* third chunk ends exactly at the end of the file.  The liveness properties are about the behaviours in which
\* nothing is lost.
CONSTANTS
    SizeMod = 1073741824
    NumServers = 2
    FileSize <- SameFile4
    NoFile = NoFile
    NumConnections = 3
    PayloadMax = 1
    ErrPayload = 1
    MaxRetries = 1
    MaxQueue = 5
    InitialStale = 0
    GarbageSizes = {0}
    MaxLoss = 2
    MaxDup = 0
    Zero = Zero
    Junk = Junk

SPECIFICATION Spec

PROPERTY ImplementsChunkedDownload
INVARIANT ServerNeverAheadOfClient
INVARIANT PlanIsPartition
INVARIANT PlanAcceptsValidInput
PROPERTY DownloadCompletes
PROPERTY HandlersFinish

\* The client exits after writing output.dat while the server idles in
\* recvfrom; after a loss the code hangs in recvfrom or
\* pthread_cond_wait.
CHECK_DEADLOCK FALSE
