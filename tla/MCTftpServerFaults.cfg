\* Two servers: the first (asked for the size) lacks the file, so
\* file_size is whatever sscanf left in it (0, 4 or 5 here); the second
\* has the 4-byte file.  Four threads: the first and third get "File not
\* found" from server 1, the second and fourth share server 2.  With size
\* 4 the fourth chunk ends exactly at server 2's end of file; with size 5
\* it lies past it.  Each ack_queue may start full of stale ACKs of
\* earlier clients (MAX_QUEUE_SIZE is 5 in the code; 2 here gives the same
\* full and not-full cases), and one datagram may be duplicated (a
\* duplicated GET starts a second handler).
CONSTANTS
    SizeMod = 1073741824
    NumServers = 2
    FileSize <- FirstLacksFile
    NoFile = NoFile
    NumConnections = 4
    PayloadMax = 1
    ErrPayload = 1
    MaxRetries = 1
    MaxQueue = 2
    InitialStale = 2
    GarbageSizes = {0, 4, 5}
    MaxLoss = 0
    MaxDup = 1
    Zero = Zero
    Junk = Junk

SPECIFICATION Spec

INVARIANT ServerSurvivesConsistentClient

\* main() exits on a zero size; a dead server, a dropped ACK or an error
\* reply leaves handlers and threads with nothing to do: the code stops.
CHECK_DEADLOCK FALSE
