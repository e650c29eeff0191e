\* One server holding the 3-byte file, three threads of one byte each, a
\* listen backlog of one connection (listen(5) holds six on Linux; this
\* is the same case with more threads than it holds).  Connects that find
\* the backlog full time out and are retried as in the code.
CONSTANTS
    SizeMod = 1073741824
    NumServers = 1
    FileSize <- SameFile3
    NoFile = NoFile
    NumConnections = 3
    Buf = 1
    ErrLen = 1
    Backlog = 1
    ConnectRetries = 3
    GarbageSizes = {0}
    Zero = Zero
    Junk = Junk

SPECIFICATION Spec

PROPERTY ImplementsChunkedDownload

\* The client ends after writing output.dat while the server blocks in
\* accept.
CHECK_DEADLOCK FALSE
