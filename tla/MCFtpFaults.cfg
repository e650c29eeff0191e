\* Three servers in server-info.txt: the first, asked for the size,
\* holds the 8-byte file; the second a 1-byte copy; the third no file.
\* Four threads of 2-byte chunks, thread i on server i mod 3: threads 1
\* and 4 share server 1 (chunk 4 ends exactly at its end of file), thread
\* 2's chunk lies past server 2's file so server 2 exits, and thread 3
\* gets "File not found".  A listen backlog of one connection lets a
\* thread meet a full backlog and a server that has exited, and lets a
\* connect succeed at the last attempt.  BUFFER_SIZE (1 MB) is scaled to
\* one byte with the file, so a chunk takes two writes; the error text is
\* shorter than a chunk, as "ERROR File not found" is shorter than any
\* chunk of a large file.
CONSTANTS
    SizeMod = 1073741824
    NumServers = 3
    FileSize <- Mixed
    NoFile = NoFile
    NumConnections = 4
    Buf = 1
    ErrLen = 1
    Backlog = 1
    ConnectRetries = 3
    GarbageSizes = {0}
    Zero = Zero
    Junk = Junk

SPECIFICATION Spec

INVARIANT ServerSurvivesConsistentClient
PROPERTY ClientTerminates
PROPERTY ConsistentChunksArrive

\* The client ends after writing output.dat
\* while the servers block in accept: the code stops there.
CHECK_DEADLOCK FALSE
