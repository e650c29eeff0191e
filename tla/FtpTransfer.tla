---------------------------- MODULE FtpTransfer ----------------------------
(***************************************************************************)
(* The chunked download over TCP of src/ftp: client.c and server.c.        *)
(*                                                                         *)
(* The client's main() connects to the first server, sends "CHECK <file>", *)
(* reads "OK <size>", plans the chunks exactly as the UDP client does      *)
(* (ChunkPlan) and starts one download_chunk thread per chunk.  A thread   *)
(* connects to server i % server_count, retrying a failed connect, sends   *)
(* "GET <file> <offset> <size>" and reads its chunk from the stream into   *)
(* its region of file_data.  main() joins every thread and writes          *)
(* output.dat.                                                             *)
(*                                                                         *)
(* A server process handles one connection at a time: accept, one recv of  *)
(* the request, the reply, close.  Connections that arrive meanwhile wait  *)
(* in the listen backlog; when it is full a connect times out.  A GET      *)
(* outside the server's file calls exit(), which resets every connection   *)
(* in its backlog and refuses every later connect.                         *)
(*                                                                         *)
(* Each TCP connection is reliable and ordered: the bytes towards the      *)
(* client are a sequence, read in any split.  File contents are abstracted *)
(* to byte positions, as in TftpTransfer: out[b] = b means byte b of the   *)
(* file is in place.                                                       *)
(***************************************************************************)
EXTENDS Integers, Sequences, FiniteSets, ChunkPlan

CONSTANTS
    NumServers,      \* lines of server-info.txt (server_count)
    FileSize,        \* [1..NumServers -> Nat \cup {NoFile}]: the file on each server
    NoFile,          \* model value: fopen fails on that server
    NumConnections,  \* argv[2] of the client
    Buf,             \* BUFFER_SIZE: bytes per fread/write and per recv
    ErrLen,          \* strlen("ERROR File not found")
    Backlog,         \* connections the listen(sock, 5) backlog holds
    ConnectRetries,  \* "int retries = 3" of download_chunk
    GarbageSizes,    \* what file_size holds when "OK %zu" does not match the reply
    Zero, Junk       \* model values: a calloc'ed byte, a byte of an error string

Servers == 1..NumServers
Main    == 0                  \* main()'s CHECK connection
Workers == 1..NumConnections  \* thread i + 1 and its connection
Clients == {Main} \cup Workers

SizesSeen == ({FileSize[s] : s \in Servers} \ {NoFile}) \cup GarbageSizes
MaxBytes  == CHOOSE m \in SizesSeen : \A x \in SizesSeen : x <= m
Bytes     == 0..(MaxBytes - 1)

ASSUME /\ NumServers >= 1 /\ NumConnections >= 1
       /\ FileSize \in [Servers -> Nat \cup {NoFile}]
       /\ Buf >= 1 /\ ErrLen >= 1 /\ Backlog >= 1 /\ ConnectRetries \in Nat
       /\ GarbageSizes \subseteq Nat

VARIABLES
    mainPc,     \* control point of the client's main()
    fileSize,   \* main()'s file_size
    tasks,      \* tasks[] of main(), <<>> until planned
    wpc,        \* each thread: Idle, Connect, Write, Recv, Ok (exit status 0), Failed (1)
    wtry,       \* its retries
    wrem,       \* its bytes_remaining
    wpos,       \* its output_ptr, as an offset into file_data
    out,        \* file_data
    up,         \* the server process is running
    backlog,    \* each server's established connections not yet accepted
    spc,        \* each server's control point: Accept, Recv, Send
    cur,        \* the connection it is serving
    spos,       \* its file position
    srem,       \* its bytes_remaining
    req,        \* the request each client wrote: None, CHECK or GET
    cliClosed,  \* the client closed its socket
    stream,     \* bytes sent to each client and not yet read
    srvEnd      \* how the server's side ended: Open, Fin or Reset

clientVars == <<mainPc, fileSize, tasks, wpc, wtry, wrem, wpos, out>>
serverVars == <<up, backlog, spc, cur, spos, srem>>
connVars   == <<req, cliClosed, stream, srvEnd>>
vars       == <<clientVars, serverVars, connVars>>

\* The server a client connects to.
ServerOf(c) == IF c = Main THEN 1 ELSE tasks[c].server

\* connect() succeeds when the server runs and its backlog has room;
\* otherwise it is refused (no process) or times out (backlog full).
CanConnect(s) == up[s] /\ Len(backlog[s]) < Backlog

NumMin(a, b) == IF a <= b THEN a ELSE b

Init ==
    /\ mainPc = "Check"
    /\ fileSize = 0
    /\ tasks = <<>>
    /\ wpc = [w \in Workers |-> "Idle"]
    /\ wtry = [w \in Workers |-> 0]
    /\ wrem = [w \in Workers |-> 0]
    /\ wpos = [w \in Workers |-> 0]
    /\ out = [b \in Bytes |-> Zero]
    /\ up = [s \in Servers |-> TRUE]
    /\ backlog = [s \in Servers |-> <<>>]
    /\ spc = [s \in Servers |-> "Accept"]
    /\ cur = [s \in Servers |-> Main]
    /\ spos = [s \in Servers |-> 0]
    /\ srem = [s \in Servers |-> 0]
    /\ req = [c \in Clients |-> "None"]
    /\ cliClosed = [c \in Clients |-> FALSE]
    /\ stream = [c \in Clients |-> <<>>]
    /\ srvEnd = [c \in Clients |-> "Open"]
-----------------------------------------------------------------------------
(* Client, main(): ftp/client.c lines 97-210.                              *)

\* Lines 122-134: connect to servers[0] (the result is not checked) and
\* write "CHECK <filename>".  Nothing else has connected yet, so the
\* connect succeeds.
MainCheck ==
    /\ mainPc = "Check"
    /\ CanConnect(1)
    /\ backlog' = [backlog EXCEPT ![1] = Append(@, Main)]
    /\ req' = [req EXCEPT ![Main] = "CHECK"]
    /\ mainPc' = "AwaitSize"
    /\ UNCHANGED <<fileSize, tasks, wpc, wtry, wrem, wpos, out, up, spc, cur,
                   spos, srem, cliClosed, stream, srvEnd>>

\* The size main() reads from its reply: sscanf("OK %zu") leaves file_size
\* uninitialised when the reply is "ERROR File not found" or empty.
ReportedSizes ==
    IF stream[Main] # <<>> /\ Head(stream[Main]) \in Nat
    THEN {Head(stream[Main])} ELSE GarbageSizes

\* Lines 136-193: one blocking read of the reply, close, the size checks,
\* the plan, and the creation of one thread per task.
MainPlan ==
    /\ mainPc = "AwaitSize"
    /\ stream[Main] # <<>> \/ srvEnd[Main] # "Open"
    /\ \E size \in ReportedSizes :
          LET p == Plan(size, NumConnections, NumServers)
              spawned(w) == p.outcome = "Planned" /\ w \in DOMAIN p.tasks
          IN  /\ fileSize' = size
              /\ tasks' = p.tasks
              /\ mainPc' = IF p.outcome = "Planned" THEN "Join" ELSE "Exited"
              /\ wpc' = [w \in Workers |-> IF spawned(w) THEN "Connect" ELSE "Idle"]
              /\ wtry' = [w \in Workers |-> IF spawned(w) THEN ConnectRetries ELSE 0]
              /\ wrem' = [w \in Workers |-> IF spawned(w) THEN p.tasks[w].size ELSE 0]
              /\ wpos' = [w \in Workers |-> IF spawned(w) THEN p.tasks[w].offset ELSE 0]
    /\ stream' = [stream EXCEPT ![Main] = <<>>]
    /\ cliClosed' = [cliClosed EXCEPT ![Main] = TRUE]
    /\ UNCHANGED <<out, serverVars, req, srvEnd>>

\* Lines 195-209: join every thread, then write file_data to output.dat
\* whatever their exit status.
MainJoin ==
    /\ mainPc = "Join"
    /\ \A w \in DOMAIN tasks : wpc[w] \in {"Ok", "Failed"}
    /\ mainPc' = "Done"
    /\ UNCHANGED <<fileSize, tasks, wpc, wtry, wrem, wpos, out, serverVars,
                   connVars>>

-----------------------------------------------------------------------------
(* Client, download_chunk(w): ftp/client.c lines 20-95.                    *)

\* Lines 37-48: "while (connect(...) == -1 && retries > 0) retries--;"
\* then "if (retries == 0)" give up: close and pthread_exit(NULL), exit
\* status 0.  The test after the loop also gives up on a connect that
\* succeeded at the last attempt, closing the established connection.
WorkerConnect(w) ==
    LET s == ServerOf(w) IN
    /\ wpc[w] = "Connect"
    /\ IF CanConnect(s)
       THEN /\ backlog' = [backlog EXCEPT ![s] = Append(@, w)]
            /\ wpc' = [wpc EXCEPT ![w] = IF wtry[w] = 0 THEN "Ok" ELSE "Write"]
            /\ cliClosed' = [cliClosed EXCEPT ![w] = (wtry[w] = 0)]
            /\ UNCHANGED wtry
       ELSE /\ wtry' = [wtry EXCEPT ![w] = IF @ > 0 THEN @ - 1 ELSE @]
            /\ wpc' = [wpc EXCEPT ![w] = IF wtry[w] > 0 THEN "Connect" ELSE "Ok"]
            /\ UNCHANGED <<backlog, cliClosed>>
    /\ UNCHANGED <<mainPc, fileSize, tasks, wrem, wpos, out, up, spc, cur,
                   spos, srem, req, stream, srvEnd>>

\* Lines 52-60: write the GET request.  On a connection the server reset
\* the write may fail (close, pthread_exit(NULL): status 0) or still be
\* accepted by the kernel.
WorkerWrite(w) ==
    /\ wpc[w] = "Write"
    /\ \E ok \in IF srvEnd[w] = "Reset" THEN BOOLEAN ELSE {TRUE} :
          IF ok
          THEN /\ req' = [req EXCEPT ![w] = "GET"]
               /\ wpc' = [wpc EXCEPT ![w] = "Recv"]
               /\ UNCHANGED cliClosed
          ELSE /\ wpc' = [wpc EXCEPT ![w] = "Ok"]
               /\ cliClosed' = [cliClosed EXCEPT ![w] = TRUE]
               /\ UNCHANGED req
    /\ UNCHANGED <<mainPc, fileSize, tasks, wtry, wrem, wpos, out, serverVars,
                   stream, srvEnd>>

\* Lines 65-91: recv at most min(bytes_remaining, BUFFER_SIZE) bytes
\* straight into output_ptr; any prefix of what is in the stream may come.
\* After the last byte, lines 93-95: close and fall off the end of the
\* function; the value returned is what close() left in the return
\* register, 0.
WorkerRecv(w) ==
    /\ wpc[w] = "Recv"
    /\ stream[w] # <<>>
    /\ \E n \in 1..NumMin(Len(stream[w]), NumMin(wrem[w], Buf)) :
          /\ out' = [b \in Bytes |->
                       IF wpos[w] <= b /\ b < wpos[w] + n
                       THEN stream[w][b - wpos[w] + 1] ELSE out[b]]
          /\ stream' = [stream EXCEPT ![w] = SubSeq(@, n + 1, Len(@))]
          /\ wrem' = [wrem EXCEPT ![w] = @ - n]
          /\ wpos' = [wpos EXCEPT ![w] = @ + n]
          /\ wpc' = [wpc EXCEPT ![w] = IF wrem[w] = n THEN "Ok" ELSE "Recv"]
          /\ cliClosed' = [cliClosed EXCEPT ![w] = (wrem[w] = n)]
    /\ UNCHANGED <<mainPc, fileSize, tasks, wtry, serverVars, req, srvEnd>>

\* Variant with a plausible bug: "if (bytes_received < 0)": only a reset
\* ends the loop, and a closed stream is read again and again.
WorkerEofResetOnly(w) ==
    /\ wpc[w] = "Recv"
    /\ stream[w] = <<>>
    /\ srvEnd[w] = "Reset"
    /\ wpc' = [wpc EXCEPT ![w] = "Failed"]
    /\ cliClosed' = [cliClosed EXCEPT ![w] = TRUE]
    /\ UNCHANGED <<mainPc, fileSize, tasks, wtry, wrem, wpos, out, serverVars,
                   req, stream, srvEnd>>

\* Lines 71-79: recv returns 0 (the server closed) or -1 (reset) before
\* the chunk is complete: close and pthread_exit((void *)1).
WorkerEof(w) ==
    /\ wpc[w] = "Recv"
    /\ stream[w] = <<>>
    /\ srvEnd[w] # "Open"
    /\ wpc' = [wpc EXCEPT ![w] = "Failed"]
    /\ cliClosed' = [cliClosed EXCEPT ![w] = TRUE]
    /\ UNCHANGED <<mainPc, fileSize, tasks, wtry, wrem, wpos, out, serverVars,
                   req, stream, srvEnd>>
-----------------------------------------------------------------------------
(* Server s: ftp/server.c, main() lines 147-192 and handle_client lines    *)
(* 10-145, one connection at a time.                                       *)

\* What the server writes on connection c before closing it: the CHECK
\* reply "OK <size>" is read by main() as a whole; "ERROR File not found"
\* is ErrLen bytes of text.
ErrorText == [i \in 1..ErrLen |-> Junk]

\* The server's side of connection c is closed (FIN) after a last write.
Reply(s, bytes) ==
    LET c == cur[s] IN
    /\ stream' = [stream EXCEPT ![c] = @ \o bytes]
    /\ srvEnd' = [srvEnd EXCEPT ![c] = "Fin"]
    /\ spc' = [spc EXCEPT ![s] = "Accept"]

\* Lines 178-187: accept the oldest connection of the backlog.
ServerAccept(s) ==
    /\ up[s] /\ spc[s] = "Accept"
    /\ backlog[s] # <<>>
    /\ cur' = [cur EXCEPT ![s] = Head(backlog[s])]
    /\ backlog' = [backlog EXCEPT ![s] = Tail(@)]
    /\ spc' = [spc EXCEPT ![s] = "Recv"]
    /\ UNCHANGED <<clientVars, up, spos, srem, connVars>>

\* Lines 16-21: recv returns 0, the client closed without a request: close.
ServerRecvNothing(s) ==
    LET c == cur[s] IN
    /\ up[s] /\ spc[s] = "Recv"
    /\ req[c] = "None" /\ cliClosed[c]
    /\ srvEnd' = [srvEnd EXCEPT ![c] = "Fin"]
    /\ spc' = [spc EXCEPT ![s] = "Accept"]
    /\ UNCHANGED <<clientVars, up, backlog, cur, spos, srem, req, cliClosed, stream>>

\* Lines 27-59: a well-formed CHECK or GET for a file fopen cannot open:
\* "ERROR File not found", close.
ServerNotFound(s) ==
    LET c == cur[s] IN
    /\ up[s] /\ spc[s] = "Recv"
    /\ req[c] # "None"
    /\ FileSize[s] = NoFile
    /\ Reply(s, IF c = Main THEN <<Junk>> ELSE ErrorText)
    /\ UNCHANGED <<clientVars, up, backlog, cur, spos, srem, req, cliClosed>>

\* Lines 63-80, 142-144: CHECK: "OK <size>", close.
ServerCheck(s) ==
    LET c == cur[s] IN
    /\ up[s] /\ spc[s] = "Recv"
    /\ req[c] = "CHECK"
    /\ FileSize[s] # NoFile
    /\ Reply(s, <<FileSize[s]>>)
    /\ UNCHANGED <<clientVars, up, backlog, cur, spos, srem, req, cliClosed>>

\* Variant with a plausible bug: a chunk ending exactly at the end of the
\* file is rejected.
ValidRangeOffByOne(s, t) ==
    /\ t.offset < FileSize[s]
    /\ SizeT(t.offset + t.size) < FileSize[s]

\* The negation of the range test of line 91, on size_t values.
ValidRange(s, t) ==
    /\ t.offset < FileSize[s]
    /\ SizeT(t.offset + t.size) <= FileSize[s]

\* Lines 84-96: a GET outside the file: exit(EXIT_FAILURE).  The process
\* ends: the connection it serves is closed, the connections waiting in
\* its backlog are reset, and later connects are refused.
ServerBadRange(s) ==
    LET c == cur[s] IN
    /\ up[s] /\ spc[s] = "Recv"
    /\ req[c] = "GET" /\ FileSize[s] # NoFile
    /\ ~ValidRange(s, tasks[c])
    /\ up' = [up EXCEPT ![s] = FALSE]
    /\ srvEnd' = [d \in Clients |->
                    CASE d = c                            -> "Fin"
                      [] \E i \in DOMAIN backlog[s] : backlog[s][i] = d -> "Reset"
                      [] OTHER                            -> srvEnd[d]]
    /\ backlog' = [backlog EXCEPT ![s] = <<>>]
    /\ UNCHANGED <<clientVars, spc, cur, spos, srem, req, cliClosed, stream>>

\* Lines 98-101: seek to the offset.
ServerOpen(s) ==
    LET c == cur[s] IN
    /\ up[s] /\ spc[s] = "Recv"
    /\ req[c] = "GET" /\ FileSize[s] # NoFile
    /\ ValidRange(s, tasks[c])
    /\ spos' = [spos EXCEPT ![s] = tasks[c].offset]
    /\ srem' = [srem EXCEPT ![s] = tasks[c].size]
    /\ spc' = [spc EXCEPT ![s] = "Send"]
    /\ UNCHANGED <<clientVars, up, backlog, cur, connVars>>

\* Variant with a plausible bug: "while (bytes_remaining > 1)": the last
\* byte of a chunk is never sent before the close.
ServerSendStopsEarly(s) ==
    LET c == cur[s]
        n == NumMin(srem[s], Buf)
        block == [i \in 1..n |-> spos[s] + i - 1]
        last == srem[s] - n <= 1
    IN  /\ up[s] /\ spc[s] = "Send"
        /\ stream' = [stream EXCEPT ![c] = @ \o block]
        /\ spos' = [spos EXCEPT ![s] = @ + n]
        /\ srem' = [srem EXCEPT ![s] = @ - n]
        /\ srvEnd' = [srvEnd EXCEPT ![c] = IF last THEN "Fin" ELSE @]
        /\ spc' = [spc EXCEPT ![s] = IF last THEN "Accept" ELSE "Send"]
        /\ UNCHANGED <<clientVars, up, backlog, cur, req, cliClosed>>

\* Lines 102-136, 144: fread up to BUFFER_SIZE bytes and write them all
\* (the write loop); after the last block fclose and close.  A thread
\* closes its connection only before its request or after the server's
\* close, so the failing write of lines 119-123 is never reached.
ServerSend(s) ==
    LET c == cur[s]
        n == NumMin(srem[s], Buf)
        block == [i \in 1..n |-> spos[s] + i - 1]
    IN  /\ up[s] /\ spc[s] = "Send"
        /\ stream' = [stream EXCEPT ![c] = @ \o block]
        /\ spos' = [spos EXCEPT ![s] = @ + n]
        /\ srem' = [srem EXCEPT ![s] = @ - n]
        /\ srvEnd' = [srvEnd EXCEPT ![c] = IF srem[s] = n THEN "Fin" ELSE @]
        /\ spc' = [spc EXCEPT ![s] = IF srem[s] = n THEN "Accept" ELSE "Send"]
        /\ UNCHANGED <<clientVars, up, backlog, cur, req, cliClosed>>

-----------------------------------------------------------------------------
Client(w) == WorkerConnect(w) \/ WorkerWrite(w) \/ WorkerRecv(w) \/ WorkerEof(w)

Server(s) ==
    \/ ServerAccept(s) \/ ServerRecvNothing(s) \/ ServerNotFound(s)
    \/ ServerCheck(s) \/ ServerBadRange(s) \/ ServerOpen(s) \/ ServerSend(s)

Next ==
    \/ MainCheck \/ MainPlan \/ MainJoin
    \/ \E w \in Workers : Client(w)
    \/ \E s \in Servers : Server(s)

\* Every thread of the client and every server process is scheduled, and
\* none of them waits on a lock: weak fairness on each.
Fairness ==
    /\ WF_vars(MainCheck \/ MainPlan \/ MainJoin)
    /\ \A w \in Workers : WF_vars(Client(w))
    /\ \A s \in Servers : WF_vars(Server(s))

Spec == Init /\ [][Next]_vars /\ Fairness
-----------------------------------------------------------------------------

\* main() always ends, having written output.dat or exited: no thread
\* waits forever on a server that serves one connection at a time, that
\* died with the thread in its backlog, or that refuses its connects.
ClientTerminates == <>(mainPc \in {"Done", "Exited"})

\* A thread that sent its GET to a server holding the size main() planned
\* from eventually has its whole chunk: such a server never exits, and
\* serves every connection of its backlog in turn to the end of its chunk.
ConsistentChunksArrive ==
    \A w \in Workers :
        (wpc[w] = "Recv" /\ FileSize[ServerOf(w)] = fileSize) ~> (wrem[w] = 0)

\* A server process only exits on a GET built from a file size that is
\* not its own: for a client whose plan came from this server's size, the
\* planner's chunks always pass the server's range test (both in size_t).
ServerSurvivesConsistentClient ==
    \A s \in Servers : ~up[s] => fileSize # FileSize[s]

-----------------------------------------------------------------------------
(* Refinement: main()'s control point, each thread's exit status and      *)
(* bytes_remaining, and file_data, seen as ChunkedDownload for the file   *)
(* on the first server.  pthread_exit(NULL) is exit status 0: Ok.         *)

FtpPhase == CASE mainPc \in {"Check", "AwaitSize"} -> "Check"
              [] mainPc = "Join"                   -> "Fetch"
              [] mainPc = "Done"                   -> "Done"
              [] mainPc = "Exited"                 -> "Exited"

FtpStatus == [w \in Workers |->
                CASE wpc[w] = "Idle"                           -> "Idle"
                  [] wpc[w] \in {"Connect", "Write", "Recv"}   -> "Busy"
                  [] wpc[w] = "Ok"                             -> "Ok"
                  [] wpc[w] = "Failed"                         -> "Failed"]

FtpGot == [w \in Workers |-> IF w \in DOMAIN tasks THEN tasks[w].size - wrem[w] ELSE 0]

Download == INSTANCE ChunkedDownload
               WITH Size <- FileSize[1], phase <- FtpPhase,
                    status <- FtpStatus, got <- FtpGot

\* Every step of the TCP client is a step of ChunkedDownload: a thread
\* ends with exit status 0 only when its whole chunk is in place, with the
\* file's own bytes.
ImplementsChunkedDownload == Download!Spec
=============================================================================
