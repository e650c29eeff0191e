---------------------------- MODULE TftpTransfer ----------------------------
(***************************************************************************)
(* The chunked file transfer over UDP of src/tftp: one client process     *)
(* (client.c) and NumServers server processes (server.c).                 *)
(*                                                                         *)
(* Client: main() sends "CHECK <file>" to the first server, reads the     *)
(* size from the reply, plans the chunks (ChunkPlan) and spawns one       *)
(* download_chunk thread per chunk.  Each thread owns a socket, sends     *)
(* "GET <file> <offset> <size>" once, then loops: take the global         *)
(* shared_socket_lock, recvfrom with a 5 s timeout, release it; on a      *)
(* datagram send "ACK <seq>" and copy the payload to its region of the    *)
(* shared output buffer; on a timeout count a retry.  main() joins all    *)
(* threads and writes the buffer out.                                      *)
(*                                                                         *)
(* Server: main() is a dispatcher that receives every datagram; an ACK is *)
(* appended to the bounded ack_queue (dropped when full) with a           *)
(* broadcast, anything else is parsed as a request and handed to a new    *)
(* detached handle_request thread.  A GET handler streams the range as    *)
(* [seq | payload] datagrams, waiting on the condition variable after     *)
(* each one until an ACK with its seq from its client is in the queue.    *)
(*                                                                         *)
(* Datagrams travel through net, a bag: any of them may be received in    *)
(* any order, lost (at most MaxLoss times) or duplicated (at most MaxDup  *)
(* times).  File contents are abstracted to byte positions: a DATA        *)
(* datagram carries the file offset of its payload and the client writes  *)
(* those offsets into out, so out[b] = b means byte b is correct.         *)
(***************************************************************************)
EXTENDS Integers, Sequences, SequencesExt, FiniteSets, Bags, BagsExt, ChunkPlan

CONSTANTS
    NumServers,      \* lines of server-info.txt (server_count)
    FileSize,        \* [1..NumServers -> Nat \cup {NoFile}]: the file on each server
    NoFile,          \* model value: fopen fails on that server
    NumConnections,  \* argv[2] of the client
    PayloadMax,      \* BUFFER_SIZE - sizeof(seq_num): payload bytes per DATA datagram
    ErrPayload,      \* strlen("ERROR File not found") - sizeof(seq_num)
    MaxRetries,      \* MAX_RETRIES of client.c
    MaxQueue,        \* MAX_QUEUE_SIZE of server.c
    InitialStale,    \* ACKs of earlier clients a long-running server may still hold
    GarbageSizes,    \* what file_size holds when "OK %zu" does not match the reply
    MaxLoss,         \* bound on lost datagrams
    MaxDup,          \* bound on duplicated datagrams
    Zero, Junk       \* model values: a calloc'ed byte, a byte of an error string

Servers  == 1..NumServers
Main     == 0                  \* the socket main() sends CHECK from
Workers  == 1..NumConnections  \* thread i + 1 of the client and its socket
Old      == -1                 \* the address of an earlier, finished client
Clients  == {Main} \cup Workers
Copies   == 1..(1 + MaxDup)    \* a request datagram delivered more than once
HandlerIds == Clients \X Copies

\* sizeof(seq_num) bytes of "ERROR Fi" read as a size_t: no real sequence number.
GarbageSeq == -1

SizesSeen == ({FileSize[s] : s \in Servers} \ {NoFile}) \cup GarbageSizes
MaxBytes  == CHOOSE m \in SizesSeen : \A x \in SizesSeen : x <= m
Bytes     == 0..(MaxBytes - 1)

ASSUME /\ NumServers >= 1 /\ NumConnections >= 1
       /\ FileSize \in [Servers -> Nat \cup {NoFile}]
       /\ PayloadMax >= 1 /\ ErrPayload >= 1
       /\ MaxQueue >= 1 /\ InitialStale \in 0..MaxQueue
       /\ GarbageSizes \subseteq Nat

Msg == [type : {"CHECK", "GET", "ACK", "OK", "ERROR", "DATA"},
         cli : Clients, srv : Servers, seq : Int, off : Int, len : Int]

VARIABLES
    mainPc,     \* control point of the client's main()
    fileSize,   \* main()'s file_size
    tasks,      \* tasks[] of main(), <<>> until planned
    wpc,        \* control point of each download_chunk thread
    wrem,       \* its bytes_remaining
    wpos,       \* its output_ptr, as an offset into file_data
    wretry,     \* its retry_count
    lock,       \* holder of shared_socket_lock, 0 when free
    out,        \* file_data, the shared output buffer
    net,        \* datagrams in flight, a bag of Msg
    up,         \* the server process is running
    ackq,       \* ack_queue of each server, entries [seq, cli]
    hnd,        \* handle_request threads, by client and copy of the request
    lossLeft, dupLeft

clientVars  == <<mainPc, fileSize, tasks, wpc, wrem, wpos, wretry, lock, out>>
serverVars  == <<up, ackq, hnd>>
vars        == <<clientVars, net, serverVars, lossLeft, dupLeft>>

NoHandler == [pc |-> "None", srv |-> 1, cmd |-> "GET", off |-> 0, len |-> 0,
              seq |-> 0, rem |-> 0, pos |-> 0, sent |-> 0]

Send(m)       == net' = BagAdd(net, m)
Reply(m, r)   == net' = BagAdd(BagRemove(net, m), r)
Datagram(type, cli, srv, seq, off, len) ==
    [type |-> type, cli |-> cli, srv |-> srv, seq |-> seq, off |-> off, len |-> len]

-----------------------------------------------------------------------------
Init ==
    /\ mainPc = "Check"
    /\ fileSize = 0
    /\ tasks = <<>>
    /\ wpc = [w \in Workers |-> "Idle"]
    /\ wrem = [w \in Workers |-> 0]
    /\ wpos = [w \in Workers |-> 0]
    /\ wretry = [w \in Workers |-> 0]
    /\ lock = 0
    /\ out = [b \in Bytes |-> Zero]
    /\ net = EmptyBag
    /\ up = [s \in Servers |-> TRUE]
    /\ ackq \in [Servers -> {[i \in 1..n |-> [seq |-> GarbageSeq, cli |-> Old]] :
                                 n \in 0..InitialStale}]
    /\ hnd = [k \in HandlerIds |-> NoHandler]
    /\ lossLeft = MaxLoss
    /\ dupLeft = MaxDup

-----------------------------------------------------------------------------
(* Client, main(): client.c lines 168-283.                                *)

\* Lines 169-190: send "CHECK <filename>" to servers[0].
MainCheck ==
    /\ mainPc = "Check"
    /\ Send(Datagram("CHECK", Main, 1, 0, 0, 0))
    /\ mainPc' = "AwaitSize"
    /\ UNCHANGED <<fileSize, tasks, wpc, wrem, wpos, wretry, lock, out,
                   serverVars, lossLeft, dupLeft>>

\* The size main() reads from reply m: sscanf("OK %zu") leaves file_size
\* uninitialised when the reply is "ERROR File not found".
ReportedSizes(m) == IF m.type = "OK" THEN {m.len} ELSE GarbageSizes

\* Lines 192-258: the blocking recvfrom (no timeout is set on this socket),
\* the size check, the plan, and the creation of one thread per task.
MainPlan ==
    /\ mainPc = "AwaitSize"
    /\ \E m \in BagToSet(net) :
       \E size \in ReportedSizes(m) :
          /\ m.cli = Main /\ m.type \in {"OK", "ERROR"}
          /\ net' = BagRemove(net, m)
          /\ fileSize' = size
          /\ LET p == Plan(size, NumConnections, NumServers)
                 spawned(w) == p.outcome = "Planned" /\ w \in DOMAIN p.tasks
             IN  /\ tasks' = p.tasks
                 /\ mainPc' = IF p.outcome = "Planned" THEN "Join" ELSE "Exited"
                 /\ wpc' = [w \in Workers |-> IF spawned(w) THEN "Start" ELSE "Idle"]
                 /\ wrem' = [w \in Workers |-> IF spawned(w) THEN p.tasks[w].size ELSE 0]
                 /\ wpos' = [w \in Workers |-> IF spawned(w) THEN p.tasks[w].offset ELSE 0]
    /\ UNCHANGED <<wretry, lock, out, serverVars, lossLeft, dupLeft>>

\* Variant with a plausible bug: the join loop stops one thread short
\* ("i < num_connections - 1").
MainJoinSkipsLast ==
    /\ mainPc = "Join"
    /\ \A w \in DOMAIN tasks : w < Len(tasks) => wpc[w] \in {"Ok", "Failed"}
    /\ mainPc' = "Done"
    /\ UNCHANGED <<fileSize, tasks, wpc, wrem, wpos, wretry, lock, out, net,
                   serverVars, lossLeft, dupLeft>>

\* Lines 260-283: join every thread, then write file_data to output.dat
\* whatever their exit status.
MainJoin ==
    /\ mainPc = "Join"
    /\ \A w \in DOMAIN tasks : wpc[w] \in {"Ok", "Failed"}
    /\ mainPc' = "Done"
    /\ UNCHANGED <<fileSize, tasks, wpc, wrem, wpos, wretry, lock, out, net,
                   serverVars, lossLeft, dupLeft>>

-----------------------------------------------------------------------------
(* Client, download_chunk(w): client.c lines 39-140.                      *)

\* Lines 43-65: open the socket and send the GET request, once.
WorkerStart(w) ==
    /\ wpc[w] = "Start"
    /\ Send(Datagram("GET", w, tasks[w].server, 0, tasks[w].offset, tasks[w].size))
    /\ wpc' = [wpc EXCEPT ![w] = "Lock"]
    /\ UNCHANGED <<mainPc, fileSize, tasks, wrem, wpos, wretry, lock, out,
                   serverVars, lossLeft, dupLeft>>

\* Line 84: pthread_mutex_unlock(&shared_socket_lock) after recvfrom returns,
\* on both a datagram and a timeout.
\* Variant with a plausible bug: the unlock is missing on this path.
KeepLock == lock' = lock
ReleaseLock == lock' = 0

\* Line 74: pthread_mutex_lock(&shared_socket_lock), held across recvfrom.
WorkerLock(w) ==
    /\ wpc[w] = "Lock"
    /\ lock = 0
    /\ lock' = w
    /\ wpc' = [wpc EXCEPT ![w] = "Recv"]
    /\ UNCHANGED <<mainPc, fileSize, tasks, wrem, wpos, wretry, out, net,
                   serverVars, lossLeft, dupLeft>>

\* The payload length and the content of byte j of it, for a datagram
\* received by a thread: an error reply is read as a DATA datagram too.
PayloadLen(m)     == IF m.type = "DATA" THEN m.len ELSE ErrPayload
PayloadByte(m, j) == IF m.type = "DATA" THEN m.off + j ELSE Junk
AckSeq(m)         == IF m.type = "DATA" THEN m.seq ELSE GarbageSeq

\* Lines 83-136 on a datagram: release the lock, send "ACK <seq>" for
\* whatever arrived, then check the payload against bytes_remaining and
\* copy it to output_ptr.  The sequence number is never compared with the
\* one expected.
WorkerReceive(w) ==
    /\ wpc[w] = "Recv"
    /\ \E m \in BagToSet(net) :
          /\ m.cli = w /\ m.type \in {"DATA", "ERROR"}
          /\ Reply(m, Datagram("ACK", w, tasks[w].server, AckSeq(m), 0, 0))
          /\ LET n == PayloadLen(m) IN
             IF n > wrem[w]
             THEN /\ wpc' = [wpc EXCEPT ![w] = "Failed"]
                  /\ UNCHANGED <<wrem, wpos, out>>
             ELSE /\ out' = [b \in Bytes |->
                               IF wpos[w] <= b /\ b < wpos[w] + n
                               THEN PayloadByte(m, b - wpos[w]) ELSE out[b]]
                  /\ wrem' = [wrem EXCEPT ![w] = @ - n]
                  /\ wpos' = [wpos EXCEPT ![w] = @ + n]
                  /\ wpc' = [wpc EXCEPT ![w] = IF wrem[w] - n = 0 THEN "Ok" ELSE "Lock"]
    /\ ReleaseLock
    /\ wretry' = [wretry EXCEPT ![w] = 0]
    /\ UNCHANGED <<mainPc, fileSize, tasks, serverVars, lossLeft, dupLeft>>
\* Variant with a plausible bug: the address is not compared (memcmp dropped).
AckIndexAnyClient(s, seq, c) == SelectInSeq(ackq[s], LAMBDA e : e.seq = seq)

\* Position in server s's ack_queue of the first ACK of sequence number
\* seq from client c, 0 if none: the scan of server.c lines 125-136.
AckIndex(s, seq, c) == SelectInSeq(ackq[s], LAMBDA e : e.seq = seq /\ e.cli = c)

\* Something is on its way to thread w: a reply to it in flight, a request
\* or ACK of it in flight to a running server, or a handler of it on a
\* running server that will send without waiting for the client.  The
\* 5 s timeout is taken to be longer than any round trip, so recvfrom
\* times out only when nothing is on its way (it was lost, dropped from a
\* full queue, or its server is gone).
OnItsWay(w) ==
    \/ \E m \in BagToSet(net) :
          /\ m.cli = w
          /\ m.type \in {"DATA", "ERROR"} \/ up[m.srv]
    \/ \E c \in Copies :
          LET h == hnd[<<w, c>>] IN
          /\ up[h.srv]
          /\ \/ h.pc \in {"Start", "Send"}
             \/ h.pc = "Wait" /\ AckIndex(h.srv, h.seq, w) # 0

\* Lines 83-94 when recvfrom times out: release the lock and count a
\* retry; more than MAX_RETRIES in a row fail the thread.  The GET is
\* never sent again.
WorkerTimeout(w) ==
    /\ wpc[w] = "Recv"
    /\ ~OnItsWay(w)
    /\ ReleaseLock
    /\ wretry' = [wretry EXCEPT ![w] = @ + 1]
    /\ wpc' = [wpc EXCEPT ![w] = IF wretry[w] + 1 > MaxRetries THEN "Failed" ELSE "Lock"]
    /\ UNCHANGED <<mainPc, fileSize, tasks, wrem, wpos, out, net,
                   serverVars, lossLeft, dupLeft>>

-----------------------------------------------------------------------------
(* Server s, main(): server.c lines 189-237.                              *)

\* Line 208: "if (ack_queue_size < MAX_QUEUE_SIZE)".
HasRoom(s) == Len(ackq[s]) < MaxQueue

\* Lines 203-216: an ACK is appended to ack_queue with a broadcast if the
\* queue has room, and silently dropped otherwise.
DispatchAck(s) ==
    /\ up[s]
    /\ \E m \in BagToSet(net) :
          /\ m.srv = s /\ m.type = "ACK"
          /\ net' = BagRemove(net, m)
          /\ ackq' = IF HasRoom(s)
                     THEN [ackq EXCEPT ![s] = Append(@, [seq |-> m.seq, cli |-> m.cli])]
                     ELSE ackq
    /\ UNCHANGED <<clientVars, up, hnd, lossLeft, dupLeft>>

\* Lines 219-236: any other datagram is a request; a new detached thread
\* handles it.  Each delivered copy of a request gets its own thread.
DispatchRequest(s) ==
    /\ up[s]
    /\ \E m \in BagToSet(net) :
          /\ m.srv = s /\ m.type \in {"CHECK", "GET"}
          /\ \E c \in Copies :
                /\ hnd[<<m.cli, c>>].pc = "None"
                /\ \A d \in 1..(c - 1) : hnd[<<m.cli, d>>].pc # "None"
                /\ hnd' = [hnd EXCEPT ![<<m.cli, c>>] =
                             [NoHandler EXCEPT !.pc = "Start", !.srv = s, !.cmd = m.type,
                                               !.off = m.off, !.len = m.len, !.rem = m.len]]
          /\ net' = BagRemove(net, m)
    /\ UNCHANGED <<clientVars, up, ackq, lossLeft, dupLeft>>

-----------------------------------------------------------------------------
(* Server, handle_request(k): server.c lines 38-160.  k = <<client, copy>>. *)

HandlerStep(k, h) == hnd' = [hnd EXCEPT ![k] = h]

\* Lines 49-55 and 73-79: fopen fails, "ERROR File not found" goes back.
HandlerNotFound(k) ==
    LET h == hnd[k] IN
    /\ h.pc = "Start" /\ up[h.srv]
    /\ FileSize[h.srv] = NoFile
    /\ Send(Datagram("ERROR", k[1], h.srv, 0, 0, 0))
    /\ HandlerStep(k, [h EXCEPT !.pc = "Done"])
    /\ UNCHANGED <<clientVars, up, ackq, lossLeft, dupLeft>>

\* Lines 56-68: reply "OK <file_size>".
HandlerCheck(k) ==
    LET h == hnd[k] IN
    /\ h.pc = "Start" /\ up[h.srv] /\ h.cmd = "CHECK"
    /\ FileSize[h.srv] # NoFile
    /\ Send(Datagram("OK", k[1], h.srv, 0, 0, FileSize[h.srv]))
    /\ HandlerStep(k, [h EXCEPT !.pc = "Done"])
    /\ UNCHANGED <<clientVars, up, ackq, lossLeft, dupLeft>>

\* Variant with a plausible bug: "<" for "<=" on the end of the range.
ValidRangeOffByOne(h) ==
    /\ h.off < FileSize[h.srv]
    /\ SizeT(h.off + h.len) < FileSize[h.srv]

\* The negation of the range test of line 84, on size_t values.
ValidRange(h) ==
    /\ h.off < FileSize[h.srv]
    /\ SizeT(h.off + h.len) <= FileSize[h.srv]

\* Lines 84-89: a range outside the file calls exit(EXIT_FAILURE), which
\* ends the whole server process: its dispatcher and every handler.
HandlerBadRange(k) ==
    LET h == hnd[k] IN
    /\ h.pc = "Start" /\ up[h.srv] /\ h.cmd = "GET"
    /\ FileSize[h.srv] # NoFile
    /\ ~ValidRange(h)
    /\ up' = [up EXCEPT ![h.srv] = FALSE]
    /\ UNCHANGED <<clientVars, net, ackq, hnd, lossLeft, dupLeft>>

\* Lines 91-95: seek to the offset, start at seq_num 0.
HandlerOpen(k) ==
    LET h == hnd[k] IN
    /\ h.pc = "Start" /\ up[h.srv] /\ h.cmd = "GET"
    /\ FileSize[h.srv] # NoFile
    /\ ValidRange(h)
    /\ HandlerStep(k, [h EXCEPT !.pc = "Send", !.rem = h.len, !.pos = h.off, !.seq = 0])
    /\ UNCHANGED <<clientVars, net, up, ackq, lossLeft, dupLeft>>

\* Variant with a plausible bug: the file position does not advance, every
\* datagram carries the first bytes of the range again.
HandlerSendNoAdvance(k) ==
    LET h == hnd[k]
        n == IF h.rem > PayloadMax THEN PayloadMax ELSE h.rem
    IN
    /\ h.pc = "Send" /\ up[h.srv]
    /\ Send(Datagram("DATA", k[1], h.srv, h.seq, h.pos, n))
    /\ HandlerStep(k, [h EXCEPT !.pc = "Wait", !.sent = n])
    /\ UNCHANGED <<clientVars, up, ackq, lossLeft, dupLeft>>

\* Lines 96-119: read min(bytes_remaining, PayloadMax) bytes at the file
\* position and send them behind seq_num.  The range was checked against
\* the file, so fread returns them all and the EOF break of lines
\* 102-109 is not taken while the file is unchanged.
HandlerSend(k) ==
    LET h == hnd[k]
        n == IF h.rem > PayloadMax THEN PayloadMax ELSE h.rem
    IN
    /\ h.pc = "Send" /\ up[h.srv]
    /\ Send(Datagram("DATA", k[1], h.srv, h.seq, h.pos, n))
    /\ HandlerStep(k, [h EXCEPT !.pc = "Wait", !.pos = h.pos + n, !.sent = n])
    /\ UNCHANGED <<clientVars, up, ackq, lossLeft, dupLeft>>

\* Variant with a plausible bug: bytes_remaining is not decreased.
AdvanceKeepRemaining(h) ==
    [h EXCEPT !.seq = h.seq + 1, !.pc = IF h.rem > 0 THEN "Send" ELSE "Done"]

\* Lines 149-153: next seq_num, bytes_remaining less the payload, loop
\* while bytes remain.
Advance(h) ==
    [h EXCEPT !.seq = h.seq + 1, !.rem = h.rem - h.sent,
              !.pc = IF h.rem - h.sent > 0 THEN "Send" ELSE "Done"]

\* Lines 121-153: with the lock held, take the first ACK matching seq_num
\* and the client's address out of the queue (pthread_cond_wait until one
\* is there; every append broadcasts), then advance seq_num and
\* bytes_remaining and loop or finish.  The payload_size check of lines
\* 143-147 cannot fire: the payload was at most bytes_remaining.
HandlerAck(k) ==
    LET h == hnd[k]
        i == AckIndex(h.srv, h.seq, k[1])
    IN
    /\ h.pc = "Wait" /\ up[h.srv]
    /\ i # 0
    /\ ackq' = [ackq EXCEPT ![h.srv] = RemoveAt(@, i)]
    /\ HandlerStep(k, Advance(h))
    /\ UNCHANGED <<clientVars, net, up, lossLeft, dupLeft>>

-----------------------------------------------------------------------------
(* The network.                                                            *)

LoseDatagram ==
    /\ lossLeft > 0
    /\ \E m \in BagToSet(net) : net' = BagRemove(net, m)
    /\ lossLeft' = lossLeft - 1
    /\ UNCHANGED <<clientVars, serverVars, dupLeft>>

DuplicateDatagram ==
    /\ dupLeft > 0
    /\ \E m \in BagToSet(net) : net' = BagAdd(net, m)
    /\ dupLeft' = dupLeft - 1
    /\ UNCHANGED <<clientVars, serverVars, lossLeft>>

-----------------------------------------------------------------------------
ClientNext ==
    \/ MainCheck \/ MainPlan \/ MainJoin
    \/ \E w \in Workers : \/ WorkerStart(w) \/ WorkerLock(w)
                          \/ WorkerReceive(w) \/ WorkerTimeout(w)

ServerNext ==
    \/ \E s \in Servers : DispatchAck(s) \/ DispatchRequest(s)
    \/ \E k \in HandlerIds : \/ HandlerNotFound(k) \/ HandlerCheck(k)
                             \/ HandlerBadRange(k) \/ HandlerOpen(k)
                             \/ HandlerSend(k) \/ HandlerAck(k)

Next == ClientNext \/ ServerNext \/ LoseDatagram \/ DuplicateDatagram

\* Every thread of both programs is scheduled (weak fairness on each of its
\* steps) and the dispatcher receives what reaches its socket.  The network's
\* losses and duplications are not fair: they may or may not happen.
Fairness ==
    /\ WF_vars(MainCheck) /\ WF_vars(MainPlan) /\ WF_vars(MainJoin)
    /\ \A w \in Workers : /\ WF_vars(WorkerStart(w)) /\ SF_vars(WorkerLock(w))
                          /\ WF_vars(WorkerReceive(w)) /\ WF_vars(WorkerTimeout(w))
    /\ \A s \in Servers : WF_vars(DispatchAck(s)) /\ WF_vars(DispatchRequest(s))
    /\ \A k \in HandlerIds : /\ WF_vars(HandlerNotFound(k)) /\ WF_vars(HandlerCheck(k))
                             /\ WF_vars(HandlerBadRange(k)) /\ WF_vars(HandlerOpen(k))
                             /\ WF_vars(HandlerSend(k)) /\ WF_vars(HandlerAck(k))

Spec == Init /\ [][Next]_vars /\ Fairness

-----------------------------------------------------------------------------

\* A thread that ends with status 0 has the bytes of its chunk, each from
\* its own position of the file, in its region of file_data: what main()
\* writes to output.dat for that chunk is the file.
RegionIntact ==
    \A w \in DOMAIN tasks :
        wpc[w] = "Ok" =>
            \A b \in tasks[w].offset..(tasks[w].offset + tasks[w].size - 1) : out[b] = b

\* A handler never gets ahead of its client: the bytes a GET handler has
\* seen acknowledged are never more than the bytes its client thread has
\* received.  It fails if an ACK of one client, or an ACK still in the
\* queue from an earlier datagram, releases the wait of a handler that
\* its own client has not acknowledged.
ServerNeverAheadOfClient ==
    \A k \in HandlerIds :
        (k[1] \in Workers /\ hnd[k].pc \in {"Send", "Wait", "Done"} /\ hnd[k].cmd = "GET")
            => hnd[k].len - hnd[k].rem <= tasks[k[1]].size - wrem[k[1]]

\* The network has neither lost nor duplicated a datagram so far.
NetworkClean == lossLeft = MaxLoss /\ dupLeft = MaxDup

\* On a behaviour where the network never loses nor duplicates a datagram,
\* every handle_request thread a server starts eventually returns, as
\* long as its server runs: no handler is left blocked on ack_queue_cond.
HandlersFinish ==
    []NetworkClean =>
        \A k \in HandlerIds :
            hnd[k].pc \in {"Start", "Send", "Wait"} ~> (hnd[k].pc = "Done" \/ ~up[hnd[k].srv])

\* A server process only exits on a GET built from a file size that is
\* not its own: for a client whose plan came from this server's size, the
\* planner's chunks always pass the server's range test (both in size_t).
ServerSurvivesConsistentClient ==
    \A s \in Servers : ~up[s] => fileSize # FileSize[s]

\* On a behaviour where the network never loses nor duplicates a datagram,
\* every thread eventually ends with its whole chunk and main() writes
\* the file.
DownloadCompletes ==
    []NetworkClean => <>(mainPc = "Done" /\ \A w \in DOMAIN tasks : wpc[w] = "Ok")

-----------------------------------------------------------------------------
(* Refinement: the client, seen through main()'s control point, each      *)
(* thread's control point and bytes_remaining, and file_data, behaves as   *)
(* ChunkedDownload for the file on the first server.                       *)

AbstractPhase ==
    CASE mainPc \in {"Check", "AwaitSize"} -> "Check"
      [] mainPc = "Join"                    -> "Fetch"
      [] mainPc = "Done"                    -> "Done"
      [] mainPc = "Exited"                  -> "Exited"

AbstractStatus ==
    [w \in Workers |-> CASE wpc[w] = "Idle"                      -> "Idle"
                         [] wpc[w] \in {"Start", "Lock", "Recv"} -> "Busy"
                         [] wpc[w] = "Ok"                        -> "Ok"
                         [] wpc[w] = "Failed"                    -> "Failed"]

AbstractGot ==
    [w \in Workers |-> IF w \in DOMAIN tasks THEN tasks[w].size - wrem[w] ELSE 0]

Download == INSTANCE ChunkedDownload
                WITH Size <- FileSize[1], phase <- AbstractPhase,
                     status <- AbstractStatus, got <- AbstractGot

\* Every behaviour of the client is one of ChunkedDownload: each thread
\* fills its region from the front with the file's own bytes, ends with
\* status 0 exactly when the chunk is complete, and main() writes
\* output.dat only after joining every thread.  A datagram copied at the
\* wrong offset, a thread that stops short and reports success, or a join
\* that misses a thread all leave this behaviour.
ImplementsChunkedDownload == Download!Spec
=============================================================================
