# TLA+ models of network-protocol-cli-tools

This directory holds TLA+ models of the repository's C programs. It also holds
the TLC configurations that check them. The core is the chunked file transfer
over UDP in `src/tftp`: its client splits a file into chunks and downloads them
in parallel threads, and its server answers each request on a thread of its own.
This is the part `spec.md` describes. Every definition is translated from the C
source. `PROJECT.json` maps each one to the lines it models.

## 1. Inventory of the system

| Component | Source | State | Operations | Concurrency / failure |
|---|---|---|---|---|
| UDP chunk planner | `tftp/client.c` `main` 204-249 | `file_size`, `num_connections`, `tasks[]` | clamp, chunk size, per-task offset/size, validation | `size_t`/`int` mixing, division by zero, remainder |
| UDP client main | `tftp/client.c` `main` 142-283 | socket for CHECK, `file_data`, threads | CHECK, blocking reply, plan, spawn, join, write `output.dat` | blocking `recvfrom` with no timeout; writes output whatever the threads returned |
| UDP chunk worker | `tftp/client.c` `download_chunk` 39-140 | `bytes_remaining`, `output_ptr`, `retry_count`, own socket | send GET once; loop: lock, `recvfrom` (5 s), unlock, ACK, check, copy | one global `shared_socket_lock` held across the blocking receive; retries without resending; no sequence check |
| UDP dispatcher + ACK queue | `tftp/server.c` `main` 162-241, globals 15-26 | `ack_queue[5]`, `ack_queue_size`, mutex + condvar | route ACK into the queue (drop when full, broadcast), start a detached thread per request | bounded shared queue; producer is the dispatcher, consumers are all handlers |
| UDP transfer handler | `tftp/server.c` `handle_request` 38-160 | `seq_num`, `bytes_remaining`, file position | CHECK reply, not-found reply, range check (`exit`), send segment, wait for matching ACK | waits on the condvar with no timeout; `exit()` kills the whole server |
| Datagram network | UDP | datagrams in flight | deliver in any order, lose, duplicate | — |
| TCP downloader | `ftp/client.c` `download_chunk` 20-95, `main` 97-210; `ftp/server.c` `handle_client` 10-145, `main` 147-192 | like the UDP one; TCP streams, a listen backlog | CHECK, plan, connect with retries, GET, recv loop, join; accept, dispatch, range check (`exit`), block-wise send | the server handles one connection at a time; a thread that cannot connect exits with status 0 |
| IRC rendezvous server | `irc/server.c` | `clients[]`, `waiting_clients[]` under `client_mutex` | connect, `/list`, `/wait`, `/connect`, `/stop_wait`, `/quit`, disconnect | one thread per client on shared lists |
| IRC chat client | `irc/client.c` | mode (command / wait / chat), listener and peer sockets | commands, accept loop, peer reader thread, SIGINT handler | signal handler on shared globals |
| HTTPS fetch client | `https/client.c` (all of it) | parsed URL, one TLS or plain connection, `SSL_CTX` reference count, `output.dat` | parse URL, resolve and connect, handshake, certificate check, request, read loop with the `-h` scan, exit status | sequential; every library call may fail |

How the UDP parts interact:

1. The client's `main()` sends `CHECK <file>` to the first server. It reads
   `OK <size>` and plans the chunks.
2. It starts one `download_chunk` thread per chunk. Each thread sends
   `GET <file> <offset> <size>` from its own socket to server `i % server_count`.
3. The server's dispatcher receives every datagram. It appends each `ACK <seq>`
   to `ack_queue` and broadcasts on the condition variable. For every other
   datagram it starts a `handle_request` thread.
4. A GET handler sends `[seq | payload]` datagrams one at a time. After each one
   it waits until the queue holds an ACK with that sequence number from that
   client's address, removes it, and sends the next segment.
5. The thread ACKs every datagram it receives and copies the payload into its
   own region of the shared `file_data`. `main()` joins all threads and writes
   `file_data` to `output.dat`.

The hard behaviours:

- datagrams are lost, duplicated and reordered;
- the handlers of different clients share one queue and collide on sequence
  numbers;
- a handler can wait forever, since there is no retransmission and no timeout;
- the queue drops ACKs once it is full;
- the client threads retry on a 5 s timeout but never resend their request;
- a handler's `exit()` ends a server that other clients are using;
- there are `size_t` edge cases in the planner.

What makes each component correct:

- **Planner:** the chunks partition `[0, file_size)` and none is empty. Valid
  input is never rejected.
- **Worker:** exit status 0 means its region holds exactly its bytes of the file.
  With no losses it eventually succeeds.
- **Router (ACK queue):** an ACK releases only the handler of the same client and
  sequence number. The queue never exceeds its capacity.
- **Handler:** it never gets ahead of what its client acknowledged. It eventually
  returns. A consistent client never makes it `exit()`.
- **End to end:** on a good network `output.dat` is the file.

## 2. Plan

Ordered by importance.

1. `ChunkPlan` gives the planner as pure operators. `MCTftpTransfer` checks them
   against a reference partition over all small inputs. (done)
2. `TftpTransfer` covers the whole UDP system: client main, workers, dispatcher,
   ACK queue, handlers and network. It has safety, liveness and violation runs.
   (done)
3. Local failure paths of the worker and client. These are socket/`sendto`
   failures that exit with status 0. The refinement already checks that
   `output.dat` is written only after every thread ended and that an incomplete
   region is reported failed. The CHECK hang under loss is why the liveness
   properties assume `[]NetworkClean`. (partly open: local socket failures)
4. An abstract specification `ChunkedDownload`, and `TftpTransfer` shown to
   refine it through `INSTANCE ... WITH`. (done)
5. Malformed datagrams at the dispatcher: partial `sscanf` matches and `ACK`
   prefixes. (open)
6. `IrcServer`: the client and waiting lists under `client_mutex`, one handler
   thread per client, and the sessions of `irc/client.c` that drive them.
   (done: four findings)
7. `FtpTransfer`: the TCP variant with its one-connection-at-a-time server. It
   reuses `ChunkPlan` and refines `ChunkedDownload`. (done: one finding)
8. The `irc/client.c` chat mode and its peer reader thread. (open)
9. `HttpsFetch`: the HTTP(S) client as a sequential state machine whose
   library calls choose their outcome. (done: one finding)

## 3. Modules

### ChunkPlan (pure operators)

`ClampConnections`, `ChunkSize`, `TaskOf`, `InvalidTask` and `Plan` are
`client.c` lines 204-249, in `size_t` arithmetic. `SizeT(n) = n % SizeMod`
stands for the conversion to `size_t`. `SizeMod` is any modulus above every
size checked (2^30 here, since TLC's integers are 32-bit). It gives the same
comparisons and wrap-around as 2^64 for these values.

`Plan` returns the outcome (`InvalidSize`, `DivByZero`, `InvalidChunk`,
`Planned`) and the tasks. `IsPartition` and `ExpectedThreads` are the reference
definitions from spec section 4.5. `MCTftpTransfer` states `PlanIsPartition`
and `PlanAcceptsValidInput` over every `(file_size, num_connections,
server_count)` in `PlanInputs`. `Plan` is a pure operator, so they are
evaluated once, in the state where `main()` starts (`mainPc = "Check"`), and
checked in the network run.

### TftpTransfer

| Variable | Code |
|---|---|
| `mainPc`, `fileSize`, `tasks` | client `main()` |
| `wpc`, `wrem`, `wpos`, `wretry` | each `download_chunk`'s control point, `bytes_remaining`, `output_ptr`, `retry_count` |
| `lock` | `shared_socket_lock` |
| `out` | `file_data`. Bytes are abstracted to the file offset they came from: `out[b] = b` is a correct byte, `Zero` is untouched `calloc` memory, `Junk` is error text |
| `net` | the datagrams in flight, a bag |
| `up` | each server process is alive |
| `ackq` | each server's `ack_queue` of `[seq, cli]` |
| `hnd` | the `handle_request` threads, indexed by client and by the copy of the request that started them (a duplicated GET starts a second handler) |
| `lossLeft`, `dupLeft` | the network's fault budget |

Actions:

- **Client main:** `MainCheck`, `MainPlan` (the reply, the plan and spawning
  all threads) and `MainJoin`.
- **Each thread:** `WorkerStart` (GET), `WorkerLock` (take the lock before
  `recvfrom`), `WorkerReceive` (unlock, ACK, checks, copy) and `WorkerTimeout`.
- **Dispatcher:** `DispatchAck` and `DispatchRequest`.
- **Handler:** `HandlerNotFound`, `HandlerCheck`, `HandlerBadRange` (the
  `exit()`), `HandlerOpen`, `HandlerSend` and `HandlerAck` (the condvar wait
  and consume).
- **Network:** `LoseDatagram` and `DuplicateDatagram`.

The condvar wait is modelled as `HandlerAck` being enabled exactly when a
matching ACK is in the queue. The lock is held during the scan, and every append
broadcasts, so no wakeup is lost and this is the code's behaviour.

Timeout: `WorkerTimeout` is enabled only when nothing is on its way to the
thread (`OnItsWay`). That means no reply to it is in flight, no request or ACK
of it is in flight to a live server, and no live handler of it is about to send.
So the 5 s timeout is taken to exceed any round trip. A timeout then means a
loss, a dropped ACK or a dead server, never a slow reply. A reply that arrives
late is harmless to this code anyway, because it never resends anything.

Undefined behaviour: when the CHECK reply is `ERROR`, `file_size` is the
uninitialised value. It is a choice from `GarbageSizes`.

Abstraction of sizes: `PayloadMax` (1016 in the code) and `ErrPayload` (12) are
scaled down to 1 together with the file sizes. What matters is their ratio to
the chunk sizes: several segments per chunk, and an error payload equal to a
chunk.

### ChunkedDownload (abstract specification) and its refinement

`ChunkedDownload` states what the UDP client promises, with no datagrams,
sockets, locks or servers. `Start` is `main()` learning the size and planning
with `ChunkPlan`'s `Plan`. `Receive(w, n)` puts the next `n` bytes of download
`w`'s chunk in place, from the front of its region, and ends `Ok` exactly when
the chunk is complete. `Fail(w)` gives up at any moment. `Finish` is `main()`
after every download has ended. Bytes are abstracted to their position, as in
`TftpTransfer`.

`TftpTransfer` ends with the refinement mapping:

- `AbstractPhase` maps `mainPc` (`Check`/`AwaitSize` to `Check`, `Join` to
  `Fetch`);
- `AbstractStatus` maps each thread's control point (`Start`, `Lock`, `Recv`
  to `Busy`);
- `AbstractGot` is `size - bytes_remaining`;
- `tasks`, `out` and the sizes map to themselves.

`ImplementsChunkedDownload == Download!Spec` is checked as a `PROPERTY`. Every
`TftpTransfer` step is a `ChunkedDownload` step or a stutter: a datagram copied
to the wrong offset, a second copy of a segment, a success before the chunk is
complete, or output before every join all break it.

### IrcServer

Models `irc/server.c`, and `irc/client.c` as far as the server sees it. Each
session is one run of the client program, with one `client_handler` thread on
the server.

| Variable | Code |
|---|---|
| `clients`, `clientCount` | `clients[]` (id, socket, port) and `client_count` |
| `waiting`, `waitingCount` | `waiting_clients[]` and `waiting_count` |
| `lock` | `client_mutex`: the session whose handler holds it, or `NoOne` |
| `hpc` | each handler's control point: `Start`, `Id`, `Loop`, `WaitPort` (in the `recv` for the port, holding the mutex), `Closed` (socket closed, entry not yet removed), `Done` |
| `sock`, `openFds` | the descriptor `accept` gave each session (the handler's `client_socket`), and the server's open descriptors |
| `inbox`, `closed` | the TCP stream from client to server, as messages, and whether the client closed it |
| `cmode`, `listening` | the client's mode (`INFO`, `WAIT`) and its listener socket |
| `replies`, `told` | `CONNECT` replies not yet read by the client, and every one sent |
| `typed` | lines typed so far, bounded by `MaxCommands` |

The arrays are indexed `-Drift..Cap-1`. The code never bounds its indices, so a
write at a negative index goes to its own cells, as it goes to the memory in
front of the array in C. `GarbageIndex` holds the values the uninitialised
`target_index` may have.

Actions:

- **Client:** `ClientStart` (connect and send the id), `TypeWait` (`/wait`, then
  the listener's port as a second send), `TypeConnect`, `TypeLine` (`/list`,
  `/stop_wait`, anything else), `Interrupt` (the SIGINT handler in WAIT mode),
  `Quit`, and `PeerConnect` (the reader thread acting on a `CONNECT` reply).
- **Handler:** `Register`/`RegisterTaken`, `CloseSocket` and `Disconnect` (the
  `close` of line 76, then the removal by socket number under the mutex),
  `List`, `BadPrompt`,
  `WaitAlready`, `WaitBegin`/`WaitPort` (the two halves of `/wait`, split at
  the `recv` done under the mutex), `ConnectNotWaiting`/`ConnectFound` and
  `StopWait`.

A critical section that does no I/O under the mutex is one step, taken when the
mutex is free. `accept` returns the lowest free descriptor (`LowestFreeFd`,
from 4: 0-2 are the standard streams, 3 is `server_socket`), so a descriptor
closed by one handler can be handed to a new client before that handler
has removed its entry. `Coalesce` makes one `recv` return `/wait` and the port
together, as TCP may when the client's two `send()`s are close.

Fairness: each handler is strongly fair, because its mutex may be held each
time it is scheduled but is free infinitely often. The reader thread is weakly
fair. Nothing the user types is fair.

### FtpTransfer

Models `ftp/client.c` and `ftp/server.c`: the same chunked download over TCP,
with one server process per entry of `server-info.txt` that serves one
connection at a time.

| Variable | Code |
|---|---|
| `mainPc`, `fileSize`, `tasks`, `out` | client `main()`, as in `TftpTransfer` |
| `wpc`, `wtry`, `wrem`, `wpos` | each `download_chunk`'s control point, `retries`, `bytes_remaining`, `output_ptr` |
| `up` | the server process is alive |
| `backlog` | the connections completed but not yet accepted (`listen(sock, 5)`), bounded by `Backlog` |
| `spc`, `cur`, `spos`, `srem` | the server's control point (`Accept`, `Recv`, `Send`), the connection it serves, the file position and `bytes_remaining` |
| `req`, `cliClosed` | what the client wrote on each connection (`None`, `CHECK`, `GET`) and whether it closed its side |
| `stream`, `srvEnd` | the bytes from server to client not yet read, and how the server's side ended (`Open`, `Fin`, `Reset`) |

Actions:

- **Client main:** `MainCheck`, `MainPlan` (read the reply, plan, spawn) and
  `MainJoin`.
- **Each thread:** `WorkerConnect` (one `connect` attempt, with the code's
  retry test), `WorkerWrite` (the GET; it may fail on a reset connection),
  `WorkerRecv` (one `recv` of any prefix of what has arrived) and `WorkerEof`
  (`recv` returns 0 or -1 before the chunk is complete).
- **Server:** `ServerAccept`, `ServerRecvNothing` (the client closed without a
  request), `ServerNotFound`, `ServerCheck`, `ServerBadRange` (the `exit()`:
  the connection served is closed, the backlog's connections are reset, later
  connects are refused), `ServerOpen` and `ServerSend` (one block of at most
  `BUFFER_SIZE` bytes).

A connect succeeds when the server is alive and its backlog has room;
otherwise it times out. The code's `retries == 0` test after the loop is kept:
after three failures even a successful fourth connect is closed, and the thread
leaves through `pthread_exit(NULL)`, which is exit status 0. `download_chunk`
falls off its end after a complete chunk. On the usual build this returns
`close()`'s 0, and the model takes that value.

`FtpTransfer` refines `ChunkedDownload` through `FtpPhase`, `FtpStatus` and
`FtpGot`, the same mapping as `TftpTransfer`'s.

### HttpsFetch

Models one run of `https/client.c`. `main()`, `fetch_via_https` and
`fetch_via_http` run in sequence, so the model is a state machine over `pc`.
Resolving, `socket`, `connect`, `SSL_connect`, `SSL_write`, `send`, `fopen`
and each read can fail, and each action chooses among its outcomes. Certificates
are a kind: `Trusted` (verifies) or `Untrusted` (fails verification).

| Variable | Code |
|---|---|
| `url`, `headerOnly`, `target` | `argv[1]`, the `-h` flag, what `parse_url` produced |
| `cert`, `pem` | the server's certificate, and `missing-cert.pem` written |
| `ctxRefs` | the `SSL_CTX` reference count: 1 from `SSL_CTX_new`, 1 from `SSL_new` |
| `sent` | whether the request went out, and over what |
| `rest`, `printed`, `written` | the response not yet read, the bytes `putchar`ed, and the bytes written to `output.dat` |
| `ret`, `status` | the callee's return value and `main()`'s exit status |

`parse_url` is an operator over URLs as character sequences, with `atoi` as a
recursive operator over leading digits. `HeaderEndIn` is the `-h` scan of one
buffer: it keeps the code's `i > 3` bound and misses a terminator split across
reads. A function that falls off its end returns a value from
`ReturnRegister`. `validate_certificate` with a trusted certificate, and both
fetch functions after their read loops, do this. Every return value is then
compared with -1, exactly as in the code.

## 4. Runs

| Run | cfg | Expect | Checks | Shows |
|---|---|---|---|---|
| network | `MCTftpNetwork.cfg` | pass | `PlanIsPartition`, `PlanAcceptsValidInput`, `ImplementsChunkedDownload`, `ServerNeverAheadOfClient`, `DownloadCompletes`, `HandlersFinish` | the planner over sizes 0..12, num_connections -2..14 and 1-3 servers partitions the file and never rejects valid input; 2 servers with the file, 3 threads, 4-byte file (chunks of 1, 1, 2 segments), up to 2 losses: the client refines `ChunkedDownload` (losses end in failures or hangs, never a false success), handlers never run ahead of their client, and in every behaviour without loss all threads and handlers finish and `output.dat` is complete (13784 states) |
| server_faults | `MCTftpServerFaults.cfg` | pass | `ServerSurvivesConsistentClient` | first server without the file (garbage sizes 0, 4, 5), two threads sharing the second server's `ack_queue`, queues that may start full of stale ACKs, one duplicate: a server exits only on a GET planned from a size not its own (2.6 M states) |
| foreign_data | `MCTftpForeignData.cfg` | violation | `RegionIntact` | finding 1 |
| queue_full | `MCTftpQueueFull.cfg` | violation | `DownloadCompletes` | finding 2 |
| irc_live | `MCIrcLive.cfg` | pass | `IdsUnique`, `EveryCommandServed` | 2 sessions with the same id, two lines each: `clients[]` never holds an id twice, and every line sent is eventually served (195466 states) |
| irc_coalesce | `MCIrcCoalesce.cfg` | violation | `EveryCommandServed` | finding 3 |
| irc_stale_port | `MCIrcStalePort.cfg` | violation | `ConnectGivesTargetPort` | finding 4 |
| irc_waiting_list | `MCIrcWaitingList.cfg` | violation | `WaitingListSound` | finding 5 |
| irc_fd_reuse | `MCIrcFdReuse.cfg` | violation | `ConnectedClientsListed` | finding 6 |
| ftp_faults | `MCFtpFaults.cfg` | pass | `ServerSurvivesConsistentClient`, `ClientTerminates`, `ConsistentChunksArrive` | 3 TCP servers (the 8-byte file, a 1-byte copy, no file), 4 threads, backlog 1: a server exits only on a client whose size is not its own, the client always terminates, and every request that reaches a consistent server gets its whole chunk (20682 states) |
| ftp_backlog | `MCFtpBacklog.cfg` | violation | `ImplementsChunkedDownload` | finding 7 |
| https_unverified | `MCHttpsUnverified.cfg` | violation | `RequestOnlyOverVerifiedTls` | finding 8 |

Why the bounds are enough:

- **Two threads on one server** give colliding sequence numbers from two
  addresses in one queue.
- **Three threads** give interleavings of three holders of the lock.
- **Chunks of two segments** exercise the loop of both sides.
- **`MaxRetries` = 1** reaches the retry limit. The code's 5 only lengthens the
  same path.
- **`MaxQueue`** is 5 in the network run, the code's value, and 2 in
  server_faults, which gives the same full and not-full cases with fewer
  states. Stale entries are part of the initial state: a long-running
  server collects them from earlier clients.

`CHECK_DEADLOCK FALSE` is set where the code really stops:

- the client exits after writing `output.dat` while the servers idle in
  `recvfrom`;
- with losses, the code hangs in `recvfrom` or `pthread_cond_wait`.

The network run states termination as liveness instead. Its liveness
properties have the form `[]NetworkClean => ...`: they are claimed only for the
behaviours in which the network loses and duplicates nothing. Under loss the
code really hangs: `main()` waits for the CHECK reply with no timeout, and a
handler waits for an ACK that never comes. The FTP server's `accept` loop never
stops either; `ClientTerminates` states that the client always ends. The IRC server never
stops; its model stops once every session has used its lines and left.

FTP bounds: four threads over three servers put two threads on one server and
one thread each on a server that exits and a server without the file. A backlog
of one gives a full backlog with two threads; `listen(5)` reaches the same case
with more threads per server. `BUFFER_SIZE` is scaled to one byte with the file,
so a chunk takes two `write`s and two `recv`s.

HTTPS bounds: six URLs cover a scheme, none, a port, a port that
contradicts the scheme, a missing path and a ':' after the '/'. A 5-byte
header read in buffers of up to 3 bytes lets a read split CR LF CR LF.

IRC bounds: two sessions with one id race to register, and with two typed
lines each (plus the Ctrl+C a `/wait` allows) reach every handler branch.
Three sessions give a swap on disconnect that moves a third client's entry,
which the descriptor reuse of finding 6 and the stale port of finding 4
need. `Cap` = 3 slots hold every session at once.

Fairness: every thread's steps are weakly fair, since the OS schedules runnable
threads. `WorkerLock` is strongly fair. The mutex is free intermittently, and
the holder always releases it after `recvfrom` returns. A waiting thread is then
woken and eventually gets it. The network's losses and duplications are not
fair: they may never happen.

## 5. Findings

1. **Any datagram is taken as the next segment** (`client.c:97`, `:115`). The
   thread never compares `seq_num` with the one it expects and never looks for
   an ERROR reply. In TLC's trace a server without the file answers "ERROR File
   not found", whose payload is as long as the chunk (12 bytes in the code); the
   thread acknowledges it, copies the text into its region and exits with
   status 0. A duplicated DATA datagram is copied the same way at the next
   offset, in the same configuration. Spec section 8 says a retransmission is
   accepted without duplicating output bytes.
2. **A full ACK queue hangs handlers forever** (`server.c:138`, `:208`). Stale
   ACKs are never removed: duplicates, ACKs of error replies, ACKs that arrive
   after their handler ended. After `MAX_QUEUE_SIZE` of them every new ACK is
   dropped. The handler then waits with no timeout and no retransmission, and
   the client thread fails. The spec says the handler times out and retransmits.

3. **`/wait` can hold `client_mutex` forever** (`irc/server.c:126`). The
   handler `recv`s the port while it holds the mutex. When one `recv` returns
   `/wait` and the port together, the second `recv` waits for whatever the user
   types next. Until then no other client can register, leave, wait, connect or
   stop waiting.
4. **`/connect` hands out the wrong port** (`irc/server.c:131`). `/wait` stores
   the port in `clients[waiting_count]`, the entry at the waiter's place in
   the waiting list, not its own. After a disconnect swaps entries, a requester
   receives another client's port (here -1).
5. **`/stop_wait` corrupts the waiting list** (`irc/server.c:186`).
   `target_index` is never initialised and `waiting_count` is decremented even
   when the caller is not waiting. A `/stop_wait` in INFO mode takes the count to
   -1. The next `/wait` then writes `waiting_clients[-1]` and `clients[-1]`.
6. **A disconnect can remove another client's entry** (`irc/server.c:76`).
   The handler closes its socket before it takes `client_mutex` and then
   removes the first entry whose socket has that number. `accept` hands out
   the lowest free descriptor, so a client that connects in between gets
   the same number. TLC's trace (13 states): a on fd 5 and b on fd 4
   register and close; c is accepted on fd 4 and registers; a's removal
   moves c's entry in front of b's; b's removal deletes c's entry. c is
   still connected but missing from `clients[]`, and b stays listed.
7. **An FTP thread that cannot connect reports success** (`ftp/client.c:44`).
   A thread whose server's backlog is full, or whose server has exited, retries
   three times and then leaves through `pthread_exit(NULL)`, exit status 0.
   The test `retries == 0` after the loop also discards a fourth connect that
   succeeded. `main()` prints no failure and writes `output.dat` with that
   chunk's region still zero. The code's own comment (line 78) marks status 1
   as failure. With one server, three threads and a backlog of one, TLC finds a
   thread that ends `Ok` with nothing received.
8. **The HTTPS client sends its request over an unverified connection**
   (`https/client.c:164`). `validate_certificate` returns `EXIT_FAILURE` (1)
   when the certificate is missing or fails verification. `fetch_via_https`
   tests the result with `== -1`, so the fetch goes on: `SSL_write` sends the
   request, and the response is read and saved. TLC's trace is 6 states:
   parse, connect, handshake with an untrusted certificate, validate, write.
   The same `== -1` defect has two more effects on this model, each shown by
   TLC when its invariant is checked instead. After a failed verification,
   the `SSL_CTX` is freed once too often (`ctxRefs` reaches -1). Every failed
   fetch ends with exit status 0, because `main()` also compares with -1.

A departed client also stays in `waiting_clients` (`irc/server.c:79`):
`Disconnect` never removes it. This is listed as a hazard that
`WaitingListSound` covers. Its trace is longer than finding 5's, which the run
reports first.

## 6. Not modelled (yet)

- **Local socket and thread creation failures in the UDP client** (thread exit
  with status 0 on `socket`/`sendto` failure). The same exit-status defect is
  finding 7 for the TCP client. The CHECK reply awaited with no timeout is
  behaviour the model has: without the `[]NetworkClean` premise, TLC finds
  `main()` stuck after one lost datagram.
- **A `sendto` failure that closes the server's socket.**
- **Malformed datagrams at the UDP dispatcher.**
- **The file changing during a transfer** (the EOF break).
- **The `pthread_join` type mismatch**: stack corruption, which is not
  representable.
- **Parsing `server-info.txt`**: string I/O, including the unbounded `fscanf`
  into `servers[10]`.
- **`output.dat` writing**: modelled by `out` at `MainJoin`.
- **The IRC chat itself**: it goes peer to peer and never reaches the server.
  `PeerConnect` keeps only its effect on modes and listeners.
- **`/quit` on the server** (`irc/server.c:205`): `client.c` handles it locally
  and never sends it.
- **Inside OpenSSL** (handshake, chain building, `missing-cert.pem` loading):
  each call is reduced to its outcomes. Ports above 65535 and the resolver's
  treatment of them are outside the modelled URLs.
- **A passing HTTPS run**: `HttpsFetch` has only its violation run. The state
  space has 538 states, and every action fires in it. The client's other
  correctness properties break on the same `== -1` defect: the context is
  freed once, and a failed fetch exits non-zero.
- **FTP local failures**: `socket()` and `calloc` failures, and a request that
  TCP splits across two `recv`s. Loopback TCP delivers the short GET line
  whole. The server's write to a closed client (`ftp/server.c:119`, where
  `size_t` hides -1) is never reached: a thread closes only before its request
  or after the server's close.
