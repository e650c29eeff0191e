----------------------------- MODULE ChunkPlan -----------------------------
(***************************************************************************)
(* How the UDP client (src/tftp/client.c, main) splits a file of          *)
(* file_size bytes into num_connections chunks, one per download thread,  *)
(* and validates them before spawning a thread for each.  These are pure  *)
(* operators: the transfer model (TftpTransfer) uses them for its         *)
(* planning step and MCTftpTransfer checks them over every small input.   *)
(*                                                                         *)
(* file_size and the chunk arithmetic are size_t; num_connections is an   *)
(* int (atoi of argv[2]).  The comparison num_connections > file_size     *)
(* converts the int to size_t, so a negative count compares as a huge     *)
(* number.  SizeMod stands for 2^64: any modulus above every file size    *)
(* checked gives the same comparisons and the same wrap-around.           *)
(***************************************************************************)
EXTENDS Integers, Sequences

CONSTANT SizeMod

ASSUME SizeMod \in Nat \ {0}

\* An int or an unsigned result converted to size_t.
SizeT(n) == n % SizeMod

\* "if (num_connections > file_size) num_connections = file_size;"
ClampConnections(fileSize, n) == IF SizeT(n) > fileSize THEN fileSize ELSE n

\* "chunk_size = file_size / num_connections; if (chunk_size < 1) chunk_size = 1;"
ChunkSize(fileSize, n) ==
    LET c == fileSize \div n IN IF c < 1 THEN 1 ELSE c

\* Variant with a plausible bug: the last thread does not absorb the
\* remainder of the division.
TaskOfNoRemainder(fileSize, n, serverCount, i) ==
    LET c == ChunkSize(fileSize, n)
    IN  [server |-> (i % serverCount) + 1, offset |-> SizeT(i * c), size |-> c]

\* The task of thread i (0-based) among n: its server (index into the
\* server list, round robin), its offset, and its size, where the last
\* thread takes file_size - chunk_size * i in size_t arithmetic.
TaskOf(fileSize, n, serverCount, i) ==
    LET c == ChunkSize(fileSize, n)
    IN  [server |-> (i % serverCount) + 1,
         offset |-> SizeT(i * c),
         size   |-> IF i = n - 1 THEN SizeT(fileSize - c * i) ELSE c]

\* Variant with a plausible bug: ">=" for ">" on the end of the chunk.
InvalidTaskOffByOne(fileSize, t) ==
    t.size = 0 \/ SizeT(t.offset + t.size) >= fileSize

\* "if (tasks[i].size <= 0 || tasks[i].offset + tasks[i].size > file_size)"
\* rejects the task; size is a size_t, so "<= 0" means "= 0".
InvalidTask(fileSize, t) ==
    t.size = 0 \/ SizeT(t.offset + t.size) > fileSize

\* The whole planning step, from the check of the reported size to the
\* loop that validates and spawns each task.  Its outcome is one of
\*   "InvalidSize"  file_size <= 0, the program exits;
\*   "DivByZero"    num_connections = 0: file_size / 0 raises SIGFPE;
\*   "InvalidChunk" a task failed validation, the program exits;
\*   "Planned"      tasks holds the validated tasks, one per thread.
Plan(fileSize, numConnections, serverCount) ==
    LET n     == ClampConnections(fileSize, numConnections)
        tasks == [i \in 1..n |-> TaskOf(fileSize, n, serverCount, i - 1)]
    IN  CASE fileSize = 0 -> [outcome |-> "InvalidSize", tasks |-> <<>>]
          [] n = 0        -> [outcome |-> "DivByZero", tasks |-> <<>>]
          [] \E i \in 1..n : InvalidTask(fileSize, tasks[i])
                          -> [outcome |-> "InvalidChunk", tasks |-> <<>>]
          [] OTHER        -> [outcome |-> "Planned", tasks |-> tasks]

-----------------------------------------------------------------------------
(* Reference definitions: what a correct partition is (spec section 4.5). *)

\* Byte b of the file lies in task t.
Holds(t, b) == t.offset <= b /\ b < t.offset + t.size

\* tasks cover [0, fileSize) exactly once, each with at least one byte.
IsPartition(tasks, fileSize) ==
    /\ \A i \in DOMAIN tasks : tasks[i].size >= 1
    /\ \A b \in 0..(fileSize - 1) :
          \E i \in DOMAIN tasks : /\ Holds(tasks[i], b)
                                  /\ \A j \in DOMAIN tasks \ {i} : ~Holds(tasks[j], b)
    /\ \A i \in DOMAIN tasks : tasks[i].offset + tasks[i].size <= fileSize

\* The number of threads the spec asks for: W clamped to the file size.
ExpectedThreads(fileSize, w) == IF w > fileSize THEN fileSize ELSE w
=============================================================================
