--------------------------- MODULE ChunkedDownload ---------------------------
(***************************************************************************)
(* What the UDP download client promises, without datagrams, sockets,     *)
(* locks or servers.  main() learns the size, plans the chunks and starts *)
(* one download per chunk.  Each download fills its own region of the     *)
(* output buffer from the front with the file's own bytes, any number of  *)
(* bytes at a time, and ends Ok exactly when its chunk is complete; it    *)
(* may instead fail at any moment.  main() finishes only when every       *)
(* download has ended.  Bytes are abstracted to their position: out[b] = b *)
(* means byte b of the file is in place.                                   *)
(*                                                                         *)
(* TftpTransfer refines this specification (ImplementsChunkedDownload).   *)
(***************************************************************************)
EXTENDS Integers, Sequences, ChunkPlan

CONSTANTS
    Size,            \* the size of the file being fetched
    NumConnections,  \* downloads asked for
    NumServers,      \* servers the chunks are spread over
    Bytes,           \* positions of the output buffer
    Zero             \* a byte nobody wrote

VARIABLES
    phase,    \* main(): Check, Fetch, Done or Exited
    tasks,    \* the planned chunks, <<>> until planned
    status,   \* each download: Idle, Busy, Ok or Failed
    got,      \* bytes each download has in place, from the front of its chunk
    out       \* the output buffer

vars == <<phase, tasks, status, got, out>>

Downloads == 1..NumConnections

Init ==
    /\ phase = "Check"
    /\ tasks = <<>>
    /\ status = [w \in Downloads |-> "Idle"]
    /\ got = [w \in Downloads |-> 0]
    /\ out = [b \in Bytes |-> Zero]

\* The size is known and the chunks are planned; the planner either
\* rejects the input or starts one download per chunk.
Start ==
    LET p == Plan(Size, NumConnections, NumServers) IN
    /\ phase = "Check"
    /\ tasks' = p.tasks
    /\ phase' = IF p.outcome = "Planned" THEN "Fetch" ELSE "Exited"
    /\ status' = [w \in Downloads |->
                    IF p.outcome = "Planned" /\ w \in DOMAIN p.tasks
                    THEN "Busy" ELSE "Idle"]
    /\ UNCHANGED <<got, out>>

\* Download w puts the next n bytes of its chunk in place.
Receive(w, n) ==
    LET from == tasks[w].offset + got[w] IN
    /\ status[w] = "Busy"
    /\ got[w] + n <= tasks[w].size
    /\ out' = [b \in Bytes |-> IF from <= b /\ b < from + n THEN b ELSE out[b]]
    /\ got' = [got EXCEPT ![w] = @ + n]
    /\ status' = [status EXCEPT ![w] = IF got[w] + n = tasks[w].size THEN "Ok" ELSE "Busy"]
    /\ UNCHANGED <<phase, tasks>>

\* Download w gives up, with whatever it has in place.
Fail(w) ==
    /\ status[w] = "Busy"
    /\ status' = [status EXCEPT ![w] = "Failed"]
    /\ UNCHANGED <<phase, tasks, got, out>>

\* Every download has ended: main() writes the buffer and finishes.
Finish ==
    /\ phase = "Fetch"
    /\ \A w \in DOMAIN tasks : status[w] \in {"Ok", "Failed"}
    /\ phase' = "Done"
    /\ UNCHANGED <<tasks, status, got, out>>

Next ==
    \/ Start \/ Finish
    \/ \E w \in Downloads : Fail(w) \/ \E n \in 1..Size : Receive(w, n)

Spec == Init /\ [][Next]_vars
=============================================================================
