--------------------------- MODULE MCTftpTransfer ---------------------------
(***************************************************************************)
(* Instances of TftpTransfer for TLC.  The files on the servers are given *)
(* here as functions from server to size; the other constants in each     *)
(* .cfg.                                                                   *)
(***************************************************************************)
EXTENDS TftpTransfer

\* Every server holds the same file of 3 bytes.
SameFile3 == [s \in Servers |-> 3]

\* Every server holds the same file of 4 bytes.
SameFile4 == [s \in Servers |-> 4]

\* The file is on the first server only, 4 bytes long.
SecondLacksFile == [s \in Servers |-> IF s = 1 THEN 4 ELSE NoFile]

\* server-info.txt lists a server without the file first, then one with a
\* 4-byte file.
FirstLacksFile == [s \in Servers |-> IF s = 1 THEN NoFile ELSE 4]
-----------------------------------------------------------------------------
(* The planner main() runs once its CHECK reply is in (ChunkPlan!Plan),   *)
(* over every small input: every file size in 0..PlanMaxSize, every       *)
(* num_connections in -2..PlanMaxConnections (negative and zero included: *)
(* atoi accepts both) and 1..3 servers.  Plan is a pure operator, so the  *)
(* claims are checked once, in the state where main() starts.             *)

PlanMaxSize == 12
PlanMaxConnections == 14
PlanInputs == (0..PlanMaxSize) \X (-2..PlanMaxConnections) \X (1..3)

\* Whenever the client spawns its threads, their chunks cover the whole
\* file exactly once, none is empty, and there is one thread per
\* requested connection after clamping to the file size (the last chunk
\* absorbs the remainder of the integer division).
PlanIsPartition ==
    mainPc = "Check" =>
        \A in \in PlanInputs :
            LET p == Plan(in[1], in[2], in[3]) IN
            p.outcome = "Planned" =>
                /\ IsPartition(p.tasks, in[1])
                /\ in[2] >= 1 => Len(p.tasks) = ExpectedThreads(in[1], in[2])

\* A non-empty file and at least one connection always reach the spawn
\* loop: the validation in the loop never rejects a chunk the arithmetic
\* above it produced.
PlanAcceptsValidInput ==
    mainPc = "Check" =>
        \A in \in PlanInputs :
            (in[1] >= 1 /\ in[2] >= 1) => Plan(in[1], in[2], in[3]).outcome = "Planned"
=============================================================================
