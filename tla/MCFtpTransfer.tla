--------------------------- MODULE MCFtpTransfer ---------------------------
(***************************************************************************)
(* Instances of FtpTransfer for TLC.  The files on the servers are given  *)
(* here as functions from server to size; the other constants in each     *)
(* .cfg.                                                                   *)
(***************************************************************************)
EXTENDS FtpTransfer

\* Every server holds the same file of 3 bytes.
SameFile3 == [s \in Servers |-> 3]

\* server-info.txt lists the server with the 8-byte file first, then one
\* with a 1-byte copy and one without the file.
Mixed == [s \in Servers |-> CASE s = 1 -> 8 [] s = 2 -> 1 [] OTHER -> NoFile]
=============================================================================
