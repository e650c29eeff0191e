---------------------------- MODULE MCIrcServer ----------------------------
(***************************************************************************)
(* Instances of IrcServer for TLC: sessions are 1..N, listening ports are *)
(* distinct positive numbers, and ids are short strings.                  *)
(***************************************************************************)
EXTENDS IrcServer

\* Ports bind() could hand out, one per session.
Ports == [s \in Sessions |-> 5000 + s]

\* Every session gives the same id "a".
OneId == [s \in Sessions |-> "a"]

\* Every session has an id of its own.
OwnIds == [s \in Sessions |-> CASE s = 1 -> "a" [] s = 2 -> "b" [] OTHER -> "c"]
\* What the uninitialised target_index may hold: -1 is the value a
\* not-found /connect leaves in a stack slot the compiler may share with
\* it, 0 and 1 are indices of the list.
Garbage == {-1, 0, 1}
=============================================================================
