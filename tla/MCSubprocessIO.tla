---------------------------- MODULE MCSubprocessIO ----------------------------
(***************************************************************************)
(* Model values of SubprocessIO for TLC.                                   *)
(***************************************************************************)
EXTENDS SubprocessIO

Work(o, e, i) == [out |-> o, err |-> e, in |-> i]

\* A child whose output no pipe and no deque can hold, one that fills each of
\* its three pipes, and one that only reads.
SomeWorks == {Work(6, 0, NoInput), Work(2, 2, 2), Work(0, 0, 1)}
===============================================================================
