----------------------------- MODULE CountedStream ----------------------------
(***************************************************************************)
(* A subprocessio.BufferedGenerator as the code around it sees it: how     *)
(* many chunks are in the pipe and in the deque, whether EOF is set,       *)
(* whether reading is paused, and what its reader is about to do.          *)
(* StreamBuffer is shown to implement it; SubprocessIO has two of it.      *)
(*                                                                         *)
(* The actions leave closed alone, which belongs to the child, and say     *)
(* nothing of it in the next state: Next does.                             *)
(***************************************************************************)
EXTENDS Naturals

CONSTANTS
    ChunkCountMax,   \* the reader pauses when the deque holds more
    LateChunks,      \* chunks it may append beyond that, by timeouts
    Bottomless,      \* the deque drops its oldest chunk
    MaxLen,          \* when it holds this many
    PipeCap          \* chunks the pipe holds

VARIABLES
    pipe, buf,   \* chunks in the pipe and in the deque
    eof,         \* EOF is set, or is about to be by stop()
    paused,      \* keep_reading is cleared
    reader,      \* what the reader thread is about to do
    closed       \* nobody has the writing end of the pipe any more

stream == <<pipe, buf, eof, paused, reader>>

ReaderPC == {"reads", "holds", "pauses", "done"}

Init ==
    /\ pipe = 0 /\ buf \in 0..ChunkCountMax
    /\ eof = FALSE /\ paused = FALSE
    /\ reader = "reads"
    /\ closed = FALSE

-------------------------------------------------------------------------------
(* The child and the reader.                                               *)

Writes ==
    /\ ~closed /\ pipe < PipeCap
    /\ pipe' = pipe + 1
    /\ UNCHANGED <<buf, eof, paused, reader>>

ReaderGoes(from, to) ==
    /\ reader = from
    /\ reader' = to

Reads ==
    /\ ReaderGoes("reads", "holds")
    /\ pipe > 0
    /\ pipe' = pipe - 1
    /\ UNCHANGED <<buf, eof, paused>>

\* The consumer may have emptied the deque before the reader pauses.
FindsFull ==
    /\ ReaderGoes("holds", "pauses")
    /\ buf > ChunkCountMax
    /\ UNCHANGED <<pipe, buf, eof, paused>>

Pauses ==
    /\ ReaderGoes("pauses", "holds")
    /\ paused' = TRUE
    /\ UNCHANGED <<pipe, buf, eof>>

\* Over the first limit after waits that have timed out only.
Appends ==
    /\ ReaderGoes("holds", "reads")
    /\ buf <= ChunkCountMax + LateChunks
    /\ buf' = IF Bottomless /\ buf = MaxLen THEN buf ELSE buf + 1
    /\ UNCHANGED <<pipe, eof, paused>>

\* Mutant: a stream that ends without data is not noticed.
SeesEof_NeedsData ==
    /\ reader \in {"reads", "holds"}
    /\ eof \/ (reader = "reads" /\ closed /\ pipe = 0 /\ buf > 0)
    /\ reader' = "done"
    /\ eof' = TRUE
    /\ UNCHANGED <<pipe, buf, paused>>

\* The pipe is closed and empty; or stop() was called, and then a chunk the
\* reader holds is dropped, unless it has already passed the test of go.
SeesEof ==
    /\ reader \in {"reads", "holds"}
    /\ eof \/ (reader = "reads" /\ closed /\ pipe = 0)
    /\ reader' = "done"
    /\ eof' = TRUE
    /\ UNCHANGED <<pipe, buf, paused>>

ReaderStep == Reads \/ FindsFull \/ Pauses \/ Appends \/ SeesEof

-------------------------------------------------------------------------------
(* The consumer.  A next() that finds a chunk first lets the reader go on; *)
(* one that finds neither a chunk nor EOF waits.                           *)

Resumes ==
    /\ buf > 0
    /\ paused' = FALSE
    /\ UNCHANGED <<pipe, buf, eof, reader>>

Pops ==
    /\ buf > 0
    /\ buf' = buf - 1
    /\ UNCHANGED <<pipe, eof, paused, reader>>

\* All there is, by one next() after the other.
Drains ==
    /\ buf' = 0
    /\ paused' = (paused /\ buf = 0)
    /\ UNCHANGED <<pipe, eof, reader>>

Stops ==
    /\ eof' = TRUE
    /\ UNCHANGED <<pipe, buf, paused, reader>>

ConsumerStep == Resumes \/ Pops \/ Drains \/ Stops

-------------------------------------------------------------------------------
Closes == ~closed /\ closed' = TRUE /\ UNCHANGED stream

Next ==
    \/ (Writes \/ ReaderStep \/ ConsumerStep) /\ UNCHANGED closed
    \/ Closes

Spec == Init /\ [][Next]_<<stream, closed>>
===============================================================================
