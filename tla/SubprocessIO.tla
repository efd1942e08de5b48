----------------------------- MODULE SubprocessIO -----------------------------
(***************************************************************************)
(* subprocessio.SubprocessIOChunker: a child process with a StreamFeeder   *)
(* thread on its stdin and a BufferedGenerator on each of its outputs, and *)
(* the thread that constructs the object, iterates over it and closes it.  *)
(*                                                                         *)
(* The two BufferedGenerators, Out and Err, are CountedStreams, which      *)
(* StreamBuffer is proved to implement.                                    *)
(***************************************************************************)
EXTENDS Integers

CONSTANTS
    ChunkCountMax,   \* the reader pauses when stdout's deque holds more
    LateChunks,      \* chunks a paused reader may still append, by timeouts
    ErrKept,         \* maxlen of stderr's deque, the buffer of one chunk each
    PipeCap,         \* chunks a pipe holds
    Works            \* bound: chunks the child may write, and be sent

NoInput == -1    \* no input stream was given

ASSUME SubprocessAssumption ==
    /\ ChunkCountMax \in Nat \ {0}
    /\ LateChunks \in Nat
    /\ ErrKept \in Nat \ {0}
    /\ PipeCap \in Nat \ {0}
    /\ Works \subseteq [out : Nat, err : Nat, in : Nat \cup {NoInput}]

Streams == {"out", "err"}

VARIABLES
    failOnStderr, failOnReturnCode,   \* the constructor's arguments
    toWrite,     \* chunks the child has still to write, per stream
    child,       \* "none", "running", "closed" (its streams) or "exited"
    code,        \* the return code it has or will have: "zero" or "nonzero"
    killed,      \* terminate() was called on a child that had not exited
    outPipe, outBuf, outEof, outPaused, outReader,   \* the stream on stdout
    errPipe, errBuf, errEof, errPaused, errReader,   \* and the one on stderr
    feeder,      \* "none", "running" or "done"
    inLeft,      \* chunks the feeder has still to write
    inPipe,      \* chunks in the stdin pipe
    inputFd,     \* the parent's reading end of it: "none", "open", "closed"
    pc,          \* where the calling thread is
    returncode,  \* what poll() last said: "None" while the child runs
    stopped,     \* output.next() has raised StopIteration
    exitedFirst  \* history: the child had exited when it did

options == <<failOnStderr, failOnReturnCode>>
process == <<toWrite, child, code, killed>>
output  == <<outPipe, outBuf, outEof, outPaused, outReader>>
error   == <<errPipe, errBuf, errEof, errPaused, errReader>>
streams == <<output, error>>
input   == <<feeder, inLeft, inPipe, inputFd>>
caller  == <<returncode, stopped, exitedFirst>>
vars    == <<options, process, streams, input, pc, caller>>

ConstructorPC == {"popen", "testDone", "testPaused", "testErr", "wait",
                  "poll", "judge", "terminate", "stop", "join"}
NextPC == {"next", "pop", "repoll", "joinErr"}
ClosePC == {"closeInput", "closeOutput", "closeError"}
RestPC == {"raised", "open", "stopped", "failed", "closed", "dropped"}

Closed == child \in {"closed", "exited"}

Out == INSTANCE CountedStream WITH
    Bottomless <- FALSE, MaxLen <- 0,
    pipe <- outPipe, buf <- outBuf, eof <- outEof, paused <- outPaused,
    reader <- outReader, closed <- Closed
Err == INSTANCE CountedStream WITH
    ChunkCountMax <- ErrKept + 1, Bottomless <- TRUE, MaxLen <- ErrKept,
    pipe <- errPipe, buf <- errBuf, eof <- errEof, paused <- errPaused,
    reader <- errReader, closed <- Closed

Init ==
    /\ failOnStderr \in BOOLEAN
    /\ failOnReturnCode \in BOOLEAN
    /\ child = "none"
    /\ code = "zero"
    /\ killed = FALSE
    /\ outPipe = 0 /\ outBuf = 0 /\ outReader = "reads"
    /\ outEof = FALSE /\ outPaused = FALSE
    /\ errPipe = 0 /\ errBuf = 0 /\ errReader = "reads"
    /\ errEof = FALSE /\ errPaused = FALSE
    /\ \E w \in Works :
          /\ toWrite = [out |-> w.out, err |-> w.err]
          /\ IF w.in = NoInput
             THEN feeder = "none" /\ inputFd = "none" /\ inLeft = 0
             ELSE feeder = "running" /\ inputFd = "open" /\ inLeft = w.in
    /\ inPipe = 0
    /\ pc = "popen"
    /\ returncode = "None"
    /\ stopped = FALSE
    /\ exitedFirst = FALSE

-------------------------------------------------------------------------------
(* The child.  It closes its streams and only then exits: "Some processes, *)
(* e.g. git are doing some magic in between" (lines 444-448).              *)

ChildWrites(s) ==
    /\ child = "running"
    /\ toWrite[s] > 0
    /\ toWrite' = [toWrite EXCEPT ![s] = @ - 1]
    /\ \/ s = "out" /\ Out!Writes /\ UNCHANGED error
       \/ s = "err" /\ Err!Writes /\ UNCHANGED output
    /\ UNCHANGED <<options, child, code, killed, input, pc, caller>>

ChildReads ==
    /\ child = "running"
    /\ inPipe > 0
    /\ inPipe' = inPipe - 1
    /\ UNCHANGED <<options, process, streams, feeder, inLeft, inputFd, pc,
                   caller>>

\* It has read its input to the end and written all it has to say.
ChildFinishes ==
    /\ child = "running"
    /\ \A s \in Streams : toWrite[s] = 0
    /\ feeder # "running"
    /\ inPipe = 0
    /\ child' = "closed"
    /\ code' \in {"zero", "nonzero"}
    /\ UNCHANGED <<options, toWrite, killed, streams, input, pc, caller>>

\* A crash or a signal.
ChildDies ==
    /\ child = "running"
    /\ child' = "closed"
    /\ code' = "nonzero"
    /\ UNCHANGED <<options, toWrite, killed, streams, input, pc, caller>>

ChildExits ==
    /\ child = "closed"
    /\ child' = "exited"
    /\ UNCHANGED <<options, toWrite, code, killed, streams, input, pc, caller>>

ChildStep ==
    \/ \E s \in Streams : ChildWrites(s)
    \/ ChildReads \/ ChildFinishes \/ ChildExits
    \/ killed /\ ChildDies

-------------------------------------------------------------------------------
(* The StreamFeeder.  The child's copy of the stdin pipe goes when the     *)
(* child closes its files; the parent's own copy, inputFd, is still there. *)

FeederWrites ==
    /\ feeder = "running"
    /\ inLeft > 0
    /\ inPipe < PipeCap
    /\ child = "running" \/ inputFd = "open"
    /\ inLeft' = inLeft - 1
    /\ inPipe' = inPipe + 1
    /\ UNCHANGED <<options, process, streams, feeder, inputFd, pc, caller>>

\* The source is exhausted, or the write fails with EPIPE.
FeederEnds ==
    /\ feeder = "running"
    /\ inLeft = 0 \/ ~(child = "running" \/ inputFd = "open")
    /\ feeder' = "done"
    /\ UNCHANGED <<options, process, streams, inLeft, inPipe, inputFd, pc,
                   caller>>

-------------------------------------------------------------------------------
(* The two reader threads.                                                 *)
OthersThanStreams == <<options, process, input, pc, caller>>

OutReads == Out!ReaderStep /\ UNCHANGED <<error, OthersThanStreams>>
ErrReads == Err!ReaderStep /\ UNCHANGED <<output, OthersThanStreams>>

-------------------------------------------------------------------------------
(* The calling thread.                                                     *)

Goes(from, to) ==
    /\ pc = from
    /\ pc' = to

Jumps(from, to) ==
    /\ Goes(from, to)
    /\ UNCHANGED <<options, process, streams, input, caller>>

Polled == IF child = "exited" THEN code ELSE "None"

\* Popen either starts the child or raises.
Spawns ==
    /\ Goes("popen", "testDone")
    /\ child' = "running"
    /\ UNCHANGED <<options, toWrite, code, killed, streams, input, caller>>

SpawnFails == Jumps("popen", "raised")

\* while not done_reading and not reading_paused and not bg_err.length
TestDone == Jumps("testDone", IF outEof THEN "poll" ELSE "testPaused")

\* Mutant: the constructor waits for EOF even when stdout's deque is full.
TestPaused_Dropped == Jumps("testPaused", "testErr")

TestPaused == Jumps("testPaused", IF outPaused THEN "poll" ELSE "testErr")

TestErr == Jumps("testErr", IF errBuf > 0 THEN "poll" ELSE "wait")

\* data_added.wait(1) and clear(): whichever way it ends the loop goes on.
Waits == Jumps("wait", "testDone")

Polls ==
    /\ Goes("poll", "judge")
    /\ returncode' = Polled
    /\ UNCHANGED <<options, process, streams, input, stopped, exitedFirst>>

Judges ==
    Jumps("judge",
          IF \/ returncode = "nonzero" /\ failOnReturnCode
             \/ failOnStderr /\ returncode = "None" /\ errBuf > 0
          THEN "terminate" ELSE "open")

\* Mutant: the child is left alone.
Terminates_Not(from, to) == Jumps(from, to)

Terminates(from, to) ==
    /\ Goes(from, to)
    /\ killed' = (killed \/ child # "exited")
    /\ UNCHANGED <<options, toWrite, child, code, streams, input, caller>>

\* bg_out.stop() and bg_err.stop(): EOF is set whatever is in the pipes.
StopsBoth ==
    /\ Goes("stop", "join")
    /\ Out!Stops /\ Err!Stops
    /\ UNCHANGED <<options, process, input, caller>>

\* The message is joined from what stderr's deque holds, then stdout's.
Joins ==
    /\ Goes("join", "raised")
    /\ IF failOnStderr \/ errBuf > 0
       THEN Err!Drains /\ UNCHANGED output
       ELSE Out!Drains /\ UNCHANGED error
    /\ UNCHANGED <<options, process, input, caller>>

ConstructorStep ==
    \/ Spawns \/ SpawnFails \/ TestDone \/ TestPaused \/ TestErr \/ Waits
    \/ Polls \/ Judges \/ Terminates("terminate", "stop") \/ StopsBoth \/ Joins

CallsNext == Jumps("open", "next")

\* self.output.next(): it lets the reader go on and takes a chunk, or raises
\* StopIteration, which is kept for later.
TakesOutput ==
    /\ Goes("next", "pop")
    /\ Out!Resumes
    /\ UNCHANGED <<options, process, error, input, caller>>

Pops ==
    /\ Goes("pop", "repoll")
    /\ Out!Pops
    /\ UNCHANGED <<options, process, error, input, caller>>

\* Mutant: EOF ends the iteration although chunks are buffered.
StopsIteration_EofFirst ==
    /\ Goes("next", "repoll")
    /\ outEof
    /\ stopped' = TRUE
    /\ exitedFirst' = (child = "exited")
    /\ UNCHANGED <<options, process, streams, input, returncode>>

StopsIteration ==
    /\ Goes("next", "repoll")
    /\ outBuf = 0 /\ outEof
    /\ stopped' = TRUE
    /\ exitedFirst' = (child = "exited")
    /\ UNCHANGED <<options, process, streams, input, returncode>>

\* Mutant: next() trusts the return code of an earlier poll.
PollsAgain_Stale ==
    /\ pc = "repoll"
    /\ pc' = IF returncode = "nonzero" /\ failOnReturnCode THEN "joinErr"
             ELSE IF stopped THEN "stopped" ELSE "open"
    /\ UNCHANGED <<options, process, streams, input, caller>>

\* The process is polled after the stream, and a failure wins over the chunk
\* or the StopIteration.
PollsAgain ==
    /\ pc = "repoll"
    /\ returncode' = Polled
    /\ pc' = IF returncode' = "nonzero" /\ failOnReturnCode THEN "joinErr"
             ELSE IF stopped THEN "stopped" ELSE "open"
    /\ UNCHANGED <<options, process, streams, input, stopped, exitedFirst>>

\* ''.join(self.error): until stderr ends.
JoinsError ==
    /\ Goes("joinErr", "failed")
    /\ errEof
    /\ Err!Drains
    /\ UNCHANGED <<options, process, output, input, caller>>

NextStep == TakesOutput \/ Pops \/ StopsIteration \/ PollsAgain \/ JoinsError

\* close(), at any moment between two calls; it does its work once.
CallsClose ==
    \E from \in {"open", "stopped", "failed"} : Terminates(from, "closeInput")

\* Mutant: the parent's end of the stdin pipe is forgotten.
ClosesInput_Not == Jumps("closeInput", "closeOutput")

\* The first of the two places that close the descriptor; the second finds
\* it closed, and its error is swallowed.
ClosesInput ==
    /\ Goes("closeInput", "closeOutput")
    /\ inputFd' = IF inputFd = "open" THEN "closed" ELSE inputFd
    /\ UNCHANGED <<options, process, streams, feeder, inLeft, inPipe, caller>>

ClosesOutput ==
    /\ Goes("closeOutput", "closeError")
    /\ Out!Stops
    /\ UNCHANGED <<options, process, error, input, caller>>

ClosesError ==
    /\ Goes("closeError", "closed")
    /\ Err!Stops
    /\ UNCHANGED <<options, process, output, input, caller>>

CloseStep == ClosesInput \/ ClosesOutput \/ ClosesError

\* The caller forgets the object without closing it (svn.run_svn_command).
Drops == \E from \in {"open", "stopped", "failed"} : Jumps(from, "dropped")

-------------------------------------------------------------------------------
Resting == pc \in {"raised", "closed", "dropped"}

Next ==
    \/ ChildStep \/ ChildDies
    \/ FeederWrites \/ FeederEnds
    \/ OutReads \/ ErrReads
    \/ ConstructorStep
    \/ CallsNext \/ NextStep
    \/ CallsClose \/ CloseStep
    \/ Drops
    \/ Resting /\ UNCHANGED vars

Spec == Init /\ [][Next]_vars

\* Every thread that can step does, and so does the child; whether next(),
\* close() or neither is called is the caller's choice.
FairSpec ==
    /\ Spec
    /\ WF_vars(ChildStep)
    /\ WF_vars(FeederWrites \/ FeederEnds)
    /\ WF_vars(OutReads) /\ WF_vars(ErrReads)
    /\ WF_vars(ConstructorStep)
    /\ WF_vars(NextStep)
    /\ WF_vars(CloseStep)

-------------------------------------------------------------------------------
(* Properties.                                                             *)

\* Type invariant.
TypeOK ==
    /\ failOnStderr \in BOOLEAN
    /\ failOnReturnCode \in BOOLEAN
    /\ toWrite \in [Streams -> Nat]
    /\ child \in {"none", "running", "closed", "exited"}
    /\ code \in {"zero", "nonzero"}
    /\ outPipe \in 0..PipeCap /\ errPipe \in 0..PipeCap
    /\ outBuf \in 0..(ChunkCountMax + LateChunks + 1) /\ errBuf \in 0..ErrKept
    /\ outReader \in Out!ReaderPC /\ errReader \in Err!ReaderPC
    /\ inPipe \in 0..PipeCap
    /\ inputFd \in {"none", "open", "closed"}
    /\ feeder \in {"none", "running", "done"}
    /\ pc \in ConstructorPC \cup NextPC \cup ClosePC \cup RestPC
    /\ returncode \in {"None", "zero", "nonzero"}
    /\ outEof \in BOOLEAN /\ errEof \in BOOLEAN
    /\ outPaused \in BOOLEAN /\ errPaused \in BOOLEAN
    /\ stopped \in BOOLEAN
    /\ exitedFirst \in BOOLEAN

\* A child that had already failed when stdout was drained never passes for
\* a success: the return code is polled after the stream (lines 452-456).
FailureNotMissed ==
    pc = "stopped" /\ failOnReturnCode /\ exitedFirst => code = "zero"

\* StopIteration from next() comes after everything the child wrote to
\* stdout, and if the child succeeded that is all it had to write.
OutputComplete ==
    pc = "stopped" =>
        /\ outPipe = 0 /\ outBuf = 0 /\ outReader = "done"
        /\ code = "zero" => toWrite["out"] = 0

\* The constructor returns or raises, whatever the child does with its three
\* pipes (lines 402-405: the loop also ends on a paused reader and on stderr).
ConstructorReturns == (pc = "popen") ~> (pc \in {"open", "raised"})

\* A call of next() returns a chunk, ends or raises; joining stderr after a
\* failure does not hang (line 457).
NextReturns == (pc = "next") ~> (pc \in {"open", "stopped", "failed"})

\* After close() the child is gone and the feeder thread has let go of the
\* input, even if it was blocked on a full pipe (lines 469-490).
CloseReleases ==
    (pc = "closeInput") ~> (child = "exited" /\ feeder # "running")

\* A constructor that raises leaves no child running (lines 415-420).
RaiseReleases == (pc = "terminate") ~> (child = "exited")
===============================================================================
