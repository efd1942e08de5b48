-------------------------- MODULE SubprocessIOProofs --------------------------
(***************************************************************************)
(* What a caller of SubprocessIOChunker may conclude from StopIteration,   *)
(* proved for every buffer size and every amount of input and output.      *)
(***************************************************************************)
EXTENDS SubprocessIO, TLAPS

\* A child that finished with return code zero wrote all it meant to: an
\* early death makes the code nonzero.  There is no child before Popen.
ChildInv ==
    /\ Closed /\ code = "zero" => toWrite["out"] = 0
    /\ pc = "popen" => child = "none"

\* Until somebody stops the streams, EOF is the end of a closed, empty pipe
\* whose reader is done.
EofInv ==
    outEof /\ pc \notin {"join", "raised"} \cup ClosePC \cup {"closed"} =>
        Closed /\ outPipe = 0 /\ outReader = "done"

\* From StopIteration on nothing is buffered, and a child that had exited by
\* then is polled as such.
StopInv ==
    /\ pc \in {"repoll", "stopped"} /\ stopped => outEof /\ outBuf = 0
    /\ pc \in ConstructorPC \cup {"open", "next", "pop"} => ~stopped
    /\ pc = "stopped" => stopped
    /\ exitedFirst => child = "exited"
    /\ pc = "stopped" /\ failOnReturnCode /\ exitedFirst => code = "zero"

IInv == TypeOK /\ ChildInv /\ EofInv /\ StopInv

USE SubprocessAssumption
    DEF Streams, options, process, output, error, streams, input, caller,
        Closed, Goes, Jumps, ConstructorPC, NextPC, ClosePC, RestPC,
        Out!ReaderPC, Err!ReaderPC

LEMMA InitInv == Init => IInv
<1> SUFFICES ASSUME Init PROVE IInv
  OBVIOUS
<1>1. TypeOK
  <2>1. PICK w \in Works :
             /\ toWrite = [out |-> w.out, err |-> w.err]
             /\ IF w.in = NoInput
                THEN feeder = "none" /\ inputFd = "none" /\ inLeft = 0
                ELSE feeder = "running" /\ inputFd = "open" /\ inLeft = w.in
    BY DEF Init
  <2>2. w.out \in Nat /\ w.err \in Nat
    <3>1. w \in [out : Nat, err : Nat, in : Nat \cup {NoInput}]
      BY Zenon
    <3> QED
      BY <3>1
  <2>3. toWrite \in [Streams -> Nat]
    BY <2>1, <2>2
  <2>4. /\ feeder \in {"none", "running", "done"}
        /\ inputFd \in {"none", "open", "closed"}
    BY <2>1
  <2>5. /\ outEof \in BOOLEAN /\ errEof \in BOOLEAN
        /\ outPaused \in BOOLEAN /\ errPaused \in BOOLEAN
        /\ failOnStderr \in BOOLEAN /\ failOnReturnCode \in BOOLEAN
        /\ stopped \in BOOLEAN /\ exitedFirst \in BOOLEAN
    BY Zenon DEF Init
  <2>6. /\ outPipe \in 0..PipeCap /\ errPipe \in 0..PipeCap
        /\ inPipe \in 0..PipeCap
        /\ outBuf \in 0..(ChunkCountMax + LateChunks + 1)
        /\ errBuf \in 0..ErrKept
    BY DEF Init
  <2>7. /\ child \in {"none", "running", "closed", "exited"}
        /\ code \in {"zero", "nonzero"}
        /\ outReader \in Out!ReaderPC /\ errReader \in Err!ReaderPC
        /\ pc \in ConstructorPC
        /\ returncode \in {"None", "zero", "nonzero"}
    BY DEF Init
  <2> QED
    BY <2>3, <2>4, <2>5, <2>6, <2>7, Zenon DEF TypeOK
<1>2. ChildInv /\ EofInv /\ StopInv
  BY DEF Init, ChildInv, EofInv, StopInv
<1> QED
  BY <1>1, <1>2 DEF IInv

\* What the reader of stdout does to the stream.
LEMMA OutReaderStep ==
    ASSUME IInv, OutReads
    PROVE  IInv'
<1> USE DEF OutReads, OthersThanStreams, Out!ReaderGoes, IInv, TypeOK,
            ChildInv, EofInv, StopInv
<1>1. CASE Out!Reads
  BY <1>1 DEF Out!Reads
<1>2. CASE Out!FindsFull
  BY <1>2 DEF Out!FindsFull
<1>3. CASE Out!Pauses
  BY <1>3 DEF Out!Pauses
<1>4. CASE Out!Appends
  BY <1>4 DEF Out!Appends
<1>5. CASE Out!SeesEof
  BY <1>5 DEF Out!SeesEof
<1> HIDE DEF IInv
<1> QED
  BY <1>1, <1>2, <1>3, <1>4, <1>5 DEF Out!ReaderStep

\* What the reader of stderr does to it; its deque keeps to its maxlen.
LEMMA ErrReaderStep ==
    ASSUME IInv, ErrReads
    PROVE  IInv'
<1> USE DEF ErrReads, OthersThanStreams, Err!ReaderGoes, IInv, TypeOK,
            ChildInv, EofInv, StopInv
<1>1. CASE Err!Reads
  BY <1>1 DEF Err!Reads
<1>2. CASE Err!FindsFull
  BY <1>2 DEF Err!FindsFull
<1>3. CASE Err!Pauses
  BY <1>3 DEF Err!Pauses
<1>4. CASE Err!Appends
  BY <1>4 DEF Err!Appends
<1>5. CASE Err!SeesEof
  BY <1>5 DEF Err!SeesEof
<1> HIDE DEF IInv
<1> QED
  BY <1>1, <1>2, <1>3, <1>4, <1>5 DEF Err!ReaderStep

\* One step per action of the model; each keeps every part of IInv.
LEMMA StepInv == IInv /\ [Next]_vars => IInv'
<1> SUFFICES ASSUME IInv, [Next]_vars PROVE IInv'
  OBVIOUS
<1> USE DEF IInv, TypeOK, ChildInv, EofInv, StopInv
<1>1. CASE \E s \in Streams : ChildWrites(s)
  BY <1>1 DEF ChildWrites, Out!Writes, Err!Writes
<1>2. CASE ChildReads
  BY <1>2 DEF ChildReads
<1>3. CASE ChildFinishes
  BY <1>3 DEF ChildFinishes
<1>4. CASE ChildDies
  BY <1>4 DEF ChildDies
<1>5. CASE ChildExits
  BY <1>5 DEF ChildExits
<1>6. CASE FeederWrites \/ FeederEnds
  BY <1>6 DEF FeederWrites, FeederEnds
<1>7. CASE OutReads \/ ErrReads
  BY <1>7, OutReaderStep, ErrReaderStep
<1>8. CASE Spawns
  BY <1>8 DEF Spawns
<1>9. CASE SpawnFails
  BY <1>9 DEF SpawnFails
<1>10. CASE TestDone \/ TestPaused \/ TestErr \/ Waits
  BY <1>10 DEF TestDone, TestPaused, TestErr, Waits
<1>11. CASE Polls
  BY <1>11 DEF Polls, Polled
<1>12. CASE Judges
  BY <1>12 DEF Judges
<1>13. CASE Terminates("terminate", "stop")
  BY <1>13 DEF Terminates
<1>14. CASE StopsBoth
  BY <1>14 DEF StopsBoth, Out!Stops, Err!Stops
<1>15. CASE Joins
  BY <1>15 DEF Joins, Out!Drains, Err!Drains
<1>16. CASE CallsNext
  BY <1>16 DEF CallsNext
<1>17. CASE TakesOutput
  <2>1. /\ pc = "next" /\ pc' = "pop" /\ outPaused' = FALSE
        /\ UNCHANGED <<outPipe, outBuf, outEof, outReader>>
        /\ UNCHANGED <<options, process, error, input, caller>>
    BY <1>17 DEF TakesOutput, Out!Resumes
  <2>2. TypeOK'
    <3>1. pc' \in NextPC
      BY <2>1
    <3>2. outPaused' \in BOOLEAN
      BY <2>1, Zenon
    <3> QED
      BY <2>1, <3>1, <3>2
  <2>3. ChildInv' /\ EofInv' /\ StopInv'
    BY <2>1
  <2> HIDE DEF TypeOK, ChildInv, EofInv, StopInv
  <2> QED
    BY <2>2, <2>3
<1>18. CASE Pops
  BY <1>18 DEF Pops, Out!Pops
<1>19. CASE StopsIteration
  BY <1>19 DEF StopsIteration
<1>20. CASE PollsAgain
  BY <1>20 DEF PollsAgain, Polled
<1>21. CASE JoinsError
  BY <1>21 DEF JoinsError, Err!Drains
<1>22. CASE CallsClose
  BY <1>22 DEF CallsClose, Terminates
<1>23. CASE ClosesInput
  BY <1>23 DEF ClosesInput
<1>24. CASE ClosesOutput
  BY <1>24 DEF ClosesOutput, Out!Stops
<1>25. CASE ClosesError
  BY <1>25 DEF ClosesError, Err!Stops
<1>26. CASE Drops
  BY <1>26 DEF Drops
<1>27. CASE UNCHANGED vars
  BY <1>27 DEF vars
<1>28. CASE ChildStep \/ ChildDies
  BY <1>1, <1>2, <1>3, <1>4, <1>5, <1>28 DEF ChildStep
<1>29. CASE ConstructorStep
  BY <1>8, <1>9, <1>10, <1>11, <1>12, <1>13, <1>14, <1>15, <1>29
     DEF ConstructorStep
<1>30. CASE NextStep \/ CloseStep
  BY <1>17, <1>18, <1>19, <1>20, <1>21, <1>23, <1>24, <1>25, <1>30
     DEF NextStep, CloseStep
<1> HIDE DEF IInv
<1> QED
  BY <1>6, <1>7, <1>16, <1>22, <1>26, <1>27, <1>28, <1>29, <1>30 DEF Next

\* Every reachable state satisfies the inductive invariant.
THEOREM Invariance == Spec => []IInv
<1>1. Init => IInv
  BY InitInv
<1>2. IInv /\ [Next]_vars => IInv'
  BY StepInv
<1> QED
  BY <1>1, <1>2, PTL DEF Spec

\* Type correctness: neither deque outgrows its bound.
THEOREM TypeCorrect == Spec => []TypeOK
<1>1. IInv => TypeOK
  BY DEF IInv
<1> QED
  BY <1>1, Invariance, PTL

\* A failed child that had exited when stdout was drained is reported.
THEOREM FailureReported == Spec => []FailureNotMissed
<1>1. IInv => FailureNotMissed
  BY DEF IInv, StopInv, FailureNotMissed
<1> QED
  BY <1>1, Invariance, PTL

\* StopIteration comes after the whole output.
THEOREM OutputCompletes == Spec => []OutputComplete
<1>1. IInv => OutputComplete
  BY DEF IInv, ChildInv, EofInv, StopInv, OutputComplete
<1> QED
  BY <1>1, Invariance, PTL
===============================================================================
