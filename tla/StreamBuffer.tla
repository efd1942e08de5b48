----------------------------- MODULE StreamBuffer -----------------------------
(***************************************************************************)
(* subprocessio.BufferedGenerator with its reader thread,                  *)
(* InputStreamChunker: one pipe from a child process, one thread that      *)
(* reads it into a deque, one consumer that iterates over the deque.       *)
(*                                                                         *)
(* A step is what one thread does to the shared objects without giving up  *)
(* the interpreter lock: one Event operation, one len(), one append or     *)
(* popleft.  A chunk is what one read(chunk_size) returns, named by its    *)
(* place in the stream.  The clock is left out: a wait with a timeout may  *)
(* end at any moment.                                                      *)
(***************************************************************************)
EXTENDS Naturals, Sequences

CONSTANTS
    BufferChunks,   \* int(buffer_size / chunk_size)
    TimeoutInput,   \* timeout_input: 20 in the code
    Bottomless,     \* the deque is bounded and drops its oldest chunk
    Starting,       \* how many starting_values the deque begins with
    PipeCap,        \* chunks the operating system's pipe holds
    MaxChunks       \* bound: chunks in one run, the starting ones included

ASSUME StreamAssumption ==
    /\ BufferChunks \in Nat \ {0}
    /\ TimeoutInput \in Nat \ {0}
    /\ Bottomless \in BOOLEAN
    /\ Starting \in 0..BufferChunks
    /\ PipeCap \in Nat \ {0}
    /\ MaxChunks \in Nat

ChunkCountMax == BufferChunks + 1

VARIABLES
    total,        \* chunks the child means to write (with the starting ones)
    written,      \* chunks it has written into the pipe so far
    writerOpen,   \* it still holds the writing end
    sourceOpen,   \* the parent's file object on the reading end is open
    taken,        \* chunks read from the pipe so far
    inHand,       \* the chunk read but not (yet) appended; 0 is ''
    data,         \* the deque
    dataAdded, keepReading, eof, go,   \* the four Events
    rpc,          \* where the reader thread is
    cpc,          \* where the consumer's thread is
    result,       \* how its last next() ended
    out,          \* history: the chunks next() has returned
    expired       \* history: waits of the reader that ended by timeout

child    == <<total, written, writerOpen>>
events   == <<dataAdded, keepReading, eof, go>>
reader   == <<rpc, taken, inHand>>
consumer == <<cpc, result, out>>
vars     == <<child, sourceOpen, data, events, reader, consumer, expired>>

ReaderPC == {"enter", "reading", "loop", "room", "pause", "wait", "recheck",
             "append", "signal", "setEof", "lastSignal", "done", "exited"}
ConsumerPC == {"idle", "len", "eof", "clear", "wait", "testLen", "resume",
               "pop", "testEof", "stopEof", "stopClose"}

Alive == rpc # "exited"

Init ==
    /\ total \in Starting..MaxChunks
    /\ written = Starting
    /\ writerOpen = TRUE
    /\ sourceOpen = TRUE
    /\ taken = Starting
    /\ inHand = 0
    /\ data = [i \in 1..Starting |-> i]
    /\ dataAdded = (Starting > 0)
    /\ keepReading = TRUE
    /\ eof = FALSE
    /\ go = TRUE
    /\ rpc = "enter"
    /\ cpc = "idle"
    /\ result = "chunk"
    /\ out = <<>>
    /\ expired = 0

-------------------------------------------------------------------------------
(* The child process: it blocks when the pipe is full, and closes the pipe *)
(* when it has written everything, or dies before.                         *)

ChildWrites ==
    /\ writerOpen
    /\ written < total
    /\ written - taken < PipeCap
    /\ written' = written + 1
    /\ UNCHANGED <<total, writerOpen, sourceOpen, data, events, reader,
                   consumer, expired>>

ChildCloses ==
    /\ writerOpen
    /\ written = total
    /\ writerOpen' = FALSE
    /\ UNCHANGED <<total, written, sourceOpen, data, events, reader,
                   consumer, expired>>

\* A crash, or the process.terminate() that comes before every stop().
ChildDies ==
    /\ writerOpen
    /\ written < total
    /\ writerOpen' = FALSE
    /\ UNCHANGED <<total, written, sourceOpen, data, events, reader,
                   consumer, expired>>

-------------------------------------------------------------------------------
(* The reader thread, InputStreamChunker.run.                              *)

ReaderGoes(from, to) ==
    /\ rpc = from
    /\ rpc' = to

\* A step that tests something and changes nothing else.
ReaderJumps(from, to) ==
    /\ ReaderGoes(from, to)
    /\ UNCHANGED <<child, sourceOpen, data, events, taken, inHand, consumer,
                   expired>>

\* read() on a file object that was closed before the call raises
\* ValueError, which stands for the end of the stream.
EnterRead ==
    ReaderJumps("enter", IF sourceOpen THEN "reading" ELSE "setEof")

\* read() returns a chunk, or '' once the writing end is closed.
Reads ==
    /\ ReaderGoes("reading", "loop")
    /\ \/ /\ taken < written
          /\ taken' = taken + 1
          /\ inHand' = taken'
       \/ /\ taken = written
          /\ ~writerOpen
          /\ UNCHANGED <<taken, inHand>>
    /\ UNCHANGED <<child, sourceOpen, data, events, consumer, expired>>

\* while b and go.is_set()
TestLoop ==
    ReaderJumps("loop", IF inHand # 0 /\ go THEN "room" ELSE "setEof")

TestRoom ==
    ReaderJumps("room",
                IF Len(data) > ChunkCountMax THEN "pause" ELSE "append")

Pauses ==
    /\ ReaderGoes("pause", "wait")
    /\ keepReading' = FALSE
    /\ UNCHANGED <<child, sourceOpen, data, dataAdded, eof, go, taken, inHand,
                   consumer, expired>>

\* Mutant: keep_reading.wait() without its timeout.
EndsWait_NoTimeout ==
    /\ ReaderGoes("wait", "recheck")
    /\ keepReading
    /\ UNCHANGED <<child, sourceOpen, data, events, taken, inHand, consumer,
                   expired>>

\* The wait ends when the consumer has set keep_reading, or after 20 seconds.
EndsWait ==
    /\ ReaderGoes("wait", "recheck")
    /\ expired' = IF keepReading THEN expired ELSE expired + 1
    /\ UNCHANGED <<child, sourceOpen, data, events, taken, inHand, consumer>>

\* Mutant: nobody looks at the length again after the wait.
Rechecks_Never == ReaderJumps("recheck", "append")

\* Mutant: the first wait that ends with a full buffer is fatal.
Rechecks_Impatient ==
    ReaderJumps("recheck",
                IF Len(data) > ChunkCountMax THEN "exited" ELSE "append")

\* A buffer that is still too full makes the whole worker process exit.
Rechecks ==
    ReaderJumps("recheck",
                IF Len(data) > ChunkCountMax + TimeoutInput
                THEN "exited" ELSE "append")

\* Mutant: the bottomless deque gets no maxlen.
Appends_Unbounded ==
    /\ ReaderGoes("append", "signal")
    /\ data' = Append(data, inHand)
    /\ inHand' = 0
    /\ UNCHANGED <<child, sourceOpen, events, taken, consumer, expired>>

\* Mutant: a full bottomless deque refuses the new chunk.
Appends_DropsNewest ==
    /\ ReaderGoes("append", "signal")
    /\ data' = IF Bottomless /\ Len(data) = BufferChunks
               THEN data
               ELSE Append(data, inHand)
    /\ inHand' = 0
    /\ UNCHANGED <<child, sourceOpen, events, taken, consumer, expired>>

Appends ==
    /\ ReaderGoes("append", "signal")
    /\ data' = IF Bottomless /\ Len(data) = BufferChunks
               THEN Append(Tail(data), inHand)
               ELSE Append(data, inHand)
    /\ inHand' = 0
    /\ UNCHANGED <<child, sourceOpen, events, taken, consumer, expired>>

Signals ==
    /\ ReaderGoes("signal", "enter")
    /\ dataAdded' = TRUE
    /\ UNCHANGED <<child, sourceOpen, data, keepReading, eof, go, taken,
                   inHand, consumer, expired>>

SetsEof ==
    /\ ReaderGoes("setEof", "lastSignal")
    /\ eof' = TRUE
    /\ UNCHANGED <<child, sourceOpen, data, dataAdded, keepReading, go, taken,
                   inHand, consumer, expired>>

LastSignal ==
    /\ ReaderGoes("lastSignal", "done")
    /\ dataAdded' = TRUE
    /\ UNCHANGED <<child, sourceOpen, data, keepReading, eof, go, taken,
                   inHand, consumer, expired>>

ReaderStep ==
    EnterRead \/ Reads \/ TestLoop \/ TestRoom \/ Pauses \/ EndsWait
    \/ Rechecks \/ Appends \/ Signals \/ SetsEof \/ LastSignal

-------------------------------------------------------------------------------
(* The consumer: next() until it raises StopIteration, and at most one     *)
(* stop(), before or after that; next() may be called after stop(), as     *)
(* SubprocessIOChunker's constructor does to collect the error output.     *)

ConsumerGoes(from, to) ==
    /\ Alive
    /\ cpc = from
    /\ cpc' = to

ConsumerJumps(from, to) ==
    /\ ConsumerGoes(from, to)
    /\ UNCHANGED <<child, sourceOpen, data, events, reader, result, out,
                   expired>>

CallsNext == result = "chunk" /\ ConsumerJumps("idle", "len")

\* while not len(self.data) and not EOF.is_set(), in two tests
TestLen == ConsumerJumps("len", IF data # <<>> THEN "testLen" ELSE "eof")

TestEof == ConsumerJumps("eof", IF eof THEN "testLen" ELSE "clear")

ClearsDataAdded ==
    /\ ConsumerGoes("clear", "wait")
    /\ dataAdded' = FALSE
    /\ UNCHANGED <<child, sourceOpen, data, keepReading, eof, go, reader,
                   result, out, expired>>

\* Mutant: data_added.wait() without its timeout.
WaitsForData_NoTimeout == dataAdded /\ ConsumerJumps("wait", "len")

\* data_added.wait(0.2): set, or not set in time; the loop tests again.
WaitsForData == ConsumerJumps("wait", "len")

\* Mutant: EOF is tested before the deque.
RetestsLen_EofFirst ==
    ConsumerJumps("testLen", IF eof THEN "testEof" ELSE "resume")

RetestsLen ==
    ConsumerJumps("testLen", IF data # <<>> THEN "resume" ELSE "testEof")

Resumes ==
    /\ ConsumerGoes("resume", "pop")
    /\ keepReading' = TRUE
    /\ UNCHANGED <<child, sourceOpen, data, dataAdded, eof, go, reader,
                   result, out, expired>>

Pops ==
    /\ ConsumerGoes("pop", "idle")
    /\ data # <<>>
    /\ out' = Append(out, Head(data))
    /\ data' = Tail(data)
    /\ UNCHANGED <<child, sourceOpen, events, reader, result, expired>>

\* StopIteration after EOF; with neither data nor EOF, next() returns None.
EndsNext ==
    /\ ConsumerGoes("testEof", "idle")
    /\ result' = IF eof THEN "stop" ELSE "none"
    /\ UNCHANGED <<child, sourceOpen, data, events, reader, out, expired>>

CallsStop ==
    /\ go
    /\ ConsumerGoes("idle", "stopEof")
    /\ go' = FALSE
    /\ UNCHANGED <<child, sourceOpen, data, dataAdded, keepReading, eof,
                   reader, result, out, expired>>

StopSetsEof ==
    /\ ConsumerGoes("stopEof", "stopClose")
    /\ eof' = TRUE
    /\ UNCHANGED <<child, sourceOpen, data, dataAdded, keepReading, go,
                   reader, result, out, expired>>

\* close() of a file another thread is reading raises IOError, which is
\* swallowed: the file stays open.
StopCloses ==
    /\ ConsumerGoes("stopClose", "idle")
    /\ sourceOpen' = (rpc = "reading")
    /\ UNCHANGED <<child, data, events, reader, result, out, expired>>

NextStep ==
    TestLen \/ TestEof \/ ClearsDataAdded \/ WaitsForData \/ RetestsLen
    \/ Resumes \/ Pops \/ EndsNext

StopStep == StopSetsEof \/ StopCloses

-------------------------------------------------------------------------------
ChildStep == Alive /\ (ChildWrites \/ ChildCloses \/ (~go /\ ChildDies))

\* Nothing is left to do: the worker is gone, or every party has finished.
Finished ==
    \/ ~Alive
    \/ /\ rpc = "done"
       /\ cpc = "idle"
       /\ result # "chunk"
       /\ ~go
       /\ ~writerOpen

Next ==
    \/ ChildStep
    \/ Alive /\ ChildDies
    \/ ReaderStep
    \/ CallsNext \/ NextStep
    \/ CallsStop \/ StopStep
    \/ Finished /\ UNCHANGED vars

Spec == Init /\ [][Next]_vars

(***************************************************************************)
(* Fairness.  Threads are scheduled and every wait has a timeout, so a     *)
(* thread that can step does; the child makes progress while its pipe has  *)
(* room.  That the consumer asks for the next chunk is the caller's        *)
(* choice: KeepsConsuming assumes it, and is assumed only where said.      *)
(***************************************************************************)
Scheduling ==
    /\ WF_vars(ChildStep)
    /\ WF_vars(ReaderStep)
    /\ WF_vars(NextStep)
    /\ WF_vars(StopStep)

KeepsConsuming == WF_vars(CallsNext)

FairSpec == Spec /\ Scheduling

-------------------------------------------------------------------------------
(* Properties.                                                             *)

\* Type invariant: the ranges of the variables; a wait can only have expired
\* for a chunk that was read.
TypeOK ==
    /\ total \in Starting..MaxChunks
    /\ written \in Starting..total
    /\ writerOpen \in BOOLEAN
    /\ sourceOpen \in BOOLEAN
    /\ taken \in Starting..written
    /\ inHand \in 0..taken
    /\ data \in Seq(1..MaxChunks)
    /\ dataAdded \in BOOLEAN
    /\ keepReading \in BOOLEAN
    /\ eof \in BOOLEAN
    /\ go \in BOOLEAN
    /\ rpc \in ReaderPC
    /\ cpc \in ConsumerPC
    /\ result \in {"chunk", "stop", "none"}
    /\ out \in Seq(1..MaxChunks)
    /\ expired \in 0..MaxChunks

\* next() never pops from an empty deque and never falls off its end and
\* returns None: between its two tests nobody can take the last chunk or
\* unset EOF (lines 193-200).
NeverEmptyHanded ==
    /\ cpc = "pop" => data # <<>>
    /\ result # "none"

\* However slow the consumer is, the deque stays within what the check in
\* the reader's loop allows before it gives the worker up (lines 137-144).
MemoryBound == Len(data) <= ChunkCountMax + TimeoutInput + 1

\* The reader gives the worker up only after the consumer left it waiting
\* for at least timeout_input whole timeouts of 20 seconds: no race of
\* keep_reading.set() and clear() makes it exit sooner
\* (lines 137-142 against 197-198).
ExitNeedsTimeouts == rpc = "exited" => expired >= TimeoutInput

\* A bottomless buffer (the one on stderr) never makes its reader pause or
\* exit: maxlen stays below chunk_count_max (lines 95, 137, 174).
BottomlessNeverPauses ==
    Bottomless => rpc \notin {"pause", "wait", "recheck", "exited"}

\* What a bottomless buffer hands out is in order, and a consumer told that
\* the stream is over has had at least its last BufferChunks chunks
\* (lines 174-178, 192-200).
LastChunksKept ==
    Bottomless =>
        /\ \A i, j \in DOMAIN out : i < j => out[i] < out[j]
        /\ result = "stop" /\ go =>
               \A c \in 1..written :
                   c > written - BufferChunks =>
                       \E i \in DOMAIN out : out[i] = c

\* A buffer that is not bottomless implements ByteStream: no chunk is lost,
\* repeated or reordered, and StopIteration means that the pipe was closed
\* and drained (EOF may be set between the two tests of len(self.data)).
Stream == INSTANCE ByteStream WITH
    sent <- written, closed <- ~writerOpen, ended <- (result = "stop"),
    aborted <- (~go \/ ~Alive)

Delivers == Stream!Spec

\* What SubprocessIO takes a stream for: chunks counted in the pipe and in the
\* deque, a reader that is about to do one of a few things.  A stop() is one
\* step there, from go.clear() on, and the worker's exit is a wait without end.
Place ==
    CASE rpc \in {"lastSignal", "done"} -> "done"
      [] rpc = "pause"                  -> "pauses"
      [] OTHER                          -> IF inHand = 0 THEN "reads"
                                           ELSE "holds"

Counted == INSTANCE CountedStream WITH
    LateChunks <- TimeoutInput, MaxLen <- BufferChunks,
    pipe <- written - taken, buf <- Len(data), eof <- eof \/ ~go,
    paused <- ~keepReading, reader <- Place, closed <- ~writerOpen

\* Every stream, bottomless or not, is a counted stream (lines 121-217): what
\* SubprocessIO is checked with is all a BufferedGenerator can do to it.
Counts == Counted!Spec

\* A next() that was called returns, or the worker is gone: a lost wake-up
\* between data_added.set() and clear() costs at most one timeout (193-195).
NextReturns == (cpc = "len") ~> (cpc = "idle" \/ ~Alive)

\* The child is never blocked for good on a bottomless stream that nobody
\* reads (stderr is not read until the end).
ChildNeverBlocked == <>(~writerOpen)

\* A consumer that keeps asking reaches the end of the stream, or the worker
\* was given up.
StreamEnds == KeepsConsuming => <>(result = "stop" \/ ~Alive)
===============================================================================
