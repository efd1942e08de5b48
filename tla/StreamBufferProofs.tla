-------------------------- MODULE StreamBufferProofs --------------------------
(***************************************************************************)
(* The safety properties of StreamBuffer, proved for every buffer size,    *)
(* timeout, pipe capacity and number of chunks.                            *)
(*                                                                         *)
(* The inductive invariant IInv has one named part per idea; each part is  *)
(* also checked by TLC before it is proved.                                *)
(***************************************************************************)
EXTENDS StreamBuffer, SequenceTheorems, TLAPS

\* The chunks that have been through the deque: 1..Appended.
Appended == IF inHand # 0 THEN inHand - 1 ELSE taken

\* Which chunk the reader holds at each of its steps, and that a wait can
\* only have expired for a chunk it has read.
HandInv ==
    /\ inHand # 0 => inHand = taken
    /\ rpc \in {"room", "pause", "wait", "recheck", "append", "exited"} =>
           inHand # 0
    /\ rpc \in {"enter", "reading", "signal"} => inHand = 0
    /\ expired <= taken
    /\ rpc \in {"loop", "room", "pause", "wait"} /\ inHand # 0 =>
           expired < taken

\* The deque holds the newest chunks in order.
DataInv ==
    /\ Len(data) <= Appended
    /\ \A i \in 1..Len(data) : data[i] = Appended - Len(data) + i

\* What was handed out comes just before them.
OutInv ==
    ~Bottomless =>
        /\ Len(out) + Len(data) = Appended
        /\ \A i \in 1..Len(out) : out[i] = i

\* EOF without a stop() means a drained pipe and a reader that is done.
EofInv ==
    /\ ~sourceOpen => ~go
    /\ cpc \in {"stopEof", "stopClose"} => ~go
    /\ eof /\ go => rpc \in {"lastSignal", "done"}
    /\ rpc \in {"setEof", "lastSignal", "done"} /\ go =>
           ~writerOpen /\ taken = written /\ inHand = 0
    /\ rpc = "loop" /\ inHand = 0 => ~writerOpen /\ taken = written

\* What next() has learnt by the time it is at each of its tests.
NextInv ==
    /\ cpc \in {"resume", "pop"} => data # <<>>
    /\ cpc = "testLen" => data # <<>> \/ eof
    /\ cpc = "testEof" => eof /\ (go => data = <<>>)
    /\ result \in {"chunk", "stop"}
    /\ result = "stop" => cpc \in {"idle", "stopEof", "stopClose"}
    /\ result = "stop" /\ go => eof /\ data = <<>>

\* The reader gets ahead of its limit only by expired waits, by the chunk it
\* is about to append, and by one a next() is about to take.
Owed == IF cpc = "pop" THEN 1 ELSE 0

BacklogInv ==
    /\ Len(data) <= ChunkCountMax + 1 + expired + Owed
    /\ rpc \in {"recheck", "append", "exited"} \/ (rpc = "wait" /\ keepReading)
           => Len(data) <= ChunkCountMax + expired + Owed
    /\ rpc = "append" => Len(data) <= ChunkCountMax + TimeoutInput
    /\ rpc = "exited" => Len(data) > ChunkCountMax + TimeoutInput
    /\ Len(data) <= ChunkCountMax + TimeoutInput + 1

\* A bottomless deque never holds more than its reader's limit, and loses a
\* chunk only to BufferChunks newer ones.
BottomlessInv ==
    Bottomless =>
        /\ Len(data) <= BufferChunks
        /\ rpc \notin {"pause", "wait", "recheck", "exited"}
        /\ \A i \in DOMAIN out : out[i] <= Appended - Len(data)
        /\ \A i, j \in DOMAIN out : i < j => out[i] < out[j]
        /\ \A c \in 1..(Appended - Len(data)) :
               c > Appended - BufferChunks => \E i \in DOMAIN out : out[i] = c

IInv ==
    /\ TypeOK
    /\ HandInv
    /\ DataInv
    /\ OutInv
    /\ EofInv
    /\ NextInv
    /\ BacklogInv
    /\ BottomlessInv

USE StreamAssumption
    DEF ChunkCountMax, ReaderGoes, ReaderJumps, ConsumerGoes, ConsumerJumps,
        Alive, child, events, reader, consumer, ReaderPC, ConsumerPC

-------------------------------------------------------------------------------
(* The deque.                                                              *)

\* The bounded deque that is full slides by one: every chunk moves down a
\* place and the new one takes the last.
LEMMA SlideProperties ==
    ASSUME NEW S, NEW s \in Seq(S), s # <<>>, NEW e \in S
    PROVE  /\ Append(Tail(s), e) \in Seq(S)
           /\ Len(Append(Tail(s), e)) = Len(s)
           /\ \A i \in 1..(Len(s) - 1) : Append(Tail(s), e)[i] = s[i + 1]
           /\ Append(Tail(s), e)[Len(s)] = e
<1>1. /\ Tail(s) \in Seq(S)
      /\ Len(Tail(s)) = Len(s) - 1
      /\ \A i \in 1..Len(Tail(s)) : Tail(s)[i] = s[i + 1]
  BY HeadTailProperties
<1>2. Len(s) \in Nat \ {0}
  BY EmptySeq
<1>3. /\ Append(Tail(s), e) \in Seq(S)
      /\ Len(Append(Tail(s), e)) = Len(Tail(s)) + 1
      /\ \A i \in 1..Len(Tail(s)) : Append(Tail(s), e)[i] = Tail(s)[i]
      /\ Append(Tail(s), e)[Len(Tail(s)) + 1] = e
  BY <1>1, AppendProperties
<1> QED
  BY <1>1, <1>2, <1>3

\* The only steps that touch the deque, the chunks in flight or the chunks
\* handed out.
LEMMA DataFrame ==
    [Next]_vars =>
        Reads \/ Appends \/ Pops \/ UNCHANGED <<data, out, taken, inHand>>
<1>1. ASSUME ChildStep \/ (Alive /\ ChildDies)
      PROVE  UNCHANGED <<data, out, taken, inHand>>
  BY <1>1 DEF ChildStep, ChildWrites, ChildCloses, ChildDies
<1>2. ASSUME ReaderStep
      PROVE  Reads \/ Appends \/ UNCHANGED <<data, out, taken, inHand>>
  BY <1>2 DEF ReaderStep, EnterRead, TestLoop, TestRoom, Pauses, EndsWait,
              Rechecks, Signals, SetsEof, LastSignal
<1>3. ASSUME CallsNext \/ NextStep
      PROVE  Pops \/ UNCHANGED <<data, out, taken, inHand>>
  BY <1>3 DEF CallsNext, NextStep, TestLen, TestEof, ClearsDataAdded,
              WaitsForData, RetestsLen, Resumes, EndsNext
<1>4. ASSUME CallsStop \/ StopStep
      PROVE  UNCHANGED <<data, out, taken, inHand>>
  BY <1>4 DEF CallsStop, StopStep, StopSetsEof, StopCloses
<1> QED
  BY <1>1, <1>2, <1>3, <1>4 DEF Next, vars

-------------------------------------------------------------------------------
(* The parts of the invariant, one at a time.                              *)

\* A chunk in hand is a chunk of the stream, so the deque only holds those.
LEMMA TypeStep == IInv /\ [Next]_vars => TypeOK'
<1> SUFFICES ASSUME IInv, [Next]_vars PROVE TypeOK'
  OBVIOUS
<1> USE DEF IInv
<1>1. CASE ChildWrites
  BY <1>1 DEF ChildWrites, TypeOK
<1>2. CASE ChildCloses
  <2>1. writerOpen' \in BOOLEAN
    BY <1>2 DEF ChildCloses
  <2>2. UNCHANGED <<total, written, sourceOpen, data, events, reader, consumer,
                    expired>>
    BY <1>2 DEF ChildCloses
  <2> QED
    BY <2>1, <2>2 DEF TypeOK
<1>3. CASE ChildDies
  <2>1. writerOpen' \in BOOLEAN
    BY <1>3 DEF ChildDies
  <2>2. UNCHANGED <<total, written, sourceOpen, data, events, reader, consumer,
                    expired>>
    BY <1>3 DEF ChildDies
  <2> QED
    BY <2>1, <2>2 DEF TypeOK
<1>4. CASE EnterRead
  BY <1>4 DEF EnterRead, TypeOK
<1>5. CASE Reads
  BY <1>5 DEF Reads, TypeOK
<1>6. CASE TestLoop
  BY <1>6 DEF TestLoop, TypeOK
<1>7. CASE TestRoom
  BY <1>7 DEF TestRoom, TypeOK
<1>8. CASE Pauses
  BY <1>8 DEF Pauses, TypeOK
<1>9. CASE EndsWait
  BY <1>9 DEF EndsWait, TypeOK, HandInv
<1>10. CASE Rechecks
  BY <1>10 DEF Rechecks, TypeOK
<1>11. CASE Appends
  <2>1. inHand \in 1..MaxChunks
    BY <1>11 DEF Appends, TypeOK, HandInv
  <2>2. Append(data, inHand) \in Seq(1..MaxChunks)
    <3>1. data \in Seq(1..MaxChunks)
      BY DEF TypeOK
    <3> HIDE DEF IInv
    <3> QED
      BY ONLY <2>1, <3>1, AppendProperties
  <2>3. Bottomless /\ Len(data) = BufferChunks => data # <<>>
    BY EmptySeq DEF TypeOK
  <2>4. Bottomless /\ Len(data) = BufferChunks =>
            Append(Tail(data), inHand) \in Seq(1..MaxChunks)
    BY <2>1, <2>3, SlideProperties DEF TypeOK
  <2>5. data' \in Seq(1..MaxChunks)
    BY <1>11, <2>2, <2>4 DEF Appends
  <2> QED
    BY <1>11, <2>5 DEF Appends, TypeOK
<1>12. CASE Signals
  BY <1>12 DEF Signals, TypeOK
<1>13. CASE SetsEof
  BY <1>13 DEF SetsEof, TypeOK
<1>14. CASE LastSignal
  BY <1>14 DEF LastSignal, TypeOK
<1>15. CASE CallsNext
  BY <1>15 DEF CallsNext, TypeOK
<1>16. CASE TestLen
  BY <1>16 DEF TestLen, TypeOK
<1>17. CASE TestEof
  BY <1>17 DEF TestEof, TypeOK
<1>18. CASE ClearsDataAdded
  BY <1>18 DEF ClearsDataAdded, TypeOK
<1>19. CASE WaitsForData
  BY <1>19 DEF WaitsForData, TypeOK
<1>20. CASE RetestsLen
  BY <1>20 DEF RetestsLen, TypeOK
<1>21. CASE Resumes
  BY <1>21 DEF Resumes, TypeOK
<1>22. CASE Pops
  <2>1. Head(data) \in 1..MaxChunks /\ Tail(data) \in Seq(1..MaxChunks)
    BY <1>22, HeadTailProperties DEF Pops, TypeOK
  <2>2. Append(out, Head(data)) \in Seq(1..MaxChunks)
    BY <2>1, AppendProperties DEF TypeOK
  <2> QED
    BY <1>22, <2>1, <2>2 DEF Pops, TypeOK
<1>23. CASE EndsNext
  BY <1>23 DEF EndsNext, TypeOK
<1>24. CASE CallsStop
  BY <1>24 DEF CallsStop, TypeOK
<1>25. CASE StopSetsEof
  BY <1>25 DEF StopSetsEof, TypeOK
<1>26. CASE StopCloses
  BY <1>26 DEF StopCloses, TypeOK
<1>27. CASE UNCHANGED vars
  BY <1>27 DEF vars, TypeOK
<1> QED
  BY <1>1, <1>2, <1>3, <1>4, <1>5, <1>6, <1>7, <1>8, <1>9, <1>10,
     <1>11, <1>12, <1>13, <1>14, <1>15, <1>16, <1>17, <1>18, <1>19,
     <1>20, <1>21, <1>22, <1>23, <1>24, <1>25, <1>26, <1>27
     DEF Next, ChildStep, ReaderStep, NextStep, StopStep

\* The reader's steps carry the chunk it read to the deque.
LEMMA HandStep == IInv /\ [Next]_vars => HandInv'
<1> SUFFICES ASSUME IInv, [Next]_vars PROVE HandInv'
  OBVIOUS
<1> USE DEF IInv
<1>1. CASE ChildWrites
  BY <1>1 DEF ChildWrites, TypeOK, HandInv
<1>2. CASE ChildCloses
  BY <1>2 DEF ChildCloses, TypeOK, HandInv
<1>3. CASE ChildDies
  BY <1>3 DEF ChildDies, TypeOK, HandInv
<1>4. CASE EnterRead
  BY <1>4 DEF EnterRead, TypeOK, HandInv
<1>5. CASE Reads
  BY <1>5 DEF Reads, TypeOK, HandInv
<1>6. CASE TestLoop
  BY <1>6 DEF TestLoop, TypeOK, HandInv
<1>7. CASE TestRoom
  BY <1>7 DEF TestRoom, TypeOK, HandInv
<1>8. CASE Pauses
  BY <1>8 DEF Pauses, TypeOK, HandInv
<1>9. CASE EndsWait
  BY <1>9 DEF EndsWait, TypeOK, HandInv
<1>10. CASE Rechecks
  BY <1>10 DEF Rechecks, TypeOK, HandInv
<1>11. CASE Appends
  BY <1>11 DEF Appends, TypeOK, HandInv
<1>12. CASE Signals
  BY <1>12 DEF Signals, TypeOK, HandInv
<1>13. CASE SetsEof
  BY <1>13 DEF SetsEof, TypeOK, HandInv
<1>14. CASE LastSignal
  BY <1>14 DEF LastSignal, TypeOK, HandInv
<1>15. CASE CallsNext
  BY <1>15 DEF CallsNext, TypeOK, HandInv
<1>16. CASE TestLen
  BY <1>16 DEF TestLen, TypeOK, HandInv
<1>17. CASE TestEof
  BY <1>17 DEF TestEof, TypeOK, HandInv
<1>18. CASE ClearsDataAdded
  BY <1>18 DEF ClearsDataAdded, TypeOK, HandInv
<1>19. CASE WaitsForData
  BY <1>19 DEF WaitsForData, TypeOK, HandInv
<1>20. CASE RetestsLen
  BY <1>20 DEF RetestsLen, TypeOK, HandInv
<1>21. CASE Resumes
  BY <1>21 DEF Resumes, TypeOK, HandInv
<1>22. CASE Pops
  BY <1>22 DEF Pops, TypeOK, HandInv
<1>23. CASE EndsNext
  BY <1>23 DEF EndsNext, TypeOK, HandInv
<1>24. CASE CallsStop
  BY <1>24 DEF CallsStop, TypeOK, HandInv
<1>25. CASE StopSetsEof
  BY <1>25 DEF StopSetsEof, TypeOK, HandInv
<1>26. CASE StopCloses
  BY <1>26 DEF StopCloses, TypeOK, HandInv
<1>27. CASE UNCHANGED vars
  BY <1>27 DEF vars, TypeOK, HandInv
<1> QED
  BY <1>1, <1>2, <1>3, <1>4, <1>5, <1>6, <1>7, <1>8, <1>9, <1>10,
     <1>11, <1>12, <1>13, <1>14, <1>15, <1>16, <1>17, <1>18, <1>19,
     <1>20, <1>21, <1>22, <1>23, <1>24, <1>25, <1>26, <1>27
     DEF Next, ChildStep, ReaderStep, NextStep, StopStep

\* Appends adds the chunk after the newest, Pops takes the oldest.
LEMMA DataStep == IInv /\ [Next]_vars => DataInv'
<1> SUFFICES ASSUME IInv, [Next]_vars PROVE DataInv'
  OBVIOUS
<1> USE DEF IInv
<1>1. CASE Reads
  <2>1. data' = data /\ Appended' = Appended
    BY <1>1 DEF Reads, TypeOK, HandInv, Appended
  <2> QED
    BY <2>1 DEF DataInv
<1>2. CASE Appends
  <2>1. inHand \in 1..MaxChunks /\ inHand = taken /\ Len(data) \in Nat
    BY <1>2 DEF Appends, TypeOK, HandInv
  <2>2. Appended = taken - 1 /\ Appended' = taken
    BY <1>2, <2>1 DEF Appends, Appended, TypeOK
  <2>3. CASE Bottomless /\ Len(data) = BufferChunks
    <3>1. data # <<>> /\ data' = Append(Tail(data), inHand)
      BY <1>2, <2>3, EmptySeq DEF Appends, TypeOK
    <3>2. /\ Len(data') = Len(data)
          /\ \A i \in 1..(Len(data) - 1) : data'[i] = data[i + 1]
          /\ data'[Len(data)] = inHand
      BY <2>1, <3>1, SlideProperties DEF TypeOK
    <3> QED
      BY <2>1, <2>2, <2>3, <3>2 DEF DataInv
  <2>4. CASE ~(Bottomless /\ Len(data) = BufferChunks)
    <3>1. data' = Append(data, inHand)
      BY <1>2, <2>4 DEF Appends
    <3>2. /\ Len(data') = Len(data) + 1
          /\ \A i \in 1..Len(data) : data'[i] = data[i]
          /\ data'[Len(data) + 1] = inHand
      BY <2>1, <3>1, AppendProperties DEF TypeOK
    <3>3. ASSUME NEW i \in 1..Len(data')
          PROVE  data'[i] = Appended' - Len(data') + i
      <4>1. CASE i = Len(data')
        BY <2>1, <2>2, <3>2, <4>1
      <4>2. CASE i # Len(data')
        BY <2>1, <2>2, <3>2, <4>2 DEF DataInv
      <4> QED
        BY <4>1, <4>2
    <3> QED
      BY <2>1, <2>2, <3>2, <3>3 DEF DataInv
  <2> QED
    BY <2>3, <2>4
<1>3. CASE Pops
  <2>1. /\ Len(data') = Len(data) - 1
        /\ \A i \in 1..Len(data') : data'[i] = data[i + 1]
    BY <1>3, HeadTailProperties DEF Pops, TypeOK
  <2>2. Appended' = Appended /\ Len(data) \in Nat /\ Appended \in Nat
    BY <1>3 DEF Pops, Appended, TypeOK
  <2> QED
    BY <2>1, <2>2 DEF DataInv
<1>4. CASE UNCHANGED <<data, out, taken, inHand>>
  BY <1>4 DEF DataInv, Appended
<1> QED
  BY <1>1, <1>2, <1>3, <1>4, DataFrame

\* What is popped is the successor of what was handed out last.
LEMMA OutStep == IInv /\ [Next]_vars => OutInv'
<1> SUFFICES ASSUME IInv, [Next]_vars, ~Bottomless
             PROVE  /\ Len(out') + Len(data') = Appended'
                    /\ \A i \in 1..Len(out') : out'[i] = i
  BY DEF OutInv
<1> USE DEF IInv
<1>1. CASE Reads
  BY <1>1 DEF Reads, TypeOK, HandInv, OutInv, Appended
<1>2. CASE Appends
  <2>1. inHand \in 1..MaxChunks /\ inHand = taken
    BY <1>2 DEF Appends, TypeOK, HandInv
  <2>2. Appended = taken - 1 /\ Appended' = taken /\ out' = out
    BY <1>2, <2>1 DEF Appends, Appended, TypeOK
  <2>3. Len(data') = Len(data) + 1
    BY <1>2, <2>1, AppendProperties DEF Appends, TypeOK
  <2>4. Len(data) \in Nat /\ Len(out) \in Nat /\ taken \in Nat
    BY DEF TypeOK
  <2> QED
    BY <2>2, <2>3, <2>4 DEF OutInv
<1>3. CASE Pops
  <2>1. Len(data) \in Nat \ {0} /\ Len(out) \in Nat /\ Appended \in Nat
    BY <1>3, EmptySeq DEF Pops, TypeOK, Appended
  <2>2. Head(data) \in 1..MaxChunks /\ Len(Tail(data)) = Len(data) - 1
    BY <1>3, HeadTailProperties DEF Pops, TypeOK
  <2>3. Head(data) = Len(out) + 1
    <3>1. Head(data) = data[1]
      BY <1>3 DEF Pops, TypeOK
    <3> QED
      BY <2>1, <3>1 DEF DataInv, OutInv
  <2>4. /\ Len(out') = Len(out) + 1
        /\ \A i \in 1..Len(out) : out'[i] = out[i]
        /\ out'[Len(out) + 1] = Head(data)
    BY <1>3, <2>2, AppendProperties DEF Pops, TypeOK
  <2>5. Appended' = Appended /\ data' = Tail(data)
    BY <1>3 DEF Pops, Appended
  <2> QED
    BY <2>1, <2>2, <2>3, <2>4, <2>5 DEF OutInv
<1>4. CASE UNCHANGED <<data, out, taken, inHand>>
  BY <1>4 DEF OutInv, Appended
<1> QED
  BY <1>1, <1>2, <1>3, <1>4, DataFrame

\* Only the reader sets EOF while nobody has called stop(), and only when it
\* has read '' from a closed pipe.
LEMMA EofStep == IInv /\ [Next]_vars => EofInv'
<1> SUFFICES ASSUME IInv, [Next]_vars PROVE EofInv'
  OBVIOUS
<1> USE DEF IInv
<1>1. CASE ChildWrites
  BY <1>1 DEF ChildWrites, TypeOK, HandInv, EofInv
<1>2. CASE ChildCloses
  BY <1>2 DEF ChildCloses, TypeOK, HandInv, EofInv
<1>3. CASE ChildDies
  BY <1>3 DEF ChildDies, TypeOK, HandInv, EofInv
<1>4. CASE EnterRead
  BY <1>4 DEF EnterRead, TypeOK, HandInv, EofInv
<1>5. CASE Reads
  BY <1>5 DEF Reads, TypeOK, HandInv, EofInv
<1>6. CASE TestLoop
  BY <1>6 DEF TestLoop, TypeOK, HandInv, EofInv
<1>7. CASE TestRoom
  BY <1>7 DEF TestRoom, TypeOK, HandInv, EofInv
<1>8. CASE Pauses
  BY <1>8 DEF Pauses, TypeOK, HandInv, EofInv
<1>9. CASE EndsWait
  BY <1>9 DEF EndsWait, TypeOK, HandInv, EofInv
<1>10. CASE Rechecks
  BY <1>10 DEF Rechecks, TypeOK, HandInv, EofInv
<1>11. CASE Appends
  BY <1>11 DEF Appends, TypeOK, HandInv, EofInv
<1>12. CASE Signals
  BY <1>12 DEF Signals, TypeOK, HandInv, EofInv
<1>13. CASE SetsEof
  BY <1>13 DEF SetsEof, TypeOK, HandInv, EofInv
<1>14. CASE LastSignal
  BY <1>14 DEF LastSignal, TypeOK, HandInv, EofInv
<1>15. CASE CallsNext
  BY <1>15 DEF CallsNext, TypeOK, HandInv, EofInv
<1>16. CASE TestLen
  BY <1>16 DEF TestLen, TypeOK, HandInv, EofInv
<1>17. CASE TestEof
  BY <1>17 DEF TestEof, TypeOK, HandInv, EofInv
<1>18. CASE ClearsDataAdded
  BY <1>18 DEF ClearsDataAdded, TypeOK, HandInv, EofInv
<1>19. CASE WaitsForData
  BY <1>19 DEF WaitsForData, TypeOK, HandInv, EofInv
<1>20. CASE RetestsLen
  BY <1>20 DEF RetestsLen, TypeOK, HandInv, EofInv
<1>21. CASE Resumes
  BY <1>21 DEF Resumes, TypeOK, HandInv, EofInv
<1>22. CASE Pops
  BY <1>22 DEF Pops, TypeOK, HandInv, EofInv
<1>23. CASE EndsNext
  BY <1>23 DEF EndsNext, TypeOK, HandInv, EofInv
<1>24. CASE CallsStop
  BY <1>24 DEF CallsStop, TypeOK, HandInv, EofInv
<1>25. CASE StopSetsEof
  BY <1>25 DEF StopSetsEof, TypeOK, HandInv, EofInv
<1>26. CASE StopCloses
  BY <1>26 DEF StopCloses, TypeOK, HandInv, EofInv
<1>27. CASE UNCHANGED vars
  BY <1>27 DEF vars, TypeOK, HandInv, EofInv
<1> QED
  BY <1>1, <1>2, <1>3, <1>4, <1>5, <1>6, <1>7, <1>8, <1>9, <1>10,
     <1>11, <1>12, <1>13, <1>14, <1>15, <1>16, <1>17, <1>18, <1>19,
     <1>20, <1>21, <1>22, <1>23, <1>24, <1>25, <1>26, <1>27
     DEF Next, ChildStep, ReaderStep, NextStep, StopStep

\* Between the tests of next() the deque only grows and EOF stays set.
LEMMA NextStepInv == IInv /\ [Next]_vars => NextInv'
<1> SUFFICES ASSUME IInv, [Next]_vars PROVE NextInv'
  OBVIOUS
<1> USE DEF IInv
<1>1. CASE ChildWrites
  BY <1>1 DEF ChildWrites, TypeOK, HandInv, EofInv, NextInv
<1>2. CASE ChildCloses
  BY <1>2 DEF ChildCloses, TypeOK, HandInv, EofInv, NextInv
<1>3. CASE ChildDies
  BY <1>3 DEF ChildDies, TypeOK, HandInv, EofInv, NextInv
<1>4. CASE EnterRead
  BY <1>4 DEF EnterRead, TypeOK, HandInv, EofInv, NextInv
<1>5. CASE Reads
  BY <1>5 DEF Reads, TypeOK, HandInv, EofInv, NextInv
<1>6. CASE TestLoop
  BY <1>6 DEF TestLoop, TypeOK, HandInv, EofInv, NextInv
<1>7. CASE TestRoom
  BY <1>7 DEF TestRoom, TypeOK, HandInv, EofInv, NextInv
<1>8. CASE Pauses
  BY <1>8 DEF Pauses, TypeOK, HandInv, EofInv, NextInv
<1>9. CASE EndsWait
  BY <1>9 DEF EndsWait, TypeOK, HandInv, EofInv, NextInv
<1>10. CASE Rechecks
  BY <1>10 DEF Rechecks, TypeOK, HandInv, EofInv, NextInv
<1>11. CASE Appends
  <2>1. inHand \in 1..MaxChunks
    BY <1>11 DEF Appends, TypeOK, HandInv
  <2>2. Append(data, inHand) # <<>>
    <3>1. data \in Seq(1..MaxChunks)
      BY DEF TypeOK
    <3> HIDE DEF IInv
    <3> QED
      BY ONLY <2>1, <3>1, AppendProperties
  <2>3. Bottomless /\ Len(data) = BufferChunks => data # <<>>
    BY EmptySeq DEF TypeOK
  <2>4. Bottomless /\ Len(data) = BufferChunks =>
            Tail(data) \in Seq(1..MaxChunks)
    BY <2>3, HeadTailProperties DEF TypeOK
  <2>5. ASSUME Bottomless, Len(data) = BufferChunks
        PROVE  Append(Tail(data), inHand) # <<>>
    <3>1. Tail(data) \in Seq(1..MaxChunks)
      BY <2>4, <2>5
    <3>2. Len(Append(Tail(data), inHand)) = Len(Tail(data)) + 1
      BY <2>1, <3>1, AppendProperties
    <3>3. Len(Tail(data)) \in Nat
      BY <3>1, LenProperties
    <3> QED
      BY <3>2, <3>3, EmptySeq
  <2>6. data' # <<>>
    BY <1>11, <2>2, <2>5 DEF Appends
  <2> QED
    BY <1>11, <2>6 DEF Appends, HandInv, EofInv, NextInv
<1>12. CASE Signals
  BY <1>12 DEF Signals, TypeOK, HandInv, EofInv, NextInv
<1>13. CASE SetsEof
  BY <1>13 DEF SetsEof, TypeOK, HandInv, EofInv, NextInv
<1>14. CASE LastSignal
  BY <1>14 DEF LastSignal, TypeOK, HandInv, EofInv, NextInv
<1>15. CASE CallsNext
  BY <1>15 DEF CallsNext, TypeOK, HandInv, EofInv, NextInv
<1>16. CASE TestLen
  BY <1>16 DEF TestLen, TypeOK, HandInv, EofInv, NextInv
<1>17. CASE TestEof
  BY <1>17 DEF TestEof, TypeOK, HandInv, EofInv, NextInv
<1>18. CASE ClearsDataAdded
  BY <1>18 DEF ClearsDataAdded, TypeOK, HandInv, EofInv, NextInv
<1>19. CASE WaitsForData
  BY <1>19 DEF WaitsForData, TypeOK, HandInv, EofInv, NextInv
<1>20. CASE RetestsLen
  BY <1>20 DEF RetestsLen, TypeOK, HandInv, EofInv, NextInv
<1>21. CASE Resumes
  BY <1>21 DEF Resumes, TypeOK, HandInv, EofInv, NextInv
<1>22. CASE Pops
  BY <1>22 DEF Pops, TypeOK, HandInv, EofInv, NextInv
<1>23. CASE EndsNext
  BY <1>23 DEF EndsNext, TypeOK, HandInv, EofInv, NextInv
<1>24. CASE CallsStop
  BY <1>24 DEF CallsStop, TypeOK, HandInv, EofInv, NextInv
<1>25. CASE StopSetsEof
  BY <1>25 DEF StopSetsEof, TypeOK, HandInv, EofInv, NextInv
<1>26. CASE StopCloses
  BY <1>26 DEF StopCloses, TypeOK, HandInv, EofInv, NextInv
<1>27. CASE UNCHANGED vars
  BY <1>27 DEF vars, TypeOK, HandInv, EofInv, NextInv
<1> QED
  BY <1>1, <1>2, <1>3, <1>4, <1>5, <1>6, <1>7, <1>8, <1>9, <1>10,
     <1>11, <1>12, <1>13, <1>14, <1>15, <1>16, <1>17, <1>18, <1>19,
     <1>20, <1>21, <1>22, <1>23, <1>24, <1>25, <1>26, <1>27
     DEF Next, ChildStep, ReaderStep, NextStep, StopStep

\* Every append above the limit is paid for by an expired wait or by a
\* next() that has set keep_reading and not yet popped.
LEMMA BacklogStep == IInv /\ [Next]_vars => BacklogInv'
<1> SUFFICES ASSUME IInv, [Next]_vars PROVE BacklogInv'
  OBVIOUS
<1> USE DEF IInv, Owed
<1>1. CASE ChildWrites
  BY <1>1 DEF ChildWrites, TypeOK, HandInv, NextInv, BacklogInv
<1>2. CASE ChildCloses
  BY <1>2 DEF ChildCloses, TypeOK, HandInv, NextInv, BacklogInv
<1>3. CASE ChildDies
  BY <1>3 DEF ChildDies, TypeOK, HandInv, NextInv, BacklogInv
<1>4. CASE EnterRead
  BY <1>4 DEF EnterRead, TypeOK, HandInv, NextInv, BacklogInv
<1>5. CASE Reads
  BY <1>5 DEF Reads, TypeOK, HandInv, NextInv, BacklogInv
<1>6. CASE TestLoop
  BY <1>6 DEF TestLoop, TypeOK, HandInv, NextInv, BacklogInv
<1>7. CASE TestRoom
  BY <1>7 DEF TestRoom, TypeOK, HandInv, NextInv, BacklogInv
<1>8. CASE Pauses
  BY <1>8 DEF Pauses, TypeOK, HandInv, NextInv, BacklogInv
<1>9. CASE EndsWait
  BY <1>9 DEF EndsWait, TypeOK, HandInv, NextInv, BacklogInv
<1>10. CASE Rechecks
  BY <1>10 DEF Rechecks, TypeOK, HandInv, NextInv, BacklogInv
<1>11. CASE Appends
  BY <1>11 DEF Appends, TypeOK, HandInv, NextInv, BacklogInv
<1>12. CASE Signals
  BY <1>12 DEF Signals, TypeOK, HandInv, NextInv, BacklogInv
<1>13. CASE SetsEof
  BY <1>13 DEF SetsEof, TypeOK, HandInv, NextInv, BacklogInv
<1>14. CASE LastSignal
  BY <1>14 DEF LastSignal, TypeOK, HandInv, NextInv, BacklogInv
<1>15. CASE CallsNext
  BY <1>15 DEF CallsNext, TypeOK, HandInv, NextInv, BacklogInv
<1>16. CASE TestLen
  BY <1>16 DEF TestLen, TypeOK, HandInv, NextInv, BacklogInv
<1>17. CASE TestEof
  BY <1>17 DEF TestEof, TypeOK, HandInv, NextInv, BacklogInv
<1>18. CASE ClearsDataAdded
  BY <1>18 DEF ClearsDataAdded, TypeOK, HandInv, NextInv, BacklogInv
<1>19. CASE WaitsForData
  BY <1>19 DEF WaitsForData, TypeOK, HandInv, NextInv, BacklogInv
<1>20. CASE RetestsLen
  BY <1>20 DEF RetestsLen, TypeOK, HandInv, NextInv, BacklogInv
<1>21. CASE Resumes
  BY <1>21 DEF Resumes, TypeOK, HandInv, NextInv, BacklogInv
<1>22. CASE Pops
  BY <1>22 DEF Pops, TypeOK, HandInv, NextInv, BacklogInv
<1>23. CASE EndsNext
  BY <1>23 DEF EndsNext, TypeOK, HandInv, NextInv, BacklogInv
<1>24. CASE CallsStop
  BY <1>24 DEF CallsStop, TypeOK, HandInv, NextInv, BacklogInv
<1>25. CASE StopSetsEof
  BY <1>25 DEF StopSetsEof, TypeOK, HandInv, NextInv, BacklogInv
<1>26. CASE StopCloses
  BY <1>26 DEF StopCloses, TypeOK, HandInv, NextInv, BacklogInv
<1>27. CASE UNCHANGED vars
  BY <1>27 DEF vars, TypeOK, HandInv, NextInv, BacklogInv
<1> QED
  BY <1>1, <1>2, <1>3, <1>4, <1>5, <1>6, <1>7, <1>8, <1>9, <1>10,
     <1>11, <1>12, <1>13, <1>14, <1>15, <1>16, <1>17, <1>18, <1>19,
     <1>20, <1>21, <1>22, <1>23, <1>24, <1>25, <1>26, <1>27
     DEF Next, ChildStep, ReaderStep, NextStep, StopStep

\* A chunk leaves a bottomless deque either to the consumer or because
\* BufferChunks newer ones are in it.
LEMMA BottomlessStep == IInv /\ [Next]_vars => BottomlessInv'
<1> SUFFICES ASSUME IInv, [Next]_vars, Bottomless
             PROVE  BottomlessInv'
  BY DEF BottomlessInv
<1> USE DEF IInv
<1> DEFINE Gone == Appended - Len(data)
<1>1. /\ Len(data) \in Nat /\ Len(out) \in Nat /\ Appended \in Nat
      /\ DOMAIN out = 1..Len(out)
      /\ \A i \in DOMAIN out : out[i] \in Nat
      /\ Len(data) <= Appended
  BY DEF TypeOK, Appended, DataInv
<1>2. /\ Len(data') <= BufferChunks
      /\ rpc' \notin {"pause", "wait", "recheck", "exited"}
  <2>1. CASE UNCHANGED <<data, out, taken, inHand>>
    <3>1. Len(data) <= ChunkCountMax
      BY <1>1 DEF BottomlessInv
    <3> QED
      BY <2>1, <3>1
         DEF BottomlessInv, TypeOK, Next, ChildStep, ReaderStep, NextStep,
             StopStep, vars, ChildWrites, ChildCloses, ChildDies, EnterRead,
             Reads, TestLoop, TestRoom, Pauses, EndsWait, Rechecks, Appends,
             Signals, SetsEof, LastSignal, CallsNext, TestLen, TestEof,
             ClearsDataAdded, WaitsForData, RetestsLen, Resumes, Pops,
             EndsNext, CallsStop, StopSetsEof, StopCloses
  <2>2. CASE Reads
    BY <2>2 DEF Reads, BottomlessInv
  <2>3. CASE Pops
    <3>1. Len(data') = Len(data) - 1
      BY <2>3, HeadTailProperties DEF Pops, TypeOK
    <3> QED
      BY <1>1, <2>3, <3>1 DEF Pops, BottomlessInv
  <2>4. CASE Appends
    BY <2>4 DEF Appends, BottomlessInv, TypeOK
  <2> QED
    BY <2>1, <2>2, <2>3, <2>4, DataFrame
<1>3. /\ \A i \in DOMAIN out : out[i] <= Gone
      /\ \A i, j \in DOMAIN out : i < j => out[i] < out[j]
      /\ \A c \in 1..Gone : c > Appended - BufferChunks =>
             \E i \in DOMAIN out : out[i] = c
  BY DEF BottomlessInv
<1>4. CASE Gone' = Gone /\ out' = out /\ Appended' \in {Appended, Appended + 1}
  <2>1. ASSUME NEW c \in 1..Gone', c > Appended' - BufferChunks
        PROVE  \E i \in DOMAIN out' : out'[i] = c
    <3>1. c \in 1..Gone
      BY <1>4
    <3>2. c \in Nat /\ Appended \in Nat /\ BufferChunks \in Nat
          /\ Appended' >= Appended
      BY <1>1, <1>4, <3>1
    <3>3. c > Appended - BufferChunks
      <4>1. ASSUME NEW a \in Nat, NEW b \in Nat, NEW n \in Nat, NEW x \in Nat,
                   b >= a, x > b - n
            PROVE  x > a - n
        BY <4>1
      <4>2. Appended' \in Nat
        BY <1>4, <3>2
      <4>3. c > Appended' - BufferChunks
        BY <2>1
      <4> QED
        BY <3>2, <4>1, <4>2, <4>3
    <3>4. PICK i \in DOMAIN out : out[i] = c
      BY <1>3, <3>1, <3>3
    <3> QED
      BY <1>4, <3>4
  <2> QED
    BY <1>2, <1>3, <1>4, <2>1 DEF BottomlessInv
<1>5. CASE Appends
  <2>1. inHand \in 1..MaxChunks /\ inHand = taken
    BY <1>5 DEF Appends, TypeOK, HandInv
  <2>2. Appended' = Appended + 1 /\ out' = out
    BY <1>5, <2>1 DEF Appends, Appended, TypeOK
  <2>3. CASE Len(data) = BufferChunks
    <3>1. data # <<>> /\ data' = Append(Tail(data), inHand)
      BY <1>5, <2>3, EmptySeq DEF Appends, TypeOK
    <3>2. Len(data') = BufferChunks
      BY <2>1, <2>3, <3>1, SlideProperties DEF TypeOK
    <3>3. Gone' = Gone + 1 /\ Gone' = Appended' - BufferChunks
      BY <1>1, <2>2, <2>3, <3>2
    <3>4. \A c \in 1..Gone' : ~(c > Appended' - BufferChunks)
      BY <1>1, <2>2, <3>3
    <3>5. \A i \in DOMAIN out' : out'[i] <= Gone'
      BY <1>1, <1>3, <2>2, <3>3
    <3> QED
      BY <1>2, <1>3, <2>2, <3>4, <3>5 DEF BottomlessInv
  <2>4. CASE Len(data) # BufferChunks
    <3>1. data' = Append(data, inHand)
      BY <1>5, <2>4 DEF Appends
    <3>2. Len(data') = Len(data) + 1
      BY <2>1, <3>1, AppendProperties DEF TypeOK
    <3>3. Gone' = Gone
      BY <1>1, <2>2, <3>2
    <3> QED
      BY <1>4, <2>2, <3>3
  <2> QED
    BY <2>3, <2>4
<1>6. CASE Pops
  <2>1. Appended' = Appended /\ data # <<>>
    BY <1>6 DEF Pops, Appended
  <2>2. Len(data') = Len(data) - 1 /\ Head(data) \in 1..MaxChunks
    BY <1>6, HeadTailProperties DEF Pops, TypeOK
  <2>3. Gone' = Gone + 1
    BY <1>1, <2>1, <2>2
  <2>4. Head(data) = Gone'
    <3>1. Len(data) \in Nat \ {0} /\ Head(data) = data[1]
      BY <2>1, EmptySeq DEF TypeOK
    <3> QED
      BY <1>1, <2>3, <3>1 DEF DataInv
  <2>5. /\ out' \in Seq(1..MaxChunks)
        /\ DOMAIN out' = 1..(Len(out) + 1)
        /\ \A i \in 1..Len(out) : out'[i] = out[i]
        /\ out'[Len(out) + 1] = Gone'
    <3>1. out' = Append(out, Head(data)) /\ out \in Seq(1..MaxChunks)
      BY <1>6 DEF Pops, TypeOK
    <3> QED
      BY <2>2, <2>4, <3>1, AppendProperties, LenProperties
  <2>6. ASSUME NEW i \in DOMAIN out'
        PROVE  out'[i] <= Gone'
    <3>1. Gone \in Nat /\ Gone' = Gone + 1
      BY <1>1, <2>3
    <3>2. CASE i = Len(out) + 1
      BY <2>5, <3>1, <3>2
    <3>3. CASE i # Len(out) + 1
      <4>1. i \in 1..Len(out)
        BY <1>1, <2>5, <3>3
      <4>2. out'[i] = out[i] /\ out[i] <= Gone /\ out[i] \in Nat
        BY <1>1, <1>3, <2>5, <4>1
      <4> QED
        BY <3>1, <4>2
    <3> QED
      BY <3>2, <3>3
  <2>7. \A i, j \in DOMAIN out' : i < j => out'[i] < out'[j]
    <3> SUFFICES ASSUME NEW i \in DOMAIN out', NEW j \in DOMAIN out', i < j
                 PROVE  out'[i] < out'[j]
      OBVIOUS
    <3>1. i \in 1..Len(out)
      BY <1>1, <2>5
    <3>2. CASE j = Len(out) + 1
      BY <1>1, <1>3, <2>3, <2>5, <3>1, <3>2
    <3>3. CASE j # Len(out) + 1
      <4>1. j \in 1..Len(out)
        BY <1>1, <2>5, <3>3
      <4> QED
        BY <1>1, <1>3, <2>5, <3>1, <4>1
    <3> QED
      BY <3>2, <3>3
  <2>8. ASSUME NEW c \in 1..Gone', c > Appended' - BufferChunks
        PROVE  \E i \in DOMAIN out' : out'[i] = c
    <3>1. CASE c = Gone'
      BY <1>1, <2>5, <3>1
    <3>2. CASE c # Gone'
      <4>1. PICK i \in DOMAIN out : out[i] = c
        <5>1. c \in 1..Gone /\ c > Appended - BufferChunks
          BY <1>1, <2>1, <2>3, <2>8, <3>2
        <5> QED
          BY <1>3, <5>1
      <4> QED
        BY <1>1, <2>5, <4>1
    <3> QED
      BY <3>1, <3>2
  <2> QED
    BY <1>2, <2>6, <2>7, <2>8 DEF BottomlessInv
<1>7. CASE Reads
  <2>1. UNCHANGED <<data, out>> /\ Appended' = Appended
    BY <1>7 DEF Reads, TypeOK, HandInv, Appended
  <2> QED
    BY <1>4, <2>1
<1>8. CASE UNCHANGED <<data, out, taken, inHand>>
  BY <1>4, <1>8 DEF Appended
<1> QED
  BY <1>5, <1>6, <1>7, <1>8, DataFrame

-------------------------------------------------------------------------------
(* The theorems.                                                           *)

LEMMA InitInv == Init => IInv
<1> SUFFICES ASSUME Init PROVE IInv
  OBVIOUS
<1>1. /\ data \in Seq(1..MaxChunks)
      /\ Len(data) = Starting
      /\ \A i \in 1..Len(data) : data[i] = i
  BY DEF Init
<1>2. out = <<>> /\ out \in Seq(1..MaxChunks) /\ Len(out) = 0
  BY EmptySeq DEF Init
<1>3. Appended = Starting
  BY DEF Init, Appended
<1>4. TypeOK
  <2>1. Starting \in 0..MaxChunks /\ total \in Starting..MaxChunks
    BY DEF Init
  <2>2. /\ written \in Starting..total /\ taken \in Starting..written
        /\ inHand \in 0..taken /\ expired \in 0..MaxChunks
    BY <2>1 DEF Init
  <2>3. /\ rpc \in ReaderPC /\ cpc \in ConsumerPC
        /\ result \in {"chunk", "stop", "none"}
    BY DEF Init
  <2>4. /\ keepReading \in BOOLEAN /\ eof \in BOOLEAN /\ go \in BOOLEAN
        /\ writerOpen \in BOOLEAN /\ sourceOpen \in BOOLEAN
    BY Zenon DEF Init
  <2>5. dataAdded \in BOOLEAN
    <3>1. dataAdded = (Starting > 0)
      BY DEF Init
    <3>2. (Starting > 0) \in BOOLEAN
      OBVIOUS
    <3> QED
      BY <3>1, <3>2, Zenon
  <2> QED
    BY <1>1, <1>2, <2>1, <2>2, <2>3, <2>4, <2>5 DEF TypeOK
<1>5. HandInv /\ EofInv /\ NextInv
  BY DEF Init, HandInv, EofInv, NextInv
<1>6. DataInv /\ OutInv
  BY <1>1, <1>2, <1>3 DEF DataInv, OutInv
<1>7. BacklogInv
  BY <1>1 DEF Init, BacklogInv, Owed
<1>8. BottomlessInv
  BY <1>1, <1>2, <1>3 DEF Init, BottomlessInv
<1> QED
  BY <1>4, <1>5, <1>6, <1>7, <1>8 DEF IInv

LEMMA StepInv == IInv /\ [Next]_vars => IInv'
BY TypeStep, HandStep, DataStep, OutStep, EofStep, NextStepInv, BacklogStep,
   BottomlessStep DEF IInv

\* Every reachable state satisfies the inductive invariant.
THEOREM Invariance == Spec => []IInv
<1>1. Init => IInv
  BY InitInv
<1>2. IInv /\ [Next]_vars => IInv'
  BY StepInv
<1> QED
  BY <1>1, <1>2, PTL DEF Spec

\* The ranges of the variables, the deque and the history included.
THEOREM TypeCorrect == Spec => []TypeOK
<1>1. IInv => TypeOK
  BY DEF IInv
<1> QED
  BY <1>1, Invariance, PTL

\* next() pops only from a deque that holds something and never returns None.
THEOREM NextSound == Spec => []NeverEmptyHanded
<1>1. IInv => NeverEmptyHanded
  BY DEF IInv, NextInv, NeverEmptyHanded
<1> QED
  BY <1>1, Invariance, PTL

\* The memory a slow consumer can make the reader use is bounded.
THEOREM MemoryBounded == Spec => []MemoryBound
<1>1. IInv => MemoryBound
  BY DEF IInv, BacklogInv, MemoryBound
<1> QED
  BY <1>1, Invariance, PTL

\* The worker process exits only after timeout_input whole waits expired.
THEOREM ExitTimed == Spec => []ExitNeedsTimeouts
<1>1. IInv => ExitNeedsTimeouts
  BY DEF IInv, TypeOK, BacklogInv, Owed, ExitNeedsTimeouts
<1> QED
  BY <1>1, Invariance, PTL

\* The reader of a bottomless stream never pauses and never exits.
THEOREM BottomlessFlows == Spec => []BottomlessNeverPauses
<1>1. IInv => BottomlessNeverPauses
  BY DEF IInv, BottomlessInv, BottomlessNeverPauses
<1> QED
  BY <1>1, Invariance, PTL

\* The end of a bottomless stream is never lost.
THEOREM LastWords == Spec => []LastChunksKept
<1>1. IInv => LastChunksKept
  <2> SUFFICES ASSUME IInv, Bottomless
               PROVE  /\ \A i, j \in DOMAIN out : i < j => out[i] < out[j]
                      /\ result = "stop" /\ go =>
                             \A c \in 1..written :
                                 c > written - BufferChunks =>
                                     \E i \in DOMAIN out : out[i] = c
    BY DEF LastChunksKept
  <2>1. result = "stop" /\ go => Appended = written /\ Len(data) = 0
    BY EmptySeq DEF IInv, TypeOK, EofInv, NextInv, Appended
  <2>2. Len(data) \in Nat /\ Appended \in Nat
    BY DEF IInv, TypeOK, Appended
  <2>3. \A i, j \in DOMAIN out : i < j => out[i] < out[j]
    BY DEF IInv, BottomlessInv
  <2>4. \A c \in 1..(Appended - Len(data)) :
            c > Appended - BufferChunks => \E i \in DOMAIN out : out[i] = c
    BY DEF IInv, BottomlessInv
  <2> QED
    BY <2>1, <2>2, <2>3, <2>4
<1> QED
  BY <1>1, Invariance, PTL

\* A buffer that is not bottomless implements ByteStream: from the chunks of
\* the pipe to the chunks next() returns nothing is lost, repeated or
\* reordered, and StopIteration without stop() means that all came out.
THEOREM StreamDelivers ==
    ASSUME ~Bottomless
    PROVE  Spec => Delivers
<1>1. Init => Stream!Init
  BY DEF Init, Stream!Init
<1>2. IInv /\ IInv' /\ [Next]_vars => [Stream!Next]_(Stream!vars)
  <2> SUFFICES ASSUME IInv, [Next]_vars
               PROVE  Stream!Next \/ UNCHANGED Stream!vars
    OBVIOUS
  <2> USE DEF Stream!vars, Stream!Next, Stream!Send, Stream!Close,
              Stream!Deliver, Stream!Abort, Stream!End
  <2>1. CASE ChildWrites
    BY <2>1 DEF ChildWrites
  <2>2. CASE ChildCloses \/ ChildDies
    BY <2>2 DEF ChildCloses, ChildDies
  <2>3. CASE Rechecks
    BY <2>3 DEF Rechecks
  <2>4. CASE EnterRead \/ Reads \/ TestLoop \/ TestRoom \/ Pauses \/ EndsWait
             \/ Appends \/ Signals \/ SetsEof \/ LastSignal
    BY <2>4 DEF EnterRead, Reads, TestLoop, TestRoom, Pauses, EndsWait,
                Appends, Signals, SetsEof, LastSignal
  <2>5. CASE Pops
    <3>1. result # "stop" /\ cpc = "pop"
      BY <2>5 DEF Pops, IInv, NextInv
    <3>2. Len(data) \in Nat \ {0} /\ Head(data) = data[1]
      BY <2>5, EmptySeq DEF Pops, IInv, TypeOK
    <3>3. Len(out) \in Nat /\ Len(out) + Len(data) = Appended
          /\ Appended <= written
      BY DEF IInv, TypeOK, OutInv, Appended
    <3>4. data[1] = Appended - Len(data) + 1
      BY <3>2 DEF IInv, DataInv
    <3>5. Head(data) = Len(out) + 1 /\ Len(out) < written
      <4>1. Appended \in Nat /\ written \in Nat
        BY DEF IInv, TypeOK, Appended
      <4> QED
        BY <3>2, <3>3, <3>4, <4>1
    <3> QED
      BY <2>5, <3>1, <3>5 DEF Pops
  <2>6. CASE EndsNext
    BY <2>6 DEF EndsNext, IInv, TypeOK, OutInv, NextInv, EofInv, Appended
  <2>7. CASE CallsStop
    BY <2>7 DEF CallsStop
  <2>8. CASE CallsNext \/ TestLen \/ TestEof \/ ClearsDataAdded
             \/ WaitsForData \/ RetestsLen \/ Resumes \/ StopSetsEof
             \/ StopCloses
    BY <2>8 DEF CallsNext, TestLen, TestEof, ClearsDataAdded, WaitsForData,
                RetestsLen, Resumes, StopSetsEof, StopCloses
  <2>9. CASE UNCHANGED vars
    BY <2>9 DEF vars
  <2> QED
    BY <2>1, <2>2, <2>3, <2>4, <2>5, <2>6, <2>7, <2>8, <2>9
       DEF Next, ChildStep, ReaderStep, NextStep, StopStep
<1> QED
  BY <1>1, <1>2, Invariance, PTL DEF Spec, Delivers, Stream!Spec

\* Every BufferedGenerator, bottomless or not, is the counted stream that
\* SubprocessIO has two of: each step of its reader, its consumer and the child
\* is one of CountedStream's or leaves what is counted as it is.
THEOREM StreamCounts == Spec => Counts
<1> USE DEF Counted!stream, Counted!Next, Counted!ReaderStep,
            Counted!ConsumerStep, Counted!ReaderGoes, Place
<1>1. Init => Counted!Init
  BY DEF Init, Counted!Init, ChunkCountMax
<1>2. IInv /\ [Next]_vars =>
          [Counted!Next]_<<Counted!stream, ~writerOpen>>
  <2> SUFFICES ASSUME IInv, [Next]_vars
               PROVE  \/ Counted!Next
                      \/ UNCHANGED <<Counted!stream, ~writerOpen>>
    OBVIOUS
  <2>1. TypeOK /\ HandInv /\ EofInv /\ NextInv /\ BacklogInv
    BY DEF IInv
  <2>2. Len(data) \in Nat /\ (data # <<>> <=> Len(data) > 0)
    BY <2>1, EmptySeq DEF TypeOK
  <2>3. CASE ChildWrites
    BY <2>1, <2>3 DEF ChildWrites, Counted!Writes, TypeOK
  <2>4. CASE ChildCloses \/ ChildDies
    BY <2>4 DEF ChildCloses, ChildDies, Counted!Closes
  <2>5. CASE Reads
    <3>1. CASE taken < written
      BY <2>1, <2>5, <3>1 DEF Reads, Counted!Reads, TypeOK, HandInv
    <3>2. CASE ~(taken < written)
      BY <2>1, <2>5, <3>2 DEF Reads, HandInv
    <3> QED
      BY <3>1, <3>2
  <2>6. CASE TestRoom
    BY <2>1, <2>6 DEF TestRoom, Counted!FindsFull, HandInv
  <2>7. CASE Pauses
    BY <2>1, <2>7 DEF Pauses, Counted!Pauses, HandInv
  <2>8. CASE Appends
    <3>1. /\ rpc = "append" /\ rpc' = "signal" /\ inHand' = 0 /\ inHand # 0
          /\ Len(data) <= ChunkCountMax + TimeoutInput
          /\ UNCHANGED <<written, taken, eof, go, keepReading, writerOpen>>
      BY <2>1, <2>8 DEF Appends, HandInv, BacklogInv
    <3>2. Len(data') = IF Bottomless /\ Len(data) = BufferChunks
                       THEN Len(data) ELSE Len(data) + 1
      <4>1. inHand \in 1..MaxChunks
        BY <2>1, <3>1 DEF TypeOK
      <4>2. CASE Bottomless /\ Len(data) = BufferChunks
        BY <2>1, <2>2, <2>8, <4>1, <4>2, SlideProperties DEF Appends, TypeOK
      <4>3. CASE ~(Bottomless /\ Len(data) = BufferChunks)
        BY <2>1, <2>8, <4>1, <4>3, AppendProperties DEF Appends, TypeOK
      <4> QED
        BY <4>2, <4>3
    <3> QED
      BY <3>1, <3>2 DEF Counted!Appends
  <2>9. CASE SetsEof
    BY <2>1, <2>9 DEF SetsEof, Counted!SeesEof, TypeOK, HandInv, EofInv
  <2>10. CASE EnterRead \/ TestLoop \/ EndsWait \/ Rechecks \/ Signals
              \/ LastSignal
    BY <2>1, <2>10 DEF EnterRead, TestLoop, EndsWait, Rechecks, Signals,
                       LastSignal, HandInv
  <2>11. CASE Resumes
    BY <2>1, <2>2, <2>11 DEF Resumes, Counted!Resumes, NextInv
  <2>12. CASE Pops
    <3>1. Len(data') = Len(data) - 1
      BY <2>1, <2>12, HeadTailProperties DEF Pops, TypeOK
    <3> QED
      BY <2>2, <2>12, <3>1 DEF Pops, Counted!Pops
  <2>13. CASE CallsStop
    BY <2>13 DEF CallsStop, Counted!Stops
  <2>14. CASE StopSetsEof
    BY <2>1, <2>14 DEF StopSetsEof, EofInv
  <2>15. CASE CallsNext \/ TestLen \/ TestEof \/ ClearsDataAdded
              \/ WaitsForData \/ RetestsLen \/ EndsNext \/ StopCloses
    BY <2>15 DEF CallsNext, TestLen, TestEof, ClearsDataAdded, WaitsForData,
                 RetestsLen, EndsNext, StopCloses
  <2>16. CASE UNCHANGED vars
    BY <2>16 DEF vars
  <2> QED
    BY <2>3, <2>4, <2>5, <2>6, <2>7, <2>8, <2>9, <2>10, <2>11, <2>12,
       <2>13, <2>14, <2>15, <2>16
       DEF Next, ChildStep, ReaderStep, NextStep, StopStep
<1> QED
  BY <1>1, <1>2, Invariance, PTL DEF Spec, Counts, Counted!Spec
===============================================================================
