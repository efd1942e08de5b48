------------------------------ MODULE GitPullProofs ----------------------------
(* Proofs about GitPull for any output of git, hooks and side bands.       *)
EXTENDS GitPull, SequenceTheorems, WellFoundedInduction, TLAPS

(* The packets of a refused pull.                                          *)
Refusal(c) ==
    \A j \in DOMAIN c : c[j].band = 2 \/ c[j].data = <<EmptyPack>> \/ c \in {Nak, Flush}
Lines == Seq(Tokens) \cup {<<Aborting>>}
Chunks == {c \in {Nak, Flush, Packet(1, <<EmptyPack>>), <<Raw(EmptyPack)>>}
                     \cup {Packet(2, d) : d \in Lines} : Refusal(c)}
RefusedOK ==
    /\ response # <<>> /\ DOMAIN response = 1..Len(response)
    /\ \A i \in DOMAIN response : Refusal(response[i])

(* Git runs only when RhodeCode has approved the pull, or is not asked at  *)
(* all; what git has not answered is a refusal.                            *)
IInv ==
    /\ pc \in {"prePull", "start", "postPull", "respond", "answered", "failed"}
    /\ child \in {"none", "running", "ended"}
    /\ asked => hooked
    /\ pc = "prePull" => ~asked
    /\ pc \in {"prePull", "start"} => child = "none"
    /\ pc \in {"postPull", "respond", "failed"} => child # "none"
    /\ pc = "start" => /\ pre.output \in Seq(Tokens)
                       /\ hooked => (asked <=> pre.status = 0)
    /\ hooked /\ child # "none" => asked
    /\ asked /\ pc \notin {"prePull", "start"} => child # "none"
    /\ child = "none" => chunks = <<>> /\ ~told
    /\ child = "none" /\ pc = "answered" => RefusedOK
    /\ asked /\ pc \in {"respond", "answered", "failed"} => told \/ post = Failed

---------------------------------------------------------------------------
LEMMA Refusals ==
    /\ Nak \in Chunks /\ Flush \in Chunks
    /\ Packet(1, <<EmptyPack>>) \in Chunks /\ <<Raw(EmptyPack)>> \in Chunks
    /\ \A d \in Lines : Packet(2, d) \in Chunks
<1>1. Refusal(Nak) /\ Refusal(Flush)
  BY DEF Refusal
<1>2. \A d : Refusal(Packet(2, d))
  BY DEF Refusal, Packet
<1>3. Refusal(Packet(1, <<EmptyPack>>)) /\ Refusal(<<Raw(EmptyPack)>>)
  BY DEF Refusal, Packet, Raw
<1> QED
  BY <1>1, <1>2, <1>3 DEF Chunks

\* A message cut to packets is packets.
LEMMA CutRefuses ==
    ASSUME NEW data \in Seq(Tokens), NEW size \in Nat \ {0}
    PROVE  Cut(data, size) \in Seq(Chunks)
<1>1. PICK n : n = (Len(data) + size - 1) \div size
  OBVIOUS
<1>2. n \in Nat
  <2>1. Len(data) + size - 1 \in Nat
    OBVIOUS
  <2> QED
    BY <1>1, <2>1
<1>3. ASSUME NEW i \in 1..n
      PROVE  Packet(2, SubSeq(data, (i - 1) * size + 1, Smaller(i * size, Len(data)))) \in Chunks
  <2>1. PICK m, k : m = (i - 1) * size + 1 /\ k = Smaller(i * size, Len(data))
    OBVIOUS
  <2>2. m \in Nat \ {0} /\ k \in Int /\ k <= Len(data)
    BY <2>1 DEF Smaller
  <2>3. SubSeq(data, m, k) \in Seq(Tokens)
    BY <2>2
  <2> QED
    BY <2>1, <2>3, Refusals DEF Lines
<1>4. Cut(data, size) \in [1..n -> Chunks]
  BY <1>1, <1>3 DEF Cut
<1>5. Cut(data, size) \in UNION {[1..m -> Chunks] : m \in Nat}
  BY <1>2, <1>4
<1> QED
  BY <1>5, SeqDef, Zenon

LEMMA RefusedResponse ==
    ASSUME NEW caps, NEW messages \in Seq(Tokens), response' = FailedResponse(caps, messages)
    PROVE  RefusedOK'
<1>1. response' \in Seq(Chunks) /\ response' # <<>>
  <2>1. CASE caps = {}
    <3>1. response' = <<<<Raw(EmptyPack)>>>>
      BY <2>1 DEF FailedResponse
    <3> QED
      BY <3>1, Refusals
  <2>2. CASE caps # {}
    <3>1. PICK aborting, empty, flush, middle :
            /\ aborting = Packet(2, <<Aborting>>) /\ empty = Packet(1, <<EmptyPack>>)
            /\ flush = Flush /\ middle = Messages(messages, caps)
      OBVIOUS
    <3>2. middle \in Seq(Chunks)
      <4>1. Cut(messages, LargeBand) \in Seq(Chunks) /\ Cut(messages, SmallBand) \in Seq(Chunks)
        BY CutRefuses, PullAssumption
      <4> QED
        BY <3>1, <4>1 DEF Messages
    <3>3. aborting \in Chunks /\ empty \in Chunks /\ flush \in Chunks /\ Nak \in Chunks
      BY <3>1, Refusals DEF Lines
    <3>4. PICK first, second : first = <<Nak>> /\ second = <<aborting, empty, flush>>
      OBVIOUS
    <3>5. first \in Seq(Chunks) /\ second \in Seq(Chunks) /\ Len(second) = 3
      BY <3>3, <3>4
    <3>6. PICK before : before = first \o middle
      OBVIOUS
    <3>7. before \in Seq(Chunks) /\ Len(before) \in Nat
      BY <3>2, <3>5, <3>6
    <3>8. response' = before \o second
      BY <2>2, <3>1, <3>4, <3>6 DEF FailedResponse
    <3>9. before \o second \in Seq(Chunks) /\ Len(before \o second) = Len(before) + 3
      <4>1. /\ before \o second \in Seq(Chunks)
            /\ Len(before \o second) = Len(before) + Len(second)
        BY <3>5, <3>7, ConcatProperties, Zenon
      <4> QED
        BY <3>5, <4>1
    <3>10. response' \in Seq(Chunks) /\ Len(response') # 0
      BY <3>7, <3>8, <3>9
    <3> QED
      BY <3>10
  <2> QED
    BY <2>1, <2>2
<1>2. DOMAIN response' = 1..Len(response') /\ \A i \in DOMAIN response' : response'[i] \in Chunks
  BY <1>1
<1> QED
  BY <1>1, <1>2 DEF RefusedOK, Chunks

LEMMA Start == Init => IInv
BY DEF Init, IInv

LEMMA Step ==
    ASSUME IInv, [Next]_vars
    PROVE  IInv'
<1> USE DEF IInv, request
<1>1. CASE git_pre_pull
  <2>1. pre' \in Results \cup {Off}
    BY <1>1 DEF git_pre_pull
  <2>2. pre'.output \in Seq(Tokens)
    BY <2>1, PullAssumption DEF Results, Off
  <2> QED
    BY <1>1, <2>2 DEF git_pre_pull
<1>2. CASE PrePullRaises
  <2>1. pre'.output \in Seq(Tokens) /\ pre'.status # 0
    BY <1>2, PullAssumption DEF PrePullRaises, Failed, ErrorStatus
  <2> QED
    BY <1>2, <2>1 DEF PrePullRaises
<1>3. CASE Refuses
  <2>1. RefusedOK'
    BY <1>3, RefusedResponse DEF Refuses
  <2> QED
    BY <1>3, <2>1 DEF Refuses
<1>4. CASE Starts
  BY <1>4 DEF Starts
<1>5. CASE ChildWrites
  BY <1>5 DEF ChildWrites
<1>6. CASE ChildEnds
  BY <1>6 DEF ChildEnds
<1>7. CASE git_post_pull
  BY <1>7 DEF git_post_pull
<1>8. CASE PostPullRaises
  BY <1>8 DEF PostPullRaises
<1>9. CASE Lists \/ IndexError \/ Streams \/ StreamEnds
  BY <1>9 DEF Lists, IndexError, Streams, StreamEnds
<1>10. CASE UNCHANGED vars
  <2>1. RefusedOK' = RefusedOK
    BY <1>10 DEF vars, RefusedOK
  <2> QED
    BY <1>10, <2>1 DEF vars
<1> QED
  BY <1>1, <1>2, <1>3, <1>4, <1>5, <1>6, <1>7, <1>8, <1>9, <1>10 DEF Next, Over

(* Nothing of the repository is sent and no pull is announced unless       *)
(* RhodeCode has approved it or has no hook for it, and who is refused     *)
(* gets nothing but its messages and an empty pack (pygrack's backend and  *)
(* _build_failed_pre_pull_response, hooks.py's git_pre_pull).              *)
THEOREM Approved == Spec => []SentAsApproved
<1>1. IInv => SentAsApproved
  BY DEF IInv, SentAsApproved, RefusedOK, Refusal
<1> QED
  BY <1>1, Start, Step, PTL DEF Spec

---------------------------------------------------------------------------
(* Induction, for which a set stands for the predicate.                    *)
LEMMA Induction ==
    ASSUME NEW S, 0 \in S, \A n \in Nat : n \in S => n + 1 \in S
    PROVE  Nat \subseteq S
<1> SUFFICES ASSUME Nat \ S # {} PROVE FALSE
  OBVIOUS
<1>1. PICK n \in Nat \ S : \A m \in Nat \ S : ~(<<m, n>> \in OpToRel(<, Nat))
  <2>1. Nat \ S \subseteq Nat
    OBVIOUS
  <2> QED
    BY <2>1, NatLessThanWellFounded, WFMin, Zenon
<1>2. \A m \in Nat \ S : ~(m < n)
  BY <1>1 DEF OpToRel
<1>3. n # 0 /\ n - 1 \in Nat /\ (n - 1) + 1 = n
  OBVIOUS
<1>4. n - 1 \in S
  BY <1>2, <1>3
<1> QED
  BY <1>3, <1>4

LEMMA UpTo ==
    ASSUME NEW S, NEW N \in Nat, 0 \in S, \A n \in 1..N : n - 1 \in S => n \in S
    PROVE  0..N \subseteq S
<1> DEFINE R == {n \in Nat : n <= N => n \in S}
<1>1. 0 \in R
  OBVIOUS
<1>2. \A n \in Nat : n \in R => n + 1 \in R
  OBVIOUS
<1>3. Nat \subseteq R
  <2> HIDE DEF R
  <2> QED
    BY <1>1, <1>2, Induction
<1> QED
  BY <1>3

\* A recursive definition is met by a function.
Recurs(f, N, first, step) == f[0] = first /\ \A n \in 1..N : f[n] = step[<<n, f[n - 1]>>]

LEMMA Recursion ==
    ASSUME NEW T, NEW N \in Nat, NEW first \in T, NEW step \in [Nat \X T -> T]
    PROVE  \E f \in [0..N -> T] : Recurs(f, N, first, step)
<1> DEFINE S == {k \in Nat : \E f \in [0..k -> T] : Recurs(f, k, first, step)}
<1>1. 0 \in S
  <2>1. PICK f : f = [n \in 0..0 |-> first]
    OBVIOUS
  <2>2. f \in [0..0 -> T] /\ f[0] = first /\ \A n \in 1..0 : f[n] = step[<<n, f[n - 1]>>]
    BY <2>1
  <2> QED
    BY <2>2 DEF Recurs
<1>2. ASSUME NEW k \in Nat, k \in S
      PROVE  k + 1 \in S
  <2>1. PICK f \in [0..k -> T] : Recurs(f, k, first, step)
    BY <1>2
  <2>2. PICK v : v = step[<<k + 1, f[k]>>]
    OBVIOUS
  <2>3. v \in T
    <3>1. k \in 0..k /\ k + 1 \in Nat
      OBVIOUS
    <3>2. <<k + 1, f[k]>> \in Nat \X T
      BY <2>1, <3>1
    <3> QED
      BY <2>2, <3>2
  <2>4. PICK g : g = [n \in 0..(k + 1) |-> IF n = k + 1 THEN v ELSE f[n]]
    OBVIOUS
  <2>5. g \in [0..(k + 1) -> T]
    BY <2>1, <2>3, <2>4
  <2>6. g[0] = first
    BY <2>1, <2>4 DEF Recurs
  <2>7. ASSUME NEW n \in 1..(k + 1)
        PROVE  g[n] = step[<<n, g[n - 1]>>]
    <3>1. n - 1 \in 0..(k + 1) /\ n - 1 # k + 1 /\ n \in 0..(k + 1)
      OBVIOUS
    <3>2. g[n - 1] = f[n - 1]
      BY <2>4, <3>1
    <3>3. CASE n = k + 1
      <4>1. n - 1 = k /\ g[n] = v
        BY <2>4, <3>1, <3>3
      <4> QED
        BY <2>2, <3>2, <3>3, <4>1
    <3>4. CASE n # k + 1
      <4>1. n \in 1..k /\ g[n] = f[n]
        BY <2>4, <3>1, <3>4
      <4>2. f[n] = step[<<n, f[n - 1]>>]
        BY <2>1, <4>1 DEF Recurs
      <4> QED
        BY <3>2, <4>1, <4>2
    <3> QED
      BY <3>3, <3>4
  <2>8. Recurs(g, k + 1, first, step)
    BY <2>6, <2>7 DEF Recurs
  <2>9. k + 1 \in Nat
    OBVIOUS
  <2> QED
    BY <2>5, <2>8, <2>9, Zenon DEF S
<1>3. Nat \subseteq S
  <2> HIDE DEF S
  <2> QED
    BY <1>1, <1>2, Induction, Zenon
<1> QED
  BY <1>3

\* Joining is a function that adds one sequence after the other.
Adds(f, r, N) == f[0] = <<>> /\ \A n \in 1..N : f[n] = f[n - 1] \o r[n]

LEMMA AddsOne ==
    ASSUME NEW f, NEW g, NEW r, NEW N \in Nat, Adds(f, r, N), Adds(g, r, N)
    PROVE  f[N] = g[N]
<1> DEFINE T == {n \in 0..N : g[n] = f[n]}
<1>1. 0 \in T
  BY DEF Adds
<1>2. ASSUME NEW n \in 1..N, n - 1 \in T
      PROVE  n \in T
  <2>1. n \in 0..N /\ g[n - 1] = f[n - 1]
    BY <1>2
  <2>2. g[n] = g[n - 1] \o r[n] /\ f[n] = f[n - 1] \o r[n]
    BY DEF Adds
  <2> QED
    BY <2>1, <2>2
<1>3. 0..N \subseteq T
  <2> HIDE DEF T
  <2> QED
    BY <1>1, <1>2, UpTo
<1>4. N \in T
  BY <1>3
<1> QED
  BY <1>4

LEMMA Adding ==
    ASSUME NEW Q, <<>> \in Q, \A x \in Q, y \in Q : x \o y \in Q,
           NEW N \in Nat, NEW r, \A n \in 1..N : r[n] \in Q
    PROVE  \E f \in [0..N -> Q] : Adds(f, r, N)
<1>1. PICK e : e = <<>>
  OBVIOUS
<1>2. e \in Q
  BY <1>1
<1>3. PICK step : step = [x \in Nat \X Q |-> IF x[1] \in 1..N THEN x[2] \o r[x[1]] ELSE x[2]]
  OBVIOUS
<1>4. step \in [Nat \X Q -> Q]
  BY <1>3
<1>5. PICK f \in [0..N -> Q] : Recurs(f, N, e, step)
  BY <1>2, <1>4, Recursion
<1>6. ASSUME NEW n \in 1..N
      PROVE  f[n] = f[n - 1] \o r[n]
  <2>1. n - 1 \in 0..N /\ n \in Nat
    OBVIOUS
  <2>2. <<n, f[n - 1]>> \in Nat \X Q
    BY <1>5, <2>1
  <2>3. step[<<n, f[n - 1]>>] = f[n - 1] \o r[n]
    BY <1>3, <2>2
  <2>4. f[n] = step[<<n, f[n - 1]>>]
    BY <1>5, Zenon DEF Recurs
  <2> QED
    BY <2>3, <2>4
<1>7. f[0] = e
  BY <1>5, Zenon DEF Recurs
<1>8. Adds(f, r, N)
  BY <1>1, <1>6, <1>7, Zenon DEF Adds
<1> QED
  BY <1>8

LEMMA JoinedIs ==
    ASSUME NEW S, NEW r \in Seq(Seq(S))
    PROVE  \E f \in [0..Len(r) -> Seq(S)] : Adds(f, r, Len(r)) /\ Joined(r) = f[Len(r)]
<1>1. PICK Q, N : Q = Seq(S) /\ N = Len(r)
  OBVIOUS
<1>2. N \in Nat /\ <<>> \in Q /\ \A n \in 1..N : r[n] \in Q
  BY <1>1
<1>3. \A x \in Q, y \in Q : x \o y \in Q
  BY <1>1, ConcatProperties
<1>4. PICK f \in [0..N -> Q] : Adds(f, r, N)
  BY <1>2, <1>3, Adding
<1> DEFINE R(h) == h = [n \in 0..N |-> IF n = 0 THEN <<>> ELSE h[n - 1] \o r[n]]
<1>5. f = [n \in 0..N |-> f[n]]
  BY <1>4, Zenon
<1>6. \A n \in 0..N : f[n] = IF n = 0 THEN <<>> ELSE f[n - 1] \o r[n]
  <2>1. \A n \in 0..N : n = 0 \/ n \in 1..N
    BY <1>2
  <2> QED
    BY <1>4, <2>1, Zenon DEF Adds
<1>7. R(f)
  <2>1. [n \in 0..N |-> f[n]] = [n \in 0..N |-> IF n = 0 THEN <<>> ELSE f[n - 1] \o r[n]]
    BY <1>6, Zenon
  <2> QED
    BY <1>5, <2>1, Zenon
<1>8. PICK g : g = CHOOSE h : R(h)
  OBVIOUS
<1>9. R(g)
  BY <1>7, <1>8, Zenon
<1>10. Joined(r) = g[N]
  BY <1>1, <1>8, Zenon DEF Joined
<1>11. \A n \in 0..N : g[n] = IF n = 0 THEN <<>> ELSE g[n - 1] \o r[n]
  BY <1>9, Zenon
<1>12. Adds(g, r, N)
  <2>1. 0 \in 0..N /\ \A n \in 1..N : n \in 0..N /\ n # 0
    BY <1>2
  <2> QED
    BY <1>11, <2>1, Zenon DEF Adds
<1>13. Joined(r) = f[N]
  BY <1>2, <1>4, <1>10, <1>12, AddsOne
<1> QED
  BY <1>1, <1>4, <1>13, Zenon

\* So that whatever meets it is what is joined.
LEMMA JoinedAs ==
    ASSUME NEW S, NEW r \in Seq(Seq(S)), NEW g, Adds(g, r, Len(r))
    PROVE  Joined(r) = g[Len(r)]
<1>1. PICK f \in [0..Len(r) -> Seq(S)] : Adds(f, r, Len(r)) /\ Joined(r) = f[Len(r)]
  BY JoinedIs
<1>2. Len(r) \in Nat
  OBVIOUS
<1> QED
  BY <1>1, <1>2, AddsOne

LEMMA JoinedSeq ==
    ASSUME NEW S, NEW r \in Seq(Seq(S))
    PROVE  Joined(r) \in Seq(S)
<1>1. PICK Q, N : Q = Seq(S) /\ N = Len(r)
  OBVIOUS
<1>2. N \in 0..N
  BY <1>1
<1>3. PICK f \in [0..N -> Q] : Joined(r) = f[N]
  BY <1>1, JoinedIs
<1> QED
  BY <1>1, <1>2, <1>3, Zenon

LEMMA JoinedOne ==
    ASSUME NEW S, NEW c \in Seq(S)
    PROVE  Joined(<<c>>) = c
<1>1. PICK r : r = <<c>>
  OBVIOUS
<1>2. r \in Seq(Seq(S)) /\ Len(r) = 1 /\ r[1] = c
  BY <1>1
<1>3. PICK g : g = [n \in 0..1 |-> IF n = 0 THEN <<>> ELSE c]
  OBVIOUS
<1>4. g[0] = <<>> /\ g[1] = c /\ <<>> \o c = c
  BY <1>3, ConcatEmptySeq
<1>5. Adds(g, r, 1)
  <2>1. \A n \in 1..1 : n = 1 /\ n - 1 = 0
    OBVIOUS
  <2> QED
    BY <1>2, <1>4, <2>1 DEF Adds
<1> QED
  BY <1>1, <1>2, <1>4, <1>5, JoinedAs

LEMMA JoinedNothing == Joined(<<>>) = <<>>
<1>1. PICK r : r = <<>>
  OBVIOUS
<1>2. r \in Seq(Seq({})) /\ Len(r) = 0
  BY <1>1
<1>3. PICK f : Adds(f, r, 0) /\ Joined(r) = f[0]
  BY <1>2, JoinedIs
<1> QED
  BY <1>1, <1>3 DEF Adds

Associates(x, y, z) == (x \o y) \o z = x \o (y \o z)
LEMMA Associative ==
    ASSUME NEW S, NEW Q, Q = Seq(S)
    PROVE  \A x \in Q, y \in Q, z \in Q : Associates(x, y, z)
<1>1. ASSUME NEW x \in Seq(S), NEW y \in Seq(S), NEW z \in Seq(S)
      PROVE  (x \o y) \o z = x \o (y \o z)
  BY ConcatAssociative
<1> QED
  BY <1>1 DEF Associates

LEMMA JoinedBoth ==
    ASSUME NEW S, NEW a \in Seq(Seq(S)), NEW b \in Seq(Seq(S))
    PROVE  Joined(a \o b) = Joined(a) \o Joined(b)
<1>1. PICK k, l, r, Q : k = Len(a) /\ l = Len(b) /\ r = a \o b /\ Q = Seq(S)
  OBVIOUS
<1>2. k \in Nat /\ l \in Nat
  BY <1>1
<1>3. /\ r \in Seq(Seq(S)) /\ Len(r) = k + l
      /\ \A n \in 1..(k + l) : r[n] = IF n <= k THEN a[n] ELSE b[n - k]
  BY <1>1, ConcatProperties
<1>4. PICK f \in [0..k -> Q] : Adds(f, a, k) /\ Joined(a) = f[k]
  BY <1>1, JoinedIs
<1>5. PICK h \in [0..l -> Q] : Adds(h, b, l) /\ Joined(b) = h[l]
  BY <1>1, JoinedIs
<1>6. \A n \in 1..l : b[n] \in Q
  BY <1>1
<1>7. \A x \in Q, y \in Q, z \in Q : Associates(x, y, z)
  BY <1>1, Associative
<1>8. f[k] \in Q /\ f[k] \o <<>> = f[k]
  <2>1. k \in 0..k
    BY <1>2
  <2>2. f[k] \in Q
    BY <1>4, <2>1
  <2> QED
    BY <1>1, <2>2, ConcatEmptySeq
<1>9. PICK g : g = [n \in 0..(k + l) |-> IF n <= k THEN f[n] ELSE f[k] \o h[n - k]]
  OBVIOUS
<1>10. ASSUME NEW n \in 0..l
       PROVE  g[n + k] = f[k] \o h[n]
  <2>1. CASE n = 0
    <3>1. n + k = k /\ k \in 0..(k + l)
      BY <1>2, <2>1
    <3>2. h[n] = <<>>
      BY <1>5, <2>1 DEF Adds
    <3>3. g[k] = f[k]
      BY <1>2, <1>9, <3>1
    <3> QED
      BY <1>8, <3>1, <3>2, <3>3
  <2>2. CASE n # 0
    <3>1. n + k \in 0..(k + l) /\ ~(n + k <= k) /\ (n + k) - k = n
      BY <1>2, <2>2
    <3> QED
      BY <1>9, <3>1
  <2> QED
    BY <2>1, <2>2
<1>11. ASSUME NEW n \in 1..(k + l)
       PROVE  g[n] = g[n - 1] \o r[n]
  <2>1. CASE n <= k
    <3>1. n \in 0..(k + l) /\ n - 1 \in 0..(k + l) /\ n - 1 <= k /\ n \in 1..k
      BY <1>2, <2>1
    <3>2. g[n] = f[n] /\ g[n - 1] = f[n - 1] /\ r[n] = a[n]
      BY <1>3, <1>9, <2>1, <3>1
    <3>3. f[n] = f[n - 1] \o a[n]
      BY <1>4, <3>1 DEF Adds
    <3> QED
      BY <3>2, <3>3
  <2>2. CASE ~(n <= k)
    <3>1. PICK m : m = n - k
      OBVIOUS
    <3>2. m \in 1..l /\ m \in 0..l /\ m - 1 \in 0..l /\ n = m + k /\ n - 1 = (m - 1) + k
      BY <1>2, <2>2, <3>1
    <3>3. g[n] = f[k] \o h[m] /\ g[n - 1] = f[k] \o h[m - 1]
      BY <1>10, <3>2
    <3>4. r[n] = b[m]
      BY <1>3, <2>2, <3>1
    <3>5. h[m] = h[m - 1] \o b[m]
      BY <1>5, <3>2 DEF Adds
    <3>6. h[m - 1] \in Q /\ b[m] \in Q
      BY <1>5, <1>6, <3>2
    <3>7. (f[k] \o h[m - 1]) \o b[m] = f[k] \o (h[m - 1] \o b[m])
      <4>1. Associates(f[k], h[m - 1], b[m])
        BY <1>7, <1>8, <3>6
      <4> QED
        BY <4>1 DEF Associates
    <3> QED
      BY <3>3, <3>4, <3>5, <3>7
  <2> QED
    BY <2>1, <2>2
<1>12. g[0] = <<>> /\ g[k + l] = f[k] \o h[l]
  <2>1. 0 \in 0..(k + l) /\ 0 <= k /\ l \in 0..l /\ l + k = k + l
    BY <1>2
  <2>2. g[0] = f[0] /\ f[0] = <<>>
    BY <1>4, <1>9, <2>1 DEF Adds
  <2>3. g[l + k] = f[k] \o h[l]
    BY <1>10, <2>1
  <2> QED
    BY <2>1, <2>2, <2>3
<1>13. Adds(g, r, k + l)
  BY <1>11, <1>12 DEF Adds
<1>14. Joined(r) = g[k + l]
  BY <1>3, <1>13, JoinedAs
<1> QED
  BY <1>1, <1>4, <1>5, <1>12, <1>14

\* Sequences of one element each give them back, and of none nothing.
LEMMA IsSeq ==
    ASSUME NEW S, NEW k \in Nat, NEW s \in [1..k -> S]
    PROVE  s \in Seq(S) /\ Len(s) = k
<1>1. s \in UNION {[1..m -> S] : m \in Nat}
  OBVIOUS
<1>2. s \in Seq(S)
  BY <1>1, SeqDef, Zenon
<1>3. Len(s) \in Nat /\ DOMAIN s = 1..Len(s) /\ DOMAIN s = 1..k
  BY <1>2
<1> QED
  BY <1>2, <1>3

LEMMA JoinedOnes ==
    ASSUME NEW S, NEW s \in Seq(S), NEW r, r = [i \in DOMAIN s |-> <<s[i]>>]
    PROVE  Joined(r) = s
<1>1. PICK k, Q : k = Len(s) /\ Q = Seq(S)
  OBVIOUS
<1>2. k \in Nat /\ DOMAIN s = 1..k /\ \A i \in 1..k : <<s[i]>> \in Q
  BY <1>1
<1>3. r \in [1..k -> Q]
  BY <1>2
<1>4. r \in Seq(Q) /\ Len(r) = k
  BY <1>2, <1>3, IsSeq
<1>5. PICK g : g = [n \in 0..k |-> SubSeq(s, 1, n)]
  OBVIOUS
<1>6. g[0] = <<>> /\ g[k] = s
  <2>1. 0 \in 0..k /\ k \in 0..k
    BY <1>2
  <2>2. g[0] = SubSeq(s, 1, 0) /\ g[k] = SubSeq(s, 1, k)
    BY <1>5, <2>1
  <2> QED
    BY <1>1, <2>2, SubSeqEmpty, SubSeqFull
<1>7. ASSUME NEW n \in 1..k
      PROVE  g[n] = g[n - 1] \o r[n]
  <2>1. n \in 1..k /\ 1 \in 1..k /\ n \in 1..n /\ n - 1 \in 0..k /\ n \in 0..k
    BY <1>2
  <2>2. SubSeq(s, 1, n) = SubSeq(s, 1, n - 1) \o <<s[n]>>
    BY <1>1, <2>1, SubSeqRecursiveSecond
  <2>3. g[n] = SubSeq(s, 1, n) /\ g[n - 1] = SubSeq(s, 1, n - 1)
    BY <1>5, <2>1
  <2>4. r[n] = <<s[n]>>
    BY <1>2
  <2> QED
    BY <2>2, <2>3, <2>4
<1>8. Adds(g, r, k)
  BY <1>6, <1>7 DEF Adds
<1> QED
  BY <1>1, <1>4, <1>6, <1>8, JoinedAs

LEMMA JoinedNone ==
    ASSUME NEW k \in Nat, NEW r, r = [i \in 1..k |-> <<>>]
    PROVE  Joined(r) = <<>>
<1>1. PICK Q, e : Q = Seq({}) /\ e = <<>>
  OBVIOUS
<1>2. e \in Q /\ e \o e = e
  BY <1>1, ConcatEmptySeq
<1>3. r \in [1..k -> Q] /\ \A n \in 1..k : r[n] = e
  BY <1>1, <1>2
<1>4. r \in Seq(Q) /\ Len(r) = k
  BY <1>3, IsSeq
<1>5. PICK g : g = [n \in 0..k |-> e]
  OBVIOUS
<1>6. \A n \in 0..k : g[n] = e
  BY <1>5
<1>7. 0 \in 0..k /\ k \in 0..k /\ \A n \in 1..k : n - 1 \in 0..k /\ n \in 0..k
  OBVIOUS
<1>8. \A n \in 1..k : g[n] = g[n - 1] \o r[n]
  BY <1>2, <1>3, <1>6, <1>7
<1>9. Adds(g, r, k)
  BY <1>1, <1>6, <1>7, <1>8 DEF Adds
<1> QED
  BY <1>1, <1>4, <1>6, <1>7, <1>9, JoinedAs

---------------------------------------------------------------------------
(* What git has written and what the hooks have said, in a response.       *)
Packs == [band : 0..2, data : Seq(Tokens)]
Maps(m, S, T) == m \in [S -> T]
Mapped(m, s) == [i \in DOMAIN s |-> m[s[i]]]
OwnOf == [x \in Packs |-> IF x.band = 0 THEN <<x>> ELSE <<>>]
SaidOf == [x \in Packs |-> IF x.band = 2 THEN x.data ELSE <<>>]

LEMMA MappedSeq ==
    ASSUME NEW S, NEW T, NEW m, Maps(m, S, T), NEW s \in Seq(S)
    PROVE  Mapped(m, s) \in Seq(T) /\ Len(Mapped(m, s)) = Len(s)
<1>1. PICK k : k = Len(s)
  OBVIOUS
<1>2. k \in Nat /\ DOMAIN s = 1..k /\ \A i \in 1..k : s[i] \in S
  BY <1>1
<1>3. Mapped(m, s) \in [1..k -> T]
  BY <1>2 DEF Mapped, Maps
<1> QED
  BY <1>1, <1>2, <1>3, IsSeq

LEMMA MappedBoth ==
    ASSUME NEW S, NEW T, NEW m, Maps(m, S, T), NEW a \in Seq(S), NEW b \in Seq(S)
    PROVE  Mapped(m, a \o b) = Mapped(m, a) \o Mapped(m, b)
<1>1. PICK k, l, r : k = Len(a) /\ l = Len(b) /\ r = a \o b
  OBVIOUS
<1>2. /\ k \in Nat /\ l \in Nat /\ DOMAIN a = 1..k /\ DOMAIN b = 1..l
      /\ r \in Seq(S) /\ Len(r) = k + l /\ DOMAIN r = 1..(k + l)
      /\ \A n \in 1..(k + l) : r[n] = IF n <= k THEN a[n] ELSE b[n - k]
  BY <1>1, ConcatProperties
<1>3. PICK x, y, z : x = Mapped(m, a) /\ y = Mapped(m, b) /\ z = Mapped(m, r)
  OBVIOUS
<1>4. /\ x \in Seq(T) /\ Len(x) = k /\ y \in Seq(T) /\ Len(y) = l
      /\ z \in Seq(T) /\ Len(z) = k + l
  <2>1. x \in Seq(T) /\ Len(x) = Len(a)
    BY <1>3, MappedSeq
  <2>2. y \in Seq(T) /\ Len(y) = Len(b)
    BY <1>3, MappedSeq
  <2>3. z \in Seq(T) /\ Len(z) = Len(r)
    BY <1>2, <1>3, MappedSeq
  <2> QED
    BY <1>1, <1>2, <2>1, <2>2, <2>3
<1>5. /\ \A i \in 1..k : x[i] = m[a[i]]
      /\ \A i \in 1..l : y[i] = m[b[i]]
      /\ \A i \in 1..(k + l) : z[i] = m[r[i]]
  BY <1>2, <1>3 DEF Mapped
<1>6. PICK w : w = x \o y
  OBVIOUS
<1>7. /\ w \in Seq(T) /\ Len(w) = k + l
      /\ \A n \in 1..(k + l) : w[n] = IF n <= k THEN x[n] ELSE y[n - k]
  BY <1>4, <1>6, ConcatProperties
<1>8. ASSUME NEW n \in 1..(k + l)
      PROVE  z[n] = w[n]
  <2>1. CASE n <= k
    <3>1. n \in 1..k
      BY <1>2, <2>1
    <3> QED
      BY <1>2, <1>5, <1>7, <2>1, <3>1
  <2>2. CASE ~(n <= k)
    <3>1. PICK i : i = n - k
      OBVIOUS
    <3>2. i \in 1..l
      BY <1>2, <2>2, <3>1
    <3>3. r[n] = b[i] /\ w[n] = y[i] /\ z[n] = m[r[n]]
      BY <1>2, <1>5, <1>7, <2>2, <3>1
    <3>4. y[i] = m[b[i]]
      BY <1>5, <3>2
    <3> QED
      BY <3>3, <3>4
  <2> QED
    BY <2>1, <2>2
<1>9. z = w
  BY <1>4, <1>7, <1>8, SeqEqual
<1> QED
  BY <1>1, <1>3, <1>6, <1>9

LEMMA OwnSaidOf == Maps(OwnOf, Packs, Seq(Packs)) /\ Maps(SaidOf, Packs, Seq(Tokens))
<1>1. ASSUME NEW x \in Packs
      PROVE  <<x>> \in Seq(Packs) /\ <<>> \in Seq(Packs)
  OBVIOUS
<1>2. ASSUME NEW x \in Packs
      PROVE  x.data \in Seq(Tokens) /\ <<>> \in Seq(Tokens)
  BY DEF Packs
<1>3. PICK P, R, e : P = Seq(Packs) /\ R = Seq(Tokens) /\ e = <<>>
  OBVIOUS
<1>4. OwnOf = [x \in Packs |-> IF x.band = 0 THEN <<x>> ELSE e]
  BY <1>3 DEF OwnOf
<1>5. OwnOf \in [Packs -> P]
  BY <1>1, <1>3, <1>4
<1>6. SaidOf = [x \in Packs |-> IF x.band = 2 THEN x.data ELSE e]
  BY <1>3 DEF SaidOf
<1>7. SaidOf \in [Packs -> R]
  BY <1>2, <1>3, <1>6
<1> QED
  BY <1>3, <1>5, <1>7 DEF Maps

LEMMA OwnSaid ==
    ASSUME NEW s \in Seq(Packs)
    PROVE  /\ Own(s) = Joined(Mapped(OwnOf, s)) /\ Mapped(OwnOf, s) \in Seq(Seq(Packs))
           /\ Said(s) = Joined(Mapped(SaidOf, s)) /\ Mapped(SaidOf, s) \in Seq(Seq(Tokens))
<1>1. \A i \in DOMAIN s : s[i] \in Packs
  OBVIOUS
<1>2. Mapped(OwnOf, s) = [i \in DOMAIN s |-> IF s[i].band = 0 THEN <<s[i]>> ELSE <<>>]
  BY <1>1 DEF Mapped, OwnOf
<1>3. Mapped(SaidOf, s) = [i \in DOMAIN s |-> IF s[i].band = 2 THEN s[i].data ELSE <<>>]
  BY <1>1 DEF Mapped, SaidOf
<1> QED
  BY <1>2, <1>3, OwnSaidOf, MappedSeq DEF Own, Said

LEMMA OwnSaidBoth ==
    ASSUME NEW a \in Seq(Packs), NEW b \in Seq(Packs)
    PROVE  /\ Own(a \o b) = Own(a) \o Own(b)
           /\ Said(a \o b) = Said(a) \o Said(b)
<1>1. a \o b \in Seq(Packs)
  BY ConcatProperties
<1>4. Mapped(OwnOf, a \o b) = Mapped(OwnOf, a) \o Mapped(OwnOf, b)
  BY OwnSaidOf, MappedBoth
<1>5. Mapped(SaidOf, a \o b) = Mapped(SaidOf, a) \o Mapped(SaidOf, b)
  BY OwnSaidOf, MappedBoth
<1>6. Joined(Mapped(OwnOf, a) \o Mapped(OwnOf, b)) =
        Joined(Mapped(OwnOf, a)) \o Joined(Mapped(OwnOf, b))
  BY OwnSaid, JoinedBoth
<1>7. Joined(Mapped(SaidOf, a) \o Mapped(SaidOf, b)) =
        Joined(Mapped(SaidOf, a)) \o Joined(Mapped(SaidOf, b))
  BY OwnSaid, JoinedBoth
<1> QED
  BY <1>1, <1>4, <1>5, <1>6, <1>7, OwnSaid

LEMMA AllOwn ==
    ASSUME NEW s \in Seq(Packs), \A i \in DOMAIN s : s[i].band = 0
    PROVE  Own(s) = s /\ Said(s) = <<>>
<1>1. PICK ones : ones = [i \in DOMAIN s |-> <<s[i]>>]
  OBVIOUS
<1>2. Joined(ones) = s
  BY <1>1, JoinedOnes
<1>3. [i \in DOMAIN s |-> IF s[i].band = 0 THEN <<s[i]>> ELSE <<>>] = ones
  BY <1>1
<1>4. PICK k : k = Len(s)
  OBVIOUS
<1>5. k \in Nat /\ DOMAIN s = 1..k
  BY <1>4
<1>6. [i \in DOMAIN s |-> IF s[i].band = 2 THEN s[i].data ELSE <<>>] = [i \in 1..k |-> <<>>]
  BY <1>5
<1> QED
  BY <1>2, <1>3, <1>5, <1>6, JoinedNone DEF Own, Said

LEMMA NoneOwn ==
    ASSUME NEW s \in Seq(Packs), \A i \in DOMAIN s : s[i].band = 2
    PROVE  Own(s) = <<>>
<1>1. PICK k : k = Len(s)
  OBVIOUS
<1>2. k \in Nat /\ DOMAIN s = 1..k
  BY <1>1
<1>3. [i \in DOMAIN s |-> IF s[i].band = 0 THEN <<s[i]>> ELSE <<>>] = [i \in 1..k |-> <<>>]
  BY <1>2
<1> QED
  BY <1>2, <1>3, JoinedNone DEF Own

---------------------------------------------------------------------------
(* A message is cut to as many packets as it fills.                        *)
LEMMA Dividing ==
    ASSUME NEW a \in Nat, NEW size \in Nat \ {0}, NEW n, n = (a + size - 1) \div size
    PROVE  n \in Nat /\ n * size >= a /\ n * size < a + size
<1>1. PICK b \in Nat : b = a + size - 1
  OBVIOUS
<1>2. n \in Nat /\ n = b \div size
  BY <1>1
<1>3. PICK m \in 0..(size - 1) : m = b % size
  OBVIOUS
<1>4. b = size * (b \div size) + (b % size)
  OBVIOUS
<1>5. n * size + m = b
  BY <1>2, <1>3, <1>4
<1>6. n * size \in Nat
  BY <1>2
<1> QED
  BY <1>1, <1>2, <1>3, <1>5, <1>6

\* The packets of a message, in one sequence.
Packets(data, size) ==
    [i \in 1..((Len(data) + size - 1) \div size) |->
        [band |-> 2, data |-> SubSeq(data, (i - 1) * size + 1, Smaller(i * size, Len(data)))]]

LEMMA Pieced ==
    ASSUME NEW data \in Seq(Tokens), NEW size \in Nat \ {0},
           NEW n, n = (Len(data) + size - 1) \div size, NEW i \in 1..n
    PROVE  /\ n \in Nat /\ (i - 1) * size \in 0..Len(data) /\ i * size = (i - 1) * size + size
           /\ (i - 1) * size < Len(data)
           /\ Smaller(i * size, Len(data)) \in ((i - 1) * size + 1)..Len(data)
           /\ Smaller(i * size, Len(data)) <= (i - 1) * size + size
           /\ i < n => Smaller(i * size, Len(data)) = i * size
           /\ i = n => Smaller(i * size, Len(data)) = Len(data)
<1>1. PICK a \in Nat : a = Len(data)
  OBVIOUS
<1>2. n \in Nat /\ n * size >= a /\ n * size < a + size
  BY <1>1, Dividing
<1>3. PICK j \in Nat, l \in Nat : i = j + 1 /\ n = i + l
  <2>1. i - 1 \in Nat /\ n - i \in Nat /\ i = (i - 1) + 1 /\ n = i + (n - i)
    BY <1>2
  <2> QED
    BY <2>1
<1>4. PICK js \in Nat, ls \in Nat : js = j * size /\ ls = l * size
  OBVIOUS
<1>5. i * size = js + size /\ n * size = js + size + ls /\ (i - 1) * size = js
  BY <1>3, <1>4
<1>6. js < a
  BY <1>2, <1>5
<1>7. i < n => ls >= size
  <2>1. i < n => \E m \in Nat : l = m + 1
    <3>1. i < n => l - 1 \in Nat /\ l = (l - 1) + 1
      BY <1>2, <1>3
    <3> QED
      BY <3>1
  <2>2. \A m \in Nat : (m + 1) * size = m * size + size /\ m * size \in Nat
    OBVIOUS
  <2> QED
    BY <1>4, <2>1, <2>2
<1>8. i = n => ls = 0
  BY <1>3, <1>4
<1>9. i * size \in Nat
  BY <1>4, <1>5
<1> QED
  BY <1>1, <1>2, <1>4, <1>5, <1>6, <1>7, <1>8, <1>9 DEF Smaller

LEMMA Packeted ==
    ASSUME NEW data \in Seq(Tokens), NEW size \in Nat \ {0}
    PROVE  /\ Packets(data, size) \in Seq(Packs)
           /\ \A i \in DOMAIN Packets(data, size) :
                 /\ Packets(data, size)[i].band = 2
                 /\ Len(Packets(data, size)[i].data) \in 1..size
           /\ Cut(data, size) = [i \in DOMAIN Packets(data, size) |-> <<Packets(data, size)[i]>>]
           /\ data # <<>> => Packets(data, size) # <<>>
<1>1. PICK n : n = (Len(data) + size - 1) \div size
  OBVIOUS
<1>2. n \in Nat /\ n * size >= Len(data)
  <2>1. Len(data) \in Nat
    OBVIOUS
  <2> QED
    BY <1>1, <2>1, Dividing, Zenon
<1>3. PICK s : s = Packets(data, size)
  OBVIOUS
<1>4. DOMAIN s = 1..n
  BY <1>1, <1>3 DEF Packets
<1>5. ASSUME NEW i \in 1..n
      PROVE  /\ s[i] \in Packs /\ s[i].band = 2 /\ Len(s[i].data) \in 1..size
             /\ Cut(data, size)[i] = <<s[i]>>
  <2>1. PICK m, k : m = (i - 1) * size + 1 /\ k = Smaller(i * size, Len(data))
    OBVIOUS
  <2>2. s[i] = [band |-> 2, data |-> SubSeq(data, m, k)]
    BY <1>1, <1>3, <2>1 DEF Packets
  <2>3. m \in 1..Len(data) /\ k \in m..Len(data) /\ k <= m + size - 1
    <3>1. PICK j : j = (i - 1) * size
      OBVIOUS
    <3>2. j \in 0..Len(data) /\ j < Len(data) /\ k \in (j + 1)..Len(data) /\ k <= j + size
      BY <1>1, <2>1, <3>1, Pieced, Zenon
    <3> QED
      BY <2>1, <3>1, <3>2
  <2>4. SubSeq(data, m, k) \in Seq(Tokens) /\ Len(SubSeq(data, m, k)) = k - m + 1
    BY <2>3
  <2>5. k - m + 1 \in 1..size
    BY <2>3
  <2>6. Cut(data, size)[i] = <<[band |-> 2, data |-> SubSeq(data, m, k)]>>
    BY <1>1, <2>1 DEF Cut, Packet
  <2> QED
    BY <2>2, <2>4, <2>5, <2>6 DEF Packs
<1>6. s \in Seq(Packs) /\ Len(s) = n
  <2>1. s = [i \in 1..n |-> s[i]]
    BY <1>1, <1>3 DEF Packets
  <2>2. s \in [1..n -> Packs]
    BY <1>5, <2>1
  <2> QED
    BY <1>2, <2>2, IsSeq
<1>7. Cut(data, size) = [i \in 1..n |-> <<s[i]>>]
  <2>1. Cut(data, size) = [i \in 1..n |-> Cut(data, size)[i]]
    BY <1>1 DEF Cut
  <2> QED
    BY <1>5, <2>1
<1>8. data # <<>> => s # <<>>
  <2>1. data # <<>> => Len(data) > 0
    BY EmptySeq
  <2>2. n = 0 => n * size = 0
    OBVIOUS
  <2>3. data # <<>> => n # 0
    BY <1>2, <2>1, <2>2
  <2> QED
    BY <1>6, <2>3
<1> QED
  BY <1>3, <1>4, <1>5, <1>6, <1>7, <1>8

\* The client puts a message together again.
LEMMA PacketsSay ==
    ASSUME NEW data \in Seq(Tokens), NEW size \in Nat \ {0}
    PROVE  Said(Packets(data, size)) = data
<1>1. PICK n, s, l : /\ n = (Len(data) + size - 1) \div size /\ s = Packets(data, size)
                     /\ l = Len(data)
  OBVIOUS
<1>2. /\ s \in Seq(Packs) /\ DOMAIN s = 1..n /\ n \in Nat /\ l \in Nat
      /\ n * size >= l /\ n * size < l + size
  <2>1. s \in Seq(Packs)
    BY <1>1, Packeted
  <2>2. n \in Nat /\ n * size >= l /\ n * size < l + size
    <3>1. l \in Nat
      BY <1>1
    <3> QED
      BY <1>1, <3>1, Dividing, Zenon
  <2>3. DOMAIN s = 1..n
    BY <1>1 DEF Packets
  <2> QED
    BY <1>1, <2>1, <2>2, <2>3
<1>3. PICK said : said = Mapped(SaidOf, s)
  OBVIOUS
<1>4. said \in Seq(Seq(Tokens)) /\ Len(said) = n /\ Said(s) = Joined(said)
  <2>1. said \in Seq(Seq(Tokens)) /\ Said(s) = Joined(said)
    BY <1>2, <1>3, OwnSaid
  <2>2. DOMAIN said = 1..n
    BY <1>2, <1>3 DEF Mapped
  <2> QED
    BY <1>2, <2>1, <2>2
<1>5. PICK upto : upto = [i \in 0..n |-> IF i = n THEN l ELSE i * size]
  OBVIOUS
<1>6. PICK g : g = [i \in 0..n |-> SubSeq(data, 1, upto[i])]
  OBVIOUS
<1>7. ASSUME NEW i \in 1..n
      PROVE  g[i] = g[i - 1] \o said[i]
  <2>1. PICK m, k : m = (i - 1) * size /\ k = Smaller(i * size, Len(data))
    OBVIOUS
  <2>2. /\ m \in 0..Len(data) /\ k \in (m + 1)..Len(data)
        /\ i < n => k = i * size
        /\ i = n => k = l
    BY <1>1, <2>1, Pieced
  <2>3. i - 1 \in 0..n /\ i \in 0..n /\ i - 1 # n
    BY <1>2
  <2>4. upto[i - 1] = m /\ upto[i] = k
    BY <1>2, <1>5, <2>1, <2>2, <2>3
  <2>5. said[i] = SubSeq(data, m + 1, k)
    <3>1. s[i] = [band |-> 2, data |-> SubSeq(data, m + 1, k)]
      BY <1>1, <2>1 DEF Packets
    <3>2. s[i] \in Packs
      BY <1>2
    <3> QED
      BY <1>2, <1>3, <3>1, <3>2 DEF Mapped, SaidOf
  <2>6. SubSeq(data, 1, m) \o SubSeq(data, m + 1, k) = SubSeq(data, 1, k)
    <3>1. 1 \in 1..(Len(data) + 1) /\ m \in (1 - 1)..Len(data) /\ k \in m..Len(data)
      BY <1>1, <1>2, <2>2
    <3> QED
      BY <3>1, ConcatAdjacentSubSeq
  <2> QED
    BY <1>6, <2>3, <2>4, <2>5, <2>6
<1>8. g[0] = <<>>
  <2>1. 0 \in 0..n
    BY <1>2
  <2>2. n = 0 => l = 0
    BY <1>2
  <2>3. upto[0] = 0
    BY <1>2, <1>5, <2>1, <2>2
  <2> QED
    BY <1>6, <2>1, <2>3, SubSeqEmpty
<1>9. g[n] = data
  <2>1. n \in 0..n
    BY <1>2
  <2> QED
    BY <1>1, <1>5, <1>6, <2>1, SubSeqFull
<1>10. Adds(g, said, n)
  BY <1>7, <1>8 DEF Adds
<1> QED
  BY <1>1, <1>4, <1>9, <1>10, JoinedAs

---------------------------------------------------------------------------
(* A response: chunks whose packets fit the side band, and which joined    *)
(* are the output of git with the messages in it.                          *)
Fits(caps) ==
    {c \in Seq(Packs) : \A j \in DOMAIN c : c[j].band = 2 =>
        Len(c[j].data) \in 1..(IF "side-band-64k" \in caps THEN LargeBand ELSE SmallBand)}

LEMMA PieceFacts ==
    /\ \A x \in Pieces : x \in Packs /\ x.band = 0
    /\ \A s \in Seq(Pieces) : /\ s \in Seq(Packs) /\ \A i \in DOMAIN s : s[i].band = 0
                              /\ Own(s) = s /\ Said(s) = <<>>
    /\ Nak \in Seq(Pieces) /\ Len(Nak) = 2 /\ Flush \in Seq(Pieces) /\ Len(Flush) = 2
<1>1. \A x \in Pieces : x \in Packs /\ x.band = 0
  BY DEF Pieces, Packs
<1>2. ASSUME NEW s \in Seq(Pieces)
      PROVE  /\ s \in Seq(Packs) /\ \A i \in DOMAIN s : s[i].band = 0
             /\ Own(s) = s /\ Said(s) = <<>>
  <2>1. Pieces \subseteq Packs
    BY <1>1
  <2>2. s \in Seq(Packs)
    BY <2>1, SeqMonotonic
  <2>3. \A i \in DOMAIN s : s[i] \in Pieces
    OBVIOUS
  <2>4. \A i \in DOMAIN s : s[i].band = 0
    BY <1>1, <2>3
  <2> QED
    BY <2>2, <2>4, AllOwn
<1>3. \A s \in Tokens : Raw(s) \in Pieces
  BY DEF Raw, Pieces
<1>4. "0008" \in Tokens /\ "NAK" \in Tokens /\ "00" \in Tokens /\ "00." \in Tokens
  BY PullAssumption
<1>5. PICK a, b, c, d : a = Raw("0008") /\ b = Raw("NAK") /\ c = Raw("00") /\ d = Raw("00.")
  OBVIOUS
<1>6. a \in Pieces /\ b \in Pieces /\ c \in Pieces /\ d \in Pieces
  BY <1>3, <1>4, <1>5
<1>7. <<a, b>> \in Seq(Pieces) /\ Len(<<a, b>>) = 2 /\ <<c, d>> \in Seq(Pieces) /\ Len(<<c, d>>) = 2
  BY <1>6
<1>8. Nak = <<a, b>> /\ Flush = <<c, d>>
  BY <1>5 DEF Nak, Flush
<1> QED
  BY <1>1, <1>2, <1>7, <1>8

LEMMA ChunksFit ==
    ASSUME NEW caps
    PROVE  Seq(Pieces) \subseteq Fits(caps) /\ Seq(Seq(Pieces)) \subseteq Seq(Fits(caps))
<1>1. ASSUME NEW s \in Seq(Pieces)
      PROVE  s \in Fits(caps)
  <2>1. s \in Seq(Packs) /\ \A i \in DOMAIN s : s[i].band = 0
    BY PieceFacts
  <2> QED
    BY <2>1 DEF Fits
<1>2. PICK P, F : P = Seq(Pieces) /\ F = Fits(caps)
  OBVIOUS
<1>3. P \subseteq F
  BY <1>1, <1>2
<1>4. \A r \in Seq(P) : r \in Seq(F)
  BY <1>3, SeqMonotonic
<1> QED
  BY <1>2, <1>3, <1>4

LEMMA PacketsFit ==
    ASSUME NEW caps, NEW d \in Seq(Tokens),
           Len(d) \in 1..(IF "side-band-64k" \in caps THEN LargeBand ELSE SmallBand)
    PROVE  Packet(2, d) \in Fits(caps)
<1>1. PICK p : p = [band |-> 2, data |-> d]
  OBVIOUS
<1>2. p \in Packs /\ p.data = d
  BY <1>1 DEF Packs
<1>3. <<p>> \in Seq(Packs) /\ DOMAIN <<p>> = 1..1 /\ <<p>>[1] = p
  BY <1>2
<1>4. \A j \in DOMAIN <<p>> : <<p>>[j] = p
  BY <1>3
<1>5. <<p>> \in Fits(caps)
  BY <1>2, <1>3, <1>4 DEF Fits
<1> QED
  BY <1>1, <1>5 DEF Packet

LEMMA MessagesAre ==
    ASSUME NEW caps \in SUBSET Caps, NEW data \in Seq(Tokens)
    PROVE  /\ Messages(data, caps) \in Seq(Fits(caps))
           /\ caps # {} => \E s \in Seq(Packs) :
                /\ Joined(Messages(data, caps)) = s
                /\ Messages(data, caps) \in Seq(Seq(Packs))
                /\ \A i \in DOMAIN s : s[i].band = 2
                /\ Own(s) = <<>> /\ Said(s) = data
                /\ data # <<>> => s # <<>>
<1>1. CASE caps = {}
  <2>1. Messages(data, caps) = <<>>
    BY <1>1 DEF Messages
  <2>2. PICK F : F = Fits(caps)
    OBVIOUS
  <2>3. <<>> \in Seq(F)
    OBVIOUS
  <2> QED
    BY <1>1, <2>1, <2>2, <2>3
<1>2. CASE caps # {}
  <2>1. PICK size : size = IF "side-band-64k" \in caps THEN LargeBand ELSE SmallBand
    OBVIOUS
  <2>2. size \in Nat \ {0}
    BY <2>1, PullAssumption
  <2>3. "side-band-64k" \in caps \/ "side-band" \in caps
    BY <1>2 DEF Caps
  <2>4. Messages(data, caps) = Cut(data, size)
    BY <2>1, <2>3 DEF Messages
  <2>5. PICK s, n, cut : s = Packets(data, size) /\ n = Len(s) /\ cut = Cut(data, size)
    OBVIOUS
  <2>6. /\ s \in Seq(Packs) /\ cut = [i \in DOMAIN s |-> <<s[i]>>]
        /\ \A i \in DOMAIN s : s[i].band = 2 /\ Len(s[i].data) \in 1..size
        /\ data # <<>> => s # <<>>
    <3>1. /\ Packets(data, size) \in Seq(Packs)
          /\ \A i \in DOMAIN Packets(data, size) :
                /\ Packets(data, size)[i].band = 2
                /\ Len(Packets(data, size)[i].data) \in 1..size
          /\ Cut(data, size) = [i \in DOMAIN Packets(data, size) |-> <<Packets(data, size)[i]>>]
          /\ data # <<>> => Packets(data, size) # <<>>
      BY <2>2, Packeted
    <3> QED
      BY <2>5, <3>1
  <2>7. Joined(cut) = s
    BY <2>6, JoinedOnes
  <2>8. Own(s) = <<>> /\ Said(s) = data
    BY <2>2, <2>5, <2>6, NoneOwn, PacketsSay
  <2>9. n \in Nat /\ DOMAIN s = 1..n
    BY <2>5, <2>6
  <2>10. ASSUME NEW i \in 1..n
         PROVE  <<s[i]>> \in Fits(caps) /\ <<s[i]>> \in Seq(Packs)
    <3>1. PICK p : p = s[i]
      OBVIOUS
    <3>2. p \in Packs /\ p.band = 2 /\ Len(p.data) \in 1..size
      BY <2>6, <2>9, <3>1
    <3>3. <<p>> \in Seq(Packs) /\ DOMAIN <<p>> = 1..1 /\ <<p>>[1] = p
      BY <3>2
    <3>4. \A j \in DOMAIN <<p>> : <<p>>[j] = p
      BY <3>3
    <3>5. <<p>> \in Fits(caps)
      BY <2>1, <3>2, <3>3, <3>4 DEF Fits
    <3> QED
      BY <3>1, <3>3, <3>5
  <2>11. PICK F, P : F = Fits(caps) /\ P = Seq(Packs)
    OBVIOUS
  <2>12. cut \in [1..n -> F] /\ cut \in [1..n -> P]
    BY <2>6, <2>9, <2>10, <2>11
  <2>13. cut \in Seq(F) /\ cut \in Seq(P)
    BY <2>9, <2>12, IsSeq
  <2> QED
    BY <2>4, <2>5, <2>6, <2>7, <2>8, <2>11, <2>13
<1> QED
  BY <1>1, <1>2

LEMMA RefusalFits ==
    ASSUME NEW caps \in SUBSET Caps, NEW messages \in Seq(Tokens)
    PROVE  FailedResponse(caps, messages) \in Seq(Fits(caps))
<1>1. PICK F : F = Fits(caps)
  OBVIOUS
<1>2. Nak \in F /\ Flush \in F
  BY <1>1, PieceFacts, ChunksFit
<1>3. <<Raw(EmptyPack)>> \in F
  <2>1. PICK p : p = Raw(EmptyPack)
    OBVIOUS
  <2>2. p \in Pieces
    BY <2>1, PullAssumption DEF Raw, Pieces
  <2>3. <<p>> \in Seq(Pieces)
    BY <2>2
  <2> QED
    BY <1>1, <2>1, <2>3, ChunksFit
<1>4. Packet(2, <<Aborting>>) \in F
  <2>1. PICK d : d = <<Aborting>>
    OBVIOUS
  <2>2. d \in Seq(Tokens) /\ Len(d) = 1
    BY <2>1, PullAssumption
  <2>3. 1 \in 1..(IF "side-band-64k" \in caps THEN LargeBand ELSE SmallBand)
    BY PullAssumption
  <2> QED
    BY <1>1, <2>1, <2>2, <2>3, PacketsFit
<1>5. Packet(1, <<EmptyPack>>) \in F
  <2>1. PICK p : p = [band |-> 1, data |-> <<EmptyPack>>]
    OBVIOUS
  <2>2. p \in Packs /\ p.band = 1
    BY <2>1, PullAssumption DEF Packs
  <2>3. <<p>> \in Seq(Packs) /\ \A j \in DOMAIN <<p>> : <<p>>[j].band = 1
    BY <2>2
  <2>4. <<p>> \in F
    BY <1>1, <2>3 DEF Fits
  <2> QED
    BY <2>1, <2>4 DEF Packet
<1>6. CASE caps = {}
  <2>1. PICK c : c = <<Raw(EmptyPack)>>
    OBVIOUS
  <2>2. <<c>> \in Seq(F)
    BY <1>3, <2>1
  <2> QED
    BY <1>1, <1>6, <2>1, <2>2 DEF FailedResponse
<1>7. CASE caps # {}
  <2>1. PICK a, b, c, m, n : /\ a = Packet(2, <<Aborting>>) /\ b = Packet(1, <<EmptyPack>>)
                             /\ c = Flush /\ m = Messages(messages, caps) /\ n = Nak
    OBVIOUS
  <2>2. <<a, b, c>> \in Seq(F) /\ <<n>> \in Seq(F)
    BY <1>2, <1>4, <1>5, <2>1
  <2>3. m \in Seq(F)
    BY <1>1, <2>1, MessagesAre
  <2>4. (<<n>> \o m) \o <<a, b, c>> \in Seq(F)
    BY <2>2, <2>3, ConcatProperties
  <2> QED
    BY <1>1, <1>7, <2>1, <2>4 DEF FailedResponse
<1> QED
  BY <1>6, <1>7

---------------------------------------------------------------------------
(* The output of git between its first line and its end.                   *)
LEMMA Ends ==
    ASSUME NEW c \in Seq(Pieces)
    PROVE  /\ StartsWithNak(c) => /\ Len(c) >= 2 /\ CutStart(c) \in Seq(Pieces)
                                  /\ Nak \o CutStart(c) = c
           /\ EndsWithFlush(c) => /\ Len(c) >= 2 /\ CutEnd(c) \in Seq(Pieces)
                                  /\ CutEnd(c) \o Flush = c
<1>1. Len(c) \in Nat
  OBVIOUS
<1>2. ASSUME StartsWithNak(c)
      PROVE  Len(c) >= 2 /\ CutStart(c) \in Seq(Pieces) /\ Nak \o CutStart(c) = c
  <2>1. Len(c) >= 2 /\ SubSeq(c, 1, 2) = Nak
    BY <1>2 DEF StartsWithNak
  <2>2. 1 \in 1..(Len(c) + 1) /\ 2 \in (1 - 1)..Len(c) /\ Len(c) \in 2..Len(c)
    BY <1>1, <2>1
  <2>3. SubSeq(c, 1, 2) \o SubSeq(c, 2 + 1, Len(c)) = SubSeq(c, 1, Len(c))
    BY <2>2, ConcatAdjacentSubSeq
  <2>4. SubSeq(c, 1, Len(c)) = c
    BY SubSeqFull
  <2>5. CutStart(c) = SubSeq(c, 2 + 1, Len(c)) /\ CutStart(c) \in Seq(Pieces)
    <3>1. \A i \in 3..Len(c) : c[i] \in Pieces
      BY <1>1
    <3> QED
      BY <1>1, <3>1 DEF CutStart
  <2>6. Nak \o CutStart(c) = c
    BY <2>1, <2>3, <2>4, <2>5, Zenon
  <2> QED
    BY <2>1, <2>5, <2>6, Zenon
<1>3. ASSUME EndsWithFlush(c)
      PROVE  Len(c) >= 2 /\ CutEnd(c) \in Seq(Pieces) /\ CutEnd(c) \o Flush = c
  <2>1. Len(c) >= 2 /\ SubSeq(c, Len(c) - 1, Len(c)) = Flush
    BY <1>3 DEF EndsWithFlush
  <2>2. PICK k : k = Len(c) - 2
    OBVIOUS
  <2>3. /\ k \in Nat /\ k + 1 = Len(c) - 1
        /\ 1 \in 1..(Len(c) + 1) /\ k \in (1 - 1)..Len(c) /\ Len(c) \in k..Len(c)
    BY <1>1, <2>1, <2>2
  <2>4. SubSeq(c, 1, k) \o SubSeq(c, k + 1, Len(c)) = SubSeq(c, 1, Len(c))
    BY <2>3, ConcatAdjacentSubSeq
  <2>5. SubSeq(c, 1, Len(c)) = c
    BY SubSeqFull
  <2>6. CutEnd(c) = SubSeq(c, 1, k) /\ CutEnd(c) \in Seq(Pieces)
    <3>1. \A i \in 1..k : c[i] \in Pieces
      BY <1>1, <2>2
    <3> QED
      BY <2>2, <2>3, <3>1 DEF CutEnd
  <2>7. CutEnd(c) \o Flush = c
    BY <2>1, <2>2, <2>3, <2>4, <2>5, <2>6, Zenon
  <2> QED
    BY <2>1, <2>6, <2>7, Zenon
<1> QED
  BY <1>2, <1>3, Zenon

\* One chunk that is both holds both: the line and the end do not overlap.
LEMMA BothEnds ==
    ASSUME NEW c \in Seq(Pieces), StartsWithNak(c), EndsWithFlush(c)
    PROVE  EndsWithFlush(CutStart(c))
<1>1. PICK n : n = Len(c)
  OBVIOUS
<1>2. n \in Nat /\ n >= 2 /\ SubSeq(c, 1, 2) = Nak /\ SubSeq(c, n - 1, n) = Flush
  BY <1>1 DEF StartsWithNak, EndsWithFlush
<1>3. \A i \in 1..n : c[i] \in Pieces
  BY <1>1
<1>4. SubSeq(c, 1, 2)[1] = c[1] /\ SubSeq(c, 1, 2)[2] = c[2]
  BY <1>2, <1>3
<1>5. SubSeq(c, n - 1, n)[1] = c[n - 1] /\ SubSeq(c, n - 1, n)[2] = c[n]
  BY <1>2, <1>3
<1>6. /\ c[1] = Raw("0008") /\ c[2] = Raw("NAK")
      /\ c[n - 1] = Raw("00") /\ c[n] = Raw("00.")
  <2>1. /\ Nak[1] = Raw("0008") /\ Nak[2] = Raw("NAK")
        /\ Flush[1] = Raw("00") /\ Flush[2] = Raw("00.")
    BY DEF Nak, Flush
  <2> QED
    BY <1>2, <1>4, <1>5, <2>1, Zenon
<1>7. /\ Raw("0008") # Raw("00") /\ Raw("NAK") # Raw("00") /\ Raw("0008") # Raw("00.")
      /\ Raw("NAK") # Raw("00.")
  <2>1. \A s, t : Raw(s) = Raw(t) => s = t
    <3> SUFFICES ASSUME NEW s, NEW t, Raw(s) = Raw(t) PROVE s = t
      OBVIOUS
    <3>1. Raw(s).data = <<s>> /\ Raw(t).data = <<t>>
      BY DEF Raw
    <3>2. <<s>> = <<t>>
      BY <3>1
    <3> QED
      BY <3>2
  <2> QED
    BY <2>1
<1>8. n >= 4
  BY <1>2, <1>6, <1>7
<1>9. PICK d : d = CutStart(c)
  OBVIOUS
<1>10. d \in Seq(Pieces) /\ Len(d) = n - 2 /\ \A i \in 1..(n - 2) : d[i] = c[i + 2]
  <2>1. d = SubSeq(c, 3, n)
    BY <1>1, <1>9 DEF CutStart
  <2>2. n \in Int /\ 3 \in Int /\ \A i \in 3..n : c[i] \in Pieces
    BY <1>2, <1>3
  <2>3. /\ d \in Seq(Pieces) /\ Len(d) = (IF 3 <= n THEN n - 3 + 1 ELSE 0)
        /\ \A i \in 1..(n - 3 + 1) : d[i] = c[3 + i - 1]
    BY <2>1, <2>2, SubSeqProperties
  <2>4. ASSUME NEW i \in 1..(n - 2)
        PROVE  d[i] = c[i + 2]
    <3>1. i \in 1..(n - 3 + 1) /\ 3 + i - 1 = i + 2
      BY <1>2
    <3> QED
      BY <2>3, <3>1
  <2>5. (IF 3 <= n THEN n - 3 + 1 ELSE 0) = n - 2
    BY <1>2, <1>8
  <2> QED
    BY <2>3, <2>4, <2>5
<1>11. SubSeq(d, n - 3, n - 2) = Flush
  <2>1. n - 3 \in 1..(n - 2) /\ n - 2 \in 1..(n - 2) /\ (n - 3) + 2 = n - 1 /\ (n - 2) + 2 = n
    BY <1>2, <1>8
  <2>2. d[n - 3] = Raw("00") /\ d[n - 2] = Raw("00.")
    BY <1>6, <1>10, <2>1
  <2>3. PICK x, y, s : x = n - 3 /\ y = n - 2 /\ s = SubSeq(d, x, y)
    OBVIOUS
  <2>4. x \in Int /\ y \in Int /\ \A i \in x..y : d[i] \in Pieces
    BY <1>2, <1>8, <1>10, <2>3
  <2>5. /\ s \in Seq(Pieces) /\ Len(s) = (IF x <= y THEN y - x + 1 ELSE 0)
        /\ \A i \in 1..(y - x + 1) : s[i] = d[x + i - 1]
    BY <2>3, <2>4, SubSeqProperties
  <2>6. y - x + 1 = 2 /\ x <= y /\ x + 1 - 1 = x /\ x + 2 - 1 = y /\ 1 \in 1..2 /\ 2 \in 1..2
    BY <1>2, <2>3
  <2>7. Len(s) = 2 /\ s[1] = d[x] /\ s[2] = d[y]
    BY <2>5, <2>6
  <2>8. Flush \in Seq(Pieces) /\ Len(Flush) = 2 /\ Flush[1] = Raw("00") /\ Flush[2] = Raw("00.")
    BY PieceFacts DEF Flush
  <2>9. \A i \in 1..2 : s[i] = Flush[i]
    BY <2>2, <2>3, <2>7, <2>8
  <2>10. s = Flush
    BY <2>5, <2>7, <2>8, <2>9, SeqEqual
  <2> QED
    BY <2>3, <2>10
<1>12. Len(d) - 1 = n - 3 /\ Len(d) >= 2
  BY <1>2, <1>8, <1>10
<1> QED
  BY <1>9, <1>10, <1>11, <1>12 DEF EndsWithFlush

LEMMA InnerIs ==
    ASSUME NEW r \in Seq(Seq(Pieces)), r # <<>>, StartsWithNak(r[1]), EndsWithFlush(r[Len(r)])
    PROVE  Inner(r) \in Seq(Seq(Pieces)) /\ (Nak \o Joined(Inner(r))) \o Flush = Joined(r)
<1>1. PICK n, P : n = Len(r) /\ P = Seq(Pieces)
  OBVIOUS
<1>2. n \in Nat /\ n >= 1 /\ r \in Seq(P) /\ \A i \in 1..n : r[i] \in P
  BY <1>1, EmptySeq
<1>3. PICK first, last : first = CutStart(r[1]) /\ last = CutEnd(r[n])
  OBVIOUS
<1>4. first \in P /\ last \in P /\ Nak \o first = r[1] /\ last \o Flush = r[n]
  <2>1. r[1] \in Seq(Pieces) /\ r[n] \in Seq(Pieces)
    BY <1>1, <1>2
  <2>2. StartsWithNak(r[1]) /\ EndsWithFlush(r[n])
    BY <1>1
  <2>3. CutStart(r[1]) \in Seq(Pieces) /\ Nak \o CutStart(r[1]) = r[1]
    BY <2>1, <2>2, Ends
  <2>4. CutEnd(r[n]) \in Seq(Pieces) /\ CutEnd(r[n]) \o Flush = r[n]
    BY <2>1, <2>2, Ends
  <2> QED
    BY <1>1, <1>3, <2>3, <2>4, Zenon
<1>5. Nak \in P /\ Flush \in P
  BY <1>1, PieceFacts
<1>6. \A x \in P, y \in P, z \in P : Associates(x, y, z)
  BY <1>1, Associative
<1>7. CASE n = 1
  <2>1. PICK mid : mid = CutEnd(first)
    OBVIOUS
  <2>2. r[1] \in Seq(Pieces) /\ StartsWithNak(r[1]) /\ EndsWithFlush(r[1])
    BY <1>1, <1>2, <1>7
  <2>3. EndsWithFlush(first) /\ first \in Seq(Pieces)
    BY <1>1, <1>3, <1>4, <2>2, BothEnds
  <2>4. mid \in P /\ mid \o Flush = first
    BY <1>1, <2>1, <2>3, Ends
  <2>5. Inner(r) = <<mid>>
    BY <1>1, <1>3, <1>7, <2>1 DEF Inner
  <2>6. <<mid>> \in Seq(P) /\ Joined(<<mid>>) = mid
    BY <1>1, <2>4, JoinedOne
  <2>7. (Nak \o mid) \o Flush = r[1]
    <3>1. Associates(Nak, mid, Flush)
      BY <1>5, <1>6, <2>4
    <3> QED
      BY <1>4, <2>4, <3>1, Zenon DEF Associates
  <2>8. Joined(r) = r[1]
    <3>1. r = <<r[1]>>
      <4>1. PICK c : c = <<r[1]>>
        OBVIOUS
      <4>2. c \in Seq(P) /\ Len(c) = 1 /\ c[1] = r[1]
        BY <1>2, <1>7, <4>1
      <4>3. \A i \in 1..Len(r) : r[i] = c[i]
        BY <1>1, <1>7, <4>2
      <4>4. r \in Seq(P) /\ c \in Seq(P) /\ Len(r) = Len(c)
        BY <1>1, <1>2, <1>7, <4>2
      <4>5. r = c
        BY <4>3, <4>4, SeqEqual
      <4> QED
        BY <4>1, <4>5
    <3> QED
      BY <2>2, <3>1, JoinedOne
  <2> QED
    BY <1>1, <2>5, <2>6, <2>7, <2>8, Zenon
<1>8. CASE n # 1
  <2>1. n >= 2
    BY <1>2, <1>8
  <2>2. PICK mid, a, b, c, d : /\ mid = SubSeq(r, 2, n - 1)
                               /\ a = <<first>> /\ b = <<last>> /\ c = <<r[1]>> /\ d = <<r[n]>>
    OBVIOUS
  <2>3. r[1] \in P /\ r[n] \in P /\ 1 \in 1..n /\ n \in 1..n
    BY <1>2, <2>1
  <2>4. a \in Seq(P) /\ b \in Seq(P) /\ c \in Seq(P) /\ d \in Seq(P)
    BY <1>4, <2>2, <2>3
  <2>5. mid \in Seq(P)
    <3>1. \A i \in 2..(n - 1) : r[i] \in P
      BY <1>2
    <3> QED
      BY <1>2, <2>2, <3>1, SubSeqProperties
  <2>6. Joined(a) = first /\ Joined(b) = last /\ Joined(c) = r[1] /\ Joined(d) = r[n]
    BY <1>1, <1>4, <2>2, <2>3, JoinedOne
  <2>7. PICK jm : jm = Joined(mid)
    OBVIOUS
  <2>8. jm \in P
    BY <1>1, <2>5, <2>7, JoinedSeq
  <2>9. Inner(r) = (a \o mid) \o b
    BY <1>1, <1>3, <1>8, <2>2 DEF Inner
  <2>10. a \o mid \in Seq(P) /\ c \o mid \in Seq(P)
    BY <2>4, <2>5, ConcatProperties
  <2>11. (a \o mid) \o b \in Seq(P)
    BY <2>4, <2>10, ConcatProperties
  <2>12. Joined(a \o mid) = first \o jm /\ Joined(c \o mid) = r[1] \o jm
    BY <1>1, <2>4, <2>5, <2>6, <2>7, JoinedBoth
  <2>13. /\ Joined((a \o mid) \o b) = (first \o jm) \o last
         /\ Joined((c \o mid) \o d) = (r[1] \o jm) \o r[n]
    <3>1. PICK am, cm : am = a \o mid /\ cm = c \o mid
      OBVIOUS
    <3>2. /\ am \in Seq(Seq(Pieces)) /\ cm \in Seq(Seq(Pieces))
          /\ b \in Seq(Seq(Pieces)) /\ d \in Seq(Seq(Pieces))
      BY <1>1, <2>4, <2>10, <3>1
    <3>3. Joined(am \o b) = Joined(am) \o Joined(b) /\ Joined(cm \o d) = Joined(cm) \o Joined(d)
      BY <3>2, JoinedBoth
    <3> QED
      BY <2>6, <2>12, <3>1, <3>3, Zenon
  <2>14. r = (c \o mid) \o d
    <3>1. SubSeq(r, 1, n - 1) = c \o mid
      <4>1. 1 \in 1..Len(r) /\ n - 1 \in 1..Len(r)
        BY <1>1, <1>2, <2>1
      <4>2. n - 1 \in 1..Len(r) /\ n - 1 \in 1..(n - 1)
        BY <1>1, <1>2, <2>1
      <4>3. SubSeq(r, 1, n - 1) = <<r[1]>> \o SubSeq(r, 1 + 1, n - 1)
        BY <4>1, <4>2, SubSeqRecursiveFirst
      <4>4. 1 + 1 = 2
        OBVIOUS
      <4> QED
        BY <2>2, <4>3, <4>4, Zenon
    <3>2. SubSeq(r, 1, n) = SubSeq(r, 1, n - 1) \o <<r[n]>>
      <4>1. 1 \in 1..Len(r) /\ n \in 1..Len(r)
        BY <1>1, <1>2, <2>1
      <4> QED
        BY <4>1, SubSeqRecursiveSecond
    <3>3. SubSeq(r, 1, n) = r
      BY <1>1, SubSeqFull
    <3> QED
      BY <2>2, <3>1, <3>2, <3>3, Zenon
  <2>15. first \o jm \in P /\ Nak \o (first \o jm) \in P /\ (first \o jm) \o last \in P
         /\ r[1] \o jm \in P
    <3>1. \A x \in P, y \in P : x \o y \in P
      BY <1>1, ConcatProperties
    <3> QED
      BY <1>4, <1>5, <2>3, <2>8, <3>1
  <2>16. Nak \o (first \o jm) = r[1] \o jm
    <3>1. Associates(Nak, first, jm)
      BY <1>4, <1>5, <1>6, <2>8
    <3> QED
      BY <1>4, <3>1, Zenon DEF Associates
  <2>17. Nak \o ((first \o jm) \o last) = (r[1] \o jm) \o last
    <3>1. Associates(Nak, first \o jm, last)
      BY <1>4, <1>5, <1>6, <2>15
    <3> QED
      BY <2>16, <3>1, Zenon DEF Associates
  <2>18. ((r[1] \o jm) \o last) \o Flush = (r[1] \o jm) \o r[n]
    <3>1. Associates(r[1] \o jm, last, Flush)
      BY <1>4, <1>5, <1>6, <2>15
    <3> QED
      BY <1>4, <3>1, Zenon DEF Associates
  <2> QED
    BY <1>1, <2>9, <2>11, <2>13, <2>14, <2>17, <2>18, Zenon
<1> QED
  BY <1>7, <1>8

\* The first two and the last two of a sequence.
LEMMA Borders ==
    ASSUME NEW S, NEW s \in Seq(S), Len(s) >= 2
    PROVE  /\ SubSeq(s, 1, 2) = <<s[1], s[2]>>
           /\ SubSeq(s, Len(s) - 1, Len(s)) = <<s[Len(s) - 1], s[Len(s)]>>
<1>1. PICK n : n = Len(s)
  OBVIOUS
<1>2. n \in Nat /\ n >= 2 /\ \A i \in 1..n : s[i] \in S
  BY <1>1
<1>3. ASSUME NEW m \in 1..(n - 1)
      PROVE  SubSeq(s, m, m + 1) = <<s[m], s[m + 1]>>
  <2>1. PICK t, u, k : k = m + 1 /\ t = SubSeq(s, m, m + 1) /\ u = <<s[m], s[m + 1]>>
    OBVIOUS
  <2>2. m \in Int /\ k \in Int /\ \A i \in m..k : s[i] \in S
    BY <1>2, <2>1
  <2>3. /\ t \in Seq(S) /\ Len(t) = (IF m <= k THEN k - m + 1 ELSE 0)
        /\ \A i \in 1..(k - m + 1) : t[i] = s[m + i - 1]
    BY <2>1, <2>2, SubSeqProperties
  <2>4. /\ k - m + 1 = 2 /\ m <= k /\ m + 1 - 1 = m /\ m + 2 - 1 = k /\ 1 \in 1..2 /\ 2 \in 1..2
        /\ m \in 1..n /\ k \in 1..n
    BY <1>2, <2>1
  <2>5. Len(t) = 2 /\ t[1] = s[m] /\ t[2] = s[k]
    BY <2>3, <2>4
  <2>6. u \in Seq(S) /\ Len(u) = 2 /\ u[1] = s[m] /\ u[2] = s[k]
    BY <1>2, <2>1, <2>4
  <2>7. \A i \in 1..2 : t[i] = u[i]
    BY <2>5, <2>6
  <2>8. t = u
    BY <2>3, <2>5, <2>6, <2>7, SeqEqual
  <2> QED
    BY <2>1, <2>8
<1>4. 1 \in 1..(n - 1) /\ n - 1 \in 1..(n - 1) /\ 1 + 1 = 2 /\ (n - 1) + 1 = n
  BY <1>2
<1> QED
  BY <1>1, <1>3, <1>4

---------------------------------------------------------------------------
(* What the client makes of a response with messages.                      *)
Complete(got, output, first, last) ==
    /\ Own(got) = output
    /\ Said(got) # <<>> =>
          /\ Said(got) = first \o last
          /\ SubSeq(got, 1, 2) = Nak
          /\ SubSeq(got, Len(got) - 1, Len(got)) = Flush
          /\ first # <<>> => got[3].band = 2
          /\ last # <<>> => got[Len(got) - 2].band = 2

Glued(w, u, v) == w = u \o v
LEMMA Gluing ==
    ASSUME NEW u \in Seq(Packs), NEW v \in Seq(Packs), NEW w, Glued(w, u, v)
    PROVE  /\ w \in Seq(Packs) /\ Len(w) = Len(u) + Len(v)
           /\ \A n \in 1..Len(u) : w[n] = u[n]
           /\ \A n \in 1..Len(v) : w[Len(u) + n] = v[n]
           /\ Own(w) = Own(u) \o Own(v) /\ Said(w) = Said(u) \o Said(v)
<1>1. /\ u \o v \in Seq(Packs) /\ Len(u \o v) = Len(u) + Len(v)
      /\ \A n \in 1..(Len(u) + Len(v)) : (u \o v)[n] = IF n <= Len(u) THEN u[n] ELSE v[n - Len(u)]
  BY ConcatProperties
<1>2. PICK k, l : k = Len(u) /\ l = Len(v)
  OBVIOUS
<1>3. k \in Nat /\ l \in Nat
  BY <1>2
<1>4. /\ w \in Seq(Packs) /\ Len(w) = k + l
      /\ \A n \in 1..(k + l) : w[n] = IF n <= k THEN u[n] ELSE v[n - k]
  BY <1>1, <1>2 DEF Glued
<1>5. ASSUME NEW n \in 1..k
      PROVE  w[n] = u[n]
  <2>1. n \in 1..(k + l) /\ n <= k
    BY <1>3
  <2> QED
    BY <1>4, <2>1
<1>6. ASSUME NEW n \in 1..l
      PROVE  w[k + n] = v[n]
  <2>1. k + n \in 1..(k + l) /\ ~(k + n <= k) /\ (k + n) - k = n
    BY <1>3
  <2> QED
    BY <1>4, <2>1
<1>7. Own(w) = Own(u) \o Own(v) /\ Said(w) = Said(u) \o Said(v)
  BY OwnSaidBoth DEF Glued
<1> QED
  BY <1>2, <1>4, <1>5, <1>6, <1>7

LEMMA MessagesAround ==
    ASSUME NEW a \in Seq(Packs), NEW i \in Seq(Pieces), NEW b \in Seq(Packs),
           NEW first \in Seq(Tokens), NEW last \in Seq(Tokens),
           Own(a) = <<>>, Own(b) = <<>>, Said(a) = first, Said(b) = last,
           \A j \in DOMAIN a : a[j].band = 2, \A j \in DOMAIN b : b[j].band = 2,
           first # <<>> => a # <<>>, last # <<>> => b # <<>>
    PROVE  Complete((((Nak \o a) \o i) \o b) \o Flush, (Nak \o i) \o Flush, first, last)
<1>1. PICK nak, flush, x, y, z, got : /\ nak = Nak /\ flush = Flush /\ x = nak \o a /\ y = x \o i
                                      /\ z = y \o b /\ got = z \o flush
  OBVIOUS
<1>0. Glued(x, nak, a) /\ Glued(y, x, i) /\ Glued(z, y, b) /\ Glued(got, z, flush)
  BY <1>1 DEF Glued
<1>2. /\ nak \in Seq(Packs) /\ flush \in Seq(Packs) /\ i \in Seq(Packs)
      /\ Own(nak) = nak /\ Own(i) = i /\ Own(flush) = flush
      /\ Said(nak) = <<>> /\ Said(i) = <<>> /\ Said(flush) = <<>>
      /\ Len(nak) = 2 /\ Len(flush) = 2
  BY <1>1, PieceFacts
<1>3. PICK k, l, m : k = Len(a) /\ l = Len(i) /\ m = Len(b)
  OBVIOUS
<1>4. k \in Nat /\ l \in Nat /\ m \in Nat /\ DOMAIN a = 1..k /\ DOMAIN b = 1..m
  BY <1>3
<1>5. /\ x \in Seq(Packs) /\ Len(x) = 2 + k
      /\ \A n \in 1..2 : x[n] = nak[n]
      /\ \A n \in 1..k : x[2 + n] = a[n]
      /\ Own(x) = nak \o <<>> /\ Said(x) = <<>> \o first
  <2>0. nak \in Seq(Packs) /\ a \in Seq(Packs) /\ Glued(x, nak, a)
    BY <1>0, <1>2
  <2>1. /\ x \in Seq(Packs) /\ Len(x) = Len(nak) + Len(a)
        /\ \A n \in 1..Len(nak) : x[n] = nak[n]
        /\ \A n \in 1..Len(a) : x[Len(nak) + n] = a[n]
        /\ Own(x) = Own(nak) \o Own(a) /\ Said(x) = Said(nak) \o Said(a)
    BY <2>0, Gluing
  <2> QED
    BY <1>2, <1>3, <2>1
<1>6. /\ y \in Seq(Packs) /\ Len(y) = 2 + k + l
      /\ \A n \in 1..(2 + k) : y[n] = x[n]
      /\ Own(y) = Own(x) \o i /\ Said(y) = Said(x) \o <<>>
  <2>0. x \in Seq(Packs) /\ i \in Seq(Packs) /\ Glued(y, x, i)
    BY <1>0, <1>2, <1>5
  <2>1. /\ y \in Seq(Packs) /\ Len(y) = Len(x) + Len(i)
        /\ \A n \in 1..Len(x) : y[n] = x[n]
        /\ \A n \in 1..Len(i) : y[Len(x) + n] = i[n]
        /\ Own(y) = Own(x) \o Own(i) /\ Said(y) = Said(x) \o Said(i)
    BY <2>0, Gluing
  <2> QED
    BY <1>2, <1>3, <1>5, <2>1
<1>7. /\ z \in Seq(Packs) /\ Len(z) = 2 + k + l + m
      /\ \A n \in 1..(2 + k + l) : z[n] = y[n]
      /\ \A n \in 1..m : z[2 + k + l + n] = b[n]
      /\ Own(z) = Own(y) \o <<>> /\ Said(z) = Said(y) \o last
  <2>0. y \in Seq(Packs) /\ b \in Seq(Packs) /\ Glued(z, y, b)
    BY <1>0, <1>2, <1>6
  <2>1. /\ z \in Seq(Packs) /\ Len(z) = Len(y) + Len(b)
        /\ \A n \in 1..Len(y) : z[n] = y[n]
        /\ \A n \in 1..Len(b) : z[Len(y) + n] = b[n]
        /\ Own(z) = Own(y) \o Own(b) /\ Said(z) = Said(y) \o Said(b)
    BY <2>0, Gluing
  <2> QED
    BY <1>2, <1>3, <1>6, <2>1
<1>8. /\ got \in Seq(Packs) /\ Len(got) = 2 + k + l + m + 2
      /\ \A n \in 1..(2 + k + l + m) : got[n] = z[n]
      /\ \A n \in 1..2 : got[2 + k + l + m + n] = flush[n]
      /\ Own(got) = Own(z) \o flush /\ Said(got) = Said(z) \o <<>>
  <2>0. z \in Seq(Packs) /\ flush \in Seq(Packs) /\ Glued(got, z, flush)
    BY <1>0, <1>2, <1>7
  <2>1. /\ got \in Seq(Packs) /\ Len(got) = Len(z) + Len(flush)
        /\ \A n \in 1..Len(z) : got[n] = z[n]
        /\ \A n \in 1..Len(flush) : got[Len(z) + n] = flush[n]
        /\ Own(got) = Own(z) \o Own(flush) /\ Said(got) = Said(z) \o Said(flush)
    BY <2>0, Gluing
  <2> QED
    BY <1>2, <1>3, <1>7, <2>1
<1>9. Own(got) = (nak \o i) \o flush
  <2>1. nak \o <<>> = nak
    BY <1>2, ConcatEmptySeq
  <2>2. nak \o i \in Seq(Packs)
    BY <1>2, ConcatProperties
  <2>3. (nak \o i) \o <<>> = nak \o i
    BY <2>2, ConcatEmptySeq
  <2>4. Own(x) = nak
    BY <1>5, <2>1, Zenon
  <2>5. Own(y) = nak \o i
    BY <1>6, <2>4, Zenon
  <2>6. Own(z) = nak \o i
    BY <1>7, <2>3, <2>5, Zenon
  <2> QED
    BY <1>8, <2>6, Zenon
<1>10. Said(got) = first \o last
  <2>1. <<>> \o first = first /\ first \o <<>> = first
    BY ConcatEmptySeq
  <2>2. first \o last \in Seq(Tokens)
    BY ConcatProperties
  <2>3. (first \o last) \o <<>> = first \o last
    BY <2>2, ConcatEmptySeq
  <2>4. Said(x) = first
    BY <1>5, <2>1, Zenon
  <2>5. Said(y) = first
    BY <1>6, <2>1, <2>4, Zenon
  <2>6. Said(z) = first \o last
    BY <1>7, <2>5, Zenon
  <2> QED
    BY <1>8, <2>3, <2>6, Zenon
<1>11. \A n \in 1..2 : got[n] = nak[n]
  <2> SUFFICES ASSUME NEW n \in 1..2
               PROVE  got[n] = nak[n]
    OBVIOUS
  <2>1. n \in 1..(2 + k) /\ n \in 1..(2 + k + l) /\ n \in 1..(2 + k + l + m)
    BY <1>4
  <2> QED
    BY <1>5, <1>6, <1>7, <1>8, <2>1
<1>12. \A n \in 1..k : got[2 + n] = a[n]
  <2> SUFFICES ASSUME NEW n \in 1..k
               PROVE  got[2 + n] = a[n]
    OBVIOUS
  <2>1. PICK q : q = 2 + n
    OBVIOUS
  <2>2. q \in 1..(2 + k) /\ q \in 1..(2 + k + l) /\ q \in 1..(2 + k + l + m)
    BY <1>4, <2>1
  <2>3. got[q] = x[q]
    BY <1>6, <1>7, <1>8, <2>2
  <2> QED
    BY <1>5, <2>1, <2>3
<1>13. \A n \in 1..m : got[2 + k + l + n] = b[n]
  <2> SUFFICES ASSUME NEW n \in 1..m
               PROVE  got[2 + k + l + n] = b[n]
    OBVIOUS
  <2>1. 2 + k + l + n \in 1..(2 + k + l + m)
    BY <1>4
  <2> QED
    BY <1>7, <1>8, <2>1
<1>14. got[Len(got) - 1] = flush[1] /\ got[Len(got)] = flush[2]
  <2>1. Len(got) - 1 = 2 + k + l + m + 1 /\ Len(got) = 2 + k + l + m + 2 /\ 1 \in 1..2 /\ 2 \in 1..2
    BY <1>4, <1>8
  <2> QED
    BY <1>8, <2>1
<1>15. nak = <<nak[1], nak[2]>> /\ flush = <<flush[1], flush[2]>>
  BY <1>1 DEF Nak, Flush
<1>16. SubSeq(got, 1, 2) = nak /\ SubSeq(got, Len(got) - 1, Len(got)) = flush
  <2>1. got[1] = nak[1] /\ got[2] = nak[2]
    BY <1>11
  <2>2. Len(got) >= 2
    BY <1>4, <1>8
  <2>3. /\ SubSeq(got, 1, 2) = <<got[1], got[2]>>
        /\ SubSeq(got, Len(got) - 1, Len(got)) = <<got[Len(got) - 1], got[Len(got)]>>
    BY <1>8, <2>2, Borders
  <2> QED
    BY <1>14, <1>15, <2>1, <2>3, Zenon
<1>17. first # <<>> => got[3].band = 2
  <2>1. a # <<>> => k >= 1
    BY <1>3, EmptySeq
  <2>2. k >= 1 => got[2 + 1] = a[1] /\ 1 \in DOMAIN a
    BY <1>4, <1>12
  <2> QED
    BY <2>1, <2>2
<1>18. last # <<>> => got[Len(got) - 2].band = 2
  <2>1. b # <<>> => m >= 1
    BY <1>3, EmptySeq
  <2>2. Len(got) - 2 = 2 + k + l + m
    BY <1>4, <1>8
  <2>3. m >= 1 => m \in 1..m /\ m \in DOMAIN b
    BY <1>4
  <2> QED
    BY <1>13, <2>1, <2>2, <2>3
<1> QED
  BY <1>1, <1>9, <1>10, <1>16, <1>17, <1>18, Zenon DEF Complete

LEMMA JoinedGlued ==
    ASSUME NEW P, P = Seq(Packs), NEW u \in Seq(P), NEW v \in Seq(P), NEW w, Glued(w, u, v)
    PROVE  w \in Seq(P) /\ Joined(w) = Joined(u) \o Joined(v)
<1>1. u \o v \in Seq(P)
  BY ConcatProperties
<1>2. Joined(u \o v) = Joined(u) \o Joined(v)
  BY JoinedBoth
<1> QED
  BY <1>1, <1>2 DEF Glued

LEMMA InjectedWhole ==
    ASSUME NEW r \in Seq(Seq(Pieces)), r # <<>>, NEW caps \in SUBSET Caps, caps # {},
           NEW first \in Seq(Tokens), NEW last \in Seq(Tokens)
    PROVE  /\ Injected(r, caps, first, last) \in Seq(Fits(caps))
           /\ Complete(Joined(Injected(r, caps, first, last)), Joined(r), first, last)
<1>1. CASE ~(StartsWithNak(r[1]) /\ EndsWithFlush(r[Len(r)]))
  <2>1. Injected(r, caps, first, last) = r
    BY <1>1 DEF Injected
  <2>2. Joined(r) \in Seq(Pieces)
    BY JoinedSeq
  <2>3. Own(Joined(r)) = Joined(r) /\ Said(Joined(r)) = <<>>
    BY <2>2, PieceFacts
  <2>4. r \in Seq(Fits(caps))
    BY ChunksFit
  <2> QED
    BY <2>1, <2>3, <2>4, Zenon DEF Complete
<1>2. CASE StartsWithNak(r[1]) /\ EndsWithFlush(r[Len(r)])
  <2>1. PICK n, f, m1, i, m2, P, F :
          /\ n = <<Nak>> /\ f = <<Flush>> /\ i = Inner(r)
          /\ m1 = Messages(first, caps) /\ m2 = Messages(last, caps)
          /\ P = Seq(Packs) /\ F = Fits(caps)
    OBVIOUS
  <2>0. P = Seq(Packs)
    BY <2>1
  <2>2. PICK u, v, w, x : Glued(u, n, m1) /\ Glued(v, u, i) /\ Glued(w, v, m2) /\ Glued(x, w, f)
    <3>1. \E u, v, w, x : u = n \o m1 /\ v = u \o i /\ w = v \o m2 /\ x = w \o f
      OBVIOUS
    <3> QED
      BY <3>1 DEF Glued
  <2>3. Injected(r, caps, first, last) = x
    <3>1. Injected(r, caps, first, last) = (((n \o m1) \o i) \o m2) \o f
      BY <1>2, <2>1 DEF Injected
    <3> QED
      BY <2>2, <3>1, Zenon DEF Glued
  <2>4. i \in Seq(Seq(Pieces)) /\ (Nak \o Joined(i)) \o Flush = Joined(r)
    BY <1>2, <2>1, InnerIs
  <2>5. PICK a \in P : /\ Joined(m1) = a /\ m1 \in Seq(P)
                       /\ \A j \in DOMAIN a : a[j].band = 2
                       /\ Own(a) = <<>> /\ Said(a) = first
                       /\ first # <<>> => a # <<>>
    BY <2>1, MessagesAre
  <2>6. PICK b \in P : /\ Joined(m2) = b /\ m2 \in Seq(P)
                       /\ \A j \in DOMAIN b : b[j].band = 2
                       /\ Own(b) = <<>> /\ Said(b) = last
                       /\ last # <<>> => b # <<>>
    BY <2>1, MessagesAre
  <2>7. Nak \in P /\ Flush \in P /\ Nak \in F /\ Flush \in F
    BY <2>1, PieceFacts, ChunksFit
  <2>8. n \in Seq(P) /\ f \in Seq(P) /\ n \in Seq(F) /\ f \in Seq(F)
    BY <2>1, <2>7
  <2>9. Joined(n) = Nak /\ Joined(f) = Flush
    BY <2>1, <2>7, JoinedOne
  <2>10. i \in Seq(P) /\ i \in Seq(F)
    <3>1. PICK Q : Q = Seq(Pieces)
      OBVIOUS
    <3>2. Q \subseteq P
      BY <2>1, <3>1, PieceFacts
    <3>3. i \in Seq(P)
      BY <2>4, <3>1, <3>2, SeqMonotonic
    <3> QED
      BY <2>1, <2>4, <3>3, ChunksFit
  <2>11. m1 \in Seq(F) /\ m2 \in Seq(F)
    BY <2>1, MessagesAre
  <2>12. u \in Seq(P) /\ Joined(u) = Nak \o a
    <3>0. Glued(u, n, m1) /\ n \in Seq(P) /\ m1 \in Seq(P)
      BY <2>2, <2>5, <2>8
    <3>1. u \in Seq(P) /\ Joined(u) = Joined(n) \o Joined(m1)
      BY <2>0, <3>0, JoinedGlued
    <3> QED
      BY <2>5, <2>9, <3>1, Zenon
  <2>13. v \in Seq(P) /\ Joined(v) = (Nak \o a) \o Joined(i)
    <3>0. Glued(v, u, i) /\ u \in Seq(P) /\ i \in Seq(P)
      BY <2>2, <2>10, <2>12
    <3>1. v \in Seq(P) /\ Joined(v) = Joined(u) \o Joined(i)
      BY <2>0, <3>0, JoinedGlued
    <3> QED
      BY <2>12, <3>1, Zenon
  <2>14. w \in Seq(P) /\ Joined(w) = ((Nak \o a) \o Joined(i)) \o b
    <3>0. Glued(w, v, m2) /\ v \in Seq(P) /\ m2 \in Seq(P)
      BY <2>2, <2>6, <2>13
    <3>1. w \in Seq(P) /\ Joined(w) = Joined(v) \o Joined(m2)
      BY <2>0, <3>0, JoinedGlued
    <3> QED
      BY <2>6, <2>13, <3>1, Zenon
  <2>15. Joined(x) = (((Nak \o a) \o Joined(i)) \o b) \o Flush
    <3>0. Glued(x, w, f) /\ w \in Seq(P) /\ f \in Seq(P)
      BY <2>2, <2>8, <2>14
    <3>1. x \in Seq(P) /\ Joined(x) = Joined(w) \o Joined(f)
      BY <2>0, <3>0, JoinedGlued
    <3> QED
      BY <2>9, <2>14, <3>1, Zenon
  <2>16. x \in Seq(F)
    <3>1. \A s \in Seq(F), t \in Seq(F) : \A q : Glued(q, s, t) => q \in Seq(F)
      BY ConcatProperties DEF Glued
    <3> QED
      BY <2>2, <2>8, <2>10, <2>11, <3>1
  <2>17. Joined(i) \in Seq(Pieces)
    BY <2>4, JoinedSeq
  <2>18. Complete((((Nak \o a) \o Joined(i)) \o b) \o Flush, (Nak \o Joined(i)) \o Flush, first, last)
    BY <2>1, <2>5, <2>6, <2>17, MessagesAround
  <2> QED
    BY <2>1, <2>3, <2>4, <2>15, <2>16, <2>18, Zenon
<1> QED
  BY <1>1, <1>2

---------------------------------------------------------------------------
(* What is in the response: nothing until both hooks have been run; then a *)
(* beginning of what git has written; and in the end all of it, with the   *)
(* messages or without.                                                    *)
Outcomes == Results \cup {NotCalled, Off, Failed}
WInv ==
    /\ capabilities \in SUBSET Caps
    /\ hooked \in BOOLEAN /\ asked \in BOOLEAN /\ told \in BOOLEAN
    /\ left \in Seq(Pieces) /\ chunks \in Seq(Seq(Pieces))
    /\ pre \in Outcomes /\ post \in Outcomes
    /\ response \in Seq(Fits(capabilities))
    /\ pc \in {"prePull", "start", "postPull"} => response = <<>>
    /\ pc = "respond" =>
          /\ Injects => response = <<>>
          /\ Len(response) <= Len(chunks)
          /\ \A i \in 1..Len(response) : response[i] = chunks[i]
    /\ pc = "answered" /\ child # "none" =>
          /\ child = "ended"
          /\ \/ response = chunks
             \/ /\ Injects /\ chunks # <<>>
                /\ response = Injected(chunks, capabilities, pre.output, post.output)

LEMMA OutcomesSay == \A x \in Outcomes : x.output \in Seq(Tokens)
<1>1. NotCalled.output \in Seq(Tokens) /\ Off.output \in Seq(Tokens) /\ Failed.output \in Seq(Tokens)
  BY PullAssumption DEF NotCalled, Off, Failed
<1>2. \A x \in Results : x.output \in Seq(Tokens)
  BY PullAssumption DEF Results
<1> QED
  BY <1>1, <1>2 DEF Outcomes

LEMMA WholeStart == Init => WInv
<1> SUFFICES ASSUME Init PROVE WInv
  OBVIOUS
<1>1. PICK P, F, e : P = Seq(Pieces) /\ F = Fits(capabilities) /\ e = <<>>
  OBVIOUS
<1>2. e \in Seq(P) /\ e \in Seq(F)
  BY <1>1
<1>3. response = e /\ chunks = e
  BY <1>1 DEF Init
<1>4. chunks \in Seq(Seq(Pieces)) /\ response \in Seq(Fits(capabilities))
  BY <1>1, <1>2, <1>3
<1>5. /\ capabilities \in SUBSET Caps /\ hooked \in BOOLEAN /\ asked \in BOOLEAN /\ told \in BOOLEAN
      /\ left \in Seq(Pieces) /\ pre \in Outcomes /\ post \in Outcomes
  BY PullAssumption DEF Init, Outcomes
<1> QED
  BY <1>4, <1>5 DEF Init, WInv

LEMMA WholeStep ==
    ASSUME WInv, IInv, [Next]_vars
    PROVE  WInv'
<1>1. /\ capabilities \in SUBSET Caps
      /\ hooked \in BOOLEAN /\ asked \in BOOLEAN /\ told \in BOOLEAN
      /\ left \in Seq(Pieces) /\ chunks \in Seq(Seq(Pieces))
      /\ pre \in Outcomes /\ post \in Outcomes
      /\ response \in Seq(Fits(capabilities))
  BY DEF WInv
<1>2. Off \in Outcomes /\ Failed \in Outcomes /\ Results \subseteq Outcomes
  BY DEF Outcomes
<1>3. CASE git_pre_pull \/ PrePullRaises
  <2>1. pre' \in Outcomes /\ asked' \in BOOLEAN
    BY <1>1, <1>2, <1>3 DEF git_pre_pull, PrePullRaises
  <2> QED
    BY <1>3, <2>1 DEF WInv, git_pre_pull, PrePullRaises, request
<1>4. CASE Refuses
  <2>1. child = "none"
    BY <1>4 DEF IInv, Refuses
  <2>2. response' \in Seq(Fits(capabilities))
    BY <1>1, <1>4, OutcomesSay, RefusalFits DEF Refuses
  <2> QED
    BY <1>4, <2>1, <2>2 DEF WInv, Refuses, request
<1>5. CASE Starts
  BY <1>5 DEF WInv, Starts, request
<1>6. CASE ChildWrites
  <2>1. PICK n \in 1..Len(left) : /\ chunks' = Append(chunks, SubSeq(left, 1, n))
                                  /\ left' = SubSeq(left, n + 1, Len(left))
    BY <1>6 DEF ChildWrites
  <2>2. SubSeq(left, 1, n) \in Seq(Pieces) /\ left' \in Seq(Pieces)
    <3>1. Len(left) \in Nat /\ \A i \in 1..Len(left) : left[i] \in Pieces
      BY <1>1
    <3> QED
      BY <1>1, <2>1, <3>1
  <2>3. PICK c, P : c = SubSeq(left, 1, n) /\ P = Seq(Pieces)
    OBVIOUS
  <2>4. /\ chunks' \in Seq(P) /\ Len(chunks') = Len(chunks) + 1 /\ Len(chunks) \in Nat
        /\ \A i \in 1..Len(chunks) : chunks'[i] = chunks[i]
    BY <1>1, <2>1, <2>2, <2>3
  <2>5. /\ UNCHANGED <<pc, request, child, pre, post, asked, told, response>>
        /\ child = "running"
    BY <1>6 DEF ChildWrites
  <2>6. pc = "respond" => /\ Len(response) <= Len(chunks')
                          /\ \A i \in 1..Len(response) : response[i] = chunks'[i]
    <3>1. Len(response) \in Nat
      BY <1>1
    <3> QED
      BY <2>4, <3>1 DEF WInv
  <2>7. Injects' = Injects
    BY <2>5 DEF Injects, request
  <2> QED
    BY <1>1, <2>2, <2>3, <2>4, <2>5, <2>6, <2>7 DEF WInv, request
<1>7. CASE ChildEnds
  BY <1>7 DEF WInv, ChildEnds, request, Injects
<1>8. CASE git_post_pull \/ PostPullRaises
  <2>1. post' \in Outcomes /\ told' \in BOOLEAN
    BY <1>1, <1>2, <1>8 DEF git_post_pull, PostPullRaises
  <2>2. pc = "postPull" /\ pc' = "respond" /\ response' = <<>> /\ Len(response') = 0
    BY <1>8 DEF WInv, git_post_pull, PostPullRaises
  <2>3. Len(chunks) \in Nat
    BY <1>1
  <2> QED
    BY <1>1, <1>8, <2>1, <2>2, <2>3 DEF WInv, git_post_pull, PostPullRaises, request
<1>9. CASE Lists
  <2>1. response' = Injected(chunks, capabilities, pre.output, post.output)
    BY <1>9 DEF Lists
  <2>2. /\ chunks # <<>> /\ capabilities # {} /\ Injects
        /\ pc' = "answered" /\ child = "ended"
    BY <1>9 DEF Lists, Injects
  <2>3. pre.output \in Seq(Tokens) /\ post.output \in Seq(Tokens)
    BY <1>1, OutcomesSay
  <2>4. response' \in Seq(Fits(capabilities))
    BY <1>1, <2>1, <2>2, <2>3, InjectedWhole
  <2>5. UNCHANGED <<request, left, chunks, child, pre, post, asked, told>>
    BY <1>9 DEF Lists
  <2>6. Injects'
    BY <2>2, <2>5 DEF Injects, request
  <2> QED
    BY <1>1, <2>1, <2>2, <2>4, <2>5, <2>6 DEF WInv, request
<1>10. CASE IndexError
  BY <1>10 DEF WInv, IndexError, request
<1>11. CASE Streams
  <2>1. /\ pc = "respond" /\ ~Injects /\ Len(response) < Len(chunks)
        /\ response' = Append(response, chunks[Len(response) + 1])
        /\ UNCHANGED <<pc, request, left, chunks, child, pre, post, asked, told>>
    BY <1>11 DEF Streams
  <2>2. Len(response) \in Nat /\ Len(chunks) \in Nat
    BY <1>1
  <2>3. PICK c, F, n : c = chunks[Len(response) + 1] /\ F = Fits(capabilities) /\ n = Len(response)
    OBVIOUS
  <2>4. c \in F
    <3>1. Len(response) + 1 \in 1..Len(chunks)
      BY <2>1, <2>2
    <3>2. c \in Seq(Pieces)
      BY <1>1, <2>3, <3>1
    <3> QED
      BY <2>3, <3>2, ChunksFit
  <2>5. /\ response' \in Seq(F) /\ Len(response') = n + 1
        /\ \A i \in 1..n : response'[i] = response[i]
        /\ response'[n + 1] = c
    BY <1>1, <2>1, <2>3, <2>4
  <2>6. \A i \in 1..n : response[i] = chunks[i]
    BY <2>1, <2>3 DEF WInv
  <2>7. \A i \in 1..(n + 1) : response'[i] = chunks[i]
    BY <2>2, <2>3, <2>5, <2>6
  <2>8. ~Injects'
    BY <2>1 DEF Injects, request
  <2> QED
    BY <1>1, <2>1, <2>2, <2>3, <2>5, <2>7, <2>8 DEF WInv, request
<1>12. CASE StreamEnds
  <2>1. /\ pc = "respond" /\ child = "ended" /\ Len(response) = Len(chunks)
        /\ pc' = "answered"
        /\ UNCHANGED <<request, left, chunks, child, pre, post, asked, told, response>>
    BY <1>12 DEF StreamEnds
  <2>2. response = chunks
    <3>1. \A i \in 1..Len(response) : response[i] = chunks[i]
      BY <2>1 DEF WInv
    <3>2. PICK F : F = Fits(capabilities)
      OBVIOUS
    <3>3. response \in Seq(F) /\ chunks \in Seq(F)
      BY <1>1, <3>2, ChunksFit
    <3> QED
      BY <2>1, <3>1, <3>3, SeqEqual
  <2> QED
    BY <1>1, <2>1, <2>2 DEF WInv, request
<1>13. CASE UNCHANGED vars
  <2>1. Injects' = Injects
    BY <1>13 DEF vars, Injects
  <2> QED
    BY <1>13, <2>1 DEF vars, WInv
<1> QED
  BY <1>3, <1>4, <1>5, <1>6, <1>7, <1>8, <1>9, <1>10, <1>11, <1>12, <1>13 DEF Next, Over

(* The variables of a pull have their types for any output of git and any  *)
(* messages, and no packet holds more than its side band may carry         *)
(* (pygrack.py's _write_sideband_to_proto and the responses built of it).  *)
THEOREM TypeCorrect == Spec => []TypeOK
<1>1. IInv /\ WInv => TypeOK
  <2> SUFFICES ASSUME IInv, WInv PROVE TypeOK
    OBVIOUS
  <2>1. response \in Seq(Fits(capabilities))
    BY DEF WInv
  <2>2. PICK F, P : F = Fits(capabilities) /\ P = Seq([band : 0..2, data : Seq(Tokens)])
    OBVIOUS
  <2>3. F \subseteq P
    BY <2>2 DEF Fits, Packs
  <2>4. response \in Seq(P)
    BY <2>1, <2>2, <2>3, SeqMonotonic
  <2>5. \A i \in DOMAIN response : response[i] \in F
    BY <2>1, <2>2
  <2>6. \A i \in DOMAIN response : \A j \in DOMAIN response[i] :
          response[i][j].band = 2 =>
              Len(response[i][j].data) \in
                  1..(IF "side-band-64k" \in capabilities THEN LargeBand ELSE SmallBand)
    BY <2>2, <2>5 DEF Fits
  <2> QED
    BY <2>2, <2>4, <2>6 DEF TypeOK, WInv, IInv, Outcomes
<1>2. WInv /\ IInv /\ [Next]_vars => WInv' /\ IInv'
  BY WholeStep, Step
<1> QED
  BY <1>1, <1>2, WholeStart, Start, PTL DEF Spec

(* However the pipe has cut the output of git, a client that is not        *)
(* refused gets all of it, in order; and of the messages either nothing,   *)
(* or all that the hooks have printed, whole, between the first line and   *)
(* the end (_inject_messages_to_response and what it calls).               *)
THEOREM Whole == Spec => []ResponseWhole
<1>1. WInv => ResponseWhole
  <2> SUFFICES ASSUME WInv, pc = "answered", child # "none" PROVE ResponseWhole
    BY DEF ResponseWhole
  <2>1. /\ chunks \in Seq(Seq(Pieces)) /\ capabilities \in SUBSET Caps
        /\ pre.output \in Seq(Tokens) /\ post.output \in Seq(Tokens)
    BY OutcomesSay DEF WInv
  <2>2. Complete(Joined(response), Joined(chunks), pre.output, post.output)
    <3>1. CASE response = chunks
      <4>1. Joined(chunks) \in Seq(Pieces)
        BY <2>1, JoinedSeq
      <4>2. Own(Joined(chunks)) = Joined(chunks) /\ Said(Joined(chunks)) = <<>>
        BY <4>1, PieceFacts
      <4> QED
        BY <3>1, <4>2, Zenon DEF Complete
    <3>2. CASE /\ Injects /\ chunks # <<>>
               /\ response = Injected(chunks, capabilities, pre.output, post.output)
      <4>1. capabilities # {}
        BY <3>2 DEF Injects
      <4> QED
        BY <2>1, <3>2, <4>1, InjectedWhole
    <3> QED
      BY <3>1, <3>2 DEF WInv
  <2> QED
    BY <2>2, Zenon DEF Complete, ResponseWhole
<1>2. WInv /\ IInv /\ [Next]_vars => WInv' /\ IInv'
  BY WholeStep, Step
<1> QED
  BY <1>1, <1>2, WholeStart, Start, PTL DEF Spec
================================================================================
