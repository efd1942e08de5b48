---------------------------- MODULE HgBackendProofs ----------------------------
(* Proofs about HgBackend for any number of threads, commits and branches. *)
EXTENDS HgBackend, FiniteSetTheorems, WellFoundedInduction, TLAPS

Distinct(s) == \A i, j \in DOMAIN s : s[i] = s[j] => i = j

\* A commit's history holds the commit; the changelog holds nothing twice.
GraphOK == \A c \in Made : c \in graph[c].history /\ graph[c].history \subseteq Made
RepoOK == RepoTypeOK /\ GraphOK /\ Distinct(log)

\* What the fields of a job may hold.
AskSet == Asks \cup {NoAsk}
RevSet == Commits \cup {None}
NameSet == Branches \cup {None}
MarkSet == Bookmarks \cup {None}
SentSet == SUBSET Commits
NewSet == Seq(Commits)
WaySet == {"http", "ssh"}
Jobs(reports) ==
    [pc : PCs, ask : AskSet, rev : RevSet, branch : NameSet, edit : Edits, sent : SentSet,
     new : NewSet, way : WaySet, write : BOOLEAN, mark : MarkSet, report : reports, start : Nat]
IsJob(j) == j \in Jobs({j.report})
JobsTyped ==
    DOMAIN job = Threads /\ job = [t \in Threads |-> job[t]] /\ \A t \in Threads : IsJob(job[t])

(* The lock keeps the changelog as the thread that pushes has read it, and *)
(* what it has reported is right until its commits land.                   *)
Locking == {"prechangegroup", "pretxnchangegroup"}
Sent(t) == HistoryOf(job[t].sent)
Told(t) == Report(Pending(t), job[t].new[1], {})
PushOK(t) ==
    LET j == job[t] IN
    /\ j.sent \subseteq Made /\ j.new \in Seq(Made)
    /\ j.pc = "commit" => j.branch \in Branches
    /\ j.pc \in Locking \cup {"changegroup"} => j.new # <<>>
    /\ j.pc \in Locking =>
          /\ lock = t
          /\ Elements(j.new) = Sent(t) \ Here
          /\ Distinct(j.new)
          /\ PermittedOver(j.way, j.write)
    /\ j.pc = "pretxnchangegroup" =>
          j.report.total = Told(t).total /\ j.report.last = Told(t).last
PushesOK == \A t \in Threads : PushOK(t)

(* A context that is in use stands in expected; what is computed in it     *)
(* afterwards has the commits that were announced before.                  *)
Reading == {"lookup", "compute", "store"}
Has(e, ask, val) ==
    ask.name = "get_all_commit_ids" /\ ask.ctx \in DOMAIN e => e[ask.ctx] \subseteq val
ReadOK(t) ==
    LET j == job[t]
        got == answer[t]
    IN  /\ j.pc \in Reading => j.ask \in Asks /\ j.ask.ctx \in DOMAIN expected \cup {NoContext}
        /\ j.pc \in {"compute", "store"} => CacheOn(j.ask)
        /\ j.pc \notin Reading => j.ask = NoAsk
        /\ j.pc = "store" => Has(expected, j.ask, got.val)
        /\ got.ask.ctx \in DOMAIN expected \cup {NoContext}
        /\ got.kind = "ok" => Has(expected, got.ask, got.val)
ReadsOK == \A t \in Threads : ReadOK(t)
CacheOK ==
    \A k \in DOMAIN cache :
        k \in Keys /\ k.ctx \in DOMAIN expected \cup {NoContext} /\ Has(expected, k, cache[k])
ExpectedOK ==
    /\ announced \subseteq Here
    /\ DOMAIN expected \subseteq Contexts
    /\ \A x \in DOMAIN expected : expected[x] \subseteq Here

CountersTyped == calls \in 0..MaxCalls /\ reads \in 0..MaxReads /\ faults \in 0..MaxFaults
Typed == JobsTyped /\ DOMAIN answer = Threads /\ lock \in Threads \cup {NoThread} /\ CountersTyped

IInv == RepoOK /\ Typed /\ PushesOK /\ ReadsOK /\ CacheOK /\ ExpectedOK

---------------------------------------------------------------------------
(* A sequence that goes on with another one.                               *)
LEMMA Concatenated ==
    ASSUME NEW S, NEW s \in Seq(S), NEW o \in Seq(S)
    PROVE  /\ s \o o \in Seq(S) /\ Len(s \o o) = Len(s) + Len(o)
           /\ DOMAIN (s \o o) = 1..(Len(s) + Len(o))
           /\ \A i \in DOMAIN s : (s \o o)[i] = s[i]
           /\ \A i \in DOMAIN o : (s \o o)[Len(s) + i] = o[i]
           /\ \A i \in DOMAIN (s \o o) :
                 \/ i \in DOMAIN s /\ (s \o o)[i] = s[i]
                 \/ i - Len(s) \in DOMAIN o /\ (s \o o)[i] = o[i - Len(s)]
           /\ Elements(s \o o) = Elements(s) \cup Elements(o)
<1>1. /\ s \o o \in Seq(S) /\ Len(s \o o) = Len(s) + Len(o)
      /\ \A i \in 1..(Len(s) + Len(o)) :
            (s \o o)[i] = IF i <= Len(s) THEN s[i] ELSE o[i - Len(s)]
  OBVIOUS
<1>2. /\ DOMAIN s = 1..Len(s) /\ DOMAIN o = 1..Len(o) /\ DOMAIN (s \o o) = 1..(Len(s) + Len(o))
      /\ Len(s) \in Nat /\ Len(o) \in Nat
  BY <1>1
<1>3. /\ \A i \in DOMAIN s : (s \o o)[i] = s[i]
      /\ \A i \in DOMAIN o : (s \o o)[Len(s) + i] = o[i] /\ Len(s) + i \in DOMAIN (s \o o)
      /\ \A i \in DOMAIN s : i \in DOMAIN (s \o o)
      /\ \A i \in DOMAIN (s \o o) :
            \/ i \in DOMAIN s /\ (s \o o)[i] = s[i]
            \/ i - Len(s) \in DOMAIN o /\ (s \o o)[i] = o[i - Len(s)]
  BY <1>1, <1>2
<1>4. Elements(s \o o) = Elements(s) \cup Elements(o)
  <2>1. ASSUME NEW x \in Elements(s \o o)
        PROVE  x \in Elements(s) \cup Elements(o)
    BY <1>3, <2>1 DEF Elements
  <2>2. ASSUME NEW x \in Elements(s)
        PROVE  x \in Elements(s \o o)
    <3>1. PICK i \in DOMAIN s : x = s[i]
      BY <2>2 DEF Elements
    <3> QED
      BY <1>3, <3>1 DEF Elements
  <2>3. ASSUME NEW x \in Elements(o)
        PROVE  x \in Elements(s \o o)
    <3>1. PICK i \in DOMAIN o : x = o[i]
      BY <2>3 DEF Elements
    <3> QED
      BY <1>3, <3>1 DEF Elements
  <2> QED
    BY <2>1, <2>2, <2>3
<1> QED
  BY <1>1, <1>2, <1>3, <1>4

LEMMA DistinctConcatenated ==
    ASSUME NEW S, NEW s \in Seq(S), NEW o \in Seq(S), Distinct(s), Distinct(o),
           Elements(s) \cap Elements(o) = {}
    PROVE  Distinct(s \o o)
<1> SUFFICES ASSUME NEW i \in DOMAIN (s \o o), NEW j \in DOMAIN (s \o o), (s \o o)[i] = (s \o o)[j]
             PROVE  i = j
  BY DEF Distinct
<1>1. /\ \/ i \in DOMAIN s /\ (s \o o)[i] = s[i]
         \/ i - Len(s) \in DOMAIN o /\ (s \o o)[i] = o[i - Len(s)]
      /\ \/ j \in DOMAIN s /\ (s \o o)[j] = s[j]
         \/ j - Len(s) \in DOMAIN o /\ (s \o o)[j] = o[j - Len(s)]
      /\ i \in Int /\ j \in Int /\ Len(s) \in Int
  BY Concatenated
<1>2. \A x \in DOMAIN s, y \in DOMAIN o : s[x] # o[y]
  BY DEF Elements
<1> QED
  BY <1>1, <1>2 DEF Distinct

(* An order of a set of commits that exist.                                *)
LEMMA Ordered ==
    ASSUME RepoTypeOK, GraphOK, NEW cs \in SUBSET Made, NEW o \in Orders(cs)
    PROVE  o \in Seq(Made) /\ Elements(o) = cs /\ Distinct(o) /\ (cs # {} => o # <<>>)
<1>1. o \in [1..Cardinality(cs) -> cs] /\ Elements(o) = cs
  BY DEF Orders
<1>2. Cardinality(cs) \in Nat
  <2>1. Made = 1..Len(graph) /\ Len(graph) \in Nat
    BY DEF RepoTypeOK, Made
  <2>2. IsFiniteSet(Made)
    BY <2>1, FS_Interval
  <2> QED
    BY <2>2, FS_Subset, FS_CardinalityType
<1>3. o \in Seq(Made)
  BY <1>1, <1>2
<1>4. Distinct(o)
  <2> SUFFICES ASSUME NEW i \in DOMAIN o, NEW j \in DOMAIN o, o[i] = o[j]
               PROVE  i = j
    BY DEF Distinct
  <2>1. o[i] \in History(o[j]) /\ o[j] \in History(o[i])
    BY <1>1 DEF History, GraphOK
  <2>2. i <= j /\ j <= i
    BY <2>1 DEF Orders
  <2> QED
    BY <1>1, <1>2, <2>2
<1>5. ASSUME cs # {}
      PROVE  o # <<>>
  <2>1. PICK i \in DOMAIN o : o[i] \in cs
    BY <1>1, <1>5 DEF Elements
  <2>2. DOMAIN <<>> = {}
    OBVIOUS
  <2> QED
    BY <2>1, <2>2
<1> QED
  BY <1>1, <1>3, <1>4, <1>5

(* Histories are of commits that exist.                                    *)
LEMMA Histories ==
    ASSUME GraphOK, NEW cs \in SUBSET Made
    PROVE  HistoryOf(cs) \subseteq Made /\ cs \subseteq HistoryOf(cs)
BY DEF GraphOK, HistoryOf, History

(* A maximum.                                                              *)
LEMMA Greatest ==
    ASSUME NEW n \in Nat, NEW S \in SUBSET (1..n), S # {}
    PROVE  \E r \in S : \A x \in S : x <= r
<1> DEFINE From(r) == {x \in S : r <= x}
           T == {From(r) : r \in S}
<1>1. IsFiniteSet(S)
  <2>1. IsFiniteSet(1..n)
    BY FS_Interval
  <2> QED
    BY <2>1, FS_Subset
<1>2. \A r \in S : From(r) \in FiniteSubsetsOf(S)
  BY <1>1, FS_Subset DEF FiniteSubsetsOf
<1>3. T \subseteq FiniteSubsetsOf(S) /\ T # {}
  BY <1>2
<1>4. PICK x \in T : \A y \in T : <<y, x>> \notin StrictSubsetOrdering(S)
  <2> HIDE DEF T
  <2> QED
    BY <1>3, FS_StrictSubsetOrderingWellFounded, WFMin
<1>5. PICK r \in S : x = From(r)
  BY <1>4
<1>6. ASSUME NEW s \in S, ~(s <= r)
      PROVE  FALSE
  <2>1. r \in Int /\ s \in Int /\ \A m \in S : m \in Int
    OBVIOUS
  <2>2. From(s) \subseteq From(r) /\ r \in From(r) /\ r \notin From(s)
    <3>1. r < s
      BY <1>6, <2>1
    <3>2. \A y \in S : s <= y => r <= y
      BY <2>1, <3>1
    <3>3. \A y \in From(s) : y \in From(r)
      BY <3>2
    <3>4. r <= r /\ ~(s <= r)
      BY <1>6, <2>1
    <3> QED
      BY <3>3, <3>4
  <2>3. From(s) \in SUBSET S /\ From(r) \in SUBSET S /\ From(s) # From(r)
    BY <2>2
  <2> HIDE DEF From
  <2>4. <<From(s), From(r)>> \in StrictSubsetOrdering(S)
    BY <2>2, <2>3 DEF StrictSubsetOrdering
  <2>5. From(s) \in T
    OBVIOUS
  <2> QED
    BY <1>4, <1>5, <2>4, <2>5
<1> QED
  BY <1>6

---------------------------------------------------------------------------
LEMMA EditedTree ==
    ASSUME NEW tree \in Trees, NEW edit \in Edits, NEW c \in Commits
    PROVE  Edited(tree, edit, c) \in Trees
<1>1. PICK fs \in SUBSET Files : tree \in [fs -> Commits]
  BY DEF Trees
<1> DEFINE fresh == Written(edit)
           dom == (DOMAIN tree \ (edit.files \cap edit.removed)) \cup fresh
<1>2. fresh \subseteq Files /\ dom \in SUBSET Files
  BY <1>1 DEF Edits, Written
<1>3. Edited(tree, edit, c) = [f \in dom |-> IF f \in fresh THEN c ELSE tree[f]]
  BY DEF Edited
<1>4. \A f \in dom : (IF f \in fresh THEN c ELSE tree[f]) \in Commits
  BY <1>1
<1> HIDE DEF dom, fresh
<1>5. Edited(tree, edit, c) \in [dom -> Commits]
  BY <1>3, <1>4
<1> QED
  BY <1>2, <1>5 DEF Trees

LEMMA NoFiles == <<>> \in Trees
<1>1. <<>> \in [{} -> Commits]
  OBVIOUS
<1> QED
  BY <1>1 DEF Trees

(* What the changelog and the graph are made of.                           *)
LEMMA Basics ==
    ASSUME RepoTypeOK
    PROVE  /\ Made = 1..Len(graph) /\ Len(graph) \in Nat /\ Made \subseteq Commits
           /\ 1 \in Made /\ 0 \notin Made
           /\ Here \subseteq Made
           /\ log \in Seq(Commits)
           /\ \A c \in Made : graph[c] \in CommitRecords
<1>1. graph \in Seq(CommitRecords) /\ Len(graph) \in 1..MaxCommits /\ MaxCommits \in Nat
  BY RepoAssumption DEF RepoTypeOK
<1>2. Made = 1..Len(graph) /\ Len(graph) \in Nat /\ 1 <= Len(graph) /\ Len(graph) <= MaxCommits
  BY <1>1 DEF Made
<1>3. Made \subseteq Commits /\ 1 \in Made /\ 0 \notin Made
  BY <1>1, <1>2 DEF Commits
<1>4. log \in Seq(Made)
  BY DEF RepoTypeOK
<1>5. Here \subseteq Made /\ log \in Seq(Commits)
  BY <1>3, <1>4 DEF Here, Elements
<1> QED
  BY <1>1, <1>2, <1>3, <1>5

LEMMA InitRepo == RepoInit => RepoOK
<1> SUFFICES ASSUME RepoInit PROVE RepoOK
  OBVIOUS
<1>1. /\ graph \in Seq(CommitRecords) /\ Len(graph) \in 1..MaxCommits /\ MaxCommits \in Nat
      /\ \A c \in DOMAIN graph : c \in graph[c].history /\ graph[c].history \subseteq 1..c
  BY RepoAssumption DEF RepoInit
<1>2. DOMAIN graph = 1..Len(graph) /\ Len(graph) \in Nat /\ 1 \in DOMAIN graph
  BY <1>1
<1>3. \A c \in DOMAIN graph : graph[c].history \subseteq DOMAIN graph
  BY <1>1, <1>2
<1>4. log = <<1>> /\ <<1>> \in Seq(Made)
  BY <1>2 DEF RepoInit, Made
<1>5. RepoTypeOK
  BY <1>1, <1>4 DEF RepoInit, RepoTypeOK
<1>6. Distinct(log)
  BY <1>4 DEF Distinct
<1> QED
  BY <1>1, <1>3, <1>5, <1>6 DEF RepoOK, GraphOK, Made

(* The steps that write, one by one.                                       *)
LEMMA CommitWrites ==
    ASSUME RepoOK, JobsTyped, PushesOK, NEW t \in Threads, CommitLands(t)
    PROVE  /\ RepoOK'
           /\ Made \subseteq Made' /\ \A c \in Made : graph'[c] = graph[c]
           /\ Here' = Here \cup {Len(graph) + 1} /\ Len(graph) + 1 \in Made'
<1> DEFINE c == Len(graph) + 1
           new == NewCommit(c, job[t].rev, job[t].branch, job[t].edit)
<1>1. /\ RepoTypeOK /\ GraphOK /\ Distinct(log)
      /\ Made = 1..Len(graph) /\ Len(graph) \in Nat /\ Here \subseteq Made
      /\ Made \subseteq Commits /\ 1 \in Made
      /\ graph \in Seq(CommitRecords) /\ log \in Seq(Made)
      /\ \A d \in Made : graph[d] \in CommitRecords
  BY Basics DEF RepoOK, RepoTypeOK
<1>2. /\ c \in Commits /\ c <= MaxCommits /\ MaxCommits \in Nat
      /\ job[t].rev \in Here \cup {None}
      /\ job[t].branch \in Branches /\ job[t].edit \in Edits
  <2>1. job[t] \in Jobs({job[t].report})
    BY DEF JobsTyped, IsJob
  <2>2. PushOK(t) /\ job[t].pc = "commit" /\ c <= MaxCommits
    BY DEF PushesOK, CommitLands, At
  <2>3. job[t].edit \in Edits /\ job[t].branch \in Branches
    BY <2>1, <2>2 DEF Jobs, PushOK
  <2> QED
    BY <1>1, <2>2, <2>3, RepoAssumption DEF CommitLands, Committable, Commits
<1> DEFINE below == HistoryOf({job[t].rev} \ {None})
<1>3. below \subseteq Made
  BY <1>1, <1>2, Histories
<1>4. TreeOf(job[t].rev) \in Trees
  BY <1>1, <1>2, NoFiles DEF TreeOf, CommitRecords
<1>5. new \in CommitRecords
  <2>1. Edited(TreeOf(job[t].rev), job[t].edit, c) \in Trees
    BY <1>2, <1>4, EditedTree
  <2>2. {job[t].rev} \ {None} \in SUBSET Commits /\ {c} \cup below \in SUBSET Commits
    BY <1>1, <1>2, <1>3
  <2> HIDE DEF below
  <2>3. new = [parents |-> {job[t].rev} \ {None}, branch |-> job[t].branch,
               history |-> {c} \cup below,
               tree |-> Edited(TreeOf(job[t].rev), job[t].edit, c), edit |-> job[t].edit]
    BY DEF NewCommit, below
  <2> QED
    BY <1>2, <2>1, <2>2, <2>3 DEF CommitRecords
<1>6. new.history = {c} \cup below
  BY DEF NewCommit
<1> HIDE DEF new, below
<1>7. graph' = Append(graph, new) /\ log' = Append(log, c)
  BY DEF CommitLands, new
<1>8. /\ graph' \in Seq(CommitRecords) /\ Len(graph') = c /\ graph'[c] = new
      /\ \A d \in 1..Len(graph) : graph'[d] = graph[d]
  BY <1>1, <1>5, <1>7
<1>9. /\ Made' = Made \cup {c} /\ c \notin Made
      /\ \A d \in Made : graph'[d] = graph[d]
  <2>1. DOMAIN graph' = 1..c
    BY <1>8
  <2> QED
    BY <1>1, <1>8, <2>1 DEF Made
<1>10. log' \in Seq(Made')
  <2>1. log \in Seq(Made') /\ c \in Made'
    BY <1>1, <1>9
  <2> QED
    BY <1>7, <2>1
<1>11. /\ Len(log') = Len(log) + 1 /\ log'[Len(log) + 1] = c
       /\ DOMAIN log = 1..Len(log) /\ DOMAIN log' = 1..(Len(log) + 1) /\ Len(log) \in Nat
       /\ \A i \in DOMAIN log : log'[i] = log[i] /\ log[i] \in Made
  <2>1. c \in Made' /\ log \in Seq(Made')
    BY <1>1, <1>9
  <2> QED
    BY <1>1, <1>7, <2>1
<1>12. Here' = Here \cup {c}
  <2>1. \A i \in DOMAIN log' : log'[i] \in Here \cup {c}
    BY <1>11 DEF Here, Elements
  <2>2. \A i \in DOMAIN log : log[i] \in Here'
    BY <1>11 DEF Here, Elements
  <2>3. c \in Here'
    BY <1>11 DEF Here, Elements
  <2> QED
    BY <2>1, <2>2, <2>3 DEF Here, Elements
<1>13. Distinct(log')
  <2>1. \A i \in DOMAIN log' : i \in DOMAIN log \/ i = Len(log) + 1
    BY <1>11
  <2> QED
    BY <1>1, <1>9, <1>11, <2>1 DEF Distinct
<1>14. GraphOK'
  <2>1. \A d \in Made' : d \in graph'[d].history /\ graph'[d].history \subseteq Made'
    BY <1>1, <1>3, <1>6, <1>8, <1>9 DEF GraphOK
  <2> QED
    BY <2>1 DEF GraphOK
<1>15. RepoTypeOK'
  <2>1. public' \subseteq Made'
    BY <1>1, <1>9 DEF CommitLands, RepoTypeOK
  <2>2. obsolete' = obsolete /\ bookmarks' = bookmarks
    BY DEF CommitLands
  <2>3. obsolete' \subseteq Made'
    BY <1>1, <1>9, <2>2 DEF RepoTypeOK
  <2>4. bookmarks' \in [Bookmarks -> Made' \cup {None}]
    BY <1>1, <1>9, <2>2 DEF RepoTypeOK
  <2>5. Len(graph') \in 1..MaxCommits
    BY <1>1, <1>2, <1>8
  <2> QED
    BY <1>8, <1>10, <2>1, <2>3, <2>4, <2>5 DEF RepoTypeOK
<1> QED
  BY <1>9, <1>12, <1>13, <1>14, <1>15 DEF RepoOK

(* The changelog goes on with commits it has not got.                      *)
LEMMA GoesOnWith ==
    ASSUME RepoOK, NEW o \in Seq(Made), Distinct(o), Elements(o) \cap Here = {},
           log' = log \o o, graph' = graph
    PROVE  /\ log' \in Seq(Made') /\ Distinct(log') /\ GraphOK'
           /\ Here' = Here \cup Elements(o)
<1>1. log \in Seq(Made) /\ Made' = Made /\ Distinct(log) /\ Elements(log) = Here
  BY DEF RepoOK, RepoTypeOK, Made, Here
<1>2. log \o o \in Seq(Made) /\ Elements(log \o o) = Here \cup Elements(o)
  BY <1>1, Concatenated
<1>3. Distinct(log \o o)
  BY <1>1, DistinctConcatenated
<1>4. Here' = Elements(log \o o)
  BY DEF Here, Elements
<1>5. GraphOK'
  BY DEF RepoOK, GraphOK, Made
<1> QED
  BY <1>1, <1>2, <1>3, <1>4, <1>5

LEMMA PullWrites ==
    ASSUME RepoOK, NEW t \in Threads, Pull(t)
    PROVE  RepoOK' /\ Here \subseteq Here' /\ graph' = graph
<1>1. PICK p \in Pulls :
        /\ p.heads \subseteq Made /\ Brings(p.heads)
        /\ obsolete' = obsolete \cup (p.marked \cap Made)
        /\ public' = IF p.marked = {} THEN public \cup HistoryOf(p.heads) ELSE public
  BY DEF Pull
<1>2. graph' = graph /\ bookmarks' = bookmarks /\ Made' = Made
  BY DEF Pull, Made
<1>3. PICK o \in Orders(HistoryOf(p.heads) \ Here) : log' = log \o o
  BY <1>1 DEF Brings
<1>4. RepoTypeOK /\ GraphOK /\ HistoryOf(p.heads) \subseteq Made
  BY <1>1, Histories DEF RepoOK
<1>5. o \in Seq(Made) /\ Elements(o) = HistoryOf(p.heads) \ Here /\ Distinct(o)
  BY <1>4, Ordered
<1>6. log' \in Seq(Made') /\ Distinct(log') /\ GraphOK' /\ Here' = Here \cup Elements(o)
  BY <1>2, <1>3, <1>5, GoesOnWith
<1>7. RepoTypeOK'
  <2>1. graph' \in Seq(CommitRecords) /\ Len(graph') \in 1..MaxCommits
    BY <1>2, <1>4 DEF RepoTypeOK
  <2>2. public' \subseteq Made' /\ obsolete' \subseteq Made'
    BY <1>1, <1>2, <1>4 DEF RepoTypeOK
  <2>3. bookmarks' \in [Bookmarks -> Made' \cup {None}]
    BY <1>2, <1>4 DEF RepoTypeOK
  <2> QED
    BY <1>6, <2>1, <2>2, <2>3 DEF RepoTypeOK
<1> QED
  BY <1>2, <1>6, <1>7 DEF RepoOK

LEMMA StripWrites ==
    ASSUME RepoOK, NEW t \in Threads, Strip(t)
    PROVE  /\ RepoOK' /\ graph' = graph
           /\ \E c \in Here :
                 /\ Here' = Here \ Below(c)
                 /\ announced' = announced \ Below(c)
                 /\ expected' = [x \in DOMAIN expected |-> expected[x] \ Below(c)]
<1>1. PICK c \in Here :
        /\ \E o \in Orders(Here \ Below(c)) : log' = o
        /\ announced' = announced \ Below(c)
        /\ expected' = [x \in DOMAIN expected |-> expected[x] \ Below(c)]
        /\ \E left \in (Here \ Below(c)) \cup {None} :
              bookmarks' = [m \in Bookmarks |->
                               IF bookmarks[m] \in Below(c) THEN left ELSE bookmarks[m]]
  BY DEF Strip
<1>2. graph' = graph /\ public' = public /\ obsolete' = obsolete /\ Made' = Made
  BY DEF Strip, Made
<1>3. RepoTypeOK /\ GraphOK /\ Here \subseteq Made
  BY Basics DEF RepoOK
<1>4. PICK o \in Orders(Here \ Below(c)) : log' = o
  BY <1>1
<1>5. o \in Seq(Made) /\ Elements(o) = Here \ Below(c) /\ Distinct(o)
  BY <1>3, Ordered
<1>6. log' \in Seq(Made') /\ Distinct(log') /\ Here' = Here \ Below(c)
  BY <1>2, <1>4, <1>5 DEF Here, Elements, Distinct
<1>7. PICK left \in (Here \ Below(c)) \cup {None} :
        bookmarks' = [m \in Bookmarks |->
                         IF bookmarks[m] \in Below(c) THEN left ELSE bookmarks[m]]
  BY <1>1
<1>8. bookmarks' \in [Bookmarks -> Made' \cup {None}]
  <2>1. left \in Made \cup {None} /\ bookmarks \in [Bookmarks -> Made \cup {None}]
    BY <1>3 DEF RepoTypeOK
  <2> QED
    BY <1>2, <1>7, <2>1
<1>9. RepoTypeOK'
  <2>1. /\ graph' \in Seq(CommitRecords) /\ Len(graph') \in 1..MaxCommits
        /\ public' \subseteq Made' /\ obsolete' \subseteq Made'
    BY <1>2, <1>3 DEF RepoTypeOK
  <2> QED
    BY <1>6, <1>8, <2>1 DEF RepoTypeOK
<1>10. GraphOK'
  BY <1>2, <1>3 DEF GraphOK
<1> QED
  BY <1>1, <1>2, <1>6, <1>9, <1>10 DEF RepoOK

LEMMA BookmarkWrites ==
    ASSUME RepoOK, NEW t \in Threads, Bookmark(t)
    PROVE  RepoOK' /\ graph' = graph /\ log' = log
<1>1. PICK m \in Bookmarks, c \in Here : bookmarks' = [bookmarks EXCEPT ![m] = c]
  BY DEF Bookmark
<1>2. /\ graph' = graph /\ log' = log /\ public' = public /\ obsolete' = obsolete
      /\ Made' = Made
  BY DEF Bookmark, Made
<1>3. RepoTypeOK /\ GraphOK /\ Distinct(log) /\ Here \subseteq Made
  BY Basics DEF RepoOK
<1>4. bookmarks' \in [Bookmarks -> Made' \cup {None}]
  BY <1>1, <1>2, <1>3 DEF RepoTypeOK
<1>5. RepoTypeOK'
  BY <1>2, <1>3, <1>4 DEF RepoTypeOK
<1>6. GraphOK' /\ Distinct(log')
  BY <1>2, <1>3 DEF GraphOK, Distinct
<1> QED
  BY <1>2, <1>5, <1>6 DEF RepoOK

LEMMA PushWrites ==
    ASSUME RepoOK, JobsTyped, PushesOK, NEW t \in Threads, PushLands(t)
    PROVE  /\ RepoOK' /\ graph' = graph
           /\ Here' = Here \cup Elements(job[t].new)
<1> DEFINE j == job[t]
<1>1. /\ RepoTypeOK /\ GraphOK /\ j.sent \subseteq Made /\ j.new \in Seq(Made)
      /\ Elements(j.new) = HistoryOf(j.sent) \ Here /\ Distinct(j.new) /\ j.new # <<>>
  BY DEF Sent, PushLands, At, PushesOK, PushOK, Locking, RepoOK
<1>2. graph' = graph /\ obsolete' = obsolete /\ Made' = Made /\ log' = log \o j.new
  BY DEF PushLands, Made, Pending
<1>3. log' \in Seq(Made') /\ Distinct(log') /\ GraphOK' /\ Here' = Here \cup Elements(j.new)
  <2>1. Elements(j.new) \cap Here = {}
    BY <1>1
  <2> HIDE DEF j
  <2> QED
    BY <1>1, <1>2, <2>1, GoesOnWith
<1>4. j.new[Len(j.new)] \in Made
  BY <1>1
<1>5. bookmarks' \in [Bookmarks -> Made' \cup {None}]
  <2>1. bookmarks' = [m \in Bookmarks |-> IF m = j.mark THEN j.new[Len(j.new)] ELSE bookmarks[m]]
    BY DEF PushLands
  <2>2. bookmarks \in [Bookmarks -> Made \cup {None}]
    BY <1>1 DEF RepoTypeOK
  <2> HIDE DEF j
  <2> QED
    BY <1>2, <1>4, <2>1, <2>2
<1>6. public' \subseteq Made'
  <2>1. HistoryOf(j.sent) \subseteq Made /\ public \subseteq Made
    BY <1>1, Histories DEF RepoTypeOK
  <2> QED
    BY <1>2, <2>1 DEF PushLands
<1>7. RepoTypeOK'
  <2>1. /\ graph' \in Seq(CommitRecords) /\ Len(graph') \in 1..MaxCommits
        /\ obsolete' \subseteq Made'
    BY <1>1, <1>2 DEF RepoTypeOK
  <2> QED
    BY <1>3, <1>5, <1>6, <2>1 DEF RepoTypeOK
<1> QED
  BY <1>2, <1>3, <1>7 DEF RepoOK

---------------------------------------------------------------------------
(* Every other step of a thread leaves the repository alone, and the       *)
(* thread that holds the lock is not disturbed.                            *)
Writes(t) == CommitLands(t) \/ Pull(t) \/ Strip(t) \/ Bookmark(t) \/ PushLands(t)

LEMMA Writers ==
    ASSUME NEW t \in Threads, ThreadStep(t) \/ Killed(t), ~Writes(t)
    PROVE  UNCHANGED repo
BY DEF Writes, ThreadStep, Commit, CallsCommit, CommitRaises, PullFails, Push, CallsPush,
   NothingToPush, PushForbidden, PushLocks, PushReports, PushRefused, Announces, AnnounceFails, AnnouncesNothing,
   Read, CallsRead, ReadHits, ReadMisses, ReadUncached, ReadComputes, ReadStores, Killed

LEMMA RepoSteps ==
    ASSUME RepoOK, JobsTyped, PushesOK, NEW t \in Threads, ThreadStep(t) \/ Killed(t)
    PROVE  RepoOK' /\ Made \subseteq Made' /\ \A c \in Made : graph'[c] = graph[c]
<1>1. CASE CommitLands(t)
  BY <1>1, CommitWrites
<1>2. CASE ~CommitLands(t) /\ Writes(t)
  <2>1. RepoOK' /\ graph' = graph
    BY <1>2, PullWrites, StripWrites, BookmarkWrites, PushWrites DEF Writes
  <2> QED
    BY <2>1 DEF Made
<1>3. CASE ~Writes(t)
  <2>1. /\ graph' = graph /\ log' = log /\ public' = public /\ obsolete' = obsolete
        /\ bookmarks' = bookmarks
    BY <1>3, Writers DEF repo
  <2>2. Made' = Made
    BY <2>1 DEF Made
  <2>3. RepoTypeOK'
    BY <2>1, <2>2 DEF RepoOK, RepoTypeOK
  <2>4. GraphOK' /\ Distinct(log')
    BY <2>1, <2>2 DEF RepoOK, GraphOK, Distinct
  <2> QED
    BY <2>1, <2>2, <2>3, <2>4 DEF RepoOK
<1> QED
  BY <1>1, <1>2, <1>3

LEMMA LockHolds ==
    ASSUME PushesOK, NEW s \in Threads, NEW t \in Threads, s # t, job[s].pc \in Locking,
           ThreadStep(t) \/ Killed(t)
    PROVE  graph' = graph /\ log' = log /\ lock' = lock
<1>1. lock = s /\ ~Free
  BY BackendAssumption DEF PushesOK, PushOK, Free
<1>2. ~(job[t].pc \in Locking)
  BY <1>1 DEF PushesOK, PushOK
<1>3. ~CommitLands(t) /\ ~Pull(t) /\ ~Strip(t) /\ ~Bookmark(t) /\ ~PushLands(t) /\ ~PushLocks(t)
      /\ ~PushRefused(t)
  BY <1>1, <1>2 DEF CommitLands, Pull, Strip, Bookmark, PushLands, PushLocks, PushRefused, At, Locking
<1>4. graph' = graph /\ log' = log
  BY <1>3, Writers DEF Writes, repo
<1>5. lock' = lock
  BY <1>1, <1>3 DEF ThreadStep, Commit, CallsCommit, CommitRaises, PullFails, Push, CallsPush,
     NothingToPush, PushForbidden, PushReports, Announces, AnnounceFails, AnnouncesNothing,
     Read, CallsRead, ReadHits, ReadMisses, ReadUncached, ReadComputes, ReadStores, Killed
<1> QED
  BY <1>4, <1>5

---------------------------------------------------------------------------
(* What becomes of the job of a thread.                                    *)
LEMMA IdleTyped == IsJob(Idle)
<1>1. /\ NoEdit \in Edits /\ <<>> \in NewSet /\ {} \in SentSet /\ 0 \in Nat
      /\ NoAsk \in AskSet /\ "idle" \in PCs /\ "http" \in WaySet
      /\ None \in RevSet /\ None \in NameSet /\ None \in MarkSet
  BY DEF NoEdit, Edits, NewSet, SentSet, AskSet, PCs, WaySet, RevSet, NameSet, MarkSet
<1> QED
  BY <1>1 DEF Idle, Jobs, IsJob

(* The fields that a step changes keep their types, the others stay.       *)
Moved(j, pc) == [j EXCEPT !.pc = pc]
Committing(j, pc, p, b, e) == [j EXCEPT !.pc = pc, !.rev = p, !.branch = b, !.edit = e]
Sending(j, pc, s, way, write, mark) == [j EXCEPT !.pc = pc, !.sent = s, !.way = way, !.write = write, !.mark = mark]
Asking(j, pc, ask) == [j EXCEPT !.pc = pc, !.ask = ask]
Adding(j, pc, o) == [j EXCEPT !.pc = pc, !.new = o]
Reporting(j, pc, report) == [j EXCEPT !.pc = pc, !.report = report]
Landed(j, pc, n) == [j EXCEPT !.pc = pc, !.start = n]

LEMMA MovedJob ==
    ASSUME NEW j, IsJob(j), NEW pc \in PCs, NEW k, k = Moved(j, pc)
    PROVE  /\ IsJob(k) /\ k.pc = pc /\ k.sent = j.sent /\ k.new = j.new
           /\ k.ask = j.ask /\ k.way = j.way /\ k.write = j.write
BY DEF IsJob, Jobs, Moved

LEMMA CommitJob ==
    ASSUME NEW j, IsJob(j), NEW pc \in PCs,
           NEW p \in RevSet, NEW b \in NameSet, NEW e \in Edits,
           NEW k, k = Committing(j, pc, p, b, e)
    PROVE  /\ IsJob(k) /\ k.pc = pc /\ k.sent = j.sent /\ k.new = j.new
           /\ k.ask = j.ask /\ k.way = j.way /\ k.write = j.write
           /\ k.branch = b
BY DEF IsJob, Jobs, Committing

LEMMA PushJob ==
    ASSUME NEW j, IsJob(j), NEW pc \in PCs,
           NEW s \in SentSet, NEW way \in WaySet, NEW write \in BOOLEAN, NEW mark \in MarkSet,
           NEW k, k = Sending(j, pc, s, way, write, mark)
    PROVE  /\ IsJob(k) /\ k.pc = pc /\ k.sent = s /\ k.new = j.new
           /\ k.ask = j.ask /\ k.way = way /\ k.write = write
BY DEF IsJob, Jobs, Sending

LEMMA ReadJob ==
    ASSUME NEW j, IsJob(j), NEW pc \in PCs,
           NEW ask \in AskSet,
           NEW k, k = Asking(j, pc, ask)
    PROVE  /\ IsJob(k) /\ k.pc = pc /\ k.sent = j.sent /\ k.new = j.new
           /\ k.ask = ask /\ k.way = j.way /\ k.write = j.write
BY DEF IsJob, Jobs, Asking

LEMMA LockedJob ==
    ASSUME NEW j, IsJob(j), NEW pc \in PCs,
           NEW o \in NewSet,
           NEW k, k = Adding(j, pc, o)
    PROVE  /\ IsJob(k) /\ k.pc = pc /\ k.sent = j.sent /\ k.new = o
           /\ k.ask = j.ask /\ k.way = j.way /\ k.write = j.write
BY DEF IsJob, Jobs, Adding

LEMMA ReportedJob ==
    ASSUME NEW j, IsJob(j), NEW pc \in PCs,
           NEW report,
           NEW k, k = Reporting(j, pc, report)
    PROVE  /\ IsJob(k) /\ k.pc = pc /\ k.sent = j.sent /\ k.new = j.new
           /\ k.ask = j.ask /\ k.way = j.way /\ k.write = j.write
           /\ k.report = report
BY DEF IsJob, Jobs, Reporting

LEMMA LandedJob ==
    ASSUME NEW j, IsJob(j), NEW pc \in PCs,
           NEW n \in Nat,
           NEW k, k = Landed(j, pc, n)
    PROVE  /\ IsJob(k) /\ k.pc = pc /\ k.sent = j.sent /\ k.new = j.new
           /\ k.ask = j.ask /\ k.way = j.way /\ k.write = j.write
           /\ k.start = n
BY DEF IsJob, Jobs, Landed

LEMMA Becomes ==
    ASSUME JobsTyped, NEW t \in Threads, NEW new, IsJob(new), Goes(t, new)
    PROVE  JobsTyped' /\ job'[t] = new /\ \A s \in Threads \ {t} : job'[s] = job[s]
<1>1. job' = [job EXCEPT ![t] = new] /\ DOMAIN job = Threads
  BY DEF JobsTyped, Goes
<1>2. /\ DOMAIN job' = Threads /\ job' = [s \in Threads |-> job'[s]]
      /\ job'[t] = new /\ \A s \in Threads \ {t} : job'[s] = job[s]
  BY <1>1
<1>3. \A s \in Threads : IsJob(job'[s])
  BY <1>2 DEF JobsTyped
<1> QED
  BY <1>2, <1>3 DEF JobsTyped

(* The steps that make the new job of a thread.                             *)
Idles(t) == Goes(t, Idle)
Moves(t) ==
    \E pc \in {"compute", "store"} :
        Goes(t, [job[t] EXCEPT !.pc = pc]) /\ job[t].pc \in {"lookup", "compute"}
Starts(t) == CallsCommit(t) \/ CallsPush(t) \/ CallsRead(t)
Pushing(t) == PushLocks(t) \/ PushReports(t) \/ PushLands(t)

LEMMA JobSteps ==
    ASSUME NEW t \in Threads, ThreadStep(t) \/ Killed(t)
    PROVE  Idles(t) \/ Moves(t) \/ Starts(t) \/ Pushing(t)
<1>1. CASE Killed(t)
  BY <1>1 DEF Killed, Idles
<1>2. CASE Commit(t)
  BY <1>2 DEF Commit, CommitLands, CommitRaises, Done, Fails, Replies, Idles, Starts
<1>3. CASE Pull(t) \/ PullFails(t) \/ Strip(t) \/ Bookmark(t)
  BY <1>3 DEF Pull, PullFails, Strip, Bookmark, Calls, Idles
<1>4. CASE Push(t)
  BY <1>4 DEF Push, NothingToPush, PushForbidden, PushRefused, Announces, AnnounceFails, AnnouncesNothing,
     Done, Fails, Replies, Idles, Starts, Pushing
<1>5. CASE Read(t)
  <2>1. CASE ReadHits(t) \/ ReadUncached(t) \/ ReadStores(t)
    BY <2>1 DEF ReadHits, ReadUncached, ReadStores, Replies, Idles
  <2>2. CASE ReadMisses(t)
    BY <2>2 DEF ReadMisses, At, Moves
  <2>3. CASE ReadComputes(t)
    BY <2>3 DEF ReadComputes, At, Moves, Replies, Idles
  <2> QED
    BY <1>5, <2>1, <2>2, <2>3 DEF Read, Starts
<1> QED
  BY <1>1, <1>2, <1>3, <1>4, <1>5 DEF ThreadStep

LEMMA PlainPush ==
    ASSUME NEW t \in Threads, job'[t].sent \subseteq Made', job'[t].new \in Seq(Made'),
           job'[t].pc \in PCs \ (Locking \cup {"changegroup"}),
           job'[t].pc = "commit" => job'[t].branch \in Branches
    PROVE  PushOK(t)'
BY DEF PushOK, Locking

LEMMA IdlesStep ==
    ASSUME JobsTyped, NEW t \in Threads, Idles(t)
    PROVE  JobsTyped' /\ PushOK(t)' /\ \A s \in Threads \ {t} : job'[s] = job[s]
<1>1. JobsTyped' /\ job'[t] = Idle /\ \A s \in Threads \ {t} : job'[s] = job[s]
  BY IdleTyped, Becomes DEF Idles
<1>2. Idle.sent = {} /\ Idle.new = <<>> /\ Idle.pc = "idle"
  BY DEF Idle
<1>3. PushOK(t)'
  <2>1. job'[t].sent \subseteq Made' /\ job'[t].new \in Seq(Made')
    BY <1>1, <1>2
  <2>2. job'[t].pc = "idle" /\ "idle" \in PCs \ (Locking \cup {"changegroup"})
    BY <1>1, <1>2 DEF Locking, PCs
  <2> QED
    BY <2>1, <2>2, PlainPush
<1> QED
  BY <1>1, <1>3

(* A job that has moved on in its method, and nothing else.                *)
LEMMA MovesStep ==
    ASSUME JobsTyped, PushesOK, Made \subseteq Made', NEW t \in Threads, Moves(t)
    PROVE  /\ JobsTyped' /\ PushOK(t)' /\ \A s \in Threads \ {t} : job'[s] = job[s]
<1>1. PICK pc \in {"compute", "store"} : Goes(t, Moved(job[t], pc))
  BY DEF Moves, Moved
<1>0. PICK new : new = Moved(job[t], pc)
  OBVIOUS
<1>2. IsJob(job[t]) /\ pc \in PCs
  BY DEF JobsTyped, PCs
<1>3. IsJob(new) /\ new.sent = job[t].sent /\ new.new = job[t].new /\ new.pc = pc
  BY <1>0, <1>2, MovedJob
<1>4. JobsTyped' /\ job'[t] = new /\ \A s \in Threads \ {t} : job'[s] = job[s]
  BY <1>0, <1>1, <1>3, Becomes
<1>5. new.sent \subseteq Made' /\ new.new \in Seq(Made')
  BY <1>3 DEF PushesOK, PushOK
<1>6. PushOK(t)'
  <2>1. pc \in PCs \ (Locking \cup {"changegroup", "commit"})
    BY DEF Locking, PCs
  <2> QED
    BY <1>3, <1>4, <1>5, <2>1, PlainPush
<1> QED
  BY <1>4, <1>6

LEMMA StartsStep ==
    ASSUME RepoOK, JobsTyped, NEW t \in Threads, Starts(t)
    PROVE  /\ JobsTyped' /\ PushOK(t)' /\ \A s \in Threads \ {t} : job'[s] = job[s]
<1>1. /\ IsJob(Idle) /\ Idle.sent = {} /\ Idle.new = <<>>
      /\ Here \subseteq Commits /\ Made \subseteq Commits
  BY IdleTyped, Basics DEF Idle, RepoOK
<1>2. CASE CallsCommit(t)
  <2>1. PICK p \in Here \cup {None}, b \in Branches, e \in CommitEdits :
          Calls(t, Committing(Idle, "commit", p, b, e))
    BY <1>2 DEF CallsCommit, Committing
  <2>0. PICK new : new = Committing(Idle, "commit", p, b, e)
    OBVIOUS
  <2>2. /\ IsJob(new)
        /\ new.sent = {} /\ new.new = <<>> /\ new.pc = "commit" /\ new.branch = b
    <3>1. p \in RevSet /\ b \in NameSet /\ e \in Edits /\ "commit" \in PCs
      BY <1>1, BackendAssumption DEF RevSet, NameSet, PCs
    <3> QED
      BY <1>1, <2>0, <3>1, CommitJob
  <2>3. JobsTyped' /\ job'[t] = new /\ \A s \in Threads \ {t} : job'[s] = job[s]
    BY <2>1, <2>2, <2>0, Becomes DEF Calls
  <2>4. PushOK(t)'
    <3>1. "commit" \in PCs \ (Locking \cup {"changegroup"})
      BY DEF Locking, PCs
    <3>2. job'[t].sent \subseteq Made' /\ job'[t].new \in Seq(Made')
      <4>1. {} \subseteq Made' /\ <<>> \in Seq(Made')
        OBVIOUS
      <4> QED
        BY <2>2, <2>3, <4>1
    <3> QED
      BY <2>2, <2>3, <3>1, <3>2, PlainPush
  <2> QED
    BY <2>3, <2>4
<1>3. CASE CallsPush(t)
  <2>1. PICK p \in Pushes :
          /\ p.sent \subseteq Made
          /\ Calls(t, Sending(Idle, "push", p.sent, p.way, p.write, p.mark))
    BY <1>3 DEF CallsPush, Sending
  <2>0. PICK new : new = Sending(Idle, "push", p.sent, p.way, p.write, p.mark)
    OBVIOUS
  <2>2. p \in [sent : SUBSET Commits, way : {"http", "ssh"}, write : BOOLEAN,
               mark : Bookmarks \cup {None}]
    BY BackendAssumption
  <2>3. /\ IsJob(new)
        /\ new.sent = p.sent /\ new.new = <<>> /\ new.pc = "push"
    <3>1. /\ p.sent \in SentSet /\ p.way \in WaySet /\ p.write \in BOOLEAN /\ p.mark \in MarkSet
          /\ "push" \in PCs
      BY <2>2 DEF SentSet, WaySet, MarkSet, PCs
    <3> QED
      BY <1>1, <2>0, <3>1, PushJob
  <2>4. JobsTyped' /\ job'[t] = new /\ \A s \in Threads \ {t} : job'[s] = job[s]
    BY <2>1, <2>3, <2>0, Becomes DEF Calls
  <2>5. Made' = Made
    BY <1>3 DEF CallsPush, repo, Made
  <2>6. PushOK(t)'
    <3>1. "push" \in PCs \ (Locking \cup {"changegroup", "commit"})
      BY DEF Locking, PCs
    <3>2. job'[t].sent \subseteq Made' /\ job'[t].new \in Seq(Made')
      <4>1. <<>> \in Seq(Made')
        OBVIOUS
      <4> QED
        BY <2>1, <2>3, <2>4, <2>5, <4>1
    <3> QED
      BY <2>3, <2>4, <3>1, <3>2, PlainPush
  <2> QED
    BY <2>4, <2>6
<1>4. CASE CallsRead(t)
  <2>1. PICK ask \in Asks : Calls(t, Asking(Idle, "lookup", ask))
    BY <1>4 DEF CallsRead, Asking
  <2>0. PICK new : new = Asking(Idle, "lookup", ask)
    OBVIOUS
  <2>2. IsJob(new) /\ new.sent = {} /\ new.new = <<>> /\ new.pc = "lookup"
    <3>1. ask \in AskSet /\ "lookup" \in PCs
      BY DEF AskSet, PCs
    <3> QED
      BY <1>1, <2>0, <3>1, ReadJob
  <2>3. JobsTyped' /\ job'[t] = new /\ \A s \in Threads \ {t} : job'[s] = job[s]
    BY <2>1, <2>2, <2>0, Becomes DEF Calls
  <2>4. PushOK(t)'
    <3>1. "lookup" \in PCs \ (Locking \cup {"changegroup", "commit"})
      BY DEF Locking, PCs
    <3>2. job'[t].sent \subseteq Made' /\ job'[t].new \in Seq(Made')
      <4>1. {} \subseteq Made' /\ <<>> \in Seq(Made')
        OBVIOUS
      <4> QED
        BY <2>2, <2>3, <4>1
    <3> QED
      BY <2>2, <2>3, <3>1, <3>2, PlainPush
  <2> QED
    BY <2>3, <2>4
<1> QED
  BY <1>2, <1>3, <1>4 DEF Starts

(* What the hook reports does not depend on the order of the forks it      *)
(* found, and stays the same while repository and push do.                 *)
LEMMA ReportSame ==
    ASSUME NEW t \in Threads, graph' = graph, log' = log, job'[t].new = job[t].new
    PROVE  Told(t)' = Told(t)
BY DEF Told, Report, Pending, RevRange, Rev

LEMMA SentSame ==
    ASSUME NEW t \in Threads, graph' = graph, job'[t].sent = job[t].sent
    PROVE  Sent(t)' = Sent(t)
BY DEF Sent, HistoryOf, History

LEMMA LockedPush ==
    ASSUME NEW t \in Threads, NEW j, job'[t] = j, j.pc \in Locking, lock' = t,
           j.sent \subseteq Made', j.new \in Seq(Made'), j.new # <<>>, Distinct(j.new),
           Elements(j.new) = Sent(t)' \ Here', PermittedOver(j.way, j.write),
           j.pc = "pretxnchangegroup" =>
               j.report.total = Told(t)'.total /\ j.report.last = Told(t)'.last
    PROVE  PushOK(t)'
BY DEF PushOK, Locking

LEMMA PushingStep ==
    ASSUME RepoOK, JobsTyped, PushesOK, NEW t \in Threads, Pushing(t)
    PROVE  /\ JobsTyped' /\ PushOK(t)' /\ \A s \in Threads \ {t} : job'[s] = job[s]
<1> DEFINE j == job[t]
<1>1. /\ IsJob(j)
      /\ RepoTypeOK /\ GraphOK /\ Made \subseteq Commits
  BY Basics DEF JobsTyped, RepoOK
<1>2. PushOK(t) /\ j.sent \subseteq Made /\ j.new \in Seq(Made)
  BY DEF PushesOK, PushOK
<1>3. CASE PushLocks(t)
  <2>1. PICK o \in Orders(HistoryOf(j.sent) \ Here) :
          Goes(t, Adding(j, "prechangegroup", o))
    BY <1>3 DEF PushLocks, Adding
  <2>0. PICK new : new = Adding(j, "prechangegroup", o)
    OBVIOUS
  <2>2. Sent(t) \subseteq Made /\ Sent(t) \ Here # {} /\ o \in Orders(Sent(t) \ Here)
    BY <1>1, <1>2, <1>3, <2>1, Histories DEF PushLocks, Sent
  <2>3. o \in Seq(Made) /\ Elements(o) = Sent(t) \ Here /\ Distinct(o) /\ o # <<>>
    BY <1>1, <2>2, Ordered
  <2>4. o \in NewSet /\ "prechangegroup" \in PCs /\ "prechangegroup" \in Locking
    BY <1>1, <2>3 DEF NewSet, PCs, Locking
  <2>5. /\ IsJob(new)
        /\ new.sent = j.sent /\ new.new = o /\ new.pc = "prechangegroup"
        /\ new.way = j.way /\ new.write = j.write
    BY <1>1, <2>0, <2>4, LockedJob
  <2>6. JobsTyped' /\ job'[t] = new /\ \A s \in Threads \ {t} : job'[s] = job[s]
    BY <2>1, <2>5, <2>0, Becomes
  <2>7. /\ lock' = t /\ graph' = graph /\ log' = log /\ Made' = Made /\ Here' = Here
        /\ PermittedOver(j.way, j.write)
    BY <1>3 DEF PushLocks, repo, Made, Here, Elements
  <2>8. Sent(t)' = Sent(t)
    BY <2>5, <2>6, <2>7, SentSame
  <2>9. /\ new.sent \subseteq Made' /\ new.new \in Seq(Made') /\ new.new # <<>>
        /\ Elements(new.new) = Sent(t)' \ Here' /\ Distinct(new.new)
        /\ PermittedOver(new.way, new.write) /\ new.pc \in Locking
        /\ new.pc # "pretxnchangegroup"
    BY <1>2, <2>3, <2>4, <2>5, <2>7, <2>8
  <2>10. PushOK(t)'
    BY <2>6, <2>7, <2>9, LockedPush
  <2> QED
    BY <2>6, <2>10
<1>4. CASE PushReports(t)
  <2>1. PICK heads :
          Goes(t, Reporting(j, "pretxnchangegroup", Report(Pending(t), j.new[1], heads)))
    BY <1>4 DEF PushReports, Reporting
  <2>0. PICK new : new = Reporting(j, "pretxnchangegroup", Report(Pending(t), j.new[1], heads))
    OBVIOUS
  <2>2. /\ IsJob(new)
        /\ new.sent = j.sent /\ new.new = j.new /\ new.pc = "pretxnchangegroup"
        /\ new.way = j.way /\ new.write = j.write
        /\ new.report = Report(Pending(t), j.new[1], heads)
    <3>1. "pretxnchangegroup" \in PCs
      BY DEF PCs
    <3> QED
      BY <1>1, <2>0, <3>1, ReportedJob
  <2>3. JobsTyped' /\ job'[t] = new /\ \A s \in Threads \ {t} : job'[s] = job[s]
    BY <2>1, <2>2, <2>0, Becomes
  <2>4. /\ graph' = graph /\ log' = log /\ lock' = lock /\ Made' = Made /\ Here' = Here
        /\ j.pc = "prechangegroup"
    BY <1>4 DEF PushReports, repo, Made, Here, Elements, At
  <2>5. new.report.total = Told(t).total /\ new.report.last = Told(t).last
    BY <2>2 DEF Report, Told
  <2>6. Told(t)' = Told(t) /\ Sent(t)' = Sent(t)
    BY <2>2, <2>3, <2>4, ReportSame, SentSame
  <2>7. /\ j.new # <<>> /\ Elements(j.new) = Sent(t) \ Here /\ Distinct(j.new)
        /\ PermittedOver(j.way, j.write) /\ lock = t
    BY <1>2, <2>4 DEF PushOK, Locking
  <2>8. /\ new.sent \subseteq Made' /\ new.new \in Seq(Made') /\ new.new # <<>>
        /\ Elements(new.new) = Sent(t)' \ Here' /\ Distinct(new.new)
        /\ PermittedOver(new.way, new.write) /\ new.pc \in Locking
        /\ new.report.total = Told(t)'.total /\ new.report.last = Told(t)'.last
    BY <1>2, <2>2, <2>4, <2>5, <2>6, <2>7 DEF Locking
  <2>9. PushOK(t)'
    BY <2>3, <2>4, <2>7, <2>8, LockedPush
  <2> QED
    BY <2>3, <2>9
<1>5. CASE PushLands(t)
  <2>0. PICK new : new = Landed(j, "changegroup", Len(log))
    OBVIOUS
  <2>1. Goes(t, new) /\ graph' = graph /\ j.pc = "pretxnchangegroup"
    BY <1>5, <2>0 DEF PushLands, At, Landed
  <2>2. Len(log) \in Nat /\ "changegroup" \in PCs
    BY <1>1, Basics DEF PCs
  <2>3. /\ IsJob(new)
        /\ new.sent = j.sent /\ new.new = j.new /\ new.pc = "changegroup"
    BY <1>1, <2>0, <2>2, LandedJob
  <2>4. JobsTyped' /\ job'[t] = new /\ \A s \in Threads \ {t} : job'[s] = job[s]
    BY <2>1, <2>3, Becomes
  <2>5. j.new # <<>> /\ Made' = Made
    BY <1>2, <2>1 DEF PushOK, Locking, Made
  <2>6. PushOK(t)'
    BY <1>2, <2>3, <2>4, <2>5 DEF PushOK, Locking
  <2> QED
    BY <2>4, <2>6
<1> QED
  BY <1>3, <1>4, <1>5 DEF Pushing

(* Every job of a push stays right: the locked ones are alone.             *)
LEMMA PushesStep ==
    ASSUME RepoOK, JobsTyped, PushesOK, NEW t \in Threads, ThreadStep(t) \/ Killed(t)
    PROVE  /\ JobsTyped' /\ PushesOK'
           /\ \A s \in Threads \ {t} : job'[s] = job[s]
<1>1. Made \subseteq Made'
  BY RepoSteps
<1>2. JobsTyped' /\ PushOK(t)' /\ \A s \in Threads \ {t} : job'[s] = job[s]
  BY <1>1, JobSteps, IdlesStep, MovesStep, StartsStep, PushingStep
<1>3. ASSUME NEW s \in Threads, s # t
      PROVE  PushOK(s)'
  <2>1. PushOK(s) /\ job'[s] = job[s]
    BY <1>2, <1>3 DEF PushesOK
  <2>2. job[s].sent \subseteq Made' /\ job[s].new \in Seq(Made')
    BY <1>1, <2>1 DEF PushOK
  <2>3. CASE job[s].pc \in Locking
    <3>1. graph' = graph /\ log' = log /\ lock' = lock
      BY <1>3, <2>3, LockHolds
    <3>2. Here' = Here /\ Told(s)' = Told(s) /\ Sent(s)' = Sent(s)
      BY <2>1, <3>1, ReportSame, SentSame DEF Here, Elements
    <3>3. PICK j : j = job[s]
      OBVIOUS
    <3>4. /\ j.new # <<>> /\ Distinct(j.new) /\ lock = s
          /\ Elements(j.new) = Sent(s) \ Here /\ PermittedOver(j.way, j.write)
          /\ j.pc = "pretxnchangegroup" =>
                j.report.total = Told(s).total /\ j.report.last = Told(s).last
      BY <2>1, <2>3, <3>3 DEF PushOK
    <3> QED
      BY <2>1, <2>2, <2>3, <3>1, <3>2, <3>3, <3>4, LockedPush
  <2>4. CASE job[s].pc \notin Locking
    BY <2>1, <2>2, <2>4 DEF PushOK, Locking
  <2> QED
    BY <2>3, <2>4
<1> QED
  BY <1>2, <1>3 DEF PushesOK

---------------------------------------------------------------------------
(* Readers.                                                                *)
LEMMA AnswersOfOthers ==
    ASSUME DOMAIN answer = Threads, NEW t \in Threads, ThreadStep(t) \/ Killed(t)
    PROVE  DOMAIN answer' = Threads /\ \A s \in Threads \ {t} : answer'[s] = answer[s]
<1>1. answer' = answer \/ \E v : answer' = [answer EXCEPT ![t] = v]
  <2>1. CASE Killed(t)
    BY <2>1 DEF Killed
  <2>2. CASE Commit(t)
    BY <2>2 DEF Commit, CallsCommit, CommitLands, CommitRaises, Calls, Done, Fails, Replies
  <2>3. CASE Pull(t) \/ PullFails(t) \/ Strip(t) \/ Bookmark(t)
    BY <2>3 DEF Pull, PullFails, Strip, Bookmark, Calls
  <2>4. CASE Push(t)
    BY <2>4 DEF Push, CallsPush, NothingToPush, PushForbidden, PushLocks, PushReports, PushRefused,
       PushLands, Announces, AnnounceFails, AnnouncesNothing, Calls, Done, Fails, Replies
  <2>5. CASE Read(t)
    BY <2>5 DEF Read, CallsRead, ReadHits, ReadMisses, ReadUncached, ReadComputes, ReadStores, Calls,
       Replies
  <2> QED
    BY <2>1, <2>2, <2>3, <2>4, <2>5 DEF ThreadStep
<1> QED
  BY <1>1

LEMMA AnnouncedHere ==
    ASSUME RepoOK, JobsTyped, PushesOK, ExpectedOK, NEW t \in Threads, ThreadStep(t) \/ Killed(t)
    PROVE  announced' \subseteq Here' /\ (~Strip(t) => Here \subseteq Here')
<1>1. announced \subseteq Here
  BY DEF ExpectedOK
<1>2. CASE CommitLands(t)
  <2>1. announced' = announced \cup {Len(graph) + 1} /\ Here' = Here \cup {Len(graph) + 1}
    BY <1>2, CommitWrites DEF CommitLands
  <2> QED
    BY <1>1, <2>1
<1>3. CASE Pull(t)
  BY <1>1, <1>3, PullWrites DEF Pull
<1>4. CASE Strip(t)
  BY <1>1, <1>4, StripWrites
<1>5. CASE Bookmark(t)
  BY <1>1, <1>5, BookmarkWrites DEF Bookmark, Here, Elements
<1>6. CASE PushLands(t)
  BY <1>1, <1>6, PushWrites DEF PushLands, Keeps
<1>7. CASE ~Writes(t)
  <2>1. Here' = Here
    BY <1>7, Writers DEF repo, Here, Elements
  <2>2. CASE Announces(t) \/ AnnounceFails(t)
    <3>1. announced' \subseteq announced \cup SinceFirst(t) /\ job[t].new[1] \in Here
      BY <2>2 DEF Announces, AnnounceFails
    <3>2. RevRange(log, job[t].new[1]) \subseteq DOMAIN log
      <4>1. PICK i \in DOMAIN log : log[i] = job[t].new[1]
        BY <3>1 DEF Here, Elements
      <4>2. Rev(log, job[t].new[1]) \in DOMAIN log
        BY <4>1 DEF Rev
      <4>3. DOMAIN log = 1..Len(log) /\ Len(log) \in Nat
        BY DEF RepoOK, RepoTypeOK
      <4> QED
        BY <4>2, <4>3 DEF RevRange
    <3>3. SinceFirst(t) \subseteq Here
      BY <3>2 DEF SinceFirst, Here, Elements
    <3> QED
      BY <1>1, <2>1, <3>1, <3>3
  <2>3. CASE ~(Announces(t) \/ AnnounceFails(t))
    <3>1. announced' = announced
      BY <1>7, <2>3 DEF Writes, ThreadStep, Commit, CallsCommit, CommitRaises, PullFails, Push,
         CallsPush, NothingToPush, PushForbidden, PushLocks, PushReports, PushRefused,
         AnnouncesNothing, Read, CallsRead, ReadHits, ReadMisses, ReadUncached, ReadComputes,
         ReadStores, Killed
    <3> QED
      BY <1>1, <2>1, <3>1
  <2> QED
    BY <2>2, <2>3
<1> QED
  BY <1>2, <1>3, <1>4, <1>5, <1>6, <1>7 DEF Writes

(* What a context expects is set once, and only a strip takes from it.     *)
LEMMA ExpectedSteps ==
    ASSUME RepoOK, JobsTyped, PushesOK, ExpectedOK, NEW t \in Threads, ThreadStep(t) \/ Killed(t)
    PROVE  /\ ExpectedOK' /\ DOMAIN expected \subseteq DOMAIN expected'
           /\ \A x \in DOMAIN expected : expected'[x] \subseteq expected[x]
<1>1. announced' \subseteq Here' /\ (~Strip(t) => Here \subseteq Here')
  BY AnnouncedHere
<1>2. /\ announced \subseteq Here /\ DOMAIN expected \subseteq Contexts
      /\ \A x \in DOMAIN expected : expected[x] \subseteq Here
  BY DEF ExpectedOK
<1>3. CASE Strip(t)
  <2>1. PICK c \in Here : /\ expected' = [x \in DOMAIN expected |-> expected[x] \ Below(c)]
                          /\ announced' = announced \ Below(c)
                          /\ \E o \in Orders(Here \ Below(c)) : log' = o
    BY <1>3 DEF Strip
  <2>2. Here' = Here \ Below(c)
    BY <2>1 DEF Orders, Here, Elements
  <2> QED
    BY <1>1, <1>2, <2>1, <2>2 DEF ExpectedOK
<1>4. CASE CallsRead(t)
  <2>1. PICK ask \in Asks :
          expected' = IF ask.ctx \in {NoContext} \cup DOMAIN expected THEN expected
                      ELSE With(expected, ask.ctx, announced)
    BY <1>4 DEF CallsRead
  <2>2. ask.ctx \in Contexts \cup {NoContext}
    BY DEF Asks
  <2>3. Here' = Here
    BY <1>4 DEF CallsRead, repo, Here, Elements
  <2>4. CASE ask.ctx \in {NoContext} \cup DOMAIN expected
    BY <1>1, <1>2, <2>1, <2>3, <2>4 DEF ExpectedOK
  <2>5. CASE ask.ctx \notin {NoContext} \cup DOMAIN expected
    <3>1. /\ DOMAIN expected' = DOMAIN expected \cup {ask.ctx}
          /\ expected'[ask.ctx] = announced
          /\ \A x \in DOMAIN expected : expected'[x] = expected[x]
      BY <2>1, <2>5 DEF With
    <3> QED
      BY <1>1, <1>2, <2>2, <2>3, <2>5, <3>1 DEF ExpectedOK
  <2> QED
    BY <2>4, <2>5
<1>5. CASE ~Strip(t) /\ ~CallsRead(t)
  <2>1. expected' = expected
    BY <1>5 DEF ThreadStep, Commit, CallsCommit, CommitLands, CommitRaises, Pull, PullFails, Bookmark,
       Push, CallsPush, NothingToPush, PushForbidden, PushLocks, PushReports, PushRefused, PushLands,
       Announces, AnnounceFails, AnnouncesNothing, Read, ReadHits, ReadMisses, ReadUncached, ReadComputes,
       ReadStores, Killed, Keeps
  <2> QED
    BY <1>1, <1>2, <1>5, <2>1 DEF ExpectedOK
<1> QED
  BY <1>3, <1>4, <1>5

LEMMA HasLater ==
    ASSUME RepoOK, JobsTyped, PushesOK, ExpectedOK, NEW t \in Threads, ThreadStep(t) \/ Killed(t)
    PROVE  \A ask, val : ask.ctx \in DOMAIN expected \cup {NoContext} /\ Has(expected, ask, val) => Has(expected', ask, val)
<1>1. /\ ExpectedOK' /\ NoContext \notin DOMAIN expected'
      /\ \A x \in DOMAIN expected : expected'[x] \subseteq expected[x]
  BY ExpectedSteps, CacheAssumption DEF ExpectedOK
<1> QED
  BY <1>1 DEF Has

(* The thread that steps: its job, its answer.                             *)
LEMMA QuietRead ==
    ASSUME NEW t \in Threads, job'[t].pc \notin Reading, job'[t].ask = NoAsk,
           answer'[t].ask.ctx \in DOMAIN expected' \cup {NoContext},
           answer'[t].kind = "ok" => Has(expected', answer'[t].ask, answer'[t].val)
    PROVE  ReadOK(t)'
BY DEF ReadOK, Reading

LEMMA SilentRead ==
    ASSUME JobsTyped, DOMAIN answer = Threads, NEW t \in Threads, NEW new, Goes(t, new),
           answer' = [answer EXCEPT ![t] = Silence], new.pc \notin Reading, new.ask = NoAsk
    PROVE  ReadOK(t)'
<1>1. job'[t] = new /\ answer'[t] = Silence
  BY DEF Goes, JobsTyped
<1>2. Silence.ask.ctx = NoContext /\ Silence.kind = "none"
  BY DEF Silence, NoAsk
<1> QED
  BY <1>1, <1>2, QuietRead

LEMMA RepliedRead ==
    ASSUME JobsTyped, DOMAIN answer = Threads, NEW t \in Threads, NEW result, Replies(t, result),
           job[t].ask.ctx \in DOMAIN expected' \cup {NoContext},
           result.kind = "ok" => Has(expected', job[t].ask, result.val)
    PROVE  ReadOK(t)'
<1>1. job'[t] = Idle /\ answer'[t] = [ask |-> job[t].ask, kind |-> result.kind, val |-> result.val]
  BY DEF Replies, Goes, JobsTyped
<1>2. Idle.ask = NoAsk /\ Idle.pc \notin Reading
  BY DEF Idle, Reading
<1>3. PICK a : a = answer'[t]
  OBVIOUS
<1>4. a.ask = job[t].ask /\ a.kind = result.kind /\ a.val = result.val
  BY <1>1, <1>3
<1> QED
  BY <1>1, <1>2, <1>3, <1>4, QuietRead

\* A job that has asked nothing has promised nothing.
LEMMA Unasked ==
    ASSUME NEW val
    PROVE  Has(expected', NoAsk, val) /\ NoAsk.ctx = NoContext
BY DEF Has, NoAsk

\* What a reading job may answer has what its context expects.
LEMMA ComputedHas ==
    ASSUME ExpectedOK, NEW ask \in Asks, Result(ask).kind = "ok"
    PROVE  Has(expected, ask, Result(ask).val)
<1> SUFFICES ASSUME ask.name = "get_all_commit_ids", ask.ctx \in DOMAIN expected
             PROVE  expected[ask.ctx] \subseteq Result(ask).val
  BY DEF Has
<1>1. Result(ask) = hg_get_all_commit_ids
  BY DEF Result
<1> QED
  BY <1>1 DEF hg_get_all_commit_ids, Ok, ExpectedOK

LEMMA KeysHave ==
    ASSUME NEW ask \in Asks
    PROVE  /\ KeyOf(ask) \in Keys /\ KeyOf(ask).name = ask.name
           /\ KeyOf(ask).ctx \in {ask.ctx, NoContext}
           /\ ask.name = "get_all_commit_ids" => KeyOf(ask).ctx = ask.ctx
<1>1. KeyOf(ask) = [ask EXCEPT !.ctx = IF ask.name \in KeyedByContext THEN ask.ctx ELSE NoContext]
  BY DEF KeyOf
<1>2. ask.name = "get_all_commit_ids" => ask.name \in KeyedByContext
  BY DEF KeyedByContext
<1>3. ask \in [name : Methods, ctx : Contexts \cup {NoContext}, arg : Args]
  BY DEF Asks
<1>4. PICK c \in Contexts \cup {NoContext} :
        c = IF ask.name \in KeyedByContext THEN ask.ctx ELSE NoContext
  BY <1>3
<1>5. KeyOf(ask) = [name |-> ask.name, ctx |-> c, arg |-> ask.arg]
  BY <1>1, <1>3, <1>4
<1> QED
  BY <1>2, <1>3, <1>4, <1>5 DEF Keys, Asks

LEMMA StoredHas ==
    ASSUME CacheOK, NEW ask \in Asks, Hit(ask)
    PROVE  Has(expected, ask, cache[KeyOf(ask)])
<1>1. KeyOf(ask) \in DOMAIN cache /\ Has(expected, KeyOf(ask), cache[KeyOf(ask)])
  BY DEF Hit, CacheOK
<1> QED
  BY <1>1, KeysHave DEF Has

LEMMA ReadStep ==
    ASSUME RepoOK, JobsTyped, PushesOK, DOMAIN answer = Threads, ReadsOK, CacheOK, ExpectedOK,
           NEW t \in Threads, ThreadStep(t) \/ Killed(t)
    PROVE  ReadOK(t)'
<1>1. /\ ReadOK(t) /\ ExpectedOK' /\ DOMAIN expected \subseteq DOMAIN expected'
      /\ \A ask, val : ask.ctx \in DOMAIN expected \cup {NoContext} /\ Has(expected, ask, val) => Has(expected', ask, val)
  BY ExpectedSteps, HasLater DEF ReadsOK
<1>2. Idle.ask = NoAsk /\ Idle.pc \notin Reading
  BY DEF Idle, Reading
<1>3. ASSUME NEW result, Replies(t, result), job[t].pc \notin Reading
      PROVE  ReadOK(t)'
  <2>1. job[t].ask = NoAsk
    BY <1>1, <1>3 DEF ReadOK
  <2> QED
    BY <1>3, <2>1, Unasked, RepliedRead
<1>4. CASE Killed(t)
  BY <1>2, <1>4, SilentRead DEF Killed
<1>5. CASE Pull(t) \/ PullFails(t) \/ Strip(t) \/ Bookmark(t)
  <2>1. Calls(t, Idle)
    BY <1>5 DEF Pull, PullFails, Strip, Bookmark
  <2> QED
    BY <1>2, <2>1, SilentRead DEF Calls
<1>6. CASE CallsCommit(t)
  <2>1. PICK p \in Here \cup {None}, b \in Branches, e \in CommitEdits :
          Calls(t, Committing(Idle, "commit", p, b, e))
    BY <1>6 DEF CallsCommit, Committing
  <2>2. PICK new : new = Committing(Idle, "commit", p, b, e)
    OBVIOUS
  <2>3. new.pc = "commit" /\ new.ask = NoAsk
    BY <2>2 DEF Committing, Idle
  <2> QED
    BY <2>1, <2>2, <2>3, SilentRead DEF Calls, Reading
<1>7. CASE CallsPush(t)
  <2>1. PICK p \in Pushes : Calls(t, Sending(Idle, "push", p.sent, p.way, p.write, p.mark))
    BY <1>7 DEF CallsPush, Sending
  <2>2. PICK new : new = Sending(Idle, "push", p.sent, p.way, p.write, p.mark)
    OBVIOUS
  <2>3. new.pc = "push" /\ new.ask = NoAsk
    BY <2>2 DEF Sending, Idle
  <2> QED
    BY <2>1, <2>2, <2>3, SilentRead DEF Calls, Reading
<1>8. CASE CommitLands(t) \/ CommitRaises(t)
  <2>1. job[t].pc \notin Reading /\ \E result : Replies(t, result)
    BY <1>8 DEF CommitLands, CommitRaises, At, Done, Fails, Reading
  <2> QED
    BY <1>3, <2>1
<1>9. CASE \/ NothingToPush(t) \/ PushForbidden(t) \/ PushRefused(t) \/ Announces(t)
            \/ AnnounceFails(t) \/ AnnouncesNothing(t)
  <2>1. job[t].pc \notin Reading /\ \E result : Replies(t, result)
    BY <1>9 DEF NothingToPush, PushForbidden, PushRefused, Announces, AnnounceFails, AnnouncesNothing, At, Done,
       Fails, Reading
  <2> QED
    BY <1>3, <2>1
<1>10. CASE Pushing(t)
  <2>1. IsJob(job[t]) /\ job[t].pc \notin Reading /\ job[t].ask = NoAsk /\ answer' = answer
    <3>1. job[t].pc \notin Reading /\ answer' = answer
      BY <1>10 DEF Pushing, PushLocks, PushReports, PushLands, At, Reading
    <3> QED
      BY <1>1, <3>1 DEF ReadOK, JobsTyped
  <2>2. PICK new : Goes(t, new) /\ new.pc \notin Reading /\ new.ask = NoAsk
    <3>1. CASE PushLocks(t)
      <4>1. PICK o : Goes(t, Adding(job[t], "prechangegroup", o))
        BY <3>1 DEF PushLocks, Adding
      <4>2. PICK new : new = Adding(job[t], "prechangegroup", o)
        OBVIOUS
      <4>3. new.pc = "prechangegroup" /\ new.ask = job[t].ask
        BY <2>1, <4>2 DEF Adding, IsJob, Jobs
      <4> QED
        BY <2>1, <4>1, <4>2, <4>3 DEF Reading
    <3>2. CASE PushReports(t)
      <4>1. PICK report : Goes(t, Reporting(job[t], "pretxnchangegroup", report))
        BY <3>2 DEF PushReports, Reporting
      <4>2. PICK new : new = Reporting(job[t], "pretxnchangegroup", report)
        OBVIOUS
      <4>3. new.pc = "pretxnchangegroup" /\ new.ask = job[t].ask
        BY <2>1, <4>2 DEF Reporting, IsJob, Jobs
      <4> QED
        BY <2>1, <4>1, <4>2, <4>3 DEF Reading
    <3>3. CASE PushLands(t)
      <4>1. PICK n : Goes(t, Landed(job[t], "changegroup", n))
        BY <3>3 DEF PushLands, Landed
      <4>2. PICK new : new = Landed(job[t], "changegroup", n)
        OBVIOUS
      <4>3. new.pc = "changegroup" /\ new.ask = job[t].ask
        BY <2>1, <4>2 DEF Landed, IsJob, Jobs
      <4> QED
        BY <2>1, <4>1, <4>2, <4>3 DEF Reading
    <3> QED
      BY <1>10, <3>1, <3>2, <3>3 DEF Pushing
  <2>3. job'[t] = new
    BY <2>2 DEF Goes, JobsTyped
  <2> QED
    BY <1>1, <2>1, <2>2, <2>3, QuietRead DEF ReadOK
<1>11. CASE CallsRead(t)
  <2>1. PICK ask \in Asks :
          /\ Calls(t, Asking(Idle, "lookup", ask))
          /\ expected' = IF ask.ctx \in {NoContext} \cup DOMAIN expected THEN expected
                         ELSE With(expected, ask.ctx, announced)
    BY <1>11 DEF CallsRead, Asking
  <2>2. PICK new : new = Asking(Idle, "lookup", ask)
    OBVIOUS
  <2>3. new.pc = "lookup" /\ new.ask = ask
    BY <2>2 DEF Asking, Idle
  <2>4. job'[t] = new /\ answer'[t] = Silence
    BY <2>1, <2>2 DEF Calls, Goes, JobsTyped
  <2>5. ask.ctx \in DOMAIN expected' \cup {NoContext}
    BY <2>1 DEF With
  <2>6. Silence.ask.ctx = NoContext /\ Silence.kind = "none"
    BY DEF Silence, NoAsk
  <2> QED
    BY <2>3, <2>4, <2>5, <2>6 DEF ReadOK, Reading
<1>12. CASE ReadHits(t) \/ ReadMisses(t) \/ ReadUncached(t) \/ ReadComputes(t) \/ ReadStores(t)
  <2>1. PICK ask : ask = job[t].ask
    OBVIOUS
  <2>2. job[t].pc \in Reading /\ ask \in Asks /\ ask.ctx \in DOMAIN expected \cup {NoContext}
    BY <1>1, <1>12, <2>1 DEF ReadOK, ReadHits, ReadMisses, ReadUncached, ReadComputes, ReadStores, At,
       Reading
  <2>3. ask.ctx \in DOMAIN expected' \cup {NoContext}
    BY <1>1, <2>2
  <2>4. CASE ReadHits(t)
    <3>1. Replies(t, Ok(cache[KeyOf(ask)])) /\ Hit(ask)
      BY <2>1, <2>4 DEF ReadHits
    <3>2. Has(expected', ask, Ok(cache[KeyOf(ask)]).val)
      BY <1>1, <2>2, <3>1, StoredHas DEF Ok
    <3> QED
      BY <2>1, <2>3, <3>1, <3>2, RepliedRead
  <2>5. CASE ReadUncached(t)
    <3>1. Replies(t, Result(ask))
      BY <2>1, <2>5 DEF ReadUncached
    <3>2. Result(ask).kind = "ok" => Has(expected', ask, Result(ask).val)
      BY <1>1, <2>2, ComputedHas
    <3> QED
      BY <2>1, <2>3, <3>1, <3>2, RepliedRead
  <2>6. CASE ReadStores(t)
    <3>1. Replies(t, Ok(answer[t].val)) /\ job[t].pc = "store"
      BY <2>6 DEF ReadStores, At
    <3>2. Has(expected', ask, Ok(answer[t].val).val)
      BY <1>1, <2>1, <2>2, <3>1 DEF ReadOK, Ok
    <3> QED
      BY <2>1, <2>3, <3>1, <3>2, RepliedRead
  <2>7. CASE ReadMisses(t)
    <3>1. Goes(t, Moved(job[t], "compute")) /\ CacheOn(ask) /\ answer' = answer
      BY <2>1, <2>7 DEF ReadMisses, Moved
    <3>2. PICK new : new = Moved(job[t], "compute")
      OBVIOUS
    <3>3. new.pc = "compute" /\ new.ask = ask /\ job'[t] = new
      BY <2>1, <3>1, <3>2 DEF Moved, Goes, JobsTyped, IsJob, Jobs
    <3> QED
      BY <1>1, <2>2, <2>3, <3>1, <3>3 DEF ReadOK, Reading, CacheOn
  <2>8. CASE ReadComputes(t) /\ Result(ask).kind # "ok"
    <3>1. Replies(t, Result(ask))
      BY <2>1, <2>8 DEF ReadComputes
    <3> QED
      BY <2>1, <2>3, <2>8, <3>1, RepliedRead
  <2>9. CASE ReadComputes(t) /\ Result(ask).kind = "ok"
    <3>1. /\ Goes(t, Moved(job[t], "store")) /\ job[t].pc = "compute"
          /\ answer' = [answer EXCEPT ![t] = [ask |-> ask, kind |-> "computed",
                                              val |-> Result(ask).val]]
      BY <2>1, <2>9 DEF ReadComputes, Moved, At
    <3>2. PICK new : new = Moved(job[t], "store")
      OBVIOUS
    <3>3. new.pc = "store" /\ new.ask = ask /\ job'[t] = new
      BY <2>1, <3>1, <3>2 DEF Moved, Goes, JobsTyped, IsJob, Jobs
    <3>4. answer'[t] = [ask |-> ask, kind |-> "computed", val |-> Result(ask).val]
      BY <3>1
    <3>5. Has(expected', ask, Result(ask).val) /\ CacheOn(ask)
      BY <1>1, <2>1, <2>2, <2>9, <3>1, ComputedHas DEF ReadOK
    <3> QED
      BY <2>2, <2>3, <3>3, <3>4, <3>5 DEF ReadOK, Reading, CacheOn
  <2> QED
    BY <1>12, <2>4, <2>5, <2>6, <2>7, <2>8, <2>9
<1> QED
  BY <1>4, <1>5, <1>6, <1>7, <1>8, <1>9, <1>10, <1>11, <1>12
     DEF ThreadStep, Commit, Push, Pushing, Read

LEMMA CacheStep ==
    ASSUME RepoOK, JobsTyped, PushesOK, ReadsOK, CacheOK, ExpectedOK,
           NEW t \in Threads, ThreadStep(t) \/ Killed(t)
    PROVE  CacheOK'
<1>1. /\ ReadOK(t) /\ DOMAIN expected \subseteq DOMAIN expected'
      /\ \A ask, val : ask.ctx \in DOMAIN expected \cup {NoContext} /\ Has(expected, ask, val) => Has(expected', ask, val)
  BY ExpectedSteps, HasLater DEF ReadsOK
<1>2. CASE ReadStores(t)
  <2>1. PICK ask, val : ask = job[t].ask /\ val = answer[t].val
    OBVIOUS
  <2>2. /\ ask \in Asks /\ ask.ctx \in DOMAIN expected \cup {NoContext} /\ Has(expected, ask, val)
        /\ cache' = With(cache, KeyOf(ask), val)
    BY <1>1, <1>2, <2>1 DEF ReadOK, ReadStores, At, Reading
  <2>3. PICK k : k = KeyOf(ask)
    OBVIOUS
  <2>4. k \in Keys /\ k.ctx \in DOMAIN expected \cup {NoContext} /\ Has(expected, k, val)
    BY <2>2, <2>3, KeysHave DEF Has
  <2>5. /\ DOMAIN cache' = DOMAIN cache \cup {k} /\ cache'[k] = val
        /\ \A x \in DOMAIN cache \ {k} : cache'[x] = cache[x]
    BY <2>2, <2>3 DEF With
  <2> QED
    BY <1>1, <2>4, <2>5 DEF CacheOK
<1>3. CASE ~ReadStores(t)
  <2>1. cache' = cache
    BY <1>3 DEF ThreadStep, Commit, CallsCommit, CommitLands, CommitRaises, Pull, PullFails, Bookmark,
       Strip, Push, CallsPush, NothingToPush, PushForbidden, PushLocks, PushReports, PushRefused,
       PushLands, Announces, AnnounceFails, AnnouncesNothing, Read, CallsRead, ReadHits, ReadMisses, ReadUncached,
       ReadComputes, Killed, Keeps
  <2> QED
    BY <1>1, <2>1 DEF CacheOK
<1> QED
  BY <1>2, <1>3

---------------------------------------------------------------------------
LEMMA LockStep ==
    ASSUME lock \in Threads \cup {NoThread}, NEW t \in Threads, ThreadStep(t) \/ Killed(t)
    PROVE  lock' \in Threads \cup {NoThread}
<1>1. lock' = lock \/ lock' = NoThread \/ lock' = t
  BY DEF ThreadStep, Commit, CallsCommit, CommitLands, CommitRaises, Pull, PullFails, Bookmark,
     Strip, Push, CallsPush, NothingToPush, PushForbidden, PushLocks, PushReports, PushRefused,
     PushLands, Announces, AnnounceFails, AnnouncesNothing, Read, CallsRead, ReadHits, ReadMisses, ReadUncached,
     ReadComputes, ReadStores, Killed
<1> QED
  BY <1>1

LEMMA CountersStep ==
    ASSUME CountersTyped, [Next]_vars
    PROVE  CountersTyped'
<1> USE BackendAssumption DEF CountersTyped
<1>1. calls \in Nat /\ reads \in Nat /\ faults \in Nat
      /\ MaxCalls \in Nat /\ MaxReads \in Nat /\ MaxFaults \in Nat
  OBVIOUS
<1> DEFINE C == calls' = calls \/ (calls < MaxCalls /\ calls' = calls + 1)
           R == reads' = reads \/ (reads < MaxReads /\ reads' = reads + 1)
           F == faults' = faults \/ (faults < MaxFaults /\ faults' = faults + 1)
<1>2. ASSUME NEW t \in Threads, Commit(t) \/ Pull(t) \/ PullFails(t) \/ Strip(t) \/ Bookmark(t)
      PROVE  C /\ R /\ F
  BY <1>2 DEF Commit, CallsCommit, CommitLands, CommitRaises, Pull, PullFails, Strip, Bookmark,
     Calls, Keeps
<1>3. ASSUME NEW t \in Threads, Push(t) PROVE C /\ R /\ F
  BY <1>3 DEF Push, CallsPush, NothingToPush, PushForbidden, PushLocks, PushReports, PushRefused,
     PushLands, Announces, AnnounceFails, AnnouncesNothing, Calls, Keeps
<1>4. ASSUME NEW t \in Threads, Read(t) PROVE C /\ R /\ F
  BY <1>4 DEF Read, CallsRead, ReadHits, ReadMisses, ReadUncached, ReadComputes, ReadStores, Calls,
     Keeps
<1>5. ASSUME NEW t \in Threads, Killed(t) PROVE C /\ R /\ F
  BY <1>5 DEF Killed
<1>6. ASSUME CacheForgets \/ UNCHANGED vars PROVE C /\ R /\ F
  BY <1>6 DEF CacheForgets, vars
<1> HIDE DEF C, R, F
<1>7. C /\ R /\ F
  <2>1. ASSUME NEW t \in Threads, ThreadStep(t) PROVE C /\ R /\ F
    BY <1>2, <1>3, <1>4, <2>1 DEF ThreadStep
  <2> QED
    BY <1>5, <1>6, <2>1 DEF Next
<1>8. calls' \in 0..MaxCalls
  BY <1>1, <1>7 DEF C
<1>9. reads' \in 0..MaxReads
  BY <1>1, <1>7 DEF R
<1>10. faults' \in 0..MaxFaults
  BY <1>1, <1>7 DEF F
<1> QED
  BY <1>8, <1>9, <1>10

LEMMA StartsOK == Init => IInv
<1> SUFFICES ASSUME Init PROVE IInv
  OBVIOUS
<1>1. RepoOK
  BY InitRepo DEF Init
<1>2. \A t \in Threads : job[t] = Idle /\ answer[t] = Silence
  BY DEF Init
<1>3. Typed
  <2>1. DOMAIN job = Threads /\ job = [t \in Threads |-> job[t]] /\ DOMAIN answer = Threads
    BY DEF Init
  <2>2. CountersTyped
    BY BackendAssumption DEF Init, CountersTyped
  <2> QED
    BY <1>2, <2>1, <2>2, IdleTyped DEF Typed, JobsTyped, Init
<1>4. PushesOK
  <2>1. Idle.pc = "idle" /\ Idle.sent = {} /\ Idle.new = <<>> /\ <<>> \in Seq(Made)
    BY DEF Idle
  <2> QED
    BY <1>2, <2>1 DEF PushesOK, PushOK, Locking
<1>5. ReadsOK
  <2>1. /\ Idle.pc = "idle" /\ Idle.ask = NoAsk
        /\ Silence.ask.ctx = NoContext /\ Silence.kind = "none"
    BY DEF Idle, Silence, NoAsk
  <2> QED
    BY <1>2, <2>1 DEF ReadsOK, ReadOK, Reading
<1>6. CacheOK /\ ExpectedOK
  BY DEF Init, CacheInit, CacheOK, ExpectedOK
<1> QED
  BY <1>1, <1>3, <1>4, <1>5, <1>6 DEF IInv

LEMMA NothingHappens ==
    ASSUME RepoOK, JobsTyped, PushesOK, ReadsOK, ExpectedOK,
           UNCHANGED <<repo, lock, job, answer, announced, expected>>
    PROVE  RepoOK' /\ JobsTyped' /\ PushesOK' /\ ReadsOK' /\ ExpectedOK'
<1>1. /\ graph' = graph /\ log' = log /\ public' = public /\ obsolete' = obsolete
      /\ bookmarks' = bookmarks /\ lock' = lock /\ job' = job /\ answer' = answer
      /\ announced' = announced /\ expected' = expected
  BY DEF repo
<1>2. Made' = Made /\ Here' = Here
  BY <1>1 DEF Made, Here, Elements
<1>3. RepoOK'
  BY <1>1, <1>2 DEF RepoOK, RepoTypeOK, GraphOK, Distinct
<1>4. JobsTyped' /\ ExpectedOK' /\ ReadsOK'
  BY <1>1, <1>2 DEF JobsTyped, ExpectedOK, ReadsOK, ReadOK, CacheOn
<1>5. ASSUME NEW t \in Threads
      PROVE  PushOK(t)'
  <2>1. Sent(t)' = Sent(t) /\ Told(t)' = Told(t)
    BY <1>1, SentSame, ReportSame
  <2> QED
    BY <1>1, <1>2, <2>1 DEF PushesOK, PushOK
<1> QED
  BY <1>3, <1>4, <1>5 DEF PushesOK

LEMMA Inductive == IInv /\ [Next]_vars => IInv'
<1> SUFFICES ASSUME IInv, [Next]_vars PROVE IInv'
  OBVIOUS
<1> USE DEF IInv, Typed
<1>1. CountersTyped'
  BY CountersStep
<1>2. ASSUME NEW t \in Threads, ThreadStep(t) \/ Killed(t)
      PROVE  IInv'
  <2>1. RepoOK' /\ JobsTyped' /\ PushesOK' /\ \A s \in Threads \ {t} : job'[s] = job[s]
    BY <1>2, RepoSteps, PushesStep
  <2>2. DOMAIN answer' = Threads /\ \A s \in Threads \ {t} : answer'[s] = answer[s]
    BY <1>2, AnswersOfOthers
  <2>3. /\ ExpectedOK' /\ DOMAIN expected \subseteq DOMAIN expected' /\ CacheOK'
        /\ \A ask, val : ask.ctx \in DOMAIN expected \cup {NoContext} /\ Has(expected, ask, val)
                            => Has(expected', ask, val)
    BY <1>2, ExpectedSteps, HasLater, CacheStep
  <2>4. ReadsOK'
    <3>1. ReadOK(t)'
      BY <1>2, ReadStep
    <3>2. ASSUME NEW s \in Threads, s # t
          PROVE  ReadOK(s)'
      <4>1. ReadOK(s) /\ job'[s] = job[s] /\ answer'[s] = answer[s]
        BY <2>1, <2>2, <3>2 DEF ReadsOK
      <4>2. PICK j, got : j = job[s] /\ got = answer[s]
        OBVIOUS
      <4>3. /\ j.pc \in Reading => j.ask \in Asks /\ j.ask.ctx \in DOMAIN expected \cup {NoContext}
            /\ j.pc \in {"compute", "store"} => CacheOn(j.ask)
            /\ j.pc \notin Reading => j.ask = NoAsk
            /\ j.pc = "store" => Has(expected, j.ask, got.val)
            /\ got.ask.ctx \in DOMAIN expected \cup {NoContext}
            /\ got.kind = "ok" => Has(expected, got.ask, got.val)
        BY <4>1, <4>2 DEF ReadOK
      <4>4. /\ j.pc \in Reading => j.ask.ctx \in DOMAIN expected' \cup {NoContext}
            /\ j.pc = "store" => Has(expected', j.ask, got.val)
            /\ got.ask.ctx \in DOMAIN expected' \cup {NoContext}
            /\ got.kind = "ok" => Has(expected', got.ask, got.val)
        BY <2>3, <4>3 DEF Reading
      <4> QED
        BY <4>1, <4>2, <4>3, <4>4 DEF ReadOK, CacheOn
    <3> QED
      BY <3>1, <3>2 DEF ReadsOK
  <2>5. lock' \in Threads \cup {NoThread}
    BY <1>2, LockStep
  <2> QED
    BY <1>1, <2>1, <2>2, <2>3, <2>4, <2>5
<1>3. CASE CacheForgets
  <2>1. CacheOK' /\ lock' = lock /\ answer' = answer
    BY <1>3 DEF CacheForgets, Forgets, CacheOK
  <2>2. RepoOK' /\ JobsTyped' /\ PushesOK' /\ ReadsOK' /\ ExpectedOK'
    BY <1>3, NothingHappens DEF CacheForgets
  <2> QED
    BY <1>1, <2>1, <2>2
<1>4. CASE UNCHANGED vars
  <2>1. CacheOK' /\ lock' = lock /\ answer' = answer
    BY <1>4 DEF vars, CacheOK
  <2>2. RepoOK' /\ JobsTyped' /\ PushesOK' /\ ReadsOK' /\ ExpectedOK'
    BY <1>4, NothingHappens DEF vars
  <2> QED
    BY <1>1, <2>1, <2>2
<1> QED
  BY <1>2, <1>3, <1>4 DEF Next

LEMMA Invariant == Spec => []IInv
BY StartsOK, Inductive, PTL DEF Spec

---------------------------------------------------------------------------
(* Type correctness, for any number of threads, commits and branches.      *)
THEOREM TypeCorrect == Spec => []TypeOK
<1>1. IInv => TypeOK
  <2> SUFFICES ASSUME IInv PROVE TypeOK
    OBVIOUS
  <2>1. RepoTypeOK /\ Here \subseteq Made
    BY Basics DEF IInv, RepoOK
  <2>2. DOMAIN cache \subseteq Keys /\ announced \subseteq Made /\ DOMAIN expected \subseteq Contexts
    BY <2>1 DEF IInv, CacheOK, ExpectedOK
  <2>3. ASSUME NEW t \in Threads
        PROVE  /\ job[t].pc \in PCs /\ job[t].ask \in Asks \cup {NoAsk} /\ job[t].edit \in Edits
               /\ job[t].sent \subseteq Made /\ job[t].new \in Seq(Made)
    <3>1. IsJob(job[t]) /\ PushOK(t)
      BY DEF IInv, Typed, JobsTyped, PushesOK
    <3>2. job[t].pc \in PCs /\ job[t].ask \in AskSet /\ job[t].edit \in Edits
      BY <3>1 DEF IsJob, Jobs
    <3> QED
      BY <3>1, <3>2 DEF PushOK, AskSet
  <2> QED
    BY <2>1, <2>2, <2>3 DEF IInv, Typed, CountersTyped, TypeOK
<1> QED
  BY <1>1, Invariant, PTL

(* Whoever takes a new context after it was told of commits finds them     *)
(* among the ids it is answered, whatever the cache holds (hg.py:561-569). *)
THEOREM Seen == Spec => []SeenOnceAnnounced
<1>1. IInv => SeenOnceAnnounced
  BY DEF IInv, ReadsOK, ReadOK, Has, SeenOnceAnnounced
<1> QED
  BY <1>1, Invariant, PTL

(* The place of the first pushed commit is where the changelog ended.      *)
LEMMA PlaceOfFirst ==
    ASSUME NEW S, NEW l \in Seq(S), Distinct(l), NEW i \in DOMAIN l
    PROVE  Rev(l, l[i]) = i
BY DEF Rev, Distinct

LEMMA Landing ==
    ASSUME IInv, [Next]_vars, NEW t \in Threads, At(t, "pretxnchangegroup"), log' # log
    PROVE  PushLands(t)
<1>1. PICK s \in Threads : ThreadStep(s) \/ Killed(s)
  BY DEF Next, CacheForgets, vars, repo
<1>2. s = t
  <2>1. job[t].pc \in Locking
    BY DEF At, Locking
  <2> QED
    BY <1>1, <2>1, LockHolds DEF IInv
<1>3. Writes(t)
  BY <1>1, <1>2, Writers DEF repo
<1> QED
  <2>1. lock = t
    BY DEF IInv, PushesOK, PushOK, At, Locking
  <2> QED
    BY <1>3, <2>1, BackendAssumption DEF Writes, CommitLands, Pull, Strip, Bookmark, At, Free, Calls

(* What lands is what RhodeCode has approved: every pushed commit counted  *)
(* on its branch, the last of each branch named, nothing in between, for   *)
(* whoever may write (hooks.py:290-353).                                   *)
THEOREM Approved == Spec => LandsAsApproved
<1> DEFINE Right(t) ==
        At(t, "pretxnchangegroup") /\ log' # log =>
            LET report == job[t].report
                Added(b) == {r \in DOMAIN log' \ DOMAIN log : graph[log'[r]].branch = b}
            IN  /\ \A b \in Branches :
                      /\ report.total[b] = Cardinality(Added(b))
                      /\ Added(b) # {} =>
                            \E r \in Added(b) : /\ report.last[b] = log'[r]
                                               /\ \A x \in Added(b) : x <= r
                /\ HistoryOf(job[t].sent) \subseteq Elements(log')
                /\ PermittedOver(job[t].way, job[t].write)
<1>1. ASSUME IInv, [Next]_vars, NEW t \in Threads, At(t, "pretxnchangegroup"), log' # log
      PROVE  /\ \A b \in Branches :
                   LET Added == {r \in DOMAIN log' \ DOMAIN log : graph[log'[r]].branch = b} IN
                   /\ job[t].report.total[b] = Cardinality(Added)
                   /\ Added # {} => \E r \in Added : /\ job[t].report.last[b] = log'[r]
                                                      /\ \A x \in Added : x <= r
             /\ HistoryOf(job[t].sent) \subseteq Elements(log')
             /\ PermittedOver(job[t].way, job[t].write)
  <2>1. PushLands(t)
    BY <1>1, Landing
  <2>2. PICK l, first : l = Pending(t) /\ first = job[t].new[1]
    OBVIOUS
  <2>3. log' = l
    BY <2>1, <2>2 DEF PushLands
  <2>4. PICK new : new = job[t].new
    OBVIOUS
  <2>5. /\ RepoOK /\ new \in Seq(Made) /\ new # <<>> /\ Distinct(new)
        /\ Elements(new) = Sent(t) \ Here /\ PermittedOver(job[t].way, job[t].write)
        /\ job[t].report.total = Told(t).total /\ job[t].report.last = Told(t).last
    BY <1>1, <2>4 DEF IInv, PushesOK, PushOK, At, Locking
  <2>6. log \in Seq(Made) /\ Distinct(log) /\ l = log \o new /\ first = new[1]
    BY <2>2, <2>4, <2>5 DEF RepoOK, RepoTypeOK, Pending
  <2>7. Distinct(l)
    BY <2>5, <2>6, DistinctConcatenated DEF Here
  <2>8. /\ l \in Seq(Made) /\ Len(l) = Len(log) + Len(new) /\ DOMAIN l = 1..Len(l)
        /\ DOMAIN log = 1..Len(log) /\ Len(log) \in Nat /\ Len(new) \in Nat /\ 1 \in DOMAIN new
        /\ l[Len(log) + 1] = first /\ Len(log) + 1 \in DOMAIN l
        /\ Elements(l) = Here \cup Elements(new)
    <3>1. /\ Len(log) \in Nat /\ Len(new) \in Nat /\ DOMAIN new = 1..Len(new) /\ Len(new) # 0
          /\ DOMAIN log = 1..Len(log)
      BY <2>5, <2>6
    <3>2. 1 \in DOMAIN new
      BY <3>1
    <3> QED
      BY <2>5, <2>6, <3>1, <3>2, Concatenated DEF Here
  <2>9. RevRange(l, first) = (Len(log) + 1)..Len(l)
    BY <2>7, <2>8, PlaceOfFirst DEF RevRange
  <2>10. DOMAIN log' \ DOMAIN log = (Len(log) + 1)..Len(l)
    BY <2>3, <2>8
  <2>11. ASSUME NEW b \in Branches
         PROVE  LET Added == {r \in DOMAIN log' \ DOMAIN log : graph[log'[r]].branch = b} IN
                /\ job[t].report.total[b] = Cardinality(Added)
                /\ Added # {} => \E r \in Added : /\ job[t].report.last[b] = log'[r]
                                                   /\ \A x \in Added : x <= r
    <3> DEFINE On == {r \in RevRange(l, first) : graph[l[r]].branch = b}
    <3>1. On = {r \in DOMAIN log' \ DOMAIN log : graph[log'[r]].branch = b}
      BY <2>3, <2>9, <2>10
    <3>2. /\ Told(t).total[b] = Cardinality(On)
          /\ Told(t).last[b] = IF On = {} THEN None
                               ELSE l[CHOOSE r \in On : \A x \in On : x <= r]
      BY <2>2 DEF Told, Report
    <3>3. On \subseteq 1..Len(l) /\ Len(l) \in Nat
      BY <2>8, <2>9
    <3> HIDE DEF On
    <3>4. On # {} => \E r \in On : Told(t).last[b] = l[r] /\ \A x \in On : x <= r
      <4>1. SUFFICES ASSUME On # {}
                     PROVE  \E r \in On : Told(t).last[b] = l[r] /\ \A x \in On : x <= r
        OBVIOUS
      <4>2. \E r \in On : \A x \in On : x <= r
        BY <3>3, <4>1, Greatest
      <4> QED
        BY <3>2, <4>1, <4>2
    <3> QED
      BY <2>3, <2>5, <3>1, <3>2, <3>4
  <2>12. HistoryOf(job[t].sent) \subseteq Elements(log')
    BY <2>3, <2>5, <2>8 DEF Sent
  <2> QED
    BY <2>5, <2>11, <2>12
<1>2. IInv /\ [Next]_vars => \A t \in Threads : Right(t)
  BY <1>1
<1>3. IInv /\ [Next]_vars => [\A t \in Threads : Right(t)]_vars
  BY <1>2
<1> QED
  BY <1>3, Invariant, PTL DEF Spec, LandsAsApproved

(* When post_push is answered, RhodeCode has been told of every commit the *)
(* push has landed, unless something was stripped from under it before     *)
(* post_push read (hooks.py:356-384).                                      *)
THEOREM Announced == Spec => LandedIsAnnounced
<1> DEFINE Heard(t) ==
        /\ At(t, "changegroup") /\ job'[t].pc = "idle"
        /\ answer'[t].kind \notin {"none", "warned"} /\ StillThere(t)
        => Elements(job[t].new) \subseteq answer'[t].val
<1>1. ASSUME IInv, [Next]_vars, NEW t \in Threads,
             At(t, "changegroup"), job'[t].pc = "idle", answer'[t].kind \notin {"none", "warned"},
             StillThere(t)
      PROVE  Elements(job[t].new) \subseteq answer'[t].val
  <2>1. PICK s \in Threads : ThreadStep(s) \/ Killed(s)
    BY <1>1 DEF Next, CacheForgets, vars, At
  <2>2. s = t
    BY <1>1, <2>1, PushesStep DEF At, IInv, Typed
  <2>3. DOMAIN job = Threads /\ DOMAIN answer = Threads
    BY <1>1 DEF IInv, Typed, JobsTyped
  <2>4. ~Killed(t)
    BY <1>1, <2>3 DEF Killed, Silence
  <2>5. ~AnnounceFails(t)
    BY <1>1, <2>3 DEF AnnounceFails, Replies
  <2>6. Announces(t) \/ AnnouncesNothing(t)
    <3>1. job[t].pc = "changegroup"
      BY <1>1 DEF At
    <3> QED
      BY <2>1, <2>2, <2>4, <2>5, <3>1 DEF ThreadStep, Commit, CallsCommit, CommitLands, CommitRaises, Pull,
         PullFails, Bookmark, Strip, Push, CallsPush, NothingToPush, PushForbidden, PushLocks,
         PushReports, PushRefused, PushLands, Read, CallsRead, ReadHits, ReadMisses, ReadUncached,
         ReadComputes, ReadStores, Calls, At
  <2>7. PICK new, n : new = job[t].new /\ n = job[t].start
    OBVIOUS
  <2>8. /\ IsJob(job[t]) /\ n \in Nat /\ new \in Seq(Made) /\ new # <<>>
        /\ log \in Seq(Made) /\ Distinct(log)
    <3>1. IsJob(job[t]) /\ PushOK(t) /\ RepoOK
      BY <1>1 DEF IInv, Typed, JobsTyped, PushesOK
    <3>2. job[t].start \in Nat
      BY <3>1 DEF IsJob, Jobs
    <3> QED
      BY <1>1, <2>7, <3>1, <3>2 DEF PushOK, At, RepoOK, RepoTypeOK
  <2>9. /\ Len(new) \in Nat /\ Len(log) \in Nat /\ DOMAIN new = 1..Len(new) /\ 1 \in DOMAIN new
        /\ DOMAIN log = 1..Len(log)
    <3>1. /\ Len(new) \in Nat /\ Len(log) \in Nat /\ DOMAIN new = 1..Len(new)
          /\ DOMAIN log = 1..Len(log) /\ Len(new) # 0
      BY <2>8
    <3> QED
      BY <3>1
  <2>10. n + Len(new) <= Len(log) /\ \A i \in DOMAIN new : log[n + i] = new[i]
    BY <1>1, <2>7 DEF StillThere
  <2>11. n + 1 \in DOMAIN log /\ log[n + 1] = new[1]
    BY <2>8, <2>9, <2>10
  <2>12. new[1] \in Here /\ Rev(log, new[1]) = n + 1
    <3>1. Rev(log, log[n + 1]) = n + 1
      BY <2>8, <2>11, PlaceOfFirst
    <3> QED
      BY <2>11, <3>1 DEF Here, Elements
  <2>13. Announces(t)
    BY <2>6, <2>7, <2>12 DEF AnnouncesNothing
  <2>14. {log[r] : r \in RevRange(log, new[1])} \subseteq answer'[t].val
    BY <2>3, <2>7, <2>13 DEF Announces, Replies, SinceFirst
  <2>15. ASSUME NEW i \in DOMAIN new
         PROVE  new[i] \in answer'[t].val
    <3>1. n + i \in RevRange(log, new[1])
      BY <2>8, <2>9, <2>10, <2>12 DEF RevRange
    <3> QED
      BY <2>10, <2>14, <3>1
  <2> QED
    BY <2>7, <2>15 DEF Elements
<1>2. IInv /\ [Next]_vars => [\A t \in Threads : Heard(t)]_vars
  BY <1>1
<1> QED
  BY <1>2, Invariant, PTL DEF Spec, LandedIsAnnounced

---------------------------------------------------------------------------
(* What holds of 0 and of the successor of whatever it holds of holds of   *)
(* every number; a set stands for the predicate.                           *)
LEMMA Induction ==
    ASSUME NEW S, 0 \in S, \A n \in Nat : n \in S => n + 1 \in S
    PROVE  Nat \subseteq S
<1> SUFFICES ASSUME Nat \ S # {} PROVE FALSE
  OBVIOUS
<1>1. PICK n \in Nat \ S : \A m \in Nat \ S : ~(<<m, n>> \in OpToRel(<, Nat))
  <2>1. Nat \ S \subseteq Nat
    OBVIOUS
  <2> QED
    BY <2>1, NatLessThanWellFounded, WFMin, Zenon
<1>2. \A m \in Nat \ S : ~(m < n)
  BY <1>1 DEF OpToRel
<1>3. n # 0 /\ n - 1 \in Nat /\ (n - 1) + 1 = n
  OBVIOUS
<1>4. n - 1 \in S
  BY <1>2, <1>3
<1> QED
  BY <1>3, <1>4

---------------------------------------------------------------------------
(* One pass over a changelog in which parents come before their children   *)
(* finds the heads of a line.                                              *)
ParentsBefore(l) == \A x, y \in DOMAIN l : l[y] \in graph[l[x]].parents => y < x
SameBranch(l, x, p) == graph[l[x]].branch = graph[l[p]].branch
ParentIn(l, x, R) == \E y \in R : l[y] \in graph[l[x]].parents
HeadsIn(l, R) == {x \in R : \A y \in R : l[x] \notin graph[l[y]].parents}

LEMMA LineIs ==
    ASSUME NEW S, NEW l \in Seq(S), ParentsBefore(l), NEW p \in DOMAIN l
    PROVE  /\ Line(l, p) \subseteq p..Len(l) /\ p \in Line(l, p)
           /\ \A x \in DOMAIN l :
                 x \in Line(l, p) <=> x = p \/ (SameBranch(l, x, p) /\ ParentIn(l, x, Line(l, p)))
<1>1. PICK L, n, D : L = Line(l, p) /\ n = Len(l) /\ D = DOMAIN l
  OBVIOUS
<1>2. n \in Nat /\ D = 1..n /\ p \in D
  BY <1>1
<1> DEFINE From(R) == OnBranchFrom(l, p, R)
<1>3. \A R : From(R) <=> /\ p \in R
                         /\ \A x \in D : SameBranch(l, x, p) /\ ParentIn(l, x, R) => x \in R
  BY <1>1 DEF OnBranchFrom, SameBranch, ParentIn
<1>4. L = {x \in D : \A R \in SUBSET D : From(R) => x \in R}
  BY <1>1 DEF Line
<1> HIDE DEF From
<1>5. p \in L /\ L \subseteq D
  BY <1>2, <1>3, <1>4
<1>6. ASSUME NEW x \in D, SameBranch(l, x, p), ParentIn(l, x, L)
      PROVE  x \in L
  <2>1. ASSUME NEW R \in SUBSET D, From(R)
        PROVE  x \in R
    <3>1. L \subseteq R
      BY <1>4, <2>1
    <3>2. ParentIn(l, x, R)
      BY <1>6, <3>1 DEF ParentIn
    <3> QED
      BY <1>3, <1>6, <2>1, <3>2
  <2> QED
    BY <1>4, <2>1
<1>7. ASSUME NEW R \in SUBSET D, From(R)
      PROVE  L \subseteq R
  BY <1>4, <1>7
<1>8. L \subseteq p..n
  <2>1. PICK R : R = p..n
    OBVIOUS
  <2>2. R \in SUBSET D /\ p \in R
    BY <1>2, <2>1
  <2>3. ASSUME NEW x \in D, ParentIn(l, x, R)
        PROVE  x \in R
    <3>1. PICK y \in R : l[y] \in graph[l[x]].parents
      BY <2>3 DEF ParentIn
    <3>2. y < x
      BY <1>1, <2>2, <3>1 DEF ParentsBefore
    <3> QED
      BY <1>2, <2>1, <3>2
  <2>4. From(R)
    BY <1>3, <2>2, <2>3
  <2> QED
    BY <1>7, <2>1, <2>2, <2>4
<1>9. ASSUME NEW x \in L, x # p
      PROVE  SameBranch(l, x, p) /\ ParentIn(l, x, L)
  <2> SUFFICES ASSUME ~(SameBranch(l, x, p) /\ ParentIn(l, x, L))
               PROVE  FALSE
    OBVIOUS
  <2>1. PICK R : R = L \ {x}
    OBVIOUS
  <2>2. R \in SUBSET D /\ p \in R
    BY <1>5, <1>9, <2>1
  <2>3. ASSUME NEW z \in D, SameBranch(l, z, p), ParentIn(l, z, R)
        PROVE  z \in R
    <3>1. ParentIn(l, z, L)
      BY <2>1, <2>3 DEF ParentIn
    <3>2. z \in L /\ z # x
      BY <1>6, <2>3, <3>1
    <3> QED
      BY <2>1, <3>2
  <2>4. From(R)
    BY <1>3, <2>2, <2>3
  <2> QED
    BY <1>7, <1>9, <2>1, <2>2, <2>4
<1>10. ASSUME NEW x \in D
       PROVE  x \in L <=> x = p \/ (SameBranch(l, x, p) /\ ParentIn(l, x, L))
  <2>1. x \in L /\ x # p => SameBranch(l, x, p) /\ ParentIn(l, x, L)
    BY <1>9
  <2>2. SameBranch(l, x, p) /\ ParentIn(l, x, L) => x \in L
    BY <1>6
  <2> QED
    BY <1>5, <2>1, <2>2
<1>11. \A x \in D : x \in L <=> x = p \/ (SameBranch(l, x, p) /\ ParentIn(l, x, L))
  BY <1>10, Zenon
<1> QED
  BY <1>1, <1>5, <1>8, <1>11

\* What the pass has found when it has come to a place.
Scanned(l, p) ==
    [x \in p..Len(l) |-> [reachable |-> Line(l, p) \cap p..x, heads |-> HeadsIn(l, Line(l, p) \cap p..x)]]

LEMMA ScanGoesOn ==
    ASSUME NEW S, NEW l \in Seq(S), ParentsBefore(l), NEW p \in DOMAIN l, NEW x \in (p + 1)..Len(l)
    PROVE  Scanned(l, p)[x] = ScanStep(l, graph[l[p]].branch, x, Scanned(l, p)[x - 1])
<1>1. PICK L, n : L = Line(l, p) /\ n = Len(l)
  OBVIOUS
<1>2. n \in Nat /\ DOMAIN l = 1..n /\ p \in 1..n /\ x \in (p + 1)..n /\ x \in p..n /\ x - 1 \in p..n
  BY <1>1
<1>3. /\ L \subseteq p..n
      /\ \A y \in DOMAIN l : y \in L <=> y = p \/ (SameBranch(l, y, p) /\ ParentIn(l, y, L))
  BY <1>1, LineIs
<1>4. PICK R, Q, H, G, s : /\ R = L \cap p..(x - 1) /\ Q = L \cap p..x
                           /\ H = HeadsIn(l, R) /\ G = HeadsIn(l, Q) /\ s = Scanned(l, p)[x - 1]
  OBVIOUS
<1>5. s.reachable = R /\ s.heads = H /\ Scanned(l, p)[x] = [reachable |-> Q, heads |-> G]
      /\ s = [reachable |-> R, heads |-> H]
  BY <1>1, <1>2, <1>4 DEF Scanned
<1>6. PICK old : old = {i \in R : l[i] \in graph[l[x]].parents}
  OBVIOUS
<1>7. /\ x \notin R /\ R \subseteq DOMAIN l /\ x \in DOMAIN l /\ x # p
      /\ Q = IF x \in L THEN R \cup {x} ELSE R
  BY <1>2, <1>3, <1>4
<1>8. \A y \in DOMAIN l : l[y] \in graph[l[x]].parents => y < x
  BY <1>7 DEF ParentsBefore
<1>9. ParentIn(l, x, L) <=> old # {}
  <2>1. ASSUME NEW y \in L, l[y] \in graph[l[x]].parents
        PROVE  y \in old
    <3>1. y \in DOMAIN l /\ y \in p..n
      BY <1>2, <1>3
    <3>2. y < x
      BY <1>8, <2>1, <3>1
    <3> QED
      BY <1>2, <1>4, <1>6, <2>1, <3>1, <3>2
  <2>2. old \subseteq L
    BY <1>4, <1>6
  <2> QED
    BY <1>6, <2>1, <2>2 DEF ParentIn
<1>10. x \in L <=> SameBranch(l, x, p) /\ old # {}
  BY <1>3, <1>7, <1>9
<1>11. CASE x \in L
  <2>1. Q = R \cup {x}
    BY <1>7, <1>11
  <2>2. l[x] \notin graph[l[x]].parents
    BY <1>2, <1>7, <1>8
  <2>3. ASSUME NEW y \in R
        PROVE  l[x] \notin graph[l[y]].parents
    <3>1. l[x] \in graph[l[y]].parents => x < y
      BY <1>7 DEF ParentsBefore
    <3>2. y <= x - 1 /\ x \in Int /\ y \in Int
      BY <1>2, <1>4
    <3> QED
      BY <3>1, <3>2
  <2>4. G = (H \ old) \cup {x}
    BY <1>4, <1>6, <2>1, <2>2, <2>3 DEF HeadsIn
  <2>5. graph[l[x]].branch = graph[l[p]].branch /\ old # {}
    BY <1>10, <1>11 DEF SameBranch
  <2>6. ScanStep(l, graph[l[p]].branch, x, s) = [reachable |-> R \cup {x}, heads |-> (H \ old) \cup {x}]
    BY <1>5, <1>6, <2>5 DEF ScanStep
  <2> QED
    BY <1>4, <1>5, <2>1, <2>4, <2>6
<1>12. CASE x \notin L
  <2>1. Q = R /\ G = H
    BY <1>4, <1>7, <1>12
  <2>2. graph[l[x]].branch # graph[l[p]].branch \/ old = {}
    BY <1>10, <1>12 DEF SameBranch
  <2>3. ScanStep(l, graph[l[p]].branch, x, s) = s
    BY <1>5, <1>6, <2>2 DEF ScanStep
  <2> QED
    BY <1>4, <1>5, <2>1, <2>3
<1> QED
  BY <1>11, <1>12

LEMMA ScanStarts ==
    ASSUME NEW S, NEW l \in Seq(S), ParentsBefore(l), NEW p \in DOMAIN l
    PROVE  /\ p \in p..Len(l) /\ Len(l) \in p..Len(l) /\ p \in Nat /\ Len(l) \in Nat
           /\ Scanned(l, p)[p] = [reachable |-> {p}, heads |-> {p}]
           /\ Scanned(l, p)[Len(l)].heads = LineHeads(l, p)
<1>1. PICK L, n : L = Line(l, p) /\ n = Len(l)
  OBVIOUS
<1>2. n \in Nat /\ p \in Nat /\ p \in 1..n /\ p \in p..n /\ n \in p..n
  BY <1>1
<1>3. L \subseteq p..n /\ p \in L
  BY <1>1, LineIs
<1>4. L \cap p..p = {p} /\ L \cap p..n = L
  BY <1>2, <1>3
<1>5. HeadsIn(l, {p}) = {p}
  <2>1. l[p] \in graph[l[p]].parents => p < p
    BY DEF ParentsBefore
  <2> QED
    BY <1>2, <2>1 DEF HeadsIn
<1>6. Scanned(l, p)[p] = [reachable |-> {p}, heads |-> {p}]
  BY <1>1, <1>2, <1>4, <1>5 DEF Scanned
<1>7. Scanned(l, p)[n].heads = LineHeads(l, p)
  BY <1>1, <1>2, <1>4 DEF Scanned, HeadsIn, LineHeads
<1> QED
  BY <1>1, <1>2, <1>6, <1>7

LEMMA ScanFinds ==
    ASSUME NEW S, NEW l \in Seq(S), ParentsBefore(l), NEW p \in DOMAIN l
    PROVE  ScanHeads(l, p) = LineHeads(l, p)
<1>1. PICK n, g, first, b : /\ n = Len(l) /\ g = Scanned(l, p)
                            /\ first = [reachable |-> {p}, heads |-> {p}] /\ b = graph[l[p]].branch
  OBVIOUS
<1> DEFINE R(h) == h = [x \in p..n |-> IF x = p THEN first ELSE ScanStep(l, b, x, h[x - 1])]
<1>2. n \in Nat /\ p \in Nat /\ n \in p..n /\ g[p] = first /\ g[n].heads = LineHeads(l, p)
  BY <1>1, ScanStarts
<1>3. \A x \in (p + 1)..n : g[x] = ScanStep(l, b, x, g[x - 1])
  BY <1>1, ScanGoesOn
<1>4. g = [x \in p..n |-> g[x]]
  BY <1>1 DEF Scanned
<1>5. R(g)
  <2>1. \A x \in p..n : x = p \/ x \in (p + 1)..n
    BY <1>2
  <2>2. \A x \in p..n : g[x] = IF x = p THEN first ELSE ScanStep(l, b, x, g[x - 1])
    BY <1>2, <1>3, <2>1, Zenon
  <2>3. [x \in p..n |-> g[x]] = [x \in p..n |-> IF x = p THEN first ELSE ScanStep(l, b, x, g[x - 1])]
    BY <2>2, Zenon
  <2> QED
    BY <1>4, <2>3, Zenon
<1>6. PICK scan : scan = CHOOSE h : R(h)
  OBVIOUS
<1>7. R(scan)
  BY <1>5, <1>6, Zenon
<1>8. ScanHeads(l, p) = scan[n].heads
  BY <1>1, <1>6, Zenon DEF ScanHeads
<1>9. \A x \in p..n : scan[x] = IF x = p THEN first ELSE ScanStep(l, b, x, scan[x - 1])
  BY <1>7, Zenon
<1> HIDE DEF R
<1> DEFINE Met == {k \in Nat : p + k <= n => scan[p + k] = g[p + k]}
<1>10. 0 \in Met
  <2>1. p + 0 = p /\ p \in p..n
    BY <1>2
  <2> QED
    BY <1>2, <1>9, <2>1
<1>11. ASSUME NEW k \in Nat, k \in Met
       PROVE  k + 1 \in Met
  <2> SUFFICES ASSUME p + (k + 1) <= n
               PROVE  scan[p + (k + 1)] = g[p + (k + 1)]
    OBVIOUS
  <2>1. PICK x : x = p + (k + 1)
    OBVIOUS
  <2>2. x \in p..n /\ x # p /\ x \in (p + 1)..n /\ x - 1 = p + k /\ p + k <= n
    BY <1>2, <2>1
  <2>3. scan[x - 1] = g[x - 1]
    BY <1>11, <2>2
  <2>4. scan[x] = ScanStep(l, b, x, scan[x - 1]) /\ g[x] = ScanStep(l, b, x, g[x - 1])
    BY <1>3, <1>9, <2>2
  <2> QED
    BY <2>1, <2>3, <2>4
<1>12. Nat \subseteq Met
  <2> HIDE DEF Met
  <2> QED
    BY <1>10, <1>11, Induction
<1>13. scan[n] = g[n]
  <2>1. n - p \in Nat /\ p + (n - p) = n
    BY <1>2
  <2> QED
    BY <1>12, <2>1
<1> QED
  BY <1>2, <1>8, <1>13

---------------------------------------------------------------------------
(* Parents come before their children: in the histories, in the changelog, *)
(* which has with a commit what it descends from, and in what is pushed;   *)
(* and what has been reported of heads is what one pass has found.         *)
ParentsFirst(l) == \A i, j \in DOMAIN l : l[i] \in History(l[j]) => i <= j
HoldsHistories(cs) == \A c \in cs : History(c) \subseteq cs
LineageOK ==
    \A c \in Made : /\ graph[c].parents \subseteq History(c) \ {c}
                    /\ HoldsHistories(History(c))
Found(t) ==
    {{Pending(t)[h] : h \in heads} :
        heads \in MultipleHeads(Pending(t), RevRange(Pending(t), job[t].new[1]))}
HeadsOK(t) ==
    /\ job[t].pc \in Locking => ParentsFirst(job[t].new)
    /\ job[t].pc = "pretxnchangegroup" /\ CheckHeads => job[t].report.heads \in Found(t)
OrderOK == LineageOK /\ ParentsFirst(log) /\ HoldsHistories(Here)
OInv == OrderOK /\ \A t \in Threads : HeadsOK(t)

LEMMA HistoriesHold ==
    ASSUME LineageOK, NEW cs \in SUBSET Made
    PROVE  HoldsHistories(HistoryOf(cs))
BY DEF LineageOK, HoldsHistories, HistoryOf

LEMMA OrdersFirst ==
    ASSUME NEW cs, NEW o \in Orders(cs)
    PROVE  ParentsFirst(o) /\ Elements(o) = cs
BY DEF Orders, ParentsFirst

LEMMA OrderedBoth ==
    ASSUME NEW s \in Seq(Made), NEW o \in Seq(Made), ParentsFirst(s), ParentsFirst(o),
           HoldsHistories(Elements(s)), Elements(s) \cap Elements(o) = {}
    PROVE  ParentsFirst(s \o o)
<1>1. PICK l, n : l = s \o o /\ n = Len(s)
  OBVIOUS
<1>2. /\ n \in Nat /\ DOMAIN s = 1..n /\ DOMAIN o = 1..Len(o) /\ Len(o) \in Nat
      /\ \A i \in DOMAIN l : \/ i \in DOMAIN s /\ l[i] = s[i]
                             \/ i - n \in DOMAIN o /\ l[i] = o[i - n]
      /\ DOMAIN l = 1..(n + Len(o))
  BY <1>1, Concatenated
<1>3. ASSUME NEW i \in DOMAIN l, NEW j \in DOMAIN l, l[i] \in History(l[j])
      PROVE  i <= j
  <2>1. CASE i \in DOMAIN s /\ l[i] = s[i] /\ j \in DOMAIN s /\ l[j] = s[j]
    BY <1>3, <2>1 DEF ParentsFirst
  <2>2. CASE i - n \in DOMAIN o /\ l[i] = o[i - n] /\ j - n \in DOMAIN o /\ l[j] = o[j - n]
    <3>1. i - n <= j - n
      BY <1>3, <2>2 DEF ParentsFirst
    <3> QED
      BY <1>2, <3>1
  <2>3. CASE i \in DOMAIN s /\ j - n \in DOMAIN o
    BY <1>2, <2>3
  <2>4. CASE i - n \in DOMAIN o /\ l[i] = o[i - n] /\ j \in DOMAIN s /\ l[j] = s[j]
    <3>1. l[j] \in Elements(s) /\ l[i] \in Elements(o)
      BY <2>4 DEF Elements
    <3>2. l[i] \in Elements(s)
      BY <1>3, <3>1 DEF HoldsHistories
    <3> QED
      BY <3>1, <3>2
  <2> QED
    BY <1>2, <2>1, <2>2, <2>3, <2>4
<1> QED
  BY <1>1, <1>3 DEF ParentsFirst

\* What goes on a changelog in order.
LEMMA OrderGoesOn ==
    ASSUME RepoOK, OrderOK, graph' = graph, NEW o \in Seq(Made), ParentsFirst(o),
           NEW cs \in SUBSET Made, Elements(o) = HistoryOf(cs) \ Here, log' = log \o o
    PROVE  OrderOK'
<1>1. log \in Seq(Made) /\ Elements(log) = Here
  BY DEF RepoOK, RepoTypeOK, Here
<1>2. ParentsFirst(log \o o)
  BY <1>1, OrderedBoth DEF OrderOK
<1>3. Elements(log \o o) = Here \cup HistoryOf(cs)
  BY <1>1, Concatenated
<1>4. HoldsHistories(Here \cup HistoryOf(cs))
  BY HistoriesHold DEF OrderOK, HoldsHistories
<1>5. Made' = Made /\ Here' = Here \cup HistoryOf(cs)
  BY <1>3 DEF Made, Here, Elements
<1> QED
  BY <1>2, <1>4, <1>5 DEF OrderOK, LineageOK, HoldsHistories, ParentsFirst, History

LEMMA OrderStart == Init => OInv
<1> SUFFICES ASSUME Init PROVE OInv
  OBVIOUS
<1>1. /\ graph \in Shapes /\ log = <<1>> /\ \A t \in Threads : job[t].pc = "idle"
  BY DEF Init, RepoInit, Idle
<1>2. /\ Len(graph) \in Nat /\ Len(graph) >= 1 /\ Made = 1..Len(graph)
      /\ \A c \in Made : /\ graph[c].parents \subseteq graph[c].history \ {c}
                         /\ c \in graph[c].history /\ graph[c].history \subseteq 1..c
                         /\ \A d \in graph[c].history : graph[d].history \subseteq graph[c].history
  <2>1. MaxCommits \in Nat /\ graph \in Seq(CommitRecords) /\ Len(graph) \in 1..MaxCommits
    BY <1>1, RepoAssumption
  <2>2. Len(graph) \in Nat /\ Len(graph) >= 1 /\ DOMAIN graph = 1..Len(graph)
    BY <2>1
  <2> QED
    BY <1>1, <2>2, RepoAssumption DEF Made
<1>3. LineageOK
  BY <1>2 DEF LineageOK, HoldsHistories, History
<1>4. DOMAIN log = {1} /\ log[1] = 1 /\ Here = {1}
  BY <1>1 DEF Here, Elements
<1>5. History(1) = {1}
  BY <1>2 DEF History
<1>6. ParentsFirst(log) /\ HoldsHistories(Here)
  BY <1>4, <1>5 DEF ParentsFirst, HoldsHistories
<1>7. \A t \in Threads : HeadsOK(t)
  BY <1>1 DEF HeadsOK, Locking
<1> QED
  BY <1>3, <1>6, <1>7 DEF OInv, OrderOK

LEMMA CommitOrdered ==
    ASSUME RepoOK, JobsTyped, PushesOK, OrderOK, NEW t \in Threads, CommitLands(t)
    PROVE  OrderOK'
<1>1. PICK c, p, new : c = Len(graph) + 1 /\ p = job[t].rev
                       /\ new = NewCommit(c, p, job[t].branch, job[t].edit)
  OBVIOUS
<1>2. /\ RepoTypeOK /\ GraphOK /\ Made = 1..Len(graph) /\ Len(graph) \in Nat /\ Here \subseteq Made
      /\ graph \in Seq(CommitRecords) /\ log \in Seq(Made) /\ 0 \notin Made
  BY Basics DEF RepoOK, RepoTypeOK
<1>3. graph' = Append(graph, new) /\ log' = Append(log, c) /\ p \in Here \cup {None}
  BY <1>1 DEF CommitLands, Committable
<1>4. /\ c \notin Made /\ Made' = Made \cup {c} /\ graph'[c] = new
      /\ \A d \in Made : graph'[d] = graph[d]
  BY <1>1, <1>2, <1>3 DEF Made
<1>5. PICK below : below = HistoryOf({p} \ {None})
  OBVIOUS
<1>6. new.parents = {p} \ {None} /\ new.history = {c} \cup below
  BY <1>1, <1>5 DEF NewCommit
<1>7. /\ {p} \ {None} \subseteq Here /\ {p} \ {None} \subseteq below
      /\ below \subseteq Here /\ HoldsHistories(below)
  <2>1. {p} \ {None} \subseteq Here
    BY <1>3
  <2>2. {p} \ {None} \subseteq below
    BY <1>2, <1>5, <2>1, Histories
  <2>3. below \subseteq Here
    BY <1>5, <2>1 DEF OrderOK, HoldsHistories, HistoryOf
  <2>4. HoldsHistories(below)
    BY <1>2, <1>5, <2>1, HistoriesHold DEF OrderOK
  <2> QED
    BY <2>1, <2>2, <2>3, <2>4
<1>8. /\ \A d \in Made : History(d)' = History(d)
      /\ History(c)' = {c} \cup below /\ c \notin below
  BY <1>2, <1>4, <1>6, <1>7 DEF History
<1>9. LineageOK'
  <2>1. ASSUME NEW d \in Made
        PROVE  graph'[d].parents \subseteq History(d)' \ {d} /\ HoldsHistories(History(d))'
    <3>1. graph[d].parents \subseteq History(d) \ {d} /\ HoldsHistories(History(d))
          /\ History(d) \subseteq Made
      BY <1>2 DEF OrderOK, LineageOK, GraphOK, History
    <3> QED
      BY <1>4, <1>8, <3>1 DEF HoldsHistories
  <2>2. graph'[c].parents \subseteq History(c)' \ {c}
    BY <1>4, <1>6, <1>7, <1>8
  <2>3. HoldsHistories(History(c))'
    <3>1. \A d \in below : History(d)' \subseteq below
      BY <1>2, <1>7, <1>8 DEF HoldsHistories
    <3> QED
      BY <1>8, <3>1 DEF HoldsHistories
  <2> QED
    BY <1>4, <2>1, <2>2, <2>3 DEF LineageOK
<1>10. Here' = Here \cup {c} /\ DOMAIN log = 1..Len(log) /\ Len(log) \in Nat
       /\ DOMAIN log' = 1..(Len(log) + 1) /\ log'[Len(log) + 1] = c
       /\ \A i \in DOMAIN log : log'[i] = log[i] /\ log[i] \in Here
  <2>1. /\ DOMAIN log = 1..Len(log) /\ Len(log) \in Nat
        /\ DOMAIN log' = 1..(Len(log) + 1) /\ log'[Len(log) + 1] = c
        /\ \A i \in DOMAIN log : log'[i] = log[i]
    BY <1>2, <1>3
  <2>2. \A i \in DOMAIN log : log[i] \in Here
    BY DEF Here, Elements
  <2> QED
    BY <2>1, <2>2, CommitWrites, <1>1
<1>11. HoldsHistories(Here)'
  <2>1. \A d \in Here : History(d)' \subseteq Here
    BY <1>2, <1>8 DEF OrderOK, HoldsHistories
  <2> QED
    BY <1>7, <1>8, <1>10, <2>1 DEF HoldsHistories
<1>12. ParentsFirst(log)'
  <2> SUFFICES ASSUME NEW i \in DOMAIN log', NEW j \in DOMAIN log', (log[i] \in History(log[j]))'
               PROVE  i <= j
    BY DEF ParentsFirst
  <2>1. CASE j = Len(log) + 1
    BY <1>10, <2>1
  <2>2. CASE j # Len(log) + 1
    <3>1. j \in DOMAIN log
      BY <1>10, <2>2
    <3>2. log'[j] = log[j] /\ log[j] \in Here /\ log[j] \in Made
      BY <1>2, <1>10, <3>1
    <3>3. log'[i] \in History(log[j]) /\ log'[i] \in Here
      BY <1>8, <3>2 DEF OrderOK, HoldsHistories
    <3>4. i \in DOMAIN log
      BY <1>2, <1>4, <1>10, <3>3
    <3> QED
      BY <1>10, <3>1, <3>3, <3>4 DEF OrderOK, ParentsFirst
  <2> QED
    BY <2>1, <2>2
<1> QED
  BY <1>9, <1>11, <1>12 DEF OrderOK

LEMMA StripOrdered ==
    ASSUME RepoOK, OrderOK, NEW t \in Threads, Strip(t)
    PROVE  OrderOK'
<1>1. PICK c \in Here : \E o \in Orders(Here \ Below(c)) : log' = o
  BY DEF Strip
<1>2. graph' = graph /\ Made' = Made
  BY DEF Strip, Made
<1>3. ParentsFirst(log') /\ Elements(log') = Here \ Below(c)
  BY <1>1, OrdersFirst
<1>4. Here \subseteq Made
  BY Basics DEF RepoOK
<1>5. HoldsHistories(Here \ Below(c))
  <2> SUFFICES ASSUME NEW d \in Here \ Below(c), NEW e \in History(d)
               PROVE  e \in Here \ Below(c)
    BY DEF HoldsHistories
  <2>1. e \in Here
    BY DEF OrderOK, HoldsHistories
  <2>2. History(e) \subseteq History(d)
    BY <1>4 DEF OrderOK, LineageOK, HoldsHistories
  <2> QED
    BY <2>1, <2>2 DEF Below
<1>6. Here' = Here \ Below(c)
  BY <1>3 DEF Here, Elements
<1> QED
  BY <1>2, <1>3, <1>5, <1>6 DEF OrderOK, LineageOK, HoldsHistories, ParentsFirst, History

LEMMA OrderSteps ==
    ASSUME RepoOK, JobsTyped, PushesOK, OInv, NEW t \in Threads, ThreadStep(t) \/ Killed(t)
    PROVE  OrderOK'
<1>1. OrderOK /\ RepoTypeOK /\ GraphOK
  BY DEF OInv, RepoOK
<1>2. CASE CommitLands(t)
  BY <1>1, <1>2, CommitOrdered
<1>3. CASE Strip(t)
  BY <1>1, <1>3, StripOrdered
<1>4. CASE Pull(t)
  <2>1. PICK p \in Pulls : p.heads \subseteq Made /\ Brings(p.heads)
    BY <1>4 DEF Pull
  <2>2. PICK o \in Orders(HistoryOf(p.heads) \ Here) : log' = log \o o
    BY <2>1 DEF Brings
  <2>3. HistoryOf(p.heads) \ Here \subseteq Made
    BY <1>1, <2>1, Histories
  <2>4. o \in Seq(Made) /\ Elements(o) = HistoryOf(p.heads) \ Here /\ ParentsFirst(o)
    BY <1>1, <2>3, Ordered, OrdersFirst
  <2>5. graph' = graph
    BY <1>4 DEF Pull
  <2> QED
    BY <1>1, <2>1, <2>2, <2>4, <2>5, OrderGoesOn
<1>5. CASE PushLands(t)
  <2>1. PICK j : j = job[t]
    OBVIOUS
  <2>2. /\ j.sent \subseteq Made /\ j.new \in Seq(Made) /\ Elements(j.new) = HistoryOf(j.sent) \ Here
        /\ ParentsFirst(j.new) /\ log' = log \o j.new /\ graph' = graph
    BY <1>5, <2>1 DEF PushesOK, PushOK, OInv, HeadsOK, Locking, PushLands, At, Sent, Pending
  <2> QED
    BY <1>1, <2>2, OrderGoesOn
<1>6. CASE Bookmark(t) \/ ~Writes(t)
  <2>1. graph' = graph /\ log' = log
    BY <1>6, Writers DEF Bookmark, repo
  <2> QED
    BY <1>1, <2>1 DEF OrderOK, LineageOK, HoldsHistories, ParentsFirst, History, Made, Here, Elements
<1> QED
  BY <1>2, <1>3, <1>4, <1>5, <1>6 DEF Writes

\* What has been found of heads does not change under the lock.
LEMMA FoundSame ==
    ASSUME NEW t \in Threads, graph' = graph, log' = log, job'[t].new = job[t].new
    PROVE  Found(t)' = Found(t)
BY DEF Found, Pending, MultipleHeads, OutsideParents, ScanHeads, ScanStep, RevRange, Rev

LEMMA HeadsStep ==
    ASSUME RepoOK, JobsTyped, PushesOK, OInv, NEW t \in Threads, ThreadStep(t) \/ Killed(t),
           NEW s \in Threads
    PROVE  HeadsOK(s)'
<1>1. DOMAIN job = Threads /\ \A r \in Threads \ {t} : job'[r] = job[r]
  BY PushesStep DEF JobsTyped
<1>2. CASE s # t
  <2>1. job'[s] = job[s] /\ HeadsOK(s)
    BY <1>1, <1>2 DEF OInv
  <2>2. CASE job[s].pc \in Locking
    <3>1. graph' = graph /\ log' = log
      BY <1>2, <2>2, LockHolds
    <3>2. Found(s)' = Found(s)
      BY <2>1, <3>1, FoundSame
    <3> QED
      BY <2>1, <3>1, <3>2 DEF HeadsOK, ParentsFirst, History
  <2>3. CASE job[s].pc \notin Locking
    BY <2>1, <2>3 DEF HeadsOK, Locking
  <2> QED
    BY <2>2, <2>3
<1>3. CASE s = t
  <2>1. CASE PushLocks(t)
    <3>1. PICK o \in Orders(HistoryOf(job[t].sent) \ Here) :
            Goes(t, [job[t] EXCEPT !.pc = "prechangegroup", !.new = o])
      BY <2>1 DEF PushLocks
    <3>2. IsJob(job[t])
      BY DEF JobsTyped
    <3>3. job'[t].pc = "prechangegroup" /\ job'[t].new = o
      BY <1>1, <3>1, <3>2 DEF Goes, IsJob, Jobs
    <3>4. graph' = graph
      BY <2>1 DEF PushLocks, repo
    <3>5. ParentsFirst(o)
      BY <3>1, OrdersFirst
    <3> QED
      BY <1>3, <3>3, <3>4, <3>5 DEF HeadsOK, ParentsFirst, History
  <2>2. CASE PushReports(t)
    <3>1. PICK heads : /\ CheckHeads => heads \in MultipleHeads(Pending(t), RevRange(Pending(t), job[t].new[1]))
                       /\ Goes(t, [job[t] EXCEPT !.pc = "pretxnchangegroup",
                                       !.report = Report(Pending(t), job[t].new[1], heads)])
      BY <2>2 DEF PushReports
    <3>2. IsJob(job[t])
      BY DEF JobsTyped
    <3>3. /\ job'[t].new = job[t].new
          /\ job'[t].report = Report(Pending(t), job[t].new[1], heads)
      BY <1>1, <3>1, <3>2 DEF Goes, IsJob, Jobs
    <3>4. graph' = graph /\ log' = log /\ job[t].pc \in Locking
      BY <2>2 DEF PushReports, repo, At, Locking
    <3>5. Found(t)' = Found(t)
      BY <3>3, <3>4, FoundSame
    <3>6. job'[t].report.heads = {Pending(t)[h] : h \in heads}
      BY <3>3 DEF Report
    <3>7. CheckHeads => job'[t].report.heads \in Found(t)
      BY <3>1, <3>6 DEF Found
    <3> QED
      BY <1>3, <3>3, <3>4, <3>5, <3>7 DEF OInv, HeadsOK, ParentsFirst, History
  <2>3. CASE ~PushLocks(t) /\ ~PushReports(t)
    <3>1. job'[t].pc \notin Locking
      <4>1. IsJob(job[t])
        BY DEF JobsTyped
      <4>2. Idles(t) \/ Moves(t) \/ Starts(t) \/ PushLands(t)
        BY <2>3, JobSteps DEF Pushing
      <4>3. ASSUME NEW j, Goes(t, j)
            PROVE  job'[t] = j
        BY <1>1, <4>3 DEF Goes
      <4>4. CASE Idles(t)
        <5>1. job'[t] = Idle
          BY <4>3, <4>4 DEF Idles
        <5> QED
          BY <5>1 DEF Idle, Locking
      <4>5. CASE Moves(t)
        <5>1. PICK pc \in {"compute", "store"} : Goes(t, Moved(job[t], pc))
          BY <4>5 DEF Moves, Moved
        <5>2. PICK new : new = Moved(job[t], pc)
          OBVIOUS
        <5>3. pc \in PCs
          BY DEF PCs
        <5>4. IsJob(new) /\ new.sent = job[t].sent /\ new.new = job[t].new /\ new.pc = pc
          BY <4>1, <5>2, <5>3, MovedJob
        <5>5. job'[t] = new
          BY <1>1, <5>1, <5>2 DEF Goes
        <5> QED
          BY <5>4, <5>5 DEF Locking
      <4>6. CASE CallsCommit(t)
        <5>1. PICK p \in Here \cup {None}, b \in Branches, e \in CommitEdits :
                Calls(t, [Idle EXCEPT !.pc = "commit", !.rev = p, !.branch = b, !.edit = e])
          BY <4>6 DEF CallsCommit
        <5>2. job'[t] = [Idle EXCEPT !.pc = "commit", !.rev = p, !.branch = b, !.edit = e]
          BY <1>1, <5>1 DEF Calls, Goes
        <5> QED
          BY <5>2 DEF Idle, Locking
      <4>7. CASE CallsPush(t)
        <5>1. PICK p \in Pushes :
                Calls(t, [Idle EXCEPT !.pc = "push", !.sent = p.sent, !.way = p.way,
                                      !.write = p.write, !.mark = p.mark])
          BY <4>7 DEF CallsPush
        <5>2. job'[t] = [Idle EXCEPT !.pc = "push", !.sent = p.sent, !.way = p.way,
                                     !.write = p.write, !.mark = p.mark]
          BY <1>1, <5>1 DEF Calls, Goes
        <5> QED
          BY <5>2 DEF Idle, Locking
      <4>8. CASE CallsRead(t)
        <5>1. PICK ask : Calls(t, [Idle EXCEPT !.pc = "lookup", !.ask = ask])
          BY <4>8 DEF CallsRead
        <5>2. job'[t] = [Idle EXCEPT !.pc = "lookup", !.ask = ask]
          BY <1>1, <5>1 DEF Calls, Goes
        <5> QED
          BY <5>2 DEF Idle, Locking
      <4>9. CASE PushLands(t)
        <5>1. job'[t] = [job[t] EXCEPT !.pc = "changegroup", !.start = Len(log)]
          BY <4>3, <4>9 DEF PushLands
        <5> QED
          BY <4>1, <5>1 DEF IsJob, Jobs, Locking
      <4> QED
        BY <4>2, <4>4, <4>5, <4>6, <4>7, <4>8, <4>9 DEF Starts
    <3> QED
      BY <1>3, <3>1 DEF HeadsOK, Locking
  <2> QED
    BY <2>1, <2>2, <2>3
<1> QED
  BY <1>2, <1>3

LEMMA OrderInductive == IInv /\ OInv /\ [Next]_vars => OInv'
<1> SUFFICES ASSUME IInv, OInv, [Next]_vars PROVE OInv'
  OBVIOUS
<1>1. ASSUME NEW t \in Threads, ThreadStep(t) \/ Killed(t)
      PROVE  OInv'
  BY <1>1, OrderSteps, HeadsStep DEF OInv, IInv, Typed
<1>2. CASE CacheForgets \/ UNCHANGED vars
  <2>1. graph' = graph /\ log' = log /\ job' = job
    BY <1>2 DEF CacheForgets, vars, repo
  <2>2. OrderOK'
    BY <2>1 DEF OInv, OrderOK, LineageOK, HoldsHistories, ParentsFirst, History, Made, Here, Elements
  <2>3. ASSUME NEW t \in Threads
        PROVE  HeadsOK(t)'
    <3>1. Found(t)' = Found(t) /\ HeadsOK(t)
      BY <2>1, FoundSame DEF OInv
    <3> QED
      BY <2>1, <3>1 DEF HeadsOK, ParentsFirst, History
  <2> QED
    BY <2>2, <2>3 DEF OInv
<1> QED
  BY <1>1, <1>2 DEF Next

(* Whatever a push brings, RhodeCode is told of heads when some parent has *)
(* more than one on its branch below it, and then of the heads of such a   *)
(* parent and nothing else (_check_heads, hooks.py:205-234).               *)
THEOREM HeadsTold == Spec => []HeadsRight
<1>1. ASSUME IInv, OInv, NEW t \in Threads, At(t, "pretxnchangegroup"), CheckHeads
      PROVE  LET l == Pending(t)
                 forks == {LineHeads(l, p) : p \in OutsideParents(l, (Len(log) + 1)..Len(l))}
                 told == job[t].report.heads
             IN  IF told = {} THEN \A hs \in forks : Cardinality(hs) <= 1
                 ELSE \E hs \in forks : Cardinality(hs) > 1 /\ told = {l[x] : x \in hs}
  <2>1. PICK l, new : l = Pending(t) /\ new = job[t].new
    OBVIOUS
  <2>2. /\ RepoTypeOK /\ GraphOK /\ Distinct(log) /\ log \in Seq(Made) /\ new \in Seq(Made)
        /\ new # <<>> /\ Distinct(new) /\ Elements(new) = Sent(t) \ Here
        /\ ParentsFirst(log) /\ ParentsFirst(new) /\ HoldsHistories(Here) /\ LineageOK
        /\ l = log \o new /\ Elements(log) = Here
    BY <1>1, <2>1 DEF IInv, RepoOK, RepoTypeOK, PushesOK, PushOK, OInv, OrderOK, HeadsOK, At,
       Locking, Pending, Here
  <2>3. /\ l \in Seq(Made) /\ Distinct(l) /\ ParentsFirst(l)
        /\ DOMAIN l = 1..Len(l) /\ Len(l) = Len(log) + Len(new) /\ Len(log) \in Nat
        /\ l[Len(log) + 1] = new[1] /\ Len(log) + 1 \in DOMAIN l
    <3>1. /\ Len(log) \in Nat /\ Len(new) \in Nat /\ DOMAIN new = 1..Len(new) /\ Len(new) # 0
      BY <2>2
    <3>2. 1 \in DOMAIN new
      BY <3>1
    <3>3. Distinct(l) /\ ParentsFirst(l)
      BY <2>2, DistinctConcatenated, OrderedBoth
    <3> QED
      BY <2>2, <3>1, <3>2, <3>3, Concatenated
  <2>4. ParentsBefore(l)
    <3> SUFFICES ASSUME NEW x \in DOMAIN l, NEW y \in DOMAIN l, l[y] \in graph[l[x]].parents
                 PROVE  y < x
      BY DEF ParentsBefore
    <3>1. l[x] \in Made
      BY <2>3
    <3>2. l[y] \in History(l[x]) /\ l[y] # l[x]
      BY <2>2, <3>1 DEF LineageOK
    <3>3. y <= x /\ y # x
      BY <2>3, <3>2 DEF ParentsFirst
    <3> QED
      BY <2>3, <3>3
  <2>5. PICK revs, outside, forks, told :
          /\ revs = (Len(log) + 1)..Len(l) /\ outside = OutsideParents(l, revs)
          /\ forks = {LineHeads(l, p) : p \in outside} /\ told = job[t].report.heads
    OBVIOUS
  <2>6. RevRange(l, new[1]) = revs
    <3>1. Rev(l, l[Len(log) + 1]) = Len(log) + 1
      BY <2>3, PlaceOfFirst
    <3> QED
      BY <2>3, <2>5, <3>1 DEF RevRange
  <2>7. outside \subseteq DOMAIN l
    BY <2>5 DEF OutsideParents
  <2>8. {ScanHeads(l, p) : p \in outside} = forks
    <3>1. \A p \in outside : ScanHeads(l, p) = LineHeads(l, p)
      BY <2>3, <2>4, <2>7, ScanFinds
    <3> QED
      BY <2>5, <3>1
  <2>9. PICK several : several = {hs \in forks : Cardinality(hs) > 1}
    OBVIOUS
  <2>10. MultipleHeads(l, revs) = IF several = {} THEN {{}} ELSE several
    BY <2>5, <2>8, <2>9 DEF MultipleHeads
  <2>11. PICK hs \in MultipleHeads(l, revs) : told = {l[x] : x \in hs}
    <3>1. told \in Found(t)
      BY <1>1, <2>5 DEF OInv, HeadsOK, At
    <3>2. Found(t) = {{l[h] : h \in heads} : heads \in MultipleHeads(l, revs)}
      BY <2>1, <2>6 DEF Found
    <3> QED
      BY <3>1, <3>2
  <2>12. ASSUME NEW h \in forks
         PROVE  Cardinality(h) \in Nat
    <3>0. PICK p \in outside : h = LineHeads(l, p)
      BY <2>5
    <3>1. h \subseteq 1..Len(l)
      BY <2>3, <3>0 DEF LineHeads, Line
    <3>2. IsFiniteSet(1..Len(l))
      BY <2>3, FS_Interval
    <3> QED
      BY <3>1, <3>2, FS_Subset, FS_CardinalityType
  <2>13. IF told = {} THEN \A h \in forks : Cardinality(h) <= 1
         ELSE \E h \in forks : Cardinality(h) > 1 /\ told = {l[x] : x \in h}
    <3>1. CASE several = {}
      <4>1. told = {}
        BY <2>10, <2>11, <3>1
      <4>2. \A h \in forks : Cardinality(h) <= 1
        BY <2>9, <2>12, <3>1
      <4> QED
        BY <4>1, <4>2
    <3>2. CASE several # {}
      <4>1. hs \in forks /\ Cardinality(hs) > 1
        BY <2>9, <2>10, <2>11, <3>2
      <4>2. hs # {}
        BY <4>1, FS_EmptySet
      <4>3. told # {}
        BY <2>11, <4>2
      <4> QED
        BY <2>11, <4>1, <4>3
    <3> QED
      BY <3>1, <3>2
  <2> QED
    BY <2>1, <2>5, <2>13
<1>2. IInv /\ OInv => HeadsRight
  BY <1>1 DEF HeadsRight
<1>3. Spec => []OInv
  BY OrderStart, OrderInductive, Invariant, PTL DEF Spec
<1> QED
  BY <1>2, <1>3, Invariant, PTL
================================================================================
