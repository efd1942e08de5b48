---------------------------- MODULE GitBackendProofs ---------------------------
(* Proofs about GitBackend for any number of threads, refs and commits.    *)
EXTENDS GitBackend, TLAPS

(* A commit's history holds the commit and the histories of its members;   *)
(* the repository holds the history of whatever it holds.                  *)
HistoryOK ==
    \A c \in Made :
        /\ graph[c].parent \in Made \cup {None}
        /\ c \in graph[c].history
        /\ graph[c].history \subseteq Made
        /\ \A d \in graph[c].history : graph[d].history \subseteq graph[c].history

StoreClosed == \A c \in store : graph[c].history \subseteq store
RefsHeld == \A r \in Refs : refs[r] \in store \cup {None}

\* What a thread is going to write into a ref is in the repository by then.
Holds(j, held) ==
    /\ j.pc \in {"objects", "branch", "create", "newbranch", "ref"} => j.rev \in held \cup {None}
    /\ j.pc = "apply" => \A n \in Names : j.listing[n] \in held \cup {None}
    /\ j.pc = "apply" => \A n \in Names :
           /\ n \in j.todo => j.listing[n] # None
           /\ j.listing[n] # None => j.wanted = {} \/ n \in j.wanted
    /\ j.pc = "chunk" => j.todo \subseteq Refs
JobsHold == \A t \in Threads : Holds(job[t], store)

\* The parts of TypeOK.
JobsTyped == job \in [Threads -> Jobs]
Knows(j, made) ==
    /\ j.rev \in made \cup {None}
    /\ \A n \in Names : j.listing[n] \in made \cup {None}
JobsKnown == \A t \in Threads : Knows(job[t], Made)
CacheTyped ==
    /\ DOMAIN cache \subseteq Keys
    /\ \A k \in DOMAIN cache : cache[k].knew \subseteq used
    /\ answer = [t \in Threads |-> answer[t]]
    /\ \A t \in Threads : answer[t].knew \subseteq used /\ answer[t].ask \in Asks \cup {NoAsk}
    /\ used \subseteq Contexts
CountersTyped == calls \in 0..MaxCalls /\ reads \in 0..MaxReads /\ faults \in 0..MaxFaults

Typed == RepoTypeOK /\ JobsTyped /\ JobsKnown /\ CacheTyped /\ CountersTyped
Held == HistoryOK /\ StoreClosed /\ RefsHeld /\ JobsHold

(* A value that was computed for a question knows the context it was asked *)
(* in, and is the value of the commit if it depends on the commit alone.   *)
CommitVal(name, commit) ==
    IF name = "message" THEN {commit.edit}
    ELSE IF name = "parents" THEN {commit.parent}
    ELSE IF name = "tree_items" THEN DOMAIN commit.tree
    ELSE {commit.tree[f] : f \in DOMAIN commit.tree}
Worth(ask, val, knew, us, st, g) ==
    /\ knew \subseteq us
    /\ ask.ctx # NoContext => ask.ctx \in knew
    /\ ask.name \in KeyedByCommit => ask.arg \in st /\ val = CommitVal(ask.name, g[ask.arg])
CacheWorth ==
    /\ DOMAIN cache \subseteq Keys
    /\ \A k \in DOMAIN cache : Worth(k, cache[k].val, cache[k].knew, used, store, graph)

Reading == {"lookup", "compute", "store"}
AskOK(j, us) ==
    /\ j.pc \in Reading => j.ask \in Asks /\ (j.ask.ctx # NoContext => j.ask.ctx \in us)
    /\ j.pc \in {"compute", "store"} => CacheOn(j.ask)
    /\ j.pc \notin Reading => j.ask = NoAsk
AnswerOK(a, us) ==
    /\ a.knew \subseteq us /\ a.ask \in Asks \cup {NoAsk}
    /\ (/\ a.kind = "ok" /\ a.ask.ctx # NoContext
        /\ a.ask.name \notin KeyedByCommit \cup KeyedByCommitOnly) => a.ask.ctx \in a.knew
Values ==
    /\ CacheWorth
    /\ used \subseteq Contexts
    /\ answer = [t \in Threads |-> answer[t]]
    /\ \A t \in Threads :
          /\ AskOK(job[t], used) /\ AnswerOK(answer[t], used)
          /\ job[t].pc = "store" => Worth(job[t].ask, answer[t].val, answer[t].knew, used, store, graph)

IInv == Typed /\ Held /\ Values /\ EditKept

LEMMA TypedIsTypeOK == Typed <=> TypeOK
BY DEF Typed, TypeOK, JobsTyped, JobsKnown, Knows, CacheTyped, CountersTyped

---------------------------------------------------------------------------
LEMMA EditedTree ==
    ASSUME NEW tree \in Trees, NEW edit \in Edits, NEW c \in Commits
    PROVE  Edited(tree, edit, c) \in Trees
<1>1. PICK fs \in SUBSET Files : tree \in [fs -> Commits]
  BY DEF Trees
<1> DEFINE up == Updated(tree, edit.updated, c)
           kept == {q \in DOMAIN up : q \in edit.removed => SharesDirectory(up, q)}
<1>2. edit.updated \subseteq Files
  BY DEF Edits
<1>3. up \in [fs \cup edit.updated -> Commits]
  BY <1>1, <1>2 DEF Updated
<1>4. Edited(tree, edit, c) = [p \in kept |-> up[p]]
  BY DEF Edited, Removed
<1>5. kept \in SUBSET Files /\ [p \in kept |-> up[p]] \in [kept -> Commits]
  BY <1>1, <1>2, <1>3
<1> QED
  BY <1>4, <1>5 DEF Trees

LEMMA NoFiles == <<>> \in Trees
<1>1. <<>> \in [{} -> Commits]
  OBVIOUS
<1> QED
  BY <1>1 DEF Trees

(* What a new commit changes: nothing of the old ones.                     *)
LEMMA Adds ==
    ASSUME RepoTypeOK, HistoryOK, NEW p \in Made \cup {None}, NEW edit \in Edits,
           Len(graph) + 1 <= MaxCommits, AddsCommit(Len(graph) + 1, p, edit)
    PROVE  /\ graph' \in Seq(CommitRecords)
           /\ Len(graph') = Len(graph) + 1
           /\ Made' = Made \cup {Len(graph) + 1} /\ Len(graph) + 1 \notin Made
           /\ \A c \in Made : graph'[c] = graph[c]
           /\ graph'[Len(graph) + 1].history = History(p) \cup {Len(graph) + 1}
           /\ graph'[Len(graph) + 1].parent = p /\ graph'[Len(graph) + 1].edit = edit
           /\ graph'[Len(graph) + 1].tree = Edited(TreeOf(p), edit, Len(graph) + 1)
           /\ HistoryOK'
<1> DEFINE c == Len(graph) + 1
           new == [parent |-> p, history |-> History(p) \cup {c},
                   tree |-> Edited(TreeOf(p), edit, c), edit |-> edit]
<1>1. graph \in Seq(CommitRecords) /\ Len(graph) \in Nat /\ Made = 1..Len(graph)
  BY DEF RepoTypeOK, Made
<1>2. MaxCommits \in Nat /\ c \in Commits /\ Made \subseteq Commits
  BY <1>1, RepoAssumption DEF Commits
<1>3. \A d \in Made : graph[d] \in CommitRecords
  BY <1>1
<1>4. History(p) \subseteq Made /\ (p # None => p \in History(p))
  BY DEF HistoryOK, History, None
<1>5. TreeOf(p) \in Trees
  BY <1>3, NoFiles DEF TreeOf, CommitRecords, None
<1>6. Edited(TreeOf(p), edit, c) \in Trees
  BY <1>2, <1>5, EditedTree
<1>7. new \in CommitRecords
  BY <1>1, <1>2, <1>4, <1>6 DEF CommitRecords, None, Commits
<1>8. graph' = Append(graph, new)
  BY DEF AddsCommit
<1> HIDE DEF new
<1>9. /\ graph' \in Seq(CommitRecords) /\ Len(graph') = c /\ graph'[c] = new
      /\ \A d \in 1..Len(graph) : graph'[d] = graph[d]
  BY <1>1, <1>7, <1>8
<1>10. Made' = Made \cup {c} /\ c \notin Made
  <2>1. Made' = 1..c
    BY <1>9 DEF Made
  <2> QED
    BY <2>1, <1>1
<1>11. new.history = History(p) \cup {c} /\ new.parent = p /\ new.edit = edit
       /\ new.tree = Edited(TreeOf(p), edit, c)
  BY DEF new
<1>12. HistoryOK'
  <2>1. ASSUME NEW d \in Made'
        PROVE  /\ graph'[d].parent \in Made' \cup {None}
               /\ d \in graph'[d].history
               /\ graph'[d].history \subseteq Made'
               /\ \A e \in graph'[d].history : graph'[e].history \subseteq graph'[d].history
    <3>1. CASE d \in Made
      BY <3>1, <1>1, <1>9, <1>10 DEF HistoryOK
    <3>2. CASE d = c
      <4>1. \A e \in History(p) : e \in Made /\ graph[e].history \subseteq History(p)
        BY <1>4 DEF HistoryOK, History
      <4>2. \A e \in History(p) : graph'[e] = graph[e]
        BY <4>1, <1>1, <1>9
      <4> QED
        BY <3>2, <4>1, <4>2, <1>9, <1>10, <1>11
    <3> QED
      BY <2>1, <3>1, <3>2, <1>10
  <2> QED
    BY <2>1 DEF HistoryOK
<1> QED
  BY <1>1, <1>9, <1>10, <1>11, <1>12

(* Objects that are received come with their history.                      *)
LEMMA ReceivesHistory ==
    ASSUME RepoTypeOK, HistoryOK, StoreClosed, NEW cs \in SUBSET (Made \cup {None}),
           Receives(cs), graph' = graph
    PROVE  /\ store' \subseteq Made' /\ store \subseteq store'
           /\ cs \subseteq store' \cup {None}
           /\ HistoryOK' /\ StoreClosed'
<1>1. store \subseteq Made /\ Made' = Made
  BY DEF RepoTypeOK, Made
<1>2. store' = store \cup UNION {graph[c].history : c \in cs \ {None}}
  BY DEF Receives, HistoryOf, History
<1>3. HistoryOK'
  BY <1>1 DEF HistoryOK
<1>4. \A c \in cs \ {None} : c \in Made /\ c \in graph[c].history /\ graph[c].history \subseteq Made
  BY DEF HistoryOK
<1>5. StoreClosed'
  <2>1. ASSUME NEW d \in store'
        PROVE  graph[d].history \subseteq store'
    <3>1. CASE d \in store
      BY <3>1, <1>2 DEF StoreClosed
    <3>2. CASE \E c \in cs \ {None} : d \in graph[c].history
      BY <3>2, <1>2, <1>4 DEF HistoryOK
    <3> QED
      BY <2>1, <3>1, <3>2, <1>2
  <2> QED
    BY <2>1 DEF StoreClosed
<1> QED
  BY <1>1, <1>2, <1>3, <1>4, <1>5

---------------------------------------------------------------------------
(* The repository: every ref that is written names a commit it holds.      *)
RepoOK == RepoTypeOK /\ HistoryOK /\ StoreClosed /\ RefsHeld
Grows == Made \subseteq Made' /\ store \subseteq store'

LEMMA RepoSame ==
    ASSUME RepoOK, UNCHANGED <<graph, store>>, RefsHeld', RepoTypeOK'
    PROVE  RepoOK' /\ Grows
BY DEF RepoOK, HistoryOK, StoreClosed, Grows, Made

LEMMA RefWritten ==
    ASSUME RepoOK, NEW n \in Names, NEW c \in store \cup {None}, WritesRef(n, c),
           UNCHANGED store
    PROVE  refs' \in [Refs -> Made \cup {None}] /\ RefsHeld'
<1>1. refs \in [Refs -> Made \cup {None}] /\ store \subseteq Made
  BY DEF RepoOK, RepoTypeOK
<1>2. refs' = [refs EXCEPT ![RefOf(n)] = c] /\ c \in Made \cup {None}
  BY <1>1 DEF WritesRef
<1> QED
  BY <1>1, <1>2 DEF RepoOK, RefsHeld

LEMMA RefsWritten ==
    ASSUME RepoOK, UNCHANGED <<graph, store, remote>>,
           \/ UNCHANGED refs
           \/ \E n \in Names, c \in store \cup {None} : WritesRef(n, c)
    PROVE  RepoOK' /\ Grows
<1>1. refs' \in [Refs -> Made \cup {None}] /\ RefsHeld'
  BY RefWritten DEF RepoOK, RepoTypeOK, RefsHeld
<1>2. RepoTypeOK'
  BY <1>1 DEF RepoOK, RepoTypeOK, Made
<1>3. RefsHeld'
  BY <1>1
<1> QED
  BY <1>2, <1>3, RepoSame

LEMMA RemoteKnown ==
    ASSUME RepoOK
    PROVE  \A n \in Names : Advertised(n) \in Made \cup {None} /\ RefOf(n) \in Refs
BY RepoAssumption DEF RepoOK, RepoTypeOK, Advertised, RefOf, Names, Refs

LEMMA Received ==
    ASSUME RepoOK, NEW cs \in SUBSET (Made \cup {None}), Receives(cs), UNCHANGED <<graph, remote>>,
           refs' \in [Refs -> Made \cup {None}], RefsHeld'
    PROVE  RepoOK' /\ Grows
<1>1. /\ store' \subseteq Made' /\ store \subseteq store'
      /\ HistoryOK' /\ StoreClosed'
  BY ReceivesHistory DEF RepoOK
<1>2. Made' = Made
  BY DEF Made
<1>3. RepoTypeOK'
  BY <1>1, <1>2 DEF RepoOK, RepoTypeOK
<1> QED
  BY <1>1, <1>2, <1>3 DEF RepoOK, Grows

LEMMA RepoStep ==
    ASSUME IInv, [Next]_vars
    PROVE  RepoOK' /\ Grows
<1> USE DEF IInv, Typed, Held
<1>0. RepoOK
  BY DEF RepoOK
<1>1. CASE UNCHANGED repo
  BY <1>0, <1>1, RefsWritten DEF repo
<1>2. ASSUME NEW t \in Threads, CommitObjects(t)
      PROVE  RepoOK' /\ Grows
  <2> DEFINE c == Len(graph) + 1
  <2>1. job[t].edit \in Edits /\ job[t].rev \in store \cup {None} /\ job[t].rev \in Made \cup {None}
    BY <1>2 DEF CommitObjects, At, JobsTyped, Jobs, JobsHold, Holds, JobsKnown, Knows
  <2>2. c <= MaxCommits /\ AddsCommit(c, job[t].rev, job[t].edit) /\ store' = store \cup {c}
        /\ UNCHANGED <<refs, remote>>
    BY <1>2 DEF CommitObjects
  <2>3. /\ graph' \in Seq(CommitRecords) /\ Len(graph') = c
        /\ Made' = Made \cup {c} /\ c \notin Made
        /\ \A d \in Made : graph'[d] = graph[d]
        /\ graph'[c].history = History(job[t].rev) \cup {c}
        /\ HistoryOK'
    BY <1>0, <2>1, <2>2, Adds DEF RepoOK
  <2>4. Len(graph) \in Nat /\ MaxCommits \in Nat /\ store \subseteq Made
    BY <1>0, RepoAssumption DEF RepoOK, RepoTypeOK
  <2>5. RepoTypeOK'
    BY <2>2, <2>3, <2>4, <1>0 DEF RepoOK, RepoTypeOK
  <2>6. History(job[t].rev) \subseteq store
    BY <2>1, <1>0 DEF History, RepoOK, StoreClosed
  <2>7. StoreClosed'
    BY <2>2, <2>3, <2>4, <2>6, <1>0 DEF StoreClosed, RepoOK
  <2>8. RefsHeld'
    BY <2>2, <1>0 DEF RefsHeld, RepoOK
  <2> QED
    BY <2>2, <2>3, <2>5, <2>7, <2>8 DEF RepoOK, Grows
<1>3. ASSUME NEW t \in Threads, CommitCreates(t) \/ NewBranch(t) \/ CommitRef(t),
             UNCHANGED <<graph, store, remote>>
      PROVE  RepoOK' /\ Grows
  <2>1. job[t].rev \in store \cup {None} /\ job[t].ref \in Names
    BY <1>3 DEF CommitCreates, NewBranch, CommitRef, At, JobsTyped, Jobs, JobsHold, Holds
  <2>2. WritesRef(job[t].ref, job[t].rev)
    BY <1>3 DEF CommitCreates, NewBranch, CommitRef
  <2> QED
    BY <2>1, <2>2, <1>3, <1>0, RefsWritten
<1>4. ASSUME NEW t \in Threads, PullFetches(t)
      PROVE  RepoOK' /\ Grows
  <2>1. Wanted(t) \subseteq Names
    BY DEF Wanted, JobsTyped, Jobs
  <2>2. {Advertised(n) : n \in Wanted(t)} \in SUBSET (Made \cup {None})
    BY <2>1, <1>0, RemoteKnown
  <2>3. Receives({Advertised(n) : n \in Wanted(t)}) /\ UNCHANGED <<graph, refs, remote>>
    BY <1>4 DEF PullFetches
  <2>4. store \subseteq store'
    BY <2>3 DEF Receives
  <2> QED
    BY <2>2, <2>3, <2>4, <1>0, Received DEF RepoOK, RepoTypeOK, RefsHeld
<1>5. ASSUME NEW t \in Threads, PullWrites(t) \/ PullHead(t)
      PROVE  RepoOK' /\ Grows
  <2>1. \A n \in Names : job[t].listing[n] \in store \cup {None}
    BY <1>5 DEF PullWrites, PullHead, At, JobsHold, Holds
  <2>2. job[t].todo \subseteq Names /\ job[t].last \subseteq Names /\ HEAD \in Names
    BY DEF JobsTyped, Jobs, Names
  <2>3. /\ UNCHANGED <<graph, store, remote>>
        /\ \/ UNCHANGED refs
           \/ \E n \in Names, m \in Names : WritesRef(n, job[t].listing[m])
    BY <1>5, <2>2 DEF PullWrites, PullHead
  <2> QED
    BY <2>1, <2>3, <1>0, RefsWritten
<1>6. ASSUME NEW t \in Threads, SyncFetches(t)
      PROVE  RepoOK' /\ Grows
  <2>1. PICK chunk \in Chunks(job[t].todo) :
            /\ Receives({remote[r] : r \in chunk})
            /\ refs' = [r \in Refs |-> IF r \in chunk THEN remote[r] ELSE refs[r]]
            /\ \A r \in chunk : remote[r] # None
    BY <1>6 DEF SyncFetches
  <2>2. UNCHANGED <<graph, remote>>
    BY <1>6 DEF SyncFetches
  <2>3. chunk \subseteq Refs
    BY <1>6 DEF Chunks, SyncFetches, At, JobsHold, Holds
  <2>4. {remote[r] : r \in chunk} \in SUBSET (Made \cup {None})
    BY <2>3, <1>0 DEF RepoOK, RepoTypeOK
  <2>5. /\ store \subseteq store'
        /\ {remote[r] : r \in chunk} \subseteq store' \cup {None}
    BY <2>1, <2>2, <2>4, <1>0, ReceivesHistory DEF RepoOK
  <2>6. refs' \in [Refs -> Made \cup {None}] /\ RefsHeld'
    BY <2>1, <2>3, <2>4, <2>5, <1>0 DEF RepoOK, RepoTypeOK, RefsHeld
  <2> QED
    BY <2>1, <2>2, <2>4, <2>6, <1>0, Received
<1>7. ASSUME NEW t \in Threads, SyncPush(t)
      PROVE  RepoOK' /\ Grows
  <2>1. UNCHANGED <<graph, store, refs>> /\ remote' = refs
    BY <1>7 DEF SyncPush
  <2>2. RefsHeld' /\ RepoTypeOK'
    BY <2>1, <1>0 DEF RepoOK, RepoTypeOK, RefsHeld, Made
  <2> QED
    BY <2>1, <2>2, <1>0, RepoSame
<1>8. ASSUME NEW t \in Threads, ChangesRef(t)
      PROVE  RepoOK' /\ Grows
  <2>1. UNCHANGED <<graph, store, remote>>
    BY <1>8 DEF ChangesRef
  <2>2. CASE NewBranch(t)
    BY <2>1, <2>2, <1>3
  <2>3. CASE \E n \in Names, c \in store \cup {None} : WritesRef(n, c)
    BY <2>1, <2>3, <1>0, RefsWritten
  <2>4. CASE UNCHANGED refs
    BY <2>1, <2>4, <1>1 DEF repo
  <2>5. CASE SetRef(t) \/ RemoveRef(t)
    BY <2>3, <2>5 DEF SetRef, RemoveRef, Names, Refs
  <2>6. CASE CreateBranch(t)
    BY <2>3, <2>4, <2>6 DEF CreateBranch, Names, Refs
  <2> QED
    BY <1>8, <2>2, <2>5, <2>6 DEF ChangesRef
<1>9. ASSUME NEW t \in Threads, MissingRevs(t)
      PROVE  RepoOK' /\ Grows
  <2>1. Receives({remote[r] : r \in Refs}) /\ UNCHANGED <<graph, refs, remote>>
    BY <1>9 DEF MissingRevs
  <2>2. store \subseteq store'
    BY <2>1 DEF Receives
  <2> QED
    BY <2>1, <2>2, <1>0, Received DEF RepoOK, RepoTypeOK, RefsHeld
<1>10. ASSUME NEW r \in Refs, RemoteCommits(r)
       PROVE  RepoOK' /\ Grows
  <2> DEFINE c == Len(graph) + 1
             none == [updated |-> {}, removed |-> {}]
  <2>1. Len(graph) \in Nat /\ MaxCommits \in Nat /\ store \subseteq Made
    BY <1>0, RepoAssumption DEF RepoOK, RepoTypeOK
  <2>2. c <= MaxCommits /\ AddsCommit(c, remote[r], none)
        /\ remote' = [remote EXCEPT ![r] = c] /\ UNCHANGED <<store, refs>>
    BY <1>10, <2>1 DEF RemoteCommits
  <2>3. remote[r] \in Made \cup {None} /\ none \in Edits
    BY <1>0 DEF RepoOK, RepoTypeOK, Edits
  <2>4. /\ graph' \in Seq(CommitRecords) /\ Len(graph') = c
        /\ Made' = Made \cup {c} /\ c \notin Made
        /\ \A d \in Made : graph'[d] = graph[d]
        /\ HistoryOK'
    BY <1>0, <2>2, <2>3, Adds DEF RepoOK
  <2>5. RepoTypeOK'
    BY <2>1, <2>2, <2>4, <1>0 DEF RepoOK, RepoTypeOK
  <2>6. StoreClosed' /\ RefsHeld'
    BY <2>1, <2>2, <2>4, <1>0 DEF StoreClosed, RefsHeld, RepoOK
  <2> QED
    BY <2>2, <2>4, <2>5, <2>6 DEF RepoOK, Grows
<1>11. ASSUME NEW r \in Refs, RemoteDeletes(r)
       PROVE  RepoOK' /\ Grows
  <2>1. UNCHANGED <<graph, store, refs>> /\ remote' = [remote EXCEPT ![r] = None]
    BY <1>11 DEF RemoteDeletes
  <2>2. RefsHeld' /\ RepoTypeOK'
    BY <2>1, <1>0 DEF RepoOK, RepoTypeOK, RefsHeld, Made
  <2> QED
    BY <2>1, <2>2, <1>0, RepoSame
<1>12. UNCHANGED vars => UNCHANGED repo
  BY DEF vars, repo
<1>13. ASSUME NEW t \in Threads, Read(t) \/ GitCommandFails(t) \/ Killed(t)
       PROVE  UNCHANGED repo
  BY <1>13 DEF Read, CallsRead, ReadHits, ReadMisses, ReadUncached, ReadComputes, ReadStores,
               GitCommandFails, Killed
<1>14. ASSUME NEW t \in Threads, Commit(t)
       PROVE  \/ UNCHANGED repo \/ CommitObjects(t)
              \/ (CommitCreates(t) \/ CommitRef(t)) /\ UNCHANGED <<graph, store, remote>>
  BY <1>14 DEF Commit, CallsCommit, CommitRaises, CommitBranch, CommitCreates, CreateRaises,
               CommitRef
<1>15. ASSUME NEW t \in Threads, Pull(t)
       PROVE  UNCHANGED repo \/ PullFetches(t) \/ PullWrites(t) \/ PullHead(t)
  BY <1>15 DEF Pull, CallsPull, PullEnds
<1>16. ASSUME NEW t \in Threads, Sync(t)
       PROVE  UNCHANGED repo \/ SyncFetches(t) \/ SyncPush(t)
  BY <1>16 DEF Sync, CallsSync, SyncLists, SyncRefused
<1>17. CASE \E t \in Threads : ThreadStep(t) \/ GitCommandFails(t) \/ Killed(t)
  BY <1>17, <1>1, <1>2, <1>3, <1>4, <1>5, <1>6, <1>7, <1>8, <1>9, <1>13, <1>14, <1>15, <1>16
     DEF ThreadStep
<1>18. CASE Environment
  BY <1>18, <1>10, <1>11 DEF Environment
<1>19. CASE CacheForgets
  BY <1>19, <1>1 DEF CacheForgets
<1> QED
  BY <1>1, <1>12, <1>17, <1>18, <1>19 DEF Next

---------------------------------------------------------------------------
(* The threads: every job is typed, knows commits that were made, and is   *)
(* going to write only what the repository holds.                          *)
JobOK(j, made, held) == j \in Jobs /\ Knows(j, made) /\ Holds(j, held)
JobsOK == JobsTyped /\ JobsKnown /\ JobsHold

LEMMA IdleOK == ASSUME NEW made, NEW held PROVE JobOK(Idle, made, held)
BY DEF JobOK, Jobs, Knows, Holds, Idle, PCs, Names, Edits

LEMMA OneJob ==
    ASSUME JobsOK, Grows,
           \/ UNCHANGED job
           \/ \E t \in Threads, new \in Jobs : Goes(t, new) /\ JobOK(new, Made', store')
    PROVE  JobsOK'
<1>1. \A t \in Threads : JobOK(job[t], Made', store')
  BY DEF JobsOK, JobsTyped, JobsKnown, JobsHold, JobOK, Knows, Holds, Grows
<1>2. job \in [Threads -> Jobs]
  BY DEF JobsOK, JobsTyped
<1>3. job' \in [Threads -> Jobs] /\ \A t \in Threads : JobOK(job'[t], Made', store')
  BY <1>1, <1>2 DEF Goes
<1> QED
  BY <1>3 DEF JobsOK, JobsTyped, JobsKnown, JobsHold, JobOK

\* What a method that changes one ref does with the job of its thread.
Creation(b, c) == [Idle EXCEPT !.pc = "newbranch", !.ref = b, !.rev = c]

LEMMA RefSteps ==
    ASSUME NEW t \in Threads, ChangesRef(t)
    PROVE  \/ Calls(t, Idle)
           \/ job[t].pc = "newbranch" /\ Done(t)
           \/ \E b \in Branches, c \in store : Calls(t, Creation(b, c))
<1>1. CASE CreateBranch(t)
  BY <1>1 DEF CreateBranch, Creation
<1>2. CASE NewBranch(t)
  BY <1>2 DEF NewBranch, At
<1>3. CASE SetRef(t) \/ RemoveRef(t)
  BY <1>3 DEF SetRef, RemoveRef
<1> QED
  BY <1>1, <1>2, <1>3 DEF ChangesRef

LEMMA JobsStep ==
    ASSUME IInv, [Next]_vars
    PROVE  JobsOK'
<1>0. JobsOK /\ RepoOK /\ Grows /\ RepoOK'
  BY RepoStep DEF IInv, Typed, Held, JobsOK, RepoOK
<1> DEFINE Moves(t) == \E new \in Jobs : Goes(t, new) /\ JobOK(new, Made', store')
<1>m. ASSUME NEW t \in Threads, Moves(t) PROVE JobsOK'
  BY <1>0, <1>m, OneJob
<1>u. CASE UNCHANGED job
  BY <1>0, <1>u, OneJob
<1>i. ASSUME NEW t \in Threads, Goes(t, Idle) PROVE Moves(t)
  BY <1>i, IdleOK DEF JobOK
<1>r. ASSUME NEW t \in Threads, NEW result, NEW knew, Replies(t, result, knew) PROVE Moves(t)
  BY <1>i, <1>r DEF Replies
<1>t. /\ Idle \in Jobs /\ \A t \in Threads : job[t] \in Jobs /\ JobOK(job[t], Made', store')
  BY <1>0, IdleOK DEF JobsOK, JobsTyped, JobsKnown, JobsHold, JobOK, Knows, Holds, Grows
<1>c. Made \subseteq Commits /\ Made \subseteq Made' /\ store \subseteq store' /\ store \subseteq Made
  BY <1>0, RepoAssumption DEF RepoOK, RepoTypeOK, Made, Commits, Grows
<1>h. refs \in [Refs -> Made \cup {None}] /\ RefsHeld
  BY <1>0 DEF RepoOK, RepoTypeOK
<1> HIDE DEF Moves
<1>1. ASSUME NEW t \in Threads, CallsCommit(t) PROVE Moves(t)
  <2>1. PICK b \in Branches, edit \in CommitEdits :
            Calls(t, [Idle EXCEPT !.pc = "objects", !.ref = b, !.rev = refs[b], !.edit = edit])
    BY <1>1 DEF CallsCommit
  <2> DEFINE new == [Idle EXCEPT !.pc = "objects", !.ref = b, !.rev = refs[b], !.edit = edit]
  <2>2. b \in Names /\ b \in Refs /\ edit \in Edits
    BY BackendAssumption DEF Names, Refs
  <2>3. new \in Jobs
    BY <2>2, <1>c, <1>h, <1>t DEF Jobs, Idle, PCs
  <2>4. Knows(new, Made') /\ Holds(new, store')
    BY <2>2, <1>c, <1>h DEF Knows, Holds, Idle, RefsHeld
  <2> QED
    BY <2>1, <2>3, <2>4 DEF Moves, Calls, JobOK
<1>2. ASSUME NEW t \in Threads, CommitObjects(t) PROVE Moves(t)
  <2> DEFINE c == Len(graph) + 1
             new == [job[t] EXCEPT !.pc = "branch", !.rev = c]
  <2>1. Goes(t, new) /\ store' = store \cup {c} /\ c <= MaxCommits
    BY <1>2 DEF CommitObjects
  <2>2. c \in Commits /\ c \in Made'
    BY <2>1, <1>0, RepoAssumption DEF RepoOK, RepoTypeOK, Commits, Made
  <2>3. new \in Jobs
    BY <2>2, <1>t DEF Jobs, PCs
  <2>4. Knows(new, Made') /\ Holds(new, store')
    BY <2>1, <2>2, <1>t DEF Knows, Holds, Jobs, JobOK
  <2> QED
    BY <2>1, <2>3, <2>4 DEF Moves, JobOK
<1>3. ASSUME NEW t \in Threads, CommitRaises(t) \/ CreateRaises(t) \/ CommitRef(t) PROVE Moves(t)
  BY <1>3, <1>r DEF CommitRaises, CreateRaises, CommitRef, Fails, Done
<1>4. ASSUME NEW t \in Threads, CommitBranch(t) \/ CommitCreates(t) PROVE Moves(t)
  <2>1. PICK pc \in {"create", "ref"} :
           Goes(t, [job[t] EXCEPT !.pc = pc]) /\ job[t].pc \in {"branch", "create"}
    BY <1>4 DEF CommitBranch, CommitCreates, At
  <2> DEFINE new == [job[t] EXCEPT !.pc = pc]
  <2>2. new \in Jobs /\ JobOK(new, Made', store')
    BY <2>1, <1>t DEF Jobs, PCs, JobOK, Knows, Holds
  <2> QED
    BY <2>1, <2>2 DEF Moves
<1>5. ASSUME NEW t \in Threads, CallsPull(t) PROVE Moves(t)
  <2>1. PICK p \in Pulls :
            Calls(t, [Idle EXCEPT !.pc = "fetch", !.last = p.last, !.wanted = p.wanted])
    BY <1>5 DEF CallsPull
  <2> DEFINE new == [Idle EXCEPT !.pc = "fetch", !.last = p.last, !.wanted = p.wanted]
  <2>2. p.last \subseteq Names /\ p.wanted \subseteq Names
    BY BackendAssumption
  <2>3. new \in Jobs
    BY <2>2, <1>t DEF Jobs, Idle, PCs
  <2>4. Knows(new, Made') /\ Holds(new, store')
    BY DEF Knows, Holds, Idle
  <2> QED
    BY <2>1, <2>3, <2>4 DEF Moves, Calls, JobOK
<1>6. ASSUME NEW t \in Threads, PullFetches(t) PROVE Moves(t)
  <2> DEFINE found == Filtered(t)
             new == [job[t] EXCEPT !.pc = "apply", !.listing = found,
                                   !.todo = {n \in Names : found[n] # None}]
  <2>1. Goes(t, new) /\ Receives({Advertised(n) : n \in Wanted(t)}) /\ UNCHANGED graph
    BY <1>6 DEF PullFetches
  <2>2. \A n \in Names : Advertised(n) \in Made \cup {None}
    BY <1>0, RemoteKnown
  <2>3. Wanted(t) \subseteq Names
    BY <1>t DEF Wanted, Jobs
  <2>4. {Advertised(n) : n \in Wanted(t)} \subseteq store' \cup {None}
    BY <2>1, <2>2, <2>3, <1>0, ReceivesHistory DEF RepoOK
  <2>5. \A n \in Names : found[n] \in store' \cup {None} /\ found[n] \in Made \cup {None}
    BY <2>2, <2>4 DEF Filtered
  <2>9. \A n \in Names : found[n] # None => n \in Wanted(t)
    BY DEF Filtered
  <2>6. found \in [Names -> Commits \cup {None}]
    BY <2>5, <1>c DEF Filtered
  <2> HIDE DEF found
  <2>7. new \in Jobs
    BY <2>6, <1>t DEF Jobs, PCs
  <2>8. Knows(new, Made') /\ Holds(new, store')
    BY <2>5, <2>9, <1>c, <1>t DEF Knows, Holds, Jobs, JobOK, Wanted
  <2> QED
    BY <2>1, <2>7, <2>8 DEF Moves, JobOK
<1>7. ASSUME NEW t \in Threads, PullWrites(t) PROVE Moves(t)
  <2>1. PICK n \in job[t].todo : Goes(t, [job[t] EXCEPT !.todo = @ \ {n}])
    BY <1>7 DEF PullWrites
  <2> DEFINE new == [job[t] EXCEPT !.todo = @ \ {n}]
  <2>2. new \in Jobs
    BY <1>t DEF Jobs
  <2>3. Knows(new, Made') /\ Holds(new, store')
    BY <1>7, <1>t DEF Knows, Holds, Jobs, JobOK
  <2> QED
    BY <2>1, <2>2, <2>3 DEF Moves, JobOK
<1>8. ASSUME NEW t \in Threads, PullEnds(t) \/ PullHead(t) PROVE Moves(t)
  BY <1>8, <1>r DEF PullEnds, PullHead, Done, Fails
<1>9. ASSUME NEW t \in Threads, CallsSync(t) PROVE Moves(t)
  <2>1. PICK c \in Made \cup {None} : Calls(t, [Idle EXCEPT !.pc = "list", !.rev = c])
    BY <1>9 DEF CallsSync
  <2> DEFINE new == [Idle EXCEPT !.pc = "list", !.rev = c]
  <2>2. new \in Jobs
    BY <1>c, <1>t DEF Jobs, Idle, PCs
  <2>3. Knows(new, Made') /\ Holds(new, store')
    BY <1>c DEF Knows, Holds, Idle
  <2> QED
    BY <2>1, <2>2, <2>3 DEF Moves, Calls, JobOK
<1>10. ASSUME NEW t \in Threads, SyncLists(t) PROVE Moves(t)
  <2> DEFINE fetched == {r \in Refs : remote[r] # None /\ job[t].rev \in {None, remote[r]}}
             new == [job[t] EXCEPT !.pc = "chunk", !.todo = fetched]
  <2>1. Done(t) \/ Goes(t, new)
    BY <1>10 DEF SyncLists
  <2>2. fetched \subseteq Refs /\ fetched \subseteq Names
    BY DEF Names
  <2> HIDE DEF fetched
  <2>3. new \in Jobs
    BY <2>2, <1>t DEF Jobs, PCs
  <2>4. Knows(new, Made') /\ Holds(new, store')
    BY <2>2, <1>t DEF Knows, Holds, Jobs, JobOK
  <2> QED
    BY <2>1, <2>3, <2>4, <1>r DEF Moves, JobOK, Done
<1>11. ASSUME NEW t \in Threads, SyncFetches(t) PROVE Moves(t)
  <2>1. PICK chunk \in Chunks(job[t].todo) : Done(t) \/ Goes(t, [job[t] EXCEPT !.todo = @ \ chunk])
    BY <1>11 DEF SyncFetches
  <2> DEFINE new == [job[t] EXCEPT !.todo = @ \ chunk]
  <2>2. new \in Jobs
    BY <1>t DEF Jobs
  <2>3. Knows(new, Made') /\ Holds(new, store')
    BY <1>11, <1>t DEF Knows, Holds, Jobs, JobOK
  <2> QED
    BY <2>1, <2>2, <2>3, <1>r DEF Moves, JobOK, Done
<1>12. ASSUME NEW t \in Threads, SyncRefused(t) \/ SyncPush(t) \/ ChangesRef(t) \/ MissingRevs(t)
       PROVE  Moves(t)
  <2>1. CASE SyncRefused(t) \/ SyncPush(t) \/ MissingRevs(t)
    BY <2>1, <1>i, <1>r DEF SyncRefused, SyncPush, MissingRevs, Calls, Fails
  <2>2. CASE Calls(t, Idle) \/ Done(t)
    BY <2>2, <1>i, <1>r DEF Calls, Done
  <2>3. CASE \E b \in Branches, c \in store : Calls(t, Creation(b, c))
    <3>1. PICK b \in Branches, c \in store : Calls(t, Creation(b, c))
      BY <2>3
    <3> DEFINE new == Creation(b, c)
    <3>2. b \in Names
      BY DEF Names, Refs
    <3>3. new \in Jobs
      BY <3>2, <1>c, <1>t DEF Jobs, Idle, PCs, Creation
    <3>4. Knows(new, Made') /\ Holds(new, store')
      BY <1>c DEF Knows, Holds, Idle, Creation
    <3> QED
      BY <3>1, <3>3, <3>4 DEF Moves, Calls, JobOK
  <2> QED
    BY <1>12, <2>1, <2>2, <2>3, RefSteps
<1>13. ASSUME NEW t \in Threads, CallsRead(t) PROVE Moves(t)
  <2>1. PICK ask \in Asks : Calls(t, [Idle EXCEPT !.pc = "lookup", !.ask = ask])
    BY <1>13 DEF CallsRead
  <2> DEFINE new == [Idle EXCEPT !.pc = "lookup", !.ask = ask]
  <2>2. new \in Jobs
    BY <1>t DEF Jobs, Idle, PCs
  <2>3. Knows(new, Made') /\ Holds(new, store')
    BY DEF Knows, Holds, Idle
  <2> QED
    BY <2>1, <2>2, <2>3 DEF Moves, Calls, JobOK
<1>14. ASSUME NEW t \in Threads, NEW pc \in {"compute", "store"}, Goes(t, [job[t] EXCEPT !.pc = pc])
       PROVE  Moves(t)
  <2> DEFINE new == [job[t] EXCEPT !.pc = pc]
  <2>1. new \in Jobs /\ JobOK(new, Made', store')
    BY <1>t DEF Jobs, PCs, JobOK, Knows, Holds
  <2> QED
    BY <1>14, <2>1 DEF Moves
<1>15. ASSUME NEW t \in Threads,
              ReadHits(t) \/ ReadMisses(t) \/ ReadUncached(t) \/ ReadComputes(t) \/ ReadStores(t)
       PROVE  Moves(t)
  BY <1>15, <1>14, <1>r DEF ReadHits, ReadMisses, ReadUncached, ReadComputes, ReadStores, Computes
<1>16. ASSUME NEW t \in Threads, GitCommandFails(t) \/ Killed(t) PROVE Moves(t)
  BY <1>16, <1>14, <1>r, <1>i DEF GitCommandFails, Killed, Computes, Fails
<1>17. ASSUME NEW t \in Threads, ThreadStep(t) PROVE Moves(t)
  BY <1>17, <1>1, <1>2, <1>3, <1>4, <1>5, <1>6, <1>7, <1>8, <1>9, <1>10, <1>11, <1>12, <1>13, <1>15
     DEF ThreadStep, Commit, Pull, Sync, Read
<1>18. CASE Environment \/ CacheForgets \/ UNCHANGED vars
  BY <1>18, <1>u DEF Environment, CacheForgets, vars
<1> QED
  BY <1>16, <1>17, <1>18, <1>m DEF Next

---------------------------------------------------------------------------
(* The values: what is cached or answered is worth the question.           *)
Old == \A c \in Made : graph'[c] = graph[c]

\* Only two actions make a commit.
LEMMA GraphSteps ==
    ASSUME [Next]_vars
    PROVE  \/ UNCHANGED graph
           \/ \E t \in Threads : CommitObjects(t)
           \/ \E r \in Refs : RemoteCommits(r)
<1>1. ASSUME NEW t \in Threads, ThreadStep(t) \/ GitCommandFails(t) \/ Killed(t)
      PROVE  CommitObjects(t) \/ UNCHANGED graph
  BY <1>1 DEF ThreadStep, Commit, CallsCommit, CommitRaises, CommitBranch, CommitCreates, CreateRaises,
      CommitRef,
      Pull, CallsPull, PullFetches, PullWrites, PullEnds, PullHead,
      Sync, CallsSync, SyncLists, SyncFetches, SyncRefused, SyncPush, ChangesRef, MissingRevs,
      Read, CallsRead, ReadHits, ReadMisses, ReadUncached, ReadComputes, ReadStores,
      GitCommandFails, Killed, repo
<1> QED
  BY <1>1 DEF Next, Environment, CacheForgets, RemoteDeletes, vars, repo

LEMMA GraphKept ==
    ASSUME IInv, [Next]_vars
    PROVE  Old
<1>0. RepoOK
  BY DEF IInv, Typed, Held, RepoOK
<1>1. ASSUME NEW p \in Made \cup {None}, NEW edit \in Edits,
             Len(graph) + 1 <= MaxCommits, AddsCommit(Len(graph) + 1, p, edit)
      PROVE  Old
  BY <1>0, <1>1, Adds DEF Old, RepoOK
<1>2. ASSUME NEW t \in Threads, CommitObjects(t) PROVE Old
  <2>1. job[t].edit \in Edits /\ job[t].rev \in Made \cup {None}
    BY DEF IInv, Typed, JobsTyped, Jobs, JobsKnown, Knows
  <2> QED
    BY <1>1, <1>2, <2>1 DEF CommitObjects
<1>3. ASSUME NEW r \in Refs, RemoteCommits(r) PROVE Old
  <2>1. Len(graph) + 1 <= MaxCommits
    BY <1>0, <1>3, RepoAssumption DEF RepoOK, RepoTypeOK, RemoteCommits
  <2>2. remote[r] \in Made \cup {None} /\ [updated |-> {}, removed |-> {}] \in Edits
    BY <1>0 DEF RepoOK, RepoTypeOK, Edits
  <2> QED
    BY <1>1, <1>3, <2>1, <2>2 DEF RemoteCommits
<1>4. UNCHANGED graph => Old
  BY DEF Old
<1> QED
  BY <1>2, <1>3, <1>4, GraphSteps

LEMMA WorthLasts ==
    ASSUME RepoOK, Grows, Old, used \subseteq used',
           NEW ask, NEW val, NEW knew, Worth(ask, val, knew, used, store, graph)
    PROVE  Worth(ask, val, knew, used', store', graph')
<1>1. \A c \in store : c \in store' /\ graph'[c] = graph[c]
  BY DEF RepoOK, RepoTypeOK, Grows, Old
<1> QED
  BY <1>1 DEF Worth

LEMMA OneAnswer ==
    ASSUME RepoOK, Grows, Old, JobsOK, Values, used \subseteq used', used' \subseteq Contexts,
           CacheWorth',
           NEW t \in Threads, NEW new, NEW a,
           Goes(t, new), answer' = [answer EXCEPT ![t] = a],
           AskOK(new, used'), AnswerOK(a, used'),
           new.pc = "store" => Worth(new.ask, a.val, a.knew, used', store', graph')
    PROVE  Values'
<1>1. job \in [Threads -> Jobs] /\ answer = [u \in Threads |-> answer[u]]
  BY DEF JobsOK, JobsTyped, Values
<1>2. ASSUME NEW u \in Threads
      PROVE  /\ AskOK(job'[u], used') /\ AnswerOK(answer'[u], used')
             /\ job'[u].pc = "store"
                   => Worth(job'[u].ask, answer'[u].val, answer'[u].knew, used', store', graph')
  <2>1. CASE u = t
    BY <1>1, <2>1 DEF Goes
  <2>2. CASE u # t
    <3>1. job'[u] = job[u] /\ answer'[u] = answer[u]
      BY <1>1, <2>2 DEF Goes
    <3>2. AskOK(job[u], used') /\ AnswerOK(answer[u], used')
      BY DEF Values, AskOK, AnswerOK
    <3>3. job[u].pc = "store"
             => Worth(job[u].ask, answer[u].val, answer[u].knew, used', store', graph')
      BY WorthLasts DEF Values
    <3> QED
      BY <3>1, <3>2, <3>3
  <2> QED
    BY <2>1, <2>2
<1>3. answer' = [u \in Threads |-> answer'[u]]
  BY <1>1
<1> QED
  BY <1>2, <1>3 DEF Values

LEMMA EntriesLast ==
    ASSUME RepoOK, Grows, Old, Values, used \subseteq used', UNCHANGED cache
    PROVE  CacheWorth'
BY WorthLasts DEF Values, CacheWorth

LEMMA NewEntry ==
    ASSUME RepoOK, Grows, Old, Values, used \subseteq used',
           NEW k \in Keys, NEW v, cache' = With(cache, k, v),
           Worth(k, v.val, v.knew, used', store', graph')
    PROVE  CacheWorth'
<1>1. ASSUME NEW x \in DOMAIN cache PROVE Worth(x, cache[x].val, cache[x].knew, used', store', graph')
  BY WorthLasts DEF Values, CacheWorth
<1> QED
  BY <1>1 DEF With, Values, CacheWorth

\* The key of a question asks for no more than the question.
LEMMA KeyWorth ==
    ASSUME NEW ask \in Asks
    PROVE  /\ KeyOf(ask) \in Keys /\ KeyOf(ask).name = ask.name /\ KeyOf(ask).arg = ask.arg
           /\ ask.name \in KeyedByContext => KeyOf(ask).ctx = ask.ctx
           /\ KeyOf(ask).ctx # NoContext => KeyOf(ask).ctx = ask.ctx
BY DEF KeyOf, Keys, Asks

LEMMA ResultVal ==
    ASSUME NEW ask \in Asks, ask.name \in KeyedByCommit
    PROVE  Result(ask) = Lookup(ask.arg, CommitVal(ask.name, graph[ask.arg]))
<1>1. CASE ask.name = "parents"
  BY <1>1 DEF Result, CommitVal, parents
<1>2. CASE ask.name = "tree_items"
  BY <1>2 DEF Result, CommitVal, tree_items
<1>3. CASE ask.name = "blob"
  BY <1>3 DEF Result, CommitVal, blob
<1>4. CASE ask.name = "message"
  BY <1>4 DEF Result, CommitVal, message
<1> QED
  BY <1>1, <1>2, <1>3, <1>4, BackendAssumption DEF KeyedByCommit, GitMethods, Asks

LEMMA SeenWorth ==
    ASSUME Values, NEW ask \in Asks, CacheOn(ask), ask.ctx \in used, NeedsRefs(ask)
    PROVE  /\ RefsAsk(ask) \in Asks /\ KeyOf(RefsAsk(ask)) \in Keys
           /\ Worth(KeyOf(RefsAsk(ask)), Seen(ask).val, Seen(ask).knew, used, store, graph)
           /\ Seen(ask).knew \subseteq used /\ ask.ctx \in Seen(ask).knew
<1> DEFINE k == KeyOf(RefsAsk(ask))
<1>1. RefsAsk(ask) \in Asks
  BY BackendAssumption DEF RefsAsk, Asks, NeedsRefs
<1>2. k \in Keys /\ k.ctx = ask.ctx /\ k.name = "get_refs"
  BY <1>1, KeyWorth DEF RefsAsk, KeyedByContext
<1>3. CASE Hit(RefsAsk(ask))
  BY <1>1, <1>2, <1>3 DEF Seen, Hit, Values, CacheWorth, Worth, CacheOn
<1>4. CASE ~Hit(RefsAsk(ask))
  <2>1. Seen(ask) = [val |-> get_refs.val, knew |-> used]
    BY <1>4 DEF Seen
  <2> QED
    BY <1>1, <1>2, <2>1 DEF Worth, KeyedByCommit
<1> QED
  BY <1>3, <1>4

LEMMA ValuesStep ==
    ASSUME IInv, [Next]_vars
    PROVE  Values'
<1>0. RepoOK /\ Grows /\ Old /\ JobsOK /\ Values
  BY RepoStep, GraphKept DEF IInv, Typed, Held, JobsOK, RepoOK
<1>a. answer = [u \in Threads |-> answer[u]] /\ used \subseteq Contexts
  BY <1>0 DEF Values
<1>j. \A t \in Threads : job[t] \in Jobs /\ AskOK(job[t], used) /\ AnswerOK(answer[t], used)
  BY <1>0 DEF JobsOK, JobsTyped, Values
<1>s. AnswerOK(Silence, used)
  BY DEF AnswerOK, Silence, NoAsk
\* Steps of a thread that leave the cache alone and ask nothing new.
<1>q. ASSUME NEW t \in Threads, NEW new, NEW a, UNCHANGED <<cache, used>>,
             Goes(t, new), answer' = [answer EXCEPT ![t] = a],
             new.ask = NoAsk, new.pc \notin Reading, AnswerOK(a, used)
      PROVE  Values'
  <2>1. CacheWorth'
    BY <1>0, <1>q, EntriesLast
  <2>2. AskOK(new, used') /\ AnswerOK(a, used')
    BY <1>q DEF AskOK, Reading
  <2>3. new.pc # "store"
    BY <1>q DEF Reading
  <2> QED
    BY <1>0, <1>a, <1>q, <2>1, <2>2, <2>3, OneAnswer
<1>c. ASSUME NEW t \in Threads, NEW new, Calls(t, new), UNCHANGED <<cache, used>>,
             new.ask = NoAsk, new.pc \notin Reading
      PROVE  Values'
  BY <1>c, <1>q, <1>s DEF Calls
<1>g. ASSUME NEW t \in Threads, NEW new, Goes(t, new), UNCHANGED <<answer, cache, used>>,
             new.ask = NoAsk, new.pc \notin Reading
      PROVE  Values'
  <2>1. answer' = [answer EXCEPT ![t] = answer[t]]
    BY <1>a, <1>g
  <2> QED
    BY <1>g, <1>j, <1>q, <2>1
<1>i. Idle.ask = NoAsk /\ Idle.pc \notin Reading
  BY DEF Idle, Reading
<1>r. ASSUME NEW t \in Threads, NEW result, Replies(t, result, {}), UNCHANGED <<cache, used>>,
             job[t].pc \notin Reading
      PROVE  Values'
  <2> DEFINE a == [kind |-> result.kind, val |-> result.val, knew |-> {}, ask |-> job[t].ask]
  <2>1. AnswerOK(a, used)
    BY <1>r, <1>j DEF AskOK, AnswerOK, NoAsk
  <2> QED
    BY <1>r, <1>i, <1>q, <2>1 DEF Replies
<1>1. ASSUME NEW t \in Threads, Commit(t) PROVE Values'
  <2>1. UNCHANGED <<cache, used>>
    BY <1>1 DEF Commit, CallsCommit, CommitObjects, CommitRaises, CommitBranch, CommitCreates, CreateRaises,
      CommitRef, Keeps
  <2>2. CASE CallsCommit(t)
    <3>1. PICK b \in Branches, edit \in CommitEdits :
            Calls(t, [Idle EXCEPT !.pc = "objects", !.ref = b, !.rev = refs[b], !.edit = edit])
      BY <2>2 DEF CallsCommit
    <3> QED
      BY <2>1, <3>1, <1>c DEF Idle, Reading
  <2>3. CASE CommitObjects(t)
    <3>1. Goes(t, [job[t] EXCEPT !.pc = "branch", !.rev = Len(graph) + 1]) /\ job[t].ask = NoAsk
          /\ UNCHANGED answer
      BY <2>3, <1>j DEF CommitObjects, At, AskOK, Reading
    <3> QED
      BY <2>1, <3>1, <1>g, <1>j DEF Reading, Jobs
  <2>4. CASE CommitBranch(t) \/ CommitCreates(t)
    <3>1. PICK pc \in {"create", "ref"} :
             Goes(t, [job[t] EXCEPT !.pc = pc]) /\ job[t].ask = NoAsk /\ UNCHANGED answer
      BY <2>4, <1>j DEF CommitBranch, CommitCreates, At, AskOK, Reading
    <3> QED
      BY <2>1, <3>1, <1>g, <1>j DEF Reading, Jobs
  <2>5. CASE CommitRaises(t) \/ CreateRaises(t) \/ CommitRef(t)
    BY <2>1, <2>5, <1>r DEF CommitRaises, CreateRaises, CommitRef, At, Reading, Fails, Done
  <2> QED
    BY <1>1, <2>2, <2>3, <2>4, <2>5 DEF Commit
<1>2. ASSUME NEW t \in Threads, Pull(t) PROVE Values'
  <2>1. UNCHANGED <<cache, used>>
    BY <1>2 DEF Pull, CallsPull, PullFetches, PullWrites, PullEnds, PullHead, Keeps
  <2>2. CASE CallsPull(t)
    <3>1. PICK p \in Pulls :
            Calls(t, [Idle EXCEPT !.pc = "fetch", !.last = p.last, !.wanted = p.wanted])
      BY <2>2 DEF CallsPull
    <3> QED
      BY <2>1, <3>1, <1>c DEF Idle, Reading
  <2>3. CASE PullFetches(t)
    <3> DEFINE new == [job[t] EXCEPT !.pc = "apply", !.listing = Filtered(t),
                              !.todo = {n \in Names : Filtered(t)[n] # None}]
    <3>1. Goes(t, new) /\ job[t].ask = NoAsk /\ UNCHANGED answer
      BY <2>3, <1>j DEF PullFetches, At, AskOK, Reading
    <3>2. new.ask = NoAsk /\ new.pc \notin Reading
      BY <3>1, <1>j DEF Reading, Jobs
    <3> QED
      BY <2>1, <3>1, <3>2, <1>g
  <2>4. CASE PullWrites(t)
    <3>1. PICK n \in job[t].todo : Goes(t, [job[t] EXCEPT !.todo = @ \ {n}])
      BY <2>4 DEF PullWrites
    <3>2. job[t].ask = NoAsk /\ job[t].pc = "apply" /\ UNCHANGED answer
      BY <2>4, <1>j DEF PullWrites, At, AskOK, Reading
    <3>3. [job[t] EXCEPT !.todo = @ \ {n}].ask = NoAsk /\ [job[t] EXCEPT !.todo = @ \ {n}].pc = "apply"
      BY <3>2, <1>j DEF Jobs
    <3> QED
      BY <2>1, <3>1, <3>2, <3>3, <1>g DEF Reading
  <2>5. CASE PullEnds(t) \/ PullHead(t)
    BY <2>1, <2>5, <1>r DEF PullEnds, PullHead, At, Reading, Fails, Done
  <2> QED
    BY <1>2, <2>2, <2>3, <2>4, <2>5 DEF Pull
<1>3. ASSUME NEW t \in Threads, Sync(t) PROVE Values'
  <2>1. UNCHANGED <<cache, used>>
    BY <1>3 DEF Sync, CallsSync, SyncLists, SyncFetches, SyncRefused, SyncPush, Keeps
  <2>2. CASE CallsSync(t)
    <3>1. PICK c \in Made \cup {None} : Calls(t, [Idle EXCEPT !.pc = "list", !.rev = c])
      BY <2>2 DEF CallsSync
    <3> QED
      BY <2>1, <3>1, <1>c DEF Idle, Reading
  <2>3. CASE SyncLists(t)
    <3>1. job[t].ask = NoAsk /\ job[t].pc = "list"
      BY <2>3, <1>j DEF SyncLists, At, AskOK, Reading
    <3>2. CASE Done(t)
      BY <2>1, <3>1, <3>2, <1>r DEF Done, Reading
    <3>3. CASE \E fetched : Goes(t, [job[t] EXCEPT !.pc = "chunk", !.todo = fetched]) /\ UNCHANGED answer
      BY <2>1, <3>1, <3>3, <1>g, <1>j DEF Reading, Jobs
    <3> QED
      BY <2>3, <3>2, <3>3 DEF SyncLists
  <2>4. CASE SyncFetches(t)
    <3>1. job[t].ask = NoAsk /\ job[t].pc = "chunk"
      BY <2>4, <1>j DEF SyncFetches, At, AskOK, Reading
    <3>2. CASE Done(t)
      BY <2>1, <3>1, <3>2, <1>r DEF Done, Reading
    <3>3. CASE \E chunk : Goes(t, [job[t] EXCEPT !.todo = @ \ chunk]) /\ UNCHANGED answer
      BY <2>1, <3>1, <3>3, <1>g, <1>j DEF Reading, Jobs
    <3> QED
      BY <2>4, <3>2, <3>3 DEF SyncFetches
  <2>5. CASE SyncRefused(t)
    BY <2>1, <2>5, <1>r DEF SyncRefused, At, Reading, Fails
  <2>6. CASE SyncPush(t)
    BY <2>1, <2>6, <1>c, <1>i DEF SyncPush
  <2> QED
    BY <1>3, <2>2, <2>3, <2>4, <2>5, <2>6 DEF Sync
<1>4. ASSUME NEW t \in Threads, ChangesRef(t) \/ MissingRevs(t) PROVE Values'
  <2>1. UNCHANGED <<cache, used>>
    BY <1>4 DEF ChangesRef, MissingRevs
  <2>2. CASE Calls(t, Idle)
    BY <2>1, <2>2, <1>c, <1>i
  <2>3. CASE job[t].pc = "newbranch" /\ Done(t)
    BY <2>1, <2>3, <1>r DEF Done, Reading
  <2>4. CASE \E b \in Branches, c \in store : Calls(t, Creation(b, c))
    <3>1. PICK b \in Branches, c \in store : Calls(t, Creation(b, c))
      BY <2>4
    <3>2. Creation(b, c).ask = NoAsk /\ Creation(b, c).pc \notin Reading
      BY DEF Creation, Idle, Reading
    <3> QED
      BY <2>1, <3>1, <3>2, <1>c
  <2>5. CASE MissingRevs(t)
    BY <2>2, <2>5 DEF MissingRevs
  <2> QED
    BY <1>4, <2>2, <2>3, <2>4, <2>5, RefSteps
<1>5. ASSUME NEW t \in Threads, CallsRead(t) PROVE Values'
  <2>1. PICK ask \in Asks : /\ Calls(t, [Idle EXCEPT !.pc = "lookup", !.ask = ask])
                            /\ used' = (used \cup {ask.ctx}) \ {NoContext}
    BY <1>5 DEF CallsRead
  <2> DEFINE new == [Idle EXCEPT !.pc = "lookup", !.ask = ask]
  <2>2. used \subseteq used' /\ used' \subseteq Contexts /\ UNCHANGED cache
    BY <1>5, <1>a, <2>1, CacheAssumption DEF CallsRead, Asks
  <2>3. new.pc = "lookup" /\ new.ask = ask
    BY DEF Idle
  <2> HIDE DEF new
  <2>4. AskOK(new, used') /\ AnswerOK(Silence, used')
    <3>1. ask.ctx # NoContext => ask.ctx \in used'
      BY <2>1
    <3>2. new.pc \in Reading /\ new.pc \notin {"compute", "store"} /\ new.ask \in Asks
      BY <2>1, <2>3 DEF Reading
    <3>3. AskOK(new, used')
      BY <2>3, <3>1, <3>2 DEF AskOK
    <3> QED
      BY <2>2, <3>3, <1>s DEF AnswerOK
  <2>5. CacheWorth'
    BY <1>0, <2>2, EntriesLast
  <2>6. Goes(t, new) /\ answer' = [answer EXCEPT ![t] = Silence]
    BY <2>1 DEF Calls, new
  <2> QED
    BY <1>0, <2>2, <2>3, <2>4, <2>5, <2>6, OneAnswer
\* A read ends with a value that is fresh enough for its question.
<1>f. ASSUME NEW t \in Threads, NEW result, NEW knew, Replies(t, result, knew), UNCHANGED used,
             CacheWorth', job[t].pc \in Reading, knew \subseteq used,
             (/\ result.kind = "ok" /\ job[t].ask.ctx # NoContext
              /\ job[t].ask.name \notin KeyedByCommit \cup KeyedByCommitOnly)
               => job[t].ask.ctx \in knew
      PROVE  Values'
  <2> DEFINE a == [kind |-> result.kind, val |-> result.val, knew |-> knew, ask |-> job[t].ask]
  <2>1. AnswerOK(a, used)
    BY <1>f, <1>j DEF AskOK, AnswerOK
  <2>2. AskOK(Idle, used') /\ Idle.pc # "store" /\ used \subseteq used' /\ used' \subseteq Contexts
    BY <1>i, <1>a, <1>f DEF AskOK, Reading
  <2> QED
    BY <1>0, <1>f, <2>1, <2>2, OneAnswer DEF Replies
<1>6. ASSUME NEW t \in Threads, ReadHits(t) PROVE Values'
  <2> DEFINE ask == job[t].ask  e == cache[KeyOf(ask)]
  <2>1. ask \in Asks /\ job[t].pc \in Reading /\ Hit(ask) /\ UNCHANGED <<cache, used>>
        /\ Replies(t, Ok(e.val), e.knew) /\ CacheOn(ask)
    BY <1>6, <1>j DEF ReadHits, At, AskOK, Reading, Keeps
  <2>2. Worth(KeyOf(ask), e.val, e.knew, used, store, graph)
    BY <2>1, <1>0 DEF Hit, Values, CacheWorth
  <2>3. e.knew \subseteq used
        /\ (ask.name \notin KeyedByCommit \cup KeyedByCommitOnly => ask.ctx \in e.knew)
    BY <2>1, <2>2, KeyWorth, CacheAssumption DEF Worth, CacheOn, Asks
  <2>4. CacheWorth'
    BY <1>0, <2>1, EntriesLast
  <2> QED
    BY <2>1, <2>3, <2>4, <1>f
<1>7. ASSUME NEW t \in Threads, ReadMisses(t) PROVE Values'
  <2> DEFINE new == [job[t] EXCEPT !.pc = "compute"]
  <2>1. /\ Goes(t, new) /\ UNCHANGED <<cache, used, answer>> /\ job[t].pc \in Reading
        /\ CacheOn(job[t].ask)
    BY <1>7 DEF ReadMisses, At, Reading, Keeps
  <2>2. new.pc = "compute" /\ new.ask = job[t].ask
    BY <1>j DEF Jobs
  <2>3. AskOK(new, used)
    BY <2>1, <2>2, <1>j DEF AskOK, Reading
  <2>4. answer' = [answer EXCEPT ![t] = answer[t]]
    BY <1>a, <2>1
  <2>5. CacheWorth'
    BY <1>0, <2>1, EntriesLast
  <2> HIDE DEF new
  <2> QED
    BY <1>0, <1>a, <1>j, <2>1, <2>2, <2>3, <2>4, <2>5, OneAnswer
<1>8. ASSUME NEW t \in Threads, ReadUncached(t) PROVE Values'
  <2>1. job[t].pc \in Reading /\ UNCHANGED <<cache, used>> /\ Replies(t, Result(job[t].ask), used)
    BY <1>8 DEF ReadUncached, At, Reading, Keeps
  <2>2. job[t].ask.ctx # NoContext => job[t].ask.ctx \in used
    BY <2>1, <1>j DEF AskOK
  <2>3. CacheWorth'
    BY <1>0, <2>1, EntriesLast
  <2> QED
    BY <2>1, <2>2, <2>3, <1>f
<1>9. ASSUME NEW t \in Threads, NEW v, NEW knew, Computes(t, v, knew), UNCHANGED used, CacheWorth',
             job[t].pc \in Reading, CacheOn(job[t].ask), Worth(job[t].ask, v, knew, used', store', graph')
      PROVE  Values'
  <2> DEFINE new == [job[t] EXCEPT !.pc = "store"]
             a == [ask |-> job[t].ask, kind |-> "computed", val |-> v, knew |-> knew]
  <2>1. Goes(t, new) /\ answer' = [answer EXCEPT ![t] = a]
    BY <1>9 DEF Computes
  <2>2. new.pc = "store" /\ new.ask = job[t].ask
    BY <1>j DEF Jobs
  <2>3. AskOK(new, used')
    BY <1>9, <2>2, <1>j DEF AskOK, Reading
  <2>4. AnswerOK(a, used')
    BY <1>9, <1>j DEF AnswerOK, AskOK, Worth
  <2>5. Worth(new.ask, a.val, a.knew, used', store', graph')
    BY <1>9, <2>2
  <2> HIDE DEF new, a
  <2> QED
    BY <1>0, <1>a, <1>9, <2>1, <2>2, <2>3, <2>4, <2>5, OneAnswer
<1>k. ASSUME NEW t \in Threads, At(t, "compute") \/ At(t, "store")
      PROVE  /\ job[t].pc \in Reading
             /\ job[t].ask \in Asks /\ job[t].ask.ctx \in used /\ CacheOn(job[t].ask)
  BY <1>k, <1>j DEF At, AskOK, Reading, CacheOn
<1>10. ASSUME NEW t \in Threads, ReadComputes(t) PROVE Values'
  <2> DEFINE ask == job[t].ask  inner == KeyOf(RefsAsk(ask))
  <2>1. /\ job[t].pc \in Reading /\ ask \in Asks /\ ask.ctx \in used /\ CacheOn(ask)
        /\ UNCHANGED <<repo, used>>
        /\ cache' = IF NeedsRefs(ask) THEN With(cache, inner, Seen(ask)) ELSE cache
    BY <1>10, <1>k DEF ReadComputes
  <2>2. store' = store /\ graph' = graph /\ used' = used
    BY <2>1 DEF repo
  <2>3. CacheWorth'
    <3>1. CASE NeedsRefs(ask)
      <4>1. inner \in Keys /\ Worth(inner, Seen(ask).val, Seen(ask).knew, used, store, graph)
        BY <2>1, <3>1, <1>0, SeenWorth
      <4> QED
        BY <2>1, <2>2, <3>1, <4>1, <1>0, NewEntry
    <3>2. CASE ~NeedsRefs(ask)
      BY <2>1, <2>2, <3>2, <1>0, EntriesLast
    <3> QED
      BY <3>1, <3>2
  <2>4. Knew(ask) \subseteq used /\ ask.ctx \in Knew(ask)
    BY <2>1, <1>0, SeenWorth DEF Knew
  <2>5. CASE Result(ask).kind = "ok"
    <3>1. Computes(t, Result(ask).val, Knew(ask))
      BY <1>10, <2>5 DEF ReadComputes
    <3>2. ask.name \in KeyedByCommit
             => ask.arg \in store /\ Result(ask).val = CommitVal(ask.name, graph[ask.arg])
      BY <2>1, <2>5, ResultVal DEF Lookup, Ok, Error
    <3>3. Worth(ask, Result(ask).val, Knew(ask), used', store', graph')
      BY <2>2, <2>4, <3>2 DEF Worth
    <3> QED
      BY <2>1, <2>2, <2>3, <3>1, <3>3, <1>9
  <2>6. CASE Result(ask).kind # "ok"
    <3>1. Replies(t, Result(ask), used)
      BY <1>10, <2>6 DEF ReadComputes
    <3> QED
      BY <2>1, <2>2, <2>3, <2>6, <3>1, <1>f
  <2> QED
    BY <2>5, <2>6
<1>11. ASSUME NEW t \in Threads, ReadStores(t) PROVE Values'
  <2> DEFINE ask == job[t].ask
             v == [val |-> answer[t].val, knew |-> answer[t].knew]
  <2>1. /\ job[t].pc \in Reading /\ job[t].pc = "store" /\ ask \in Asks
        /\ UNCHANGED <<repo, used>> /\ cache' = With(cache, KeyOf(ask), v)
        /\ Replies(t, Ok(answer[t].val), answer[t].knew)
    BY <1>11, <1>k DEF ReadStores, At
  <2>2. store' = store /\ graph' = graph /\ used' = used
    BY <2>1 DEF repo
  <2>3. Worth(ask, v.val, v.knew, used', store', graph')
    BY <2>1, <2>2, <1>0 DEF Values
  <2>4. Worth(KeyOf(ask), v.val, v.knew, used', store', graph') /\ KeyOf(ask) \in Keys
    BY <2>1, <2>3, KeyWorth DEF Worth
  <2>5. CacheWorth'
    BY <2>1, <2>2, <2>4, <1>0, NewEntry
  <2> QED
    BY <2>1, <2>2, <2>3, <2>5, <1>f DEF Worth
<1>12. ASSUME NEW t \in Threads, GitCommandFails(t) PROVE Values'
  <2>1. UNCHANGED <<repo, cache, used>> /\ store' = store /\ graph' = graph
    BY <1>12 DEF GitCommandFails, repo
  <2>2. CacheWorth'
    BY <2>1, <1>0, EntriesLast
  <2>3. CASE At(t, "compute") /\ job[t].ask.name = "get_all_commit_ids" /\ Computes(t, {}, used)
    <3>1. Worth(job[t].ask, {}, used, used', store', graph')
      BY <2>1, <2>3, <1>k DEF Worth, KeyedByCommit
    <3> QED
      BY <2>1, <2>2, <2>3, <3>1, <1>k, <1>9
  <2>4. CASE At(t, "compute") /\ Fails(t, "error")
    BY <2>1, <2>2, <2>4, <1>k, <1>f DEF Fails, Error
  <2>5. CASE job[t].pc \in {"fetch", "list", "chunk"} /\ Fails(t, "error")
    BY <2>1, <2>5, <1>r DEF Fails, Reading
  <2> QED
    BY <1>12, <2>3, <2>4, <2>5 DEF GitCommandFails
<1>13. ASSUME NEW t \in Threads, Killed(t) PROVE Values'
  BY <1>13, <1>i, <1>q, <1>s DEF Killed
<1>14. CASE UNCHANGED <<job, answer, used>> /\ CacheWorth'
  <2>1. ASSUME NEW t \in Threads
        PROVE  job[t].pc = "store"
                 => Worth(job[t].ask, answer[t].val, answer[t].knew, used', store', graph')
    BY <1>0, <1>14, WorthLasts DEF Values
  <2> QED
    BY <1>0, <1>14, <2>1 DEF Values
<1>15. CASE Environment \/ UNCHANGED vars
  <2>1. UNCHANGED <<cache, job, answer, used>>
    BY <1>15 DEF Environment, vars
  <2> QED
    BY <2>1, <1>0, <1>14, EntriesLast
<1>16. CASE CacheForgets
  <2>1. PICK k \in DOMAIN cache : cache' = [x \in DOMAIN cache \ {k} |-> cache[x]]
    BY <1>16 DEF CacheForgets, Forgets
  <2>2. UNCHANGED <<repo, job, answer, used>> /\ store' = store /\ graph' = graph
    BY <1>16 DEF CacheForgets, repo
  <2>3. CacheWorth'
    BY <2>1, <2>2, <1>0 DEF Values, CacheWorth
  <2> QED
    BY <2>2, <2>3, <1>14
<1>17. ASSUME NEW t \in Threads, Read(t) PROVE Values'
  BY <1>17, <1>5, <1>6, <1>7, <1>8, <1>10, <1>11 DEF Read
<1> QED
  BY <1>1, <1>2, <1>3, <1>4, <1>12, <1>13, <1>15, <1>16, <1>17 DEF Next, ThreadStep

---------------------------------------------------------------------------
(* A commit keeps what it was not asked to touch.                          *)
Keep(new, old, edit, c) ==
    /\ \A f \in edit.updated \ edit.removed : f \in DOMAIN new /\ new[f] = c
    /\ \A f \in DOMAIN old \ (edit.updated \cup edit.removed) :
           f \in DOMAIN new /\ new[f] = old[f]
    /\ DOMAIN new \subseteq DOMAIN old \cup edit.updated

LEMMA EditedKeeps ==
    ASSUME NEW old, NEW edit, NEW c
    PROVE  Keep(Edited(old, edit, c), old, edit, c)
<1> DEFINE up == Updated(old, edit.updated, c)
           kept == {q \in DOMAIN up : q \in edit.removed => SharesDirectory(up, q)}
<1>1. DOMAIN up = DOMAIN old \cup edit.updated
      /\ \A f \in DOMAIN up : up[f] = IF f \in edit.updated THEN c ELSE old[f]
  BY DEF Updated
<1>2. Edited(old, edit, c) = [p \in kept |-> up[p]]
  BY DEF Edited, Removed
<1> HIDE DEF up
<1>3. DOMAIN Edited(old, edit, c) = kept /\ \A f \in kept : Edited(old, edit, c)[f] = up[f]
  BY <1>2
<1>4. kept \subseteq DOMAIN up /\ \A f \in DOMAIN up \ edit.removed : f \in kept
  OBVIOUS
<1> HIDE DEF kept
<1> QED
  BY <1>1, <1>3, <1>4 DEF Keep

LEMMA EditAdds ==
    ASSUME RepoOK, EditKept, NEW p \in Made \cup {None}, NEW edit \in Edits,
           Len(graph) + 1 <= MaxCommits, AddsCommit(Len(graph) + 1, p, edit)
    PROVE  EditKept'
<1> DEFINE n == Len(graph) + 1
<1>1. /\ Made' = Made \cup {n} /\ n \notin Made
      /\ \A c \in Made : graph'[c] = graph[c]
      /\ graph'[n].parent = p /\ graph'[n].edit = edit
      /\ graph'[n].tree = Edited(TreeOf(p), edit, n)
  BY Adds DEF RepoOK
<1>2. \A c \in Made \cup {None} : TreeOf(c)' = TreeOf(c)
  BY <1>1 DEF TreeOf
<1>3. ASSUME NEW c \in Made'
      PROVE  Keep(graph'[c].tree, TreeOf(graph[c].parent)', graph'[c].edit, c)
  <2>1. CASE c = n
    BY <2>1, <1>1, <1>2, EditedKeeps DEF TreeOf
  <2>2. CASE c \in Made
    <3>1. graph'[c] = graph[c] /\ graph[c].parent \in Made \cup {None}
      BY <2>2, <1>1 DEF RepoOK, HistoryOK
    <3>2. TreeOf(graph[c].parent)' = TreeOf(graph[c].parent)
      BY <3>1, <1>1 DEF TreeOf
    <3>3. Keep(graph[c].tree, TreeOf(graph[c].parent), graph[c].edit, c)
      BY <2>2 DEF EditKept, Keep
    <3> QED
      BY <3>1, <3>2, <3>3
  <2> QED
    BY <2>1, <2>2, <1>1
<1> QED
  <2>1. EditKept' <=> \A c \in Made' :
            Keep(graph'[c].tree, TreeOf(graph[c].parent)', graph'[c].edit, c)
    BY DEF EditKept, Keep
  <2> QED
    BY <1>3, <2>1

LEMMA EditStep ==
    ASSUME IInv, [Next]_vars
    PROVE  EditKept'
<1>0. RepoOK /\ EditKept
  BY DEF IInv, Typed, Held, RepoOK
<1>1. CASE UNCHANGED graph
  BY <1>0, <1>1 DEF EditKept, Made, TreeOf
<1>2. ASSUME NEW t \in Threads, CommitObjects(t) PROVE EditKept'
  <2>1. job[t].edit \in Edits /\ job[t].rev \in Made \cup {None}
    BY DEF IInv, Typed, JobsTyped, Jobs, JobsKnown, Knows
  <2> QED
    BY <1>0, <1>2, <2>1, EditAdds DEF CommitObjects
<1>3. ASSUME NEW r \in Refs, RemoteCommits(r) PROVE EditKept'
  <2>1. Len(graph) + 1 <= MaxCommits
    BY <1>0, <1>3, RepoAssumption DEF RepoOK, RepoTypeOK, RemoteCommits
  <2>2. remote[r] \in Made \cup {None} /\ [updated |-> {}, removed |-> {}] \in Edits
    BY <1>0 DEF RepoOK, RepoTypeOK, Edits
  <2> QED
    BY <1>0, <1>3, <2>1, <2>2, EditAdds DEF RemoteCommits
<1> QED
  BY <1>1, <1>2, <1>3, GraphSteps

---------------------------------------------------------------------------
LEMMA CountersStep ==
    ASSUME CountersTyped, [Next]_vars
    PROVE  CountersTyped'
<1> USE BackendAssumption DEF CountersTyped
<1>1. calls \in Nat /\ reads \in Nat /\ faults \in Nat
      /\ MaxCalls \in Nat /\ MaxReads \in Nat /\ MaxFaults \in Nat
  OBVIOUS
<1> DEFINE C == calls' = calls \/ (calls < MaxCalls /\ calls' = calls + 1)
           R == reads' = reads \/ (reads < MaxReads /\ reads' = reads + 1)
           F == faults' = faults \/ (faults < MaxFaults /\ faults' = faults + 1)
<1>2. ASSUME NEW t \in Threads, Commit(t) \/ Pull(t) \/ Sync(t) PROVE C /\ R /\ F
  BY <1>2 DEF Commit, CallsCommit, CommitObjects, CommitRaises, CommitBranch, CommitCreates, CreateRaises,
      CommitRef,
      Pull, CallsPull, PullFetches, PullWrites, PullEnds, PullHead,
      Sync, CallsSync, SyncLists, SyncFetches, SyncRefused, SyncPush, Calls, Keeps
<1>3. ASSUME NEW t \in Threads, ChangesRef(t) \/ MissingRevs(t) \/ Read(t) PROVE C /\ R /\ F
  BY <1>3 DEF ChangesRef, SetRef, CreateBranch, NewBranch, RemoveRef, MissingRevs, Calls, Keeps,
      Read, CallsRead, ReadHits, ReadMisses, ReadUncached, ReadComputes, ReadStores
<1>4. ASSUME NEW t \in Threads, GitCommandFails(t) \/ Killed(t) PROVE C /\ R /\ F
  BY <1>4 DEF GitCommandFails, Killed
<1>5. ASSUME Environment \/ CacheForgets \/ UNCHANGED vars PROVE C /\ R /\ F
  BY <1>5 DEF Environment, CacheForgets, vars
<1> HIDE DEF C, R, F
<1>6. C /\ R /\ F
  <2>1. ASSUME NEW t \in Threads, ThreadStep(t) PROVE C /\ R /\ F
    BY <1>2, <1>3, <2>1 DEF ThreadStep
  <2> QED
    BY <1>4, <1>5, <2>1 DEF Next
<1>7. calls' \in 0..MaxCalls
  BY <1>1, <1>6 DEF C
<1>8. reads' \in 0..MaxReads
  BY <1>1, <1>6 DEF R
<1>9. faults' \in 0..MaxFaults
  BY <1>1, <1>6 DEF F
<1> QED
  BY <1>7, <1>8, <1>9

LEMMA StartsOK == Init => IInv
<1> SUFFICES ASSUME Init PROVE IInv
  OBVIOUS
<1> USE DEF Init, RepoInit, CacheInit
<1> DEFINE first == [parent |-> None, history |-> {1}, tree |-> [f \in FirstTree |-> 1],
                     edit |-> [updated |-> FirstTree, removed |-> {}]]
<1>1. MaxCommits \in Nat /\ 1 \in Commits /\ Commits = 1..MaxCommits
  BY RepoAssumption DEF Commits
<1>2. [f \in FirstTree |-> 1] \in [FirstTree -> Commits] /\ FirstTree \in SUBSET Files
  BY <1>1, RepoAssumption
<1>3. [f \in FirstTree |-> 1] \in Trees
  BY <1>2 DEF Trees
<1>4. first \in CommitRecords
  BY <1>1, <1>2, <1>3 DEF CommitRecords, Edits, None
<1>5. graph = <<first>> /\ Len(graph) = 1 /\ graph[1] = first /\ graph \in Seq(CommitRecords)
  BY <1>4
<1>6. Made = {1}
  BY <1>5 DEF Made
<1> HIDE DEF first
<1>7. first.history = {1} /\ first.parent = None /\ first.edit = [updated |-> FirstTree, removed |-> {}]
      /\ first.tree = [f \in FirstTree |-> 1]
  BY DEF first
<1>8. RepoTypeOK
  BY <1>1, <1>5, <1>6 DEF RepoTypeOK
<1>9. HistoryOK /\ StoreClosed /\ RefsHeld
  BY <1>5, <1>6, <1>7 DEF HistoryOK, StoreClosed, RefsHeld
<1>10. \A t \in Threads : JobOK(Idle, Made, store)
  BY IdleOK
<1>11. JobsTyped /\ JobsKnown /\ JobsHold
  BY <1>10 DEF JobOK, JobsTyped, JobsKnown, JobsHold
<1>12. CountersTyped
  BY BackendAssumption DEF CountersTyped
<1>13. DOMAIN cache = {}
  OBVIOUS
<1>14. CacheTyped
  BY <1>13 DEF CacheTyped, Silence
<1>15. Values
  <2>1. Idle.ask = NoAsk /\ Idle.pc = "idle" /\ Silence.knew = {} /\ Silence.ask = NoAsk
        /\ Silence.kind = "none"
    BY DEF Idle, Silence
  <2> QED
    BY <1>13, <2>1 DEF Values, CacheWorth, AskOK, AnswerOK, Reading
<1>16. EditKept
  <2>1. TreeOf(None) = <<>> /\ DOMAIN <<>> = {}
    BY DEF TreeOf
  <2> QED
    BY <1>5, <1>6, <1>7, <2>1 DEF EditKept
<1> QED
  BY <1>8, <1>9, <1>11, <1>12, <1>14, <1>15, <1>16 DEF IInv, Typed, Held

LEMMA Inductive == IInv /\ [Next]_vars => IInv'
<1> SUFFICES ASSUME IInv, [Next]_vars PROVE IInv'
  OBVIOUS
<1>1. RepoOK' /\ JobsOK' /\ Values' /\ EditKept' /\ CountersTyped'
  BY RepoStep, JobsStep, ValuesStep, EditStep, CountersStep DEF IInv, Typed
<1>2. CacheTyped'
  BY <1>1 DEF Values, CacheWorth, Worth, AnswerOK, CacheTyped
<1> QED
  BY <1>1, <1>2 DEF IInv, Typed, Held, RepoOK, JobsOK

LEMMA Invariant == Spec => []IInv
BY StartsOK, Inductive, PTL DEF Spec

---------------------------------------------------------------------------
(* Type correctness, for any number of threads, refs, files and commits.   *)
THEOREM TypeCorrect == Spec => []TypeOK
<1>1. IInv => TypeOK
  BY TypedIsTypeOK DEF IInv
<1> QED
  BY <1>1, Invariant, PTL

(* Every ref names a commit whose whole history the repository holds.      *)
THEOREM ObjectsFirst == Spec => []RefsClosed
<1>1. IInv => RefsClosed
  BY DEF IInv, Held, Typed, RefsHeld, StoreClosed, RefsClosed, HistoryOf, History
<1> QED
  BY <1>1, Invariant, PTL

(* A commit writes its files and keeps the others.                         *)
THEOREM EditsLand == Spec => []EditKept
<1>1. IInv => EditKept
  BY DEF IInv
<1> QED
  BY <1>1, Invariant, PTL

(* A new context is never answered with what was known before it.          *)
THEOREM Fresh == Spec => []ContextFresh
<1>1. IInv => ContextFresh
  BY DEF IInv, Values, AnswerOK, ContextFresh
<1> QED
  BY <1>1, Invariant, PTL

\* A step that moves a thread is the thread's own, and cuts no other's short.
LEMMA OwnStep ==
    ASSUME IInv, [Next]_vars, NEW t \in Threads, job'[t] # job[t]
    PROVE  ThreadStep(t) \/ GitCommandFails(t) \/ Killed(t)
<1>1. job \in [Threads -> Jobs]
  BY DEF IInv, Typed, JobsTyped
<1>2. ASSUME NEW u \in Threads, \E new : Goes(u, new) PROVE u = t
  BY <1>1, <1>2 DEF Goes
<1>r. ASSUME NEW u \in Threads, NEW result, NEW knew, Replies(u, result, knew) PROVE u = t
  BY <1>2, <1>r DEF Replies
<1>c. ASSUME NEW u \in Threads, NEW new, Calls(u, new) PROVE u = t
  BY <1>2, <1>c DEF Calls
<1>3. ASSUME NEW u \in Threads, Commit(u) PROVE u = t
  BY <1>2, <1>3, <1>r, <1>c
     DEF Commit, CallsCommit, CommitObjects, CommitRaises, CommitBranch, CommitCreates, CreateRaises,
      CommitRef, Done, Fails
<1>4. ASSUME NEW u \in Threads, Pull(u) PROVE u = t
  BY <1>2, <1>4, <1>r, <1>c DEF Pull, CallsPull, PullFetches, PullWrites, PullEnds, PullHead, Done, Fails
<1>5. ASSUME NEW u \in Threads, Sync(u) PROVE u = t
  BY <1>2, <1>5, <1>r, <1>c
     DEF Sync, CallsSync, SyncLists, SyncFetches, SyncRefused, SyncPush, Done, Fails
<1>6. ASSUME NEW u \in Threads, ChangesRef(u) \/ MissingRevs(u) PROVE u = t
  BY <1>6, <1>c, <1>r, RefSteps DEF MissingRevs, Done
<1>7. ASSUME NEW u \in Threads, Read(u) PROVE u = t
  BY <1>2, <1>7, <1>r, <1>c
     DEF Read, CallsRead, ReadHits, ReadMisses, ReadUncached, ReadComputes, ReadStores, Computes
<1>8. ASSUME NEW u \in Threads, GitCommandFails(u) \/ Killed(u) PROVE u = t
  BY <1>2, <1>8, <1>r DEF GitCommandFails, Killed, Computes, Fails
<1>9. PICK u \in Threads : ThreadStep(u) \/ GitCommandFails(u) \/ Killed(u)
  BY DEF Next, Environment, CacheForgets, vars
<1> QED
  BY <1>3, <1>4, <1>5, <1>6, <1>7, <1>8, <1>9 DEF ThreadStep

(* A pull writes what it was asked for, as the other repository had it.    *)
THEOREM PullWritesItsOwn == Spec => PullKeepsOthers
<1> DEFINE Own ==
      \A t \in Threads, r \in Refs :
          /\ At(t, "apply") /\ job[t] # job'[t]
          /\ refs'[r] # refs[r]
          => \/ r \in Wanted(t) /\ refs'[r] = job[t].listing[r]
             \/ r = HeadBranch /\ refs'[r] \in {job[t].listing[n] : n \in Wanted(t)} \ {None}
<1>1. ASSUME IInv, [Next]_vars, NEW t \in Threads, NEW r \in Refs,
             At(t, "apply"), job[t] # job'[t], refs'[r] # refs[r]
      PROVE  \/ r \in Wanted(t) /\ refs'[r] = job[t].listing[r]
             \/ r = HeadBranch /\ refs'[r] \in {job[t].listing[n] : n \in Wanted(t)} \ {None}
  <2>1. Holds(job[t], store) /\ job[t].pc = "apply" /\ job[t] \in Jobs
    BY <1>1 DEF IInv, Typed, Held, JobsHold, JobsTyped, At
  <2>2. Pull(t) \/ Killed(t)
    <3>1. ThreadStep(t) \/ GitCommandFails(t) \/ Killed(t)
      BY <1>1, OwnStep
    <3>2. ~(Commit(t) \/ Sync(t) \/ ChangesRef(t) \/ MissingRevs(t))
      BY <2>1 DEF Commit, CallsCommit, CommitObjects, CommitRaises, CommitBranch, CommitCreates, CreateRaises,
      CommitRef,
          Sync, CallsSync, SyncLists, SyncFetches, SyncRefused, SyncPush,
          ChangesRef, SetRef, CreateBranch, NewBranch, RemoveRef, MissingRevs, Calls, At
    <3>3. ~(Read(t) \/ GitCommandFails(t))
      BY <2>1 DEF Read, CallsRead, ReadHits, ReadMisses, ReadUncached, ReadComputes, ReadStores,
          GitCommandFails, Calls, At
    <3> QED
      BY <3>1, <3>2, <3>3 DEF ThreadStep
  <2>3. refs \in [Refs -> Made \cup {None}]
    BY <1>1 DEF IInv, Typed, RepoTypeOK
  <2>4. ASSUME NEW n \in Names, NEW c, WritesRef(n, c)
        PROVE  refs'[r] = c /\ (n = r \/ (n = HEAD /\ r = HeadBranch))
    BY <1>1, <2>3, <2>4 DEF WritesRef, RefOf
  <2>5. \A n \in Names : job[t].listing[n] # None => n \in Wanted(t)
    BY <2>1 DEF Holds, Wanted
  <2>6. CASE PullWrites(t)
    <3>1. PICK n \in job[t].todo : WritesRef(n, job[t].listing[n])
      BY <2>6 DEF PullWrites
    <3>2. n \in Names /\ job[t].listing[n] # None
      BY <2>1, <3>1 DEF Holds, Jobs
    <3> QED
      BY <2>4, <2>5, <3>1, <3>2
  <2>7. CASE PullHead(t)
    <3>1. PICK n \in job[t].last : job[t].listing[n] # None /\ WritesRef(HEAD, job[t].listing[n])
      BY <1>1, <2>7 DEF PullHead
    <3>2. n \in Names /\ HEAD \in Names /\ r # HEAD
      BY <2>1, <3>1, RepoAssumption DEF Jobs, Names
    <3> QED
      BY <2>4, <2>5, <3>1, <3>2
  <2> QED
    BY <1>1, <2>1, <2>2, <2>6, <2>7
       DEF Pull, CallsPull, Calls, PullFetches, PullEnds, Killed, At, repo
<1>2. IInv /\ [Next]_vars => [Own]_vars
  BY <1>1
<1> QED
  BY <1>2, Invariant, PTL DEF PullKeepsOthers, Spec

(* A value of a commit is answered as it is, from the cache or not.        *)
THEOREM CommitsAnswered == Spec => CommitAnswerRight
<1> DEFINE Right ==
      \A t \in Threads :
          Answered(t) /\ job[t].ask.name \in KeyedByCommit =>
              /\ answer'[t].kind = Result(job[t].ask).kind
              /\ answer'[t].val = Result(job[t].ask).val
<1>1. ASSUME IInv, [Next]_vars, NEW t \in Threads, Answered(t), job[t].ask.name \in KeyedByCommit
      PROVE  /\ answer'[t].kind = Result(job[t].ask).kind
             /\ answer'[t].val = Result(job[t].ask).val
  <2> DEFINE ask == job[t].ask
  <2>1. /\ job \in [Threads -> Jobs] /\ answer = [u \in Threads |-> answer[u]]
        /\ AskOK(job[t], used) /\ CacheWorth
        /\ job[t].pc = "store" => Worth(ask, answer[t].val, answer[t].knew, used, store, graph)
    BY <1>1 DEF IInv, Typed, JobsTyped, Values
  <2>2. ask # NoAsk /\ job[t].pc \in Reading /\ ask \in Asks
    BY <1>1, <2>1 DEF AskOK, NoAsk, KeyedByCommit
  <2>3. Result(ask) = Lookup(ask.arg, CommitVal(ask.name, graph[ask.arg]))
    BY <1>1, <2>2, ResultVal
  <2>4. ThreadStep(t) \/ GitCommandFails(t) \/ Killed(t)
    BY <1>1, OwnStep DEF Answered, At
  <2>5. ASSUME NEW result, NEW knew, Replies(t, result, knew)
        PROVE  answer'[t].kind = result.kind /\ answer'[t].val = result.val
    BY <2>1, <2>5 DEF Replies
  <2>6. ASSUME NEW v, ask.arg \in store, v = CommitVal(ask.name, graph[ask.arg])
        PROVE  Result(ask) = Ok(v)
    BY <2>3, <2>6 DEF Lookup
  <2>7. CASE ReadHits(t)
    <3>1. KeyOf(ask).name = ask.name /\ KeyOf(ask).arg = ask.arg
      BY <2>2, KeyWorth
    <3>2. KeyOf(ask) \in DOMAIN cache /\ Replies(t, Ok(cache[KeyOf(ask)].val), cache[KeyOf(ask)].knew)
      BY <2>7 DEF ReadHits, Hit
    <3>3. Worth(KeyOf(ask), cache[KeyOf(ask)].val, cache[KeyOf(ask)].knew, used, store, graph)
      BY <2>1, <3>2 DEF CacheWorth
    <3>4. Result(ask) = Ok(cache[KeyOf(ask)].val)
      BY <1>1, <2>6, <3>1, <3>3 DEF Worth
    <3> QED
      BY <2>5, <3>2, <3>4
  <2>8. CASE ReadStores(t)
    <3>1. job[t].pc = "store" /\ Replies(t, Ok(answer[t].val), answer[t].knew)
      BY <2>8 DEF ReadStores, At
    <3>2. Result(ask) = Ok(answer[t].val)
      BY <1>1, <2>1, <2>6, <3>1 DEF Worth
    <3> QED
      BY <2>5, <3>1, <3>2
  <2>9. CASE ReadUncached(t)
    BY <2>5, <2>9 DEF ReadUncached
  <2>10. CASE ReadComputes(t)
    <3>1. Replies(t, Result(ask), used) \/ Goes(t, [job[t] EXCEPT !.pc = "store"])
      BY <2>10 DEF ReadComputes, Computes
    <3>2. CASE Goes(t, [job[t] EXCEPT !.pc = "store"])
      BY <1>1, <2>1, <3>2 DEF Goes, Answered, Jobs
    <3> QED
      BY <2>5, <3>1, <3>2
  <2>11. ~CallsRead(t)
    BY <2>2 DEF CallsRead, Calls, At, Reading
  <2>15. CASE ReadMisses(t)
    <3>1. job'[t].pc = "compute"
      BY <2>1, <2>15 DEF ReadMisses, Goes, Jobs
    <3> QED
      BY <1>1, <3>1 DEF Answered
  <2>12. CASE Killed(t)
    <3>1. answer'[t] = Silence
      BY <2>1, <2>12 DEF Killed
    <3> QED
      BY <1>1, <3>1 DEF Answered, Silence
  <2>13. ~GitCommandFails(t)
    <3>1. ask.name \notin {"get_all_commit_ids", "children", "node_history"}
      BY <1>1 DEF KeyedByCommit
    <3> QED
      BY <2>2, <3>1 DEF GitCommandFails, Reading
  <2>14. ~(Commit(t) \/ Pull(t) \/ Sync(t) \/ ChangesRef(t) \/ MissingRevs(t))
    BY <2>2 DEF Reading, Commit, CallsCommit, CommitObjects, CommitRaises, CommitBranch, CommitCreates, CreateRaises,
      CommitRef,
        Pull, CallsPull, PullFetches, PullWrites, PullEnds, PullHead,
        Sync, CallsSync, SyncLists, SyncFetches, SyncRefused, SyncPush,
        ChangesRef, SetRef, CreateBranch, NewBranch, RemoveRef, MissingRevs, Calls, At
  <2> QED
    BY <2>4, <2>7, <2>8, <2>9, <2>10, <2>11, <2>12, <2>13, <2>14, <2>15 DEF ThreadStep, Read
<1>2. IInv /\ [Next]_vars => [Right]_vars
  BY <1>1
<1> QED
  BY <1>2, Invariant, PTL DEF CommitAnswerRight, Spec
================================================================================
