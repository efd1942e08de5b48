---------------------------- MODULE GitPushProofs ----------------------------
(***************************************************************************)
(* What holds of every push, for any number of pushes at once, any         *)
(* branches and any history: proved from an invariant of each push alone.  *)
(***************************************************************************)
EXTENDS GitPush, TLAPS

Announcing == {"testHead", "fixHead", "logNew", "repoSize", "postPush"}

\* Where a push is, what it was told and what it has moved go together.
Orderly(p) ==
    /\ srv[p] \in {"advert", "spawn"} => git[p] = "none"
    /\ git[p] \in {"none", "pre", "prePush"} =>
           verdict[p] = "none" /\ changed[p] = {}
    /\ git[p] \in {"update", "post"} => verdict[p] \in {"approved", "skipped"}
    /\ git[p] \in Announcing => verdict[p] = "approved"
    /\ git[p] = "update" => todo[p] \subseteq Commands(p)
    /\ changed[p] # {} => verdict[p] \in {"approved", "skipped"}

\* RhodeCode was told of what the commands prune.
ToldRight(p) ==
    git[p] = "prePush" \/ verdict[p] = "approved" =>
        told[p] = [b \in Branches |-> Pruned(p, b)]

\* The commits branch b gains are among those collected.
Listed(p, b) ==
    Nil \notin {old[p][b], new[p][b]} =>
        RevList(new[p][b], old[p][b]) \subseteq commitIds[p]

\* git_post_receive has collected the branches it is through with.
Collecting(p) ==
    /\ git[p] \in {"testHead", "fixHead", "logNew"} => old[p][current[p]] = Nil
    /\ /\ git[p] \in {"post", "testHead", "fixHead", "logNew"}
       /\ verdict[p] = "approved"
       => \A b \in changed[p] \ todo[p] : Listed(p, b)
    /\ git[p] \in {"repoSize", "postPush"} => \A b \in changed[p] : Listed(p, b)
    /\ git[p] = "ended" /\ verdict[p] = "approved" /\ changed[p] # {} =>
           /\ post[p] # "none"
           /\ post[p] = "announced" => \A b \in changed[p] : Listed(p, b)

PushInv(p) == Orderly(p) /\ ToldRight(p) /\ Collecting(p)

IInv == TypeOK /\ \A p \in Pushers : PushInv(p)

USE PushAssumption DEF Ref

LEMMA RevListType ==
    ASSUME NEW r \in Revs, NEW s \in Revs
    PROVE  RevList(r, s) \in SUBSET Revs
BY DEF RevList

LEMMA PrunedType ==
    ASSUME TypeOK, NEW p \in Pushers, NEW b \in Branches
    PROVE  Pruned(p, b) \in SUBSET Revs
<1>1. old[p][b] \in Ref /\ new[p][b] \in Ref
  BY DEF TypeOK
<1> QED
  BY <1>1, RevListType DEF Pruned

LEMMA InitInv == Init => IInv
<1> SUFFICES ASSUME Init PROVE IInv
  OBVIOUS
<1>1. TypeOK
  <2>1. /\ refs \in [Branches -> Ref]
        /\ info \in [Branches -> Ref]
        /\ head \in Branches
    BY DEF Init
  <2>2. /\ old \in [Pushers -> [Branches -> Ref]]
        /\ new \in [Pushers -> [Branches -> Ref]]
        /\ seen \in [Pushers -> [Branches -> Ref]]
    BY <2>1 DEF Init
  <2>3. told \in [Pushers -> [Branches -> SUBSET Revs]]
    <3>1. [b \in Branches |-> {}] \in [Branches -> SUBSET Revs]
      OBVIOUS
    <3> QED
      BY <3>1 DEF Init
  <2>4. /\ srv \in [Pushers -> SrvPC]
        /\ git \in [Pushers -> GitPC]
        /\ todo \in [Pushers -> SUBSET Branches]
        /\ changed \in [Pushers -> SUBSET Branches]
        /\ commitIds \in [Pushers -> SUBSET Revs]
        /\ current \in [Pushers -> Branches]
    BY <2>1 DEF Init, SrvPC, GitPC
  <2>5. /\ verdict \in [Pushers -> {"none", "skipped", "approved", "refused"}]
        /\ post \in [Pushers -> {"none", "announced", "unreachable", "failed"}]
        /\ overlapped \in BOOLEAN
    BY DEF Init
  <2>6. 0 \in 0..2 /\ 0 \in 0..MaxFaults
    OBVIOUS
  <2>7. fds \in [Pushers -> 0..2] /\ faults \in 0..MaxFaults
    BY <2>6, Zenon DEF Init
  <2> QED
    BY <2>1, <2>2, <2>3, <2>4, <2>5, <2>7 DEF TypeOK
<1>2. \A p \in Pushers : PushInv(p)
  BY DEF Init, PushInv, Orderly, ToldRight, Collecting, Announcing
<1> QED
  BY <1>1, <1>2 DEF IInv

\* Each step keeps the types.
LEMMA StepType == TypeOK /\ [Next]_vars => TypeOK'
<1> SUFFICES ASSUME TypeOK, [Next]_vars PROVE TypeOK'
  OBVIOUS
<1> USE DEF TypeOK, SrvPC, GitPC, repo, command, work, hooks, faulty, SrvGoes,
            GitGoes
<1>1. ASSUME NEW p \in Pushers, SrvStep(p) PROVE TypeOK'
  <2>1. CASE Advertises(p)
    BY <2>1 DEF Advertises
  <2>2. CASE Spawns(p)
    BY <2>2 DEF Spawns
  <2>3. CASE Drains(p)
    BY <2>3 DEF Drains
  <2>4. CASE InfoReads(p)
    BY <2>4 DEF InfoReads
  <2>5. CASE InfoWrites(p)
    <3>1. info' \in [Branches -> Ref]
      BY <2>5 DEF InfoWrites
    <3>2. srv' \in [Pushers -> SrvPC]
      BY <2>5 DEF InfoWrites
    <3> QED
      BY <2>5, <3>1, <3>2 DEF InfoWrites
  <2> QED
    BY <1>1, <2>1, <2>2, <2>3, <2>4, <2>5 DEF SrvStep
<1>2. ASSUME NEW p \in Pushers, GitStep(p) PROVE TypeOK'
  <2>1. CASE CollectsPruned(p)
    <3>1. [b \in Branches |-> Pruned(p, b)] \in [Branches -> SUBSET Revs]
      BY PrunedType
    <3> QED
      BY <2>1, <3>1 DEF CollectsPruned
  <2>2. CASE PreReceive(p)
    <3>1. Commands(p) \in SUBSET Branches
      BY DEF Commands
    <3> QED
      BY <2>2, <3>1 DEF PreReceive, HooksOff, PrePush
  <2>3. ASSUME NEW b \in Branches, UpdatesRef(p, b) PROVE TypeOK'
    <3>1. new[p][b] \in Ref
      OBVIOUS
    <3>2. changed[p] \cup {b} \in SUBSET Branches
      OBVIOUS
    <3>3. refs' \in [Branches -> Ref]
      BY <2>3, <3>1 DEF UpdatesRef
    <3>4. changed' \in [Pushers -> SUBSET Branches]
      <4>1. \/ changed' = [changed EXCEPT ![p] = changed[p] \cup {b}]
            \/ changed' = changed
        BY <2>3 DEF UpdatesRef
      <4> QED
        BY <3>2, <4>1
    <3>5. todo' \in [Pushers -> SUBSET Branches]
      BY <2>3 DEF UpdatesRef
    <3>6. UNCHANGED <<head, info, srv, git, command, current, verdict, told,
                      commitIds, post, seen, fds, faulty>>
      BY <2>3 DEF UpdatesRef
    <3> QED
      BY <3>3, <3>4, <3>5, <3>6
  <2>4. ASSUME NEW b \in Branches, NEW ids \in SUBSET Revs, Collects(p, b, ids),
               GitGoes(p, "post", "post") \/ GitGoes(p, "logNew", "post")
        PROVE  TypeOK'
    <3>1. /\ commitIds[p] \cup ids \in SUBSET Revs
          /\ todo[p] \ {b} \in SUBSET Branches
      OBVIOUS
    <3> QED
      BY <2>4, <3>1 DEF Collects
  <2>5. ASSUME NEW b \in Branches, LogsUpdate(p, b) PROVE TypeOK'
    <3>1. RevList(new[p][b], old[p][b]) \in SUBSET Revs
      BY <2>5, RevListType DEF LogsUpdate
    <3> QED
      BY <2>4, <2>5, <3>1 DEF LogsUpdate
  <2>6. ASSUME NEW b \in Branches, NotesDelete(p, b) PROVE TypeOK'
    BY <2>4, <2>6 DEF NotesDelete
  <2>7. ASSUME NEW b \in Branches, StartsNew(p, b) PROVE TypeOK'
    BY <2>7 DEF StartsNew
  <2>8. CASE LogsNew(p)
    <3> DEFINE others == {c \in Branches \ {current[p]} : refs[c] # Nil}
               ids == IF others = {} /\ refs[head] # Nil
                      THEN Ancestors[refs[head]] ELSE {}
    <3>1. ids \in SUBSET Revs
      OBVIOUS
    <3>2. Collects(p, current[p], ids) /\ GitGoes(p, "logNew", "post")
      BY <2>8 DEF LogsNew
    <3> HIDE DEF ids
    <3> QED
      BY <2>4, <3>1, <3>2
  <2>9. CASE UpdateEnds(p)
    BY <2>9 DEF UpdateEnds
  <2>10. CASE PostOff(p) \/ HeadFound(p) \/ HeadMissing(p) \/ Collected(p)
              \/ RepoSize(p)
    BY <2>10 DEF PostOff, HeadFound, HeadMissing, Collected, RepoSize, PostJumps
  <2>11. CASE FixesHead(p)
    BY <2>11 DEF FixesHead
  <2>12. CASE LogFails(p) \/ PostPush(p)
    BY <2>12 DEF LogFails, PostPush
  <2> QED
    BY <1>2, <2>1, <2>2, <2>3, <2>5, <2>6, <2>7, <2>8, <2>9, <2>10, <2>11,
       <2>12 DEF GitStep
<1>3. ASSUME NEW p \in Pushers, GitDies(p) \/ WorkerDies(p) PROVE TypeOK'
  <2>1. faults' \in 0..MaxFaults
    BY <1>3 DEF GitDies, WorkerDies
  <2>2. git' \in [Pushers -> GitPC] /\ srv' \in [Pushers -> SrvPC]
    BY <1>3 DEF GitDies, WorkerDies
  <2>3. fds' \in [Pushers -> 0..2]
    <3>1. CASE GitDies(p)
      BY <3>1 DEF GitDies
    <3>2. CASE WorkerDies(p)
      <4>1. fds' = [fds EXCEPT ![p] = 0]
        BY <3>2 DEF WorkerDies
      <4> QED
        BY <4>1
    <3> QED
      BY <1>3, <3>1, <3>2
  <2>4. UNCHANGED <<repo, command, work, hooks, seen, overlapped>>
    BY <1>3 DEF GitDies, WorkerDies
  <2> QED
    BY <2>1, <2>2, <2>3, <2>4
<1>4. CASE UNCHANGED vars
  BY <1>4 DEF vars
<1> QED
  BY <1>1, <1>2, <1>3, <1>4 DEF Next

\* What PushInv(q) is about.
Same(q) ==
    /\ srv'[q] = srv[q] /\ git'[q] = git[q] /\ old'[q] = old[q]
    /\ new'[q] = new[q] /\ todo'[q] = todo[q] /\ current'[q] = current[q]
    /\ verdict'[q] = verdict[q] /\ told'[q] = told[q]
    /\ changed'[q] = changed[q] /\ commitIds'[q] = commitIds[q]
    /\ post'[q] = post[q]

LEMMA SameKeeps ==
    ASSUME NEW q \in Pushers, PushInv(q), Same(q) PROVE PushInv(q)'
<1>1. Commands(q)' = Commands(q)
  BY DEF Same, Commands
<1>2. \A b \in Branches : Pruned(q, b)' = Pruned(q, b)
  BY <1>1 DEF Same, Pruned
<1>3. [b \in Branches |-> Pruned(q, b)]' = [b \in Branches |-> Pruned(q, b)]
  BY <1>2
<1>4. \A b : Listed(q, b)' <=> Listed(q, b)
  BY DEF Same, Listed
<1>5. Orderly(q)'
  BY <1>1 DEF Same, PushInv, Orderly
<1>6. ToldRight(q)'
  BY <1>3 DEF Same, PushInv, ToldRight
<1>7. Collecting(q)'
  BY <1>4 DEF Same, PushInv, Collecting
<1> QED
  BY <1>5, <1>6, <1>7 DEF PushInv

\* A step of push p leaves every other push alone.
LEMMA OthersSame ==
    ASSUME TypeOK, NEW p \in Pushers, NEW q \in Pushers, q # p,
           SrvStep(p) \/ GitStep(p) \/ GitDies(p) \/ WorkerDies(p)
    PROVE  Same(q)
<1> USE DEF Same, TypeOK, repo, command, work, hooks, faulty, SrvGoes, GitGoes
<1>1. CASE SrvStep(p)
  <2>1. CASE Advertises(p)
    BY <2>1 DEF Advertises
  <2>2. CASE Spawns(p) \/ Drains(p)
    BY <2>2 DEF Spawns, Drains
  <2>3. CASE InfoReads(p) \/ InfoWrites(p)
    BY <2>3 DEF InfoReads, InfoWrites
  <2> QED
    BY <1>1, <2>1, <2>2, <2>3 DEF SrvStep
<1>2. CASE GitStep(p)
  <2>1. CASE CollectsPruned(p)
    BY <2>1 DEF CollectsPruned
  <2>2. CASE PreReceive(p)
    BY <2>2 DEF PreReceive, HooksOff, PrePush
  <2>3. ASSUME NEW b \in Branches, UpdatesRef(p, b) PROVE Same(q)
    <3>1. changed'[q] = changed[q]
      BY <2>3 DEF UpdatesRef
    <3> QED
      BY <2>3, <3>1 DEF UpdatesRef
  <2>4. ASSUME NEW b \in Branches, LogsUpdate(p, b) PROVE Same(q)
    BY <2>4 DEF LogsUpdate, Collects
  <2>5. ASSUME NEW b \in Branches, NotesDelete(p, b) PROVE Same(q)
    BY <2>5 DEF NotesDelete, Collects
  <2>6. ASSUME NEW b \in Branches, StartsNew(p, b) PROVE Same(q)
    BY <2>6 DEF StartsNew
  <2>7. CASE LogsNew(p)
    BY <2>7 DEF LogsNew, Collects
  <2>8. CASE UpdateEnds(p)
    BY <2>8 DEF UpdateEnds
  <2>9. CASE PostOff(p) \/ HeadFound(p) \/ HeadMissing(p) \/ Collected(p)
             \/ RepoSize(p)
    BY <2>9 DEF PostOff, HeadFound, HeadMissing, Collected, RepoSize, PostJumps
  <2>10. CASE FixesHead(p)
    BY <2>10 DEF FixesHead
  <2>11. CASE LogFails(p) \/ PostPush(p)
    BY <2>11 DEF LogFails, PostPush
  <2> QED
    BY <1>2, <2>1, <2>2, <2>3, <2>4, <2>5, <2>6, <2>7, <2>8, <2>9, <2>10, <2>11
       DEF GitStep
<1>3. CASE GitDies(p) \/ WorkerDies(p)
  BY <1>3 DEF GitDies, WorkerDies
<1> QED
  BY <1>1, <1>2, <1>3

\* What a step that leaves these alone keeps about push p.
LEMMA CommandsKept ==
    ASSUME NEW p \in Pushers, old'[p] = old[p], new'[p] = new[p]
    PROVE  /\ Commands(p)' = Commands(p)
           /\ \A b \in Branches : Pruned(p, b)' = Pruned(p, b)
           /\ [b \in Branches |-> Pruned(p, b)]'
                  = [b \in Branches |-> Pruned(p, b)]
<1>1. Commands(p)' = Commands(p)
  BY DEF Commands
<1>2. \A b \in Branches : Pruned(p, b)' = Pruned(p, b)
  BY <1>1 DEF Pruned
<1> QED
  BY <1>1, <1>2

LEMMA ListedKept ==
    ASSUME NEW p \in Pushers, old'[p] = old[p], new'[p] = new[p],
           commitIds[p] \subseteq commitIds'[p]
    PROVE  \A b : Listed(p, b) => Listed(p, b)'
BY DEF Listed

\* The server's steps.
LEMMA SrvKeeps ==
    ASSUME IInv, NEW p \in Pushers, SrvStep(p) PROVE PushInv(p)'
<1> USE DEF IInv, TypeOK, PushInv, repo, command, work, hooks, faulty, SrvGoes
<1>1. CASE Advertises(p)
  <2>1. /\ git'[p] = "none" /\ verdict'[p] = "none" /\ changed'[p] = {}
    BY <1>1 DEF Advertises, Orderly
  <2> QED
    BY <2>1 DEF Orderly, ToldRight, Collecting, Announcing
<1>2. CASE Spawns(p)
  <2>1. /\ git'[p] = "pre" /\ verdict'[p] = "none" /\ changed'[p] = {}
        /\ srv'[p] = "drain"
    BY <1>2 DEF Spawns, Orderly
  <2> QED
    BY <2>1 DEF Orderly, ToldRight, Collecting, Announcing
<1>3. CASE Drains(p) \/ InfoReads(p) \/ InfoWrites(p)
  <2>1. srv'[p] \notin {"advert", "spawn"}
    BY <1>3 DEF Drains, InfoReads, InfoWrites
  <2>2. UNCHANGED <<git, command, work, hooks>>
    BY <1>3 DEF Drains, InfoReads, InfoWrites
  <2>3. /\ Commands(p)' = Commands(p)
        /\ [b \in Branches |-> Pruned(p, b)]'
               = [b \in Branches |-> Pruned(p, b)]
    BY <2>2, CommandsKept
  <2>4. \A b : Listed(p, b) => Listed(p, b)'
    BY <2>2, ListedKept
  <2>5. Orderly(p)'
    BY <2>1, <2>2, <2>3 DEF Orderly
  <2>6. ToldRight(p)'
    BY <2>2, <2>3 DEF ToldRight
  <2>7. Collecting(p)'
    BY <2>2, <2>4 DEF Collecting
  <2> QED
    BY <2>5, <2>6, <2>7
<1> QED
  BY <1>1, <1>2, <1>3 DEF SrvStep

\* The pre-receive hook: from "pre" to "update" or to the end.
LEMMA PreKeeps ==
    ASSUME IInv, NEW p \in Pushers, CollectsPruned(p) \/ PreReceive(p)
    PROVE  PushInv(p)'
<1> USE DEF IInv, TypeOK, PushInv, repo, command, work, hooks, faulty, GitGoes
<1>1. /\ git[p] \in {"pre", "prePush"} /\ srv[p] \notin {"advert", "spawn"}
      /\ verdict[p] = "none" /\ changed[p] = {}
      /\ UNCHANGED <<srv, command, changed>>
  BY DEF CollectsPruned, PreReceive, HooksOff, PrePush, Orderly
<1>2. /\ Commands(p)' = Commands(p)
      /\ [b \in Branches |-> Pruned(p, b)]' = [b \in Branches |-> Pruned(p, b)]
  BY <1>1, CommandsKept
<1>3. CASE CollectsPruned(p)
  <2>1. /\ told'[p] = [b \in Branches |-> Pruned(p, b)]
        /\ git'[p] = "prePush" /\ verdict'[p] = "none"
    BY <1>1, <1>3 DEF CollectsPruned
  <2> QED
    BY <1>1, <1>2, <2>1 DEF Orderly, ToldRight, Collecting, Announcing
<1>4. CASE PreReceive(p)
  <2>1. todo'[p] = Commands(p) /\ told'[p] = told[p]
    BY <1>4 DEF PreReceive
  <2>2. \/ git'[p] = "update" /\ verdict'[p] = "skipped"
        \/ /\ git[p] = "prePush"
           /\ \/ git'[p] = "update" /\ verdict'[p] = "approved"
              \/ git'[p] = "ended" /\ verdict'[p] = "refused"
    BY <1>4 DEF PreReceive, HooksOff, PrePush, ScriptPasses, Raises
  <2>3. Orderly(p)'
    BY <1>1, <1>2, <2>1, <2>2 DEF Orderly, Announcing
  <2>4. ToldRight(p)'
    BY <1>1, <1>2, <2>1, <2>2 DEF ToldRight
  <2>5. Collecting(p)'
    BY <1>1, <2>2 DEF Collecting
  <2> QED
    BY <2>3, <2>4, <2>5
<1> QED
  BY <1>3, <1>4

\* git moves the refs.
LEMMA UpdateKeeps ==
    ASSUME IInv, NEW p \in Pushers,
           UpdateEnds(p) \/ \E b \in Branches : UpdatesRef(p, b)
    PROVE  PushInv(p)'
<1> USE DEF IInv, TypeOK, PushInv, repo, command, work, hooks, faulty, GitGoes
<1>1. /\ git[p] = "update" /\ srv[p] \notin {"advert", "spawn"}
      /\ git'[p] # "prePush"
      /\ verdict[p] \in {"approved", "skipped"}
      /\ UNCHANGED <<srv, command, current, verdict, told, commitIds, post>>
  BY DEF UpdateEnds, UpdatesRef, Orderly
<1>2. /\ Commands(p)' = Commands(p)
      /\ [b \in Branches |-> Pruned(p, b)]' = [b \in Branches |-> Pruned(p, b)]
  BY <1>1, CommandsKept
<1>3. ToldRight(p)'
  BY <1>1, <1>2 DEF ToldRight
<1>4. CASE UpdateEnds(p)
  <2>1. /\ changed'[p] = changed[p] /\ todo'[p] = changed[p]
        /\ \/ git'[p] = "ended" /\ changed[p] = {}
           \/ git'[p] = "post"
    BY <1>4 DEF UpdateEnds
  <2> QED
    BY <1>1, <1>3, <2>1 DEF Orderly, Collecting, Announcing
<1>5. ASSUME NEW b \in Branches, UpdatesRef(p, b) PROVE PushInv(p)'
  <2>1. git'[p] = "update" /\ todo'[p] = todo[p] \ {b}
    BY <1>5 DEF UpdatesRef
  <2> QED
    BY <1>1, <1>2, <1>3, <2>1 DEF Orderly, Collecting, Announcing
<1> QED
  BY <1>4, <1>5

\* git_post_receive collects a branch's commits.
LEMMA CollectKeeps ==
    ASSUME IInv, NEW p \in Pushers, NEW b \in Branches, NEW ids \in SUBSET Revs,
           git[p] \in {"post", "logNew"}, git'[p] = "post",
           verdict[p] = "approved", Collects(p, b, ids),
           \/ Nil \in {old[p][b], new[p][b]}
           \/ ids = RevList(new[p][b], old[p][b])
    PROVE  PushInv(p)'
<1> USE DEF IInv, TypeOK, PushInv, repo, command, work, hooks, faulty
<1>1. /\ UNCHANGED <<srv, command, verdict, told, changed, post>>
      /\ todo'[p] = todo[p] \ {b}
      /\ commitIds'[p] = commitIds[p] \cup ids
  BY DEF Collects
<1>2. [c \in Branches |-> Pruned(p, c)]' = [c \in Branches |-> Pruned(p, c)]
  BY <1>1, CommandsKept
<1>3. \A c : Listed(p, c) => Listed(p, c)'
  BY <1>1, ListedKept
<1>4. Listed(p, b)'
  BY <1>1 DEF Listed
<1>5. Collecting(p)'
  <2>1. \A c \in changed[p] \ todo[p] : Listed(p, c)
    BY DEF Collecting
  <2> QED
    BY <1>1, <1>3, <1>4, <2>1 DEF Collecting
<1>6. Orderly(p)' /\ ToldRight(p)'
  BY <1>1, <1>2 DEF Orderly, ToldRight, Announcing
<1> QED
  BY <1>5, <1>6

\* A step of the hook that collects nothing.
LEMMA PostKeeps ==
    ASSUME IInv, NEW p \in Pushers,
           \/ \E b \in Branches : StartsNew(p, b)
           \/ PostOff(p) \/ HeadFound(p) \/ HeadMissing(p) \/ FixesHead(p)
           \/ LogFails(p) \/ Collected(p) \/ RepoSize(p) \/ PostPush(p)
    PROVE  PushInv(p)'
<1> USE DEF IInv, TypeOK, PushInv, repo, command, work, hooks, faulty, GitGoes,
            PostJumps
<1>1. /\ git[p] \in {"post"} \cup Announcing
      /\ git'[p] # "prePush"
      /\ UNCHANGED <<srv, command, todo, verdict, told, changed, commitIds>>
  BY DEF StartsNew, PostOff, HeadFound, HeadMissing, FixesHead, LogFails,
         Collected, RepoSize, PostPush, Announcing
<1>2. [b \in Branches |-> Pruned(p, b)]' = [b \in Branches |-> Pruned(p, b)]
  BY <1>1, CommandsKept
<1>3. \A b : Listed(p, b) => Listed(p, b)'
  BY <1>1, ListedKept
<1>4. ToldRight(p)'
  BY <1>1, <1>2 DEF ToldRight, Orderly, Announcing
<1>5. CASE \E b \in Branches : StartsNew(p, b)
  <2>1. PICK b \in Branches : StartsNew(p, b)
    BY <1>5
  <2>2. /\ git[p] = "post" /\ git'[p] = "testHead" /\ current'[p] = b
        /\ old'[p][b] = Nil /\ verdict[p] = "approved"
    BY <2>1 DEF StartsNew, Orderly
  <2> QED
    BY <1>1, <1>3, <1>4, <2>2 DEF Orderly, Collecting, Announcing
<1>6. CASE PostOff(p)
  <2>1. git'[p] = "ended" /\ verdict'[p] = "skipped"
    BY <1>1, <1>6 DEF PostOff
  <2> QED
    BY <1>1, <1>4, <2>1 DEF Orderly, Collecting, Announcing
<1>7. CASE HeadFound(p) \/ HeadMissing(p) \/ FixesHead(p)
  <2>1. /\ git[p] \in {"testHead", "fixHead"}
        /\ git'[p] \in {"logNew", "fixHead"}
        /\ current'[p] = current[p]
    BY <1>7 DEF HeadFound, HeadMissing, FixesHead
  <2> QED
    BY <1>1, <1>3, <1>4, <2>1 DEF Orderly, Collecting, Announcing
<1>8. CASE LogFails(p)
  <2>1. git'[p] = "ended" /\ post'[p] = "failed" /\ git[p] = "logNew"
    BY <1>8 DEF LogFails
  <2> QED
    BY <1>1, <1>4, <2>1 DEF Orderly, Collecting, Announcing
<1>9. CASE Collected(p)
  <2>1. /\ git[p] = "post" /\ git'[p] = "repoSize" /\ todo[p] = {}
        /\ verdict[p] = "approved"
    BY <1>9 DEF Collected, Orderly
  <2> QED
    BY <1>1, <1>3, <1>4, <2>1 DEF Orderly, Collecting, Announcing
<1>10. CASE RepoSize(p)
  <2>1. git[p] = "repoSize" /\ git'[p] = "postPush"
    BY <1>10 DEF RepoSize
  <2> QED
    BY <1>1, <1>3, <1>4, <2>1 DEF Orderly, Collecting, Announcing
<1>11. CASE PostPush(p)
  <2>1. /\ git[p] = "postPush" /\ git'[p] = "ended"
        /\ post'[p] \in {"unreachable", "announced"}
    BY <1>11 DEF PostPush
  <2> QED
    BY <1>1, <1>3, <1>4, <2>1 DEF Orderly, Collecting, Announcing
<1> QED
  BY <1>5, <1>6, <1>7, <1>8, <1>9, <1>10, <1>11

\* A killed process.
LEMMA FaultKeeps ==
    ASSUME IInv, NEW p \in Pushers, GitDies(p) \/ WorkerDies(p)
    PROVE  PushInv(p)'
<1> USE DEF IInv, TypeOK, PushInv, command, work, hooks, repo
<1>1. UNCHANGED <<command, work, hooks>>
  BY DEF GitDies, WorkerDies
<1>2. \/ git'[p] = "dead" /\ srv'[p] = srv[p] /\ git[p] # "none"
      \/ git'[p] = git[p] /\ srv'[p] = "dead"
  BY DEF GitDies, WorkerDies
<1>3. /\ Commands(p)' = Commands(p)
      /\ [b \in Branches |-> Pruned(p, b)]' = [b \in Branches |-> Pruned(p, b)]
  BY <1>1, CommandsKept
<1>4. \A b : Listed(p, b) => Listed(p, b)'
  BY <1>1, ListedKept
<1>5. Orderly(p)'
  BY <1>1, <1>2, <1>3 DEF Orderly, Announcing
<1>6. ToldRight(p)'
  BY <1>1, <1>2, <1>3 DEF ToldRight
<1>7. Collecting(p)'
  BY <1>1, <1>2, <1>4 DEF Collecting
<1> QED
  BY <1>5, <1>6, <1>7

\* git's steps and its hooks'.
LEMMA GitKeeps ==
    ASSUME IInv, NEW p \in Pushers, GitStep(p) PROVE PushInv(p)'
<1>1. ASSUME NEW b \in Branches, LogsUpdate(p, b) PROVE PushInv(p)'
  <2>1. /\ git[p] = "post" /\ git'[p] = "post" /\ verdict[p] = "approved"
        /\ Collects(p, b, RevList(new[p][b], old[p][b]))
    BY <1>1 DEF LogsUpdate, GitGoes, IInv, TypeOK, PushInv, Orderly
  <2>2. RevList(new[p][b], old[p][b]) \in SUBSET Revs
    BY <1>1, RevListType DEF LogsUpdate, IInv, TypeOK
  <2> QED
    BY <2>1, <2>2, CollectKeeps
<1>2. ASSUME NEW b \in Branches, NotesDelete(p, b) PROVE PushInv(p)'
  <2>1. /\ git[p] = "post" /\ git'[p] = "post" /\ verdict[p] = "approved"
        /\ Collects(p, b, {}) /\ Nil \in {old[p][b], new[p][b]}
    BY <1>2 DEF NotesDelete, GitGoes, IInv, TypeOK, PushInv, Orderly
  <2> QED
    BY <2>1, CollectKeeps
<1>3. CASE LogsNew(p)
  <2> DEFINE others == {c \in Branches \ {current[p]} : refs[c] # Nil}
             ids == IF others = {} /\ refs[head] # Nil
                    THEN Ancestors[refs[head]] ELSE {}
  <2>1. ids \in SUBSET Revs
    BY DEF IInv, TypeOK
  <2>2. Collects(p, current[p], ids)
    BY <1>3 DEF LogsNew
  <2>3. /\ git[p] = "logNew" /\ git'[p] = "post" /\ verdict[p] = "approved"
        /\ current[p] \in Branches /\ old[p][current[p]] = Nil
    BY <1>3 DEF LogsNew, GitGoes, IInv, TypeOK, PushInv, Orderly, Collecting,
                Announcing
  <2> HIDE DEF ids
  <2> QED
    BY <2>1, <2>2, <2>3, CollectKeeps
<1> QED
  BY <1>1, <1>2, <1>3, PreKeeps, UpdateKeeps, PostKeeps DEF GitStep

LEMMA StepInv == IInv /\ [Next]_vars => IInv'
<1> SUFFICES ASSUME IInv, [Next]_vars PROVE IInv'
  OBVIOUS
<1>1. TypeOK /\ TypeOK'
  BY StepType DEF IInv
<1>2. ASSUME NEW q \in Pushers PROVE PushInv(q)'
  <2>1. ASSUME NEW p \in Pushers,
               SrvStep(p) \/ GitStep(p) \/ GitDies(p) \/ WorkerDies(p)
        PROVE  PushInv(q)'
    <3>1. CASE q = p
      BY <2>1, <3>1, SrvKeeps, GitKeeps, FaultKeeps
    <3>2. CASE q # p
      BY <1>1, <2>1, <3>2, OthersSame, SameKeeps DEF IInv
    <3> QED
      BY <3>1, <3>2
  <2>2. CASE UNCHANGED vars
    <3>1. Same(q)
      BY <2>2 DEF Same, vars, command, work, hooks
    <3> QED
      BY <3>1, SameKeeps DEF IInv
  <2> QED
    BY <2>1, <2>2 DEF Next
<1> QED
  BY <1>1, <1>2 DEF IInv

\* Every reachable state satisfies the inductive invariant.
THEOREM Invariance == Spec => []IInv
<1>1. Init => IInv
  BY InitInv
<1>2. IInv /\ [Next]_vars => IInv'
  BY StepInv
<1> QED
  BY <1>1, <1>2, PTL DEF Spec

\* Type correctness.
THEOREM TypeCorrect == Spec => []TypeOK
<1>1. IInv => TypeOK
  BY DEF IInv
<1> QED
  BY <1>1, Invariance, PTL

\* A push that RhodeCode did not approve moves no ref, whatever went wrong.
THEOREM Refused == Spec => []RefusedMovesNothing
<1>1. IInv => RefusedMovesNothing
  BY DEF IInv, PushInv, Orderly, RefusedMovesNothing
<1> QED
  BY <1>1, Invariance, PTL

\* A push that ends without having been announced, and what is announced.
THEOREM Announced == Spec => []MovedIsAnnounced
<1>1. IInv => MovedIsAnnounced
  BY DEF IInv, PushInv, Collecting, Listed, RevList, MovedIsAnnounced
<1> QED
  BY <1>1, Invariance, PTL

\* RhodeCode decides on the commits that are in fact pruned, even if other
\* pushes have moved the refs since the client read them.
THEOREM ToldPruned == Spec => PrunedAsTold
<1> DEFINE Told ==
      \A p \in Pushers : \A b \in changed'[p] \ changed[p] :
          /\ DetectForcePush
          /\ verdict[p] = "approved"
          /\ refs[b] # Nil
          /\ refs'[b] # Nil
          => told[p][b] = Ancestors[refs[b]] \ Ancestors[refs'[b]]
<1>1. ASSUME IInv, Next PROVE Told
  <2>1. SUFFICES ASSUME NEW p \in Pushers, NEW b \in changed'[p] \ changed[p],
                        DetectForcePush, verdict[p] = "approved",
                        refs[b] # Nil, refs'[b] # Nil
                 PROVE  told[p][b] = Ancestors[refs[b]] \ Ancestors[refs'[b]]
    OBVIOUS
  <2>2. UpdatesRef(p, b)
    <3>1. ASSUME NEW q \in Pushers, ~\E c \in Branches : UpdatesRef(q, c),
                 SrvStep(q) \/ GitStep(q) \/ GitDies(q) \/ WorkerDies(q)
          PROVE  changed' = changed
      <4>1. CASE SrvStep(q)
        BY <4>1 DEF SrvStep, Advertises, Spawns, Drains, InfoReads, InfoWrites,
                    hooks
      <4>2. CASE GitStep(q)
        BY <3>1, <4>2
           DEF GitStep, CollectsPruned, PreReceive, UpdateEnds, PostJumps,
               PostOff, LogsUpdate, NotesDelete, StartsNew, HeadFound,
               HeadMissing, FixesHead, LogsNew, LogFails, Collected, RepoSize,
               PostPush, Collects, hooks
      <4>3. CASE GitDies(q) \/ WorkerDies(q)
        BY <4>3 DEF GitDies, WorkerDies, hooks
      <4> QED
        BY <3>1, <4>1, <4>2, <4>3
    <3>2. PICK q \in Pushers, c \in Branches : UpdatesRef(q, c)
      BY <1>1, <3>1 DEF Next, vars, hooks
    <3>3. \/ changed' = [changed EXCEPT ![q] = changed[q] \cup {c}]
          \/ changed' = changed
      BY <3>2 DEF UpdatesRef
    <3>4. changed \in [Pushers -> SUBSET Branches]
      BY <1>1 DEF IInv, TypeOK
    <3>5. p = q /\ b = c
      BY <2>1, <3>3, <3>4
    <3> QED
      BY <3>2, <3>5
  <2>3. b \in Branches
    BY <2>2, <1>1 DEF UpdatesRef, IInv, TypeOK
  <2>4. b \in Commands(p) /\ git[p] = "update"
    BY <1>1, <2>2 DEF UpdatesRef, IInv, PushInv, Orderly
  <2>5. refs[b] = old[p][b] /\ refs'[b] = new[p][b]
    <3>1. refs \in [Branches -> Ref]
      BY <1>1 DEF IInv, TypeOK
    <3>2. changed'[p] # changed[p]
      BY <2>1
    <3> QED
      BY <2>2, <2>3, <3>1, <3>2 DEF UpdatesRef
  <2>6. told[p] = [c \in Branches |-> Pruned(p, c)]
    BY <1>1, <2>1 DEF IInv, PushInv, ToldRight
  <2>7. told[p][b] = Pruned(p, b)
    BY <2>3, <2>6
  <2> QED
    BY <2>1, <2>4, <2>5, <2>7 DEF Pruned, RevList
<1>2. ASSUME UNCHANGED vars PROVE Told
  BY <1>2 DEF vars, hooks
<1>3. IInv /\ [Next]_vars => [Told]_vars
  BY <1>1, <1>2
<1> QED
  BY <1>3, Invariance, PTL DEF Spec, PrunedAsTold

-------------------------------------------------------------------------------
(* info/refs, as long as no two pushes have overlapped.                    *)

\* update-server-info runs when git is through, and what it has read are
\* still the refs; only one push is at work.
InfoInv ==
    /\ \A p \in Pushers : srv[p] \in {"infoRead", "infoWrite"} =>
                              git[p] \in {"ended", "dead"}
    /\ ~overlapped =>
           /\ \A p, q \in Pushers : Busy(p) /\ Busy(q) => p = q
           /\ \A p \in Pushers : srv[p] = "infoWrite" => seen[p] = refs

\* Only Spawns makes a push busy.
LEMMA BusyKept ==
    ASSUME IInv, NEW p \in Pushers, NEW q \in Pushers, ~Spawns(p), Busy(q)',
           SrvStep(p) \/ GitStep(p) \/ GitDies(p) \/ WorkerDies(p)
    PROVE  Busy(q)
<1>1. CASE q # p
  BY <1>1, OthersSame DEF IInv, Same, Busy
<1>2. CASE q = p
  <2> USE DEF IInv, TypeOK, Busy, SrvGoes, GitGoes, command, work, hooks, repo
  <2>1. CASE SrvStep(p)
    BY <1>2, <2>1 DEF SrvStep, Advertises, Drains, InfoReads, InfoWrites
  <2>2. CASE GitStep(p)
    <3>1. git[p] \notin {"none", "ended", "dead"}
      BY <2>2 DEF GitStep, CollectsPruned, PreReceive, HooksOff, PrePush,
                  UpdatesRef, UpdateEnds, PostJumps, PostOff, LogsUpdate,
                  NotesDelete, StartsNew, HeadFound, HeadMissing, FixesHead,
                  LogsNew, LogFails, Collected, RepoSize, PostPush
    <3> QED
      BY <1>2, <3>1
  <2>3. CASE GitDies(p) \/ WorkerDies(p)
    BY <1>2, <2>3 DEF GitDies, WorkerDies
  <2> QED
    BY <2>1, <2>2, <2>3
<1> QED
  BY <1>1, <1>2

\* Refs move only while git works on a push, and only Spawns tests overlaps.
LEMMA RefsKept ==
    ASSUME IInv, NEW p \in Pushers,
           SrvStep(p) \/ GitStep(p) \/ GitDies(p) \/ WorkerDies(p)
    PROVE  /\ refs' # refs => git[p] = "update"
           /\ ~Spawns(p) => overlapped' = overlapped
<1> USE DEF repo, faulty
<1>1. CASE SrvStep(p)
  BY <1>1 DEF SrvStep, Advertises, Spawns, Drains, InfoReads, InfoWrites
<1>2. CASE GitStep(p)
  BY <1>2 DEF GitStep, CollectsPruned, PreReceive, UpdatesRef, UpdateEnds,
              PostJumps, PostOff, LogsUpdate, NotesDelete, StartsNew, HeadFound,
              HeadMissing, FixesHead, LogsNew, LogFails, Collected, RepoSize,
              PostPush, Collects
<1>3. CASE GitDies(p) \/ WorkerDies(p)
  BY <1>3 DEF GitDies, WorkerDies
<1> QED
  BY <1>1, <1>2, <1>3

LEMMA InfoStep == IInv /\ InfoInv /\ [Next]_vars => InfoInv'
<1> SUFFICES ASSUME IInv, InfoInv, [Next]_vars PROVE InfoInv'
  OBVIOUS
<1>1. CASE UNCHANGED vars
  BY <1>1 DEF vars, repo, faulty, InfoInv, Busy
<1>2. ASSUME NEW p \in Pushers,
             SrvStep(p) \/ GitStep(p) \/ GitDies(p) \/ WorkerDies(p)
      PROVE  InfoInv'
  <2>1. \A q \in Pushers \ {p} : srv'[q] = srv[q] /\ git'[q] = git[q]
    BY <1>2, OthersSame DEF IInv, Same
  <2>2. srv'[p] \in {"infoRead", "infoWrite"} => git'[p] \in {"ended", "dead"}
    <3> USE DEF IInv, TypeOK, SrvGoes, GitGoes, InfoInv
    <3>1. CASE SrvStep(p)
      BY <3>1 DEF SrvStep, Advertises, Spawns, Drains, InfoReads, InfoWrites
    <3>2. CASE GitStep(p)
      <4>1. git[p] \notin {"ended", "dead"}
        BY <3>2 DEF GitStep, CollectsPruned, PreReceive, HooksOff, PrePush,
                    UpdatesRef, UpdateEnds, PostJumps, PostOff, LogsUpdate,
                    NotesDelete, StartsNew, HeadFound, HeadMissing, FixesHead,
                    LogsNew, LogFails, Collected, RepoSize, PostPush
      <4>2. srv' = srv
        BY <3>2 DEF GitStep, CollectsPruned, PreReceive, UpdatesRef, UpdateEnds,
                    PostJumps, PostOff, LogsUpdate, NotesDelete, StartsNew,
                    HeadFound, HeadMissing, FixesHead, LogsNew, LogFails,
                    Collected, RepoSize, PostPush, Collects
      <4> QED
        BY <4>1, <4>2
    <3>3. CASE GitDies(p) \/ WorkerDies(p)
      BY <3>3 DEF GitDies, WorkerDies
    <3> QED
      BY <1>2, <3>1, <3>2, <3>3
  <2>3. ASSUME ~overlapped'
        PROVE  \A q, r \in Pushers : Busy(q)' /\ Busy(r)' => q = r
    <3>1. CASE Spawns(p)
      <4>1. \A q \in Pushers \ {p} : ~Busy(q)
        BY <2>3, <3>1 DEF Spawns
      <4>2. \A q \in Pushers \ {p} : ~Busy(q)'
        BY <2>1, <4>1 DEF Busy
      <4> QED
        BY <4>2
    <3>2. CASE ~Spawns(p)
      BY <1>2, <2>3, <3>2, BusyKept, RefsKept DEF InfoInv
    <3> QED
      BY <3>1, <3>2
  <2>4. ASSUME ~overlapped', NEW q \in Pushers, srv'[q] = "infoWrite"
        PROVE  seen'[q] = refs'
    <3>1. ~overlapped
      BY <1>2, <2>4, RefsKept DEF Spawns, SrvGoes
    <3>2. CASE InfoReads(q)
      BY <3>2 DEF InfoReads, repo, IInv, TypeOK
    <3>3. CASE ~InfoReads(q)
      <4>1. seen'[q] = seen[q]
        BY <1>2, <3>3
           DEF SrvStep, Advertises, Spawns, Drains, InfoReads, InfoWrites,
               GitStep, CollectsPruned, PreReceive, UpdatesRef, UpdateEnds,
               PostJumps, PostOff, LogsUpdate, NotesDelete, StartsNew,
               HeadFound, HeadMissing, FixesHead, LogsNew, LogFails, Collected,
               RepoSize, PostPush, Collects, GitDies, WorkerDies, IInv, TypeOK
      <4>2. srv[q] = "infoWrite"
        <5>1. CASE q = p
          BY <1>2, <2>4, <3>3, <5>1
             DEF SrvStep, Advertises, Spawns, Drains, InfoReads, InfoWrites,
                 SrvGoes, GitStep, CollectsPruned, PreReceive, UpdatesRef,
                 UpdateEnds, PostJumps, PostOff, LogsUpdate, NotesDelete,
                 StartsNew, HeadFound, HeadMissing, FixesHead, LogsNew,
                 LogFails, Collected, RepoSize, PostPush, Collects, GitDies,
                 WorkerDies, IInv, TypeOK
        <5>2. CASE q # p
          BY <2>1, <2>4, <5>2
        <5> QED
          BY <5>1, <5>2
      <4>3. Busy(q) /\ git[q] \in {"ended", "dead"} /\ seen[q] = refs
        BY <3>1, <4>2 DEF InfoInv, Busy
      <4>4. git[p] # "update"
        BY <3>1, <4>3 DEF InfoInv, Busy
      <4> QED
        BY <1>2, <4>1, <4>3, <4>4, RefsKept
    <3> QED
      BY <3>2, <3>3
  <2> QED
    BY <2>1, <2>2, <2>3, <2>4 DEF InfoInv
<1> QED
  BY <1>1, <1>2 DEF Next

\* A push that is answered leaves info/refs as the refs are, until two pushes
\* overlap.
THEOREM InfoIsFresh == Spec => InfoFresh
<1> DEFINE Fresh ==
      \A p \in Pushers :
          /\ srv[p] # "done" /\ srv'[p] = "done"
          /\ UpdateServerInfo
          /\ ~overlapped
          => info' = refs'
<1>1. Init => InfoInv
  BY DEF Init, InfoInv, Busy
<1>2. ASSUME IInv, InfoInv, Next PROVE Fresh
  <2> SUFFICES ASSUME NEW q \in Pushers, srv[q] # "done", srv'[q] = "done",
                      UpdateServerInfo, ~overlapped
               PROVE  info' = refs'
    OBVIOUS
  <2>1. PICK p \in Pushers :
            SrvStep(p) \/ GitStep(p) \/ GitDies(p) \/ WorkerDies(p)
    BY <1>2 DEF Next, vars
  <2>2. q = p
    BY <1>2, <2>1, OthersSame DEF IInv, Same
  <2>3. srv \in [Pushers -> SrvPC]
    BY <1>2 DEF IInv, TypeOK
  <2>4. CASE SrvStep(p)
    <3>1. ~Advertises(p) /\ ~Spawns(p) /\ ~Drains(p) /\ ~InfoReads(p)
      BY <2>2, <2>3 DEF Advertises, Spawns, Drains, InfoReads, SrvGoes
    <3>2. InfoWrites(q)
      BY <2>2, <2>4, <3>1 DEF SrvStep
    <3> QED
      BY <1>2, <3>2 DEF InfoWrites, SrvGoes, InfoInv
  <2>5. CASE GitStep(p)
    <3>1. srv' = srv
      BY <2>5 DEF GitStep, CollectsPruned, PreReceive, UpdatesRef, UpdateEnds,
                  PostJumps, PostOff, LogsUpdate, NotesDelete, StartsNew,
                  HeadFound, HeadMissing, FixesHead, LogsNew, LogFails,
                  Collected, RepoSize, PostPush, Collects
    <3> QED
      BY <3>1
  <2>6. CASE GitDies(p) \/ WorkerDies(p)
    BY <2>2, <2>3, <2>6 DEF GitDies, WorkerDies
  <2> QED
    BY <2>1, <2>4, <2>5, <2>6
<1>3. ASSUME UNCHANGED vars PROVE Fresh
  BY <1>3 DEF vars
<1>4. IInv /\ InfoInv /\ [Next]_vars => [Fresh]_vars
  BY <1>2, <1>3
<1>5. Spec => []InfoInv
  BY <1>1, InfoStep, Invariance, PTL DEF Spec
<1> QED
  BY <1>4, <1>5, Invariance, PTL DEF Spec, InfoFresh
===============================================================================
