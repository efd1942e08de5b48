------------------------------- MODULE GitBackend ------------------------------
(***************************************************************************)
(* GitRemote: the threads and workers of the server run the methods of     *)
(* vcsserver/git.py on one repository.  Reads go through the cache region; *)
(* commit, pull, sync_fetch, sync_push and the methods on single refs      *)
(* change the repository in the steps of the code, and a worker may be     *)
(* killed between any two of them.                                         *)
(***************************************************************************)
EXTENDS GitRepo, RepoCache

CONSTANTS
    Threads,      \* the requests that may run at once
    ChunkRefs,    \* how many refs one git fetch is given: 4096 in the code
    CommitEdits,  \* bound: the edits commit() is called with
    Pulls,        \* bound: [wanted, last], the refs a pull asks for, and for HEAD
    MaxCalls,     \* bound: calls that are made
    MaxReads,     \* bound: reads among them
    MaxFaults     \* bound: workers killed, git commands that fail,
                  \* refs deleted in the other repository, cached values lost

GitMethods ==
    {"get_refs", "get_branch_pointers", "head", "branch", "commit_branches", "get_object",
     "get_all_commit_ids", "children", "revision", "message", "parents", "tree_items",
     "tree_and_type_for_path", "blob", "node_history", "is_empty"}

ASSUME BackendAssumption ==
    /\ Methods \subseteq GitMethods
    /\ CommitEdits \subseteq Edits
    /\ Pulls \subseteq [wanted : SUBSET Names, last : SUBSET Names]
    /\ "branch" \in Methods => "get_refs" \in Methods /\ None \in Args
    /\ Args \subseteq Commits \cup {None}
    /\ {MaxCalls, MaxReads, MaxFaults} \subseteq Nat

VARIABLES
    job,     \* what each thread is doing, with its local variables
    answer,  \* what each thread has computed, and then its last answer
    used,    \* the contexts that have been used
    calls,   \* calls made so far
    reads,   \* reads among them
    faults   \* faults so far

vars == <<repo, cache, job, answer, used, calls, reads, faults>>

NoAsk == [name |-> "none", ctx |-> NoContext, arg |-> None]
Silence == [ask |-> NoAsk, kind |-> "none", val |-> {}, knew |-> {}]
Idle ==
    [pc |-> "idle", ref |-> HEAD, rev |-> None, wanted |-> {}, todo |-> {}, last |-> {},
     edit |-> [updated |-> {}, removed |-> {}], listing |-> [n \in Names |-> None],
     ask |-> NoAsk]

Init ==
    /\ RepoInit /\ CacheInit
    /\ job = [t \in Threads |-> Idle]
    /\ answer = [t \in Threads |-> Silence]
    /\ used = {}
    /\ calls = 0 /\ reads = 0 /\ faults = 0

At(t, pc) == job[t].pc = pc
Goes(t, new) == job' = [job EXCEPT ![t] = new]

\* The call ends with an answer: a value, and the contexts that had been used
\* when it was computed.
Replies(t, result, knew) ==
    /\ Goes(t, Idle)
    /\ answer' = [answer EXCEPT ![t] = [kind |-> result.kind, val |-> result.val, knew |-> knew,
                                        ask |-> job[t].ask]]

Calls(t, new) ==
    /\ At(t, "idle") /\ calls < MaxCalls
    /\ calls' = calls + 1
    /\ Goes(t, new)
    /\ answer' = [answer EXCEPT ![t] = Silence]

Done(t) == Replies(t, Ok({}), {})
Fails(t, kind) == Replies(t, Error(kind), {})

Keeps == UNCHANGED <<cache, used, calls, reads, faults>>

---------------------------------------------------------------------------
(* commit(): the caller has read the tip of the branch and gives the new   *)
(* commit that parent.  Objects first, then the branch if it is new, then  *)
(* the ref, whatever it names by then.                                     *)
CallsCommit(t) ==
    /\ \E b \in Branches, edit \in CommitEdits :
           Calls(t, [Idle EXCEPT !.pc = "objects", !.ref = b, !.rev = refs[b], !.edit = edit])
    /\ UNCHANGED <<repo, cache, used, reads, faults>>

CommitObjects(t) ==
    LET c == Len(graph) + 1 IN
    /\ At(t, "objects") /\ c <= MaxCommits
    /\ ~CannotEdit(TreeOf(job[t].rev), job[t].edit)
    /\ AddsCommit(c, job[t].rev, job[t].edit)
    /\ store' = store \cup {c}
    /\ Goes(t, [job[t] EXCEPT !.pc = "branch", !.rev = c])
    /\ Keeps /\ UNCHANGED <<refs, remote, answer>>

CommitRaises(t) ==
    /\ At(t, "objects")
    /\ CannotEdit(TreeOf(job[t].rev), job[t].edit)
    /\ Fails(t, "KeyError")
    /\ Keeps /\ UNCHANGED repo

\* create_branch() without force gets the branch and leaves one that is there
\* alone; otherwise it creates it, which raises if it is there by then.
CommitBranch(t) ==
    /\ At(t, "branch")
    /\ Goes(t, [job[t] EXCEPT !.pc = IF refs[job[t].ref] = None THEN "create" ELSE "ref"])
    /\ Keeps /\ UNCHANGED <<repo, answer>>

CommitCreates(t) ==
    /\ At(t, "create") /\ refs[job[t].ref] = None
    /\ WritesRef(job[t].ref, job[t].rev)
    /\ Goes(t, [job[t] EXCEPT !.pc = "ref"])
    /\ Keeps /\ UNCHANGED <<graph, store, remote, answer>>

CreateRaises(t) ==
    /\ job[t].pc \in {"create", "newbranch"} /\ refs[job[t].ref] # None
    /\ Fails(t, "error")
    /\ Keeps /\ UNCHANGED repo

CommitRef(t) ==
    /\ At(t, "ref")
    /\ WritesRef(job[t].ref, job[t].rev)
    /\ Done(t)
    /\ Keeps /\ UNCHANGED <<graph, store, remote>>

Commit(t) ==
    \/ CallsCommit(t) \/ CommitObjects(t) \/ CommitRaises(t)
    \/ CommitBranch(t) \/ CommitCreates(t) \/ CreateRaises(t) \/ CommitRef(t)

---------------------------------------------------------------------------
(* pull(): fetch the objects, write the refs one after the other, and HEAD *)
(* last.  With no refs given everything is wanted, HEAD included.          *)
CallsPull(t) ==
    /\ \E p \in Pulls :
           Calls(t, [Idle EXCEPT !.pc = "fetch", !.last = p.last, !.wanted = p.wanted])
    /\ UNCHANGED <<repo, cache, used, reads, faults>>

Wanted(t) == IF job[t].wanted = {} THEN Names ELSE job[t].wanted

Filtered_Not(t) == [n \in Names |-> Advertised(n)]

\* fetch() answers with every ref; those that were not wanted are left out.
Filtered(t) == [n \in Names |-> IF n \in Wanted(t) THEN Advertised(n) ELSE None]

PullFetches(t) ==
    /\ At(t, "fetch")
    /\ Receives({Advertised(n) : n \in Wanted(t)})
    /\ Goes(t, [job[t] EXCEPT !.pc = "apply", !.listing = Filtered(t),
                              !.todo = {n \in Names : Filtered(t)[n] # None}])
    /\ Keeps /\ UNCHANGED <<graph, refs, remote, answer>>

PullWrites(t) ==
    /\ At(t, "apply")
    /\ \E n \in job[t].todo :
           /\ WritesRef(n, job[t].listing[n])
           /\ Goes(t, [job[t] EXCEPT !.todo = @ \ {n}])
    /\ Keeps /\ UNCHANGED <<graph, store, remote, answer>>

\* HEAD is written when the caller gave refs or wants an update.
PullEnds(t) ==
    /\ At(t, "apply") /\ job[t].todo = {} /\ job[t].last = {}
    /\ Done(t)
    /\ Keeps /\ UNCHANGED repo

\* The last ref asked for, or HEAD with update_after, may not have been found.
PullHead(t) ==
    /\ At(t, "apply") /\ job[t].todo = {}
    /\ \E n \in job[t].last :
          IF job[t].listing[n] = None THEN Fails(t, "KeyError") /\ UNCHANGED refs
          ELSE WritesRef(HEAD, job[t].listing[n]) /\ Done(t)
    /\ Keeps /\ UNCHANGED <<graph, store, remote>>

Pull(t) == CallsPull(t) \/ PullFetches(t) \/ PullWrites(t) \/ PullEnds(t) \/ PullHead(t)

---------------------------------------------------------------------------
(* sync_fetch(): list the refs of the other repository, then fetch those   *)
(* that name the wanted commit, or all, a chunk of refs at a time.  git    *)
(* fetches what the refs name by then, and fails when one has gone.        *)
CallsSync(t) ==
    /\ \E c \in Made \cup {None} : Calls(t, [Idle EXCEPT !.pc = "list", !.rev = c])
    /\ UNCHANGED <<repo, cache, used, reads, faults>>

SyncLists(t) ==
    LET fetched == {r \in Refs : remote[r] # None /\ job[t].rev \in {None, remote[r]}} IN
    /\ At(t, "list")
    /\ IF fetched = {} THEN Done(t)
       ELSE Goes(t, [job[t] EXCEPT !.pc = "chunk", !.todo = fetched]) /\ UNCHANGED answer
    /\ Keeps /\ UNCHANGED repo

\* more_itertools.chunked: every chunk is full, but the last.
Chunks(rs) ==
    {c \in SUBSET rs : Cardinality(c) = ChunkRefs \/ (c = rs /\ Cardinality(rs) < ChunkRefs)}

SyncFetches(t) ==
    /\ At(t, "chunk")
    /\ \E chunk \in Chunks(job[t].todo) :
          /\ \A r \in chunk : remote[r] # None
          /\ Receives({remote[r] : r \in chunk})
          /\ refs' = [r \in Refs |-> IF r \in chunk THEN remote[r] ELSE refs[r]]
          /\ IF job[t].todo = chunk THEN Done(t)
             ELSE Goes(t, [job[t] EXCEPT !.todo = @ \ chunk]) /\ UNCHANGED answer
    /\ Keeps /\ UNCHANGED <<graph, remote>>

SyncRefused(t) ==
    /\ At(t, "chunk")
    /\ \E chunk \in Chunks(job[t].todo) : \E r \in chunk : remote[r] = None
    /\ Fails(t, "error")
    /\ Keeps /\ UNCHANGED repo

\* sync_push(): git push --mirror makes the other repository like this one.
SyncPush(t) ==
    /\ Calls(t, Idle)
    /\ remote' = refs
    /\ UNCHANGED <<graph, store, refs, cache, used, reads, faults>>

Sync(t) == CallsSync(t) \/ SyncLists(t) \/ SyncFetches(t) \/ SyncRefused(t) \/ SyncPush(t)

---------------------------------------------------------------------------
(* The methods that change one ref; what they are given must exist.        *)
SetRef(t) == \E r \in Refs, c \in store : Calls(t, Idle) /\ WritesRef(r, c)

CreateBranch(t) ==
    \E b \in Branches, c \in store :
        \/ Calls(t, Idle) /\ WritesRef(b, c)
        \/ Calls(t, Idle) /\ refs[b] # None /\ UNCHANGED refs
        \/ /\ refs[b] = None
           /\ Calls(t, [Idle EXCEPT !.pc = "newbranch", !.ref = b, !.rev = c])
           /\ UNCHANGED refs

NewBranch(t) ==
    /\ At(t, "newbranch") /\ refs[job[t].ref] = None
    /\ WritesRef(job[t].ref, job[t].rev)
    /\ Done(t)
    /\ UNCHANGED calls

RemoveRef(t) == \E r \in Refs : refs[r] # None /\ Calls(t, Idle) /\ WritesRef(r, None)

ChangesRef(t) ==
    /\ SetRef(t) \/ CreateBranch(t) \/ NewBranch(t) \/ RemoveRef(t)
    /\ UNCHANGED <<graph, store, remote, cache, used, reads, faults>>

\* get_missing_revs() fetches from another repository, and changes no ref.
MissingRevs(t) ==
    /\ Calls(t, Idle)
    /\ Receives({remote[r] : r \in Refs})
    /\ UNCHANGED <<graph, refs, remote, cache, used, reads, faults>>

---------------------------------------------------------------------------
(* The reading methods.  With a context they go through the cache: a hit   *)
(* is answered, a miss is computed by one thread at a time and stored.     *)
TakesCommit == KeyedByCommit \cup KeyedByCommitOnly \cup
    {"branch", "commit_branches", "get_object", "revision", "tree_and_type_for_path",
     "node_history"}

CallsRead(t) ==
    /\ reads < MaxReads /\ reads' = reads + 1
    /\ \E ask \in Asks :
          /\ (ask.arg = None) <=> ask.name \notin TakesCommit
          /\ Calls(t, [Idle EXCEPT !.pc = "lookup", !.ask = ask])
          /\ used' = (used \cup {ask.ctx}) \ {NoContext}
    /\ UNCHANGED <<repo, cache, faults>>

\* branch() calls get_refs(), which is cached in its turn.
RefsAsk(ask) == [name |-> "get_refs", ctx |-> ask.ctx, arg |-> None]
NeedsRefs(ask) == ask.name = "branch"
Seen(ask) ==
    IF CacheOn(ask) /\ Hit(RefsAsk(ask)) THEN cache[KeyOf(RefsAsk(ask))]
    ELSE [val |-> get_refs.val, knew |-> used]

Result(ask) ==
    LET c == ask.arg IN
    CASE ask.name = "get_refs" -> get_refs
      [] ask.name = "get_branch_pointers" -> get_branch_pointers
      [] ask.name = "head" -> head
      [] ask.name = "branch" -> branch(Seen(ask).val, c)
      [] ask.name = "commit_branches" -> commit_branches(c)
      [] ask.name = "get_object" -> get_object(c)
      [] ask.name = "get_all_commit_ids" -> get_all_commit_ids
      [] ask.name = "children" -> children(c)
      [] ask.name = "revision" -> revision(c)
      [] ask.name = "message" -> message(c)
      [] ask.name = "parents" -> parents(c)
      [] ask.name = "tree_items" -> tree_items(c)
      [] ask.name = "tree_and_type_for_path" -> tree_and_type_for_path(c)
      [] ask.name = "blob" -> blob(c)
      [] ask.name = "node_history" -> node_history(c)
      [] ask.name = "is_empty" -> is_empty

Knew(ask) == IF NeedsRefs(ask) THEN Seen(ask).knew ELSE used

\* dogpile lets one thread at a time create the value of a key.
Creating(k) == \E t \in Threads : job[t].pc \in {"compute", "store"} /\ KeyOf(job[t].ask) = k

ReadHits(t) ==
    LET ask == job[t].ask IN
    /\ At(t, "lookup") /\ CacheOn(ask) /\ Hit(ask)
    /\ Replies(t, Ok(cache[KeyOf(ask)].val), cache[KeyOf(ask)].knew)
    /\ Keeps /\ UNCHANGED repo

ReadMisses(t) ==
    LET ask == job[t].ask IN
    /\ At(t, "lookup") /\ CacheOn(ask) /\ ~Hit(ask) /\ ~Creating(KeyOf(ask))
    /\ Goes(t, [job[t] EXCEPT !.pc = "compute"])
    /\ Keeps /\ UNCHANGED <<repo, answer>>

ReadUncached(t) ==
    LET ask == job[t].ask IN
    /\ At(t, "lookup") /\ ~CacheOn(ask)
    /\ Replies(t, Result(ask), used)
    /\ Keeps /\ UNCHANGED repo

Computes(t, v, knew) ==
    /\ Goes(t, [job[t] EXCEPT !.pc = "store"])
    /\ answer' = [answer EXCEPT ![t] = [ask |-> job[t].ask, kind |-> "computed",
                                        val |-> v, knew |-> knew]]

\* A method that raises answers with the error, and nothing is stored.
ReadComputes(t) ==
    LET ask == job[t].ask
        inner == KeyOf(RefsAsk(ask))
    IN  /\ At(t, "compute")
        /\ NeedsRefs(ask) => Hit(RefsAsk(ask)) \/ ~Creating(inner)
        /\ cache' = IF NeedsRefs(ask) THEN With(cache, inner, Seen(ask)) ELSE cache
        /\ IF Result(ask).kind = "ok" THEN Computes(t, Result(ask).val, Knew(ask))
           ELSE Replies(t, Result(ask), used)
        /\ UNCHANGED <<repo, used, calls, reads, faults>>

ReadStores(t) ==
    /\ At(t, "store")
    /\ cache' = With(cache, KeyOf(job[t].ask), [val |-> answer[t].val, knew |-> answer[t].knew])
    /\ Replies(t, Ok(answer[t].val), answer[t].knew)
    /\ UNCHANGED <<repo, used, calls, reads, faults>>

Read(t) ==
    CallsRead(t) \/ ReadHits(t) \/ ReadMisses(t) \/ ReadUncached(t) \/ ReadComputes(t) \/ ReadStores(t)

---------------------------------------------------------------------------
(* A git command fails.  get_all_commit_ids takes any failure for an empty *)
(* repository, an answer that is cached like any other.                    *)
GitCommandFails(t) ==
    /\ faults < MaxFaults /\ faults' = faults + 1
    /\ \/ At(t, "compute") /\ job[t].ask.name = "get_all_commit_ids"
          /\ Computes(t, {}, used)
       \/ At(t, "compute") /\ job[t].ask.name \in {"children", "node_history"}
          /\ Fails(t, "error")
       \/ job[t].pc \in {"fetch", "list", "chunk"} /\ Fails(t, "error")
    /\ UNCHANGED <<repo, cache, used, calls, reads>>

\* The worker is killed: what it has written stays, its locks are released.
Killed(t) ==
    /\ ~At(t, "idle")
    /\ faults < MaxFaults /\ faults' = faults + 1
    /\ Goes(t, Idle)
    /\ answer' = [answer EXCEPT ![t] = Silence]
    /\ UNCHANGED <<repo, cache, used, calls, reads>>

Environment ==
    /\ \/ \E r \in Refs : RemoteCommits(r) /\ UNCHANGED faults
       \/ faults < MaxFaults /\ faults' = faults + 1 /\ \E r \in Refs : RemoteDeletes(r)
    /\ UNCHANGED <<cache, job, answer, used, calls, reads>>

CacheForgets ==
    /\ faults < MaxFaults /\ faults' = faults + 1
    /\ \E k \in DOMAIN cache : Forgets(k)
    /\ UNCHANGED <<repo, job, answer, used, calls, reads>>

ThreadStep(t) ==
    Commit(t) \/ Pull(t) \/ Sync(t) \/ ChangesRef(t) \/ MissingRevs(t) \/ Read(t)

Next ==
    \/ \E t \in Threads : ThreadStep(t) \/ GitCommandFails(t) \/ Killed(t)
    \/ Environment
    \/ CacheForgets

Spec == Init /\ [][Next]_vars

---------------------------------------------------------------------------
PCs == {"idle", "objects", "branch", "create", "newbranch", "ref", "fetch", "apply", "list", "chunk",
        "lookup", "compute", "store"}

Jobs ==
    [pc : PCs, ref : Names, rev : Commits \cup {None}, wanted : SUBSET Names,
     todo : SUBSET Names, last : SUBSET Names, edit : Edits,
     listing : [Names -> Commits \cup {None}], ask : Asks \cup {NoAsk}]

TypeOK ==
    /\ RepoTypeOK
    /\ DOMAIN cache \subseteq Keys
    /\ \A k \in DOMAIN cache : cache[k].knew \subseteq used
    /\ job \in [Threads -> Jobs]
    /\ \A t \in Threads :
          /\ job[t].rev \in Made \cup {None}
          /\ \A n \in Names : job[t].listing[n] \in Made \cup {None}
    /\ answer = [t \in Threads |-> answer[t]]
    /\ \A t \in Threads : answer[t].knew \subseteq used /\ answer[t].ask \in Asks \cup {NoAsk}
    /\ used \subseteq Contexts
    /\ calls \in 0..MaxCalls /\ reads \in 0..MaxReads /\ faults \in 0..MaxFaults

(* What a method answers about the refs was true at some time since the    *)
(* caller's context was first used: a caller that takes a new context      *)
(* after a change sees it, whoever computed the cached value and when      *)
(* (vcs_base.py:26-32, git.py).                                            *)
ContextFresh ==
    \A t \in Threads :
        LET a == answer[t] IN
        /\ a.kind = "ok"
        /\ a.ask.ctx # NoContext
        /\ a.ask.name \notin KeyedByCommit \cup KeyedByCommitOnly
        => a.ask.ctx \in a.knew

Answered(t) == ~At(t, "idle") /\ job'[t].pc = "idle" /\ answer'[t].kind # "none"

(* What a method answers about a commit is right at the time it answers,   *)
(* although the cached value has no context: neither a value of another    *)
(* commit nor the error of the time before the commit was fetched          *)
(* (git.py:217-273, 819-886, 965-989).                                     *)
CommitAnswerRight ==
    [][\A t \in Threads :
          Answered(t) /\ job[t].ask.name \in KeyedByCommit =>
              /\ answer'[t].kind = Result(job[t].ask).kind
              /\ answer'[t].val = Result(job[t].ask).val]_vars

(* A pull that was asked for some refs writes no others, but the branch    *)
(* HEAD names, and writes what the other repository had when it fetched    *)
(* (git.py:547-597).                                                       *)
PullKeepsOthers ==
    [][\A t \in Threads, r \in Refs :
          /\ At(t, "apply") /\ job[t] # job'[t]
          /\ refs'[r] # refs[r]
          => \/ r \in Wanted(t) /\ refs'[r] = job[t].listing[r]
             \/ r = HeadBranch /\ refs'[r] \in {job[t].listing[n] : n \in Wanted(t)} \ {None}]_vars
================================================================================
