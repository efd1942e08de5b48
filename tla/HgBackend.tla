------------------------------- MODULE HgBackend -------------------------------
(***************************************************************************)
(* HgRemote and the hooks of Mercurial: requests commit, pull, strip and   *)
(* read through the cache, and clients push through hgweb or ssh with the  *)
(* hooks of vcsserver/hooks.py.  Mercurial runs everything that writes     *)
(* under the lock of the repository, a push with its hooks in between; the *)
(* hooks that come after it run when the lock has been released.           *)
(***************************************************************************)
EXTENDS HgRepo, RepoCache

CONSTANTS
    Threads,      \* the requests that may run at once
    NoThread,
    CommitEdits,  \* bound: the edits commitctx is called with
    Pulls,        \* bound: the commits a pull asks for, with a commit it marks
    Pushes,       \* bound: what clients push: [sent, way, write, mark]
    CheckHeads,   \* detect_force_push of the extras
    Publishing,   \* phases.publish of the configuration
    MaxCalls,     \* bound: calls that are made
    MaxReads,     \* bound: reads among them
    MaxFaults     \* bound: workers killed, remotes that fail, refusals and
                  \* failures of RhodeCode, cached values lost

HgMethods ==
    {"bookmarks", "branches", "ctx_branch", "ctx_files", "ctx_parents", "ctx_children",
     "ctx_phase", "ctx_obsolete", "ctx_hidden", "fctx", "node_history",
     "node_history_untill", "get_all_commit_ids", "lookup", "rev_range"}

ASSUME BackendAssumption ==
    /\ Methods \subseteq HgMethods
    /\ CommitEdits \subseteq Edits
    /\ Pulls \subseteq [heads : SUBSET Commits, marked : SUBSET Commits]
    /\ Pushes \subseteq [sent : SUBSET Commits, way : {"http", "ssh"}, write : BOOLEAN,
                        mark : Bookmarks \cup {None}]
    /\ {CheckHeads, Publishing} \subseteq BOOLEAN
    /\ NoThread \notin Threads
    /\ Args \subseteq Commits \cup {None}
    /\ {MaxCalls, MaxReads, MaxFaults} \subseteq Nat

VARIABLES
    lock,       \* the thread that holds the lock of the repository
    job,        \* what each thread is doing, with its local variables
    answer,     \* what each thread has computed, and then its last answer
    announced,  \* the commits RhodeCode has been told of, by a hook or by the
                \* answer to its own call, and that are still there
    expected,   \* for each context that is in use, those it had been told of
    calls,      \* calls made so far
    reads,      \* reads among them
    faults      \* faults so far

vars == <<repo, cache, lock, job, answer, announced, expected, calls, reads, faults>>

NoAsk == [name |-> "none", ctx |-> NoContext, arg |-> None]
Silence == [ask |-> NoAsk, kind |-> "none", val |-> {}]
NoReport == [total |-> [b \in Branches |-> 0], last |-> [b \in Branches |-> None], heads |-> {}]
Idle ==
    [pc |-> "idle", ask |-> NoAsk, rev |-> None, branch |-> None, edit |-> NoEdit,
     sent |-> {}, new |-> <<>>, way |-> "http", write |-> TRUE, mark |-> None,
     report |-> NoReport, start |-> 0]

Init ==
    /\ RepoInit /\ CacheInit
    /\ lock = NoThread
    /\ job = [t \in Threads |-> Idle]
    /\ answer = [t \in Threads |-> Silence]
    /\ announced = {} /\ expected = <<>>
    /\ calls = 0 /\ reads = 0 /\ faults = 0

At(t, pc) == job[t].pc = pc
Goes(t, new) == job' = [job EXCEPT ![t] = new]

Replies(t, result) ==
    /\ Goes(t, Idle)
    /\ answer' = [answer EXCEPT ![t] = [ask |-> job[t].ask, kind |-> result.kind, val |-> result.val]]

Calls(t, new) ==
    /\ At(t, "idle") /\ calls < MaxCalls
    /\ calls' = calls + 1
    /\ Goes(t, new)
    /\ answer' = [answer EXCEPT ![t] = Silence]

Done(t) == Replies(t, Ok({}))
Fails(t, kind) == Replies(t, Error(kind))

Keeps == UNCHANGED <<cache, expected, calls, reads, faults>>
Free == lock = NoThread

---------------------------------------------------------------------------
(* commitctx: the caller gives a parent it has read earlier.               *)
CallsCommit(t) ==
    /\ \E p \in Here \cup {None}, b \in Branches, e \in CommitEdits :
           Calls(t, [Idle EXCEPT !.pc = "commit", !.rev = p, !.branch = b, !.edit = e])
    /\ UNCHANGED <<repo, cache, lock, announced, expected, reads, faults>>

Committable(t) == job[t].rev \in Here \cup {None} /\ Unmarked(job[t].edit) = {}

CommitLands(t) ==
    LET c == Len(graph) + 1 IN
    /\ At(t, "commit") /\ Free /\ c <= MaxCommits
    /\ Committable(t)
    /\ graph' = Append(graph, NewCommit(c, job[t].rev, job[t].branch, job[t].edit))
    /\ log' = Append(log, c)
    /\ public' = IF Publishing /\ HistoryOf({job[t].rev} \ {None}) \subseteq public
                 THEN public \cup {c} ELSE public
    /\ announced' = announced \cup {c}
    /\ Done(t)
    /\ Keeps /\ UNCHANGED <<obsolete, bookmarks, lock>>

CommitRaises(t) ==
    /\ At(t, "commit") /\ ~Committable(t)
    /\ Fails(t, IF job[t].rev \in Here \cup {None} THEN "abort" ELSE "lookup")
    /\ Keeps /\ UNCHANGED <<repo, lock, announced>>

Commit(t) == CallsCommit(t) \/ CommitLands(t) \/ CommitRaises(t)

---------------------------------------------------------------------------
(* pull and pull_cmd bring commits of the clients' repositories, those that*)
(* were asked for, with the obsolescence markers of the others; a remote   *)
(* that knows no markers publishes.                                        *)
Brings(cs) == \E o \in Orders(HistoryOf(cs) \ Here) : log' = log \o o

Pull(t) ==
    /\ Free
    /\ \E p \in Pulls :
          /\ p.heads \subseteq Made
          /\ Calls(t, Idle)
          /\ Brings(p.heads)
          /\ obsolete' = obsolete \cup (p.marked \cap Made)
          /\ public' = IF p.marked = {} THEN public \cup HistoryOf(p.heads) ELSE public
    /\ UNCHANGED <<graph, bookmarks, cache, lock, announced, expected, reads, faults>>

\* The remote repository cannot be read, or the lock is not released in time.
PullFails(t) ==
    /\ faults < MaxFaults /\ faults' = faults + 1
    /\ Calls(t, Idle)
    /\ UNCHANGED <<repo, cache, lock, announced, expected, reads>>

---------------------------------------------------------------------------
(* strip removes a commit with its descendants: those that come later get  *)
(* another revision, and bookmarks move to what is left.                   *)
Below(c) == {d \in Here : c \in History(d)}

Strip(t) ==
    /\ Free
    /\ \E c \in Here :
          /\ Calls(t, Idle)
          /\ \E o \in Orders(Here \ Below(c)) :
                 /\ \A i, j \in DOMAIN o : i < j => Rev(log, o[i]) < Rev(log, o[j])
                 /\ log' = o
          /\ announced' = announced \ Below(c)
          /\ expected' = [x \in DOMAIN expected |-> expected[x] \ Below(c)]
          /\ \E left \in (Here \ Below(c)) \cup {None} :
                 bookmarks' = [m \in Bookmarks |->
                                  IF bookmarks[m] \in Below(c) THEN left ELSE bookmarks[m]]
    /\ UNCHANGED <<graph, public, obsolete, cache, lock, reads, faults>>

Bookmark(t) ==
    /\ Free
    /\ \E m \in Bookmarks, c \in Here :
          /\ Calls(t, Idle)
          /\ bookmarks' = [bookmarks EXCEPT ![m] = c]
    /\ UNCHANGED <<graph, log, public, obsolete, cache, lock, announced, expected, reads, faults>>

---------------------------------------------------------------------------
(* A push.  Mercurial takes the lock and calls pre_push twice: before the  *)
(* commits are added (prechangegroup), and when they are, in a transaction *)
(* only the hook can see (pretxnchangegroup).  An answer other than zero,  *)
(* or an exception, rolls the transaction back.                            *)
CallsPush(t) ==
    /\ \E p \in Pushes :
          /\ p.sent \subseteq Made
          /\ Calls(t, [Idle EXCEPT !.pc = "push", !.sent = p.sent, !.way = p.way,
                                   !.write = p.write, !.mark = p.mark])
    /\ UNCHANGED <<repo, cache, lock, announced, expected, reads, faults>>

\* pre_push_ssh_auth refuses by the permissions of the extras; it returns
\* zero when the push came by http.
PermittedOver(way, write) == way = "ssh" => write

NothingToPush(t) ==
    /\ At(t, "push") /\ Free
    /\ HistoryOf(job[t].sent) \subseteq Here
    /\ Done(t)
    /\ Keeps /\ UNCHANGED <<repo, lock, announced>>

PushForbidden(t) ==
    /\ At(t, "push") /\ Free
    /\ ~(HistoryOf(job[t].sent) \subseteq Here)
    /\ ~PermittedOver(job[t].way, job[t].write)
    /\ Fails(t, "abort")
    /\ Keeps /\ UNCHANGED <<repo, lock, announced>>

PushLocks(t) ==
    /\ At(t, "push") /\ Free
    /\ ~(HistoryOf(job[t].sent) \subseteq Here)
    /\ PermittedOver(job[t].way, job[t].write)
    /\ lock' = t
    /\ \E o \in Orders(HistoryOf(job[t].sent) \ Here) :
           Goes(t, [job[t] EXCEPT !.pc = "prechangegroup", !.new = o])
    /\ Keeps /\ UNCHANGED <<repo, answer, announced>>

\* What pre_push tells of a changelog that ends with the pushed commits.
Report(l, first, heads) ==
    LET revs == RevRange(l, first)
        On(b) == {r \in revs : graph[l[r]].branch = b}
    IN  [total |-> [b \in Branches |-> Cardinality(On(b))],
         last |-> [b \in Branches |->
                     IF On(b) = {} THEN None
                     ELSE l[CHOOSE r \in On(b) : \A x \in On(b) : x <= r]],
         heads |-> {l[h] : h \in heads}]

Pending(t) == log \o job[t].new

\* The first call carries no commits; when it has passed, the second does.
PushReports(t) ==
    /\ At(t, "prechangegroup")
    /\ \E heads \in IF CheckHeads
                    THEN MultipleHeads(Pending(t), RevRange(Pending(t), job[t].new[1]))
                    ELSE {{}} :
           Goes(t, [job[t] EXCEPT !.pc = "pretxnchangegroup",
                                  !.report = Report(Pending(t), job[t].new[1], heads)])
    /\ Keeps /\ UNCHANGED <<repo, lock, answer, announced>>

PushRefused(t) ==
    /\ job[t].pc \in {"prechangegroup", "pretxnchangegroup"}
    /\ faults < MaxFaults /\ faults' = faults + 1
    /\ lock' = NoThread
    /\ Fails(t, "abort")
    /\ UNCHANGED <<repo, cache, announced, expected, calls, reads>>

PushLands(t) ==
    /\ At(t, "pretxnchangegroup")
    /\ log' = Pending(t)
    /\ public' = IF Publishing THEN public \cup HistoryOf(job[t].sent) ELSE public
    /\ bookmarks' = [m \in Bookmarks |->
                        IF m = job[t].mark THEN job[t].new[Len(job[t].new)] ELSE bookmarks[m]]
    /\ lock' = NoThread
    /\ Goes(t, [job[t] EXCEPT !.pc = "changegroup", !.start = Len(log)])
    /\ Keeps /\ UNCHANGED <<graph, obsolete, answer, announced>>

\* post_push reads the changelog again, from the first commit it was given to
\* its end, whoever has written since; with key_push, the bookmarks of the
\* commit that was marked.
SinceFirst(t) == {log[r] : r \in RevRange(log, job[t].new[1])}

Announces(t) ==
    LET marked == IF job[t].mark = None THEN {}
                  ELSE {m \in Bookmarks : bookmarks[m] = bookmarks[job[t].mark]}
    IN  /\ At(t, "changegroup") /\ job[t].new[1] \in Here
        /\ announced' = announced \cup SinceFirst(t)
        /\ Replies(t, [kind |-> "pushed", val |-> SinceFirst(t) \cup marked])
        /\ Keeps /\ UNCHANGED <<repo, lock>>

\* The call of RhodeCode fails, before or after it was heard: Mercurial warns, and
\* the push has succeeded.
AnnounceFails(t) ==
    /\ At(t, "changegroup") /\ job[t].new[1] \in Here
    /\ faults < MaxFaults /\ faults' = faults + 1
    /\ announced' \in {announced, announced \cup SinceFirst(t)}
    /\ Replies(t, [kind |-> "warned", val |-> {}])
    /\ UNCHANGED <<repo, cache, lock, expected, calls, reads>>

\* The commit has been stripped: the hook raises, and Mercurial only logs it.
AnnouncesNothing(t) ==
    /\ At(t, "changegroup") /\ job[t].new[1] \notin Here
    /\ Done(t)
    /\ Keeps /\ UNCHANGED <<repo, lock, announced>>

Push(t) ==
    \/ CallsPush(t) \/ NothingToPush(t) \/ PushForbidden(t) \/ PushLocks(t) \/ PushReports(t)
    \/ PushRefused(t) \/ PushLands(t) \/ Announces(t) \/ AnnounceFails(t) \/ AnnouncesNothing(t)

---------------------------------------------------------------------------
(* The reading methods, as in GitBackend; they take no lock.               *)
TakesArgument == KeyedByCommit \cup KeyedByCommitOnly \cup
    {"ctx_phase", "ctx_obsolete", "ctx_hidden", "lookup", "node_history",
     "node_history_untill"}

Result(ask) ==
    LET c == ask.arg IN
    CASE ask.name = "bookmarks" -> hg_bookmarks
      [] ask.name = "branches" -> branches
      [] ask.name = "ctx_branch" -> ctx_branch(c)
      [] ask.name = "ctx_files" -> ctx_files(c)
      [] ask.name = "ctx_parents" -> ctx_parents(c)
      [] ask.name = "ctx_children" -> ctx_children(c)
      [] ask.name = "ctx_phase" -> ctx_phase(c)
      [] ask.name = "ctx_obsolete" -> ctx_obsolete(c)
      [] ask.name = "ctx_hidden" -> ctx_hidden(c)
      [] ask.name = "fctx" -> fctx(c)
      [] ask.name = "node_history" -> hg_node_history(c)
      [] ask.name = "node_history_untill" -> node_history_untill
      [] ask.name = "get_all_commit_ids" -> hg_get_all_commit_ids
      [] ask.name = "lookup" -> lookup(c)
      [] ask.name = "rev_range" -> rev_range

\* RhodeCode makes a new context when it has been told of a change.
CallsRead(t) ==
    /\ reads < MaxReads /\ reads' = reads + 1
    /\ \E ask \in Asks :
          /\ (ask.arg = None) <=> ask.name \notin TakesArgument
          /\ Calls(t, [Idle EXCEPT !.pc = "lookup", !.ask = ask])
          /\ expected' = IF ask.ctx \in {NoContext} \cup DOMAIN expected THEN expected
                         ELSE With(expected, ask.ctx, announced)
    /\ UNCHANGED <<repo, cache, lock, announced, faults>>

Creating(k) == \E t \in Threads : job[t].pc \in {"compute", "store"} /\ KeyOf(job[t].ask) = k

ReadHits(t) ==
    LET ask == job[t].ask IN
    /\ At(t, "lookup") /\ CacheOn(ask) /\ Hit(ask)
    /\ Replies(t, Ok(cache[KeyOf(ask)]))
    /\ Keeps /\ UNCHANGED <<repo, lock, announced>>

ReadMisses(t) ==
    LET ask == job[t].ask IN
    /\ At(t, "lookup") /\ CacheOn(ask) /\ ~Hit(ask) /\ ~Creating(KeyOf(ask))
    /\ Goes(t, [job[t] EXCEPT !.pc = "compute"])
    /\ Keeps /\ UNCHANGED <<repo, lock, answer, announced>>

ReadUncached(t) ==
    LET ask == job[t].ask IN
    /\ At(t, "lookup") /\ ~CacheOn(ask)
    /\ Replies(t, Result(ask))
    /\ Keeps /\ UNCHANGED <<repo, lock, announced>>

\* A method that raises answers with the error, and nothing is stored.
ReadComputes(t) ==
    LET result == Result(job[t].ask) IN
    /\ At(t, "compute")
    /\ IF result.kind = "ok"
       THEN /\ Goes(t, [job[t] EXCEPT !.pc = "store"])
            /\ answer' = [answer EXCEPT ![t] = [ask |-> job[t].ask, kind |-> "computed",
                                                val |-> result.val]]
       ELSE Replies(t, result)
    /\ Keeps /\ UNCHANGED <<repo, lock, announced>>

ReadStores(t) ==
    /\ At(t, "store")
    /\ cache' = With(cache, KeyOf(job[t].ask), answer[t].val)
    /\ Replies(t, Ok(answer[t].val))
    /\ UNCHANGED <<repo, lock, announced, expected, calls, reads, faults>>

Read(t) ==
    CallsRead(t) \/ ReadHits(t) \/ ReadMisses(t) \/ ReadUncached(t) \/ ReadComputes(t) \/ ReadStores(t)

---------------------------------------------------------------------------
\* The worker is killed; the next one to take the lock finds its transaction
\* abandoned and rolls it back.
Killed(t) ==
    /\ ~At(t, "idle")
    /\ faults < MaxFaults /\ faults' = faults + 1
    /\ Goes(t, Idle)
    /\ answer' = [answer EXCEPT ![t] = Silence]
    /\ lock' = IF lock = t THEN NoThread ELSE lock
    /\ UNCHANGED <<repo, cache, announced, expected, calls, reads>>

CacheForgets ==
    /\ faults < MaxFaults /\ faults' = faults + 1
    /\ \E k \in DOMAIN cache : Forgets(k)
    /\ UNCHANGED <<repo, lock, job, answer, announced, expected, calls, reads>>

ThreadStep(t) ==
    Commit(t) \/ Pull(t) \/ PullFails(t) \/ Strip(t) \/ Bookmark(t) \/ Push(t) \/ Read(t)

Next ==
    \/ \E t \in Threads : ThreadStep(t) \/ Killed(t)
    \/ CacheForgets

Spec == Init /\ [][Next]_vars

---------------------------------------------------------------------------
PCs == {"idle", "commit", "push", "prechangegroup", "pretxnchangegroup", "changegroup",
        "lookup", "compute", "store"}

TypeOK ==
    /\ RepoTypeOK
    /\ DOMAIN cache \subseteq Keys
    /\ lock \in Threads \cup {NoThread}
    /\ \A t \in Threads :
          /\ job[t].pc \in PCs
          /\ job[t].ask \in Asks \cup {NoAsk}
          /\ job[t].edit \in Edits
          /\ job[t].sent \subseteq Made
          /\ job[t].new \in Seq(Made)
    /\ DOMAIN answer = Threads
    /\ announced \subseteq Made
    /\ DOMAIN expected \subseteq Contexts
    /\ calls \in 0..MaxCalls /\ reads \in 0..MaxReads /\ faults \in 0..MaxFaults

(* The heads pre_push tells of are what they are meant to be: among the    *)
(* commits that descend from one parent along its branch those that have   *)
(* no child there, and nothing when no parent has more than one            *)
(* (hooks.py:205-234).                                                     *)
OnBranchFrom(l, p, S) ==
    /\ p \in S
    /\ \A x \in DOMAIN l :
          /\ graph[l[x]].branch = graph[l[p]].branch
          /\ \E y \in S : l[y] \in graph[l[x]].parents
          => x \in S
Line(l, p) == {x \in DOMAIN l : \A S \in SUBSET DOMAIN l : OnBranchFrom(l, p, S) => x \in S}
LineHeads(l, p) ==
    {x \in Line(l, p) : \A y \in Line(l, p) : l[x] \notin graph[l[y]].parents}

HeadsRight ==
    \A t \in Threads :
        At(t, "pretxnchangegroup") /\ CheckHeads =>
            LET l == Pending(t)
                forks == {LineHeads(l, p) : p \in OutsideParents(l, (Len(log) + 1)..Len(l))}
                told == job[t].report.heads
            IN  IF told = {} THEN \A hs \in forks : Cardinality(hs) <= 1
                ELSE \E hs \in forks : Cardinality(hs) > 1 /\ told = {l[x] : x \in hs}

(* What lands is what RhodeCode has approved: every pushed commit is       *)
(* counted on its branch, nothing else is, and the last one of each branch *)
(* is named; whoever pushes by ssh has the right to (hooks.py:290-353).    *)
LandsAsApproved ==
    [][\A t \in Threads :
          At(t, "pretxnchangegroup") /\ log' # log =>
              LET report == job[t].report
                  Added(b) == {r \in DOMAIN log' \ DOMAIN log : graph[log'[r]].branch = b}
              IN  /\ \A b \in Branches :
                        /\ report.total[b] = Cardinality(Added(b))
                        /\ Added(b) # {} =>
                              \E r \in Added(b) : /\ report.last[b] = log'[r]
                                                 /\ \A x \in Added(b) : x <= r
                  /\ HistoryOf(job[t].sent) \subseteq Elements(log')
                  /\ PermittedOver(job[t].way, job[t].write)]_vars

(* A post_push whose call is answered has told RhodeCode of every commit   *)
(* that landed, unless something has been stripped from under it since     *)
(* (hooks.py:356-384).  When the call fails, the push is not undone and    *)
(* nothing repeats the call ("warned").                                    *)
StillThere(t) ==
    LET new == job[t].new IN
    /\ job[t].start + Len(new) <= Len(log)
    /\ \A i \in DOMAIN new : log[job[t].start + i] = new[i]

LandedIsAnnounced ==
    [][\A t \in Threads :
          /\ At(t, "changegroup") /\ job'[t].pc = "idle"
          /\ answer'[t].kind \notin {"none", "warned"} /\ StillThere(t)
          => Elements(job[t].new) \subseteq answer'[t].val]_vars

(* A caller that takes a new context after it was told of a push finds the *)
(* commits, whoever computed the cached answer and when (hg.py:561-569).   *)
SeenOnceAnnounced ==
    \A t \in Threads :
        LET given == answer[t] IN
        /\ given.kind = "ok" /\ given.ask.name = "get_all_commit_ids"
        /\ given.ask.ctx \in DOMAIN expected
        => expected[given.ask.ctx] \subseteq given.val
================================================================================
