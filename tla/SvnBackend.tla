------------------------------- MODULE SvnBackend ------------------------------
(***************************************************************************)
(* SvnRemote and the hooks of Subversion: requests commit through the      *)
(* bindings and read through the cache, clients commit through Apache, and *)
(* Subversion runs the hook files that other requests install meanwhile.   *)
(***************************************************************************)
EXTENDS SvnRepo, HookInstall, RepoCache

CONSTANTS
    Threads,      \* the requests and clients that may run at once
    CommitEdits,  \* bound: what they commit
    Kinds,        \* bound: how: [way, dated, extras, readonly]; the extras are in the
                  \* environment or in the transaction, or there are none (or
                  \* RC_SKIP_HOOKS is set, and they do not matter)
    MaxReads,     \* bound: reads
    MaxCalls      \* bound: commits, reads, installations and acts of the administrator

SvnMethods ==
    {"revision_properties", "revision_changes", "node_history", "node_properties",
     "get_node_type", "get_nodes", "get_file_content", "get_file_size", "is_binary",
     "youngest", "is_empty"}

ASSUME BackendAssumption ==
    /\ Methods \subseteq SvnMethods
    /\ CommitEdits \subseteq [updated : Seq(Paths), removed : Seq(Paths)]
    /\ \A k \in Kinds : \/ k \in [way : {"rpc"}, dated : BOOLEAN, extras : {"none"}, readonly : {FALSE}]
                       \/ k \in [way : {"dav"}, dated : {FALSE}, extras : {"none", "env", "txn"}, readonly : BOOLEAN]
    /\ Args \subseteq Revisions \cup {None}
    /\ {MaxInstalls, MaxUserActs, MaxFaults, MaxReads, MaxCalls} \subseteq Nat

VARIABLES
    job,     \* what each thread is doing, with its local variables
    answer,  \* what each thread has computed, and then its last answer
    reads    \* reads so far

vars == <<repo, hookvars, cache, job, answer, reads>>

NoAsk == [name |-> "none", ctx |-> NoContext, arg |-> None]
NoEdit == [updated |-> <<>>, removed |-> <<>>]
Silence == [kind |-> "none", val |-> {}]
Idle ==
    [pc |-> "idle", ask |-> NoAsk, way |-> "rpc", number |-> 0, edit |-> NoEdit, dated |-> FALSE,
     extras |-> "none", readonly |-> FALSE, base |-> None, tree |-> <<>>, rev |-> None,
     guarded |-> FALSE, verdict |-> "none"]

Init ==
    /\ RepoInit /\ HooksInit /\ CacheInit
    /\ job = [t \in Threads |-> Idle]
    /\ answer = [t \in Threads |-> Silence]
    /\ reads = 0

More == tried + reads + installs + userActs < MaxCalls

At(t, pc) == job[t].pc = pc
Goes(t, new) == job' = [job EXCEPT ![t] = new]
Replies(t, result) ==
    /\ job' = [job EXCEPT ![t] = [Idle EXCEPT !.ask = job[t].ask]]
    /\ answer' = [answer EXCEPT ![t] = result]
Begins(t, new) ==
    /\ At(t, "idle")
    /\ Goes(t, new)
    /\ answer' = [answer EXCEPT ![t] = Silence]

---------------------------------------------------------------------------
(* A commit: of a request, with the date its caller gave, or of a client   *)
(* whose extras RhodeCode has put in the environment or the transaction.   *)
(* The transaction is begun on the youngest revision and edited.           *)
Txn(edit, kind) ==
    [Idle EXCEPT !.pc = "precommit", !.way = kind.way, !.number = tried + 1, !.edit = edit,
                 !.dated = kind.dated, !.extras = kind.extras, !.readonly = kind.readonly,
                 !.base = Youngest, !.tree = TxnTree(Tree(Youngest), edit, tried + 1),
                 !.guarded = "pre" \in ours]

BeginsTxn(t) ==
    /\ More /\ tried < MaxCommits /\ tried' = tried + 1
    /\ \E edit \in CommitEdits, kind \in Kinds :
          /\ CanEdit(Tree(Youngest), edit, tried + 1)
          /\ Begins(t, Txn(edit, kind))
    /\ UNCHANGED <<revs, dead, hookvars, cache, reads>>

\* A file for a directory, or nothing to remove: the transaction stays open.
CannotEdit(t) ==
    /\ At(t, "idle") /\ More /\ tried < MaxCommits /\ tried' = tried + 1
    /\ \E edit \in CommitEdits : ~CanEdit(Tree(Youngest), edit, tried + 1)
    /\ dead' = dead \cup {tried + 1}
    /\ Replies(t, Unhandled)
    /\ UNCHANGED <<revs, hookvars, cache, reads>>

\* Subversion runs a hook file that exists; one it cannot execute has failed.
Runs(h) == h \in exec /\ file[h] = "script"
Broken(h) == file[h] # "absent" /\ (h \notin exec \/ file[h] = "empty")

\* The script asks RhodeCode about the extras that come with the commit.  It lets
\* the commit pass unasked without extras, when those of the transaction cannot be
\* read, and when vcsserver cannot be imported; the last two are faults.  The
\* history field "verdict" keeps which it was.
Refused(t) ==
    /\ Goes(t, Idle) /\ answer' = [answer EXCEPT ![t] = Unhandled]
    /\ dead' = dead \cup {job[t].number}
    /\ UNCHANGED <<revs, tried, cache, reads>>
Passes(t, verdict) ==
    /\ Goes(t, [job[t] EXCEPT !.pc = "merge", !.verdict = verdict])
    /\ UNCHANGED <<repo, cache, answer, reads>>

PreCommitOff(t) ==
    /\ At(t, "precommit")
    /\ file["pre"] \in {"absent", "other"} /\ ~Broken("pre")
    /\ Passes(t, "none")
    /\ UNCHANGED hookvars

PreCommitBroken(t) ==
    /\ At(t, "precommit")
    /\ Broken("pre") \/ file["pre"] = "other"
    /\ Refused(t)
    /\ UNCHANGED hookvars

svn_pre_commit(t) ==
    /\ At(t, "precommit") /\ Runs("pre") /\ ~job[t].readonly
    /\ Passes(t, IF job[t].extras = "none" THEN "none" ELSE "approved")
    /\ UNCHANGED hookvars

PreCommitRefuses(t) ==
    /\ At(t, "precommit") /\ Runs("pre")
    /\ job[t].readonly \/ job[t].extras # "none"
    /\ Refused(t)
    /\ UNCHANGED hookvars

\* svnlook fails, or what it prints is not the extras: the same as none.
ExtrasUnreadable(t) ==
    /\ At(t, "precommit") /\ Runs("pre") /\ ~job[t].readonly /\ Faults
    /\ job[t].extras = "txn"
    /\ Passes(t, "unreadable")
    /\ UNCHANGED <<file, exec, directory, install, settled, spoiled, ours, installs, userActs>>

NotImportable(t) ==
    /\ At(t, "precommit") /\ Runs("pre") /\ ~job[t].readonly /\ Faults
    /\ Passes(t, "unimportable")
    /\ UNCHANGED <<file, exec, directory, install, settled, spoiled, ours, installs, userActs>>

---------------------------------------------------------------------------
(* The transaction becomes a revision, or conflicts with one that came     *)
(* since; then the post-commit hook runs, whose failure commit() raises    *)
(* although the revision is there.                                         *)
NewRevision == Youngest + 1

Lands(t) ==
    LET base == Tree(job[t].base) IN
    /\ At(t, "merge")
    /\ ~Conflicts(base, job[t].tree, Tree(Youngest))
    /\ revs' = Append(revs, [tree |-> Merged(base, job[t].tree, Tree(Youngest)), date |-> Server])
    /\ Goes(t, [job[t] EXCEPT !.pc = "postcommit", !.rev = NewRevision])
    /\ UNCHANGED <<tried, dead, hookvars, cache, answer, reads>>

Conflicted(t) ==
    /\ At(t, "merge")
    /\ Conflicts(Tree(job[t].base), job[t].tree, Tree(Youngest))
    /\ Refused(t)
    /\ UNCHANGED hookvars

Dates(t) == job[t].way = "rpc" /\ job[t].dated

\* RhodeCode is told of the commit of a client whose extras can be read; repo_size
\* may fail.
PostCommit(t) ==
    /\ At(t, "postcommit") /\ ~Broken("post")
    /\ IF Dates(t) THEN Goes(t, [job[t] EXCEPT !.pc = "date"]) /\ UNCHANGED answer
       ELSE Replies(t, Ok({job[t].rev}))
    /\ UNCHANGED <<repo, hookvars, cache, reads>>

PostCommitFails(t) ==
    /\ At(t, "postcommit")
    /\ \/ Broken("post") \/ file["post"] = "other"
       \/ Runs("post") /\ job[t].extras # "none"
    /\ Replies(t, IF job[t].way = "rpc" THEN Unhandled ELSE [kind |-> "warned", val |-> {job[t].rev}])
    /\ UNCHANGED <<repo, hookvars, cache, reads>>

ChangesDate(t) ==
    /\ At(t, "date")
    /\ revs' = [revs EXCEPT ![job[t].rev + 1].date = Caller]
    /\ Replies(t, Ok({job[t].rev}))
    /\ UNCHANGED <<tried, dead, hookvars, cache, reads>>

Commit(t) ==
    \/ BeginsTxn(t) \/ CannotEdit(t) \/ PreCommitOff(t) \/ PreCommitBroken(t)
    \/ svn_pre_commit(t) \/ PreCommitRefuses(t) \/ ExtrasUnreadable(t) \/ NotImportable(t)
    \/ Lands(t) \/ Conflicted(t) \/ PostCommit(t) \/ PostCommitFails(t) \/ ChangesDate(t)

---------------------------------------------------------------------------
(* The reading methods, as in GitBackend.                                  *)
NoYoungest(ask) == ask.arg = None /\ ask.name \in {"get_file_content", "get_file_size", "is_binary"}

Result(ask) ==
    LET r == ask.arg IN
    CASE NoYoungest(ask) -> Unhandled
      [] ask.name = "revision_properties" -> revision_properties(r)
      [] ask.name = "revision_changes" -> revision_changes(r)
      [] ask.name = "node_history" -> node_history(r)
      [] ask.name = "node_properties" -> node_properties(r)
      [] ask.name = "get_node_type" -> get_node_type(r)
      [] ask.name = "get_nodes" -> get_nodes(r)
      [] ask.name = "get_file_content" -> get_file_content(r)
      [] ask.name = "get_file_size" -> get_file_size(r)
      [] ask.name = "is_binary" -> is_binary(r)
      [] ask.name = "youngest" -> youngest
      [] ask.name = "is_empty" -> is_empty

CallsRead(t) ==
    /\ More /\ reads < MaxReads /\ reads' = reads + 1
    /\ \E ask \in Asks :
          /\ ask.name \in {"youngest", "is_empty"} => ask.arg = None
          /\ ask.arg = None => ask.name \in {"youngest", "is_empty", "get_node_type", "get_nodes",
                                             "get_file_content", "get_file_size", "is_binary"}
          /\ Begins(t, [Idle EXCEPT !.pc = "lookup", !.ask = ask])
    /\ UNCHANGED <<repo, hookvars, cache>>

Creating(k) == \E t \in Threads : job[t].pc \in {"compute", "store"} /\ KeyOf(job[t].ask) = k
KeepsAll == UNCHANGED <<repo, hookvars, reads>>

ReadHits(t) ==
    LET ask == job[t].ask IN
    /\ At(t, "lookup") /\ CacheOn(ask) /\ Hit(ask)
    /\ Replies(t, Ok(cache[KeyOf(ask)]))
    /\ KeepsAll /\ UNCHANGED cache

ReadMisses(t) ==
    LET ask == job[t].ask IN
    /\ At(t, "lookup") /\ CacheOn(ask) /\ ~Hit(ask) /\ ~Creating(KeyOf(ask))
    /\ Goes(t, [job[t] EXCEPT !.pc = "compute"])
    /\ KeepsAll /\ UNCHANGED <<cache, answer>>

ReadUncached(t) ==
    LET ask == job[t].ask IN
    /\ At(t, "lookup") /\ ~CacheOn(ask)
    /\ Replies(t, Result(ask))
    /\ KeepsAll /\ UNCHANGED cache

ReadComputes(t) ==
    LET result == Result(job[t].ask) IN
    /\ At(t, "compute")
    /\ IF result.kind = "ok"
       THEN /\ Goes(t, [job[t] EXCEPT !.pc = "store"])
            /\ answer' = [answer EXCEPT ![t] = [kind |-> "computed", val |-> result.val]]
       ELSE Replies(t, result)
    /\ KeepsAll /\ UNCHANGED cache

ReadStores(t) ==
    /\ At(t, "store")
    /\ cache' = With(cache, KeyOf(job[t].ask), answer[t].val)
    /\ Replies(t, Ok(answer[t].val))
    /\ KeepsAll

Read(t) ==
    CallsRead(t) \/ ReadHits(t) \/ ReadMisses(t) \/ ReadUncached(t) \/ ReadComputes(t) \/ ReadStores(t)

---------------------------------------------------------------------------
\* The worker is killed: its transaction is never committed.
Killed(t) ==
    /\ ~At(t, "idle") /\ Faults
    /\ Goes(t, Idle)
    /\ answer' = [answer EXCEPT ![t] = Silence]
    /\ dead' = IF job[t].pc \in {"precommit", "merge"} THEN dead \cup {job[t].number} ELSE dead
    /\ UNCHANGED <<revs, tried, cache, reads, file, exec, directory, install, settled,
                   spoiled, ours, installs, userActs>>

CacheForgets ==
    /\ Faults
    /\ \E k \in DOMAIN cache : Forgets(k)
    /\ UNCHANGED <<repo, job, answer, reads, file, exec, directory, install, settled,
                   spoiled, ours, installs, userActs>>

InstallsHooks(i) ==
    /\ InstallStep(i) \/ InstallerKilled(i)
    /\ installs' # installs => More
    /\ UNCHANGED <<repo, cache, job, answer, reads>>

\* What the administrator touches no longer guards the commits under way.
Administrates ==
    /\ UserStep /\ More
    /\ job' = [t \in Threads |-> [job[t] EXCEPT !.guarded = @ /\ "pre" \in ours']]
    /\ UNCHANGED <<repo, cache, answer, reads>>

Next ==
    \/ \E t \in Threads : Commit(t) \/ Read(t) \/ Killed(t)
    \/ \E i \in Installers : InstallsHooks(i)
    \/ Administrates \/ CacheForgets

Spec == Init /\ [][Next]_vars

---------------------------------------------------------------------------
TypeOK ==
    /\ RepoTypeOK /\ HooksTypeOK
    /\ DOMAIN cache \subseteq Keys
    /\ \A t \in Threads :
          /\ job[t].pc \in {"idle", "precommit", "merge", "postcommit", "date",
                            "lookup", "compute", "store"}
          /\ job[t].ask \in Asks \cup {NoAsk}
          /\ job[t].tree \in Trees
          /\ job[t].base \in (0..Youngest) \cup {None}
          /\ job[t].rev \in (0..Youngest) \cup {None}
          /\ {job[t].dated, job[t].readonly, job[t].guarded} \subseteq BOOLEAN
          /\ job[t].extras \in {"none", "env", "txn"}
          /\ job[t].verdict \in {"none", "approved", "unreadable", "unimportable"}
    /\ DOMAIN answer = Threads
    /\ reads \in 0..MaxReads

(* A revision holds what its commit asked for and, everywhere else, what   *)
(* the revision before it held; what was asked for had not been changed by *)
(* anyone since the commit began (svn.py:421-445, 717-772).  A commit that *)
(* removes what it has itself added asks for nothing there.                *)
Beneath(p, q) == p = q \/ q \in Above(p)
Under(qs) == {p \in Paths : \E q \in qs : Beneath(p, q)}
Names(ps) == {ps[n] : n \in DOMAIN ps}

AsAsked(base, old, new, edit, number) ==
    LET removed == Under(Names(edit.removed) \cap DOMAIN base)
        written == Names(edit.updated) \ Under(Names(edit.removed))
        touched == removed \cup written
    IN  /\ removed \cap DOMAIN new = {}
        /\ \A p \in written : p \in DOMAIN new /\ new[p] = number
        /\ \A p \in FilesOf(old) \ touched : p \in DOMAIN new /\ new[p] = old[p]
        /\ \A p \in DOMAIN new \ (DOMAIN old \cup written) : new[p] = Directory
        /\ touched \cap Changed(base, old) = {}

LandsAsAsked ==
    [][\A t \in Threads :
          At(t, "merge") /\ job'[t].pc = "postcommit" =>
              /\ Len(revs') = Len(revs) + 1
              /\ AsAsked(Tree(job[t].base), Tree(Youngest), revs'[Len(revs')].tree,
                         job[t].edit, job[t].number)]_vars

\* The script let the commit pass because something in it failed.
FailedOpen(k) ==
    \/ k.verdict = "unimportable"
    \/ k.verdict = "unreadable" /\ k.extras = "txn"

(* Once the script of RhodeCode has been there, and as long as the         *)
(* administrator leaves it, a commit with extras that lands was approved   *)
(* by RhodeCode, whoever rewrites the script meanwhile                     *)
(* (hook_utils/__init__.py:128-139), except in the two cases in which the  *)
(* script that runs fails open: vcsserver could not be imported            *)
(* (svn_pre_commit_hook.py.tmpl:28-31), or the extras were in the          *)
(* transaction and could not be read (hooks.py:643-646, 673-675).          *)
ApprovedLands ==
    [][\A t \in Threads :
          /\ At(t, "merge") /\ job'[t].pc = "postcommit"
          /\ job[t].guarded /\ job[t].extras # "none"
          => job[t].verdict = "approved" \/ FailedOpen(job[t])]_vars

(* An answer about a revision the caller named is right for good, cached   *)
(* or not and whatever is committed since (svn.py:198-364, 467-475); the   *)
(* date of a revision is not, nor is what was asked without a revision.    *)
RevisionAnswerRight ==
    \A t \in Threads :
        LET ask == job[t].ask IN
        /\ At(t, "idle") /\ answer[t].kind = "ok"
        /\ ask.name \notin {"none", "revision_properties"} /\ ask.arg # None
        => answer[t] = Result(ask)
================================================================================
