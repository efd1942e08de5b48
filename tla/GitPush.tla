-------------------------------- MODULE GitPush --------------------------------
(***************************************************************************)
(* git pushes over HTTP to one repository: pygrack.GitRepository answers   *)
(* the two requests of each push, git receive-pack checks and moves the    *)
(* refs, and the installed hook scripts call hooks.git_pre_receive and     *)
(* hooks.git_post_receive, which report to RhodeCode.  Several pushes run  *)
(* at once, each with a server thread (srv), a git process with its hooks  *)
(* (git), and a client that chose its commands when it read the refs.      *)
(*                                                                         *)
(* Commits are the members of Revs and their ancestry is fixed: what a     *)
(* push brings along is part of it from the start.                         *)
(***************************************************************************)
EXTENDS Naturals

CONSTANTS
    Pushers,            \* the pushes
    Branches, Revs, Nil,
    Ancestors,          \* for each commit the set of its ancestors and itself
    InitialRefs,        \* the refs the repository may start with
    UpdateServerInfo,   \* GitRepository.update_server_info
    DetectForcePush,    \* extras['detect_force_push']
    MaxFaults           \* bound: processes that die

Ref == Revs \cup {Nil}

ASSUME PushAssumption ==
    /\ Nil \notin Revs
    /\ Ancestors \in [Revs -> SUBSET Revs]
    /\ InitialRefs \subseteq [Branches -> Ref]
    /\ UpdateServerInfo \in BOOLEAN
    /\ DetectForcePush \in BOOLEAN
    /\ MaxFaults \in Nat

VARIABLES
    refs,        \* the repository's branches; Nil if there is none
    head,        \* the branch HEAD names
    info,        \* the refs in info/refs, for clients of the dumb protocol
    srv,         \* where the server's thread is
    git,         \* where git receive-pack and its hooks are
    old, new,    \* the commands, per branch: no command where they agree
    todo,        \* branches that git, then post-receive, have still to do
    current,     \* the new branch git_post_receive is at
    verdict,     \* "none", "skipped", "approved" or "refused"
    told,        \* per branch the pruned commits pre_push was told of
    changed,     \* branches the push has moved
    commitIds,   \* the commits git_post_receive has collected
    post,        \* "none", "announced", "unreachable" or "failed"
    seen,        \* the refs update-server-info has read
    fds,         \* input descriptors the server holds for this push
    faults,
    overlapped   \* history: a push started while another was busy

repo    == <<refs, head, info>>
command == <<old, new>>
work    == <<todo, current>>
hooks   == <<verdict, told, changed, commitIds, post>>
faulty  == <<faults, overlapped>>
vars    == <<repo, srv, git, command, work, hooks, seen, fds, faulty>>

SrvPC == {"advert", "spawn", "drain", "infoRead", "infoWrite", "done", "dead"}
GitPC == {"none", "pre", "prePush", "update", "post", "testHead", "fixHead",
          "logNew", "repoSize", "postPush", "ended", "dead"}
Commands(p) == {b \in Branches : old[p][b] # new[p][b]}

Init ==
    /\ refs \in InitialRefs
    /\ head \in Branches
    /\ info = refs
    /\ srv = [p \in Pushers |-> "advert"]
    /\ git = [p \in Pushers |-> "none"]
    /\ old = [p \in Pushers |-> refs]
    /\ new = [p \in Pushers |-> refs]
    /\ todo = [p \in Pushers |-> {}]
    /\ current = [p \in Pushers |-> head]
    /\ verdict = [p \in Pushers |-> "none"]
    /\ told = [p \in Pushers |-> [b \in Branches |-> {}]]
    /\ changed = [p \in Pushers |-> {}]
    /\ commitIds = [p \in Pushers |-> {}]
    /\ post = [p \in Pushers |-> "none"]
    /\ seen = [p \in Pushers |-> refs]
    /\ fds = [p \in Pushers |-> 0]
    /\ faults = 0
    /\ overlapped = FALSE

-------------------------------------------------------------------------------
(* The server: inforefs() and backend().                                   *)

SrvGoes(p, from, to) ==
    /\ srv[p] = from
    /\ srv' = [srv EXCEPT ![p] = to]

\* GET info/refs; from the refs it is sent the client makes its commands.
Advertises(p) ==
    /\ SrvGoes(p, "advert", "spawn")
    /\ old' = [old EXCEPT ![p] = refs]
    /\ \E target \in [Branches -> Ref] :
          /\ target # refs
          /\ new' = [new EXCEPT ![p] = target]
    /\ UNCHANGED <<repo, git, work, hooks, seen, fds, faulty>>

\* Push q is between its start and its end.
Busy(q) == \/ srv[q] \in {"drain", "infoRead", "infoWrite"}
           \/ git[q] \notin {"none", "ended", "dead"}

\* POST git-receive-pack: the process is started with a pipe for its input.
Spawns(p) ==
    /\ SrvGoes(p, "spawn", "drain")
    /\ git' = [git EXCEPT ![p] = "pre"]
    /\ fds' = [fds EXCEPT ![p] = 1]
    /\ overlapped' = (overlapped \/ \E q \in Pushers \ {p} : Busy(q))
    /\ UNCHANGED <<repo, command, work, hooks, seen, faults>>

\* Mutant: update-server-info is started without consuming the output first.
Drains_Not(p) ==
    /\ SrvGoes(p, "drain", "infoRead")
    /\ fds' = [fds EXCEPT ![p] = 2]
    /\ UNCHANGED <<repo, git, command, work, hooks, seen, faulty>>

\* The output has been read to its end.  Without update_server_info it was
\* the response, and the WSGI server has closed it; with it, out = list(out),
\* and the next process gets a pipe of its own.
Drains(p) ==
    /\ git[p] \in {"ended", "dead"}
    /\ SrvGoes(p, "drain", IF UpdateServerInfo THEN "infoRead" ELSE "done")
    /\ fds' = [fds EXCEPT ![p] = IF UpdateServerInfo THEN 2 ELSE 0]
    /\ UNCHANGED <<repo, git, command, work, hooks, seen, faulty>>

\* git update-server-info reads the refs, and then replaces the file.
InfoReads(p) ==
    /\ SrvGoes(p, "infoRead", "infoWrite")
    /\ seen' = [seen EXCEPT ![p] = refs]
    /\ UNCHANGED <<repo, git, command, work, hooks, fds, faulty>>

InfoWrites(p) ==
    /\ SrvGoes(p, "infoWrite", "done")
    /\ info' = seen[p]
    /\ UNCHANGED <<refs, head, git, command, work, hooks, seen, fds, faulty>>

SrvStep(p) ==
    Advertises(p) \/ Spawns(p) \/ Drains(p) \/ InfoReads(p) \/ InfoWrites(p)

-------------------------------------------------------------------------------
(* git receive-pack and the pre-receive hook.                              *)

GitGoes(p, from, to) ==
    /\ git[p] = from
    /\ git' = [git EXCEPT ![p] = to]

\* The hooks are switched off: no vcsserver to import, RC_SKIP_HOOKS, or no
\* 'push' among extras['hooks'].
HooksOff(p) ==
    /\ GitGoes(p, "pre", "update")
    /\ verdict' = [verdict EXCEPT ![p] = "skipped"]

\* git rev-list old ^new, for a branch that is neither new nor deleted.
RevList(from, except) == Ancestors[from] \ Ancestors[except]

\* Mutant: the arguments of rev-list are swapped.
Pruned_Swapped(p, b) ==
    IF DetectForcePush /\ b \in Commands(p) /\ Nil \notin {old[p][b], new[p][b]}
    THEN RevList(new[p][b], old[p][b]) ELSE {}

Pruned(p, b) ==
    IF DetectForcePush /\ b \in Commands(p) /\ Nil \notin {old[p][b], new[p][b]}
    THEN RevList(old[p][b], new[p][b]) ELSE {}

CollectsPruned(p) ==
    /\ GitGoes(p, "pre", "prePush")
    /\ told' = [told EXCEPT ![p] = [b \in Branches |-> Pruned(p, b)]]
    /\ UNCHANGED <<repo, srv, command, work, verdict, changed, commitIds, post,
                   seen, fds, faulty>>

\* What a call of RhodeCode may come to: a status, one of the exceptions
\* _handle_exception makes of the answer, or no answer.
Answers == {"status0", "status1", "HTTPLockedRC", "HTTPBranchProtected",
            "otherException", "noAnswer"}
Raises(answer) == answer \notin {"status0", "status1"}

\* Mutant: a locked repository is reported, and the script exits with 0.
ScriptPasses_Locked(answer) == answer \in {"status0", "HTTPLockedRC"}

\* The script's exit status is 0.  An exception leaves it as a traceback or,
\* for a locked repository, as a message and sys.exit(1).
ScriptPasses(answer) == ~Raises(answer) /\ answer = "status0"

\* _call_hook('pre_push') and the end of the script.  git refuses every
\* command if its status is not 0.
PrePush(p) ==
    \E answer \in Answers :
        /\ GitGoes(p, "prePush",
                   IF ScriptPasses(answer) THEN "update" ELSE "ended")
        /\ verdict' = [verdict EXCEPT ![p] =
                          IF answer = "status0" THEN "approved" ELSE "refused"]

\* The transitions into "update".
PreReceive(p) ==
    /\ HooksOff(p) \/ PrePush(p)
    /\ todo' = [todo EXCEPT ![p] = Commands(p)]
    /\ UNCHANGED <<repo, srv, command, current, told, changed, commitIds, post,
                   seen, fds, faulty>>

\* git moves a ref under its lock: only if it still has the value the client
\* saw, and never deletes the branch HEAD names.
UpdatesRef(p, b) ==
    /\ git[p] = "update"
    /\ b \in todo[p]
    /\ todo' = [todo EXCEPT ![p] = @ \ {b}]
    /\ IF refs[b] = old[p][b] /\ ~(new[p][b] = Nil /\ b = head)
       THEN /\ refs' = [refs EXCEPT ![b] = new[p][b]]
            /\ changed' = [changed EXCEPT ![p] = @ \cup {b}]
       ELSE UNCHANGED <<refs, changed>>
    /\ UNCHANGED <<head, info, srv, git, command, current, verdict, told,
                   commitIds, post, seen, fds, faulty>>

\* post-receive is run with the refs that were moved, if there are any.
UpdateEnds(p) ==
    /\ todo[p] = {}
    /\ GitGoes(p, "update", IF changed[p] = {} THEN "ended" ELSE "post")
    /\ todo' = [todo EXCEPT ![p] = changed[p]]
    /\ UNCHANGED <<repo, srv, command, current, hooks, seen, fds, faulty>>

-------------------------------------------------------------------------------
(* The post-receive hook: git_post_receive.                                *)

PostJumps(p, from, to) ==
    /\ GitGoes(p, from, to)
    /\ UNCHANGED <<repo, srv, command, work, hooks, seen, fds, faulty>>

PostOff(p) == verdict[p] = "skipped" /\ PostJumps(p, "post", "ended")

Collects(p, b, ids) ==
    /\ todo' = [todo EXCEPT ![p] = @ \ {b}]
    /\ commitIds' = [commitIds EXCEPT ![p] = @ \cup ids]
    /\ UNCHANGED <<repo, srv, command, current, verdict, told, changed, post,
                   seen, fds, faulty>>

\* Mutant: the range is the wrong way round.
LogsUpdate_Swapped(p, b) ==
    /\ verdict[p] # "skipped"
    /\ b \in todo[p] /\ Nil \notin {old[p][b], new[p][b]}
    /\ GitGoes(p, "post", "post")
    /\ Collects(p, b, RevList(old[p][b], new[p][b]))

\* git log old..new
LogsUpdate(p, b) ==
    /\ verdict[p] # "skipped"
    /\ b \in todo[p] /\ Nil \notin {old[p][b], new[p][b]}
    /\ GitGoes(p, "post", "post")
    /\ Collects(p, b, RevList(new[p][b], old[p][b]))

\* delete_branch=>name
NotesDelete(p, b) ==
    /\ verdict[p] # "skipped"
    /\ b \in todo[p] /\ new[p][b] = Nil
    /\ GitGoes(p, "post", "post")
    /\ Collects(p, b, {})

StartsNew(p, b) ==
    /\ verdict[p] # "skipped"
    /\ b \in todo[p] /\ old[p][b] = Nil
    /\ GitGoes(p, "post", "testHead")
    /\ current' = [current EXCEPT ![p] = b]
    /\ UNCHANGED <<repo, srv, command, todo, hooks, seen, fds, faulty>>

\* git show HEAD.  It fails if the branch is not there; run_command raises,
\* unless the process had not exited when it was polled.
HeadFound(p) ==
    PostJumps(p, "testHead", "logNew")

HeadMissing(p) ==
    /\ refs[head] = Nil
    /\ PostJumps(p, "testHead", "fixHead")

\* git symbolic-ref HEAD refs/heads/name
FixesHead(p) ==
    /\ GitGoes(p, "fixHead", "logNew")
    /\ head' = current[p]
    /\ UNCHANGED <<refs, info, srv, command, work, hooks, seen, fds, faulty>>

\* git for-each-ref and git log.  What follows "--" are paths: "." if there
\* is no other head, and then HEAD's whole history is listed; names that match
\* no path if there is one, and then nothing is.
LogsNew(p) ==
    LET b == current[p]
        others == {c \in Branches \ {b} : refs[c] # Nil}
    IN /\ GitGoes(p, "logNew", "post")
       /\ Collects(p, b, IF others = {} /\ refs[head] # Nil
                         THEN Ancestors[refs[head]] ELSE {})

\* git log fails when HEAD's branch is not there, and the hook ends.
LogFails(p) ==
    /\ refs[head] = Nil
    /\ GitGoes(p, "logNew", "ended")
    /\ post' = [post EXCEPT ![p] = "failed"]
    /\ UNCHANGED <<repo, srv, command, work, verdict, told, changed, commitIds,
                   seen, fds, faulty>>

Collected(p) ==
    /\ verdict[p] # "skipped"
    /\ todo[p] = {}
    /\ PostJumps(p, "post", "repoSize")

\* Whatever comes of the repo_size hook is swallowed.
RepoSize(p) == PostJumps(p, "repoSize", "postPush")

\* git ignores the exit status of post-receive.
PostPush(p) ==
    \E answer \in Answers :
        /\ GitGoes(p, "postPush", "ended")
        /\ post' = [post EXCEPT ![p] = IF answer = "noAnswer"
                                       THEN "unreachable" ELSE "announced"]
        /\ UNCHANGED <<repo, srv, command, work, verdict, told, changed,
                       commitIds, seen, fds, faulty>>

GitStep(p) ==
    \/ CollectsPruned(p) \/ PreReceive(p)
    \/ \E b \in Branches :
          UpdatesRef(p, b) \/ LogsUpdate(p, b) \/ NotesDelete(p, b)
          \/ StartsNew(p, b)
    \/ UpdateEnds(p) \/ PostOff(p) \/ HeadFound(p) \/ HeadMissing(p)
    \/ FixesHead(p) \/ LogsNew(p) \/ LogFails(p) \/ Collected(p)
    \/ RepoSize(p) \/ PostPush(p)

-------------------------------------------------------------------------------
(* Faults.                                                                 *)

\* git and its hook are killed; the server sees the end of the output and, as
\* it does not look at the return code, goes on.
GitDies(p) ==
    /\ faults < MaxFaults
    /\ git[p] \notin {"none", "ended", "dead"}
    /\ git' = [git EXCEPT ![p] = "dead"]
    /\ faults' = faults + 1
    /\ UNCHANGED <<repo, srv, command, work, hooks, seen, fds, overlapped>>

\* The worker process is killed; git goes on.
WorkerDies(p) ==
    /\ faults < MaxFaults
    /\ srv[p] \notin {"advert", "done", "dead"}
    /\ srv' = [srv EXCEPT ![p] = "dead"]
    /\ fds' = [fds EXCEPT ![p] = 0]
    /\ faults' = faults + 1
    /\ UNCHANGED <<repo, git, command, work, hooks, seen, overlapped>>

Finished ==
    \A p \in Pushers : srv[p] \in {"done", "dead"} /\
                       git[p] \in {"none", "ended", "dead"}

Next ==
    \/ \E p \in Pushers :
          SrvStep(p) \/ GitStep(p) \/ GitDies(p) \/ WorkerDies(p)
    \/ Finished /\ UNCHANGED vars

Spec == Init /\ [][Next]_vars

-------------------------------------------------------------------------------
(* Properties.                                                             *)

\* Type invariant.
TypeOK ==
    /\ refs \in [Branches -> Ref]
    /\ head \in Branches
    /\ info \in [Branches -> Ref]
    /\ srv \in [Pushers -> SrvPC]
    /\ git \in [Pushers -> GitPC]
    /\ old \in [Pushers -> [Branches -> Ref]]
    /\ new \in [Pushers -> [Branches -> Ref]]
    /\ todo \in [Pushers -> SUBSET Branches]
    /\ current \in [Pushers -> Branches]
    /\ verdict \in [Pushers -> {"none", "skipped", "approved", "refused"}]
    /\ told \in [Pushers -> [Branches -> SUBSET Revs]]
    /\ changed \in [Pushers -> SUBSET Branches]
    /\ commitIds \in [Pushers -> SUBSET Revs]
    /\ post \in [Pushers -> {"none", "announced", "unreachable", "failed"}]
    /\ seen \in [Pushers -> [Branches -> Ref]]
    /\ fds \in [Pushers -> 0..2]
    /\ faults \in 0..MaxFaults
    /\ overlapped \in BOOLEAN

\* A push moves no ref unless RhodeCode answered its pre_push call with
\* status 0 or the hooks are off: exceptions and missing answers refuse it
\* (hooks.py 130-168, 539, git_pre_receive.py.tmpl).
RefusedMovesNothing ==
    \A p \in Pushers :
        changed[p] # {} => verdict[p] \in {"approved", "skipped"}

\* The commits RhodeCode was told a push prunes are those it does prune at
\* the moment the ref moves, whatever other pushes did in between
\* (hooks.py 516-535).
PrunedAsTold ==
    [][\A p \in Pushers : \A b \in changed'[p] \ changed[p] :
           /\ DetectForcePush
           /\ verdict[p] = "approved"
           /\ refs[b] # Nil
           /\ refs'[b] # Nil
           => told[p][b] = Ancestors[refs[b]] \ Ancestors[refs'[b]]]_vars

\* A push that moved refs is announced unless RhodeCode does not answer or
\* git log fails; the announcement lists every commit a branch has gained,
\* unless the branch is new (hooks.py 602-631).
MovedIsAnnounced ==
    \A p \in Pushers :
        git[p] = "ended" /\ verdict[p] = "approved" /\ changed[p] # {} =>
            /\ post[p] # "none"
            /\ post[p] = "announced" =>
                   \A b \in changed[p] : Nil \notin {old[p][b], new[p][b]} =>
                       Ancestors[new[p][b]] \ Ancestors[old[p][b]]
                           \subseteq commitIds[p]

\* When a push is answered and no two have overlapped, info/refs has the
\* repository's refs: update-server-info runs after the push (pygrack.py
\* 337-358), and makes up for earlier ones whose worker died.
InfoFresh ==
    [][\A p \in Pushers :
           /\ srv[p] # "done" /\ srv'[p] = "done"
           /\ UpdateServerInfo
           /\ ~overlapped
           => info' = refs']_vars
===============================================================================
