# vcsserver in TLA+

A verification project for RhodeCode's vcsserver: the process that executes git,
Mercurial and Subversion operations for RhodeCode, over a msgpack RPC interface
and over the version control systems' own HTTP protocols. Paths below are
relative to `src/`.

## 1. Inventory

| part | code | state it keeps | operations |
|---|---|---|---|
| Stream buffering | `vcsserver/subprocessio.py` 86-289 | a deque of chunks, four events (`data_added`, `keep_reading`, `EOF`, `go`), a reader thread per stream | reader loop, `next()`, `stop()`, `close()` |
| Subprocess object | `subprocessio.py` 34-79, 292-513 | a child process, three pipes, the feeder thread, the last return code | constructor, `next()`, `close()`, `run_command` |
| git smart HTTP | `pygrack.py` | none between requests; order of hooks, process and output within one; `info/refs` | `inforefs`, `backend`, message injection |
| Hooks | `hooks.py`, `hook_utils/` | hook files of a repository and their mode; extras in the environment | pull, push and commit hooks of three systems; installation |
| git-lfs | `git_lfs/app.py`, `git_lfs/lib.py` | one file per object and one temporary path per object | batch, PUT, GET, verify |
| RPC and streaming | `http_main.py`, `wsgi_app_caller.py`, `remote_wsgi.py` | remotes and WSGI applications of the process | `vcs_view`, `hg_stream`, `git_stream`, error view |
| git backend | `git.py` | objects and refs of a repository, on disk | commit, pull, sync, set and remove refs, reads |
| Mercurial backend | `hg.py`, `hgcompat.py`, `hgpatches.py` | changelog, phases, obsolescence markers, bookmarks and the lock of a repository | commit, pull, strip, bookmark, pushes of clients, reads |
| Subversion backend | `svn.py`, `svn_diff.py` | revisions with their properties; open transactions | commit, import, hook installation, reads, diffs |
| Caches | `lib/rc_cache/`, `lib/memory_lru_dict.py` | cached results by region and key; an LRU dictionary | conditional caching, invalidation |
| Service code | `lib/exc_tracking.py`, `lib/request_counter.py`, `tweens/`, `configs/gunicorn_config.py` | stored exceptions, a counter, memory checks | store, read, drop; recycle a worker |
| Glue | `scm_app.py`, `base.py`, `exceptions.py`, `vcs_base.py`, `server.py`, `hgcompat.py`, `echo_stub/` | none | construction |

How they meet. The RPC view and the streaming views call the backends and
`pygrack`; everything that runs a program (git, svn, svnlook, hooks that call git)
does so through the subprocess object, which hands its `next()` to the WSGI server
as the body of a response. Git starts the installed hook scripts, which are
processes of their own and report to RhodeCode over HTTP. Requests run in gunicorn
worker processes (`configs/gunicorn_config.py`) or in threads of waitress, so
repositories and the git-lfs store are shared between processes; only Mercurial and
the commit of a Subversion transaction take a lock. The reads of the three backends
share one cache region on disk.

The hard behaviour is in the first two rows (threads, events with timeouts, three
pipes, a child that dies when it likes), in the git-lfs store (a shared temporary
path, connections that break), in the order of hooks and output of a push or a pull,
in repositories that several requests change at once, in hook files that are rewritten
while they are used, and in what is cached. `PROJECT.json` lists the hazards at their lines.

What makes the parts correct:

- Stream buffer: every chunk comes out once and in order; `next()` returns and never
  returns nothing; memory is bounded; the worker kills itself only after all its
  timeouts; stderr never blocks the child.
- Subprocess object: constructor, `next()` and `close()` return; the end of the
  iteration means all the output; failures are raised; no process, descriptor or
  thread is left.
- git-lfs store: what is stored under an object's name is the object; what a client
  was told is accepted is whole; a retry repairs a truncated object; downloads do not
  change under the reader.
- git service and hooks: a refused pull or push sends or moves nothing; what moves is
  announced as it happened; messages do not damage the response they are put in.
- Backends: a ref never names a commit that is not there with its history; a commit
  has what it was asked for and nothing else changes; a pull writes its own refs; what
  a client pushes lands as RhodeCode approved it and is announced.
- Hook installation: an administrator's hooks are kept; what is left is ready to run;
  no commit of Subversion slips past the hook while it is rewritten. (Subversion refuses a
  commit whose hook is empty or cannot run. git runs an empty hook, which passes, and
  ignores one that is not executable, so that of git the same cannot be said.)
- Caches: an answer is not older than the context it was asked in, and an answer about
  a commit is right for good.

## 2. Plan

In order of importance.

| module | models | builds on | status |
|---|---|---|---|
| `ByteStream` | what a buffered stream promises (abstract) | | done |
| `CountedStream` | what the code around a buffered stream can see of it (abstract) | | done |
| `StreamBuffer`, `StreamBufferProofs` | `BufferedGenerator` + `InputStreamChunker` | implements `ByteStream` and `CountedStream` | done, proved |
| `SubprocessIO`, `MCSubprocessIO`, `SubprocessIOProofs` | `SubprocessIOChunker` + `StreamFeeder` | two `CountedStream`s | done, safety proved |
| `LfsStore`, `MCLfsStore`, `LfsStoreProofs` | git-lfs store and its requests | | done, safety proved |
| `GitPush`, `MCGitPush`, `GitPushProofs` | `pygrack` for pushes, `git_pre_receive`, `git_post_receive`, the script templates, error mapping | | done, proved |
| `GitPull`, `MCGitPull`, `GitPullProofs` | `pygrack` for pulls: the pull hooks, message injection | | done, proved |
| `GitRepo`, `GitBackend`, `MCGitBackend`, `GitBackendProofs` | commits, pulls, mirrors, refs and cached reads of `git.py` | `RepoCache` | done, proved |
| `RepoCache` | conditional caching and its keys, for all three backends | | done |
| `HgRepo`, `HgBackend`, `MCHgBackend`, `HgBackendProofs` | `hg.py` and the Mercurial hooks with `_check_heads` | `RepoCache` | done, proved |
| `HookInstall` | installation of the git and Subversion hooks | | done, proved with `SvnBackend` |
| `SvnRepo`, `SvnBackend`, `MCSvnBackend`, `SvnBackendProofs` | `svn.py` and the Subversion hooks | `RepoCache`, `HookInstall` | done, proved |
| `SvnImport` | the `svnrdump` / `svnadmin load` pipeline | | left out, see section 6 |

## 3. The modules

### ByteStream

Chunks numbered as they were sent; `Deliver` hands over the next one, `End` is
allowed when the stream was closed and everything was delivered, `Abort` stands for
`stop()` and for the death of the worker, after which the end may come early. It is
the contract a WSGI server relies on.

### CountedStream

A buffered stream as the subprocess object sees it: how many chunks are in the pipe and in
the deque, whether EOF is set (or `go` cleared, which will set it), whether reading is
paused, and what the reader is about to do: read, put away the chunk it holds, pause, or
nothing any more. It keeps what is awkward about the code: a reader that found the deque
full may pause after the consumer has emptied it, a paused reader may append `LateChunks`
more by timeouts, a chunk in hand may still be appended after `stop()` or be dropped, and
`next()` resumes the reader in one step and takes its chunk in another. The death of the worker
(`os._exit`) is, for the process around it, a reader that never goes on.

### StreamBuffer

Three actors: the child behind the pipe (external: it writes, closes, dies), the
reader thread (`rpc` is its place in `InputStreamChunker.run`), and the thread that
calls `next()` and `stop()` (`cpc`). Each test, `Event` operation and deque operation
is an action of its own, because in CPython another thread may run between any two
of them. `data` is the deque, `dataAdded`, `keepReading`, `eof` and `go` the events;
`taken` and `inHand` the chunks the reader has read and the one it holds; `expired`
counts its waits that ended by the timeout. The events' timeouts are steps that may
always be taken: the model has no clock, so a timeout may be early, and everything
that holds does not depend on how long 0.2 or 20 seconds are. Chunks are numbered,
and `out` is what `next()` returned. `starting_values` are `Starting` chunks that are
there from the start. `os._exit` (line 142) makes `rpc` "exited", after which
neither thread steps: the process is gone.

Constants: `BufferChunks` is `buffer_size / chunk_size`, from which `ChunkCountMax`
(line 95) and `maxlen` (line 174) follow; `TimeoutInput` is 20 in the code;
`Bottomless` tells the stderr stream from the stdout stream; `PipeCap` is the pipe;
`MaxChunks` bounds what the child writes.

### SubprocessIO

The constructor, `next()` and `close()` of `SubprocessIOChunker` step by step (`pc`),
the feeder thread, and the two readers. `Out` and `Err` are instances of `CountedStream`,
`Err` with `Bottomless` and a `maxlen` of `ErrKept` (16000 in the code, line 400), so that
whatever `StreamBuffer` may do to its pipe, its deque and its events is, in these terms, a
step of the stream here. A `stop()` and the joining of a message are one step each. The
child writes both streams in any order, reads its input, closes its files and exits in two
steps ("git are doing some magic in between", lines 444-448), may fail or be killed at any
moment. `inputFd` is the parent's copy of the reading end of the input pipe, which decides
whether the feeder's write can fail. The caller may close the object at any moment between
two calls, go on, or drop it. `Works` says how many chunks the child may write to either
stream and be sent.

### LfsStore

One object (objects share no path), its two paths `oid` and `tmp` as names of files,
so that `open(..., 'wb')`, `rename` and a reader with an open descriptor behave as on a
POSIX file system: a truncated file keeps the offset of the other writer, and a
renamed file is still written through the descriptor. Uploading clients send the
batch request, PUT in blocks of 64kb and verify; they start again after an error, and
a connection may be lost or a worker killed in between. `shutil.move` is `rename`,
and copy plus unlink when the rename fails. `MCLfsStore` adds the symmetry of the
uploading clients. `overlapped` is a history variable: two uploads had the object's
file open at once; the store's guarantees hold up to that moment, and the run
`lfs_ok` shows what happens after it.

### GitPush

Every push is three actors: the server's thread (`srv`), which answers `info/refs`,
starts git and, with `update_server_info`, reads its output to the end and runs
`git update-server-info`; git receive-pack with the hook scripts it starts (`git`); and
the client, whose commands are `old` and `new` per branch: it chose them when it read
the refs, and sends them later, when the refs may have moved. `verdict` is what came of
the pre-receive hook, `told` what `pre_push` reported as pruned, `changed` the branches
git moved, `commitIds` and `post` the report of `git_post_receive`. git itself is
external: it moves a ref only if it still has the old value, and does not delete the
branch HEAD names. A commit is a member of `Revs` with a fixed ancestry, so
`git rev-list`, `git log` and `git show` are set expressions; `LogsNew` gives the
answer git gives for the arguments as the code writes them. A call of RhodeCode may
have any of the outcomes of `_handle_exception` and `HooksHttpClient`. `git show HEAD`
may succeed wrongly, because `next()` polls the child once and a child that fails after
it has closed its output is taken for one that did not. git or the worker may be
killed. `fds` counts the input descriptors the server holds for a push. `MCGitPush`
gives the history and the initial refs.

### GitPull

A `git-upload-pack` request from the hook to the response. The output of git is a
sequence of pieces, with the NAK at its beginning and the `0000` at its end in two
halves each, and `ChildWrites` cuts it anywhere into chunks: `_inject_messages_to_response`
looks only at the first and the last chunk. `Tokens` are what lines and messages are made
of: a packet carries a number of them, and only the NAK, the `0000` and the two texts the
code sends itself are told apart. The hooks end with any status and text,
or with an exception; `capabilities` are the side bands the client offers. Messages
are packets on side band 2, of at most the size the band allows. `asked` and `told`
are what RhodeCode knows. Requests share nothing, so one is enough. The state the
answer is in stutters.

### RepoCache

The region `repo_object`: `cache` maps a key to a value, and `KeyOf` says which key a
call has. Some functions take the context of the caller into their key
(`KeyedByContext`), some the commit only (`KeyedByCommit`), some the commit although
their answer depends on the rest of the repository (`KeyedByCommitOnly`), some are not
cached. A value is created by one thread at a time under dogpile's lock (`Creating`),
computed in one step and stored in a later one, and may be lost at any time.
The three backends use it with their own reads; the answers of a read are what the
code computes from the repository, errors included.

### GitRepo and GitBackend

`GitRepo` holds the state: every commit there is (`graph`, with the tree and the edit it
was made with), those whose objects are in the repository (`store`), `refs`, and the
refs of the other repository (`remote`). `Edited` builds the trees of a commit as
`GitRemote.commit` does, directory by directory and with its rule for removals.
`GitBackend` gives every request of `Threads` the steps of the code: `commit` stores
the objects, then reads which branch to write, then sets the ref; `pull` fetches,
filters, sets one ref after the other and then `HEAD`; `sync_fetch` lists the remote
and fetches its refs in chunks; `create_branch`, which `commit` calls as well, asks for the
branch in one step and creates it in another, which raises if the branch is there by then. Between any two
steps another request may run, the other repository may change, and the worker may
be killed. `used` are the contexts callers have used: a value knows in its history
field `knew` which contexts had been used when it was computed.

### HgRepo and HgBackend

A commit is its node; `log` is the changelog, so that a revision is a place in it which
`strip` changes. `ScanHeads` is the loop of `_check_heads`, and `Report` what `pre_push`
sends: totals and last commits per branch, and the forks. Mercurial's own lock is
`lock`: `commitctx`, pull, strip and the whole of a push up to its last
in-transaction hook are under it, and `changegroup` hooks run after it was given
back, so that another writer may come in between. `Shapes` are the histories clients
have: a push is a set of commits with everything below them. `announced` and
`expected` are history variables: what RhodeCode was told of, and what each context
must therefore show. The repository is opened unfiltered, so that hidden commits are
seen by every read (`Shown`). The call of `post_push` may fail (`AnnounceFails`): RhodeCode
has heard it or not, the client is warned, and the push stands. `LandedIsAnnounced` is about
the calls that did not fail.

### HookInstall

`file`, `exec` and `directory` are what is on disk; each installer goes through
`install_git_hooks` or `install_svn_hooks` step by step: make the directory, recognise
what is there, open (which empties), write, chmod. An administrator moves a hook
there or takes one away at any time; an installer may be killed or fail to write.
`settled`, `spoiled` and `ours` are history variables the properties need. What an empty
or not yet executable file means to a commit is composed with it for Subversion only, in
`SvnBackend`; for git a push that comes while the hook is rewritten may pass it.

### SvnRepo and SvnBackend

`revs` are trees of paths with the commit that dated each; a commit takes a base revision,
edits its transaction and merges it, and Subversion refuses it when what it touches has
changed since (`Conflicts`). `TxnTree` edits the transaction node by node, the updated ones
first and then the removed ones, as the two loops of `commit` do. Clients come through
Apache and have their commit approved by `pre-commit` and announced by `post-commit`, when
the hook files say so: Subversion runs what `HookInstall` has on disk at that moment, so
that an empty or not yet executable file is seen. A commit comes from a request or from a
client, with RhodeCode's extras in the environment, in the transaction or nowhere
(`extras`); the history field `verdict` keeps how it passed the pre-commit script: asked and
approved, without extras, or because the script failed open. It does that twice, and both
are faults of the model: vcsserver cannot be imported (`NotImportable`), and extras that
were in the transaction cannot be read, which the code takes for none (`ExtrasUnreadable`).
`ApprovedLands` excepts these two by name and nothing else.

## 4. What the runs show

| run | question | bounds and why |
|---|---|---|
| `stream` | All of section 1's stream properties under every interleaving, with fair threads | one-chunk buffer (limit 2), 2 timeouts, a starting value, 6 chunks through a one-chunk pipe: enough to fill the deque, pause, resume, pause again, and to exhaust the timeouts until the exit |
| `stderr` | The bottomless stream | `maxlen` 2 below the limit 3, 6 chunks: chunks are dropped, and the child can always end |
| `subprocess` | What the end of the iteration tells; everything returns and is released | 6 chunks of output block a child whose reader is paused, the one it appends by a timeout included; 2 of input block the feeder; of 2 of stderr its deque drops the first; 2 of output block a child whose stream is stopped; a child without output |
| `lfs_safety` | The store under two uploads and a download | 2 blocks, one lost connection, one killed worker: a truncated file, a left-over `oid.tmp` and both orders of renames happen |
| `lfs_retry` | A retry repairs | one client, 3 blocks, 2 lost connections and 2 killed workers |
| `lfs_ok` | "upload: ok" means stored | violated when two uploads overlap |
| `git_push` | What a refused push, a report and `info/refs` may be, with two pushes at once | two branches of which one is there, HEAD at either, a commit and its child, one killed process: every command (create, move on, force back, delete), stale commands, an unborn HEAD |
| `git_pull` | What a client gets and what RhodeCode has approved | five outputs of git (a pack, a round of negotiation, an acknowledgement, NAK alone, nothing), cut in every way, texts of none, one and three pieces against bands of one and two, every end of both hooks |
| `git_backend` | Refs, edits, pulls and cached answers under two requests | 2 branches, 2 commits, 3 calls of which 2 are reads, 2 contexts, one fault; fetches of one ref per chunk: a commit against a pull, a pull against a mirror, a read before and one after either |
| `git_removals` | "Cut down the blob and all rotten trees on the way back" | violated by a removal from a directory that keeps another file |
| `hg_backend` | Pushes against commits, pulls, strips and cached reads | every history of three commits on two branches (linear, forked, merged, second roots), a fourth commit, 3 calls of which 2 are reads, one fault: each shape of fork the hook looks for |
| `svn` | Commits against each other and against hook installation; cached reads | 3 commits, 2 requests and clients, 2 installers, 1 act of the administrator, one fault, 4 calls: a conflict, a file moved to a new directory, a removed directory, a commit that removes what it has itself added, a hook that is rewritten while a client commits |

Each property has a mutant in its module: a plausible bug in the code it is about
under which TLC finds the property violated. The type invariant of `GitPull`
is checked by its run and proved, the others are only proved.

Sizes: from 46,296 distinct states (`git_pull`) to 1.8 million (`svn`).

Deadlock is checked where a system rests by itself: the states in which it may (the
stream's `Finished`, the caller's `Resting`, the clients' and the pushes' `Finished`,
the answered pull) stutter explicitly, and any other state without a step is an
error. The three backend models stop when their calls are used up, and there the runs
say `CHECK_DEADLOCK FALSE`.

Symmetry: requests and contexts are interchangeable in `git_backend` and `hg_backend`,
clients in `lfs_safety`, pushes in `git_push`, installers in `svn`. No run with a liveness
property uses it.

### Fairness

`StreamBuffer`: weak fairness of the child, of the reader, of a `next()` that was called and
of a `stop()` that was called: these are threads and a process the operating system
schedules, and every blocking wait in them has a timeout. That the caller goes on
calling `next()` is not assumed, except as the premise of `StreamEnds`. `SubprocessIO`:
the same for the constructor, `next()`, `close()`, feeder and readers; the child makes
progress unless it is blocked on a pipe, and exits when killed. No fairness forces the
caller to call anything. `LfsStore`: each client's requests are served and it retries;
faults are never forced. The other models assume no fairness: their properties are
safety.

## 5. What is proved

TLAPS proves the following for every value of the constants allowed by the named
assumptions (positive buffer, pipe and deque sizes; finite sets of clients; a positive
object size; repositories that are well formed to begin with). With it every invariant and every
action property a passing run checks is a theorem; only liveness is left to TLC.

`StreamBufferProofs`: `IInv` is inductive, and from it `TypeOK`, `NeverEmptyHanded`,
`MemoryBound`, `ExitNeedsTimeouts`, `BottomlessNeverPauses`, `LastChunksKept`, that a
stream that is not bottomless implements `ByteStream` (`StreamDelivers`), and that every
stream implements `CountedStream` (`StreamCounts`). The properties
are not inductive: `MemoryBound` needs to know how many chunks a reader can have
appended since it last passed the test, which ties the length of the deque to the
place of the reader and of the consumer and to the number of expired waits
(`BacklogInv`); `Delivers` needs the exact content of the deque, which is the interval
from the last chunk delivered to the last one appended (`DataInv`, `OutInv`), and that
EOF means closed and drained unless `stop()` was called (`EofInv`); `NeverEmptyHanded` needs
what each test of `next()` has established and nobody can undo (`NextInv`). `Counts` needs
some of each: that EOF is set without a `stop()` only when the pipe is closed and empty and
nothing is in hand, that an append keeps to the limit and the timeouts, that a pop
finds a chunk; the test of the deque, the wait and the test after it are steps in which
nothing that is counted changes.

`SubprocessIOProofs`: `TypeOK`, `FailureNotMissed` and `OutputComplete`, from the facts that
EOF of stdout is the end of a closed, empty pipe whose reader is done until somebody stops
it, and that a child that had exited when the iteration ended is polled as such. Its streams
are those `StreamCounts` is about: what is proved of the object with two counted streams is
meant for the object with two real buffers, whatever their sizes and timeouts. That the whole
of the two models put together refines this one is not itself a theorem.

`LfsStoreProofs`: `TypeOK`, `NeverVanishes`, `StoredIsPrefix`, `AcceptedIsWhole` and
`ServedIsFrozen`. The invariant says that, until two uploads overlap, at most one
request is between `open` and the end of `shutil.move`; that `oid.tmp` is then its own
file and holds exactly the blocks it has written; and that neither the object's file nor
one a download reads is `oid.tmp` (`UploadInv`, `ServedInv`). None of the properties is
inductive without it: a rename publishes whatever `oid.tmp` holds.

`GitPushProofs`: `TypeOK`, `RefusedMovesNothing`, `MovedIsAnnounced`, `PrunedAsTold` and
`InfoFresh`, for any number of pushes, branches and commits. The invariant is about one push
at a time (`PushInv`): the place of its server thread, of git, the verdict and the moved
branches go together (`Orderly`), what was told is what its commands prune (`ToldRight`),
and the branches `git_post_receive` is through with are listed (`Collecting`). Other pushes
share only the refs with it (`OthersSame`), and `PrunedAsTold` then follows because git
moves a ref only from the value the client saw. Without `ToldRight` it is not inductive: the
commands must not change between the two hooks. `InfoFresh` has a second invariant
(`InfoInv`): until two pushes overlap only one is busy, git is through when
update-server-info runs, and what that has read is current.

`GitBackendProofs`: `TypeOK`, `RefsClosed`, `EditKept`, `ContextFresh`, `PullKeepsOthers` and
`CommitAnswerRight`, for any number of requests, refs, files and commits. The
argument: the graph of commits only grows, so that the history and the tree of a commit
never change once it is made, and neither does an answer computed from them; the
store only grows and is closed under history after every step that adds to it; a
request that is about to set a ref holds a commit that is already stored, which
is what the invariant adds for each place of a commit, a pull and a mirror; and a
cached entry, like a value not stored yet, was computed when its context had been used
(`knew`). `RefsClosed` alone is not inductive: a ref is set steps after its commit was
stored, from a local variable.

`GitPullProofs`: `TypeOK`, `SentAsApproved` and `ResponseWhole`, for any output of git, any
end of the hooks, any messages, side bands and packet sizes. git runs only after an approved
hook or without one (`IInv` ties the place of the request, the child, the status of the hook
and what RhodeCode knows together), and the response of a refused pull consists of the
packets `Chunks` lists, however `_write_sideband_to_proto` cuts the message. A second
invariant (`WInv`) says what is in the response at every place: nothing while the hooks run,
then the chunks of git one by one, in the end all of them, as they are or as
`_inject_messages_to_response` rewrites the first and the last. `ResponseWhole` compares
what joining those chunks gives with git's output and the messages. That needs lemmas about
the operators: joining concatenates and takes pieces apart at any cut, what git has written
is what the chunks join to, and a message cut into packets of any size joins to the message
again.

`HgBackendProofs`: `TypeOK`, `SeenOnceAnnounced`, `LandsAsApproved`, `LandedIsAnnounced` and
`HeadsRight`, for any number of requests, histories, branches and contexts. The invariant
has a part for each kind of state: the changelog holds nothing twice and every commit with
its history (`RepoOK`); a push between its lock and its landing still finds the changelog as
it has read it, so that what its commits are is what `pre_push` counted (`PushesOK`); a
value that was computed in a context has the commits the context promises, on its way to the
cache (`ReadsOK`) and in it (`CacheOK`); and the contexts promise what is there
(`ExpectedOK`), which a strip has to take back. `LandsAsApproved` is not inductive: the lock
is what nothing of its text mentions. `HeadsRight` needs an order (`OInv`): in the
changelog, and in what a push brings, a commit comes after everything it descends from, and
the changelog lacks none of that. From it the loop of `_check_heads`, which passes once over
the revisions after a parent, finds what the definition without a loop says (`ScanFinds`): a
place belongs to the line of the parent exactly if it is on its branch and has a parent in
the line (`LineIs`), and those places have been passed already. A strip keeps the order
because it takes what descends from the stripped commit too. The assumptions are
`RepoAssumption` (the commits have the histories of a repository), `BackendAssumption` and
`CacheAssumption`.

`SvnBackendProofs`: `TypeOK`, `HooksKept`, `ApprovedLands`, `RevisionAnswerRight` and
`LandsAsAsked`, for any number of requests, installers, edits and revisions. For the hook
files (`HooksOK`): an installer that is about to open a file has found it its own, or was
forced and then nothing is settled; an empty file has a writer that still holds it, and a
script that cannot run one that is about to make it executable, unless its installer failed;
and a script that was ready once is there, or empty under somebody who rewrites it, which
makes Subversion refuse the commit. `ApprovedLands` follows because a commit that began
under such a script (`guarded`) passes the hook only through the script, which asks
RhodeCode or fails open in one of its two ways (`GuardOK`). For the
reads: what is said of a revision depends on the revisions up to it (`ResultsGrow`), and
those keep their trees (`RevsGrow`), so that an answer, a value on its way and a cached one
stay right (`ReadOK`, `CacheOK`). For the commits (`TxnsOK`): an open transaction holds the
tree its edit makes of the revision it began on, nothing there carries its number yet, and
every revision is a tree in which a node's directories are there too. What an edit makes of
a tree is a lemma about each of the two loops, and `LandsAsAsked` follows from it and from
what `Conflicts` refuses. The proof corrected the property: a commit that adds a node and
then removes it, or a directory above it, leaves nothing there, so that it cannot have "what
was asked for" at that path; the run has such a commit since then. `RepoAssumption` says
that the first revision is a tree as well (`FirstTree` has the directories of its nodes),
which every Subversion repository is.

Proved, and not repeated in a run: the type invariants of all modules but `GitPull`,
`NeverEmptyHanded` and `BottomlessNeverPauses` of the stream.

What a loop of the code computes for every input is proved by induction: over the length of
a message, the nodes of an edit, the places of a changelog. The library's induction theorems
take an operator as a parameter, which the provers cannot instantiate, so a set stands for
the predicate: a set that holds 0 and with every number the next one holds every number
(`Induction`, from the library's theorem that a non-empty set of numbers has a least
element). The loops are recursive functions; a function that meets the equation is
exhibited, after which the one the module defines meets it as well.

Only model-checked: the liveness properties `NextReturns`, `StreamEnds`,
`ChildNeverBlocked`, `ConstructorReturns`, `CloseReleases`, `RaiseReleases` and
`RetryRepairs`. They need fairness, whose definition contains ENABLED, and this prover
reasons about neither. The absence of deadlock, which is a statement about ENABLED too, is
checked by TLC only. The two runs that expect a violation state what the code does not do.

## 6. Not modelled

Text and formatting: error messages, git's packet lines beyond the markers `GitPull`
looks at, HTTP headers. Lengths in bytes: chunks and blocks are the units of the
code's own loops. The clock. The `throw`, `__getitem__` and length accessors of the
buffer change no state. The `StreamFeeder`'s choice between string and file is two
ways of having some chunks. Of the processes a child may start none is modelled: one that
keeps the child's stderr open makes `next()` wait for it without a limit
(`subprocessio.py:457`), which `NextReturns` does not cover.

Whole parts: `http_main.py` and the WSGI adapter dispatch a call and an exception and
keep nothing between requests; the exception store and the request counter are logging
that nothing reads; recycling of workers is decided by the memory of a process, outside
the code, and its effect is the killed worker of the models; `scm_app.py` and the
build files have no behaviour of their own. Of `git.py`: `bulk_request`, diff, blame, LFS
pointers and maintenance. Of `hg.py`: the operations of a working copy, largefiles,
diff and annotate, which are commands of Mercurial called by name. Of `svn.py`: the
import pipeline, in which neither process is this code, `lookup_interval`, diff and blame.
Of the hooks: `pre_pull`, `post_pull` and `repo_size` of Mercurial, which forward one call,
and tags in `git_post_receive`.

### What the code does that a reader may not expect

Modelled as it is, and met by no property because nothing in the repository promises
otherwise, or because the promise is a remark on code next to it:

- `next()` polls the child once when stdout is at its end (`subprocessio.py:456`): a child that
  fails after it has closed its output is not reported. `fail_on_stderr` needs a return code
  of None (`subprocessio.py:414`). The parent's copy of the input descriptor stays open when
  the constructor raises (`subprocessio.py:392`), and after a push with
  `update_server_info` (`pygrack.py:340`); `RaiseReleases` is about the child,
  and a feeder that is blocked on a full pipe stays blocked then.
- The pre-commit script of Subversion lets a commit pass when it cannot import vcsserver
  (`svn_pre_commit_hook.py.tmpl:28`), or when the extras in the transaction cannot be read
  (`hooks.py:643`, `hooks.py:675`).
- `pretxnchangegroup` takes the last node of a push for the revision before it
  (`hooks.py:305`), and `post_push`, which runs after the lock, may report the commits of
  another writer.
- `node_history_untill` raises for every call (`hg.py:503`), and `svn.fs.youngest_revision`,
  asked for when a read names no revision, does not exist (`svn.py:347`, `svn.py:360`).
- `install_hooks` answers True although it skipped a hook of somebody else.
- Every round of git's negotiation runs both pull hooks.
- The transactions of Subversion commits that fail are never aborted (`dead`), and the
  date of a revision is set a step after it can be read, so that a read in between
  caches the other date.
