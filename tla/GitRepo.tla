-------------------------------- MODULE GitRepo --------------------------------
(***************************************************************************)
(* A git repository as the remote methods of vcsserver/git.py see it: the  *)
(* commits it holds, its refs, and the repository it pulls from or pushes  *)
(* to.  A commit is a number and stands for its object id: two commits     *)
(* with one number are the same commit, in whatever repository.            *)
(***************************************************************************)
EXTENDS Integers, Sequences, FiniteSets

CONSTANTS
    Branches,    \* the refs under refs/heads
    Tags,        \* the refs under refs/tags
    HeadBranch,  \* the branch HEAD names
    HEAD,        \* the name HEAD itself, which a pull may write
    Files,       \* the paths of the files, each a sequence of names
    FirstTree,   \* the files of the first commit
    MaxCommits   \* bound: how many commits are ever made

Refs == Branches \cup Tags
Names == Refs \cup {HEAD}
None == 0
Commits == 1..MaxCommits

ASSUME RepoAssumption ==
    /\ HeadBranch \in Branches
    /\ HEAD \notin Refs
    /\ MaxCommits \in Nat \ {0}
    /\ FirstTree \subseteq Files
    /\ IsFiniteSet(Refs)

VARIABLES
    graph,   \* every commit there is, in the order they were made
    store,   \* those whose objects the repository holds
    refs,    \* the commit each ref names, or None
    remote   \* the refs of the other repository, which holds every commit

repo == <<graph, store, refs, remote>>

\* A tree without empty directories is a map from its paths to their contents;
\* the content of a file is the commit that wrote it.
Trees == UNION {[fs -> Commits] : fs \in SUBSET Files}
Edits == [updated : SUBSET Files, removed : SUBSET Files]
CommitRecords ==
    [parent : 0..MaxCommits, history : SUBSET Commits, tree : Trees, edit : Edits]

Made == DOMAIN graph
History(c) == IF c = None THEN {} ELSE graph[c].history
HistoryOf(cs) == UNION {History(c) : c \in cs \ {None}}
TreeOf(c) == IF c = None THEN <<>> ELSE graph[c].tree

RepoInit ==
    /\ graph = <<[parent |-> None, history |-> {1}, tree |-> [f \in FirstTree |-> 1],
                  edit |-> [updated |-> FirstTree, removed |-> {}]]>>
    /\ store = {1}
    /\ refs = [r \in Refs |-> IF r = HeadBranch THEN 1 ELSE None]
    /\ remote = [r \in Refs |-> IF r = HeadBranch THEN 1 ELSE None]

---------------------------------------------------------------------------
(* The tree commit() builds.  Each updated file is put where it belongs,   *)
(* with the directories above it.                                          *)
Updated(tree, paths, c) ==
    [p \in DOMAIN tree \cup paths |-> IF p \in paths THEN c ELSE tree[p]]

\* Some directory below the root holds other files than p.
SharesDirectory(tree, p) ==
    \E q \in DOMAIN tree \ {p}, k \in 1..(Len(p) - 1) :
        Len(q) > k /\ SubSeq(q, 1, k) = SubSeq(p, 1, k)

Removed_Rotten(tree, paths) ==
    [p \in {q \in DOMAIN tree \ paths :
                \A r \in paths : ~(Len(q) > 1 /\ Len(r) > 1 /\ Head(q) = Head(r))} |-> tree[p]]

(* Removal deletes the entry of the file from the tree of its directory and*)
(* climbs while what is left is empty.  Where it stops, the changed tree is*)
(* an object in memory that is neither stored nor entered in its parent:   *)
(* only a removal that climbs to the root is seen in the commit.           *)
Removed(tree, paths) ==
    [p \in {q \in DOMAIN tree : q \in paths => SharesDirectory(tree, q)} |-> tree[p]]

Edited(tree, edit, c) == Removed(Updated(tree, edit.updated, c), edit.removed)

\* The entry of a removed file is not there: del raises KeyError.
CannotEdit(tree, edit) == ~(edit.removed \subseteq DOMAIN tree \cup edit.updated)

AddsCommit(c, parent, edit) ==
    graph' = Append(graph, [parent |-> parent, history |-> History(parent) \cup {c},
                            tree |-> Edited(TreeOf(parent), edit, c), edit |-> edit])

---------------------------------------------------------------------------
\* dulwich follows HEAD to the branch it names and writes that.
RefOf(name) == IF name = HEAD THEN HeadBranch ELSE name

WritesRef(name, c) == refs' = [refs EXCEPT ![RefOf(name)] = c]

\* What the other repository advertises, HEAD included.
Advertised(name) == remote[RefOf(name)]

Receives(cs) == store' = store \cup HistoryOf(cs)

---------------------------------------------------------------------------
(* The owners of the other repository move, create and delete its refs.    *)
RemoteCommits(r) ==
    /\ Len(graph) < MaxCommits
    /\ AddsCommit(Len(graph) + 1, remote[r], [updated |-> {}, removed |-> {}])
    /\ remote' = [remote EXCEPT ![r] = Len(graph) + 1]
    /\ UNCHANGED <<store, refs>>

RemoteDeletes(r) ==
    /\ remote[r] # None
    /\ remote' = [remote EXCEPT ![r] = None]
    /\ UNCHANGED <<graph, store, refs>>

---------------------------------------------------------------------------
(* What the reading methods compute.  A value is given with the kind of    *)
(* the answer: ok, or the error that is raised.                            *)
Ok(v) == [kind |-> "ok", val |-> v]
Error(k) == [kind |-> k, val |-> {}]

Lookup_Empty(c, v) == IF c \in store THEN Ok(v) ELSE Ok({})

\* repo[sha] raises KeyError for an object that is not there.
Lookup(c, v) == IF c \in store THEN Ok(v) ELSE Error("KeyError")

NamedBy(rs) == {refs[r] : r \in rs} \ {None}

get_refs == Ok({<<r, refs[r]>> : r \in {x \in Refs : refs[x] # None}})

\* One name for each commit: a branch listed later replaces an earlier one.
get_branch_pointers ==
    Ok({<<c, CHOOSE b \in Branches : refs[b] = c>> : c \in NamedBy(Branches)})

head == IF refs[HeadBranch] = None THEN Error("GitError") ELSE Ok({refs[HeadBranch]})
is_empty == Ok({refs[HeadBranch] = None})

\* branch() filters what get_refs() has answered, which may be cached.
branch(seen, c) == Ok({x[1] : x \in {y \in seen : y[1] \in Branches /\ y[2] = c}})

commit_branches(c) == Lookup(c, {b \in Branches : refs[b] # None /\ c \in History(refs[b])})

\* A commit no branch reaches is as good as missing.
get_object(c) ==
    IF c \in store /\ c \in HistoryOf(NamedBy(Branches)) THEN Ok({c}) ELSE Error("lookup")

get_all_commit_ids == Ok(HistoryOf(NamedBy(Refs)))
children(c) == Ok({d \in HistoryOf(NamedBy(Refs)) : graph[d].parent = c})
revision(c) == Lookup(c, {c})

\* Its author, date and message are what the caller of commit() gave it.
message(c) == Lookup(c, {graph[c].edit})
parents(c) == Lookup(c, {graph[c].parent})
tree_items(c) == Lookup(c, DOMAIN graph[c].tree)
tree_and_type_for_path(c) == Lookup(c, DOMAIN graph[c].tree)
blob(c) == Lookup(c, {graph[c].tree[f] : f \in DOMAIN graph[c].tree})
node_history(c) == IF c \in store THEN Ok(History(c)) ELSE Error("error")

---------------------------------------------------------------------------
RepoTypeOK ==
    /\ graph \in Seq(CommitRecords) /\ Len(graph) \in 1..MaxCommits
    /\ store \subseteq Made
    /\ refs \in [Refs -> Made \cup {None}]
    /\ remote \in [Refs -> Made \cup {None}]

(* Every ref names a commit the repository holds, with its whole history:  *)
(* whatever runs at once and wherever a worker is killed, objects come     *)
(* before the refs that need them (git.py:446-597, 600-651).               *)
RefsClosed == HistoryOf({refs[r] : r \in Refs}) \subseteq store

(* A commit has the files it was asked to write, and keeps those it was    *)
(* not asked to touch (git.py:446-544).                                    *)
EditKept ==
    \A c \in Made :
        LET new == graph[c].tree
            old == TreeOf(graph[c].parent)
            edit == graph[c].edit
        IN  /\ \A f \in edit.updated \ edit.removed : f \in DOMAIN new /\ new[f] = c
            /\ \A f \in DOMAIN old \ (edit.updated \cup edit.removed) :
                   f \in DOMAIN new /\ new[f] = old[f]
            /\ DOMAIN new \subseteq DOMAIN old \cup edit.updated

(* A commit has none of the files it was asked to remove: git.py:521 says  *)
(* "Cut down the blob and all rotten trees on the way back...".            *)
RemovalsLand ==
    \A c \in Made : graph[c].edit.removed \cap DOMAIN graph[c].tree = {}
================================================================================
