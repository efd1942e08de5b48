-------------------------------- MODULE SvnRepo --------------------------------
(***************************************************************************)
(* A Subversion repository as vcsserver/svn.py sees it: the trees and the  *)
(* dates of its revisions.  A path is a sequence of names; the content of  *)
(* a file is the number of the commit that wrote it.                       *)
(***************************************************************************)
EXTENDS Integers, Sequences, FiniteSets

CONSTANTS
    Paths,      \* the paths there can be
    FirstTree,  \* the tree of the first revision, made by commit 1
    MaxCommits  \* bound: how many commits are ever tried

None == -1
Directory == 0
Numbers == 1..MaxCommits

Above(p) == {SubSeq(p, 1, n) : n \in 1..(Len(p) - 1)}
Trees == UNION {[ps -> {Directory} \cup Numbers] : ps \in SUBSET Paths}

ASSUME RepoAssumption ==
    /\ Paths \subseteq Seq(STRING) \ {<<>>}
    /\ \A p \in Paths : Above(p) \subseteq Paths
    /\ FirstTree \in Trees
    /\ \A p \in DOMAIN FirstTree :
          FirstTree[p] \in {Directory, 1} /\ Above(p) \subseteq DOMAIN FirstTree
    /\ MaxCommits \in Nat \ {0}

VARIABLES
    revs,   \* the revisions from 0, each a tree and the commit it was dated by
    tried,  \* the commits that were begun
    dead    \* the transactions nobody will commit: none is ever aborted

repo == <<revs, tried, dead>>

Server == "server"  \* a date of the time of the commit
Caller == "caller"  \* the date commit() was given

Revisions == 0..MaxCommits
Youngest == Len(revs) - 1
Tree(r) == revs[r + 1].tree
Date(r) == revs[r + 1].date

RepoInit ==
    /\ revs = <<[tree |-> <<>>, date |-> Server], [tree |-> FirstTree, date |-> Server]>>
    /\ tried = 1 /\ dead = {}

---------------------------------------------------------------------------
(* TxnNodeProcessor: the missing directories are made, then the file.      *)
CanUpdate(tree, p) ==
    /\ \A q \in Above(p) \cap DOMAIN tree : tree[q] = Directory
    /\ p \in DOMAIN tree => tree[p] # Directory
Updated(tree, p, c) ==
    [q \in DOMAIN tree \cup Above(p) \cup {p} |->
        IF q = p THEN c ELSE IF q \in DOMAIN tree THEN tree[q] ELSE Directory]

CanRemove(tree, p) == p \in DOMAIN tree
Removed(tree, p) == [q \in {x \in DOMAIN tree : x # p /\ p \notin Above(x)} |-> tree[q]]

UpdatedAll(tree, ps, c) ==
    LET f[n \in 0..Len(ps)] == IF n = 0 THEN tree ELSE Updated(f[n - 1], ps[n], c) IN f
RemovedAll(tree, ps) ==
    LET f[n \in 0..Len(ps)] == IF n = 0 THEN tree ELSE Removed(f[n - 1], ps[n]) IN f

\* commit() updates all the nodes and then removes.
TxnTree_RemovesFirst(tree, edit, c) ==
    UpdatedAll(RemovedAll(tree, edit.removed)[Len(edit.removed)],
               edit.updated, c)[Len(edit.updated)]
TxnTree(tree, edit, c) ==
    RemovedAll(UpdatedAll(tree, edit.updated, c)[Len(edit.updated)],
               edit.removed)[Len(edit.removed)]

CanEdit(tree, edit, c) ==
    LET updates == UpdatedAll(tree, edit.updated, c)
        removes == RemovedAll(updates[Len(edit.updated)], edit.removed)
    IN  /\ \A n \in DOMAIN edit.updated : CanUpdate(updates[n - 1], edit.updated[n])
        /\ \A n \in DOMAIN edit.removed : CanRemove(removes[n - 1], edit.removed[n])

---------------------------------------------------------------------------
(* What Subversion does when it commits: it merges the transaction into    *)
(* the youngest revision, unless both have changed the same node.          *)
Changed(old, new) ==
    {p \in DOMAIN old \cup DOMAIN new :
        ~(p \in DOMAIN old /\ p \in DOMAIN new /\ old[p] = new[p])}
Gone(old, new) == DOMAIN old \ DOMAIN new
Conflicts(base, mine, theirs) ==
    LET m == Changed(base, mine)
        t == Changed(base, theirs)
    IN  \/ m \cap t # {}
        \/ \E p \in m, q \in t : \/ p \in Gone(base, mine) /\ p \in Above(q)
                                 \/ q \in Gone(base, theirs) /\ q \in Above(p)
Merged(base, mine, theirs) ==
    LET m == Changed(base, mine) IN
    [p \in (DOMAIN theirs \ m) \cup (m \cap DOMAIN mine) |-> IF p \in m THEN mine[p] ELSE theirs[p]]

---------------------------------------------------------------------------
(* What the reading methods compute.                                       *)
Ok(v) == [kind |-> "ok", val |-> v]
Unhandled == [kind |-> "unhandled", val |-> {}]
Lookup(r, v) == IF r \in 0..Youngest THEN Ok(v) ELSE Unhandled

FilesOf(tree) == {p \in DOMAIN tree : tree[p] # Directory}

\* The functions that take no revision for the youngest, and those that ask
\* for it with a name the bindings do not have.
OrYoungest(r) == IF r = None THEN Youngest ELSE r

get_node_type(r) ==
    LET n == OrYoungest(r) IN
    Lookup(n, {<<p, IF Tree(n)[p] = Directory THEN "dir" ELSE "file">> : p \in DOMAIN Tree(n)})
Children(tree, p) == {q \in DOMAIN tree : p \in Above(q) /\ Len(q) = Len(p) + 1}
get_nodes(r) ==
    LET n == OrYoungest(r) IN
    Lookup(n, {<<p, Children(Tree(n), p)>> : p \in DOMAIN Tree(n)})

FileContents(r) == Lookup(r, {<<p, Tree(r)[p]>> : p \in FilesOf(Tree(r))})
get_file_content(r) == FileContents(r)
get_file_size(r) == FileContents(r)
is_binary(r) == FileContents(r)
node_properties(r) == Lookup(r, {<<p, Tree(r)[p]>> : p \in DOMAIN Tree(r)})

revision_properties(r) == Lookup(r, {Date(r)})

\* Files only: what is below a directory that was removed is not named.
Changes(old, new) ==
    {<<"added", p>> : p \in FilesOf(new) \ FilesOf(old)}
        \cup {<<"changed", p>> : p \in {q \in FilesOf(new) \cap FilesOf(old) : old[q] # new[q]}}
        \cup {<<"removed", p>> : p \in {q \in FilesOf(old) \ DOMAIN new :
                                            Above(q) \cap Gone(old, new) = {}}}
revision_changes(r) == Lookup(r, Changes(IF r = 0 THEN <<>> ELSE Tree(r - 1), Tree(r)))

\* The revisions in which a file was written, back to the one that added it.
WrittenIn(r, p) ==
    {n \in 1..r : /\ \A k \in n..r : p \in FilesOf(Tree(k))
                  /\ p \notin FilesOf(Tree(n - 1)) \/ Tree(n)[p] # Tree(n - 1)[p]}
node_history(r) == Lookup(r, {<<p, WrittenIn(r, p)>> : p \in FilesOf(Tree(r))})

youngest == Ok({Youngest})
is_empty == Ok({Youngest = 0})

---------------------------------------------------------------------------
RepoTypeOK ==
    /\ revs \in Seq([tree : Trees, date : {Server, Caller}])
    /\ Len(revs) \in 2..(tried + 1)
    /\ tried \in 1..MaxCommits
    /\ dead \subseteq 1..tried
================================================================================
