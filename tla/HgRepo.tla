--------------------------------- MODULE HgRepo --------------------------------
(***************************************************************************)
(* A Mercurial repository as the remote methods of vcsserver/hg.py and the *)
(* hooks see it: a changelog, phases, obsolescence markers and bookmarks.  *)
(* A commit is a number and stands for its node id; its revision is its    *)
(* place in the changelog, which a strip changes.                          *)
(***************************************************************************)
EXTENDS Integers, Sequences, FiniteSets

CONSTANTS
    Branches,    \* the named branches
    Bookmarks,   \* the names of bookmarks
    Files,       \* the paths of files
    Shapes,      \* bound: the histories that clients have made, each a sequence
                 \* of commits
    MaxCommits   \* bound: how many commits are ever made

None == 0
Commits == 1..MaxCommits
Trees == UNION {[fs -> Commits] : fs \in SUBSET Files}
Edits == [files : SUBSET Files, updated : SUBSET Files, removed : SUBSET Files]
NoEdit == [files |-> {}, updated |-> {}, removed |-> {}]
CommitRecords ==
    [parents : SUBSET Commits, branch : Branches, history : SUBSET Commits,
     tree : Trees, edit : Edits]

ASSUME RepoAssumption ==
    /\ MaxCommits \in Nat \ {0}
    /\ \A s \in Shapes :
          /\ s \in Seq(CommitRecords) /\ Len(s) \in 1..MaxCommits
          /\ \A c \in DOMAIN s :
                /\ s[c].parents \subseteq s[c].history \ {c}
                /\ c \in s[c].history /\ s[c].history \subseteq 1..c
                /\ \A d \in s[c].history : s[d].history \subseteq s[c].history

VARIABLES
    graph,     \* every commit there is, in the order they were made
    log,       \* the changelog of this repository
    public,    \* the commits in the public phase
    obsolete,  \* those with an obsolescence marker
    bookmarks  \* the commit each bookmark names, or None

repo == <<graph, log, public, obsolete, bookmarks>>

Made == DOMAIN graph
Elements(l) == {l[i] : i \in DOMAIN l}
Here == Elements(log)
History(c) == graph[c].history
HistoryOf(cs) == UNION {History(c) : c \in cs}

\* Whatever clients have made is somewhere; here there is the first commit.
RepoInit ==
    /\ graph \in Shapes
    /\ log = <<1>>
    /\ public = {} /\ obsolete = {}
    /\ bookmarks = [m \in Bookmarks |-> None]

---------------------------------------------------------------------------
(* What commitctx makes.  Mercurial asks _filectxfn for each of the files: *)
(* a removed one is gone, an updated one is written, any other aborts.     *)
Unmarked(edit) == edit.files \ (edit.removed \cup edit.updated)

Written(edit) == (edit.files \cap edit.updated) \ edit.removed
Edited(tree, edit, c) ==
    [f \in (DOMAIN tree \ (edit.files \cap edit.removed)) \cup Written(edit) |->
        IF f \in Written(edit) THEN c ELSE tree[f]]

TreeOf(c) == IF c = None THEN <<>> ELSE graph[c].tree

NewCommit(c, parent, branch, edit) ==
    [parents |-> {parent} \ {None}, branch |-> branch,
     history |-> {c} \cup HistoryOf({parent} \ {None}),
     tree |-> Edited(TreeOf(parent), edit, c), edit |-> edit]

---------------------------------------------------------------------------
(* The orders a changegroup may have: parents before their children.       *)
Orders(cs) ==
    {o \in [1..Cardinality(cs) -> cs] :
        /\ Elements(o) = cs
        /\ \A i, j \in DOMAIN o : o[i] \in History(o[j]) => i <= j}

Rev(l, c) == CHOOSE i \in DOMAIN l : l[i] = c

\* _rev_range_hash: everything from the node to the end of the changelog.
RevRange_Short(l, c) == (Rev(l, c) + 1)..Len(l)
RevRange(l, c) == Rev(l, c)..Len(l)

\* The parents of these revisions that come before them.
OutsideParents(l, revs) ==
    UNION {{i \in DOMAIN l : l[i] \in graph[l[r]].parents} : r \in revs} \ revs

(* _check_heads scans what follows such a parent for the heads that descend*)
(* from it on its branch.                                                  *)
ScanStep_AnyBranch(l, branch, x, s) ==
    LET old == {i \in s.reachable : l[i] \in graph[l[x]].parents} IN
    IF old = {} THEN s
    ELSE [reachable |-> s.reachable \cup {x}, heads |-> (s.heads \ old) \cup {x}]
ScanStep(l, branch, x, s) ==
    LET old == {i \in s.reachable : l[i] \in graph[l[x]].parents} IN
    IF graph[l[x]].branch # branch \/ old = {} THEN s
    ELSE [reachable |-> s.reachable \cup {x}, heads |-> (s.heads \ old) \cup {x}]

ScanHeads(l, p) ==
    LET scan[x \in p..Len(l)] ==
            IF x = p THEN [reachable |-> {p}, heads |-> {p}]
            ELSE ScanStep(l, graph[l[p]].branch, x, scan[x - 1])
    IN  scan[Len(l)].heads

\* The answers it may give: the first parent with two heads, in any order.
MultipleHeads(l, revs) ==
    LET several == {hs \in {ScanHeads(l, p) : p \in OutsideParents(l, revs)} :
                        Cardinality(hs) > 1}
    IN  IF several = {} THEN {{}} ELSE several

---------------------------------------------------------------------------
(* What the reading methods compute.  get_ctx finds hidden commits as well,*)
(* since the repository is opened without a filter.                        *)
Ok(v) == [kind |-> "ok", val |-> v]
Error(k) == [kind |-> k, val |-> {}]
Lookup(c, v) == IF c \in Here THEN Ok(v) ELSE Error("lookup")

Obsolete == obsolete \ public
Children(c) == {d \in Here : c \in graph[d].parents}
Hidden == {c \in Here : \A d \in Here : c \in History(d) => d \in Obsolete}
Shown(cs) == cs \ (Hidden \cup Obsolete)

hg_bookmarks == Ok({<<m, bookmarks[m]>> : m \in {x \in Bookmarks : bookmarks[x] # None}})

Tip(b) == CHOOSE c \in Here : /\ graph[c].branch = b
                              /\ \A d \in Here : graph[d].branch = b => Rev(log, d) <= Rev(log, c)
branches == Ok({<<b, Tip(b)>> : b \in {graph[c].branch : c \in Here}})

ctx_branch(c) == Lookup(c, {graph[c].branch})
ctx_files(c) == Lookup(c, graph[c].edit.files)
ctx_parents(c) == Lookup(c, Shown(graph[c].parents))
ctx_children(c) == Lookup(c, Shown(Children(c)))
ctx_phase(c) == Lookup(c, {c \in public})
ctx_obsolete(c) == Lookup(c, {c \in Obsolete})
ctx_hidden(c) == Lookup(c, {c \in Hidden})

\* Flags, size and kind of the files of a commit.
fctx(c) == Lookup(c, {<<f, graph[c].tree[f]>> : f \in DOMAIN graph[c].tree})

\* The commits of a file, up to the one that wrote what the commit has.
FileLog(f) == {d \in Here : f \in Written(graph[d].edit)}
HistoryOfFile(c, f) ==
    {d \in Shown(FileLog(f)) : Rev(log, d) <= Rev(log, graph[c].tree[f])}
hg_node_history(c) == Lookup(c, UNION {HistoryOfFile(c, f) : f \in DOMAIN graph[c].tree})

\* The function it caches takes two arguments and is given five.
node_history_untill == Error("unhandled")

hg_get_all_commit_ids == Ok(Here)

\* A revision number above zero; with zero or less the code counts from the end.
lookup(n) == IF n + 1 \in DOMAIN log THEN Ok({log[n + 1]}) ELSE Error("lookup")
rev_range == Ok({i - 1 : i \in DOMAIN log})

---------------------------------------------------------------------------
RepoTypeOK ==
    /\ graph \in Seq(CommitRecords) /\ Len(graph) \in 1..MaxCommits
    /\ log \in Seq(Made)
    /\ public \subseteq Made /\ obsolete \subseteq Made
    /\ bookmarks \in [Bookmarks -> Made \cup {None}]
================================================================================
