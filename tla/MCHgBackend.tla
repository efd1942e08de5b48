------------------------------ MODULE MCHgBackend ------------------------------
(* HgBackend on two branches and every history of three commits.           *)
EXTENDS HgBackend, TLC

CONSTANTS a, b, m

Root == [parents |-> {}, branch |-> a]
On(ps, br) == [parents |-> ps, branch |-> br]

FirstTree == {"f"}

\* The clients' commits: one without parents adds FirstTree, the others keep
\* the tree of a parent.
Founded(s) ==
    LET g[c \in DOMAIN s] ==
            LET ps == s[c].parents IN
            [parents |-> ps, branch |-> s[c].branch,
             history |-> {c} \cup UNION {g[p].history : p \in ps},
             tree |-> IF ps = {} THEN [f \in FirstTree |-> c]
                      ELSE g[CHOOSE p \in ps : \A q \in ps : p <= q].tree,
             edit |-> IF ps = {} THEN [files |-> FirstTree, updated |-> FirstTree, removed |-> {}]
                      ELSE NoEdit]
    IN  g

\* Every history of three commits that goes on from the first.
SomeShapes ==
    {Founded(<<Root, On({1}, x), On(ps, y)>>) : x \in {a, b}, y \in {a, b}, ps \in SUBSET {1, 2}}

SomeEdits ==
    {[files |-> {"f", "g"}, updated |-> {"g"}, removed |-> {"f"}],
     [files |-> {"f", "g"}, updated |-> {"g"}, removed |-> {}]}

SomePulls == {[heads |-> {2}, marked |-> {2}], [heads |-> {3}, marked |-> {}]}

SomePushes ==
    {[sent |-> {2, 3}, way |-> "http", write |-> TRUE, mark |-> None],
     [sent |-> {3}, way |-> "ssh", write |-> TRUE, mark |-> m],
     [sent |-> {2}, way |-> "ssh", write |-> FALSE, mark |-> None]}

SomeMethods == {"get_all_commit_ids", "ctx_parents"}

Revs == {None, 2}
Symmetry == Permutations(Threads) \cup Permutations(Contexts)
================================================================================
