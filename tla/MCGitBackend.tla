------------------------------ MODULE MCGitBackend -----------------------------
(* GitBackend on two branches and a tree with one directory.               *)
EXTENDS GitBackend, TLC

CONSTANTS main, topic

\* A file in the root and two in one directory.
SomeFiles == {<<"f">>, <<"d", "a">>, <<"d", "b">>}
OneDirectory == {<<"d", "a">>, <<"d", "b">>}
SomeEdits ==
    {[updated |-> {<<"f">>}, removed |-> {<<"d", "a">>}],
     [updated |-> {<<"d", "b">>}, removed |-> {}]}
SomePulls ==
    {[wanted |-> {}, last |-> {}], [wanted |-> {topic}, last |-> {topic}],
     [wanted |-> {main, topic}, last |-> {HEAD}]}
\* The reads ask about the commit that is made or fetched on the way.
SomeMethods ==
    {"get_refs", "branch", "get_object", "parents", "children", "get_all_commit_ids"}

Revs == {None, MaxCommits}

Symmetry == Permutations(Threads) \cup Permutations(Contexts)
================================================================================
