------------------------------ MODULE MCSvnBackend -----------------------------
(* SvnBackend on a directory with one file.                                *)
EXTENDS SvnBackend, TLC

D == <<"d">>
F == <<"d", "f">>
E == <<"d", "e">>
G == <<"d", "e", "g">>
SomePaths == {D, F, E, G}

SomeTree == D :> Directory @@ F :> 1

\* A file moved to a new directory, a directory removed, and one that the commit
\* itself has made.
SomeEdits ==
    {[updated |-> <<G>>, removed |-> <<F>>],
     [updated |-> <<F>>, removed |-> <<D>>],
     [updated |-> <<G>>, removed |-> <<E>>]}

Kind(way, dated, extras, readonly) ==
    [way |-> way, dated |-> dated, extras |-> extras, readonly |-> readonly]
SomeKinds ==
    {Kind("rpc", TRUE, "none", FALSE), Kind("dav", FALSE, "txn", FALSE),
     Kind("dav", FALSE, "env", TRUE)}

\* No hooks, somebody else's, and those of RhodeCode.
SomeFiles ==
    {[pre |-> "absent", post |-> "absent"], [pre |-> "other", post |-> "absent"],
     [pre |-> "script", post |-> "script"]}

SomeMethods == {"get_node_type"}
Revs == {None, 1}
Symmetry == Permutations(Installers)
================================================================================
