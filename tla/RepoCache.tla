------------------------------- MODULE RepoCache -------------------------------
(***************************************************************************)
(* The cache region repo_object, shared by every request: values under a   *)
(* key made of the name and the arguments of the cached function.  Which   *)
(* arguments those are is chosen function by function: some take the       *)
(* context of the caller, the others only the repository and the commit.   *)
(***************************************************************************)
EXTENDS Integers

CONSTANTS
    Contexts,   \* the contexts RhodeCode makes; it makes a new one after a change
    NoContext,  \* a wire without context: nothing is cached
    Methods,    \* bound: the cached methods that are called
    Args        \* the commits a method may be asked about, and None

\* The cached functions whose arguments include _context_uid.
KeyedByContext ==
    {"get_refs", "get_branch_pointers", "head", "branch", "commit_branches", "get_object",
     "revision", "tree_and_type_for_path", "node_history", "get_all_commit_ids",
     "bookmarks", "branches", "ctx_phase", "ctx_obsolete", "ctx_hidden", "lookup",
     "rev_range", "node_history_untill"}

\* Those with only _repo_id and the commit, whose values belong to the commit.
KeyedByCommit ==
    {"message", "parents", "tree_items", "blob", "ctx_branch", "ctx_files", "fctx",
     "node_properties"}

\* The same, although their values depend on the repository.
KeyedByCommitOnly ==
    {"children", "ctx_parents", "ctx_children", "revision_properties", "get_node_type",
     "get_nodes", "get_file_size", "is_binary"}

\* And those that are never cached.
Uncached == {"is_empty", "youngest", "revision_changes", "get_file_content"}

ASSUME CacheAssumption ==
    /\ NoContext \notin Contexts
    /\ Methods \subseteq KeyedByContext \cup KeyedByCommit \cup KeyedByCommitOnly \cup Uncached

VARIABLE cache  \* key -> the value, and when it was computed

Asks == [name : Methods, ctx : Contexts \cup {NoContext}, arg : Args]
Keys == Asks

KeyOf_NoContext(ask) == [ask EXCEPT !.ctx = NoContext]
\* The argument may be anything: it is not in the key.
KeyOf_NoArgument(ask) == [ask EXCEPT !.arg = CHOOSE x \in Args : TRUE]

KeyOf(ask) == [ask EXCEPT !.ctx = IF ask.name \in KeyedByContext THEN @ ELSE NoContext]

CacheOn(ask) == ask.ctx # NoContext /\ ask.name \notin Uncached

Hit(ask) == KeyOf(ask) \in DOMAIN cache

With(c, k, v) == [x \in DOMAIN c \cup {k} |-> IF x = k THEN v ELSE c[x]]

CacheInit == cache = <<>>

\* The expiration time of the file or of redis, a value that cannot be loaded.
Forgets(k) ==
    /\ k \in DOMAIN cache
    /\ cache' = [x \in DOMAIN cache \ {k} |-> cache[x]]
================================================================================
