------------------------------- MODULE MCGitPush -------------------------------
(* GitPush on a history of two commits.                                    *)
EXTENDS GitPush, TLC

CONSTANTS main, topic

\* Commit 2 is a child of commit 1.
History == [r \in {1, 2} |-> 1..r]

\* One branch is there and one is not; HEAD names either.
OneBranch == {[b \in {main, topic} |-> IF b = main THEN 2 ELSE 0]}

Symmetry == Permutations(Pushers)
===============================================================================
