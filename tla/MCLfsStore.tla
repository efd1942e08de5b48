------------------------------ MODULE MCLfsStore ------------------------------
(* LfsStore with uploading clients that TLC may take for one another.      *)
EXTENDS LfsStore, TLC

Symmetry == Permutations(Uploaders)
===============================================================================
