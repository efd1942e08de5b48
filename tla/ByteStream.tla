------------------------------ MODULE ByteStream ------------------------------
(***************************************************************************)
(* What a buffered pipe reader promises to the code that iterates over it: *)
(* the chunks its source sends come out once each and in order, and the    *)
(* iteration ends only when the source is closed and every chunk has come  *)
(* out, unless somebody aborted the stream.                                *)
(*                                                                         *)
(* Chunks are numbered 1, 2, ... in the order the source sends them.       *)
(* subprocessio.BufferedGenerator's docstring is the promise;              *)
(* StreamBuffer is shown to implement it.                                  *)
(***************************************************************************)
EXTENDS Naturals, Sequences

VARIABLES
    sent,     \* how many chunks the source has sent
    closed,   \* the source will send no more
    out,      \* the chunks handed to the consumer, oldest first
    ended,    \* the consumer was told that the stream is over
    aborted   \* stop() was called, or the process that reads is gone

vars == <<sent, closed, out, ended, aborted>>

Init ==
    /\ sent \in Nat
    /\ closed = FALSE
    /\ out = <<>>
    /\ ended = FALSE
    /\ aborted = FALSE

Send ==
    /\ ~closed
    /\ sent' = sent + 1
    /\ UNCHANGED <<closed, out, ended, aborted>>

Close ==
    /\ ~closed
    /\ closed' = TRUE
    /\ UNCHANGED <<sent, out, ended, aborted>>

Deliver ==
    /\ ~ended
    /\ Len(out) < sent
    /\ out' = Append(out, Len(out) + 1)
    /\ UNCHANGED <<sent, closed, ended, aborted>>

Abort ==
    /\ ~aborted
    /\ aborted' = TRUE
    /\ UNCHANGED <<sent, closed, out, ended>>

End ==
    /\ ~ended
    /\ aborted \/ (closed /\ Len(out) = sent)
    /\ ended' = TRUE
    /\ UNCHANGED <<sent, closed, out, aborted>>

Next == Send \/ Close \/ Deliver \/ Abort \/ End

Spec == Init /\ [][Next]_vars
===============================================================================
