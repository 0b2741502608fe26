-------------------------------- MODULE Pipe --------------------------------
(***************************************************************************)
(* What one direction of a proxied TLS connection promises its two ends: a *)
(* stream.  What is read is what was written, in order and from the start, *)
(* and the reader sees the end of the stream only after the writer closed  *)
(* it and after all that was written.                                      *)
(***************************************************************************)
EXTENDS Sequences, SequencesExt

VARIABLES
    sent,               \* all that was written
    closed,             \* the writer has closed
    got,                \* all that was read
    ended               \* the reader has seen the end

vars == <<sent, closed, got, ended>>

Init == sent = <<>> /\ closed = FALSE /\ got = <<>> /\ ended = FALSE

\* A write, perhaps with the close that follows it.
Write ==
    /\ ~closed
    /\ IsPrefix(sent, sent') /\ closed' \in BOOLEAN
    /\ UNCHANGED <<got, ended>>

Read ==
    /\ ~ended
    /\ IsPrefix(got, got') /\ IsPrefix(got', sent)
    /\ UNCHANGED <<sent, closed, ended>>

End ==
    /\ closed /\ got = sent
    /\ ended' = TRUE
    /\ UNCHANGED <<sent, closed, got>>

Next == Write \/ Read \/ End

Spec == Init /\ [][Next]_vars
=============================================================================
