----------------------------- MODULE ChunkStream -----------------------------
(* What a download promises its client: the pieces of the file one after   *)
(* the other, from the first on, and the end of the stream together with   *)
(* the last of them. A stream may break off at any point.                  *)
EXTENDS Naturals, Sequences

CONSTANT File  \* the pieces, a sequence

VARIABLES sent, finished
vars == <<sent, finished>>

Init == sent = <<>> /\ finished = FALSE

Deliver ==
  /\ ~finished
  /\ Len(sent) < Len(File)
  /\ sent' = Append(sent, File[Len(sent) + 1])
  /\ finished' = (Len(sent') = Len(File))

Next == Deliver

Spec == Init /\ [][Next]_vars

=============================================================================
