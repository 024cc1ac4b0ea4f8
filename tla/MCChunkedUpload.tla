-------------------------- MODULE MCChunkedUpload --------------------------
(* Instances of ChunkedUpload for TLC. *)
EXTENDS ChunkedUpload, TLC

CONSTANTS s1, s2, s3, d1, d2

\* Two uploads of one file and one of another.
TwoTargets == (s1 :> d1) @@ (s2 :> d1) @@ (s3 :> d2)
SameTarget == (s1 :> d1) @@ (s2 :> d1)
HandlerSymmetry == Permutations(Handlers)
=============================================================================
