--------------------------- MODULE MCProcessEvents ---------------------------
(* The instance of ProcessEvents that checks what a poll may miss: the two      *)
(* output streams are alike.                                                    *)
EXTENDS ProcessEvents, TLC

Symmetry == Permutations(Streams)
=============================================================================
