---------------------------- MODULE MCMemoryJobs ----------------------------
(* An instance of MemoryJobs for TLC. *)
EXTENDS MemoryJobs, TLC

\* Threads are interchangeable, and so are workers.
Sym == Permutations(Threads) \union Permutations(Workers)
=============================================================================
