-------------------------- MODULE MCTurnLifecycle --------------------------
(* Instances of TurnLifecycle for TLC. *)
EXTENDS TurnLifecycle

\* Sub-ids are interchangeable, and so are prompts.
Sym == Permutations(Turns) \union Permutations(Prompts)

=============================================================================
