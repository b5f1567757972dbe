-------------------------- MODULE MCShellRegistry --------------------------
EXTENDS ShellRegistry, TLC

\* Ids, shell objects and tool calls are interchangeable.
Symmetry == Permutations(ShellIds) \cup Permutations(Shells) \cup Permutations(Handlers)
=============================================================================
