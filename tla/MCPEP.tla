------------------------------- MODULE MCPEP -------------------------------
(* Small instances of PEP. *)
EXTENDS PEP

Symmetry == Permutations(Keys) \cup Permutations(Activators)
=============================================================================
