--------------------------- MODULE MCModelCatalog ---------------------------
(* Model-checking definitions for ModelCatalog. *)
EXTENDS ModelCatalog, TLC

\* Providers are visited in order, so they are not interchangeable.
Symmetry == Permutations(Requests) \cup Permutations(Users) \cup Permutations(Keys)
=============================================================================
