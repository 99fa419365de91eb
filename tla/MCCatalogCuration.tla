--------------------------- MODULE MCCatalogCuration ---------------------------
(* Model-checking instances of CatalogCuration. *)
EXTENDS CatalogCuration, TLC

Symmetry == Permutations(Curator) \cup Permutations(Project)
=================================================================================
