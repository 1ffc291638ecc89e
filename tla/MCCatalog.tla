----------------------------- MODULE MCCatalog -----------------------------
(***************************************************************************)
(* One service and one package, one item with a field, and two images.     *)
(***************************************************************************)
EXTENDS CatalogProperties, TLC

CONSTANTS g1, g2

MCOrder == {<<g1>>, <<g2, g1>>}

Symmetry == Permutations(Proc) \cup Permutations(Image)
=============================================================================
