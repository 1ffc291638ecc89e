----------------------------- MODULE MCContent -----------------------------
(***************************************************************************)
(* Content on a small instance: one key, two texts and one that is all     *)
(* tags, two slides and one setting.                                       *)
(***************************************************************************)
EXTENDS ContentProperties, TLC

CONSTANTS s1, s2

MCOrder == {<<s1>>, <<s2, s1>>}

Symmetry == Permutations(Proc)
=============================================================================
