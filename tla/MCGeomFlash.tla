----------------------------- MODULE MCGeomFlash -----------------------------
(***************************************************************************)
(* GeomFlash on small instances: a region of three data pages in blocks    *)
(* whose boundaries fall inside it, and polygons larger than a page.  Ids, *)
(* definitions and resolutions are only compared.                          *)
(***************************************************************************)
EXTENDS GeomFlash, TLC

Symmetry == Permutations(Ids) \cup Permutations(Modes) \cup Permutations(Defs)
=============================================================================
