------------------------------ MODULE MCPlace -------------------------------
(***************************************************************************)
(* Builds in one recipe directory.  Builds and names are interchangeable,  *)
(* and no property checked here is a liveness property.                    *)
(***************************************************************************)
EXTENDS Place, TLC

Symmetry == Permutations(Builds) \cup Permutations(Names)
=============================================================================
