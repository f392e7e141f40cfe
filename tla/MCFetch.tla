------------------------------ MODULE MCFetch -------------------------------
(***************************************************************************)
(* Two workers over a pool of two files: one as a .deb has it, its size    *)
(* recorded and a fallback known, and one as a wheel, neither.             *)
(***************************************************************************)
EXTENDS Fetch

CONSTANTS deb, wheel

MCEntries  == {deb, wheel}
MCSized    == {deb}
MCFallback == {deb}
=============================================================================
