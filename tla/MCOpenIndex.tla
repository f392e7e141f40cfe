---------------------------- MODULE MCOpenIndex -----------------------------
(***************************************************************************)
(* A release pocket and -updates of two components each, or two Fedora     *)
(* repositories, published again, and larger, while they are read.         *)
(***************************************************************************)
EXTENDS OpenIndex

MCSize(r) == r
=============================================================================
