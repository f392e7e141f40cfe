------------------------------ MODULE MCScreen ------------------------------
(***************************************************************************)
(* Three phases through a channel that holds two events: small enough for  *)
(* the work to block in the middle of a phase, and large enough for it to  *)
(* end with events the screen has not seen.                                *)
(***************************************************************************)
EXTENDS Screen
=============================================================================
