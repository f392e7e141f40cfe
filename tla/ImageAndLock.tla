---------------------------- MODULE ImageAndLock ----------------------------
(***************************************************************************)
(* What a build promises of the recipe directory, at the level its user    *)
(* sees: dist/ holds one image and frostroot.lock describes it.  A build   *)
(* replaces both at once, a rebuild offline replaces the image with the    *)
(* one the lock describes, and anything else changes neither.  The one     *)
(* exception is a process killed, or a restore that fails, between the two *)
(* renames: it leaves the directory torn until the next successful build.  *)
(***************************************************************************)
CONSTANTS
  Versions,      (* the image contents a lock can describe                 *)
  None           (* no file                                                *)

VARIABLES
  lock,          (* what frostroot.lock describes                          *)
  output,        (* what the image in dist/ is                             *)
  torn           (* the two may disagree                                   *)

vars == <<lock, output, torn>>

Init ==
  /\ lock \in Versions \cup {None}
  /\ output \in Versions \cup {None}
  /\ torn = (lock # output)

(* An online build succeeds.                                               *)
Replace(version) ==
  /\ lock' = version
  /\ output' = version
  /\ torn' = FALSE

(* An offline build succeeds.                                              *)
Rebuild ==
  /\ lock # None
  /\ output' = lock
  /\ torn' = FALSE
  /\ UNCHANGED lock

(* A build dies between its two renames.                                   *)
Tear(version) ==
  /\ lock' = version
  /\ torn' = TRUE
  /\ UNCHANGED output

Next ==
  \/ \E version \in Versions : Replace(version) \/ Tear(version)
  \/ Rebuild

Spec == Init /\ [][Next]_vars

(* While no build has died half-way, dist/ holds the image its lock        *)
(* describes.                                                              *)
Agree == ~torn => lock = output
=============================================================================
