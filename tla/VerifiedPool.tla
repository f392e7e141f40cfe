---------------------------- MODULE VerifiedPool ----------------------------
(***************************************************************************)
(* What frostroot promises of a vendored pool (vendor/debs, vendor/rpms,   *)
(* vendor/wheels), whatever goes on inside pool.Fetch: under its final     *)
(* name a file only ever changes into the file the lock describes, and a   *)
(* fetch reports success only of a pool that holds every locked file.      *)
(***************************************************************************)
CONSTANTS
  Entries        (* the files the lock names, one per file name            *)

VARIABLES
  file,          (* what the pool directory holds under each final name    *)
  outcome        (* what the current fetch has reported, "none" until then *)

vars == <<file, outcome>>

(* "absent", a file with another size or checksum, or the locked file.     *)
Contents == {"absent", "bad", "good"}

(* How a fetch may fail: pool.ErrNotFound, pool.ErrMismatch, the context's *)
(* error, or any other error of the network or of the file system.         *)
ErrorKinds == {"notfound", "mismatch", "canceled", "other"}
Outcomes   == {"ok"} \cup ErrorKinds

Complete == \A e \in Entries : file[e] = "good"

Init ==
  /\ file \in [Entries -> Contents]
  /\ outcome = "none"

(* A verified download is renamed into place.                              *)
Land(e) ==
  /\ outcome = "none"
  /\ file' = [file EXCEPT ![e] = "good"]
  /\ UNCHANGED outcome

(* The fetch ends.                                                         *)
Report(result) ==
  /\ outcome = "none"
  /\ result = "ok" => Complete
  /\ outcome' = result
  /\ UNCHANGED file

(* The user runs frostroot vendor again.                                   *)
Again ==
  /\ outcome # "none"
  /\ outcome' = "none"
  /\ UNCHANGED file

Next ==
  \/ \E e \in Entries : Land(e)
  \/ \E result \in Outcomes : Report(result)
  \/ Again

Spec == Init /\ [][Next]_vars
=============================================================================
