---------------------------- MODULE MCDirectory -----------------------------
(***************************************************************************)
(* What shares one recipe directory: two vendor runs over two locks, the   *)
(* second of which names a file more and no wheel, and two builds at once. *)
(* The two share no state; a behavior is of one of them.                   *)
(***************************************************************************)
EXTENDS Vendor, Place, TLC

CONSTANTS kept, added, wheel, first, second

VARIABLE part  \* the one that moves

MCFiles  == {kept, added, wheel}
MCWheels == {wheel}
MCDebs   == {kept, added, wheel}
MCLocks  == {first, second}
MCNamed  == first :> {kept, wheel} @@ second :> {kept, added}

(* The part that does not move stays in one of its initial states.         *)
VendorStill == lockFile = first /\ file = [f \in PoolFiles |-> "absent"]
BuildsStill == lock = None /\ output = None

MCInit ==
  /\ part \in {"vendor", "builds"}
  /\ VendorInit /\ (part # "vendor" => VendorStill)
  /\ Init /\ (part # "builds" => BuildsStill)
MCNext ==
  /\ \/ part = "vendor" /\ VendorNext /\ UNCHANGED vars
     \/ part = "builds" /\ Next /\ UNCHANGED vendorVars
  /\ UNCHANGED part
MCSpec == MCInit /\ [][MCNext]_<<vendorVars, vars, part>>

Symmetry == Permutations(Runs) \cup Permutations(Builds) \cup Permutations(Names)
=============================================================================
