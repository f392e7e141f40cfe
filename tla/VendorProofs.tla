---------------------------- MODULE VendorProofs ----------------------------
(***************************************************************************)
(* Proofs about Vendor for any set of runs, files and locks.  What a run   *)
(* has fetched is settled: it is in the pool, or a run that did not name   *)
(* it pruned it.  A run that was alone is accounted for to the last file   *)
(* and partial download, because nobody else could take a step.            *)
(***************************************************************************)
EXTENDS Vendor, TLAPS

(* A run has an exit code once it has ended, and nothing before it begins. *)
ExitEnds ==
  \A r \in Runs :
    /\ exit[r] # "none" <=> runAt[r] = "ended"
    /\ runAt[r] = "new" => pool[r] = "packages" /\ phase[r]["download"] = "waiting"

(* A file a run names is there, or was pruned by one that does not name it *)
Settled(r, f) ==
  file[f] = "good" \/ (f \in gone[r] /\ \E q \in Runs : Unnames(q, f))

(* While fetching, a file of the pool is settled or still to come; the     *)
(* first pool is settled when the second is fetched, and both afterwards.  *)
FetchIsComplete ==
  \A r \in Runs :
    /\ runAt[r] = "fetching" /\ err[r] = "none" =>
         \A f \in Wanted(r) : Settled(r, f) \/ f \in todo[r] \/ f \in busy[r]
    /\ runAt[r] \in {"checking", "fetching"} /\ pool[r] = "wheels" =>
         \A f \in Named[mine[r]] \ Wheels : Settled(r, f)
    /\ \/ runAt[r] \in {"pruneCheck", "pruning"} \/ exit[r] = "success"
       \/ runAt[r] = "returned" /\ err[r] = "none"
       => \A f \in Named[mine[r]] : Settled(r, f)

(* The phases a run has told follow where it is. *)
PhasesAreTold ==
  \A r \in Runs :
    /\ runAt[r] = "fetching" => /\ phase[r]["check"] = "finished"
                             /\ phase[r]["download"] = "running"
    /\ runAt[r] = "checking" => phase[r]["download"] \in {"waiting", "running"}
    /\ runAt[r] \in {"pruneCheck", "pruning"} =>
         /\ phase[r]["check"] = "finished" /\ phase[r]["download"] = "finished"
         /\ prune[r]
    /\ exit[r] = "success" \/ (runAt[r] = "returned" /\ err[r] = "none") =>
         \A p \in Listed(r) : phase[r][p] = "finished"

(* Prune removes nothing its own lock names. *)
ExtrasAreUnnamed ==
  \A r \in Runs : runAt[r] = "pruning" => extras[r] \cap Named[mine[r]] = {}

(* A run that was alone is the only one under way. *)
AloneIsAlone ==
  \A r, q \in Runs : alone[r] /\ runAt[r] \in Underway /\ runAt[q] \in Underway => q = r

(* Of a pool, what a run that prunes alone has not listed is not there.    *)
Left(r, p) ==
  {f \in (PackageFiles \cap InPool(p)) \ Named[mine[r]] : file[f] # "absent"}
Clean(r, p) == PartialsIn(p) = {} /\ Left(r, p) = {}
PruneIsComplete ==
  \A r \in Runs : alone[r] /\ prune[r] =>
    /\ runAt[r] = "pruning" =>
         PartialsIn(pool[r]) \subseteq extras[r] /\ Left(r, pool[r]) \subseteq extras[r]
    /\ runAt[r] \in {"pruneCheck", "pruning"} /\ pool[r] = "wheels" =>
         Clean(r, "packages")
    /\ runAt[r] = "returned" /\ err[r] = "none" =>
         Clean(r, "packages") /\ Clean(r, "wheels")

(* What the steps of the runs keep. *)
VendorInv ==
  /\ VendorTypeOK /\ ExitEnds /\ FetchIsComplete /\ PhasesAreTold
  /\ ExtrasAreUnnamed /\ AloneIsAlone /\ PruneIsComplete

-----------------------------------------------------------------------------
(* Every step keeps the invariant.                                         *)

(* What is settled stays settled, as long as no file is removed. *)
LEMMA SettledStays ==
  ASSUME \A q \in Runs : runAt[q] # "new" =>
           /\ runAt'[q] # "new" /\ mine'[q] = mine[q] /\ prune'[q] = prune[q],
         \A q \in Runs : gone[q] \subseteq gone'[q],
         \A f \in PoolFiles : file[f] = "good" => file'[f] = "good"
  PROVE  \A q \in Runs, f \in PoolFiles : Settled(q, f) => Settled(q, f)'
BY DEF Settled, Unnames

(* A lock names files, and a run wants of them those of its pool. *)
LEMMA NamedType ==
  ASSUME VendorTypeOK, NEW q \in Runs
  PROVE  /\ Named[mine[q]] \subseteq PoolFiles /\ Wanted(q) \subseteq Named[mine[q]]
         /\ pool[q] = "wheels" => Wanted(q) = Named[mine[q]] \cap Wheels
         /\ pool[q] = "packages" => Wanted(q) = Named[mine[q]] \ Wheels
BY VendorAssumption DEF VendorTypeOK, Wanted, InPool

(* A run begins: it reads the lock, and whoever was alone is no more. *)
LEMMA BeginInv ==
  ASSUME VendorInv, NEW r \in Runs, NEW prunes \in BOOLEAN, BeginRun(r, prunes)
  PROVE  VendorInv'
<1> USE VendorAssumption DEF VendorInv, Underway
<1>s. \A q \in Runs, g \in PoolFiles : Settled(q, g) => Settled(q, g)'
  BY SettledStays DEF BeginRun, RunGoes, VendorTypeOK
<1>n. \A q \in Runs : Named[mine[q]] \subseteq PoolFiles
  BY NamedType
<1>1. VendorTypeOK'
  BY DEF BeginRun, Phase, RunGoes, VendorTypeOK, Pools, Temps, Phases
<1>2. ExitEnds'
  BY DEF BeginRun, Phase, RunGoes, ExitEnds, VendorTypeOK, Phases
<1>3. FetchIsComplete'
  BY SMTT(30), <1>s, <1>n DEF BeginRun, Phase, RunGoes, FetchIsComplete, VendorTypeOK, Wanted,
     ExitEnds
<1>4. PhasesAreTold'
  BY DEF BeginRun, Phase, RunGoes, PhasesAreTold, VendorTypeOK, Listed, Phases, ExitEnds
<1>5. ExtrasAreUnnamed'
  BY DEF BeginRun, Phase, RunGoes, ExtrasAreUnnamed, VendorTypeOK
<1>6. AloneIsAlone'
  BY DEF BeginRun, Phase, RunGoes, AloneIsAlone, VendorTypeOK
<1>7. PruneIsComplete'
  BY DEF BeginRun, Phase, RunGoes, PruneIsComplete, VendorTypeOK, AloneIsAlone, Clean,
     Left, PartialsIn
<1> QED BY <1>1, <1>2, <1>3, <1>4, <1>5, <1>6, <1>7

(* The pool is checked: what is not good is to be downloaded. *)
LEMMA VerifyInv ==
  ASSUME VendorInv, NEW r \in Runs, Verify(r)
  PROVE  VendorInv'
<1> USE VendorAssumption DEF VendorInv, Underway
<1>s. \A q \in Runs, g \in PoolFiles : Settled(q, g) => Settled(q, g)'
  BY SettledStays DEF Verify, RunGoes, VendorTypeOK
<1>n. \A q \in Runs : Named[mine[q]] \subseteq PoolFiles
  BY NamedType
<1>1. VendorTypeOK'
  <2>1. Needed(r) \subseteq PoolFiles
    BY NamedType, <1>n DEF Needed
  <2>2. Checked(r) \in [Phases -> {"waiting", "running", "finished"}]
    BY DEF Checked, VendorTypeOK
  <2> QED BY <2>1, <2>2 DEF Verify, RunGoes, VendorTypeOK
<1>2. ExitEnds'
  BY DEF Verify, RunGoes, Needed, Checked, ExitEnds, VendorTypeOK, Phases
<1>3. FetchIsComplete'
  <2>1. \A q \in Runs : Wanted(q)' = Wanted(q) /\ Wanted(q) \subseteq PoolFiles
    BY NamedType, <1>n DEF Verify, Wanted
  <2>2. \A f \in Wanted(r) : Settled(r, f)' \/ f \in todo'[r]
    BY <2>1 DEF Verify, Needed, Settled, VendorTypeOK
  <2> QED BY <2>1, <2>2, <1>s, <1>n DEF Verify, RunGoes, FetchIsComplete, VendorTypeOK
<1>4. PhasesAreTold'
  BY DEF Verify, RunGoes, Needed, Checked, PhasesAreTold, VendorTypeOK, Listed,
     Phases
<1>5. ExtrasAreUnnamed'
  BY DEF Verify, RunGoes, Needed, Checked, ExtrasAreUnnamed, VendorTypeOK
<1>6. AloneIsAlone'
  BY DEF Verify, RunGoes, Needed, Checked, AloneIsAlone, VendorTypeOK
<1>7. PruneIsComplete'
  BY DEF Verify, RunGoes, Needed, Checked, PruneIsComplete, VendorTypeOK,
     AloneIsAlone, Clean, Left, PartialsIn
<1> QED BY <1>1, <1>2, <1>3, <1>4, <1>5, <1>6, <1>7

(* The pool cannot be checked. *)
LEMMA CannotVerifyInv ==
  ASSUME VendorInv, NEW r \in Runs, CannotVerify(r)
  PROVE  VendorInv'
<1> USE VendorAssumption DEF VendorInv, Underway
<1>s. \A q \in Runs, g \in PoolFiles : Settled(q, g) => Settled(q, g)'
  BY SettledStays DEF CannotVerify, RunGoes, Returns, VendorTypeOK
<1>n. \A q \in Runs : Named[mine[q]] \subseteq PoolFiles
  BY NamedType
<1>1. VendorTypeOK'
  BY DEF CannotVerify, RunGoes, Returns, VendorTypeOK, Pools, Temps
<1>2. ExitEnds'
  BY DEF CannotVerify, RunGoes, Returns, ExitEnds, VendorTypeOK, Phases
<1>3. FetchIsComplete'
  BY <1>s, <1>n DEF CannotVerify, RunGoes, Returns, FetchIsComplete, VendorTypeOK,
     Wanted
<1>4. PhasesAreTold'
  BY DEF CannotVerify, RunGoes, Returns, PhasesAreTold, VendorTypeOK, Listed, Phases
<1>5. ExtrasAreUnnamed'
  BY DEF CannotVerify, RunGoes, Returns, ExtrasAreUnnamed, VendorTypeOK
<1>6. AloneIsAlone'
  BY DEF CannotVerify, RunGoes, Returns, AloneIsAlone, VendorTypeOK
<1>7. PruneIsComplete'
  BY DEF CannotVerify, RunGoes, Returns, PruneIsComplete, VendorTypeOK, AloneIsAlone,
     Clean, Left, PartialsIn
<1> QED BY <1>1, <1>2, <1>3, <1>4, <1>5, <1>6, <1>7

(* A worker takes a file. *)
LEMMA DownloadInv ==
  ASSUME VendorInv, NEW r \in Runs, NEW f \in PoolFiles, Download(r, f)
  PROVE  VendorInv'
<1> USE VendorAssumption DEF VendorInv, Underway
<1>s. \A q \in Runs, g \in PoolFiles : Settled(q, g) => Settled(q, g)'
  BY SettledStays DEF Download, VendorTypeOK
<1>n. \A q \in Runs : Named[mine[q]] \subseteq PoolFiles
  BY NamedType
<1>1. VendorTypeOK'
  BY DEF Download, Canceled, VendorTypeOK, Pools, Temps
<1>2. ExitEnds'
  BY DEF Download, Canceled, ExitEnds, VendorTypeOK, Phases
<1>3. FetchIsComplete'
  BY <1>s, <1>n DEF Download, Canceled, FetchIsComplete, VendorTypeOK, Wanted
<1>4. PhasesAreTold'
  BY DEF Download, Canceled, PhasesAreTold, VendorTypeOK, Listed, Phases
<1>5. ExtrasAreUnnamed'
  BY DEF Download, Canceled, ExtrasAreUnnamed, VendorTypeOK
<1>6. AloneIsAlone'
  BY DEF Download, Canceled, AloneIsAlone, VendorTypeOK
<1>7. PruneIsComplete'
  BY DEF Download, Canceled, PruneIsComplete, VendorTypeOK, AloneIsAlone, Clean,
     Left, PartialsIn
<1> QED BY <1>1, <1>2, <1>3, <1>4, <1>5, <1>6, <1>7

(* A download lands, which settles its file for every run. *)
LEMMA LandInv ==
  ASSUME VendorInv, NEW r \in Runs, NEW f \in PoolFiles, Land(r, f)
  PROVE  VendorInv'
<1> USE VendorAssumption DEF VendorInv, Underway
<1>s. \A q \in Runs, g \in PoolFiles : Settled(q, g) => Settled(q, g)'
  BY SettledStays DEF Land, VendorTypeOK
<1>n. \A q \in Runs : Named[mine[q]] \subseteq PoolFiles
  BY NamedType
<1>1. VendorTypeOK'
  BY DEF Land, VendorTypeOK, Pools, Temps
<1>2. ExitEnds'
  BY DEF Land, ExitEnds, VendorTypeOK, Phases
<1>3. FetchIsComplete'
  <2>1. \A q \in Runs : Wanted(q)' = Wanted(q) /\ Wanted(q) \subseteq PoolFiles
    BY NamedType, <1>n DEF Land, Wanted
  <2>2. Settled(r, f)'
    BY DEF Land, Settled, VendorTypeOK
  <2> QED BY <2>1, <2>2, <1>s, <1>n DEF Land, FetchIsComplete, VendorTypeOK
<1>4. PhasesAreTold'
  BY DEF Land, PhasesAreTold, VendorTypeOK, Listed, Phases
<1>5. ExtrasAreUnnamed'
  BY DEF Land, ExtrasAreUnnamed, VendorTypeOK
<1>6. AloneIsAlone'
  BY DEF Land, AloneIsAlone, VendorTypeOK
<1>7. PruneIsComplete'
  BY DEF Land, PruneIsComplete, VendorTypeOK, AloneIsAlone, Clean, Left,
     PartialsIn
<1> QED BY <1>1, <1>2, <1>3, <1>4, <1>5, <1>6, <1>7

(* A download fails, and the run with it. *)
LEMMA FailInv ==
  ASSUME VendorInv, NEW r \in Runs, NEW f \in PoolFiles, FailDownload(r, f)
  PROVE  VendorInv'
<1> USE VendorAssumption DEF VendorInv, Underway
<1>s. \A q \in Runs, g \in PoolFiles : Settled(q, g) => Settled(q, g)'
  BY SettledStays DEF FailDownload, VendorTypeOK
<1>n. \A q \in Runs : Named[mine[q]] \subseteq PoolFiles
  BY NamedType
<1>1. VendorTypeOK'
  BY DEF FailDownload, VendorTypeOK, Pools, Temps
<1>2. ExitEnds'
  BY DEF FailDownload, ExitEnds, VendorTypeOK, Phases
<1>3. FetchIsComplete'
  BY <1>s, <1>n DEF FailDownload, FetchIsComplete, VendorTypeOK, Wanted
<1>4. PhasesAreTold'
  BY DEF FailDownload, PhasesAreTold, VendorTypeOK, Listed, Phases
<1>5. ExtrasAreUnnamed'
  BY DEF FailDownload, ExtrasAreUnnamed, VendorTypeOK
<1>6. AloneIsAlone'
  BY DEF FailDownload, AloneIsAlone, VendorTypeOK
<1>7. PruneIsComplete'
  BY DEF FailDownload, PruneIsComplete, VendorTypeOK, AloneIsAlone, Clean, Left,
     PartialsIn
<1> QED BY <1>1, <1>2, <1>3, <1>4, <1>5, <1>6, <1>7

(* A fetch that failed or was canceled returns. *)
LEMMA FetchFailsInv ==
  ASSUME VendorInv, NEW r \in Runs, FetchFails(r)
  PROVE  VendorInv'
<1> USE VendorAssumption DEF VendorInv, Underway
<1>s. \A q \in Runs, g \in PoolFiles : Settled(q, g) => Settled(q, g)'
  BY SettledStays DEF FetchFails, RunGoes, Returns, VendorTypeOK
<1>n. \A q \in Runs : Named[mine[q]] \subseteq PoolFiles
  BY NamedType
<1>1. VendorTypeOK'
  BY DEF FetchFails, FetchEnds, Canceled, RunGoes, Returns, VendorTypeOK, Pools,
     Temps
<1>2. ExitEnds'
  BY DEF FetchFails, FetchEnds, Canceled, RunGoes, Returns, ExitEnds, VendorTypeOK,
     Phases
<1>3. FetchIsComplete'
  BY <1>s, <1>n DEF FetchFails, FetchEnds, Canceled, RunGoes, Returns,
     FetchIsComplete, VendorTypeOK, Wanted
<1>4. PhasesAreTold'
  BY DEF FetchFails, FetchEnds, Canceled, RunGoes, Returns, PhasesAreTold,
     VendorTypeOK, Listed, Phases
<1>5. ExtrasAreUnnamed'
  BY DEF FetchFails, FetchEnds, Canceled, RunGoes, Returns, ExtrasAreUnnamed,
     VendorTypeOK
<1>6. AloneIsAlone'
  BY DEF FetchFails, FetchEnds, Canceled, RunGoes, Returns, AloneIsAlone,
     VendorTypeOK
<1>7. PruneIsComplete'
  BY DEF FetchFails, FetchEnds, Canceled, RunGoes, Returns, PruneIsComplete,
     VendorTypeOK, AloneIsAlone, Clean, Left, PartialsIn
<1> QED BY <1>1, <1>2, <1>3, <1>4, <1>5, <1>6, <1>7

(* The packages are all there, and the wheels are next. *)
LEMMA FetchWheelsInv ==
  ASSUME VendorInv, NEW r \in Runs, FetchWheels(r)
  PROVE  VendorInv'
<1> USE VendorAssumption DEF VendorInv, Underway
<1>s. \A q \in Runs, g \in PoolFiles : Settled(q, g) => Settled(q, g)'
  BY SettledStays DEF FetchWheels, RunGoes, VendorTypeOK
<1>n. \A q \in Runs : Named[mine[q]] \subseteq PoolFiles
  BY NamedType
<1>1. VendorTypeOK'
  BY DEF FetchWheels, FetchEnds, Canceled, NextPool, RunGoes, VendorTypeOK, Pools,
     Temps
<1>2. ExitEnds'
  BY DEF FetchWheels, FetchEnds, Canceled, NextPool, RunGoes, ExitEnds, VendorTypeOK,
     Phases
<1>3. FetchIsComplete'
  <2>1. \A q \in Runs : q # r => Wanted(q)' = Wanted(q)
    BY DEF FetchWheels, Wanted, VendorTypeOK
  <2>2. \A q \in Runs : Wanted(q) \subseteq PoolFiles
    BY NamedType, <1>n
  <2>3. \A f \in Named[mine[r]] \ Wheels : Settled(r, f)
    BY ZenonT(40), NamedType DEF FetchWheels, FetchEnds, Canceled, NextPool, RunGoes,
       FetchIsComplete, VendorTypeOK
  <2> QED BY <2>1, <2>2, <2>3, <1>s, <1>n
          DEF FetchWheels, RunGoes, FetchIsComplete, VendorTypeOK
<1>4. PhasesAreTold'
  BY DEF FetchWheels, FetchEnds, Canceled, NextPool, RunGoes, PhasesAreTold,
     VendorTypeOK, Listed, Phases
<1>5. ExtrasAreUnnamed'
  BY DEF FetchWheels, FetchEnds, Canceled, NextPool, RunGoes, ExtrasAreUnnamed,
     VendorTypeOK
<1>6. AloneIsAlone'
  BY DEF FetchWheels, FetchEnds, Canceled, NextPool, RunGoes, AloneIsAlone,
     VendorTypeOK
<1>7. PruneIsComplete'
  BY DEF FetchWheels, FetchEnds, Canceled, NextPool, RunGoes, PruneIsComplete,
     VendorTypeOK, AloneIsAlone, Clean, Left, PartialsIn
<1> QED BY <1>1, <1>2, <1>3, <1>4, <1>5, <1>6, <1>7

(* All that is named is there. *)
LEMMA FetchDoneInv ==
  ASSUME VendorInv, NEW r \in Runs, FetchDone(r)
  PROVE  VendorInv'
<1> USE VendorAssumption DEF VendorInv, Underway
<1>s. \A q \in Runs, g \in PoolFiles : Settled(q, g) => Settled(q, g)'
  BY SettledStays DEF FetchDone, RunGoes, VendorTypeOK
<1>n. \A q \in Runs : Named[mine[q]] \subseteq PoolFiles
  BY NamedType
<1>1. VendorTypeOK'
  <2>1. phase' \in [Runs -> [Phases -> {"waiting", "running", "finished"}]]
    BY SMTT(30) DEF FetchDone, VendorTypeOK, Phases
  <2> QED BY <2>1 DEF FetchDone, RunGoes, VendorTypeOK, Pools
<1>2. ExitEnds'
  BY DEF FetchDone, FetchEnds, Canceled, NextPool, RunGoes, ExitEnds, VendorTypeOK,
     Phases
<1>3. FetchIsComplete'
  <2>1. \A q \in Runs : q # r => Wanted(q)' = Wanted(q)
    BY DEF FetchDone, Wanted, VendorTypeOK
  <2>2. \A q \in Runs : Wanted(q) \subseteq PoolFiles
    BY NamedType, <1>n
  <2>3. \A f \in Named[mine[r]] : Settled(r, f)
    <3>1. \A f \in Wanted(r) : Settled(r, f)
      BY DEF FetchDone, FetchEnds, Canceled, RunGoes, FetchIsComplete, VendorTypeOK
    <3>2. CASE pool[r] = "packages"
      <4>1. Named[mine[r]] \cap Wheels = {}
        BY <3>2 DEF FetchDone, NextPool
      <4> QED BY <3>1, <3>2, <4>1, NamedType
    <3>3. CASE pool[r] = "wheels"
      <4>1. \A f \in Named[mine[r]] \ Wheels : Settled(r, f)
        BY <3>3 DEF FetchDone, RunGoes, FetchIsComplete
      <4> QED BY <3>1, <3>3, <4>1, NamedType
    <3> QED BY <3>2, <3>3 DEF VendorTypeOK, Pools
  <2> QED BY <2>1, <2>2, <2>3, <1>s, <1>n
          DEF FetchDone, RunGoes, FetchIsComplete, VendorTypeOK
<1>4. PhasesAreTold'
  BY DEF FetchDone, FetchEnds, Canceled, NextPool, RunGoes, PhasesAreTold,
     VendorTypeOK, Listed, Phases
<1>5. ExtrasAreUnnamed'
  BY DEF FetchDone, FetchEnds, Canceled, NextPool, RunGoes, ExtrasAreUnnamed,
     VendorTypeOK
<1>6. AloneIsAlone'
  BY DEF FetchDone, FetchEnds, Canceled, NextPool, RunGoes, AloneIsAlone,
     VendorTypeOK
<1>7. PruneIsComplete'
  BY DEF FetchDone, FetchEnds, Canceled, NextPool, RunGoes, PruneIsComplete,
     VendorTypeOK, AloneIsAlone, Clean, Left, PartialsIn
<1> QED BY <1>1, <1>2, <1>3, <1>4, <1>5, <1>6, <1>7

(* What the pool has too much is listed. *)
LEMMA PruneVerifyInv ==
  ASSUME VendorInv, NEW r \in Runs, PruneVerify(r)
  PROVE  VendorInv'
<1> USE VendorAssumption DEF VendorInv, Underway
<1>s. \A q \in Runs, g \in PoolFiles : Settled(q, g) => Settled(q, g)'
  BY SettledStays DEF PruneVerify, RunGoes, VendorTypeOK
<1>n. \A q \in Runs : Named[mine[q]] \subseteq PoolFiles
  BY NamedType
<1>1. VendorTypeOK'
  <2>1. Extra(r) \subseteq PoolFiles \cup Temps
    BY DEF Extra, ExtraPackagesOnly, PartialsIn, VendorTypeOK
  <2> QED BY <2>1 DEF PruneVerify, RunGoes, VendorTypeOK
<1>2. ExitEnds'
  BY DEF PruneVerify, RunGoes, Extra, ExtraPackagesOnly, ExitEnds, VendorTypeOK,
     Phases
<1>3. FetchIsComplete'
  BY <1>s, <1>n DEF PruneVerify, RunGoes, Extra, ExtraPackagesOnly,
     FetchIsComplete, VendorTypeOK, Wanted
<1>4. PhasesAreTold'
  BY DEF PruneVerify, RunGoes, Extra, ExtraPackagesOnly, PhasesAreTold, VendorTypeOK,
     Listed, Phases
<1>5. ExtrasAreUnnamed'
  <2>1. Extra(r) \cap Named[mine[r]] = {}
    BY <1>n DEF Extra, ExtraPackagesOnly, PartialsIn, VendorTypeOK, Temps
  <2> QED BY <2>1 DEF PruneVerify, RunGoes, ExtrasAreUnnamed, VendorTypeOK
<1>6. AloneIsAlone'
  BY DEF PruneVerify, RunGoes, Extra, ExtraPackagesOnly, AloneIsAlone, VendorTypeOK
<1>7. PruneIsComplete'
  BY DEF PruneVerify, RunGoes, Extra, ExtraPackagesOnly, PruneIsComplete,
     VendorTypeOK, AloneIsAlone, Clean, Left, PartialsIn
<1> QED BY <1>1, <1>2, <1>3, <1>4, <1>5, <1>6, <1>7

(* The pool cannot be listed. *)
LEMMA PruneCannotVerifyInv ==
  ASSUME VendorInv, NEW r \in Runs, PruneCannotVerify(r)
  PROVE  VendorInv'
<1> USE VendorAssumption DEF VendorInv, Underway
<1>s. \A q \in Runs, g \in PoolFiles : Settled(q, g) => Settled(q, g)'
  BY SettledStays DEF PruneCannotVerify, RunGoes, Returns, VendorTypeOK
<1>n. \A q \in Runs : Named[mine[q]] \subseteq PoolFiles
  BY NamedType
<1>1. VendorTypeOK'
  BY DEF PruneCannotVerify, RunGoes, Returns, VendorTypeOK, Pools, Temps
<1>2. ExitEnds'
  BY DEF PruneCannotVerify, RunGoes, Returns, ExitEnds, VendorTypeOK, Phases
<1>3. FetchIsComplete'
  BY <1>s, <1>n DEF PruneCannotVerify, RunGoes, Returns, FetchIsComplete,
     VendorTypeOK, Wanted
<1>4. PhasesAreTold'
  BY DEF PruneCannotVerify, RunGoes, Returns, PhasesAreTold, VendorTypeOK, Listed,
     Phases
<1>5. ExtrasAreUnnamed'
  BY DEF PruneCannotVerify, RunGoes, Returns, ExtrasAreUnnamed, VendorTypeOK
<1>6. AloneIsAlone'
  BY DEF PruneCannotVerify, RunGoes, Returns, AloneIsAlone, VendorTypeOK
<1>7. PruneIsComplete'
  BY DEF PruneCannotVerify, RunGoes, Returns, PruneIsComplete, VendorTypeOK,
     AloneIsAlone, Clean, Left, PartialsIn
<1> QED BY <1>1, <1>2, <1>3, <1>4, <1>5, <1>6, <1>7

(* A file is removed, for every run that names it. *)
LEMMA RemoveFileInv ==
  ASSUME VendorInv, NEW r \in Runs, NEW f \in PoolFiles, RemoveFile(r, f)
  PROVE  VendorInv'
<1> USE VendorAssumption DEF VendorInv, Underway
<1>1. VendorTypeOK'
  BY DEF RemoveFile, VendorTypeOK, Pools, Temps
<1>2. ExitEnds'
  BY DEF RemoveFile, ExitEnds, VendorTypeOK, Phases
<1>3. FetchIsComplete'
  <2>1. Unnames(r, f)
    BY DEF RemoveFile, Unnames, ExtrasAreUnnamed, PhasesAreTold
  <2>2. \A q \in Runs : runAt[q] # "new" =>
          \A g \in Named[mine[q]] : Settled(q, g) => Settled(q, g)'
    BY <2>1 DEF RemoveFile, Settled, Unnames, VendorTypeOK
  <2>3. \A q \in Runs : /\ Wanted(q)' = Wanted(q)
                         /\ Wanted(q) \subseteq Named[mine[q]]
    BY NamedType DEF RemoveFile, Wanted
  <2> QED BY <2>2, <2>3 DEF RemoveFile, FetchIsComplete, ExitEnds, VendorTypeOK
<1>4. PhasesAreTold'
  BY DEF RemoveFile, PhasesAreTold, VendorTypeOK, Listed, Phases
<1>5. ExtrasAreUnnamed'
  BY DEF RemoveFile, ExtrasAreUnnamed, VendorTypeOK
<1>6. AloneIsAlone'
  BY DEF RemoveFile, AloneIsAlone, VendorTypeOK
<1>7. PruneIsComplete'
  <2>1. \A p \in Pools : /\ PartialsIn(p)' = PartialsIn(p) /\ f \notin PartialsIn(p)
                        /\ Left(r, p)' = Left(r, p) \ {f}
    BY DEF RemoveFile, PartialsIn, Left, VendorTypeOK, Temps
  <2>2. \A q \in Runs : alone[q] /\ runAt[q] \in Underway => q = r
    BY DEF RemoveFile, AloneIsAlone
  <2>3. /\ runAt'[r] = "pruning" /\ pool'[r] = pool[r] /\ pool[r] \in Pools
        /\ extras'[r] = extras[r] \ {f}
    BY DEF RemoveFile, VendorTypeOK
  <2>4. alone[r] /\ prune[r] =>
          /\ PartialsIn(pool[r])' \subseteq extras'[r]
          /\ Left(r, pool[r])' \subseteq extras'[r]
          /\ pool[r] = "wheels" => Clean(r, "packages")'
    BY <2>1, <2>3 DEF RemoveFile, PruneIsComplete, Clean, Pools
  <2> QED BY <2>2, <2>3, <2>4 DEF RemoveFile, PruneIsComplete
<1> QED BY <1>1, <1>2, <1>3, <1>4, <1>5, <1>6, <1>7

(* A partial download is removed, whoever began it. *)
LEMMA RemovePartialInv ==
  ASSUME VendorInv, NEW r \in Runs, NEW t \in Temps, RemovePartial(r, t)
  PROVE  VendorInv'
<1> USE VendorAssumption DEF VendorInv, Underway
<1>s. \A q \in Runs, g \in PoolFiles : Settled(q, g) => Settled(q, g)'
  BY SettledStays DEF RemovePartial, VendorTypeOK
<1>n. \A q \in Runs : Named[mine[q]] \subseteq PoolFiles
  BY NamedType
<1>1. VendorTypeOK'
  BY DEF RemovePartial, VendorTypeOK, Pools, Temps
<1>2. ExitEnds'
  BY DEF RemovePartial, ExitEnds, VendorTypeOK, Phases
<1>3. FetchIsComplete'
  BY <1>s, <1>n DEF RemovePartial, FetchIsComplete, VendorTypeOK, Wanted
<1>4. PhasesAreTold'
  BY DEF RemovePartial, PhasesAreTold, VendorTypeOK, Listed, Phases
<1>5. ExtrasAreUnnamed'
  BY DEF RemovePartial, ExtrasAreUnnamed, VendorTypeOK
<1>6. AloneIsAlone'
  BY DEF RemovePartial, AloneIsAlone, VendorTypeOK
<1>7. PruneIsComplete'
  <2>1. \A p : /\ PartialsIn(p)' = PartialsIn(p) \ {t}
               /\ \A q \in Runs : Left(q, p)' = Left(q, p) /\ t \notin Left(q, p)
    BY DEF RemovePartial, PartialsIn, Left, VendorTypeOK, Temps
  <2>2. \A q \in Runs : alone[q] /\ runAt[q] \in Underway => q = r
    BY DEF RemovePartial, AloneIsAlone
  <2> QED BY <2>1, <2>2 DEF RemovePartial, PruneIsComplete, Clean, VendorTypeOK
<1> QED BY <1>1, <1>2, <1>3, <1>4, <1>5, <1>6, <1>7

(* A file cannot be removed. *)
LEMMA CannotRemoveInv ==
  ASSUME VendorInv, NEW r \in Runs, CannotRemove(r)
  PROVE  VendorInv'
<1> USE VendorAssumption DEF VendorInv, Underway
<1>s. \A q \in Runs, g \in PoolFiles : Settled(q, g) => Settled(q, g)'
  BY SettledStays DEF CannotRemove, RunGoes, Returns, VendorTypeOK
<1>n. \A q \in Runs : Named[mine[q]] \subseteq PoolFiles
  BY NamedType
<1>1. VendorTypeOK'
  BY DEF CannotRemove, RunGoes, Returns, VendorTypeOK, Pools, Temps
<1>2. ExitEnds'
  BY DEF CannotRemove, RunGoes, Returns, ExitEnds, VendorTypeOK, Phases
<1>3. FetchIsComplete'
  BY <1>s, <1>n DEF CannotRemove, RunGoes, Returns, FetchIsComplete, VendorTypeOK,
     Wanted
<1>4. PhasesAreTold'
  BY DEF CannotRemove, RunGoes, Returns, PhasesAreTold, VendorTypeOK, Listed, Phases
<1>5. ExtrasAreUnnamed'
  BY DEF CannotRemove, RunGoes, Returns, ExtrasAreUnnamed, VendorTypeOK
<1>6. AloneIsAlone'
  BY DEF CannotRemove, RunGoes, Returns, AloneIsAlone, VendorTypeOK
<1>7. PruneIsComplete'
  BY DEF CannotRemove, RunGoes, Returns, PruneIsComplete, VendorTypeOK, AloneIsAlone,
     Clean, Left, PartialsIn
<1> QED BY <1>1, <1>2, <1>3, <1>4, <1>5, <1>6, <1>7

(* The packages are pruned, and the wheels are next. *)
LEMMA PruneWheelsInv ==
  ASSUME VendorInv, NEW r \in Runs, PruneWheels(r)
  PROVE  VendorInv'
<1> USE VendorAssumption DEF VendorInv, Underway
<1>s. \A q \in Runs, g \in PoolFiles : Settled(q, g) => Settled(q, g)'
  BY SettledStays DEF PruneWheels, RunGoes, VendorTypeOK
<1>n. \A q \in Runs : Named[mine[q]] \subseteq PoolFiles
  BY NamedType
<1>1. VendorTypeOK'
  BY DEF PruneWheels, RunGoes, VendorTypeOK, Pools, Temps
<1>2. ExitEnds'
  BY DEF PruneWheels, RunGoes, ExitEnds, VendorTypeOK, Phases
<1>3. FetchIsComplete'
  BY <1>s, <1>n DEF PruneWheels, RunGoes, FetchIsComplete, VendorTypeOK, Wanted
<1>4. PhasesAreTold'
  BY DEF PruneWheels, RunGoes, PhasesAreTold, VendorTypeOK, Listed, Phases
<1>5. ExtrasAreUnnamed'
  BY DEF PruneWheels, RunGoes, ExtrasAreUnnamed, VendorTypeOK
<1>6. AloneIsAlone'
  BY DEF PruneWheels, RunGoes, AloneIsAlone, VendorTypeOK
<1>7. PruneIsComplete'
  BY DEF PruneWheels, RunGoes, PruneIsComplete, VendorTypeOK, AloneIsAlone, Clean,
     Left, PartialsIn
<1> QED BY <1>1, <1>2, <1>3, <1>4, <1>5, <1>6, <1>7

(* Both pools are pruned. *)
LEMMA PruneDoneInv ==
  ASSUME VendorInv, NEW r \in Runs, PruneDone(r)
  PROVE  VendorInv'
<1> USE VendorAssumption DEF VendorInv, Underway
<1>s. \A q \in Runs, g \in PoolFiles : Settled(q, g) => Settled(q, g)'
  BY SettledStays DEF PruneDone, RunGoes, VendorTypeOK
<1>n. \A q \in Runs : Named[mine[q]] \subseteq PoolFiles
  BY NamedType
<1>1. VendorTypeOK'
  BY DEF PruneDone, RunGoes, Phase, VendorTypeOK, Pools, Temps, Phases
<1>2. ExitEnds'
  BY DEF PruneDone, RunGoes, Phase, ExitEnds, VendorTypeOK, Phases
<1>3. FetchIsComplete'
  BY <1>s, <1>n DEF PruneDone, RunGoes, Phase, FetchIsComplete, VendorTypeOK, Wanted
<1>4. PhasesAreTold'
  BY DEF PruneDone, RunGoes, Phase, PhasesAreTold, VendorTypeOK, Listed, Phases
<1>5. ExtrasAreUnnamed'
  BY DEF PruneDone, RunGoes, Phase, ExtrasAreUnnamed, VendorTypeOK
<1>6. AloneIsAlone'
  BY DEF PruneDone, RunGoes, Phase, AloneIsAlone, VendorTypeOK
<1>7. PruneIsComplete'
  BY DEF PruneDone, RunGoes, Phase, PruneIsComplete, VendorTypeOK, AloneIsAlone,
     Clean, Left, PartialsIn
<1> QED BY <1>1, <1>2, <1>3, <1>4, <1>5, <1>6, <1>7

(* The run ends, with the exit code of its error. *)
LEMMA ExitInv ==
  ASSUME VendorInv, NEW r \in Runs, Exit(r)
  PROVE  VendorInv'
<1> USE VendorAssumption DEF VendorInv, Underway
<1>s. \A q \in Runs, g \in PoolFiles : Settled(q, g) => Settled(q, g)'
  BY SettledStays DEF Exit, RunGoes, Forgets, VendorTypeOK
<1>n. \A q \in Runs : Named[mine[q]] \subseteq PoolFiles
  BY NamedType
<1>1. VendorTypeOK'
  BY DEF Exit, RunGoes, ExitCode, Forgets, VendorTypeOK, Pools, Temps
<1>2. ExitEnds'
  BY DEF Exit, RunGoes, ExitCode, Forgets, ExitEnds, VendorTypeOK, Phases
<1>3. FetchIsComplete'
  BY <1>s, <1>n DEF Exit, RunGoes, ExitCode, Forgets, FetchIsComplete, VendorTypeOK,
     Wanted
<1>4. PhasesAreTold'
  BY DEF Exit, RunGoes, ExitCode, Forgets, PhasesAreTold, VendorTypeOK, Listed,
     Phases
<1>5. ExtrasAreUnnamed'
  BY DEF Exit, RunGoes, ExitCode, Forgets, ExtrasAreUnnamed, VendorTypeOK
<1>6. AloneIsAlone'
  BY DEF Exit, RunGoes, ExitCode, Forgets, AloneIsAlone, VendorTypeOK
<1>7. PruneIsComplete'
  BY DEF Exit, RunGoes, ExitCode, Forgets, PruneIsComplete, VendorTypeOK,
     AloneIsAlone, Clean, Left, PartialsIn
<1> QED BY <1>1, <1>2, <1>3, <1>4, <1>5, <1>6, <1>7

(* A signal reaches the run. *)
LEMMA InterruptInv ==
  ASSUME VendorInv, NEW r \in Runs, Interrupt(r)
  PROVE  VendorInv'
<1> USE VendorAssumption DEF VendorInv, Underway
<1>s. \A q \in Runs, g \in PoolFiles : Settled(q, g) => Settled(q, g)'
  BY SettledStays DEF Interrupt, VendorTypeOK
<1>n. \A q \in Runs : Named[mine[q]] \subseteq PoolFiles
  BY NamedType
<1>1. VendorTypeOK'
  BY DEF Interrupt, VendorTypeOK, Pools, Temps
<1>2. ExitEnds'
  BY DEF Interrupt, ExitEnds, VendorTypeOK, Phases
<1>3. FetchIsComplete'
  BY <1>s, <1>n DEF Interrupt, FetchIsComplete, VendorTypeOK, Wanted
<1>4. PhasesAreTold'
  BY DEF Interrupt, PhasesAreTold, VendorTypeOK, Listed, Phases
<1>5. ExtrasAreUnnamed'
  BY DEF Interrupt, ExtrasAreUnnamed, VendorTypeOK
<1>6. AloneIsAlone'
  BY DEF Interrupt, AloneIsAlone, VendorTypeOK
<1>7. PruneIsComplete'
  BY DEF Interrupt, PruneIsComplete, VendorTypeOK, AloneIsAlone, Clean, Left,
     PartialsIn
<1> QED BY <1>1, <1>2, <1>3, <1>4, <1>5, <1>6, <1>7

(* The run is killed, and leaves what it was downloading. *)
LEMMA KillInv ==
  ASSUME VendorInv, NEW r \in Runs, Kill(r)
  PROVE  VendorInv'
<1> USE VendorAssumption DEF VendorInv, Underway
<1>s. \A q \in Runs, g \in PoolFiles : Settled(q, g) => Settled(q, g)'
  BY SettledStays DEF Kill, Forgets, VendorTypeOK
<1>n. \A q \in Runs : Named[mine[q]] \subseteq PoolFiles
  BY NamedType
<1>1. VendorTypeOK'
  BY DEF Kill, Forgets, VendorTypeOK, Pools, Temps
<1>2. ExitEnds'
  BY DEF Kill, Forgets, ExitEnds, VendorTypeOK, Phases
<1>3. FetchIsComplete'
  BY <1>s, <1>n DEF Kill, Forgets, FetchIsComplete, VendorTypeOK, Wanted
<1>4. PhasesAreTold'
  BY DEF Kill, Forgets, PhasesAreTold, VendorTypeOK, Listed, Phases
<1>5. ExtrasAreUnnamed'
  BY DEF Kill, Forgets, ExtrasAreUnnamed, VendorTypeOK
<1>6. AloneIsAlone'
  BY DEF Kill, Forgets, AloneIsAlone, VendorTypeOK
<1>7. PruneIsComplete'
  BY DEF Kill, Forgets, PruneIsComplete, VendorTypeOK, AloneIsAlone, Clean, Left,
     PartialsIn
<1> QED BY <1>1, <1>2, <1>3, <1>4, <1>5, <1>6, <1>7

(* A build replaces the lock, under whoever has read it. *)
LEMMA NewLockInv ==
  ASSUME VendorInv, NewLock
  PROVE  VendorInv'
<1> USE VendorAssumption DEF VendorInv, Underway
<1>s. \A q \in Runs, g \in PoolFiles : Settled(q, g) => Settled(q, g)'
  BY SettledStays DEF NewLock, run, VendorTypeOK
<1>n. \A q \in Runs : Named[mine[q]] \subseteq PoolFiles
  BY NamedType
<1>1. VendorTypeOK'
  BY DEF NewLock, run, VendorTypeOK, Pools, Temps
<1>2. ExitEnds'
  BY DEF NewLock, run, ExitEnds, VendorTypeOK, Phases
<1>3. FetchIsComplete'
  BY <1>s, <1>n DEF NewLock, run, FetchIsComplete, VendorTypeOK, Wanted
<1>4. PhasesAreTold'
  BY DEF NewLock, run, PhasesAreTold, VendorTypeOK, Listed, Phases
<1>5. ExtrasAreUnnamed'
  BY DEF NewLock, run, ExtrasAreUnnamed, VendorTypeOK
<1>6. AloneIsAlone'
  BY DEF NewLock, run, AloneIsAlone, VendorTypeOK
<1>7. PruneIsComplete'
  BY DEF NewLock, run, PruneIsComplete, VendorTypeOK, AloneIsAlone, Clean, Left,
     PartialsIn
<1> QED BY <1>1, <1>2, <1>3, <1>4, <1>5, <1>6, <1>7

(* The invariant holds at the start, in a step that changes nothing, and   *)
(* after every step.                                                       *)
LEMMA InitInv == ASSUME VendorInit PROVE VendorInv
<1> USE VendorAssumption DEF VendorInit, VendorInv
<1>1. VendorTypeOK /\ ExitEnds /\ PhasesAreTold
  BY DEF VendorTypeOK, ExitEnds, PhasesAreTold, Pools, Phases, Temps
<1>2. FetchIsComplete /\ ExtrasAreUnnamed /\ AloneIsAlone /\ PruneIsComplete
  BY DEF FetchIsComplete, ExtrasAreUnnamed, AloneIsAlone, PruneIsComplete
<1> QED BY <1>1, <1>2

LEMMA StutterInv == ASSUME VendorInv, UNCHANGED vendorVars PROVE VendorInv'
<1> USE DEF VendorInv, vendorVars
<1>1. VendorTypeOK' /\ ExitEnds' /\ PhasesAreTold'
  BY DEF VendorTypeOK, ExitEnds, PhasesAreTold, Listed
<1>2. FetchIsComplete' /\ ExtrasAreUnnamed' /\ AloneIsAlone'
  BY DEF FetchIsComplete, Wanted, Settled, Unnames, ExtrasAreUnnamed,
     AloneIsAlone
<1>3. PruneIsComplete'
  BY DEF PruneIsComplete, Clean, PartialsIn, Left
<1> QED BY <1>1, <1>2, <1>3

LEMMA StepInv == ASSUME VendorInv, [VendorNext]_vendorVars PROVE VendorInv'
<1>1. CASE UNCHANGED vendorVars
  BY <1>1, StutterInv
<1>2. CASE NewLock
  BY <1>2, NewLockInv
<1>3. ASSUME NEW r \in Runs, RunStep(r) PROVE VendorInv'
  <2>1. CASE FetchStep(r)
    BY <2>1, VerifyInv, CannotVerifyInv, FetchFailsInv, FetchWheelsInv,
       FetchDoneInv, DownloadInv, LandInv, FailInv DEF FetchStep
  <2>2. CASE PruneStep(r)
    BY <2>2, PruneVerifyInv, PruneCannotVerifyInv, CannotRemoveInv,
       RemoveFileInv, RemovePartialInv, PruneWheelsInv, PruneDoneInv
       DEF PruneStep
  <2>3. CASE (\E prunes \in BOOLEAN : BeginRun(r, prunes)) \/ Exit(r)
               \/ Interrupt(r) \/ Kill(r)
    BY <2>3, BeginInv, ExitInv, InterruptInv, KillInv
  <2> QED BY <1>3, <2>1, <2>2, <2>3 DEF RunStep
<1> QED BY <1>1, <1>2, <1>3 DEF VendorNext, VendorOver

-----------------------------------------------------------------------------
(* The theorems.                                                           *)

(* In every reachable state the variables have their types (Vendor.TypeOK) *)
(* and the rest of the invariant holds: what the runs know is true of the  *)
(* pools they share, for any number of runs, files and locks.              *)
THEOREM VendorInvariant == VendorSpec => [](VendorTypeOK /\ VendorInv)
<1>1. VendorInit => VendorInv
  BY InitInv
<1>2. VendorInv /\ [VendorNext]_vendorVars => VendorInv'
  BY StepInv
<1>3. VendorInv => VendorTypeOK
  BY DEF VendorInv
<1> QED BY <1>1, <1>2, <1>3, PTL DEF VendorSpec

(* After a success every file the run's lock names is in the pool, or was  *)
(* pruned by a run that read a lock without it, and every phase the screen *)
(* lists is closed, whatever other runs did meanwhile and have done since  *)
(* (vendorRun.do).                                                         *)
THEOREM SuccessLastsHolds == VendorSpec => []SuccessLasts
<1>1. VendorInv => SuccessLasts
  BY DEF VendorInv, FetchIsComplete, PhasesAreTold, Settled, SuccessLasts
<1> QED BY <1>1, VendorInvariant, PTL

(* A success with --prune comes from the run's exit, after both pools.     *)
LEMMA SuccessIsAnExit ==
  ASSUME VendorInv, [VendorNext]_vendorVars, NEW r \in Runs, Pruned(r)
  PROVE  Exit(r) /\ err[r] = "none"
<1> USE DEF VendorInv, VendorTypeOK, Pruned
<1>1. ~ UNCHANGED vendorVars
  BY DEF vendorVars
<1>2. ~ NewLock
  BY DEF NewLock, run
<1>3. PICK q \in Runs : RunStep(q)
  BY <1>1, <1>2 DEF VendorNext, VendorOver
<1>4. ~ FetchStep(q)
  BY DEF FetchStep, Verify, CannotVerify, FetchFails, FetchWheels, FetchDone,
     Download, Land, FailDownload
<1>5. ~ PruneStep(q)
  BY DEF PruneStep, PruneVerify, PruneCannotVerify, CannotRemove, RemoveFile,
     RemovePartial, PruneWheels, PruneDone
<1>6. ~ (\E prunes \in BOOLEAN : BeginRun(q, prunes)) /\ ~ Interrupt(q)
  BY DEF BeginRun, Interrupt
<1>7. ~ Kill(q)
  BY DEF Kill
<1>8. Exit(q) /\ q = r
  BY <1>3, <1>4, <1>5, <1>6, <1>7 DEF RunStep, Exit
<1> QED BY <1>8 DEF Exit, ExitCode

(* When a vendor --prune that ran alone exits with a success, no partial   *)
(* download is left and no package its lock does not name, whatever runs   *)
(* were killed before it (Prune).                                          *)
THEOREM PruneLeavesNoExtraHolds == VendorSpec => PruneLeavesNoExtra
<1>1. ASSUME VendorInv, [VendorNext]_vendorVars, NEW r \in Runs, Pruned(r)
      PROVE  /\ temps' = {}
             /\ \A f \in PackageFiles \ Named[mine[r]] : file'[f] = "absent"
  <2>1. /\ runAt[r] = "returned" /\ err[r] = "none"
        /\ temps' = temps /\ file' = file
    BY <1>1, SuccessIsAnExit DEF Exit, RunGoes, Forgets
  <2>2. Clean(r, "packages") /\ Clean(r, "wheels")
    BY <1>1, <2>1 DEF VendorInv, PruneIsComplete, Pruned
  <2>3. \A f \in PoolFiles : f \in InPool("packages") \/ f \in InPool("wheels")
    BY DEF InPool
  <2>4. temps = {}
    BY <1>1, <2>2, <2>3 DEF Clean, PartialsIn, VendorInv, VendorTypeOK, Temps
  <2>5. \A f \in PackageFiles \ Named[mine[r]] : file[f] = "absent"
    BY <2>2, <2>3, VendorAssumption DEF Clean, Left
  <2> QED BY <2>1, <2>4, <2>5
<1>2. VendorInv /\ [VendorNext]_vendorVars =>
        [\A r \in Runs : Pruned(r) =>
           /\ temps' = {}
           /\ \A f \in PackageFiles \ Named[mine[r]] : file'[f] = "absent"]_vendorVars
  BY <1>1
<1> QED BY <1>2, VendorInvariant, PTL DEF VendorSpec, PruneLeavesNoExtra
=============================================================================
