------------------------------ MODULE Vendor --------------------------------
(***************************************************************************)
(* The vendor command: vendorRun.do fetches the package pool, then the     *)
(* wheel pool, then with --prune removes from both what the lock does not  *)
(* name, and runVendor maps how it ended to an exit code.  Several runs    *)
(* may share one recipe directory, at once or one after another; a run may *)
(* be interrupted, or killed or abandoned in the middle of downloads; and  *)
(* a build may replace the lock under a run that has read it.              *)
(*                                                                         *)
(* A download is abstracted to its temporary file and its end; the module  *)
(* Fetch models it in full.  Verify is one step: what matters here is that *)
(* its answer is used long after.                                          *)
(***************************************************************************)
EXTENDS Naturals, FiniteSets

CONSTANTS
  Runs,          (* the runs of frostroot vendor                           *)
  PoolFiles,     (* the package and wheel files there are                  *)
  Wheels,        (* those of them that belong into vendor/wheels           *)
  PackageFiles,  (* those whose name ends in .deb or .whl                  *)
  Locks,         (* the locks builds write                                 *)
  Named          (* the files each lock names                              *)

ASSUME VendorAssumption ==
  /\ Wheels \subseteq PoolFiles /\ PackageFiles \subseteq PoolFiles
  /\ Named \in [Locks -> SUBSET PoolFiles]
  /\ PoolFiles \cap (Runs \X PoolFiles) = {}  \* no lock names a partial download

VARIABLES
  lockFile,      (* frostroot.lock                                         *)
  file,          (* each file's state under its final name                 *)
  temps,         (* downloads' temporary files, by run and file            *)
  runAt,         (* where each run is                                      *)
  pool,          (* the pool it is at: packages, then wheels               *)
  mine,          (* the lock it read                                       *)
  prune,         (* --prune                                                *)
  todo,          (* needed, not yet handed to a worker                     *)
  busy,          (* being downloaded                                       *)
  extras,        (* status.Extra of Prune's Verify, not yet removed        *)
  signal,        (* its context is canceled: Ctrl-C, SIGTERM or SIGHUP     *)
  err,           (* what do() will return                                  *)
  phase,         (* where each phase it reported is                        *)
  exit,          (* its exit code                                          *)
  gone,          (* history: files it names, pruned since it began         *)
  alone          (* history: no other run was active while it was          *)

vendorVars == <<lockFile, file, temps, runAt, pool, mine, prune, todo, busy,
                extras, signal, err, phase, exit, gone, alone>>

(* What the steps of a run's own change.                                   *)
run == <<runAt, pool, mine, prune, todo, busy, extras, signal, err, phase, exit,
         gone, alone>>

Pools  == {"packages", "wheels"}
Phases == {"check", "download", "prune"}
InPool(p) == IF p = "wheels" THEN Wheels ELSE PoolFiles \ Wheels
Temps  == Runs \X PoolFiles
Underway == {"checking", "fetching", "pruneCheck", "pruning", "returned"}

VendorTypeOK ==
  /\ lockFile \in Locks
  /\ file \in [PoolFiles -> {"absent", "bad", "good"}]
  /\ temps \subseteq Temps
  /\ runAt \in [Runs -> {"new", "ended"} \cup Underway]
  /\ pool \in [Runs -> Pools]
  /\ mine \in [Runs -> Locks]
  /\ prune \in [Runs -> BOOLEAN]
  /\ todo \in [Runs -> SUBSET PoolFiles]
  /\ busy \in [Runs -> SUBSET PoolFiles]
  /\ extras \in [Runs -> SUBSET (PoolFiles \cup Temps)]
  /\ signal \in [Runs -> BOOLEAN]
  /\ err \in [Runs -> {"none", "failed", "canceled"}]
  /\ phase \in [Runs -> [Phases -> {"waiting", "running", "finished"}]]
  /\ exit \in [Runs -> {"none", "success", "failed", "interrupted", "killed"}]
  /\ gone \in [Runs -> SUBSET PoolFiles]
  /\ alone \in [Runs -> BOOLEAN]

VendorInit ==
  /\ lockFile \in Locks
  /\ file \in [PoolFiles -> {"absent", "bad", "good"}]
  /\ temps = {}
  /\ runAt = [r \in Runs |-> "new"]
  /\ pool = [r \in Runs |-> "packages"]
  /\ mine = [r \in Runs |-> lockFile]
  /\ prune = [r \in Runs |-> FALSE]
  /\ todo = [r \in Runs |-> {}] /\ busy = [r \in Runs |-> {}]
  /\ extras = [r \in Runs |-> {}]
  /\ signal = [r \in Runs |-> FALSE]
  /\ err = [r \in Runs |-> "none"]
  /\ phase = [r \in Runs |-> [p \in Phases |-> "waiting"]]
  /\ exit = [r \in Runs |-> "none"] /\ gone = [r \in Runs |-> {}]
  /\ alone = [r \in Runs |-> FALSE]

RunGoes(r, from, to) == runAt[r] = from /\ runAt' = [runAt EXCEPT ![r] = to]
Phase(r, p, s) == phase' = [phase EXCEPT ![r][p] = s]

Returns(r, from, e) ==
  /\ RunGoes(r, from, "returned")
  /\ err' = [err EXCEPT ![r] = e]

-----------------------------------------------------------------------------
(* Fetching.                                                               *)

(* runVendor reads the lock; do() announces the check.                     *)
BeginRun(r, prunes) ==
  /\ RunGoes(r, "new", "checking")
  /\ mine' = [mine EXCEPT ![r] = lockFile]
  /\ prune' = [prune EXCEPT ![r] = prunes]
  /\ Phase(r, "check", "running")
  /\ LET others == {q \in Runs : runAt[q] \in Underway}
     IN  alone' = [q \in Runs |-> IF q = r THEN others = {}
                                 ELSE alone[q] /\ q \notin others]
  /\ UNCHANGED <<lockFile, file, temps, pool, todo, busy, extras, signal, err,
                 exit, gone>>

Wanted(r) == Named[mine[r]] \cap InPool(pool[r])
Needed(r) == {f \in Wanted(r) : file[f] # "good"}

(* OnVerified: the first pool to be checked ends the check and opens the   *)
(* download phase, whatever it needs; the second finds both done.          *)
Checked(r) ==
  IF phase[r]["download"] = "waiting"
  THEN [phase[r] EXCEPT !["check"] = "finished", !["download"] = "running"]
  ELSE [phase[r] EXCEPT !["check"] = "finished"]

(* Fetch's Verify of the pool.                                             *)
Verify(r) ==
  /\ RunGoes(r, "checking", "fetching")
  /\ todo' = [todo EXCEPT ![r] = Needed(r)]
  /\ phase' = [phase EXCEPT ![r] = Checked(r)]
  /\ UNCHANGED <<lockFile, file, temps, pool, mine, prune, busy, extras,
                 signal, err, exit, gone, alone>>

CannotVerify(r) ==
  /\ Returns(r, "checking", "failed")
  /\ UNCHANGED <<lockFile, file, temps, pool, mine, prune, todo, busy, extras,
                 signal, phase, exit, gone, alone>>

Canceled(r) == signal[r] \/ err[r] # "none"

(* A worker takes a file and creates its temporary one.                    *)
Download(r, f) ==
  /\ runAt[r] = "fetching" /\ f \in todo[r] /\ ~Canceled(r)
  /\ todo' = [todo EXCEPT ![r] = @ \ {f}]
  /\ busy' = [busy EXCEPT ![r] = @ \cup {f}]
  /\ temps' = temps \cup {<<r, f>>}
  /\ UNCHANGED <<lockFile, file, runAt, pool, mine, prune, extras, signal, err,
                 phase, exit, gone, alone>>

(* The verified download is renamed into place...                          *)
LandUnchecked(r, f) ==
  /\ runAt[r] = "fetching" /\ f \in busy[r]
  /\ file' = IF <<r, f>> \in temps THEN [file EXCEPT ![f] = "good"] ELSE file
  /\ temps' = temps \ {<<r, f>>}
  /\ busy' = [busy EXCEPT ![r] = @ \ {f}]
  /\ UNCHANGED <<lockFile, runAt, pool, mine, prune, todo, extras, signal, err,
                 phase, exit, gone, alone>>
Land(r, f) ==
  /\ runAt[r] = "fetching" /\ f \in busy[r]
  /\ <<r, f>> \in temps
  /\ file' = [file EXCEPT ![f] = "good"]
  /\ temps' = temps \ {<<r, f>>}
  /\ busy' = [busy EXCEPT ![r] = @ \ {f}]
  /\ UNCHANGED <<lockFile, runAt, pool, mine, prune, todo, extras, signal, err,
                 phase, exit, gone, alone>>

(* ...or fails: its temporary file goes, and the first error is kept.  A   *)
(* temporary file somebody pruned meanwhile cannot be renamed and fails.   *)
FailDownload(r, f) ==
  /\ runAt[r] = "fetching" /\ f \in busy[r]
  /\ temps' = temps \ {<<r, f>>}
  /\ busy' = [busy EXCEPT ![r] = @ \ {f}]
  /\ \E e \in {"failed"} \cup (IF signal[r] THEN {"canceled"} ELSE {}) :
       err' = [err EXCEPT ![r] = IF @ = "none" THEN e ELSE @]
  /\ UNCHANGED <<lockFile, file, runAt, pool, mine, prune, todo, extras,
                 signal, phase, exit, gone, alone>>

(* Fetch returns once its workers have: the first error, or ctx.Err().     *)
FetchEnds(r) ==
  runAt[r] = "fetching" /\ busy[r] = {} /\ (todo[r] = {} \/ Canceled(r))

FetchFails(r) ==
  /\ FetchEnds(r) /\ Canceled(r)
  /\ Returns(r, "fetching", IF err[r] # "none" THEN err[r] ELSE "canceled")
  /\ UNCHANGED <<lockFile, file, temps, pool, mine, prune, todo, busy, extras,
                 signal, phase, exit, gone, alone>>

NextPool(r) == pool[r] = "packages" /\ Named[mine[r]] \cap Wheels # {}

FetchWheels(r) ==
  /\ FetchEnds(r) /\ ~Canceled(r) /\ NextPool(r)
  /\ RunGoes(r, "fetching", "checking")
  /\ pool' = [pool EXCEPT ![r] = "wheels"]
  /\ UNCHANGED <<lockFile, file, temps, mine, prune, todo, busy, extras,
                 signal, err, phase, exit, gone, alone>>

FetchDone(r) ==
  /\ FetchEnds(r) /\ ~Canceled(r) /\ ~NextPool(r)
  /\ RunGoes(r, "fetching", IF prune[r] THEN "pruneCheck" ELSE "returned")
  /\ pool' = [pool EXCEPT ![r] = "packages"]
  /\ phase' = [phase EXCEPT ![r]["download"] = IF @ = "running" THEN "finished" ELSE @,
                            ![r]["prune"] = IF prune[r] THEN "running" ELSE @]
  /\ UNCHANGED <<lockFile, file, temps, mine, prune, todo, busy, extras,
                 signal, err, exit, gone, alone>>

-----------------------------------------------------------------------------
(* Pruning: nothing of it looks at the context.                            *)

(* status.Extra: packages the lock does not name, and partial downloads,   *)
(* whoever's they are.                                                     *)
PartialsIn(p) == {t \in temps : t[2] \in InPool(p)}
ExtraPackagesOnly(r) ==
  {f \in (PackageFiles \cap InPool(pool[r])) \ Named[mine[r]] :
     file[f] # "absent"}
Extra(r) == ExtraPackagesOnly(r) \cup PartialsIn(pool[r])

PruneVerify(r) ==
  /\ RunGoes(r, "pruneCheck", "pruning")
  /\ extras' = [extras EXCEPT ![r] = Extra(r)]
  /\ UNCHANGED <<lockFile, file, temps, pool, mine, prune, todo, busy, signal,
                 err, phase, exit, gone, alone>>

PruneCannotVerify(r) ==
  /\ Returns(r, "pruneCheck", "failed")
  /\ UNCHANGED <<lockFile, file, temps, pool, mine, prune, todo, busy, extras,
                 signal, phase, exit, gone, alone>>

RemoveFile(r, f) ==
  /\ runAt[r] = "pruning" /\ f \in extras[r] \cap PoolFiles /\ file[f] # "absent"
  /\ file' = [file EXCEPT ![f] = "absent"]
  /\ extras' = [extras EXCEPT ![r] = @ \ {f}]
  /\ gone' = [q \in Runs |-> IF runAt[q] # "new" /\ f \in Named[mine[q]]
                            THEN gone[q] \cup {f} ELSE gone[q]]
  /\ UNCHANGED <<lockFile, temps, runAt, pool, mine, prune, todo, busy, signal,
                 err, phase, exit, alone>>

RemovePartial(r, t) ==
  /\ runAt[r] = "pruning" /\ t \in extras[r] \cap temps
  /\ temps' = temps \ {t}
  /\ extras' = [extras EXCEPT ![r] = @ \ {t}]
  /\ UNCHANGED <<lockFile, file, runAt, pool, mine, prune, todo, busy, signal,
                 err, phase, exit, gone, alone>>

(* os.Remove fails, as it must for a file that is gone by now.             *)
CannotRemove(r) ==
  /\ extras[r] # {}
  /\ Returns(r, "pruning", "failed")
  /\ UNCHANGED <<lockFile, file, temps, pool, mine, prune, todo, busy, extras,
                 signal, phase, exit, gone, alone>>

(* Both pools are pruned, the wheels too when the lock names none.         *)
PruneWheels(r) ==
  /\ extras[r] = {} /\ pool[r] = "packages"
  /\ RunGoes(r, "pruning", "pruneCheck")
  /\ pool' = [pool EXCEPT ![r] = "wheels"]
  /\ UNCHANGED <<lockFile, file, temps, mine, prune, todo, busy, extras,
                 signal, err, phase, exit, gone, alone>>

PruneDone(r) ==
  /\ extras[r] = {} /\ pool[r] = "wheels"
  /\ RunGoes(r, "pruning", "returned")
  /\ Phase(r, "prune", "finished")
  /\ UNCHANGED <<lockFile, file, temps, pool, mine, prune, todo, busy, extras,
                 signal, err, exit, gone, alone>>

-----------------------------------------------------------------------------
(* The end of a run, and what happens to it from outside.                  *)

(* runVendor's switch: a signal makes the run interrupted even when all of *)
(* it was done, or when it failed for another reason.                      *)
ExitCodeOfError(r) == IF err[r] = "none" THEN "success" ELSE err[r]
ExitCode(r) ==
  IF err[r] = "canceled" \/ signal[r] THEN "interrupted"
  ELSE IF err[r] = "failed" THEN "failed" ELSE "success"

(* What the process knew is gone with it.                                  *)
Forgets(r) ==
  /\ todo' = [todo EXCEPT ![r] = {}] /\ busy' = [busy EXCEPT ![r] = {}]
  /\ extras' = [extras EXCEPT ![r] = {}]
  /\ signal' = [signal EXCEPT ![r] = FALSE]
  /\ err' = [err EXCEPT ![r] = "none"]
  /\ UNCHANGED <<lockFile, file, temps, pool, mine, prune, phase, gone, alone>>

Exit(r) ==
  /\ RunGoes(r, "returned", "ended")
  /\ exit' = [exit EXCEPT ![r] = ExitCode(r)]
  /\ Forgets(r)

Interrupt(r) ==
  /\ runAt[r] \in Underway /\ ~signal[r]
  /\ signal' = [signal EXCEPT ![r] = TRUE]
  /\ UNCHANGED <<lockFile, file, temps, runAt, pool, mine, prune, todo, busy,
                 extras, err, phase, exit, gone, alone>>

(* Killed, or abandoned at the second Ctrl-C: partial downloads stay.      *)
Kill(r) ==
  /\ runAt[r] \in Underway
  /\ runAt' = [runAt EXCEPT ![r] = "ended"]
  /\ exit' = [exit EXCEPT ![r] = "killed"]
  /\ Forgets(r)

(* A build succeeds and replaces the lock; it reads no pool doing so.      *)
NewLock ==
  /\ lockFile' \in Locks \ {lockFile}
  /\ UNCHANGED <<file, temps, run>>

FetchStep(r) ==
  \/ Verify(r) \/ CannotVerify(r)
  \/ FetchFails(r) \/ FetchWheels(r) \/ FetchDone(r)
  \/ \E f \in PoolFiles : Download(r, f) \/ Land(r, f) \/ FailDownload(r, f)

PruneStep(r) ==
  \/ PruneVerify(r) \/ PruneCannotVerify(r) \/ CannotRemove(r)
  \/ \E f \in PoolFiles : RemoveFile(r, f)
  \/ \E t \in Temps : RemovePartial(r, t)
  \/ PruneWheels(r) \/ PruneDone(r)

RunStep(r) ==
  \/ \E prunes \in BOOLEAN : BeginRun(r, prunes)
  \/ FetchStep(r) \/ PruneStep(r) \/ Exit(r) \/ Interrupt(r) \/ Kill(r)

VendorOver == (\A r \in Runs : runAt[r] = "ended") /\ UNCHANGED vendorVars

VendorNext == (\E r \in Runs : RunStep(r)) \/ NewLock \/ VendorOver
VendorSpec == VendorInit /\ [][VendorNext]_vendorVars

-----------------------------------------------------------------------------
(* Properties.                                                             *)

(* The summary of a success is no snapshot: every file its lock names is   *)
(* in the pool and stays there, whatever other runs do, until one that     *)
(* read a lock without the file prunes it.  A run whose partial download   *)
(* another run pruned fails and says so.  And a success has closed every   *)
(* phase the screen lists, though two pools share two of them.             *)
Unnames(q, f) == prune[q] /\ runAt[q] # "new" /\ f \notin Named[mine[q]]
Listed(r) == Phases \ (IF prune[r] THEN {} ELSE {"prune"})
SuccessLasts ==
  \A r \in Runs : exit[r] = "success" =>
    /\ \A f \in Named[mine[r]] :
         file[f] = "good" \/ (f \in gone[r] /\ \E q \in Runs : Unnames(q, f))
    /\ \A p \in Listed(r) : phase[r][p] = "finished"

(* After a vendor --prune that ran alone, nothing an abandoned or killed   *)
(* run left behind is in the pools, nor any .deb or .whl the lock does not *)
(* name (Prune).                                                           *)
Pruned(r) ==
  prune[r] /\ alone[r] /\ exit[r] # "success" /\ exit'[r] = "success"
PruneLeavesNoExtra ==
  [][\A r \in Runs : Pruned(r) =>
       /\ temps' = {}
       /\ \A f \in PackageFiles \ Named[mine[r]] : file'[f] = "absent"]_vendorVars
=============================================================================
