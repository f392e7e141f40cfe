------------------------------- MODULE Place --------------------------------
(***************************************************************************)
(* builder.Build from the work directory on, and export.Stage and Unstage: *)
(* how a build puts a new image and its lock into the recipe directory,    *)
(* and how it takes back what it did when it fails.  Several builds may    *)
(* run in one recipe directory (Spec), or one at a time (SoloSpec), and    *)
(* any of them may be killed between two steps.                            *)
(*                                                                         *)
(* An image and the lock that describes it are abstracted to a version: an *)
(* online build makes a version of its own, an offline build the version   *)
(* of the lock it was planned from.  The image is the one output path of a *)
(* recipe that does not change.                                            *)
(***************************************************************************)
EXTENDS Naturals, FiniteSets

CONSTANTS
  Builds,        (* the runs of frostroot build                            *)
  Names,         (* the random parts of temporary file names               *)
  Old,           (* the version placed before any of these builds          *)
  None,          (* no file, or no version                                 *)
  Empty,         (* a temporary file claimed but not yet written in full   *)
  NoName         (* a build's temporary name while it has none             *)

ASSUME PlaceAssumption ==
  /\ Old \notin Builds
  /\ None \notin Builds \cup {Old}
  /\ Empty \notin Builds \cup {Old, None}
  /\ NoName \notin Names

VARIABLES
  lock,          (* frostroot.lock                                         *)
  output,        (* the tarball or disk image in dist/                     *)
  lockTemp,      (* .frostroot.lock.<name>.tmp, per name                   *)
  outTemp,       (* dist/.<image>.<name>.tmp, per name                     *)
  at,            (* where each build is                                    *)
  kind,          (* online or offline                                      *)
  image,         (* the version the build makes                            *)
  work,          (* builtOutputPath: what the work directory holds         *)
  workDir,       (* whether the build's work directory exists              *)
  tempLock,      (* temporaryLockPath                                      *)
  staged,        (* stagedOutputPath                                       *)
  previous,      (* previousLock, None when hadPreviousLock is false       *)
  before,        (* history: lock and output when the build started        *)
  lost,          (* history: undoing failed, in restoreLock or Unstage     *)
  torn           (* history: a build died, or could not restore the lock,  *)
                 (* between its two renames                                *)

vars == <<lock, output, lockTemp, outTemp, at, kind, image, work, workDir,
          tempLock, staged, previous, before, lost, torn>>

Versions == Builds \cup {Old}
Files    == Versions \cup {None}

Ended  == {"refused", "failed", "done", "crashed"}
Active == {"working", "built", "lockClaimed", "ready", "claimed", "staged",
           "previousRead", "lockPlaced", "restoring", "restoreClaimed",
           "failing", "unstaging", "placed"}
(* Between the two renames.                                                *)
Window == {"lockPlaced", "restoring", "restoreClaimed"}

TypeOK ==
  /\ lock \in Files /\ output \in Files
  /\ lockTemp \in [Names -> Files \cup {Empty}]
  /\ outTemp \in [Names -> Files \cup {Empty}]
  /\ at \in [Builds -> {"new"} \cup Active \cup Ended]
  /\ kind \in [Builds -> {"online", "offline"}]
  /\ image \in [Builds -> Files]
  /\ work \in [Builds -> Files]
  /\ workDir \in [Builds -> BOOLEAN]
  /\ tempLock \in [Builds -> Names \cup {NoName}]
  /\ staged \in [Builds -> Names \cup {NoName}]
  /\ previous \in [Builds -> Files]
  /\ before \in [Builds -> Files \X Files]
  /\ lost \in [Builds -> BOOLEAN]
  /\ torn \in BOOLEAN

Init ==
  /\ lock \in {Old, None} /\ output \in {Old, None}
  /\ torn = (lock # output)
  /\ lockTemp = [n \in Names |-> None]
  /\ outTemp = [n \in Names |-> None]
  /\ at = [b \in Builds |-> "new"]
  /\ kind = [b \in Builds |-> "online"]
  /\ image = [b \in Builds |-> None]
  /\ work = [b \in Builds |-> None]
  /\ workDir = [b \in Builds |-> FALSE]
  /\ tempLock = [b \in Builds |-> NoName]
  /\ staged = [b \in Builds |-> NoName]
  /\ previous = [b \in Builds |-> None]
  /\ before = [b \in Builds |-> <<None, None>>]
  /\ lost = [b \in Builds |-> FALSE]

Goes(b, from, to) == at[b] = from /\ at' = [at EXCEPT ![b] = to]

(* What a build knows of itself from the start on.                         *)
plan == <<kind, image, before>>

-----------------------------------------------------------------------------
(* Up to the built image.                                                  *)

(* The plan, the checks and the work directory.  An offline build needs a  *)
(* lock, and makes what it describes now.                                  *)
Start(b, how) ==
  /\ Goes(b, "new", "working")
  /\ how = "offline" => lock # None
  /\ kind' = [kind EXCEPT ![b] = how]
  /\ image' = [image EXCEPT ![b] = IF how = "online" THEN b ELSE lock]
  /\ workDir' = [workDir EXCEPT ![b] = TRUE]
  /\ before' = [before EXCEPT ![b] = <<lock, output>>]
  /\ UNCHANGED <<lock, output, lockTemp, outTemp, work, tempLock, staged,
                 previous, lost, torn>>

(* Any of the checks before the work directory exists refuses the build.   *)
Refuse(b) ==
  /\ Goes(b, "new", "refused")
  /\ UNCHANGED <<lock, output, lockTemp, outTemp, plan, work, workDir,
                 tempLock, staged, previous, lost, torn>>

(* The bootstrap, and for a disk recipe the assembly, succeed.             *)
Bootstrap(b) ==
  /\ Goes(b, "working", "built")
  /\ work' = [work EXCEPT ![b] = image[b]]
  /\ UNCHANGED <<lock, output, lockTemp, outTemp, plan, workDir, tempLock,
                 staged, previous, lost, torn>>

(* Offline, the image lists what the lock does.                            *)
CheckAgainstLock(b) ==
  /\ kind[b] = "offline"
  /\ Goes(b, "built", "ready")
  /\ UNCHANGED <<lock, output, lockTemp, outTemp, plan, work, workDir,
                 tempLock, staged, previous, lost, torn>>

-----------------------------------------------------------------------------
(* Temporary files.                                                        *)

(* export.CreateTemp: O_EXCL, so a name in use is passed over.             *)
AnyName(files, n) == n \in Names
UnusedName(files, n) == n \in Names /\ files[n] = None

(* Every os.Remove of an undoing is best effort: it may leave the file.    *)
Removed(files, n, gone) ==
  [files EXCEPT ![n] = IF gone THEN None ELSE files[n]]
Undone(b, gone) == lost' = [lost EXCEPT ![b] = lost[b] \/ ~gone]

(* writeTemporaryLock: the name is claimed, then the lock is written.      *)
ClaimTempLock(b, n) ==
  /\ kind[b] = "online" /\ UnusedName(lockTemp, n)
  /\ Goes(b, "built", "lockClaimed")
  /\ lockTemp' = [lockTemp EXCEPT ![n] = Empty]
  /\ tempLock' = [tempLock EXCEPT ![b] = n]
  /\ UNCHANGED <<lock, output, outTemp, plan, work, workDir, staged,
                 previous, lost, torn>>

WriteTempLock(b) ==
  /\ Goes(b, "lockClaimed", "ready")
  /\ lockTemp' = [lockTemp EXCEPT ![tempLock[b]] = b]
  /\ UNCHANGED <<lock, output, outTemp, plan, work, workDir, tempLock,
                 staged, previous, lost, torn>>

(* The write fails: writeTemporaryLock removes the file itself.            *)
CannotWriteTempLock(b, gone) ==
  /\ Goes(b, "lockClaimed", "failing")
  /\ lockTemp' = Removed(lockTemp, tempLock[b], gone)
  /\ tempLock' = [tempLock EXCEPT ![b] = NoName]
  /\ Undone(b, gone)
  /\ UNCHANGED <<lock, output, outTemp, plan, work, workDir, staged,
                 previous, torn>>

(* export.Stage claims a name beside the destination...                    *)
ClaimStage(b, n) ==
  /\ UnusedName(outTemp, n)
  /\ Goes(b, "ready", "claimed")
  /\ outTemp' = [outTemp EXCEPT ![n] = Empty]
  /\ staged' = [staged EXCEPT ![b] = n]
  /\ UNCHANGED <<lock, output, lockTemp, plan, work, workDir, tempLock,
                 previous, lost, torn>>

(* ...and renames the image over the claim, or across filesystems copies   *)
(* it there and syncs it, which leaves the source where it is.             *)
StageOutput(b, copies) ==
  /\ Goes(b, "claimed", "staged")
  /\ outTemp' = [outTemp EXCEPT ![staged[b]] = work[b]]
  /\ work' = IF copies THEN work ELSE [work EXCEPT ![b] = None]
  /\ UNCHANGED <<lock, output, lockTemp, plan, workDir, tempLock, staged,
                 previous, lost, torn>>

(* Neither works: Stage removes its claim, the source is still there.      *)
CannotStage(b, gone) ==
  /\ Goes(b, "claimed", "failing")
  /\ outTemp' = Removed(outTemp, staged[b], gone)
  /\ staged' = [staged EXCEPT ![b] = NoName]
  /\ Undone(b, gone)
  /\ UNCHANGED <<lock, output, lockTemp, plan, work, workDir, tempLock,
                 previous, torn>>

-----------------------------------------------------------------------------
(* Into place.                                                             *)

(* The lock's bytes are kept, to be put back should the image not land.    *)
ReadPrevious(b) ==
  /\ kind[b] = "online"
  /\ Goes(b, "staged", "previousRead")
  /\ previous' = [previous EXCEPT ![b] = lock]
  /\ UNCHANGED <<lock, output, lockTemp, outTemp, plan, work, workDir,
                 tempLock, staged, lost, torn>>

RenameLock(b) ==
  /\ Goes(b, "previousRead", "lockPlaced")
  /\ lock' = lockTemp[tempLock[b]]
  /\ lockTemp' = [lockTemp EXCEPT ![tempLock[b]] = None]
  /\ tempLock' = [tempLock EXCEPT ![b] = NoName]
  /\ UNCHANGED <<output, outTemp, plan, work, workDir, staged, previous,
                 lost, torn>>

(* Where the image's rename is due: after the lock's, or offline after the *)
(* staging.  ImageFirst is the order the comment tells the history of.     *)
ImageFirst(b) == at[b] \in {"staged", "lockPlaced"}
ImageIsDue(b) ==
  \/ at[b] = "lockPlaced"
  \/ at[b] = "staged" /\ kind[b] = "offline"

RenameOutput(b) ==
  /\ ImageIsDue(b)
  /\ at' = [at EXCEPT ![b] = "placed"]
  /\ output' = outTemp[staged[b]]
  /\ outTemp' = [outTemp EXCEPT ![staged[b]] = None]
  /\ staged' = [staged EXCEPT ![b] = NoName]
  /\ torn' = FALSE
  /\ UNCHANGED <<lock, lockTemp, plan, work, workDir, tempLock, previous,
                 lost>>

(* What is left of a copied image goes, and with it the work directory,    *)
(* unless --keep-work or an error keeps it: the build has succeeded.       *)
Finish(b, keepWork) ==
  /\ Goes(b, "placed", "done")
  /\ work' = [work EXCEPT ![b] = None]
  /\ workDir' = [workDir EXCEPT ![b] = keepWork]
  /\ UNCHANGED <<lock, output, lockTemp, outTemp, plan, tempLock, staged,
                 previous, lost, torn>>

-----------------------------------------------------------------------------
(* Failing: restoreLock and failBuild, best effort throughout.             *)

(* A step that has left nothing half done fails: the bootstrap, the lock's *)
(* comparison or composition, removing the disk tools, reading the         *)
(* previous lock, or the rename of the lock, or offline of the image.      *)
Fail(b) ==
  /\ at[b] \in {"working", "built", "ready", "staged", "previousRead"}
  /\ at' = [at EXCEPT ![b] = "failing"]
  /\ UNCHANGED <<lock, output, lockTemp, outTemp, plan, work, workDir,
                 tempLock, staged, previous, lost, torn>>

(* The image's rename fails after the lock's has happened.                 *)
LeaveTheLock(b) ==
  /\ Goes(b, "lockPlaced", "failing")
  /\ UNCHANGED <<lock, output, lockTemp, outTemp, plan, work, workDir,
                 tempLock, staged, previous, lost, torn>>
CannotRenameOutput(b) ==
  /\ Goes(b, "lockPlaced", "restoring")
  /\ UNCHANGED <<lock, output, lockTemp, outTemp, plan, work, workDir,
                 tempLock, staged, previous, lost, torn>>

(* What restoreLock does when there was no lock: remove the new one,       *)
(* whosever it is by now.                                                  *)
RemoveAnyLock(b) ==
  /\ Goes(b, "restoring", "failing")
  /\ lock' = None
  /\ UNCHANGED <<output, lockTemp, outTemp, plan, work, workDir, tempLock,
                 staged, previous, lost, torn>>
RemoveLock(b) ==
  /\ previous[b] = None
  /\ Goes(b, "restoring", "failing")
  /\ lock' = None
  /\ UNCHANGED <<output, lockTemp, outTemp, plan, work, workDir, tempLock,
                 staged, previous, lost, torn>>

(* And when there was one: its bytes go through a temporary file...        *)
ClaimRestore(b, n) ==
  /\ previous[b] # None /\ UnusedName(lockTemp, n)
  /\ Goes(b, "restoring", "restoreClaimed")
  /\ lockTemp' = [lockTemp EXCEPT ![n] = Empty]
  /\ tempLock' = [tempLock EXCEPT ![b] = n]
  /\ UNCHANGED <<lock, output, outTemp, plan, work, workDir, staged,
                 previous, lost, torn>>

(* ...which is written and renamed over the new lock.                      *)
PutLockBack(b) ==
  /\ Goes(b, "restoreClaimed", "failing")
  /\ lock' = previous[b]
  /\ lockTemp' = [lockTemp EXCEPT ![tempLock[b]] = None]
  /\ tempLock' = [tempLock EXCEPT ![b] = NoName]
  /\ UNCHANGED <<output, outTemp, plan, work, workDir, staged, previous,
                 lost, torn>>

(* None of it is certain: the new lock may stay without its image.         *)
CannotRestore(b, gone) ==
  /\ at[b] \in {"restoring", "restoreClaimed"}
  /\ at' = [at EXCEPT ![b] = "failing"]
  /\ lockTemp' = IF tempLock[b] = NoName THEN lockTemp
                 ELSE Removed(lockTemp, tempLock[b], gone)
  /\ tempLock' = [tempLock EXCEPT ![b] = NoName]
  /\ lost' = [lost EXCEPT ![b] = TRUE]
  /\ torn' = TRUE
  /\ UNCHANGED <<lock, output, outTemp, plan, work, workDir, staged,
                 previous>>

(* failBuild: the temporary lock goes, if there is one...                  *)
KeepTempLock(b, gone) ==
  /\ Goes(b, "failing", "unstaging")
  /\ tempLock' = [tempLock EXCEPT ![b] = NoName]
  /\ UNCHANGED <<lock, output, lockTemp, outTemp, plan, work, workDir,
                 staged, previous, lost, torn>>
DropTempLock(b, gone) ==
  /\ Goes(b, "failing", "unstaging")
  /\ IF tempLock[b] = NoName
     THEN UNCHANGED <<lockTemp, lost>>
     ELSE /\ lockTemp' = Removed(lockTemp, tempLock[b], gone)
          /\ Undone(b, gone)
  /\ tempLock' = [tempLock EXCEPT ![b] = NoName]
  /\ UNCHANGED <<lock, output, outTemp, plan, work, workDir, staged,
                 previous, torn>>

(* export.Unstage: a source that is still there was copied, so the staged  *)
(* file goes; otherwise it moves back.                                     *)
TakesNothingBack(b) == FALSE
TakesBack(b) == work[b] = None

(* ...and the staged image is undone, if there is one.                     *)
Unstage(b, moves, gone) ==
  /\ Goes(b, "unstaging", "failed")
  /\ IF staged[b] = NoName
     THEN UNCHANGED <<outTemp, work, lost>>
     ELSE IF TakesBack(b) /\ moves
     THEN /\ work' = [work EXCEPT ![b] = outTemp[staged[b]]]
          /\ outTemp' = [outTemp EXCEPT ![staged[b]] = None]
          /\ UNCHANGED lost
     ELSE /\ outTemp' = Removed(outTemp, staged[b], gone)
          /\ Undone(b, gone /\ ~TakesBack(b))
          /\ UNCHANGED work
  /\ staged' = [staged EXCEPT ![b] = NoName]
  /\ UNCHANGED <<lock, output, lockTemp, plan, workDir, tempLock, previous,
                 torn>>

(* The process is killed, or the machine goes down: files stay as they     *)
(* are, and no later build looks for them.                                 *)
Crash(b) ==
  /\ at[b] \in Active
  /\ at' = [at EXCEPT ![b] = "crashed"]
  /\ torn' = (torn \/ at[b] \in Window)
  /\ UNCHANGED <<lock, output, lockTemp, outTemp, plan, work, workDir,
                 tempLock, staged, previous, lost>>

-----------------------------------------------------------------------------
Begin(b) == Refuse(b) \/ \E how \in {"online", "offline"} : Start(b, how)

Succeed(b) ==
  \/ Bootstrap(b) \/ CheckAgainstLock(b)
  \/ \E n \in Names : ClaimTempLock(b, n) \/ ClaimStage(b, n)
  \/ WriteTempLock(b)
  \/ \E copies \in BOOLEAN : StageOutput(b, copies)
  \/ ReadPrevious(b) \/ RenameLock(b) \/ RenameOutput(b)
  \/ \E keepWork \in BOOLEAN : Finish(b, keepWork)

Undo(b) ==
  \/ Fail(b) \/ CannotRenameOutput(b) \/ RemoveLock(b) \/ PutLockBack(b)
  \/ \E n \in Names : ClaimRestore(b, n)
  \/ \E gone \in BOOLEAN :
       \/ CannotWriteTempLock(b, gone) \/ CannotStage(b, gone)
       \/ CannotRestore(b, gone) \/ DropTempLock(b, gone)
       \/ \E moves \in BOOLEAN : Unstage(b, moves, gone)

Step(b) == Begin(b) \/ Succeed(b) \/ Undo(b) \/ Crash(b)

(* Every build has ended, and there is no other.                           *)
Over == (\A b \in Builds : at[b] \in Ended) /\ UNCHANGED vars

Next == (\E b \in Builds : Step(b)) \/ Over

(* Any number of builds at once in one directory.                          *)
Spec == Init /\ [][Next]_vars

(* One build at a time, as the README asks for.                            *)
Alone(b) == \A c \in Builds \ {b} : at[c] \notin Active
SoloNext == (\E b \in Builds : Alone(b) /\ Step(b)) \/ Over
SoloSpec == Init /\ [][SoloNext]_vars

-----------------------------------------------------------------------------
(* Properties of any number of builds.                                     *)

(* No two builds write, rename or remove the same temporary file, while    *)
(* they run or after one was killed (writeTemporaryLock's "cannot delete   *)
(* or overwrite each other's temporary lock").                             *)
TempsAreExclusive ==
  \A b, c \in Builds : b # c =>
    /\ tempLock[b] # NoName => tempLock[b] # tempLock[c]
    /\ staged[b] # NoName => staged[b] # staged[c]

(* A temporary file left behind by everything that ended is a killed       *)
(* build's, or one whose removal failed ("a failed build writes ... no     *)
(* temporary file").                                                       *)
TempsAreAccountedFor ==
  (\A b \in Builds : ~lost[b]) =>
    \A n \in Names :
      /\ lockTemp[n] # None =>
           \E b \in Builds : tempLock[b] = n /\ at[b] \in Active \cup {"crashed"}
      /\ outTemp[n] # None =>
           \E b \in Builds : staged[b] = n /\ at[b] \in Active \cup {"crashed"}

(* What a bootstrap took minutes to make is never lost on the way: from    *)
(* then on it is whole in the work directory or beside its destination,    *)
(* until it is placed, whatever fails, is killed or runs at the same time. *)
(* Only an Unstage that can neither move nor keep it loses it; of a build  *)
(* whose lock could not be put back nothing is said from then on.          *)
Kept(b) ==
  /\ image[b] # None /\ workDir[b]
  /\ \/ work[b] = image[b]
     \/ staged[b] # NoName /\ outTemp[staged[b]] = image[b]
BuiltImageSurvives ==
  [][\A b \in Builds :
       Kept(b) /\ at[b] # "placed" =>
         Kept(b)' \/ at'[b] = "placed" \/ lost'[b]]_vars

(* The README of two builds at once: whichever finishes last wins.  So     *)
(* once an online build has succeeded, and all is quiet, the lock is that  *)
(* of a build that succeeded: one that failed wrote and removed none.      *)
Quiet == \A b \in Builds : at[b] \in Ended
LockIsAWinners ==
  (/\ Quiet
   /\ \A b \in Builds : at[b] # "crashed" /\ ~lost[b]
   /\ \E b \in Builds : at[b] = "done" /\ kind[b] = "online") =>
  lock \in {b \in Builds : at[b] = "done"}

-----------------------------------------------------------------------------
(* Properties of one build at a time.                                      *)

(* A build that fails leaves the lock and the image as it found them and   *)
(* keeps its work directory ("a failed build writes no lock, no tarball"). *)
FailedBuildLeavesAllAsItWas ==
  [][\A b \in Builds :
       at[b] # "failed" /\ at'[b] = "failed" /\ ~lost'[b] =>
         lock' = before[b][1] /\ output' = before[b][2] /\ workDir'[b]]_vars

(* The recipe directory as its user sees it, with the instant between the  *)
(* two renames counted as before the first.                                *)
InWindow == {b \in Builds : at[b] \in Window}
LandedLock ==
  IF InWindow = {} THEN lock ELSE previous[CHOOSE b \in InWindow : TRUE]
Directory == INSTANCE ImageAndLock WITH lock <- LandedLock
ImplementsImageAndLock == Directory!Spec

(* Outside that instant the image in dist/ is the one the lock describes,  *)
(* unless a build died in it, or could not put the lock back.              *)
LockDescribesImage == ~torn => LandedLock = output

-----------------------------------------------------------------------------
(* The inductive invariants.                                               *)

(* What a build holds at each step.                                        *)
Holding ==
  \A b \in Builds :
    /\ at[b] \notin {"new", "refused"} => image[b] \in Versions
    /\ at[b] = "new" => image[b] = None
    /\ work[b] \in {image[b], None}
    /\ at[b] \in Active => workDir[b] /\ (kind[b] = "online" => image[b] = b)
    /\ at[b] \in {"lockClaimed", "previousRead"} \cup Window =>
         kind[b] = "online"
    /\ at[b] = "restoreClaimed" => previous[b] # None
    /\ at[b] \in {"built", "lockClaimed", "ready", "claimed"} =>
         work[b] = image[b]

HoldingLock ==
  \A b \in Builds :
    /\ tempLock[b] # NoName => lockTemp[tempLock[b]] # None
    /\ at[b] \in {"lockClaimed", "restoreClaimed"} => tempLock[b] # NoName
    /\ (at[b] \in {"ready", "claimed", "staged", "previousRead"}
         /\ kind[b] = "online") =>
         tempLock[b] # NoName /\ lockTemp[tempLock[b]] = b
    /\ (at[b] \in {"ready", "claimed", "staged"} /\ kind[b] = "offline") =>
         tempLock[b] = NoName
    /\ at[b] \in {"new", "refused", "working", "built", "lockPlaced",
                  "restoring", "unstaging", "placed", "done", "failed"} =>
         tempLock[b] = NoName

HoldingImage ==
  \A b \in Builds :
    /\ staged[b] # NoName => outTemp[staged[b]] # None
    /\ at[b] \in {"claimed", "staged", "previousRead"} \cup Window =>
         staged[b] # NoName
    /\ staged[b] # NoName /\ at[b] \notin {"claimed", "crashed"} =>
         outTemp[staged[b]] = image[b]
    /\ at[b] \in {"new", "refused", "working", "built", "lockClaimed",
                  "ready", "placed", "done", "failed"} =>
         staged[b] = NoName

PlaceInv ==
  /\ TypeOK /\ TempsAreExclusive /\ TempsAreAccountedFor
  /\ Holding /\ HoldingLock /\ HoldingImage

(* What holds besides while builds run one at a time.                      *)
OneActive ==
  \A b, c \in Builds : at[b] \in Active /\ at[c] \in Active => b = c

NothingLanded ==
  \A b \in Builds :
    /\ at[b] \in Active \ {"placed"} => before[b][2] = output
    /\ at[b] \in Active \ (Window \cup {"placed"}) /\ ~lost[b] =>
         before[b][1] = lock
    /\ at[b] \in {"new"} \cup (Active \ {"failing", "unstaging"}) => ~lost[b]
    /\ at[b] \in Active /\ kind[b] = "offline" => image[b] = before[b][1]

InTheWindow ==
  \A b \in Builds :
    /\ at[b] \in Window => lock = b
    /\ at[b] \in Window \cup {"previousRead"} => previous[b] = before[b][1]

SoloInv ==
  PlaceInv /\ OneActive /\ NothingLanded /\ InTheWindow /\ LockDescribesImage
=============================================================================
