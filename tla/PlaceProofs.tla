---------------------------- MODULE PlaceProofs -----------------------------
(***************************************************************************)
(* Proofs about Place for any set of builds and of names.  PlaceInv is     *)
(* inductive for any number of builds at once; SoloInv, which adds what    *)
(* holds when they run one at a time, for SoloSpec.  Every action has a    *)
(* lemma for each, with a step for every part of the invariant.            *)
(***************************************************************************)
EXTENDS Place, TLAPS

-----------------------------------------------------------------------------
(* Any number of builds.                                                   *)

LEMMA InitInv == Init => PlaceInv
BY PlaceAssumption
   DEF Init, PlaceInv, TypeOK, TempsAreExclusive, TempsAreAccountedFor,
       Holding, HoldingLock, HoldingImage, Versions, Files, Active, Ended,
       Window

(* No check passed: only where the build is changes. *)
LEMMA RefuseInv ==
  ASSUME PlaceInv, NEW b \in Builds, Refuse(b)
  PROVE  PlaceInv'
<1> USE PlaceAssumption DEF Versions, Files, Active, Ended, Window
<1>1. TypeOK'
  BY DEF Refuse, Goes, plan, PlaceInv, TypeOK
<1>2. TempsAreExclusive'
  BY DEF Refuse, Goes, plan, PlaceInv, TypeOK, TempsAreExclusive
<1>3. TempsAreAccountedFor'
  BY DEF Refuse, Goes, plan, PlaceInv, TypeOK, TempsAreAccountedFor,
         HoldingLock
<1>4. Holding'
  BY DEF Refuse, Goes, plan, PlaceInv, Holding
<1>5. HoldingLock'
  BY DEF Refuse, Goes, plan, PlaceInv, TypeOK, HoldingLock
<1>6. HoldingImage'
  BY DEF Refuse, Goes, plan, PlaceInv, TypeOK, HoldingImage
<1> QED BY <1>1, <1>2, <1>3, <1>4, <1>5, <1>6 DEF PlaceInv

(* A build starts, holding nothing yet. *)
LEMMA StartInv ==
  ASSUME PlaceInv, NEW b \in Builds, NEW how \in {"online", "offline"},
         Start(b, how)
  PROVE  PlaceInv'
<1> USE PlaceAssumption DEF Versions, Files, Active, Ended, Window
<1>1. TypeOK'
  BY DEF Start, Goes, PlaceInv, TypeOK
<1>2. TempsAreExclusive'
  BY DEF Start, Goes, plan, PlaceInv, TypeOK, TempsAreExclusive
<1>3. TempsAreAccountedFor'
  BY DEF Start, Goes, plan, PlaceInv, TypeOK, TempsAreAccountedFor, HoldingLock
<1>4. Holding'
  BY DEF Start, Goes, plan, PlaceInv, TypeOK, Holding
<1>5. HoldingLock'
  BY DEF Start, Goes, plan, PlaceInv, TypeOK, HoldingLock
<1>6. HoldingImage'
  BY DEF Start, Goes, plan, PlaceInv, TypeOK, HoldingImage
<1> QED BY <1>1, <1>2, <1>3, <1>4, <1>5, <1>6 DEF PlaceInv

(* The image appears in the work directory. *)
LEMMA BootstrapInv ==
  ASSUME PlaceInv, NEW b \in Builds, Bootstrap(b)
  PROVE  PlaceInv'
<1> USE PlaceAssumption DEF Versions, Files, Active, Ended, Window
<1>1. TypeOK'
  BY DEF Bootstrap, Goes, plan, PlaceInv, TypeOK
<1>2. TempsAreExclusive'
  BY DEF Bootstrap, Goes, plan, PlaceInv, TypeOK, TempsAreExclusive
<1>3. TempsAreAccountedFor'
  BY DEF Bootstrap, Goes, plan, PlaceInv, TypeOK, TempsAreAccountedFor,
         HoldingLock
<1>4. Holding'
  BY DEF Bootstrap, Goes, plan, PlaceInv, TypeOK, Holding
<1>5. HoldingLock'
  BY DEF Bootstrap, Goes, plan, PlaceInv, TypeOK, HoldingLock
<1>6. HoldingImage'
  BY DEF Bootstrap, Goes, plan, PlaceInv, TypeOK, HoldingImage
<1> QED BY <1>1, <1>2, <1>3, <1>4, <1>5, <1>6 DEF PlaceInv

(* An offline image agrees with its lock. *)
LEMMA CheckAgainstLockInv ==
  ASSUME PlaceInv, NEW b \in Builds, CheckAgainstLock(b)
  PROVE  PlaceInv'
<1> USE PlaceAssumption DEF Versions, Files, Active, Ended, Window
<1>1. TypeOK'
  BY DEF CheckAgainstLock, Goes, plan, PlaceInv, TypeOK
<1>2. TempsAreExclusive'
  BY DEF CheckAgainstLock, Goes, plan, PlaceInv, TypeOK, TempsAreExclusive
<1>3. TempsAreAccountedFor'
  BY DEF CheckAgainstLock, Goes, plan, PlaceInv, TypeOK, TempsAreAccountedFor,
         HoldingLock
<1>4. Holding'
  BY DEF CheckAgainstLock, Goes, plan, PlaceInv, Holding
<1>5. HoldingLock'
  BY DEF CheckAgainstLock, Goes, plan, PlaceInv, TypeOK, HoldingLock
<1>6. HoldingImage'
  BY DEF CheckAgainstLock, Goes, plan, PlaceInv, TypeOK, HoldingImage
<1> QED BY <1>1, <1>2, <1>3, <1>4, <1>5, <1>6 DEF PlaceInv

(* A free name becomes a temporary lock's. *)
LEMMA ClaimTempLockInv ==
  ASSUME PlaceInv, NEW b \in Builds, NEW n \in Names, ClaimTempLock(b, n)
  PROVE  PlaceInv'
<1> USE PlaceAssumption DEF Versions, Files, Active, Ended, Window
<1>1. TypeOK'
  BY DEF ClaimTempLock, UnusedName, Goes, plan, PlaceInv, TypeOK
<1>2. TempsAreExclusive'
  BY DEF ClaimTempLock, UnusedName, Goes, plan, PlaceInv, TypeOK,
         TempsAreExclusive, HoldingLock
<1>3. TempsAreAccountedFor'
  BY DEF ClaimTempLock, UnusedName, Goes, plan, PlaceInv, TypeOK,
         TempsAreAccountedFor, HoldingLock
<1>4. Holding'
  BY DEF ClaimTempLock, UnusedName, Goes, plan, PlaceInv, Holding
<1>5. HoldingLock'
  BY DEF ClaimTempLock, UnusedName, Goes, plan, PlaceInv, TypeOK, HoldingLock
<1>6. HoldingImage'
  BY DEF ClaimTempLock, UnusedName, Goes, plan, PlaceInv, TypeOK, HoldingImage
<1> QED BY <1>1, <1>2, <1>3, <1>4, <1>5, <1>6 DEF PlaceInv

(* The temporary lock is filled. *)
LEMMA WriteTempLockInv ==
  ASSUME PlaceInv, NEW b \in Builds, WriteTempLock(b)
  PROVE  PlaceInv'
<1> USE PlaceAssumption DEF Versions, Files, Active, Ended, Window
<1>1. TypeOK'
  BY DEF WriteTempLock, Goes, plan, PlaceInv, TypeOK
<1>2. TempsAreExclusive'
  BY DEF WriteTempLock, Goes, plan, PlaceInv, TypeOK, TempsAreExclusive
<1>3. TempsAreAccountedFor'
  BY DEF WriteTempLock, Goes, plan, PlaceInv, TypeOK, TempsAreAccountedFor,
         HoldingLock
<1>4. Holding'
  BY DEF WriteTempLock, Goes, plan, PlaceInv, Holding
<1>5. HoldingLock'
  BY DEF WriteTempLock, Goes, plan, PlaceInv, TypeOK, HoldingLock,
         TempsAreExclusive, Holding
<1>6. HoldingImage'
  BY DEF WriteTempLock, Goes, plan, PlaceInv, TypeOK, HoldingImage
<1> QED BY <1>1, <1>2, <1>3, <1>4, <1>5, <1>6 DEF PlaceInv

(* The temporary lock is given up. *)
LEMMA CannotWriteTempLockInv ==
  ASSUME PlaceInv, NEW b \in Builds, NEW gone \in BOOLEAN,
         CannotWriteTempLock(b, gone)
  PROVE  PlaceInv'
<1> USE PlaceAssumption DEF Versions, Files, Active, Ended, Window
<1>1. TypeOK'
  BY DEF CannotWriteTempLock, Removed, Undone, Goes, plan, PlaceInv, TypeOK
<1>2. TempsAreExclusive'
  BY DEF CannotWriteTempLock, Removed, Undone, Goes, plan, PlaceInv, TypeOK,
         TempsAreExclusive
<1>3. TempsAreAccountedFor'
  BY DEF CannotWriteTempLock, Removed, Undone, Goes, plan, PlaceInv, TypeOK,
         TempsAreAccountedFor, HoldingLock, Holding
<1>4. Holding'
  BY DEF CannotWriteTempLock, Removed, Undone, Goes, plan, PlaceInv, Holding
<1>5. HoldingLock'
  BY DEF CannotWriteTempLock, Removed, Undone, Goes, plan, PlaceInv, TypeOK,
         HoldingLock, TempsAreExclusive
<1>6. HoldingImage'
  BY DEF CannotWriteTempLock, Removed, Undone, Goes, plan, PlaceInv, TypeOK,
         HoldingImage
<1> QED BY <1>1, <1>2, <1>3, <1>4, <1>5, <1>6 DEF PlaceInv

(* A free name becomes a staged image's. *)
LEMMA ClaimStageInv ==
  ASSUME PlaceInv, NEW b \in Builds, NEW n \in Names, ClaimStage(b, n)
  PROVE  PlaceInv'
<1> USE PlaceAssumption DEF Versions, Files, Active, Ended, Window
<1>1. TypeOK'
  BY DEF ClaimStage, UnusedName, Goes, plan, PlaceInv, TypeOK
<1>2. TempsAreExclusive'
  BY DEF ClaimStage, UnusedName, Goes, plan, PlaceInv, TypeOK,
         TempsAreExclusive, HoldingImage
<1>3. TempsAreAccountedFor'
  BY DEF ClaimStage, UnusedName, Goes, plan, PlaceInv, TypeOK,
         TempsAreAccountedFor, HoldingLock, HoldingImage
<1>4. Holding'
  BY DEF ClaimStage, UnusedName, Goes, plan, PlaceInv, Holding
<1>5. HoldingLock'
  BY DEF ClaimStage, UnusedName, Goes, plan, PlaceInv, TypeOK, HoldingLock
<1>6. HoldingImage'
  BY DEF ClaimStage, UnusedName, Goes, plan, PlaceInv, TypeOK, HoldingImage
<1> QED BY <1>1, <1>2, <1>3, <1>4, <1>5, <1>6 DEF PlaceInv

(* The image arrives beside its destination. *)
LEMMA StageOutputInv ==
  ASSUME PlaceInv, NEW b \in Builds, NEW copies \in BOOLEAN,
         StageOutput(b, copies)
  PROVE  PlaceInv'
<1> USE PlaceAssumption DEF Versions, Files, Active, Ended, Window
<1>1. TypeOK'
  BY DEF StageOutput, Goes, plan, PlaceInv, TypeOK
<1>2. TempsAreExclusive'
  BY DEF StageOutput, Goes, plan, PlaceInv, TypeOK, TempsAreExclusive
<1>3. TempsAreAccountedFor'
  BY DEF StageOutput, Goes, plan, PlaceInv, TypeOK, TempsAreAccountedFor,
         HoldingLock
<1>4. Holding'
  BY DEF StageOutput, Goes, plan, PlaceInv, TypeOK, Holding
<1>5. HoldingLock'
  BY DEF StageOutput, Goes, plan, PlaceInv, TypeOK, HoldingLock
<1>6. HoldingImage'
  BY DEF StageOutput, Goes, plan, PlaceInv, TypeOK, HoldingImage,
         TempsAreExclusive, Holding
<1> QED BY <1>1, <1>2, <1>3, <1>4, <1>5, <1>6 DEF PlaceInv

(* The claim beside the destination is given up. *)
LEMMA CannotStageInv ==
  ASSUME PlaceInv, NEW b \in Builds, NEW gone \in BOOLEAN, CannotStage(b, gone)
  PROVE  PlaceInv'
<1> USE PlaceAssumption DEF Versions, Files, Active, Ended, Window
<1>1. TypeOK'
  BY DEF CannotStage, Removed, Undone, Goes, plan, PlaceInv, TypeOK
<1>2. TempsAreExclusive'
  BY DEF CannotStage, Removed, Undone, Goes, plan, PlaceInv, TypeOK,
         TempsAreExclusive
<1>3. TempsAreAccountedFor'
  BY DEF CannotStage, Removed, Undone, Goes, plan, PlaceInv, TypeOK,
         TempsAreAccountedFor, HoldingLock, Holding
<1>4. Holding'
  BY DEF CannotStage, Removed, Undone, Goes, plan, PlaceInv, Holding
<1>5. HoldingLock'
  BY DEF CannotStage, Removed, Undone, Goes, plan, PlaceInv, TypeOK,
         HoldingLock
<1>6. HoldingImage'
  BY DEF CannotStage, Removed, Undone, Goes, plan, PlaceInv, TypeOK,
         HoldingImage, TempsAreExclusive
<1> QED BY <1>1, <1>2, <1>3, <1>4, <1>5, <1>6 DEF PlaceInv

(* The lock's bytes are kept. *)
LEMMA ReadPreviousInv ==
  ASSUME PlaceInv, NEW b \in Builds, ReadPrevious(b)
  PROVE  PlaceInv'
<1> USE PlaceAssumption DEF Versions, Files, Active, Ended, Window
<1>1. TypeOK'
  BY DEF ReadPrevious, Goes, plan, PlaceInv, TypeOK
<1>2. TempsAreExclusive'
  BY DEF ReadPrevious, Goes, plan, PlaceInv, TypeOK, TempsAreExclusive
<1>3. TempsAreAccountedFor'
  BY DEF ReadPrevious, Goes, plan, PlaceInv, TypeOK, TempsAreAccountedFor,
         HoldingLock
<1>4. Holding'
  BY DEF ReadPrevious, Goes, plan, PlaceInv, Holding
<1>5. HoldingLock'
  BY DEF ReadPrevious, Goes, plan, PlaceInv, TypeOK, HoldingLock
<1>6. HoldingImage'
  BY DEF ReadPrevious, Goes, plan, PlaceInv, TypeOK, HoldingImage
<1> QED BY <1>1, <1>2, <1>3, <1>4, <1>5, <1>6 DEF PlaceInv

(* The temporary lock becomes the lock. *)
LEMMA RenameLockInv ==
  ASSUME PlaceInv, NEW b \in Builds, RenameLock(b)
  PROVE  PlaceInv'
<1> USE PlaceAssumption DEF Versions, Files, Active, Ended, Window
<1>1. TypeOK'
  BY DEF RenameLock, Goes, plan, PlaceInv, TypeOK, HoldingLock, Holding
<1>2. TempsAreExclusive'
  BY DEF RenameLock, Goes, plan, PlaceInv, TypeOK, TempsAreExclusive
<1>3. TempsAreAccountedFor'
  BY DEF RenameLock, Goes, plan, PlaceInv, TypeOK, TempsAreAccountedFor,
         HoldingLock
<1>4. Holding'
  BY DEF RenameLock, Goes, plan, PlaceInv, Holding
<1>5. HoldingLock'
  BY DEF RenameLock, Goes, plan, PlaceInv, TypeOK, HoldingLock,
         TempsAreExclusive
<1>6. HoldingImage'
  BY DEF RenameLock, Goes, plan, PlaceInv, TypeOK, HoldingImage
<1> QED BY <1>1, <1>2, <1>3, <1>4, <1>5, <1>6 DEF PlaceInv

(* The staged image becomes the output. *)
LEMMA RenameOutputInv ==
  ASSUME PlaceInv, NEW b \in Builds, RenameOutput(b)
  PROVE  PlaceInv'
<1> USE PlaceAssumption DEF Versions, Files, Active, Ended, Window
<1>1. TypeOK'
  BY DEF RenameOutput, ImageIsDue, plan, PlaceInv, TypeOK, HoldingImage
<1>2. TempsAreExclusive'
  BY DEF RenameOutput, ImageIsDue, plan, PlaceInv, TypeOK, TempsAreExclusive
<1>3. TempsAreAccountedFor'
  BY DEF RenameOutput, ImageIsDue, plan, PlaceInv, TypeOK,
         TempsAreAccountedFor, HoldingLock
<1>4. Holding'
  BY DEF RenameOutput, ImageIsDue, plan, PlaceInv, Holding
<1>5. HoldingLock'
  BY DEF RenameOutput, ImageIsDue, plan, PlaceInv, TypeOK, HoldingLock
<1>6. HoldingImage'
  BY DEF RenameOutput, ImageIsDue, plan, PlaceInv, TypeOK, HoldingImage,
         TempsAreExclusive
<1> QED BY <1>1, <1>2, <1>3, <1>4, <1>5, <1>6 DEF PlaceInv

(* A successful build tidies its work directory. *)
LEMMA FinishInv ==
  ASSUME PlaceInv, NEW b \in Builds, NEW keepWork \in BOOLEAN,
         Finish(b, keepWork)
  PROVE  PlaceInv'
<1> USE PlaceAssumption DEF Versions, Files, Active, Ended, Window
<1>1. TypeOK'
  BY DEF Finish, Goes, plan, PlaceInv, TypeOK
<1>2. TempsAreExclusive'
  BY DEF Finish, Goes, plan, PlaceInv, TypeOK, TempsAreExclusive
<1>3. TempsAreAccountedFor'
  BY DEF Finish, Goes, plan, PlaceInv, TypeOK, TempsAreAccountedFor,
         HoldingLock, HoldingImage
<1>4. Holding'
  BY DEF Finish, Goes, plan, PlaceInv, TypeOK, Holding
<1>5. HoldingLock'
  BY DEF Finish, Goes, plan, PlaceInv, TypeOK, HoldingLock
<1>6. HoldingImage'
  BY DEF Finish, Goes, plan, PlaceInv, TypeOK, HoldingImage
<1> QED BY <1>1, <1>2, <1>3, <1>4, <1>5, <1>6 DEF PlaceInv

(* A build begins to fail. *)
LEMMA FailInv ==
  ASSUME PlaceInv, NEW b \in Builds, Fail(b)
  PROVE  PlaceInv'
<1> USE PlaceAssumption DEF Versions, Files, Active, Ended, Window
<1>1. TypeOK'
  BY DEF Fail, plan, PlaceInv, TypeOK
<1>2. TempsAreExclusive'
  BY DEF Fail, plan, PlaceInv, TypeOK, TempsAreExclusive
<1>3. TempsAreAccountedFor'
  BY DEF Fail, plan, PlaceInv, TypeOK, TempsAreAccountedFor, HoldingLock
<1>4. Holding'
  BY DEF Fail, plan, PlaceInv, Holding
<1>5. HoldingLock'
  BY DEF Fail, plan, PlaceInv, TypeOK, HoldingLock
<1>6. HoldingImage'
  BY DEF Fail, plan, PlaceInv, TypeOK, HoldingImage
<1> QED BY <1>1, <1>2, <1>3, <1>4, <1>5, <1>6 DEF PlaceInv

(* The image's rename fails. *)
LEMMA CannotRenameOutputInv ==
  ASSUME PlaceInv, NEW b \in Builds, CannotRenameOutput(b)
  PROVE  PlaceInv'
<1> USE PlaceAssumption DEF Versions, Files, Active, Ended, Window
<1>1. TypeOK'
  BY DEF CannotRenameOutput, Goes, plan, PlaceInv, TypeOK
<1>2. TempsAreExclusive'
  BY DEF CannotRenameOutput, Goes, plan, PlaceInv, TypeOK, TempsAreExclusive
<1>3. TempsAreAccountedFor'
  BY DEF CannotRenameOutput, Goes, plan, PlaceInv, TypeOK,
         TempsAreAccountedFor, HoldingLock
<1>4. Holding'
  BY DEF CannotRenameOutput, Goes, plan, PlaceInv, Holding
<1>5. HoldingLock'
  BY DEF CannotRenameOutput, Goes, plan, PlaceInv, TypeOK, HoldingLock
<1>6. HoldingImage'
  BY DEF CannotRenameOutput, Goes, plan, PlaceInv, TypeOK, HoldingImage
<1> QED BY <1>1, <1>2, <1>3, <1>4, <1>5, <1>6 DEF PlaceInv

(* The new lock is removed. *)
LEMMA RemoveLockInv ==
  ASSUME PlaceInv, NEW b \in Builds, RemoveLock(b)
  PROVE  PlaceInv'
<1> USE PlaceAssumption DEF Versions, Files, Active, Ended, Window
<1>1. TypeOK'
  BY DEF RemoveLock, Goes, plan, PlaceInv, TypeOK
<1>2. TempsAreExclusive'
  BY DEF RemoveLock, Goes, plan, PlaceInv, TypeOK, TempsAreExclusive
<1>3. TempsAreAccountedFor'
  BY DEF RemoveLock, Goes, plan, PlaceInv, TypeOK, TempsAreAccountedFor,
         HoldingLock
<1>4. Holding'
  BY DEF RemoveLock, Goes, plan, PlaceInv, Holding
<1>5. HoldingLock'
  BY DEF RemoveLock, Goes, plan, PlaceInv, TypeOK, HoldingLock
<1>6. HoldingImage'
  BY DEF RemoveLock, Goes, plan, PlaceInv, TypeOK, HoldingImage
<1> QED BY <1>1, <1>2, <1>3, <1>4, <1>5, <1>6 DEF PlaceInv

(* A free name is taken to put the lock back. *)
LEMMA ClaimRestoreInv ==
  ASSUME PlaceInv, NEW b \in Builds, NEW n \in Names, ClaimRestore(b, n)
  PROVE  PlaceInv'
<1> USE PlaceAssumption DEF Versions, Files, Active, Ended, Window
<1>1. TypeOK'
  BY DEF ClaimRestore, UnusedName, Goes, plan, PlaceInv, TypeOK
<1>2. TempsAreExclusive'
  BY DEF ClaimRestore, UnusedName, Goes, plan, PlaceInv, TypeOK,
         TempsAreExclusive, HoldingLock
<1>3. TempsAreAccountedFor'
  BY DEF ClaimRestore, UnusedName, Goes, plan, PlaceInv, TypeOK,
         TempsAreAccountedFor, HoldingLock
<1>4. Holding'
  BY DEF ClaimRestore, UnusedName, Goes, plan, PlaceInv, Holding
<1>5. HoldingLock'
  BY DEF ClaimRestore, UnusedName, Goes, plan, PlaceInv, TypeOK, HoldingLock
<1>6. HoldingImage'
  BY DEF ClaimRestore, UnusedName, Goes, plan, PlaceInv, TypeOK, HoldingImage
<1> QED BY <1>1, <1>2, <1>3, <1>4, <1>5, <1>6 DEF PlaceInv

(* The previous lock is put back. *)
LEMMA PutLockBackInv ==
  ASSUME PlaceInv, NEW b \in Builds, PutLockBack(b)
  PROVE  PlaceInv'
<1> USE PlaceAssumption DEF Versions, Files, Active, Ended, Window
<1>1. TypeOK'
  BY DEF PutLockBack, Goes, plan, PlaceInv, TypeOK
<1>2. TempsAreExclusive'
  BY DEF PutLockBack, Goes, plan, PlaceInv, TypeOK, TempsAreExclusive
<1>3. TempsAreAccountedFor'
  BY DEF PutLockBack, Goes, plan, PlaceInv, TypeOK, TempsAreAccountedFor,
         HoldingLock
<1>4. Holding'
  BY DEF PutLockBack, Goes, plan, PlaceInv, Holding
<1>5. HoldingLock'
  BY DEF PutLockBack, Goes, plan, PlaceInv, TypeOK, HoldingLock,
         TempsAreExclusive
<1>6. HoldingImage'
  BY DEF PutLockBack, Goes, plan, PlaceInv, TypeOK, HoldingImage
<1> QED BY <1>1, <1>2, <1>3, <1>4, <1>5, <1>6 DEF PlaceInv

(* The lock cannot be put back. *)
LEMMA CannotRestoreInv ==
  ASSUME PlaceInv, NEW b \in Builds, NEW gone \in BOOLEAN,
         CannotRestore(b, gone)
  PROVE  PlaceInv'
<1> USE PlaceAssumption DEF Versions, Files, Active, Ended, Window
<1>1. TypeOK'
  BY DEF CannotRestore, Removed, plan, PlaceInv, TypeOK
<1>2. TempsAreExclusive'
  BY DEF CannotRestore, Removed, plan, PlaceInv, TypeOK, TempsAreExclusive
<1>3. TempsAreAccountedFor'
  BY DEF CannotRestore, Removed, plan, PlaceInv, TypeOK, TempsAreAccountedFor,
         HoldingLock
<1>4. Holding'
  BY DEF CannotRestore, Removed, plan, PlaceInv, Holding
<1>5. HoldingLock'
  BY DEF CannotRestore, Removed, plan, PlaceInv, TypeOK, HoldingLock,
         TempsAreExclusive
<1>6. HoldingImage'
  BY DEF CannotRestore, Removed, plan, PlaceInv, TypeOK, HoldingImage
<1> QED BY <1>1, <1>2, <1>3, <1>4, <1>5, <1>6 DEF PlaceInv

(* A failing build drops its temporary lock. *)
LEMMA DropTempLockInv ==
  ASSUME PlaceInv, NEW b \in Builds, NEW gone \in BOOLEAN,
         DropTempLock(b, gone)
  PROVE  PlaceInv'
<1> USE PlaceAssumption DEF Versions, Files, Active, Ended, Window
<1>1. TypeOK'
  <2>1. CASE tempLock[b] = NoName
    BY <2>1 DEF DropTempLock, Goes, plan, PlaceInv, TypeOK
  <2>2. CASE tempLock[b] # NoName
    <3>1. (lost[b] \/ ~gone) \in BOOLEAN
      OBVIOUS
    <3>2. lost' \in [Builds -> BOOLEAN]
      BY <2>2, <3>1, Zenon DEF DropTempLock, Undone, PlaceInv, TypeOK
    <3>3. lockTemp' \in [Names -> Files \cup {Empty}]
      BY <2>2 DEF DropTempLock, Removed, PlaceInv, TypeOK
    <3> QED
      BY <3>2, <3>3 DEF DropTempLock, Goes, plan, PlaceInv, TypeOK
  <2> QED BY <2>1, <2>2
<1>2. TempsAreExclusive'
  BY DEF DropTempLock, Removed, Undone, Goes, plan, PlaceInv, TypeOK,
         TempsAreExclusive
<1>3. TempsAreAccountedFor'
  BY DEF DropTempLock, Removed, Undone, Goes, plan, PlaceInv, TypeOK,
         TempsAreAccountedFor, HoldingLock, Holding
<1>4. Holding'
  BY DEF DropTempLock, Removed, Undone, Goes, plan, PlaceInv, Holding
<1>5. HoldingLock'
  BY DEF DropTempLock, Removed, Undone, Goes, plan, PlaceInv, TypeOK,
         HoldingLock, TempsAreExclusive
<1>6. HoldingImage'
  BY DEF DropTempLock, Removed, Undone, Goes, plan, PlaceInv, TypeOK,
         HoldingImage
<1> QED BY <1>1, <1>2, <1>3, <1>4, <1>5, <1>6 DEF PlaceInv

(* A failing build takes its image back. *)
LEMMA UnstageInv ==
  ASSUME PlaceInv, NEW b \in Builds, NEW moves \in BOOLEAN,
         NEW gone \in BOOLEAN, Unstage(b, moves, gone)
  PROVE  PlaceInv'
<1> USE PlaceAssumption DEF Versions, Files, Active, Ended, Window
<1>1. TypeOK'
  BY DEF Unstage, Removed, Undone, TakesBack, Goes, plan, PlaceInv, TypeOK,
         HoldingImage, Holding
<1>2. TempsAreExclusive'
  BY DEF Unstage, Removed, Undone, TakesBack, Goes, plan, PlaceInv, TypeOK,
         TempsAreExclusive
<1>3. TempsAreAccountedFor'
  BY DEF Unstage, Removed, Undone, TakesBack, Goes, plan, PlaceInv, TypeOK,
         TempsAreAccountedFor, HoldingLock, Holding
<1>4. Holding'
  BY DEF Unstage, Removed, Undone, TakesBack, Goes, plan, PlaceInv, TypeOK,
         Holding, HoldingImage
<1>5. HoldingLock'
  BY DEF Unstage, Removed, Undone, TakesBack, Goes, plan, PlaceInv, TypeOK,
         HoldingLock
<1>6. HoldingImage'
  BY DEF Unstage, Removed, Undone, TakesBack, Goes, plan, PlaceInv, TypeOK,
         HoldingImage, TempsAreExclusive
<1> QED BY <1>1, <1>2, <1>3, <1>4, <1>5, <1>6 DEF PlaceInv

(* A killed build leaves its files. *)
LEMMA CrashInv ==
  ASSUME PlaceInv, NEW b \in Builds, Crash(b)
  PROVE  PlaceInv'
<1> USE PlaceAssumption DEF Versions, Files, Active, Ended, Window
<1>1. TypeOK'
  BY DEF Crash, plan, PlaceInv, TypeOK
<1>2. TempsAreExclusive'
  BY DEF Crash, plan, PlaceInv, TypeOK, TempsAreExclusive
<1>3. TempsAreAccountedFor'
  BY DEF Crash, plan, PlaceInv, TypeOK, TempsAreAccountedFor, HoldingLock
<1>4. Holding'
  BY DEF Crash, plan, PlaceInv, Holding
<1>5. HoldingLock'
  BY DEF Crash, plan, PlaceInv, TypeOK, HoldingLock
<1>6. HoldingImage'
  BY DEF Crash, plan, PlaceInv, TypeOK, HoldingImage
<1> QED BY <1>1, <1>2, <1>3, <1>4, <1>5, <1>6 DEF PlaceInv

-----------------------------------------------------------------------------
(* The properties of any number of builds.                                 *)

LEMMA StepInv == ASSUME PlaceInv, NEW b \in Builds, Step(b) PROVE PlaceInv'
<1>1. CASE Begin(b)
  BY <1>1, RefuseInv, StartInv DEF Begin
<1>2. CASE Succeed(b)
  BY <1>2, BootstrapInv, CheckAgainstLockInv, ClaimTempLockInv, ClaimStageInv,
     WriteTempLockInv, StageOutputInv, ReadPreviousInv, RenameLockInv,
     RenameOutputInv, FinishInv DEF Succeed
<1>3. CASE Undo(b)
  BY <1>3, FailInv, CannotRenameOutputInv, RemoveLockInv, PutLockBackInv,
     ClaimRestoreInv, CannotWriteTempLockInv, CannotStageInv,
     CannotRestoreInv, DropTempLockInv, UnstageInv DEF Undo
<1>4. CASE Crash(b)
  BY <1>4, CrashInv
<1> QED
  BY <1>1, <1>2, <1>3, <1>4 DEF Step

LEMMA StutterInv == PlaceInv /\ UNCHANGED vars => PlaceInv'
BY DEF vars, plan, PlaceInv, TypeOK, TempsAreExclusive, TempsAreAccountedFor,
       Holding, HoldingLock, HoldingImage

LEMMA NextInv == PlaceInv /\ [Next]_vars => PlaceInv'
BY StepInv, StutterInv DEF Next, Over

(* The invariant holds however many builds run at once.                    *)
THEOREM PlaceInvariant == Spec => []PlaceInv
BY InitInv, NextInv, PTL DEF Spec

(* writeTemporaryLock's and Stage's temporary files are never shared.      *)
THEOREM TempsAreExclusiveHolds == Spec => []TempsAreExclusive
<1>1. PlaceInv => TempsAreExclusive
  BY DEF PlaceInv
<1> QED
  BY <1>1, PlaceInvariant, PTL

(* A temporary file left behind is a killed build's, or could not be       *)
(* removed.                                                                *)
THEOREM TempsAreAccountedForHolds == Spec => []TempsAreAccountedFor
<1>1. PlaceInv => TempsAreAccountedFor
  BY DEF PlaceInv
<1> QED
  BY <1>1, PlaceInvariant, PTL

(* Whatever another build does leaves a kept image kept: it neither holds  *)
(* the same staged name nor touches another work directory.                *)
LEMMA OthersKeep ==
  ASSUME PlaceInv, NEW b \in Builds, Step(b), NEW c \in Builds, c # b, Kept(c)
  PROVE  Kept(c)'
<1> USE PlaceAssumption DEF Kept, PlaceInv, TypeOK, plan, Versions, Files
<1>1. staged[c] # NoName => staged[b] # staged[c]
  BY DEF TempsAreExclusive
<1>2. CASE Begin(b) \/ Crash(b)
  BY <1>2 DEF Begin, Refuse, Start, Crash
<1>3. CASE Succeed(b)
  BY <1>1, <1>3
     DEF Succeed, Bootstrap, CheckAgainstLock, ClaimTempLock, WriteTempLock,
         ClaimStage, UnusedName, StageOutput, ReadPrevious, RenameLock,
         RenameOutput, ImageIsDue, Finish, Goes, Holding, HoldingImage, Window
<1>4. CASE Undo(b)
  BY <1>1, <1>4
     DEF Undo, Fail, CannotRenameOutput, RemoveLock, ClaimRestore, PutLockBack,
         CannotWriteTempLock, CannotStage, CannotRestore, DropTempLock,
         Unstage, TakesBack, Removed, Goes, Holding, HoldingImage, Window
<1> QED
  BY <1>2, <1>3, <1>4 DEF Step

(* What a build does itself keeps its image too, until it is placed.       *)
LEMMA OwnKeep ==
  ASSUME PlaceInv, NEW b \in Builds, Step(b), Kept(b), at[b] # "placed"
  PROVE  Kept(b)' \/ at'[b] = "placed" \/ lost'[b]
<1> USE PlaceAssumption DEF Kept, PlaceInv, TypeOK, plan, Versions, Files
<1>2. CASE Begin(b) \/ Crash(b)
  BY <1>2 DEF Begin, Refuse, Start, Crash, Goes, Holding
<1>3. CASE Succeed(b)
  BY <1>3
     DEF Succeed, Bootstrap, CheckAgainstLock, ClaimTempLock, WriteTempLock,
         ClaimStage, UnusedName, StageOutput, ReadPrevious, RenameLock,
         RenameOutput, ImageIsDue, Finish, Goes, Holding, HoldingImage, Window
<1>4. CASE \E moves, gone \in BOOLEAN : Unstage(b, moves, gone)
  <2> PICK moves \in BOOLEAN, gone \in BOOLEAN : Unstage(b, moves, gone)
    BY <1>4
  <2>1. CASE staged[b] = NoName
    BY <2>1 DEF Unstage
  <2>2. CASE staged[b] # NoName /\ TakesBack(b) /\ moves
    BY <2>2 DEF Unstage, TakesBack
  <2>3. CASE staged[b] # NoName /\ TakesBack(b) /\ ~moves
    <3>1. lost' = [lost EXCEPT ![b] = lost[b] \/ ~(gone /\ ~TakesBack(b))]
      BY <2>3 DEF Unstage, Undone
    <3> QED
      BY <2>3, <3>1, Zenon DEF TypeOK
  <2>4. CASE staged[b] # NoName /\ ~TakesBack(b)
    BY <2>4 DEF Unstage, TakesBack, Holding
  <2> QED
    BY <2>1, <2>2, <2>3, <2>4
<1>5. CASE Undo(b) /\ ~\E moves, gone \in BOOLEAN : Unstage(b, moves, gone)
  BY <1>5
     DEF Undo, Fail, CannotRenameOutput, RemoveLock, ClaimRestore, PutLockBack,
         CannotWriteTempLock, CannotStage, CannotRestore, DropTempLock,
         Removed, Goes, Holding, HoldingImage
<1> QED
  BY <1>2, <1>3, <1>4, <1>5 DEF Step

(* A built image is never lost before it is placed, except by an Unstage   *)
(* that can neither move it back nor leave it.                             *)
THEOREM BuiltImageSurvivesHolds == Spec => BuiltImageSurvives
<1>1. PlaceInv /\ [Next]_vars =>
        [\A b \in Builds :
           Kept(b) /\ at[b] # "placed" =>
             Kept(b)' \/ at'[b] = "placed" \/ lost'[b]]_vars
  BY OthersKeep, OwnKeep DEF Next, Over
<1> QED
  BY <1>1, PlaceInvariant, PTL DEF Spec, BuiltImageSurvives

-----------------------------------------------------------------------------
(* One build at a time.                                                    *)

(* What a step must do while builds run one at a time: keep what SoloInv   *)
(* adds to PlaceInv, and be a step or a stutter of ImageAndLock.           *)
SoloStep ==
  /\ OneActive' /\ NothingLanded' /\ InTheWindow'
  /\ Directory!Next \/ UNCHANGED Directory!vars

(* LandedLock before and after a step of the one active build b.           *)
LEMMA LandedBefore ==
  ASSUME NEW b \in Builds, Alone(b)
  PROVE  LandedLock = IF at[b] \in Window THEN previous[b] ELSE lock
<1>1. \A c \in Builds \ {b} : at[c] \notin Window
  BY DEF Alone, Active, Window
<1>2. CASE at[b] \in Window
  <2>1. InWindow = {b}
    BY <1>1, <1>2 DEF InWindow
  <2> QED BY <2>1, <1>2 DEF LandedLock
<1>3. CASE at[b] \notin Window
  <2>1. InWindow = {}
    BY <1>1, <1>3 DEF InWindow
  <2> QED BY <2>1, <1>3 DEF LandedLock
<1> QED BY <1>2, <1>3

LEMMA LandedAfter ==
  ASSUME NEW b \in Builds, Alone(b),
         \A c \in Builds \ {b} : at'[c] = at[c]
  PROVE  LandedLock' = IF at'[b] \in Window THEN previous'[b] ELSE lock'
<1>1. \A c \in Builds \ {b} : at'[c] \notin Window
  BY DEF Alone, Active, Window
<1>2. CASE at'[b] \in Window
  <2>1. InWindow' = {b}
    BY <1>1, <1>2 DEF InWindow
  <2> QED BY <2>1, <1>2 DEF LandedLock
<1>3. CASE at'[b] \notin Window
  <2>1. InWindow' = {}
    BY <1>1, <1>3 DEF InWindow
  <2> QED BY <2>1, <1>3 DEF LandedLock
<1> QED BY <1>2, <1>3

(* Each action as a SoloStep: it stutters, except for the rename of the    *)
(* image (Replace or Rebuild) and what tears the directory (Tear).         *)
LEMMA RefuseSolo ==
  ASSUME SoloInv, NEW b \in Builds, Alone(b), Refuse(b)
  PROVE  SoloStep
<1> USE PlaceAssumption DEF Versions, Files, Active, Ended, Window
<1>1. \A c \in Builds \ {b} : at'[c] = at[c]
  BY DEF Refuse, Goes, plan
<1>2. OneActive'
  BY <1>1 DEF Refuse, Goes, plan, SoloInv, PlaceInv, OneActive
<1>3. NothingLanded'
  BY <1>1 DEF Refuse, Goes, plan, SoloInv, PlaceInv, TypeOK, Alone,
         NothingLanded
<1>4. InTheWindow'
  BY <1>1 DEF Refuse, Goes, plan, SoloInv, PlaceInv, TypeOK, Alone,
         NothingLanded, InTheWindow
<1>5. Directory!Next \/ UNCHANGED Directory!vars
  <2>1. LandedLock = IF at[b] \in Window THEN previous[b] ELSE lock
    BY LandedBefore
  <2>2. LandedLock' = IF at'[b] \in Window THEN previous'[b] ELSE lock'
    BY <1>1, LandedAfter
  <2> QED
    BY <2>1, <2>2 DEF Refuse, Goes, plan, SoloInv, PlaceInv, TypeOK,
           Directory!vars
<1> QED BY <1>2, <1>3, <1>4, <1>5 DEF SoloStep

LEMMA StartSolo ==
  ASSUME SoloInv, NEW b \in Builds, NEW how \in {"online", "offline"},
         Alone(b), Start(b, how)
  PROVE  SoloStep
<1> USE PlaceAssumption DEF Versions, Files, Active, Ended, Window
<1>1. \A c \in Builds \ {b} : at'[c] = at[c]
  BY DEF Start, Goes, plan
<1>2. OneActive'
  BY <1>1 DEF Start, Goes, plan, SoloInv, PlaceInv, Alone, OneActive
<1>3. NothingLanded'
  BY <1>1 DEF Start, Goes, plan, SoloInv, PlaceInv, TypeOK, Alone,
         NothingLanded
<1>4. InTheWindow'
  BY <1>1 DEF Start, Goes, plan, SoloInv, PlaceInv, TypeOK, Alone,
         NothingLanded, InTheWindow
<1>5. Directory!Next \/ UNCHANGED Directory!vars
  <2>1. LandedLock = IF at[b] \in Window THEN previous[b] ELSE lock
    BY LandedBefore
  <2>2. LandedLock' = IF at'[b] \in Window THEN previous'[b] ELSE lock'
    BY <1>1, LandedAfter
  <2> QED
    BY <2>1, <2>2 DEF Start, Goes, plan, SoloInv, PlaceInv, TypeOK,
           Directory!vars
<1> QED BY <1>2, <1>3, <1>4, <1>5 DEF SoloStep

LEMMA BootstrapSolo ==
  ASSUME SoloInv, NEW b \in Builds, Alone(b), Bootstrap(b)
  PROVE  SoloStep
<1> USE PlaceAssumption DEF Versions, Files, Active, Ended, Window
<1>1. \A c \in Builds \ {b} : at'[c] = at[c]
  BY DEF Bootstrap, Goes, plan
<1>2. OneActive'
  BY <1>1 DEF Bootstrap, Goes, plan, SoloInv, PlaceInv, OneActive
<1>3. NothingLanded'
  BY <1>1 DEF Bootstrap, Goes, plan, SoloInv, PlaceInv, TypeOK, Alone,
         NothingLanded
<1>4. InTheWindow'
  BY <1>1 DEF Bootstrap, Goes, plan, SoloInv, PlaceInv, TypeOK, Alone,
         NothingLanded, InTheWindow
<1>5. Directory!Next \/ UNCHANGED Directory!vars
  <2>1. LandedLock = IF at[b] \in Window THEN previous[b] ELSE lock
    BY LandedBefore
  <2>2. LandedLock' = IF at'[b] \in Window THEN previous'[b] ELSE lock'
    BY <1>1, LandedAfter
  <2> QED
    BY <2>1, <2>2 DEF Bootstrap, Goes, plan, SoloInv, PlaceInv, TypeOK,
           Directory!vars
<1> QED BY <1>2, <1>3, <1>4, <1>5 DEF SoloStep

LEMMA CheckAgainstLockSolo ==
  ASSUME SoloInv, NEW b \in Builds, Alone(b), CheckAgainstLock(b)
  PROVE  SoloStep
<1> USE PlaceAssumption DEF Versions, Files, Active, Ended, Window
<1>1. \A c \in Builds \ {b} : at'[c] = at[c]
  BY DEF CheckAgainstLock, Goes, plan
<1>2. OneActive'
  BY <1>1 DEF CheckAgainstLock, Goes, plan, SoloInv, PlaceInv, OneActive
<1>3. NothingLanded'
  BY <1>1 DEF CheckAgainstLock, Goes, plan, SoloInv, PlaceInv, TypeOK, Alone,
         NothingLanded
<1>4. InTheWindow'
  BY <1>1 DEF CheckAgainstLock, Goes, plan, SoloInv, PlaceInv, TypeOK, Alone,
         NothingLanded, InTheWindow
<1>5. Directory!Next \/ UNCHANGED Directory!vars
  <2>1. LandedLock = IF at[b] \in Window THEN previous[b] ELSE lock
    BY LandedBefore
  <2>2. LandedLock' = IF at'[b] \in Window THEN previous'[b] ELSE lock'
    BY <1>1, LandedAfter
  <2> QED
    BY <2>1, <2>2 DEF CheckAgainstLock, Goes, plan, SoloInv, PlaceInv, TypeOK,
           Directory!vars
<1> QED BY <1>2, <1>3, <1>4, <1>5 DEF SoloStep

LEMMA ClaimTempLockSolo ==
  ASSUME SoloInv, NEW b \in Builds, NEW n \in Names, Alone(b),
         ClaimTempLock(b, n)
  PROVE  SoloStep
<1> USE PlaceAssumption DEF Versions, Files, Active, Ended, Window
<1>1. \A c \in Builds \ {b} : at'[c] = at[c]
  BY DEF ClaimTempLock, UnusedName, Goes, plan
<1>2. OneActive'
  BY <1>1 DEF ClaimTempLock, UnusedName, Goes, plan, SoloInv, PlaceInv,
         OneActive
<1>3. NothingLanded'
  BY <1>1 DEF ClaimTempLock, UnusedName, Goes, plan, SoloInv, PlaceInv, TypeOK,
         Alone, NothingLanded
<1>4. InTheWindow'
  BY <1>1 DEF ClaimTempLock, UnusedName, Goes, plan, SoloInv, PlaceInv, TypeOK,
         Alone, NothingLanded, InTheWindow
<1>5. Directory!Next \/ UNCHANGED Directory!vars
  <2>1. LandedLock = IF at[b] \in Window THEN previous[b] ELSE lock
    BY LandedBefore
  <2>2. LandedLock' = IF at'[b] \in Window THEN previous'[b] ELSE lock'
    BY <1>1, LandedAfter
  <2> QED
    BY <2>1, <2>2 DEF ClaimTempLock, UnusedName, Goes, plan, SoloInv, PlaceInv,
           TypeOK, Directory!vars
<1> QED BY <1>2, <1>3, <1>4, <1>5 DEF SoloStep

LEMMA WriteTempLockSolo ==
  ASSUME SoloInv, NEW b \in Builds, Alone(b), WriteTempLock(b)
  PROVE  SoloStep
<1> USE PlaceAssumption DEF Versions, Files, Active, Ended, Window
<1>1. \A c \in Builds \ {b} : at'[c] = at[c]
  BY DEF WriteTempLock, Goes, plan
<1>2. OneActive'
  BY <1>1 DEF WriteTempLock, Goes, plan, SoloInv, PlaceInv, OneActive
<1>3. NothingLanded'
  BY <1>1 DEF WriteTempLock, Goes, plan, SoloInv, PlaceInv, TypeOK, Alone,
         NothingLanded
<1>4. InTheWindow'
  BY <1>1 DEF WriteTempLock, Goes, plan, SoloInv, PlaceInv, TypeOK, Alone,
         NothingLanded, InTheWindow
<1>5. Directory!Next \/ UNCHANGED Directory!vars
  <2>1. LandedLock = IF at[b] \in Window THEN previous[b] ELSE lock
    BY LandedBefore
  <2>2. LandedLock' = IF at'[b] \in Window THEN previous'[b] ELSE lock'
    BY <1>1, LandedAfter
  <2> QED
    BY <2>1, <2>2 DEF WriteTempLock, Goes, plan, SoloInv, PlaceInv, TypeOK,
           Directory!vars
<1> QED BY <1>2, <1>3, <1>4, <1>5 DEF SoloStep

LEMMA CannotWriteTempLockSolo ==
  ASSUME SoloInv, NEW b \in Builds, NEW gone \in BOOLEAN, Alone(b),
         CannotWriteTempLock(b, gone)
  PROVE  SoloStep
<1> USE PlaceAssumption DEF Versions, Files, Active, Ended, Window
<1>1. \A c \in Builds \ {b} : at'[c] = at[c]
  BY DEF CannotWriteTempLock, Removed, Undone, Goes, plan
<1>2. OneActive'
  BY <1>1 DEF CannotWriteTempLock, Removed, Undone, Goes, plan, SoloInv,
         PlaceInv, OneActive
<1>3. NothingLanded'
  BY <1>1 DEF CannotWriteTempLock, Removed, Undone, Goes, plan, SoloInv,
         PlaceInv, TypeOK, Alone, NothingLanded
<1>4. InTheWindow'
  BY <1>1 DEF CannotWriteTempLock, Removed, Undone, Goes, plan, SoloInv,
         PlaceInv, TypeOK, Alone, NothingLanded, InTheWindow
<1>5. Directory!Next \/ UNCHANGED Directory!vars
  <2>1. LandedLock = IF at[b] \in Window THEN previous[b] ELSE lock
    BY LandedBefore
  <2>2. LandedLock' = IF at'[b] \in Window THEN previous'[b] ELSE lock'
    BY <1>1, LandedAfter
  <2> QED
    BY <2>1, <2>2 DEF CannotWriteTempLock, Removed, Undone, Goes, plan,
           SoloInv, PlaceInv, TypeOK, Directory!vars
<1> QED BY <1>2, <1>3, <1>4, <1>5 DEF SoloStep

LEMMA ClaimStageSolo ==
  ASSUME SoloInv, NEW b \in Builds, NEW n \in Names, Alone(b), ClaimStage(b, n)
  PROVE  SoloStep
<1> USE PlaceAssumption DEF Versions, Files, Active, Ended, Window
<1>1. \A c \in Builds \ {b} : at'[c] = at[c]
  BY DEF ClaimStage, UnusedName, Goes, plan
<1>2. OneActive'
  BY <1>1 DEF ClaimStage, UnusedName, Goes, plan, SoloInv, PlaceInv, OneActive
<1>3. NothingLanded'
  BY <1>1 DEF ClaimStage, UnusedName, Goes, plan, SoloInv, PlaceInv, TypeOK,
         Alone, NothingLanded
<1>4. InTheWindow'
  BY <1>1 DEF ClaimStage, UnusedName, Goes, plan, SoloInv, PlaceInv, TypeOK,
         Alone, NothingLanded, InTheWindow
<1>5. Directory!Next \/ UNCHANGED Directory!vars
  <2>1. LandedLock = IF at[b] \in Window THEN previous[b] ELSE lock
    BY LandedBefore
  <2>2. LandedLock' = IF at'[b] \in Window THEN previous'[b] ELSE lock'
    BY <1>1, LandedAfter
  <2> QED
    BY <2>1, <2>2 DEF ClaimStage, UnusedName, Goes, plan, SoloInv, PlaceInv,
           TypeOK, Directory!vars
<1> QED BY <1>2, <1>3, <1>4, <1>5 DEF SoloStep

LEMMA StageOutputSolo ==
  ASSUME SoloInv, NEW b \in Builds, NEW copies \in BOOLEAN, Alone(b),
         StageOutput(b, copies)
  PROVE  SoloStep
<1> USE PlaceAssumption DEF Versions, Files, Active, Ended, Window
<1>1. \A c \in Builds \ {b} : at'[c] = at[c]
  BY DEF StageOutput, Goes, plan
<1>2. OneActive'
  BY <1>1 DEF StageOutput, Goes, plan, SoloInv, PlaceInv, OneActive
<1>3. NothingLanded'
  BY <1>1 DEF StageOutput, Goes, plan, SoloInv, PlaceInv, TypeOK, Alone,
         NothingLanded
<1>4. InTheWindow'
  BY <1>1 DEF StageOutput, Goes, plan, SoloInv, PlaceInv, TypeOK, Alone,
         NothingLanded, InTheWindow
<1>5. Directory!Next \/ UNCHANGED Directory!vars
  <2>1. LandedLock = IF at[b] \in Window THEN previous[b] ELSE lock
    BY LandedBefore
  <2>2. LandedLock' = IF at'[b] \in Window THEN previous'[b] ELSE lock'
    BY <1>1, LandedAfter
  <2> QED
    BY <2>1, <2>2 DEF StageOutput, Goes, plan, SoloInv, PlaceInv, TypeOK,
           Directory!vars
<1> QED BY <1>2, <1>3, <1>4, <1>5 DEF SoloStep

LEMMA CannotStageSolo ==
  ASSUME SoloInv, NEW b \in Builds, NEW gone \in BOOLEAN, Alone(b),
         CannotStage(b, gone)
  PROVE  SoloStep
<1> USE PlaceAssumption DEF Versions, Files, Active, Ended, Window
<1>1. \A c \in Builds \ {b} : at'[c] = at[c]
  BY DEF CannotStage, Removed, Undone, Goes, plan
<1>2. OneActive'
  BY <1>1 DEF CannotStage, Removed, Undone, Goes, plan, SoloInv, PlaceInv,
         OneActive
<1>3. NothingLanded'
  BY <1>1 DEF CannotStage, Removed, Undone, Goes, plan, SoloInv, PlaceInv,
         TypeOK, Alone, NothingLanded
<1>4. InTheWindow'
  BY <1>1 DEF CannotStage, Removed, Undone, Goes, plan, SoloInv, PlaceInv,
         TypeOK, Alone, NothingLanded, InTheWindow
<1>5. Directory!Next \/ UNCHANGED Directory!vars
  <2>1. LandedLock = IF at[b] \in Window THEN previous[b] ELSE lock
    BY LandedBefore
  <2>2. LandedLock' = IF at'[b] \in Window THEN previous'[b] ELSE lock'
    BY <1>1, LandedAfter
  <2> QED
    BY <2>1, <2>2 DEF CannotStage, Removed, Undone, Goes, plan, SoloInv,
           PlaceInv, TypeOK, Directory!vars
<1> QED BY <1>2, <1>3, <1>4, <1>5 DEF SoloStep

LEMMA ReadPreviousSolo ==
  ASSUME SoloInv, NEW b \in Builds, Alone(b), ReadPrevious(b)
  PROVE  SoloStep
<1> USE PlaceAssumption DEF Versions, Files, Active, Ended, Window
<1>1. \A c \in Builds \ {b} : at'[c] = at[c]
  BY DEF ReadPrevious, Goes, plan
<1>2. OneActive'
  BY <1>1 DEF ReadPrevious, Goes, plan, SoloInv, PlaceInv, OneActive
<1>3. NothingLanded'
  BY <1>1 DEF ReadPrevious, Goes, plan, SoloInv, PlaceInv, TypeOK, Alone,
         NothingLanded
<1>4. InTheWindow'
  BY <1>1 DEF ReadPrevious, Goes, plan, SoloInv, PlaceInv, TypeOK, Alone,
         NothingLanded, InTheWindow
<1>5. Directory!Next \/ UNCHANGED Directory!vars
  <2>1. LandedLock = IF at[b] \in Window THEN previous[b] ELSE lock
    BY LandedBefore
  <2>2. LandedLock' = IF at'[b] \in Window THEN previous'[b] ELSE lock'
    BY <1>1, LandedAfter
  <2> QED
    BY <2>1, <2>2 DEF ReadPrevious, Goes, plan, SoloInv, PlaceInv, TypeOK,
           Directory!vars
<1> QED BY <1>2, <1>3, <1>4, <1>5 DEF SoloStep

LEMMA RenameLockSolo ==
  ASSUME SoloInv, NEW b \in Builds, Alone(b), RenameLock(b)
  PROVE  SoloStep
<1> USE PlaceAssumption DEF Versions, Files, Active, Ended, Window
<1>1. \A c \in Builds \ {b} : at'[c] = at[c]
  BY DEF RenameLock, Goes, plan
<1>2. OneActive'
  BY <1>1 DEF RenameLock, Goes, plan, SoloInv, PlaceInv, OneActive
<1>3. NothingLanded'
  BY <1>1 DEF RenameLock, Goes, plan, SoloInv, PlaceInv, TypeOK, Alone,
         NothingLanded
<1>4. InTheWindow'
  BY <1>1 DEF RenameLock, Goes, plan, SoloInv, PlaceInv, TypeOK, Alone,
         NothingLanded, InTheWindow, Holding, HoldingLock
<1>5. Directory!Next \/ UNCHANGED Directory!vars
  <2>1. LandedLock = IF at[b] \in Window THEN previous[b] ELSE lock
    BY LandedBefore
  <2>2. LandedLock' = IF at'[b] \in Window THEN previous'[b] ELSE lock'
    BY <1>1, LandedAfter
  <2> QED
    BY <2>1, <2>2 DEF RenameLock, Goes, plan, SoloInv, PlaceInv, TypeOK,
           Directory!vars, NothingLanded, InTheWindow
<1> QED BY <1>2, <1>3, <1>4, <1>5 DEF SoloStep

LEMMA RenameOutputSolo ==
  ASSUME SoloInv, NEW b \in Builds, Alone(b), RenameOutput(b)
  PROVE  SoloStep
<1> USE PlaceAssumption DEF Versions, Files, Active, Ended, Window
<1>1. \A c \in Builds \ {b} : at'[c] = at[c]
  BY DEF RenameOutput, ImageIsDue, plan
<1>2. OneActive'
  BY <1>1 DEF RenameOutput, ImageIsDue, plan, SoloInv, PlaceInv, OneActive
<1>3. NothingLanded'
  BY <1>1 DEF RenameOutput, ImageIsDue, plan, SoloInv, PlaceInv, TypeOK, Alone,
         NothingLanded
<1>4. InTheWindow'
  BY <1>1 DEF RenameOutput, ImageIsDue, plan, SoloInv, PlaceInv, TypeOK, Alone,
         NothingLanded, InTheWindow
<1>5. Directory!Next \/ UNCHANGED Directory!vars
  <2>1. LandedLock = IF at[b] \in Window THEN previous[b] ELSE lock
    BY LandedBefore
  <2>2. LandedLock' = IF at'[b] \in Window THEN previous'[b] ELSE lock'
    BY <1>1, LandedAfter
  <2> QED
    BY <2>1, <2>2 DEF RenameOutput, ImageIsDue, plan, SoloInv, PlaceInv,
           TypeOK, Directory!Next, Directory!vars, Directory!Tear,
           Directory!Replace, Directory!Rebuild, NothingLanded, InTheWindow,
           Holding, HoldingImage
<1> QED BY <1>2, <1>3, <1>4, <1>5 DEF SoloStep

LEMMA FinishSolo ==
  ASSUME SoloInv, NEW b \in Builds, NEW keepWork \in BOOLEAN, Alone(b),
         Finish(b, keepWork)
  PROVE  SoloStep
<1> USE PlaceAssumption DEF Versions, Files, Active, Ended, Window
<1>1. \A c \in Builds \ {b} : at'[c] = at[c]
  BY DEF Finish, Goes, plan
<1>2. OneActive'
  BY <1>1 DEF Finish, Goes, plan, SoloInv, PlaceInv, OneActive
<1>3. NothingLanded'
  BY <1>1 DEF Finish, Goes, plan, SoloInv, PlaceInv, TypeOK, Alone,
         NothingLanded
<1>4. InTheWindow'
  BY <1>1 DEF Finish, Goes, plan, SoloInv, PlaceInv, TypeOK, Alone,
         NothingLanded, InTheWindow
<1>5. Directory!Next \/ UNCHANGED Directory!vars
  <2>1. LandedLock = IF at[b] \in Window THEN previous[b] ELSE lock
    BY LandedBefore
  <2>2. LandedLock' = IF at'[b] \in Window THEN previous'[b] ELSE lock'
    BY <1>1, LandedAfter
  <2> QED
    BY <2>1, <2>2 DEF Finish, Goes, plan, SoloInv, PlaceInv, TypeOK,
           Directory!vars
<1> QED BY <1>2, <1>3, <1>4, <1>5 DEF SoloStep

LEMMA FailSolo ==
  ASSUME SoloInv, NEW b \in Builds, Alone(b), Fail(b)
  PROVE  SoloStep
<1> USE PlaceAssumption DEF Versions, Files, Active, Ended, Window
<1>1. \A c \in Builds \ {b} : at'[c] = at[c]
  BY DEF Fail, plan
<1>2. OneActive'
  BY <1>1 DEF Fail, plan, SoloInv, PlaceInv, OneActive
<1>3. NothingLanded'
  BY <1>1 DEF Fail, plan, SoloInv, PlaceInv, TypeOK, Alone, NothingLanded
<1>4. InTheWindow'
  BY <1>1 DEF Fail, plan, SoloInv, PlaceInv, TypeOK, Alone, NothingLanded,
         InTheWindow
<1>5. Directory!Next \/ UNCHANGED Directory!vars
  <2>1. LandedLock = IF at[b] \in Window THEN previous[b] ELSE lock
    BY LandedBefore
  <2>2. LandedLock' = IF at'[b] \in Window THEN previous'[b] ELSE lock'
    BY <1>1, LandedAfter
  <2> QED
    BY <2>1, <2>2 DEF Fail, plan, SoloInv, PlaceInv, TypeOK, Directory!vars
<1> QED BY <1>2, <1>3, <1>4, <1>5 DEF SoloStep

LEMMA CannotRenameOutputSolo ==
  ASSUME SoloInv, NEW b \in Builds, Alone(b), CannotRenameOutput(b)
  PROVE  SoloStep
<1> USE PlaceAssumption DEF Versions, Files, Active, Ended, Window
<1>1. \A c \in Builds \ {b} : at'[c] = at[c]
  BY DEF CannotRenameOutput, Goes, plan
<1>2. OneActive'
  BY <1>1 DEF CannotRenameOutput, Goes, plan, SoloInv, PlaceInv, OneActive
<1>3. NothingLanded'
  BY <1>1 DEF CannotRenameOutput, Goes, plan, SoloInv, PlaceInv, TypeOK, Alone,
         NothingLanded
<1>4. InTheWindow'
  BY <1>1 DEF CannotRenameOutput, Goes, plan, SoloInv, PlaceInv, TypeOK, Alone,
         NothingLanded, InTheWindow
<1>5. Directory!Next \/ UNCHANGED Directory!vars
  <2>1. LandedLock = IF at[b] \in Window THEN previous[b] ELSE lock
    BY LandedBefore
  <2>2. LandedLock' = IF at'[b] \in Window THEN previous'[b] ELSE lock'
    BY <1>1, LandedAfter
  <2> QED
    BY <2>1, <2>2 DEF CannotRenameOutput, Goes, plan, SoloInv, PlaceInv,
           TypeOK, Directory!vars
<1> QED BY <1>2, <1>3, <1>4, <1>5 DEF SoloStep

LEMMA RemoveLockSolo ==
  ASSUME SoloInv, NEW b \in Builds, Alone(b), RemoveLock(b)
  PROVE  SoloStep
<1> USE PlaceAssumption DEF Versions, Files, Active, Ended, Window
<1>1. \A c \in Builds \ {b} : at'[c] = at[c]
  BY DEF RemoveLock, Goes, plan
<1>2. OneActive'
  BY <1>1 DEF RemoveLock, Goes, plan, SoloInv, PlaceInv, OneActive
<1>3. NothingLanded'
  BY <1>1 DEF RemoveLock, Goes, plan, SoloInv, PlaceInv, TypeOK, Alone,
         NothingLanded, InTheWindow
<1>4. InTheWindow'
  BY <1>1 DEF RemoveLock, Goes, plan, SoloInv, PlaceInv, TypeOK, Alone,
         NothingLanded, InTheWindow
<1>5. Directory!Next \/ UNCHANGED Directory!vars
  <2>1. LandedLock = IF at[b] \in Window THEN previous[b] ELSE lock
    BY LandedBefore
  <2>2. LandedLock' = IF at'[b] \in Window THEN previous'[b] ELSE lock'
    BY <1>1, LandedAfter
  <2> QED
    BY <2>1, <2>2 DEF RemoveLock, Goes, plan, SoloInv, PlaceInv, TypeOK,
           Directory!vars
<1> QED BY <1>2, <1>3, <1>4, <1>5 DEF SoloStep

LEMMA ClaimRestoreSolo ==
  ASSUME SoloInv, NEW b \in Builds, NEW n \in Names, Alone(b),
         ClaimRestore(b, n)
  PROVE  SoloStep
<1> USE PlaceAssumption DEF Versions, Files, Active, Ended, Window
<1>1. \A c \in Builds \ {b} : at'[c] = at[c]
  BY DEF ClaimRestore, UnusedName, Goes, plan
<1>2. OneActive'
  BY <1>1 DEF ClaimRestore, UnusedName, Goes, plan, SoloInv, PlaceInv,
         OneActive
<1>3. NothingLanded'
  BY <1>1 DEF ClaimRestore, UnusedName, Goes, plan, SoloInv, PlaceInv, TypeOK,
         Alone, NothingLanded
<1>4. InTheWindow'
  BY <1>1 DEF ClaimRestore, UnusedName, Goes, plan, SoloInv, PlaceInv, TypeOK,
         Alone, NothingLanded, InTheWindow
<1>5. Directory!Next \/ UNCHANGED Directory!vars
  <2>1. LandedLock = IF at[b] \in Window THEN previous[b] ELSE lock
    BY LandedBefore
  <2>2. LandedLock' = IF at'[b] \in Window THEN previous'[b] ELSE lock'
    BY <1>1, LandedAfter
  <2> QED
    BY <2>1, <2>2 DEF ClaimRestore, UnusedName, Goes, plan, SoloInv, PlaceInv,
           TypeOK, Directory!vars
<1> QED BY <1>2, <1>3, <1>4, <1>5 DEF SoloStep

LEMMA PutLockBackSolo ==
  ASSUME SoloInv, NEW b \in Builds, Alone(b), PutLockBack(b)
  PROVE  SoloStep
<1> USE PlaceAssumption DEF Versions, Files, Active, Ended, Window
<1>1. \A c \in Builds \ {b} : at'[c] = at[c]
  BY DEF PutLockBack, Goes, plan
<1>2. OneActive'
  BY <1>1 DEF PutLockBack, Goes, plan, SoloInv, PlaceInv, OneActive
<1>3. NothingLanded'
  BY <1>1 DEF PutLockBack, Goes, plan, SoloInv, PlaceInv, TypeOK, Alone,
         NothingLanded, InTheWindow
<1>4. InTheWindow'
  BY <1>1 DEF PutLockBack, Goes, plan, SoloInv, PlaceInv, TypeOK, Alone,
         NothingLanded, InTheWindow
<1>5. Directory!Next \/ UNCHANGED Directory!vars
  <2>1. LandedLock = IF at[b] \in Window THEN previous[b] ELSE lock
    BY LandedBefore
  <2>2. LandedLock' = IF at'[b] \in Window THEN previous'[b] ELSE lock'
    BY <1>1, LandedAfter
  <2> QED
    BY <2>1, <2>2 DEF PutLockBack, Goes, plan, SoloInv, PlaceInv, TypeOK,
           Directory!vars
<1> QED BY <1>2, <1>3, <1>4, <1>5 DEF SoloStep

LEMMA CannotRestoreSolo ==
  ASSUME SoloInv, NEW b \in Builds, NEW gone \in BOOLEAN, Alone(b),
         CannotRestore(b, gone)
  PROVE  SoloStep
<1> USE PlaceAssumption DEF Versions, Files, Active, Ended, Window
<1>1. \A c \in Builds \ {b} : at'[c] = at[c]
  BY DEF CannotRestore, Removed, plan
<1>2. OneActive'
  BY <1>1 DEF CannotRestore, Removed, plan, SoloInv, PlaceInv, OneActive
<1>3. NothingLanded'
  BY <1>1 DEF CannotRestore, Removed, plan, SoloInv, PlaceInv, TypeOK, Alone,
         NothingLanded
<1>4. InTheWindow'
  BY <1>1 DEF CannotRestore, Removed, plan, SoloInv, PlaceInv, TypeOK, Alone,
         NothingLanded, InTheWindow
<1>5. Directory!Next \/ UNCHANGED Directory!vars
  <2>1. LandedLock = IF at[b] \in Window THEN previous[b] ELSE lock
    BY LandedBefore
  <2>2. LandedLock' = IF at'[b] \in Window THEN previous'[b] ELSE lock'
    BY <1>1, LandedAfter
  <2>3. at[b] \in Window /\ at'[b] \notin Window
    BY DEF CannotRestore, SoloInv, PlaceInv, TypeOK
  <2>4. LandedLock' = b /\ torn' = TRUE /\ output' = output
    BY <2>2, <2>3 DEF CannotRestore, SoloInv, InTheWindow
  <2>5. Directory!Tear(b)
    BY <2>4 DEF Directory!Tear
  <2> QED BY <2>5 DEF Directory!Next
<1> QED BY <1>2, <1>3, <1>4, <1>5 DEF SoloStep

LEMMA DropTempLockSolo ==
  ASSUME SoloInv, NEW b \in Builds, NEW gone \in BOOLEAN, Alone(b),
         DropTempLock(b, gone)
  PROVE  SoloStep
<1> USE PlaceAssumption DEF Versions, Files, Active, Ended, Window
<1>1. \A c \in Builds \ {b} : at'[c] = at[c]
  BY DEF DropTempLock, Removed, Undone, Goes, plan
<1>2. OneActive'
  BY <1>1 DEF DropTempLock, Removed, Undone, Goes, plan, SoloInv, PlaceInv,
         OneActive
<1>3. NothingLanded'
  BY <1>1 DEF DropTempLock, Removed, Undone, Goes, plan, SoloInv, PlaceInv,
         TypeOK, Alone, NothingLanded
<1>4. InTheWindow'
  BY <1>1 DEF DropTempLock, Removed, Undone, Goes, plan, SoloInv, PlaceInv,
         TypeOK, Alone, NothingLanded, InTheWindow
<1>5. Directory!Next \/ UNCHANGED Directory!vars
  <2>1. LandedLock = IF at[b] \in Window THEN previous[b] ELSE lock
    BY LandedBefore
  <2>2. LandedLock' = IF at'[b] \in Window THEN previous'[b] ELSE lock'
    BY <1>1, LandedAfter
  <2> QED
    BY <2>1, <2>2 DEF DropTempLock, Removed, Undone, Goes, plan, SoloInv,
           PlaceInv, TypeOK, Directory!vars
<1> QED BY <1>2, <1>3, <1>4, <1>5 DEF SoloStep

LEMMA UnstageSolo ==
  ASSUME SoloInv, NEW b \in Builds, NEW moves \in BOOLEAN,
         NEW gone \in BOOLEAN, Alone(b), Unstage(b, moves, gone)
  PROVE  SoloStep
<1> USE PlaceAssumption DEF Versions, Files, Active, Ended, Window
<1>1. \A c \in Builds \ {b} : at'[c] = at[c]
  BY DEF Unstage, Removed, Undone, TakesBack, Goes, plan
<1>2. OneActive'
  BY <1>1 DEF Unstage, Removed, Undone, TakesBack, Goes, plan, SoloInv,
         PlaceInv, OneActive
<1>3. NothingLanded'
  BY <1>1 DEF Unstage, Removed, Undone, TakesBack, Goes, plan, SoloInv,
         PlaceInv, TypeOK, Alone, NothingLanded
<1>4. InTheWindow'
  BY <1>1 DEF Unstage, Removed, Undone, TakesBack, Goes, plan, SoloInv,
         PlaceInv, TypeOK, Alone, NothingLanded, InTheWindow
<1>5. Directory!Next \/ UNCHANGED Directory!vars
  <2>1. LandedLock = IF at[b] \in Window THEN previous[b] ELSE lock
    BY LandedBefore
  <2>2. LandedLock' = IF at'[b] \in Window THEN previous'[b] ELSE lock'
    BY <1>1, LandedAfter
  <2> QED
    BY <2>1, <2>2 DEF Unstage, Removed, Undone, TakesBack, Goes, plan, SoloInv,
           PlaceInv, TypeOK, Directory!vars
<1> QED BY <1>2, <1>3, <1>4, <1>5 DEF SoloStep

LEMMA CrashSolo ==
  ASSUME SoloInv, NEW b \in Builds, Alone(b), Crash(b)
  PROVE  SoloStep
<1> USE PlaceAssumption DEF Versions, Files, Active, Ended, Window
<1>1. \A c \in Builds \ {b} : at'[c] = at[c]
  BY DEF Crash, plan
<1>2. OneActive'
  BY <1>1 DEF Crash, plan, SoloInv, PlaceInv, OneActive
<1>3. NothingLanded'
  BY <1>1 DEF Crash, plan, SoloInv, PlaceInv, TypeOK, Alone, NothingLanded
<1>4. InTheWindow'
  BY <1>1 DEF Crash, plan, SoloInv, PlaceInv, TypeOK, Alone, NothingLanded,
         InTheWindow
<1>5. Directory!Next \/ UNCHANGED Directory!vars
  <2>1. LandedLock = IF at[b] \in Window THEN previous[b] ELSE lock
    BY LandedBefore
  <2>2. LandedLock' = IF at'[b] \in Window THEN previous'[b] ELSE lock'
    BY <1>1, LandedAfter
  <2> QED
    BY ZenonT(40), <2>1, <2>2 DEF Crash, plan, SoloInv, PlaceInv, TypeOK, Directory!Next,
           Directory!vars, Directory!Tear, Directory!Replace,
           Directory!Rebuild, NothingLanded, InTheWindow
<1> QED BY <1>2, <1>3, <1>4, <1>5 DEF SoloStep

-----------------------------------------------------------------------------
(* The properties of one build at a time.                                  *)

LEMMA SoloActs ==
  ASSUME SoloInv, NEW b \in Builds, Alone(b), Step(b) PROVE SoloStep
<1>1. CASE Begin(b)
  BY <1>1, RefuseSolo, StartSolo DEF Begin
<1>2. CASE Succeed(b)
  BY <1>2, BootstrapSolo, CheckAgainstLockSolo, ClaimTempLockSolo,
     ClaimStageSolo, WriteTempLockSolo, StageOutputSolo, ReadPreviousSolo,
     RenameLockSolo, RenameOutputSolo, FinishSolo DEF Succeed
<1>3. CASE Undo(b)
  BY <1>3, FailSolo, CannotRenameOutputSolo, RemoveLockSolo, PutLockBackSolo,
     ClaimRestoreSolo, CannotWriteTempLockSolo, CannotStageSolo,
     CannotRestoreSolo, DropTempLockSolo, UnstageSolo DEF Undo
<1>4. CASE Crash(b)
  BY <1>4, CrashSolo
<1> QED
  BY <1>1, <1>2, <1>3, <1>4 DEF Step

LEMMA SoloStutter == SoloInv /\ UNCHANGED vars => SoloStep
BY DEF SoloInv, SoloStep, OneActive, NothingLanded, InTheWindow, vars, plan,
       LandedLock, InWindow, Directory!vars

LEMMA SoloNextStep == SoloInv /\ [SoloNext]_vars => SoloStep
BY SoloActs, SoloStutter DEF SoloNext, Over

(* The abstract steps keep the lock and the image together.                *)
LEMMA SoloStepAgrees ==
  LockDescribesImage /\ SoloStep => LockDescribesImage'
BY DEF LockDescribesImage, SoloStep, Directory!Next, Directory!vars,
       Directory!Replace, Directory!Rebuild, Directory!Tear

LEMMA SoloInit == Init => SoloInv /\ Directory!Init
<1> SUFFICES ASSUME Init PROVE SoloInv /\ Directory!Init
  OBVIOUS
<1>1. LandedLock = lock
  <2>1. InWindow = {}
    BY DEF Init, InWindow, Window
  <2> QED BY <2>1 DEF LandedLock
<1>2. LockDescribesImage /\ Directory!Init
  BY <1>1 DEF Init, LockDescribesImage, Directory!Init, Versions
<1>3. OneActive /\ NothingLanded /\ InTheWindow
  BY DEF Init, OneActive, NothingLanded, InTheWindow, Active, Window
<1> QED
  BY <1>2, <1>3, InitInv DEF SoloInv

LEMMA SoloNextInv == SoloInv /\ [SoloNext]_vars => SoloInv'
<1> SUFFICES ASSUME SoloInv, [SoloNext]_vars PROVE SoloInv'
  OBVIOUS
<1>1. PlaceInv'
  BY NextInv DEF SoloInv, SoloNext, Next
<1>2. SoloStep
  BY SoloNextStep
<1>3. LockDescribesImage'
  BY <1>2, SoloStepAgrees DEF SoloInv
<1> QED
  BY <1>1, <1>2, <1>3 DEF SoloInv, SoloStep

(* The invariant of builds that run one at a time.                         *)
THEOREM SoloInvariant == SoloSpec => []SoloInv
<1>1. Init => SoloInv
  BY SoloInit
<1> QED
  BY <1>1, SoloNextInv, PTL DEF SoloSpec

(* The lock describes the image in dist/, unless a build died, or could    *)
(* not restore the lock, between its two renames.                          *)
THEOREM LockDescribesImageHolds == SoloSpec => []LockDescribesImage
<1>1. SoloInv => LockDescribesImage
  BY DEF SoloInv
<1> QED
  BY <1>1, SoloInvariant, PTL

(* A build that fails leaves the lock and the image as it found them.      *)
THEOREM FailedBuildLeavesAllAsItWasHolds ==
  SoloSpec => FailedBuildLeavesAllAsItWas
<1>1. ASSUME SoloInv, [SoloNext]_vars
      PROVE  [\A b \in Builds :
                at[b] # "failed" /\ at'[b] = "failed" /\ ~lost'[b] =>
                  lock' = before[b][1] /\ output' = before[b][2] /\ workDir'[b]]_vars
  <2>1. ASSUME NEW b \in Builds, at[b] # "failed", at'[b] = "failed",
               NEW c \in Builds, Step(c)
        PROVE  \E moves, gone \in BOOLEAN : Unstage(b, moves, gone)
    <3> USE <1>1, <2>1 DEF SoloInv, PlaceInv, TypeOK, Goes
    <3>1. CASE Begin(c) \/ Crash(c)
      BY <3>1 DEF Begin, Refuse, Start, Crash
    <3>2. CASE Succeed(c)
      BY <3>2 DEF Succeed, Bootstrap, CheckAgainstLock, ClaimTempLock,
         WriteTempLock, ClaimStage, StageOutput, ReadPrevious, RenameLock,
         RenameOutput, Finish
    <3>3. CASE Undo(c) /\ ~\E moves, gone \in BOOLEAN : Unstage(c, moves, gone)
      BY <3>3 DEF Undo, Fail, CannotRenameOutput, RemoveLock, ClaimRestore,
         PutLockBack, CannotWriteTempLock, CannotStage, CannotRestore,
         DropTempLock
    <3>4. CASE \E moves, gone \in BOOLEAN : Unstage(c, moves, gone)
      BY <3>4 DEF Unstage
    <3> QED
      BY <3>1, <3>2, <3>3, <3>4 DEF Step
  <2>2. ASSUME NEW b \in Builds, ~lost'[b],
               NEW moves \in BOOLEAN, NEW gone \in BOOLEAN,
               Unstage(b, moves, gone)
        PROVE  lock' = before[b][1] /\ output' = before[b][2] /\ workDir'[b]
    <3>1. ~lost[b]
      <4>1. CASE UNCHANGED lost
        BY <2>2, <4>1
      <4>2. CASE Undone(b, gone /\ ~TakesBack(b))
        <5>1. lost \in [Builds -> BOOLEAN]
          BY <1>1 DEF SoloInv, PlaceInv, TypeOK
        <5> QED BY <2>2, <4>2, <5>1, Zenon DEF Undone
      <4> QED
        BY <2>2, <4>1, <4>2 DEF Unstage
    <3>3. before[b][1] = lock /\ before[b][2] = output /\ workDir[b]
      BY <1>1, <2>2, <3>1
         DEF Unstage, Goes, SoloInv, PlaceInv, NothingLanded, Holding, Active,
             Window
    <3> QED
      BY <2>2, <3>3 DEF Unstage
  <2> QED
    BY <1>1, <2>1, <2>2 DEF SoloNext, Over
<1> QED
  BY <1>1, SoloInvariant, PTL DEF SoloSpec, FailedBuildLeavesAllAsItWas

(* Build implements ImageAndLock: the image and the lock change together   *)
(* or not at all, but for the deaths and failed restores it names.         *)
THEOREM PlaceRefinesImageAndLock == SoloSpec => ImplementsImageAndLock
<1>1. Init => Directory!Init
  BY SoloInit
<1>2. SoloInv /\ [SoloNext]_vars => [Directory!Next]_(Directory!vars)
  BY SoloNextStep DEF SoloStep
<1> QED
  BY <1>1, <1>2, SoloInvariant, PTL
     DEF SoloSpec, ImplementsImageAndLock, Directory!Spec
=============================================================================
