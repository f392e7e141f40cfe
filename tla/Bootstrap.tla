----------------------------- MODULE Bootstrap -----------------------------
(***************************************************************************)
(* A build from its first program to the image's place: mmdebstrap or      *)
(* mkosi run in a process of its own, its output read line by line beside  *)
(* it into the display's phases and by the watch that stops a run without  *)
(* mounts, the user interrupting at any moment, the disk assembled, the    *)
(* lock's records read, and the tools tree gone however it ends            *)
(* (internal/builder: Build, Mmdebstrap.Run, mountWatch, Mkosi.Run,        *)
(* diskToolsTree, diskAssembly).                                           *)
(***************************************************************************)
EXTENDS Provision, Phases

CONSTANTS Kinds,    \* the builds: family, target, offline, python, ...
          PipeSize, \* lines a program may be ahead of their reader
          Omitted   \* announcements a newer mmdebstrap may not make

(* A build is Ubuntu's or Fedora's; a Fedora recipe is a WSL image's,      *)
(* without Python, certificates and keys.                                  *)
AllKinds ==
  [family : {"ubuntu", "fedora"}, target : {"wsl", "disk"}, offline : BOOLEAN, python : BOOLEAN,
   index : BOOLEAN, certificates : BOOLEAN, keys : BOOLEAN, bundle : BOOLEAN, insecure : BOOLEAN,
   sudo : BOOLEAN]
FedoraSupported(k) == k.target = "wsl" /\ ~k.python /\ ~k.certificates /\ ~k.keys
ASSUME KindsAssumption ==
  Kinds \subseteq {k \in AllKinds : Fedora(k) => FedoraSupported(k)}

(* What a newer mmdebstrap leaves out is seen when a later announcement    *)
(* comes: the last phase's and the end have none after them.               *)
ASSUME OmittedAssumption ==
  Omitted \subseteq ToSet(ImagePhases) \ {"create-tarball"}

ASSUME PipeSizeAssumption == PipeSize \in Nat

VARIABLES kind, omits, refuses, \* the build, its mmdebstrap, and whether the host refuses mounts
          program, at, process, signaled, \* the program, its next step, its state, whether it got SIGINT
          pipe,        \* lines written and not yet read
          refused,     \* the watch has read that nothing will be mounted
          interrupted, \* the user has asked to stop
          image, given, \* the image's files, the work files there are
          tree, removal, \* the tools tree, and what became of removing it
          parser, stage, verdict,
          fault        \* something of the host failed by itself

vars == <<kind, omits, refuses, program, at, process, signaled, pipe, refused, interrupted,
          image, given, tree, removal, parser, stage, verdict, fault>>
host    == <<kind, omits, refuses>>
running == <<program, at, process, signaled, pipe, refused>>
product    == <<image, given, tree, removal>>
ending  == <<stage, verdict, fault>>

List  == PhasesOf(kind)
Plan  == Programs(kind)
Name  == Plan[program].name
Steps == Plan[program].steps
Watched == Name \in {"tools-tree", "image"}
Tree  == Disk(kind) \/ Fedora(kind) \* a build that makes a tools tree

Table(t) == parser' = [parser EXCEPT !.table = t]
Began(phase) == Table(Started(parser.table, phase))
Ended(phase) == Table(Finished(parser.table, phase))

BootstrapInit ==
  /\ kind \in Kinds /\ omits \in {{}} \cup {{o} : o \in Omitted} /\ refuses \in BOOLEAN
  /\ Fedora(kind) => ~refuses /\ omits = {}
  /\ program = 1 /\ at = 1 /\ process = "none" /\ signaled = FALSE /\ pipe = <<>>
  /\ refused = FALSE /\ interrupted = FALSE
  /\ image = NothingYet /\ given = {} /\ tree = "none" /\ removal = "none"
  /\ parser = NewParser(List)
  /\ stage = (IF kind.offline THEN "verify" ELSE "programs") /\ verdict = "none" /\ fault = FALSE

Fail(v) == stage' = "failing" /\ verdict' = v
Breaks(v) == Fail(v) /\ fault' = TRUE

-----------------------------------------------------------------------------
(* The vendored files are checked before there is a work directory, and    *)
(* staged as a repository before the program that installs from them.      *)
VerifyPool ==
  /\ stage = "verify"
  /\ \/ /\ Ended("verify-vendored")
        /\ stage' = "programs" /\ UNCHANGED <<verdict, fault>>
     \/ Began("verify-vendored") /\ Breaks("pool")
  /\ UNCHANGED <<host, running, product, interrupted>>

StagesFirst == kind.offline /\ Name = (IF Fedora(kind) THEN "createrepo" ELSE "image")

(* A program starts unless the build is already interrupted.  The tree     *)
(* exists from before the first run that makes it.  The parser is new with *)
(* the image's program: the tree's reports nothing but lines.              *)
Start ==
  /\ stage = "programs" /\ process = "none"
  /\ LET staged == IF StagesFirst THEN Finished(parser.table, "prepare-repository") ELSE parser.table
         begun  == IF Name \in {"tools-tree", "createrepo", "mkosi-tools"}
                   THEN Started(staged, "make-tools-tree")
                   ELSE IF Name = "tool" THEN Started(staged, "assemble-disk") ELSE staged
     IN parser' = IF Name \in {"image", "mkosi-tools"}
                  THEN [NewParser(List) EXCEPT !.table = begun,
                          !.current = IF Fedora(kind) THEN "make-tools-tree" ELSE "update-index"]
                  ELSE [parser EXCEPT !.table = begun]
  /\ tree' = IF Name \in {"tools-tree", "createrepo", "mkosi-tools"} THEN "there" ELSE tree
  /\ \/ interrupted /\ Fail("interrupted") /\ UNCHANGED <<process, fault>>
     \/ ~interrupted /\ process' = "running" /\ UNCHANGED ending
  /\ UNCHANGED <<host, program, at, signaled, pipe, refused, interrupted, image, given, removal>>

StageFails ==
  /\ stage = "programs" /\ process = "none" /\ StagesFirst
  /\ Began("prepare-repository") /\ Breaks("repository")
  /\ UNCHANGED <<host, running, product, interrupted>>

(* What one step writes: mmdebstrap says first that it will not mount, and *)
(* a newer one may leave an announcement out.                              *)
Lines(s) ==
  (IF Watched /\ refuses /\ at = 1 THEN <<"refusal">> ELSE <<>>)
  \o (IF s.says = "nothing" \/ s.says \in omits THEN <<>> ELSE <<s.says>>)
Ready(s) == s.takes \subseteq given /\ \A p \in DOMAIN s.needs : image[p] = s.needs[p]
Shipped  == Name \in {"image", "mkosi"} \* whose files are the image's

(* The program takes its next step, or exits: at its end, because what the *)
(* step needs is not there, because the host fails it, or for SIGINT.      *)
Step ==
  /\ process = "running" /\ at <= Len(Steps) /\ Ready(Steps[at])
  /\ Len(pipe) + Len(Lines(Steps[at])) <= PipeSize
  /\ at' = at + 1 /\ pipe' = pipe \o Lines(Steps[at])
  /\ image' = (IF Shipped THEN Onto(Steps[at].writes, image) ELSE image)
  /\ given' = given \cup Steps[at].gives
  /\ UNCHANGED <<host, program, process, signaled, refused, interrupted, tree, removal, parser, ending>>
Exit ==
  /\ process = "running"
  /\ \/ at > Len(Steps) /\ process' = "ok" /\ UNCHANGED fault
     \/ at <= Len(Steps) /\ (signaled \/ ~Ready(Steps[at])) /\ process' = "failed" /\ UNCHANGED fault
     \/ at <= Len(Steps) /\ ~fault /\ process' = "failed" /\ fault' = TRUE
  /\ UNCHANGED <<host, program, at, signaled, pipe, refused, interrupted, product, parser, stage, verdict>>

(* Canceling reaches the program whenever the runtime gets to it: the      *)
(* user's request, or the watch's, which cancels the run alone.            *)
Interrupt ==
  /\ ~interrupted /\ stage # "over" /\ interrupted' = TRUE
  /\ UNCHANGED <<host, running, product, parser, ending>>
Signal ==
  /\ process = "running" /\ ~signaled /\ (interrupted \/ (Watched /\ refused))
  /\ signaled' = TRUE
  /\ UNCHANGED <<host, program, at, process, pipe, refused, interrupted, product, parser, ending>>

(* The reader hands a line to the watch and to the parser.  The tree's own *)
(* lines are shown and move no phase.                                      *)
Sees(line) == Watched /\ line = "refusal"
Parse(line) ==
  IF Name = "image" THEN HandleLine(parser, line)
  ELSE IF Fedora(kind) THEN MkosiLine(List, parser, line) ELSE parser
Read ==
  /\ process # "none" /\ pipe # <<>>
  /\ refused' = (refused \/ Sees(Head(pipe))) /\ parser' = Parse(Head(pipe))
  /\ pipe' = Tail(pipe)
  /\ UNCHANGED <<host, program, at, process, signaled, interrupted, product, ending>>

-----------------------------------------------------------------------------
(* The program has exited and its output is read, but for a last line      *)
(* without an end, which flush reads.  A program that was signaled counts  *)
(* as failed however it exited.                                            *)
Over == process \in {"ok", "failed"} /\ Len(pipe) <= 1
Flushed == refused \/ (pipe # <<>> /\ Sees(Head(pipe)))
Erred   == process = "failed" \/ signaled
WaitFailed ==
  /\ Over /\ Erred /\ process' = "none" /\ pipe' = <<>> /\ refused' = Flushed
  /\ Fail(IF interrupted THEN "interrupted" ELSE IF Flushed THEN "mounts" ELSE "program")
  /\ parser' = IF pipe = <<>> THEN parser ELSE Parse(Head(pipe))
  /\ UNCHANGED <<host, program, at, signaled, interrupted, product, fault>>

(* It finished: that its log may be lost is looked at before the refusal,  *)
(* which fails a run that finished all the same.                           *)
LogLost ==
  /\ Watched /\ Over /\ ~Erred /\ process' = "none" /\ Breaks("log")
  /\ UNCHANGED <<host, program, at, signaled, pipe, refused, interrupted, product, parser>>
WaitRefused ==
  /\ Over /\ ~Erred /\ Flushed /\ process' = "none" /\ Fail("mounts")
  /\ UNCHANGED <<host, program, at, signaled, pipe, refused, interrupted, product, parser, fault>>

(* Between two programs the build reports its own phases.                  *)
Reported(t, p) ==
  IF Name = "tools-tree" THEN [p EXCEPT !.table = Finished(t, "make-tools-tree")]
  ELSE IF Name = "mkosi-tools"
  THEN Advance(List, [p EXCEPT !.table = Finished(t, "make-tools-tree")],
               IF kind.offline THEN "install-requested" ELSE "download")
  ELSE IF Name = "gzip" THEN Advance(List, p, "over")
  ELSE IF Name = "tool" /\ program = Len(Plan)
  THEN [p EXCEPT !.table = Finished(t, "assemble-disk")] ELSE p
WaitDone ==
  /\ Over /\ ~Erred /\ ~Flushed /\ process' = "none" /\ pipe' = <<>> /\ signaled' = FALSE
  /\ LET p == IF pipe = <<>> THEN parser ELSE Parse(Head(pipe)) IN parser' = Reported(p.table, p)
  /\ IF program < Len(Plan)
     THEN program' = program + 1 /\ at' = 1 /\ UNCHANGED stage
     ELSE stage' = (IF Fedora(kind) THEN "clean" ELSE "records") /\ UNCHANGED <<program, at>>
  /\ UNCHANGED <<host, refused, interrupted, product, verdict, fault>>

(* The lock is composed, or checked, from what the programs gave; that     *)
(* fails if a file is not there, or if the host fails it.                  *)
Records ==
  /\ stage = "records"
  /\ \/ /\ Reads(kind) \subseteq given /\ Ended(LockPhase(kind))
        /\ stage' = (IF Disk(kind) THEN "clean" ELSE "place") /\ UNCHANGED <<verdict, fault>>
     \/ /\ Began(LockPhase(kind)) /\ Fail("lock")
        /\ fault' = (fault \/ Reads(kind) \subseteq given)
  /\ UNCHANGED <<host, running, product, interrupted>>

(* The tree is removed by a program of its own that no interrupt reaches:  *)
(* mkosi's before the lock, with its log closed after it, the disk tools'  *)
(* before anything is placed.                                              *)
UnlessInterrupted == ~interrupted
RemovalStarts == TRUE
Remaining(r)  == removal' = r /\ UNCHANGED tree
Removed == RemovalStarts /\ tree' = "none" /\ removal' = "done"
NotRemoved == Remaining(IF RemovalStarts THEN "failed" ELSE "not-started")
CleanTree ==
  /\ stage = "clean"
  /\ \/ Removed /\ stage' = (IF Fedora(kind) THEN "records" ELSE "place") /\ UNCHANGED <<verdict, fault>>
     \/ Removed /\ Fedora(kind) /\ Breaks("log")
     \/ NotRemoved /\ Breaks("tree")
  /\ UNCHANGED <<host, running, interrupted, image, given, parser>>

Place ==
  /\ stage = "place"
  /\ \/ Ended("place") /\ stage' = "over" /\ verdict' = "placed" /\ UNCHANGED fault
     \/ Began("place") /\ Breaks("place")
  /\ UNCHANGED <<host, running, product, interrupted>>

(* A failed build removes the tree it still has, once, and forgets how     *)
(* that went.                                                              *)
FailBuild ==
  /\ stage = "failing" /\ stage' = "over"
  /\ IF tree = "there" /\ removal = "none" THEN Removed \/ NotRemoved ELSE UNCHANGED <<tree, removal>>
  /\ UNCHANGED <<host, running, interrupted, image, given, parser, verdict, fault>>

BootstrapNext ==
  \/ VerifyPool \/ Start \/ StageFails \/ Step \/ Exit \/ Interrupt \/ Signal \/ Read
  \/ WaitFailed \/ LogLost \/ WaitRefused \/ WaitDone
  \/ Records \/ CleanTree \/ Place \/ FailBuild
BootstrapSpec == BootstrapInit /\ [][BootstrapNext]_vars

-----------------------------------------------------------------------------
BootstrapTypeOK ==
  /\ kind \in Kinds /\ omits \subseteq Omitted /\ {refuses, refused, interrupted, signaled, fault} \subseteq BOOLEAN
  /\ program \in DOMAIN Plan /\ at \in 1..Len(Steps) + 1 /\ Len(pipe) <= PipeSize
  /\ process \in {"none", "running", "ok", "failed"}
  /\ image \in [ImageFiles -> Contents] /\ tree \in {"none", "there"}
  /\ removal \in {"none", "done", "failed", "not-started"}
  /\ parser.table \in [ToSet(List) -> Statuses]
  /\ stage \in {"verify", "programs", "clean", "records", "place", "failing", "over"}

(* A build says what happened: that the user interrupted it only when he   *)
(* did and not when the watch stopped the run, that nothing would be       *)
(* mounted only when the host refused, and a failure with neither has one  *)
(* thing of the host that failed by itself: no step runs before what it    *)
(* needs is there, or after it is gone.  And however a build ends, also    *)
(* interrupted, its tools tree is gone unless removing it failed.          *)
VerdictIsTrue ==
  /\ verdict = "interrupted" => interrupted
  /\ verdict = "mounts" => refuses
  /\ verdict \notin {"none", "placed", "interrupted", "mounts"} => fault
  /\ stage = "over" /\ tree = "there" => removal = "failed"

(* An image is placed only when it was installed with everything mounted,  *)
(* however late the watch read that it was not; it then holds all the      *)
(* recipe promises and nothing of the build or of its host, such as the    *)
(* resolver pip needed, the certificates of --ca-bundle or pip's report,   *)
(* and the tree that made it is gone.                                      *)
PlacedIsClean ==
  verdict = "placed" =>
    /\ ~refuses /\ tree = "none"
    /\ \A p \in ImageFiles : image[p] \notin {"build", "host"}
    /\ \A p \in Promised(kind) : image[p] = "recipe"

(* What the display shows goes forward: a phase that runs or is done has   *)
(* every listed one before it done, also when a newer mmdebstrap leaves an *)
(* announcement out, and a placed image leaves none open.  Python's alone  *)
(* may stay unannounced.                                                   *)
Told(p) == ~(p = "install-python" /\ p \in omits)
PhasesGoForward ==
  /\ \A i, j \in DOMAIN List : i < j /\ parser.table[List[j]] # "pending" /\ Told(List[i])
       => parser.table[List[i]] = "done"
  /\ verdict = "placed" => \A p \in ToSet(List) : Told(p) => parser.table[p] = "done"
=============================================================================
