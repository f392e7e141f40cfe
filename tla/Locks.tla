------------------------------- MODULE Locks -------------------------------
(***************************************************************************)
(* What frostroot.lock records of an online build and what an offline      *)
(* build makes of it: src/internal/builder (composeLock, recordChecksums,  *)
(* the Python report, planOffline, planFedoraOffline, compareWithLock) and *)
(* src/internal/pool (Manifest, WheelManifest).  Pure operators; the       *)
(* builds that use them are the actions of Rebuild.                        *)
(*                                                                         *)
(* A package file's digest stands for its checksum, size and path; a       *)
(* source's place ("at") for its URL, suite and components; the release    *)
(* for the suite and the one architecture.  A digest of Nothing is an      *)
(* empty string in the lock.                                               *)
(***************************************************************************)
EXTENDS Integers, Sequences, FiniteSets, FiniteSetsExt, SequencesExt

CONSTANTS
  Nothing,          \* an absent value, or "" where the lock has a digest
  Essential,        \* EssentialPackages
  PythonNeeds,      \* PythonPackages
  DiskNeeds,        \* the release's DiskPackages
  DiskTools,        \* DiskToolsPackages
  FedoraBase,       \* FedoraBasePackages
  FedoraTools,      \* fedoraToolsPackages
  Langpack,         \* Langpack[lang]: the package a locale needs, Nothing for C
  FedoraRepos,      \* the release's repositories, in order
  FedoraKey,        \* the digest of the key frostroot carries
  PinnedPip,        \* the pip an online build installs first, as a wheel
  Project           \* Project[p]: the name PyPI compares for p's spelling

ASSUME PinnedPipAssumption ==
  /\ PinnedPip \in [name : {PinnedPip.name}, version : {PinnedPip.version}, auto : {TRUE},
                   digest : {PinnedPip.digest}]
  /\ Project[PinnedPip.name] = "pip" /\ PinnedPip.digest # Nothing

(* The lists built into the program are not empty, nor is Fedora's key.    *)
ASSUME ListsAssumption ==
  /\ {} \notin {Essential, DiskTools, FedoraBase, FedoraTools}
  /\ FedoraRepos \in Seq(Range(FedoraRepos)) /\ FedoraKey # Nothing

(* No lock was written, and a lock without a [python] table.               *)
NoLock   == [distro |-> ""]
NoPython == [requested |-> {}, index |-> ""]

(* What a build asks the package manager for.                              *)
PackagesToInstall(r) ==
  r.include \cup (IF r.python # {} THEN PythonNeeds ELSE {}) \cup Essential

DiskPackagesToInstall(r) == PackagesToInstall(r) \cup (IF r.target = "disk" THEN DiskNeeds ELSE {})

FedoraLangpack(r) == {Langpack[r.lang]} \ {Nothing}

FedoraPackagesToInstall(r) == r.include \cup FedoraLangpack(r) \cup FedoraBase

KeyOf(p) == <<p.name, p.version, p.arch>>

(***************************************************************************)
(* The online build's record: where each installed package came from.      *)
(***************************************************************************)

(* The origins of the apt indexes, lowest rank first: the recipe's sources *)
(* from the last to the first, then the archive's pockets, -security last. *)
IndexOrigins(sources) ==
  Reverse([i \in DOMAIN sources |-> [source |-> sources[i].name, at |-> sources[i].at]])
    \o <<[source |-> "", at |-> "release"], [source |-> "", at |-> "updates"],
         [source |-> "", at |-> "security"]>>

(* The rank of the origin an index file belongs to: the first that fits.   *)
OriginOf(at, origins) == Min({i \in DOMAIN origins : origins[i].at = at})

(* Every installed package's digest and source, from the indexes the image *)
(* was installed from; Nothing if one is listed nowhere, or indexes        *)
(* disagree about one.  The highest origin that lists it is its source.    *)
RecordChecksums(lists, installed, origins) ==
  LET places == {o.at : o \in Range(origins)}
      Listing(p) == {at \in places : \E e \in lists[at] : KeyOf(e) = KeyOf(p)}
      DigestsOf(p) == {e.digest : e \in {e \in UNION {lists[at] : at \in places} : KeyOf(e) = KeyOf(p)}}
      SourceOf(p) == origins[Max({OriginOf(at, origins) : at \in Listing(p)})].source
  IN IF \E p \in installed : \A d \in DigestsOf(p) : d = Nothing \/ DigestsOf(p) # {d} THEN Nothing
     ELSE {[p EXCEPT !.digest = CHOOSE d \in DigestsOf(p) : TRUE, !.source = SourceOf(p)] : p \in installed}

(* apt's own view of an architecture: "all" counts as native.              *)
AptArchitecture(arch) == IF arch = "all" THEN "amd64" ELSE arch

MarkAutoInstalled(installed, marks) ==
  {[p EXCEPT !.reason = IF <<p.name, AptArchitecture(p.arch)>> \in marks THEN "auto" ELSE ""] : p \in installed}

RenderInRawArchitecture(packages) ==
  {<<p.name, p.arch>> : p \in {p \in packages : p.reason = "auto"}}
RenderExtendedStates(packages) ==
  {<<p.name, AptArchitecture(p.arch)>> : p \in {p \in packages : p.reason = "auto"}}

LockRepositories(sources, files) ==
  {[name |-> s.name, at |-> s.at, key |-> files[s.name]] : s \in Range(sources)}

LockCertificates(paths, files) == {[path |-> c, digest |-> files[c]] : c \in paths}

(* The lines the image's sources.list keeps, and the lock records.         *)
SourceLines(sources) == <<"release", "updates", "security">> \o [i \in DOMAIN sources |-> sources[i].at]

(***************************************************************************)
(* Python.  A wheel is [name, version, auto, digest].                      *)
(***************************************************************************)
Named(wheels, project) == {w \in wheels : Project[w.name] = project}

WithPinnedPip(wheels) == IF Named(wheels, "pip") # {} THEN wheels ELSE wheels \cup {PinnedPip}

(* What the lock records of pip's report; Nothing if the report is empty,  *)
(* lists what cannot be locked, or lacks what the recipe asked for.        *)
ParsePipReport(report, requested) ==
  LET wheels == WithPinnedPip(report)
  IN IF \/ report = {} \/ \E w \in report : w.digest = Nothing
        \/ \E p \in requested : Named(wheels, Project[p]) = {}
     THEN Nothing ELSE wheels

(* A build that resolved from an index of the recipe's puts the pip that   *)
(* the pinned step installed in the place of the one it has.               *)
WithResolvedPin(wheels, pin) == (wheels \ Named(wheels, "pip")) \cup {[pin EXCEPT !.auto = TRUE]}

LockedPip(lock) == Named(lock.pypi, "pip")

(* What python3 -m venv puts in an environment before anything else.       *)
Seeds == {"pip", "setuptools", "wheel", "pkg-resources"}

(* The environment holds exactly the lock's wheels, seeds aside.           *)
PythonAsLocked(lock, env) ==
  /\ \A w \in env : \/ Project[w.name] \in Seeds /\ Named(lock.pypi, Project[w.name]) = {}
                    \/ \E l \in Named(lock.pypi, Project[w.name]) : l.version = w.version
  /\ \A l \in lock.pypi : Named(env, Project[l.name]) # {}

(***************************************************************************)
(* The pool a lock asks for.                                               *)
(***************************************************************************)
FileName(p) == <<p.name, p.version, p.arch>>
WheelFile(w) == <<w.name, w.version, "whl">>
Entry(p) == [file |-> FileName(p), digest |-> p.digest, source |-> p.source]

(* Once each: a file the image and the tools tree share is vendored once.  *)
Manifest(lock) ==
  LET tools == IF lock.distro = "fedora" THEN lock.tools ELSE lock.diskTools
      all   == lock.packages \cup tools
  IN IF lock.packages = {} \/ \E p \in lock.packages : p.digest = Nothing THEN "no checksums"
     ELSE IF \E p \in tools : p.digest = Nothing
     THEN IF lock.distro = "fedora" THEN "no checksums" ELSE "bad lock"
     ELSE IF \/ \E p \in all : /\ lock.distro = "fedora" \/ p.source # ""
                               /\ ~\E l \in lock.repositories : l.name = p.source
             \/ lock.distro = "ubuntu" /\ \E p, q \in lock.packages : p # q /\ FileName(p) = FileName(q)
             \/ \E p, q \in all : FileName(p) = FileName(q) /\ p.digest # q.digest
     THEN "bad lock" ELSE ""

Entries(lock) ==
  LET tools == IF lock.distro = "fedora" THEN lock.tools ELSE lock.diskTools
      first(f) == IF \E p \in lock.packages : FileName(p) = f
                  THEN CHOOSE p \in lock.packages : FileName(p) = f
                  ELSE CHOOSE p \in tools : FileName(p) = f
  IN {Entry(first(FileName(p))) : p \in lock.packages \cup tools}

WheelManifest(lock) == IF \E w \in lock.pypi : w.digest = Nothing THEN "no checksums" ELSE ""

WheelEntries(lock) == {[file |-> WheelFile(w), digest |-> w.digest, source |-> "pypi"] : w \in lock.pypi}

(* The entries of one of the two: neither build sees the other's versions. *)
EveryEntry(entries, packages) == entries
EntriesFor(entries, packages) == {e \in entries : \E p \in packages : FileName(p) = e.file}

(* The local repositories of an offline Fedora build, one per repository.  *)
FedoraStages(entries, packages) ==
  [r \in Range(FedoraRepos) |-> EntriesFor(entries, {p \in packages : p.source = r})]

(***************************************************************************)
(* Whether the lock still describes the recipe.  "" is yes.                *)
(***************************************************************************)
NormalizedPythonNames(names) == {Project[p] : p \in names}

RepositoryDifferences(lock, r) ==
  \/ {l.name : l \in lock.repositories} # {s.name : s \in Range(r.sources)}
  \/ \E s \in Range(r.sources), l \in lock.repositories : l.name = s.name /\ l.at # s.at

(* A key the lock does not record is a difference of its own.              *)
SourceKeyDifferences(lock, r, files) ==
  \E l \in lock.repositories, s \in Range(r.sources) : l.name = s.name /\ l.key # files[s.name]

CertificateDifferences(lock, r, files) == LockCertificates(r.certificates, files) # lock.certificates

UbuntuDifferences(lock, r, files) ==
  \/ lock.release # r.release \/ lock.requested # r.include
  \/ NormalizedPythonNames(lock.python.requested) # NormalizedPythonNames(r.python)
  \/ RepositoryDifferences(lock, r) \/ SourceKeyDifferences(lock, r, files)
  \/ CertificateDifferences(lock, r, files) \/ lock.python.index # r.index

PlanUbuntu(lock, r, files) ==
  IF Manifest(lock) # "" THEN Manifest(lock)
  ELSE IF (r.target = "disk" /\ lock.diskTools = {}) \/ lock.sources = <<>> THEN "bad lock"
  ELSE IF UbuntuDifferences(lock, r, files) THEN "mismatch" ELSE WheelManifest(lock)

(* The repositories are the release's, every package has one, the image's  *)
(* have dnf5's reasons, and no name is locked twice.                       *)
CheckFedoraLockPackages(lock) ==
  /\ \A l \in lock.repositories : l.name \in Range(FedoraRepos)
  /\ \A part \in {lock.packages, lock.tools} :
       /\ part # {}
       /\ \A p \in part : \E l \in lock.repositories : l.name = p.source
       /\ \A p, q \in part : p.name = q.name /\ p.arch = q.arch => p = q
  /\ \A p \in lock.packages : p.reason \in {"User", "Dependency", "Weak Dependency"}

FedoraDifferences(lock, r) ==
  \/ lock.release # r.release \/ lock.requested # r.include
  \/ \E n \in FedoraLangpack(r) : ~\E p \in lock.packages : p.name = n
  \/ \E l \in lock.repositories : l.key # FedoraKey

PlanFedora(lock, r) ==
  IF Manifest(lock) # "" THEN Manifest(lock)
  ELSE IF ~CheckFedoraLockPackages(lock) THEN "bad lock"
  ELSE IF FedoraDifferences(lock, r) THEN "mismatch" ELSE ""

(* A lock of another family, or for another target, is read no further.    *)
PlanOffline(lock, r, files) ==
  IF lock = NoLock THEN "no lock"
  ELSE IF lock.distro # r.distro \/ lock.target # r.target THEN "mismatch"
  ELSE IF r.distro = "fedora" THEN PlanFedora(lock, r) ELSE PlanUbuntu(lock, r, files)

(* The packages installed are exactly the locked ones.                     *)
PackagesAsLocked(locked, installed) == {KeyOf(p) : p \in locked} = {KeyOf(p) : p \in installed}

(* A Fedora package also comes from the repository it is locked from.      *)
RepositoriesAsLocked(locked, installed) ==
  \A p \in locked, q \in installed : KeyOf(p) = KeyOf(q) => p.source = q.source

(* The instant the image is frozen at: the lock's offline, if it has one.  *)
FrozenInstant(lock, now) == IF lock = NoLock THEN now
                            ELSE IF lock.epoch # Nothing THEN lock.epoch ELSE now
=============================================================================
