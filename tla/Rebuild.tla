------------------------------ MODULE Rebuild ------------------------------
(***************************************************************************)
(* The life of one recipe directory: online builds that write the lock,    *)
(* vendor runs that fill the pool, and offline builds that rebuild from    *)
(* the two, while the user edits the recipe, the files beside it and the   *)
(* lock, and the archives move on (src/internal/builder/builder.go,        *)
(* ubuntu.go, fedora.go, fedoraoffline.go, disktools.go and epoch.go).     *)
(* A build is one step here: how its outputs are placed is Place's, how a  *)
(* pool is filled Fetch's and Vendor's, how mmdebstrap runs Bootstrap's.   *)
(* What the package managers install is external: the newest version the   *)
(* enabled indexes list of every package that is needed.                   *)
(***************************************************************************)
EXTENDS Locks

CONSTANTS
  Recipes,      \* recipes the directory's frostroot.toml may hold
  Worlds,       \* what the archives serve, one after the other
  Needs,        \* Needs[n]: n and what installing it brings
  ArchOf,       \* ArchOf[n]: "amd64" or "all"
  Wheels,       \* Wheels[i]: what pip resolves from an index, by project
  VenvSeeds,    \* what python3 -m venv installs on this release
  Digests,      \* contents a key or certificate file may have
  LockEdits,    \* hand edits of the lock that are tried
  Years,        \* bound: instants, one per build
  Edits         \* bound: edits, damages and publications

VARIABLES
  recipe,       \* frostroot.toml
  files,        \* the key and certificate files beside it, by name
  world,        \* the index of Worlds the archives are at
  now,          \* the clock, in builds
  edits,        \* how often anything but a command changed something
  lock,         \* frostroot.lock, or NoLock
  pool,         \* vendor/: pairs of a file name and its content's digest
  cache,        \* the Fedora package cache: where each file was downloaded
  last,         \* the last command and how it ended
  made          \* history: the build that wrote the lock, and its image

rebuildVars == <<recipe, files, world, now, edits, lock, pool, cache, last, made>>

(* No recipe names an index it takes nothing from, or two sources alike    *)
(* (validate.go); no file that can be read has an empty digest; an archive *)
(* lists finitely many packages, of its machine's architecture or of all;  *)
(* and a package brings itself.                                            *)
ASSUME RecipesAssumption ==
  \A r \in Recipes : /\ r.distro \in {"ubuntu", "fedora"}
                     /\ r.index # "" => r.python # {}
                     /\ r.sources \in Seq(Range(r.sources))
                     /\ \A s, t \in Range(r.sources) : s.name = t.name => s = t
ASSUME DigestsAssumption == Digests # {} /\ Nothing \notin Digests /\ Nothing \notin Nat

ASSUME WorldsAssumption ==
  /\ Worlds # <<>> /\ Worlds \in Seq(Range(Worlds))
  /\ \A i \in DOMAIN Worlds : LET all == UNION {Worlds[i][at] : at \in DOMAIN Worlds[i]}
       IN /\ IsFiniteSet(all)
          /\ \A e \in all : /\ e.version \in Nat /\ e.digest # Nothing
                            /\ e.arch = ArchOf[e.name] /\ e.arch \in {"amd64", "all"}
ASSUME NeedsAssumption ==
  \A n \in Essential \cup DiskTools \cup FedoraBase \cup FedoraTools \cup UNION {FedoraLangpack(r) : r \in Recipes} :
    n \in Needs[n]
ASSUME SeedsAssumption == \A w \in VenvSeeds : Project[w.name] \in Seeds

ASSUME YearsAssumption == Years \in Nat \ {0} /\ Edits \in Nat

Serves(at) == IF at \in DOMAIN Worlds[world] THEN Worlds[world][at] ELSE {}
Lists == [at \in UNION {DOMAIN Worlds[i] : i \in DOMAIN Worlds} |-> Serves(at)]

(* External: the newest version of everything the names bring.             *)
Newest(offers, n) == CHOOSE e \in offers : /\ e.name = n
                                           /\ \A o \in offers : o.name = n => o.version <= e.version
Installed(offers, names) ==
  {[name |-> n, version |-> Newest(offers, n).version, arch |-> ArchOf[n], reason |-> "",
    source |-> "", digest |-> Nothing] : n \in UNION {Needs[m] : m \in names}}
Available(offers, names) == \A n \in UNION {Needs[m] : m \in names} : \E o \in offers : o.name = n

Content(packages) == {KeyOf(p) : p \in packages}
Env(wheels) == {<<Project[w.name], w.version>> : w \in wheels}

(* External: pip in a new environment, the pinned pip first, then the      *)
(* resolution, which takes the place of what was there.                    *)
Environment(first, then) ==
  LET over(base, wheels) == {w \in base : Named(wheels, Project[w.name]) = {}} \cup wheels
  IN over(over(VenvSeeds, first), then)

Report(r) == {w \in Wheels[r.index] : \E p \in r.python : w.name \in Needs[Project[p]]}

(* Nothing has been built.                                                 *)
RebuildInit ==
  /\ recipe \in Recipes
  /\ files = [f \in UNION {r.certificates \cup {s.name : s \in Range(r.sources)} : r \in Recipes} |->
                CHOOSE d \in Digests : TRUE]
  /\ world = 1 /\ now = 1 /\ edits = 0 /\ lock = NoLock /\ pool = {} /\ cache = {} /\ made = Nothing
  /\ last = [command |-> "none", outcome |-> "", image |-> Nothing, slip |-> FALSE]

Outcome(command, outcome, image) ==
  last' = [command |-> command, outcome |-> outcome, image |-> image, slip |-> FALSE]

(***************************************************************************)
(* The environment.                                                        *)
(***************************************************************************)
Edit == /\ edits < Edits /\ edits' = edits + 1
        /\ Outcome("edit", "", Nothing)

EditRecipe ==
  /\ \E r \in Recipes : r # recipe /\ recipe' = r
  /\ Edit
  /\ UNCHANGED <<files, world, now, lock, pool, cache, made>>

ReplaceFile ==
  /\ \E f \in DOMAIN files, d \in Digests : d # files[f] /\ files' = [files EXCEPT ![f] = d]
  /\ Edit
  /\ UNCHANGED <<recipe, world, now, lock, pool, cache, made>>

(* A publication: from here on the archives serve something else.          *)
ArchiveMoves ==
  /\ world < Len(Worlds) /\ world' = world + 1
  /\ Edit
  /\ UNCHANGED <<recipe, files, now, lock, pool, cache, made>>

(* The lock is a text file: a field of it goes.                            *)
LosesKeys    == {[l EXCEPT !.key = Nothing] : l \in lock.repositories}
LosesDigests == {[p EXCEPT !.digest = Nothing] : p \in lock.packages}
EditLock ==
  /\ lock # NoLock /\ ~made.edited
  /\ \/ "sources" \in LockEdits    /\ lock' = [lock EXCEPT !.sources = <<>>]
     \/ "key" \in LockEdits        /\ lock' = [lock EXCEPT !.repositories = LosesKeys]
     \/ "digest" \in LockEdits     /\ lock' = [lock EXCEPT !.packages = LosesDigests]
     \/ "tools" \in LockEdits      /\ lock' = [lock EXCEPT !.diskTools = {}, !.tools = {}]
     \/ "repository" \in LockEdits /\ lock' = [lock EXCEPT !.repositories = {}]
  /\ lock' # lock
  /\ made' = [made EXCEPT !.edited = TRUE]
  /\ Edit
  /\ UNCHANGED <<recipe, files, world, now, pool, cache>>

(* A file of the pool is damaged.                                          *)
SpoilPool ==
  /\ \E f \in pool : f[2] # "spoilt" /\ pool' = (pool \ {f}) \cup {<<f[1], "spoilt">>}
  /\ Edit
  /\ UNCHANGED <<recipe, files, world, now, lock, cache, made>>

(***************************************************************************)
(* An online build.                                                        *)
(***************************************************************************)
Pockets == {"release", "updates", "security"}

ToolsOffers == UNION {Serves(at) : at \in Pockets}

UbuntuBuild(r, offers, wheels, env) ==
  LET names == DiskPackagesToInstall(r)
      there == Installed(offers, names)
      \* what apt marked: everything that was not asked for
      marks == {<<p.name, AptArchitecture(p.arch)>> : p \in {p \in there : p.name \notin names}}
      tools == IF r.target = "disk"
               THEN RecordChecksums(Lists, Installed(ToolsOffers, DiskTools), IndexOrigins(<<>>)) ELSE {}
      listed == RecordChecksums(Lists, there, IndexOrigins(r.sources))
  IN IF Nothing \in {listed, tools, wheels} THEN Nothing ELSE
     [lock |->
        [distro |-> "ubuntu", target |-> r.target, release |-> r.release, requested |-> r.include,
         sources |-> SourceLines(r.sources), epoch |-> now,
         repositories |-> LockRepositories(r.sources, files),
         certificates |-> LockCertificates(r.certificates, files),
         packages |-> MarkAutoInstalled(listed, marks), pypi |-> wheels,
         python |-> IF r.python = {} THEN NoPython ELSE [requested |-> r.python, index |-> r.index],
         disk |-> IF r.target = "disk" THEN r.size ELSE Nothing, diskTools |-> tools, tools |-> {}],
      image |->
        [content |-> Content(there), marks |-> marks, wheels |-> Env(env), sources |-> SourceLines(r.sources),
         keys |-> LockRepositories(r.sources, files), certificates |-> LockCertificates(r.certificates, files),
         epoch |-> now, disk |-> IF r.target = "disk" THEN r.size ELSE Nothing]]

(* Online the report is pip's; with an index of the recipe's, the pip the  *)
(* pinned step installed is recorded from its own report.                  *)
BuildUbuntu(r) ==
  LET offers == ToolsOffers \cup UNION {Serves(s.at) : s \in Range(r.sources)}
      parsed == ParsePipReport(Report(r), r.python)
      wheels == IF r.python = {} THEN {}
                ELSE IF parsed = Nothing \/ r.index = "" THEN parsed ELSE WithResolvedPin(parsed, PinnedPip)
      env    == IF r.python = {} THEN {} ELSE Environment({PinnedPip}, Report(r))
  IN IF /\ Available(offers, DiskPackagesToInstall(r))
        /\ r.target = "disk" => Available(ToolsOffers, DiskTools)
     THEN UbuntuBuild(r, offers, wheels, env) ELSE Nothing

(* dnf5's own record of one package: from the repository that has its      *)
(* newest version, the first one of two that do.                           *)
FromRepo(p) == FedoraRepos[Min({i \in DOMAIN FedoraRepos :
                 \E e \in Serves(FedoraRepos[i]) : KeyOf(e) = KeyOf(p)})]
FedoraOffers == UNION {Serves(r) : r \in Range(FedoraRepos)}

(* What a package manager downloads stays in the cache, by repository.     *)
Downloads(manager, packages) == {<<manager, FromRepo(p), FileName(p)>> : p \in packages}

(* lockTools: the first repository whose download the cache holds.         *)
CachedRepository(held, manager, p) ==
  FedoraRepos[Min({i \in DOMAIN FedoraRepos : <<manager, FedoraRepos[i], FileName(p)>> \in held})]

BuildFedora(r) ==
  LET asked == FedoraPackagesToInstall(r)
      there == {[p EXCEPT !.reason = IF p.name \in asked THEN "User" ELSE "Dependency", !.source = FromRepo(p)] :
                  p \in Installed(FedoraOffers, asked)}
      tools == Installed(FedoraOffers, FedoraTools)
      held  == cache \cup Downloads("libdnf5", there) \cup Downloads("dnf", tools)
      digestOf(p) == CHOOSE d \in {e.digest : e \in {e \in FedoraOffers : KeyOf(e) = KeyOf(p)}} : TRUE
      packages == {[p EXCEPT !.digest = digestOf(p)] : p \in there}
  IN IF ~Available(FedoraOffers, asked \cup FedoraTools) THEN Nothing ELSE
     [lock |->
        [distro |-> "fedora", target |-> r.target, release |-> r.release, requested |-> r.include,
         sources |-> <<>>, epoch |-> now,
         repositories |-> {[name |-> n, at |-> n, key |-> FedoraKey] : n \in Range(FedoraRepos)},
         certificates |-> {}, packages |-> packages, pypi |-> {}, python |-> NoPython, disk |-> Nothing,
         diskTools |-> {},
         tools |-> {[p EXCEPT !.digest = digestOf(p), !.source = CachedRepository(held, "dnf", p)] : p \in tools}],
      image |->
        [content |-> Content(there), marks |-> {<<p.name, p.reason>> : p \in there}, wheels |-> {},
         sources |-> <<>>, keys |-> {}, certificates |-> {}, epoch |-> now, disk |-> Nothing]]

BuildOnline ==
  LET built == IF recipe.distro = "fedora" THEN BuildFedora(recipe) ELSE BuildUbuntu(recipe)
  IN /\ now < Years /\ now' = now + 1
     /\ IF built = Nothing
        THEN Outcome("online", "failed", Nothing) /\ UNCHANGED <<lock, made>>
        ELSE /\ lock' = built.lock
             /\ made' = [image |-> built.image, recipe |-> recipe, files |-> files, edited |-> FALSE]
             /\ Outcome("online", "placed", built.image)
     /\ cache' = IF recipe.distro = "fedora" /\ Available(FedoraOffers, FedoraPackagesToInstall(recipe) \cup FedoraTools)
                 THEN cache \cup Downloads("libdnf5", Installed(FedoraOffers, FedoraPackagesToInstall(recipe)))
                            \cup Downloads("dnf", Installed(FedoraOffers, FedoraTools))
                 ELSE cache
     /\ UNCHANGED <<recipe, files, world, edits, pool>>

(***************************************************************************)
(* vendor, and an offline build.                                           *)
(***************************************************************************)
PoolEntries == Entries(lock) \cup WheelEntries(lock)
Held(entries) == \A e \in entries : <<e.file, e.digest>> \in pool

(* A file the archive dropped is still at Launchpad, Koji or PyPI; one of  *)
(* another source is gone with it.                                         *)
Fetchable(e) ==
  \/ lock.distro = "fedora" \/ e.source \in {"", "pypi"}
  \/ \E l \in lock.repositories : /\ l.name = e.source
                                  /\ \E o \in Serves(l.at) : FileName(o) = e.file /\ o.digest = e.digest

Vendor ==
  LET refused == IF lock = NoLock THEN "no lock" ELSE IF Manifest(lock) # "" THEN Manifest(lock) ELSE WheelManifest(lock)
      wanted == {e \in PoolEntries : <<e.file, e.digest>> \notin pool}
      fetched == {e \in wanted : Fetchable(e)}
  IN /\ IF refused # ""
        THEN Outcome("vendor", refused, Nothing) /\ UNCHANGED pool
        ELSE /\ pool' = {f \in pool : f[1] \notin {e.file : e \in fetched}} \cup {<<e.file, e.digest>> : e \in fetched}
             /\ Outcome("vendor", IF fetched = wanted THEN "" ELSE "failed", Nothing)
     /\ UNCHANGED <<recipe, files, world, now, edits, lock, cache, made>>

(* What the package managers install from a repository of the entries.     *)
FromPool(entries) == {[name |-> e.file[1], version |-> e.file[2], arch |-> e.file[3], source |-> e.source] : e \in entries}
NewestOf(offers) == {o \in offers : \A q \in offers : q.name = o.name => q.version <= o.version}
(* External: the package manager may leave one out and say nothing of it.  *)
Left(offers, slip) == IF slip /\ offers # {} THEN offers \ {CHOOSE o \in offers : TRUE} ELSE offers

(* What it is compared with the lock for, and the image it makes.          *)
UbuntuFromPool(slip) == Left(NewestOf(FromPool(EntriesFor(Entries(lock), lock.packages))), slip)
ToolsFromPool == NewestOf(FromPool(EntriesFor(Entries(lock), lock.diskTools)))
PythonFromPool == IF lock.pypi = {} THEN {} ELSE Environment(LockedPip(lock), lock.pypi)

UbuntuAsLocked(slip) ==
  /\ PackagesAsLocked(lock.packages, UbuntuFromPool(slip))
  /\ recipe.target = "disk" => PackagesAsLocked(lock.diskTools, ToolsFromPool)
  /\ PythonAsLocked(lock, PythonFromPool)
RebuildUbuntu(slip) ==
  [content |-> Content(UbuntuFromPool(slip)), marks |-> RenderExtendedStates(lock.packages),
   wheels |-> Env(PythonFromPool), sources |-> lock.sources,
   keys |-> LockRepositories(recipe.sources, files),
   certificates |-> LockCertificates(recipe.certificates, files),
   epoch |-> FrozenInstant(lock, now), disk |-> lock.disk]

FromStages(packages) == UNION {FromPool(FedoraStages(Entries(lock), packages)[r]) : r \in Range(FedoraRepos)}
FedoraAsLocked(slip) ==
  LET there == Left(FromStages(lock.packages), slip)
  IN /\ PackagesAsLocked(lock.packages, there) /\ RepositoriesAsLocked(lock.packages, there)
     /\ PackagesAsLocked(lock.tools, FromStages(lock.tools))
RebuildFedora(slip) ==
  [content |-> Content(Left(FromStages(lock.packages), slip)),
   marks |-> {<<p.name, p.reason>> : p \in lock.packages}, wheels |-> {},
   sources |-> <<>>, keys |-> {}, certificates |-> {}, epoch |-> FrozenInstant(lock, now), disk |-> Nothing]

BuildsOffline(slip) ==
  LET refused == PlanOffline(lock, recipe, files)
      image == IF recipe.distro = "fedora" THEN RebuildFedora(slip) ELSE RebuildUbuntu(slip)
      asLocked == IF recipe.distro = "fedora" THEN FedoraAsLocked(slip) ELSE UbuntuAsLocked(slip)
      outcome == IF refused # "" THEN refused
                 ELSE IF ~Held(PoolEntries) THEN "pool incomplete"
                 ELSE IF ~asLocked THEN "differs from the lock" ELSE "placed"
  IN last' = [command |-> "offline", outcome |-> outcome, slip |-> slip,
              image |-> IF outcome = "placed" THEN image ELSE Nothing]
BuildOffline ==
  /\ now < Years /\ now' = now + 1
  /\ \E slip \in BOOLEAN : BuildsOffline(slip)
  /\ UNCHANGED <<recipe, files, world, edits, lock, pool, cache, made>>

RebuildNext == \/ EditRecipe \/ ReplaceFile \/ ArchiveMoves \/ EditLock \/ SpoilPool
               \/ BuildOnline \/ Vendor \/ BuildOffline
RebuildSpec == RebuildInit /\ [][RebuildNext]_rebuildVars

(***************************************************************************)
(* Properties.                                                             *)
(***************************************************************************)
Reasons == {"", "auto", "User", "Dependency"}
PackageType(p) ==
  /\ DOMAIN p = {"name", "version", "arch", "reason", "source", "digest"}
  /\ p.arch \in {"amd64", "all"}
  /\ p.reason \in Reasons
ImageParts == {"content", "marks", "wheels", "sources", "keys", "certificates", "epoch", "disk"}
RebuildTypeOK ==
  /\ recipe \in Recipes /\ files \in [DOMAIN files -> Digests] /\ world \in DOMAIN Worlds
  /\ now \in 1..Years /\ edits \in 0..Edits
  /\ IF lock = NoLock THEN made = Nothing
     ELSE /\ DOMAIN made = {"image", "recipe", "files", "edited"}
          /\ \A p \in lock.packages \cup lock.diskTools \cup lock.tools : PackageType(p)
  /\ \A d \in cache : d[1] \in {"libdnf5", "dnf"} /\ d[2] \in Range(FedoraRepos)
  /\ last.command \in {"none", "edit", "online", "vendor", "offline"}
  /\ IF last.outcome = "placed" THEN DOMAIN last.image = ImageParts ELSE last.image = Nothing

(* The image an offline build places is the image of the build that wrote  *)
(* the lock: its packages, their marks, its Python environment, its source *)
(* lines, keys, certificates, instant and disk, whatever was edited and    *)
(* published since; what would make another image was refused.             *)
RebuildsTheImage ==
  last.command = "offline" /\ last.outcome = "placed" => last.image = made.image

(* An offline build of the recipe a lock was written for, the files beside *)
(* it and the lock itself untouched and the pool complete, is not refused  *)
(* unless the package manager slips; nor is vendor's reading of a lock no  *)
(* one edited.                                                             *)
RefusedForACause ==
  /\ last.command = "offline" /\ lock # NoLock =>
       \/ last.outcome = "placed" \/ last.slip \/ made.edited \/ ~Held(PoolEntries)
       \/ recipe # made.recipe \/ files # made.files
  /\ last.command = "vendor" /\ lock # NoLock => made.edited \/ last.outcome \in {"", "failed"}

(* The lock says of the Python environment what an online build left in    *)
(* the image, the seeds it does not name aside.                            *)
LockTellsTheImage ==
  last.command = "online" /\ last.outcome = "placed" =>
    Env(lock.pypi) = {w \in made.image.wheels : w[1] \in Seeds => Named(lock.pypi, w[1]) # {}}
=============================================================================
