---------------------------- MODULE BuildProofs ----------------------------
(***************************************************************************)
(* Proofs about Rebuild, and about the disk images of DiskLayout.          *)
(*                                                                         *)
(* An offline build places the image the lock was written with because the *)
(* lock always tells that image: RebuildInv.  It refuses an unedited lock  *)
(* and an unedited recipe only for a cause because a lock that a build     *)
(* wrote and nobody edited can be read, and its pool gives back exactly    *)
(* its packages: ReadInv.  What is locked is whole packages: TypeInv.  The *)
(* lists and the recipes are any that satisfy the assumptions of Locks and *)
(* Rebuild.                                                                *)
(*                                                                         *)
(* The properties of a disk follow from DiskInv: every layout a disk is    *)
(* assembled from is one CheckSizes takes, whether it was drawn and sized  *)
(* or read from a lock.                                                    *)
(***************************************************************************)
EXTENDS Rebuild, DiskLayout, FiniteSetTheorems, SequenceTheorems, WellFoundedInduction,
        NaturalsInduction, TLAPS

-----------------------------------------------------------------------------
(* The lock tells the image.                                               *)

(* A record is its fields: what a lock, a package, a repository, an        *)
(* image and the history of a build are, in a form the provers compare.    *)
IsLock(l) ==
  l \in [distro : {l.distro}, target : {l.target}, release : {l.release},
         requested : {l.requested}, sources : {l.sources}, epoch : {l.epoch},
         repositories : {l.repositories}, certificates : {l.certificates},
         packages : {l.packages}, pypi : {l.pypi}, python : {l.python},
         disk : {l.disk}, diskTools : {l.diskTools}, tools : {l.tools}]
IsPackage(p) ==
  p \in [name : {p.name}, version : {p.version}, arch : {p.arch},
         reason : {p.reason}, source : {p.source}, digest : {p.digest}]
IsRepository(l) == l \in [name : {l.name}, at : {l.at}, key : {l.key}]
IsImage(i) ==
  i \in [content : {i.content}, marks : {i.marks}, wheels : {i.wheels},
         sources : {i.sources}, keys : {i.keys}, certificates : {i.certificates},
         epoch : {i.epoch}, disk : {i.disk}]
IsMade(m) ==
  m \in [image : {m.image}, recipe : {m.recipe}, files : {m.files}, edited : {m.edited}]

(* What never changes its kind.                                            *)
FileNames == UNION {r.certificates \cup {s.name : s \in Range(r.sources)} : r \in Recipes}

Typed == recipe \in Recipes /\ files \in [FileNames -> Digests] /\ now \in Nat

(* Manifest refuses such a lock, so nothing is built from it.              *)
WithoutDigests(l) == l.packages = {} \/ \E p \in l.packages : p.digest = Nothing

(* Of the recipe: what planOffline compares first.                         *)
TellsRecipe(l, r) ==
  /\ r \in Recipes
  /\ l.distro = r.distro /\ l.target = r.target
  /\ l.release = r.release /\ l.requested = r.include

(* Of the packages, unless their digests were edited out.                  *)
TellsPackages(l, i, marks) ==
  \/ WithoutDigests(l)
  \/ i.content = Content(l.packages) /\ i.marks = marks

(* Of the sources: all of them, or none with a key, or none at all.        *)
TellsRepositories(l, i, r, keys) ==
  /\ i.keys = LockRepositories(r.sources, keys)
  /\ \/ l.repositories = i.keys
     \/ l.repositories # {} /\ \A q \in l.repositories : q.key = Nothing
     \/ l.repositories = {} /\ "repository" \in LockEdits

(* What an offline build makes of the locked wheels.                       *)
EnvironmentOf(l) == IF l.pypi = {} THEN {} ELSE Environment(LockedPip(l), l.pypi)

(* Of an Ubuntu image.                                                     *)
TellsUbuntu(l, i, r, keys) ==
  /\ TellsPackages(l, i, RenderExtendedStates(l.packages))
  /\ TellsRepositories(l, i, r, keys)
  /\ l.sources = i.sources \/ l.sources = <<>>
  /\ i.wheels = Env(EnvironmentOf(l))
  /\ i.certificates = l.certificates
  /\ i.disk = l.disk

(* Of a Fedora image.                                                      *)
TellsFedora(l, i) ==
  /\ TellsPackages(l, i, {<<p.name, p.reason>> : p \in l.packages})
  /\ i.wheels = {} /\ i.sources = <<>> /\ i.keys = {}
  /\ i.certificates = {} /\ i.disk = Nothing

(* The lock l tells the image i, that was built from the recipe r and      *)
(* from the files keys beside it.                                          *)
Tells(l, i, r, keys) ==
  /\ IsLock(l) /\ IsImage(i) /\ TellsRecipe(l, r)
  /\ l.epoch = i.epoch /\ l.epoch \in Nat
  /\ \A p \in l.packages : IsPackage(p)
  /\ \A q \in l.repositories : IsRepository(q)
  /\ IF l.distro = "fedora" THEN TellsFedora(l, i) ELSE TellsUbuntu(l, i, r, keys)

(* Whatever a hand took out of the lock since.                             *)
LockTells ==
  lock # NoLock => IsMade(made) /\ Tells(lock, made.image, made.recipe, made.files)

(* A lock whose [[repository]] tables were edited out is the one lock      *)
(* planOffline cannot tell from that of a recipe without sources, though   *)
(* its sources lines are still there.  This says that no recipe that is    *)
(* tried takes its sources away and changes nothing else, if that edit is. *)
SourcesAreMissed ==
  "repository" \in LockEdits =>
    \A r, q \in Recipes :
      /\ r.distro = q.distro /\ r.target = q.target
      /\ r.release = q.release /\ r.include = q.include
      /\ r.sources = <<>>
      => q.sources = <<>>

(* No recipe resolves pip from an index of its own: the lock of such a     *)
(* build does not tell its environment (the run pip).                      *)
PipIsPinned == \A r \in Recipes : r.index # "" => Named(Report(r), "pip") = {}

(* The inductive invariant of RebuildsTheImage.                            *)
RebuildInv == Typed /\ LockTells /\ RebuildsTheImage

(* An environment made from the pinned pip and the report, and one made    *)
(* from the lock's pip and wheels, end up the same.                        *)
LEMMA SameEnvironment ==
  ASSUME NEW report, NEW wheels,
         wheels = WithPinnedPip(report)
  PROVE  Environment({PinnedPip}, report) = Environment(Named(wheels, "pip"), wheels)
<1>1. CASE Named(report, "pip") # {}
  <2>1. wheels = report
    BY <1>1 DEF WithPinnedPip
  <2> QED BY <1>1, <2>1, PinnedPipAssumption DEF Environment, Named
<1>2. CASE Named(report, "pip") = {}
  <2>1. wheels = report \cup {PinnedPip}
    BY <1>2 DEF WithPinnedPip
  <2> QED BY <1>2, <2>1, PinnedPipAssumption DEF Environment, Named
<1> QED BY <1>1, <1>2

(* The locked wheels make the environment the online build left.           *)
LEMMA WheelsTold ==
  ASSUME PipIsPinned, NEW r \in Recipes, NEW parsed, NEW wheels, NEW env,
         r.python # {},
         parsed = ParsePipReport(Report(r), r.python),
         wheels = IF parsed = Nothing \/ r.index = "" THEN parsed
                  ELSE WithResolvedPin(parsed, PinnedPip),
         env = Environment({PinnedPip}, Report(r)), wheels # Nothing
  PROVE  wheels # {} /\ env = Environment(Named(wheels, "pip"), wheels)
<1>1. parsed # Nothing
  OBVIOUS
<1>2. parsed = WithPinnedPip(Report(r)) /\ Report(r) # {}
  BY <1>1 DEF ParsePipReport
<1>3. wheels = parsed
  <2>1. CASE r.index = ""
    BY <2>1
  <2>2. CASE r.index # ""
    <3>1. Named(Report(r), "pip") = {}
      BY <2>2 DEF PipIsPinned
    <3>2. parsed = Report(r) \cup {PinnedPip}
      BY <1>2, <3>1 DEF WithPinnedPip
    <3>3. [PinnedPip EXCEPT !.auto = TRUE] = PinnedPip
      BY PinnedPipAssumption
    <3>4. Named(parsed, "pip") = {PinnedPip}
      BY <3>1, <3>2, PinnedPipAssumption DEF Named
    <3>5. PinnedPip \notin Report(r)
      BY <3>1, PinnedPipAssumption DEF Named
    <3> QED BY <1>1, <2>2, <3>2, <3>3, <3>4, <3>5 DEF WithResolvedPin
  <2> QED BY <2>1, <2>2
<1>4. wheels # {}
  BY <1>2, <1>3 DEF WithPinnedPip
<1> QED BY <1>2, <1>3, <1>4, SameEnvironment

(* What is installed is a package nothing else is known of.                *)
LEMMA InstalledPackages ==
  ASSUME NEW offers, NEW names, NEW p \in Installed(offers, names)
  PROVE  IsPackage(p) /\ p.reason = "" /\ p.source = "" /\ p.digest = Nothing
<1>1. PICK n \in UNION {Needs[m] : m \in names} :
        p = [name |-> n, version |-> Newest(offers, n).version, arch |-> ArchOf[n],
             reason |-> "", source |-> "", digest |-> Nothing]
  BY DEF Installed
<1> QED BY <1>1 DEF IsPackage

(* Recording digests and sources changes no package's identity.            *)
LEMMA RecordedPackages ==
  ASSUME NEW lists, NEW installed, NEW origins,
         \A p \in installed : IsPackage(p),
         RecordChecksums(lists, installed, origins) # Nothing
  PROVE  /\ Content(RecordChecksums(lists, installed, origins)) = Content(installed)
         /\ \A p \in RecordChecksums(lists, installed, origins) : IsPackage(p)
<1> DEFINE places == {o.at : o \in Range(origins)}
           Listing(p) == {at \in places : \E e \in lists[at] : KeyOf(e) = KeyOf(p)}
           DigestsOf(p) == {e.digest : e \in {e \in UNION {lists[at] : at \in places} : KeyOf(e) = KeyOf(p)}}
           SourceOf(p) == origins[Max({OriginOf(at, origins) : at \in Listing(p)})].source
           Recorded(p) == [p EXCEPT !.digest = CHOOSE d \in DigestsOf(p) : TRUE, !.source = SourceOf(p)]
           recorded == RecordChecksums(lists, installed, origins)
<1>1. recorded = {Recorded(p) : p \in installed}
  BY DEF RecordChecksums
<1>2. \A p \in installed : IsPackage(Recorded(p)) /\ KeyOf(Recorded(p)) = KeyOf(p)
  <2> TAKE p \in installed
  <2> HIDE DEF DigestsOf, SourceOf
  <2> QED BY DEF IsPackage, KeyOf
<1> HIDE DEF recorded, Recorded
<1>4. Content(recorded) = Content(installed)
  BY <1>1, <1>2 DEF Content
<1>5. \A p \in recorded : IsPackage(p)
  BY <1>1, <1>2
<1> QED BY <1>4, <1>5 DEF recorded

(* apt's marks are found again in the lock.                                *)
LEMMA MarkedPackages ==
  ASSUME NEW installed, NEW marks, \A p \in installed : IsPackage(p),
         marks \subseteq {<<p.name, AptArchitecture(p.arch)>> : p \in installed}
  PROVE  /\ Content(MarkAutoInstalled(installed, marks)) = Content(installed)
         /\ \A p \in MarkAutoInstalled(installed, marks) : IsPackage(p)
         /\ RenderExtendedStates(MarkAutoInstalled(installed, marks)) = marks
<1> DEFINE Marked(p) == [p EXCEPT !.reason = IF <<p.name, AptArchitecture(p.arch)>> \in marks
                                             THEN "auto" ELSE ""]
           marked == MarkAutoInstalled(installed, marks)
<1>1. marked = {Marked(p) : p \in installed}
  BY DEF MarkAutoInstalled
<1>2. \A p \in installed : /\ IsPackage(Marked(p)) /\ KeyOf(Marked(p)) = KeyOf(p)
                           /\ Marked(p).name = p.name /\ Marked(p).arch = p.arch
                           /\ Marked(p).reason = "auto" <=> <<p.name, AptArchitecture(p.arch)>> \in marks
  BY DEF IsPackage, KeyOf
<1> HIDE DEF Marked, marked
<1>3. Content(marked) = Content(installed)
  BY <1>1, <1>2 DEF Content
<1>4. RenderExtendedStates(marked) = marks
  <2>1. \A p \in installed : <<Marked(p).name, AptArchitecture(Marked(p).arch)>> =
                               <<p.name, AptArchitecture(p.arch)>>
    BY <1>2
  <2>2. RenderExtendedStates(marked) =
          {<<q.name, AptArchitecture(q.arch)>> : q \in {q \in marked : q.reason = "auto"}}
    BY DEF RenderExtendedStates
  <2>3. ASSUME NEW m \in marks
        PROVE  m \in RenderExtendedStates(marked)
    <3>1. PICK p \in installed : m = <<p.name, AptArchitecture(p.arch)>>
      OBVIOUS
    <3>2. Marked(p) \in marked /\ Marked(p).reason = "auto"
      BY <1>1, <1>2, <3>1
    <3> QED BY <2>1, <2>2, <3>1, <3>2
  <2>4. ASSUME NEW q \in marked, q.reason = "auto"
        PROVE  <<q.name, AptArchitecture(q.arch)>> \in marks
    <3>1. PICK p \in installed : q = Marked(p)
      BY <1>1
    <3> QED BY <1>2, <2>1, <2>4, <3>1
  <2> QED BY <2>2, <2>3, <2>4
<1> QED BY <1>1, <1>2, <1>3, <1>4 DEF marked

(* A lock's repositories are records of three fields.                      *)
LEMMA RepositoriesTold ==
  ASSUME NEW sources, NEW keys
  PROVE  \A q \in LockRepositories(sources, keys) : IsRepository(q)
BY DEF LockRepositories, IsRepository

(* The lock an online Ubuntu build writes tells the image it places.       *)
LEMMA UbuntuTold ==
  ASSUME Typed, PipIsPinned, recipe.distro # "fedora",
         NEW built, built = BuildUbuntu(recipe), built # Nothing
  PROVE  Tells(built.lock, built.image, recipe, files)
<1> DEFINE r      == recipe
           offers == ToolsOffers \cup UNION {Serves(s.at) : s \in Range(r.sources)}
           parsed == ParsePipReport(Report(r), r.python)
           wheels == IF r.python = {} THEN {}
                     ELSE IF parsed = Nothing \/ r.index = "" THEN parsed ELSE WithResolvedPin(parsed, PinnedPip)
           env    == IF r.python = {} THEN {} ELSE Environment({PinnedPip}, Report(r))
           names  == DiskPackagesToInstall(r)
           there  == Installed(offers, names)
           marks  == {<<p.name, AptArchitecture(p.arch)>> : p \in {p \in there : p.name \notin names}}
           tools  == IF r.target = "disk"
                     THEN RecordChecksums(Lists, Installed(ToolsOffers, DiskTools), IndexOrigins(<<>>)) ELSE {}
           listed == RecordChecksums(Lists, there, IndexOrigins(r.sources))
           marked == MarkAutoInstalled(listed, marks)
<1>1. /\ listed # Nothing /\ tools # Nothing /\ wheels # Nothing
      /\ built =
           [lock |->
              [distro |-> "ubuntu", target |-> r.target, release |-> r.release, requested |-> r.include,
               sources |-> SourceLines(r.sources), epoch |-> now,
               repositories |-> LockRepositories(r.sources, files),
               certificates |-> LockCertificates(r.certificates, files),
               packages |-> marked, pypi |-> wheels,
               python |-> IF r.python = {} THEN NoPython ELSE [requested |-> r.python, index |-> r.index],
               disk |-> IF r.target = "disk" THEN r.size ELSE Nothing, diskTools |-> tools, tools |-> {}],
            image |->
              [content |-> Content(there), marks |-> marks, wheels |-> Env(env), sources |-> SourceLines(r.sources),
               keys |-> LockRepositories(r.sources, files), certificates |-> LockCertificates(r.certificates, files),
               epoch |-> now, disk |-> IF r.target = "disk" THEN r.size ELSE Nothing]]
  BY DEF BuildUbuntu, UbuntuBuild
<1>2. \A p \in there : IsPackage(p)
  BY InstalledPackages
<1>3. Content(listed) = Content(there) /\ \A p \in listed : IsPackage(p)
  BY <1>1, <1>2, RecordedPackages
<1>4. marks \subseteq {<<p.name, AptArchitecture(p.arch)>> : p \in listed}
  <2>1. ASSUME NEW p \in there
        PROVE  <<p.name, AptArchitecture(p.arch)>> \in
                 {<<q.name, AptArchitecture(q.arch)>> : q \in listed}
    <3> HIDE DEF there, listed, names
    <3>0. KeyOf(p) \in Content(listed)
      BY <1>3 DEF Content
    <3>1. PICK q \in listed : KeyOf(q) = KeyOf(p)
      BY <3>0 DEF Content
    <3>2. q.name = p.name /\ q.arch = p.arch
      BY <3>1 DEF KeyOf
    <3> QED BY <3>2
  <2> HIDE DEF there, listed, names
  <2> QED BY <2>1
<1>5. /\ Content(marked) = Content(there) /\ \A p \in marked : IsPackage(p)
      /\ RenderExtendedStates(marked) = marks
  BY <1>3, <1>4, MarkedPackages
<1>6. env = IF wheels = {} THEN {} ELSE Environment(Named(wheels, "pip"), wheels)
  <2>1. CASE r.python = {}
    BY <2>1
  <2>2. CASE r.python # {}
    <3>1. wheels # {} /\ env = Environment(Named(wheels, "pip"), wheels)
      BY <1>1, <2>2, WheelsTold DEF Typed
    <3> QED BY <3>1
  <2> QED BY <2>1, <2>2
<1> HIDE DEF offers, parsed, wheels, env, names, there, marks, tools, listed, marked
<1> DEFINE l == built.lock
           i == built.image
<1>7. /\ IsLock(l) /\ IsImage(i) /\ l.distro = "ubuntu" /\ TellsRecipe(l, r)
      /\ l.epoch = i.epoch /\ l.epoch \in Nat
  <2>1. r \in Recipes /\ r.distro = "ubuntu" /\ now \in Nat
    BY RecipesAssumption DEF Typed
  <2>2. IsLock(l)
    BY <1>1 DEF IsLock
  <2>3. IsImage(i)
    BY <1>1 DEF IsImage
  <2>4. /\ l.distro = "ubuntu" /\ l.target = r.target /\ l.release = r.release
        /\ l.requested = r.include /\ l.epoch = now /\ i.epoch = now
    BY <1>1
  <2> HIDE DEF l, i
  <2> QED BY <2>1, <2>2, <2>3, <2>4 DEF TellsRecipe
<1>8. /\ l.packages = marked /\ i.content = Content(there) /\ i.marks = marks
      /\ l.sources = i.sources /\ l.certificates = i.certificates /\ l.disk = i.disk
      /\ i.keys = LockRepositories(r.sources, files) /\ l.repositories = i.keys
      /\ l.pypi = wheels /\ i.wheels = Env(env)
  BY <1>1
<1> HIDE DEF l, i
<1>9. TellsUbuntu(l, i, r, files)
  BY <1>5, <1>6, <1>8
     DEF TellsUbuntu, TellsPackages, TellsRepositories, EnvironmentOf, LockedPip
<1> QED BY <1>5, <1>7, <1>8, <1>9, RepositoriesTold DEF Tells, l, i

(* The lock an online Fedora build writes tells the image it places.       *)
LEMMA FedoraTold ==
  ASSUME Typed, recipe.distro = "fedora",
         NEW built, built = BuildFedora(recipe), built # Nothing
  PROVE  Tells(built.lock, built.image, recipe, files)
<1> DEFINE r     == recipe
           asked == FedoraPackagesToInstall(r)
           Asked(p) == [p EXCEPT !.reason = IF p.name \in asked THEN "User" ELSE "Dependency",
                                 !.source = FromRepo(p)]
           there == {Asked(p) : p \in Installed(FedoraOffers, asked)}
           tools == Installed(FedoraOffers, FedoraTools)
           held  == cache \cup Downloads("libdnf5", there) \cup Downloads("dnf", tools)
           digestOf(p) == CHOOSE d \in {e.digest : e \in {e \in FedoraOffers : KeyOf(e) = KeyOf(p)}} : TRUE
           Digested(p) == [p EXCEPT !.digest = digestOf(p)]
           packages == {Digested(p) : p \in there}
           repositories == {[name |-> n, at |-> n, key |-> FedoraKey] : n \in Range(FedoraRepos)}
           lockTools == {[p EXCEPT !.digest = digestOf(p), !.source = CachedRepository(held, "dnf", p)] : p \in tools}
           reasons == {<<p.name, p.reason>> : p \in there}
<1>1. built =
        [lock |->
           [distro |-> "fedora", target |-> r.target, release |-> r.release, requested |-> r.include,
            sources |-> <<>>, epoch |-> now, repositories |-> repositories,
            certificates |-> {}, packages |-> packages, pypi |-> {}, python |-> NoPython,
            disk |-> Nothing, diskTools |-> {}, tools |-> lockTools],
         image |->
           [content |-> Content(there), marks |-> reasons, wheels |-> {}, sources |-> <<>>,
            keys |-> {}, certificates |-> {}, epoch |-> now, disk |-> Nothing]]
  BY DEF BuildFedora
<1>2. \A p \in there : IsPackage(p)
  <2>1. \A p \in Installed(FedoraOffers, asked) : IsPackage(p)
    BY InstalledPackages
  <2>2. \A p : IsPackage(p) => IsPackage(Asked(p))
    BY DEF IsPackage
  <2> HIDE DEF Asked
  <2> QED BY <2>1, <2>2
<1>3. \A p : IsPackage(p) => /\ IsPackage(Digested(p)) /\ KeyOf(Digested(p)) = KeyOf(p)
                            /\ Digested(p).name = p.name /\ Digested(p).reason = p.reason
  <2> HIDE DEF digestOf
  <2> QED BY DEF IsPackage, KeyOf
<1> HIDE DEF there, Digested, repositories, lockTools
<1>4. \A p \in packages : IsPackage(p)
  BY <1>2, <1>3
<1>5. Content(packages) = Content(there)
  BY <1>2, <1>3 DEF Content
<1>6. {<<p.name, p.reason>> : p \in packages} = reasons
  BY <1>2, <1>3
<1> HIDE DEF packages, reasons
<1> DEFINE l == built.lock
           i == built.image
<1>7. /\ IsLock(l) /\ IsImage(i) /\ l.distro = "fedora" /\ TellsRecipe(l, r)
      /\ l.epoch = i.epoch /\ l.epoch \in Nat
  <2>1. r \in Recipes /\ now \in Nat
    BY DEF Typed
  <2>2. IsLock(l)
    BY <1>1 DEF IsLock
  <2>3. IsImage(i)
    BY <1>1 DEF IsImage
  <2>4. /\ l.distro = "fedora" /\ l.target = r.target /\ l.release = r.release
        /\ l.requested = r.include /\ l.epoch = now /\ i.epoch = now
    BY <1>1
  <2> HIDE DEF l, i
  <2> QED BY <2>1, <2>2, <2>3, <2>4 DEF TellsRecipe
<1>8. TellsFedora(l, i)
  <2>1. l.packages = packages /\ i.content = Content(there) /\ i.marks = reasons
    BY <1>1
  <2>2. i.wheels = {} /\ i.sources = <<>> /\ i.keys = {} /\ i.certificates = {} /\ i.disk = Nothing
    BY <1>1
  <2> HIDE DEF l, i
  <2> QED BY <1>5, <1>6, <2>1, <2>2 DEF TellsFedora, TellsPackages
<1>9. \A q \in repositories : IsRepository(q)
  BY DEF repositories, IsRepository
<1>10. l.packages = packages /\ l.repositories = repositories
  BY <1>1
<1> HIDE DEF l, i
<1>11. Tells(l, i, r, files)
  BY <1>4, <1>7, <1>8, <1>9, <1>10 DEF Tells
<1> QED BY <1>11 DEF l, i

(* It still does when a hand takes a field out of it.                      *)
LEMMA EditTold ==
  ASSUME NEW l, NEW i, NEW r, NEW keys, Tells(l, i, r, keys), NEW e,
         \/ e = [l EXCEPT !.sources = <<>>]
         \/ e = [l EXCEPT !.repositories = {[q EXCEPT !.key = Nothing] : q \in l.repositories}]
         \/ e = [l EXCEPT !.packages = {[p EXCEPT !.digest = Nothing] : p \in l.packages}]
         \/ e = [l EXCEPT !.diskTools = {}, !.tools = {}]
         \/ "repository" \in LockEdits /\ e = [l EXCEPT !.repositories = {}]
  PROVE  Tells(e, i, r, keys)
<1>1. CASE e = [l EXCEPT !.sources = <<>>]
  <2>1. /\ IsLock(e) /\ e.sources = <<>> /\ e.distro = l.distro /\ e.target = l.target
        /\ e.release = l.release /\ e.requested = l.requested /\ e.epoch = l.epoch
        /\ e.repositories = l.repositories /\ e.certificates = l.certificates
        /\ e.packages = l.packages /\ e.pypi = l.pypi /\ e.disk = l.disk
    BY <1>1 DEF Tells, IsLock
  <2> QED
    BY <2>1 DEF Tells, TellsRecipe, TellsUbuntu, TellsFedora, TellsPackages, WithoutDigests,
                TellsRepositories, EnvironmentOf, LockedPip
<1>2. CASE e = [l EXCEPT !.repositories = {[q EXCEPT !.key = Nothing] : q \in l.repositories}]
  <2>1. /\ IsLock(e) /\ e.sources = l.sources /\ e.distro = l.distro /\ e.target = l.target
        /\ e.release = l.release /\ e.requested = l.requested /\ e.epoch = l.epoch
        /\ e.repositories = {[q EXCEPT !.key = Nothing] : q \in l.repositories}
        /\ e.certificates = l.certificates
        /\ e.packages = l.packages /\ e.pypi = l.pypi /\ e.disk = l.disk
    BY <1>2 DEF Tells, IsLock
  <2>2. \A q : IsRepository(q) => /\ IsRepository([q EXCEPT !.key = Nothing])
                                 /\ [q EXCEPT !.key = Nothing].key = Nothing
    BY DEF IsRepository
  <2>3. ASSUME NEW q \in e.repositories
        PROVE  IsRepository(q) /\ q.key = Nothing
    <3>1. PICK o \in l.repositories : q = [o EXCEPT !.key = Nothing]
      BY <2>1
    <3>2. IsRepository(o)
      BY DEF Tells
    <3> QED BY <2>2, <3>1, <3>2
  <2>4. l.repositories = {} <=> e.repositories = {}
    <3> DEFINE Keyless(q) == [q EXCEPT !.key = Nothing]
    <3>1. e.repositories = {Keyless(q) : q \in l.repositories}
      BY <2>1
    <3> HIDE DEF Keyless
    <3> QED BY <3>1
  <2>5. TellsRepositories(l, i, r, keys) => TellsRepositories(e, i, r, keys)
    BY <2>1, <2>3, <2>4 DEF TellsRepositories
  <2> QED
    BY <2>1, <2>3, <2>5
       DEF Tells, TellsRecipe, TellsUbuntu, TellsFedora, TellsPackages, WithoutDigests,
           EnvironmentOf, LockedPip
<1>3. CASE e = [l EXCEPT !.packages = {[p EXCEPT !.digest = Nothing] : p \in l.packages}]
  <2>1. /\ IsLock(e) /\ e.sources = l.sources /\ e.distro = l.distro /\ e.target = l.target
        /\ e.release = l.release /\ e.requested = l.requested /\ e.epoch = l.epoch
        /\ e.repositories = l.repositories /\ e.certificates = l.certificates
        /\ e.packages = {[p EXCEPT !.digest = Nothing] : p \in l.packages}
        /\ e.pypi = l.pypi /\ e.disk = l.disk
    BY <1>3 DEF Tells, IsLock
  <2>2. \A p : IsPackage(p) => /\ IsPackage([p EXCEPT !.digest = Nothing])
                              /\ [p EXCEPT !.digest = Nothing].digest = Nothing
    BY DEF IsPackage
  <2>3. ASSUME NEW p \in e.packages
        PROVE  IsPackage(p) /\ p.digest = Nothing
    <3>1. PICK o \in l.packages : p = [o EXCEPT !.digest = Nothing]
      BY <2>1
    <3>2. IsPackage(o)
      BY DEF Tells
    <3> QED BY <2>2, <3>1, <3>2
  <2>4. WithoutDigests(e)
    BY <2>3 DEF WithoutDigests
  <2> QED
    BY <2>1, <2>3, <2>4
       DEF Tells, TellsRecipe, TellsUbuntu, TellsFedora, TellsPackages, TellsRepositories,
           EnvironmentOf, LockedPip
<1>4. CASE e = [l EXCEPT !.diskTools = {}, !.tools = {}]
  <2>1. /\ IsLock(e) /\ e.sources = l.sources /\ e.distro = l.distro /\ e.target = l.target
        /\ e.release = l.release /\ e.requested = l.requested /\ e.epoch = l.epoch
        /\ e.repositories = l.repositories /\ e.certificates = l.certificates
        /\ e.packages = l.packages /\ e.pypi = l.pypi /\ e.disk = l.disk
    BY <1>4 DEF Tells, IsLock
  <2> QED
    BY <2>1 DEF Tells, TellsRecipe, TellsUbuntu, TellsFedora, TellsPackages, WithoutDigests,
                TellsRepositories, EnvironmentOf, LockedPip
<1>5. CASE "repository" \in LockEdits /\ e = [l EXCEPT !.repositories = {}]
  <2>1. /\ IsLock(e) /\ e.sources = l.sources /\ e.distro = l.distro /\ e.target = l.target
        /\ e.release = l.release /\ e.requested = l.requested /\ e.epoch = l.epoch
        /\ e.repositories = {} /\ e.certificates = l.certificates
        /\ e.packages = l.packages /\ e.pypi = l.pypi /\ e.disk = l.disk
    BY <1>5 DEF Tells, IsLock
  <2> QED
    BY <1>5, <2>1 DEF Tells, TellsRecipe, TellsUbuntu, TellsFedora, TellsPackages, WithoutDigests,
                TellsRepositories, EnvironmentOf, LockedPip
<1> QED BY <1>1, <1>2, <1>3, <1>4, <1>5

(* Where planUbuntu finds no difference, the keys and certificates beside  *)
(* the recipe are those of the image, whatever was edited out of the lock. *)
LEMMA KeysAsLocked ==
  ASSUME Typed, NEW l, NEW i, NEW r, NEW keys, Tells(l, i, r, keys),
         TellsUbuntu(l, i, r, keys), l.target = recipe.target, l.distro = recipe.distro,
         ~UbuntuDifferences(l, recipe, files), SourcesAreMissed
  PROVE  /\ LockRepositories(recipe.sources, files) = i.keys
         /\ LockCertificates(recipe.certificates, files) = i.certificates
<1>1. /\ {q.name : q \in l.repositories} = {s.name : s \in Range(recipe.sources)}
      /\ \A s \in Range(recipe.sources), q \in l.repositories :
            q.name = s.name => q.at = s.at /\ q.key = files[s.name]
      /\ LockCertificates(recipe.certificates, files) = l.certificates
      /\ l.release = recipe.release /\ l.requested = recipe.include
  BY DEF UbuntuDifferences, RepositoryDifferences, SourceKeyDifferences, CertificateDifferences
<1>2. \A s \in Range(recipe.sources) : files[s.name] # Nothing
  BY DigestsAssumption DEF Typed, FileNames
<1>3. CASE l.repositories = i.keys
  <2>1. \A q \in l.repositories : q \in LockRepositories(recipe.sources, files)
    <3> TAKE q \in l.repositories
    <3>1. PICK s \in Range(recipe.sources) : q.name = s.name
      BY <1>1
    <3>2. q = [name |-> s.name, at |-> s.at, key |-> files[s.name]]
      BY <1>1, <3>1 DEF Tells, IsRepository
    <3> QED BY <3>2 DEF LockRepositories
  <2>2. \A k \in LockRepositories(recipe.sources, files) : k \in l.repositories
    <3> TAKE k \in LockRepositories(recipe.sources, files)
    <3>1. PICK s \in Range(recipe.sources) : k = [name |-> s.name, at |-> s.at, key |-> files[s.name]]
      BY DEF LockRepositories
    <3>2. PICK q \in l.repositories : q.name = s.name
      BY <1>1
    <3>3. q = k
      BY <1>1, <3>1, <3>2 DEF Tells, IsRepository
    <3> QED BY <3>3
  <2> QED BY <1>1, <1>3, <2>1, <2>2 DEF TellsUbuntu
<1>4. CASE l.repositories # {} /\ \A q \in l.repositories : q.key = Nothing
  <2>1. PICK q \in l.repositories : q.key = Nothing
    BY <1>4
  <2>2. PICK s \in Range(recipe.sources) : s.name = q.name
    BY <1>1
  <2> QED BY <1>1, <1>2, <2>1, <2>2
<1>5. CASE l.repositories = {} /\ "repository" \in LockEdits
  <2>1. Range(recipe.sources) = {}
    BY <1>1, <1>5
  <2>2. recipe.sources = <<>>
    <3>1. recipe.sources \in Seq(Range(recipe.sources))
      BY RecipesAssumption DEF Typed
    <3>2. Len(recipe.sources) = 0
      <4>1. Len(recipe.sources) \in Nat /\ DOMAIN recipe.sources = 1..Len(recipe.sources)
        BY <3>1
      <4>2. ASSUME NEW n \in DOMAIN recipe.sources PROVE FALSE
        <5>1. recipe.sources[n] \in Range(recipe.sources)
          BY DEF Range
        <5> QED BY <2>1, <5>1
      <4>3. 1 \notin DOMAIN recipe.sources
        BY <4>2
      <4> QED BY <4>1, <4>3
    <3> QED BY <3>1, <3>2
  <2>3. r.sources = <<>>
    BY <1>1, <1>5, <2>2 DEF SourcesAreMissed, Tells, TellsRecipe, Typed
  <2>4. i.keys = LockRepositories(<<>>, keys)
    BY <2>3 DEF TellsUbuntu, TellsRepositories
  <2>5. LockRepositories(recipe.sources, files) = {} /\ LockRepositories(<<>>, keys) = {}
    BY <2>2 DEF LockRepositories, Range
  <2> QED BY <1>1, <2>4, <2>5 DEF TellsUbuntu
<1> QED BY <1>3, <1>4, <1>5 DEF TellsUbuntu, TellsRepositories

(* A lock that is planned from has packages, each with a digest.           *)
LEMMA PlannedHasDigests ==
  ASSUME NEW l, Manifest(l) = ""
  PROVE  ~WithoutDigests(l)
BY DEF Manifest, WithoutDigests

(* A plan refuses or it does not; it never calls a build placed.           *)
LEMMA NotPlacedByPlan ==
  ASSUME NEW l, NEW r, NEW keys
  PROVE  PlanOffline(l, r, keys) # "placed"
<1>1. Manifest(l) # "placed"
  BY DEF Manifest
<1>2. WheelManifest(l) # "placed"
  BY DEF WheelManifest
<1> QED BY <1>1, <1>2 DEF PlanOffline, PlanUbuntu, PlanFedora

(* An offline Ubuntu build that is not refused rebuilds the image.         *)
LEMMA UbuntuRebuilt ==
  ASSUME Typed, NEW l, NEW i, NEW r, NEW keys, l = lock, Tells(l, i, r, keys), l # NoLock,
         recipe.distro # "fedora", SourcesAreMissed, NEW slip,
         PlanOffline(l, recipe, files) = "", UbuntuAsLocked(slip)
  PROVE  RebuildUbuntu(slip) = i
<1>1. /\ l.distro = recipe.distro /\ l.target = recipe.target /\ PlanUbuntu(l, recipe, files) = ""
  BY DEF PlanOffline
<1>2. /\ Manifest(l) = "" /\ l.sources # <<>> /\ ~UbuntuDifferences(l, recipe, files)
  BY <1>1 DEF PlanUbuntu
<1>3. ~WithoutDigests(l)
  BY <1>2, PlannedHasDigests
<1>4. TellsUbuntu(l, i, r, keys)
  BY <1>1 DEF Tells
<1>5. /\ LockRepositories(recipe.sources, files) = i.keys
      /\ LockCertificates(recipe.certificates, files) = i.certificates
  BY <1>1, <1>2, <1>4, KeysAsLocked
<1>6. i.content = Content(l.packages) /\ i.marks = RenderExtendedStates(l.packages)
  BY <1>3, <1>4 DEF TellsUbuntu, TellsPackages
<1>7. Content(UbuntuFromPool(slip)) = i.content
  BY <1>6 DEF UbuntuAsLocked, PackagesAsLocked, Content
<1>8. FrozenInstant(l, now) = i.epoch
  BY DigestsAssumption DEF FrozenInstant, Tells
<1>9. EnvironmentOf(l) = PythonFromPool
  BY DEF EnvironmentOf, PythonFromPool
<1>10. l.sources = i.sources /\ i.wheels = Env(EnvironmentOf(l)) /\ i.disk = l.disk
  BY <1>2, <1>4 DEF TellsUbuntu
<1>11. i = [content |-> i.content, marks |-> i.marks, wheels |-> i.wheels, sources |-> i.sources,
            keys |-> i.keys, certificates |-> i.certificates, epoch |-> i.epoch, disk |-> i.disk]
  BY DEF Tells, IsImage
<1> QED BY <1>5, <1>6, <1>7, <1>8, <1>9, <1>10, <1>11 DEF RebuildUbuntu

(* So does a Fedora one.                                                   *)
LEMMA FedoraRebuilt ==
  ASSUME Typed, NEW l, NEW i, NEW r, NEW keys, l = lock, Tells(l, i, r, keys), l # NoLock,
         recipe.distro = "fedora", NEW slip,
         PlanOffline(l, recipe, files) = "", FedoraAsLocked(slip)
  PROVE  RebuildFedora(slip) = i
<1>1. /\ l.distro = recipe.distro /\ PlanFedora(l, recipe) = ""
  BY DEF PlanOffline
<1>2. Manifest(l) = ""
  BY <1>1 DEF PlanFedora
<1>3. ~WithoutDigests(l)
  BY <1>2, PlannedHasDigests
<1>4. TellsFedora(l, i)
  BY <1>1 DEF Tells
<1>6. i.content = Content(l.packages) /\ i.marks = {<<p.name, p.reason>> : p \in l.packages}
  BY <1>3, <1>4 DEF TellsFedora, TellsPackages
<1>7. Content(Left(FromStages(lock.packages), slip)) = i.content
  BY <1>6 DEF FedoraAsLocked, PackagesAsLocked, Content
<1>8. FrozenInstant(l, now) = i.epoch
  BY DigestsAssumption DEF FrozenInstant, Tells
<1>11. i = [content |-> i.content, marks |-> i.marks, wheels |-> i.wheels, sources |-> i.sources,
            keys |-> i.keys, certificates |-> i.certificates, epoch |-> i.epoch, disk |-> i.disk]
  BY DEF Tells, IsImage
<1> QED BY <1>4, <1>6, <1>7, <1>8, <1>11 DEF RebuildFedora, TellsFedora

(* At the start there is no lock to tell of.                               *)
LEMMA InitRebuilds ==
  RebuildInit => RebuildInv
<1> SUFFICES ASSUME RebuildInit PROVE RebuildInv
  OBVIOUS
<1>1. recipe \in Recipes /\ now = 1 /\ lock = NoLock /\ last.command = "none"
  BY DEF RebuildInit
<1>2. files = [f \in FileNames |-> CHOOSE d \in Digests : TRUE]
  BY DEF RebuildInit, FileNames
<1>3. files \in [FileNames -> Digests]
  BY <1>2, DigestsAssumption
<1> QED BY <1>1, <1>3 DEF RebuildInv, Typed, LockTells, RebuildsTheImage

(* No edit is an offline build.                                            *)
LEMMA EditKeepsIt ==
  ASSUME Edit PROVE RebuildsTheImage'
BY DEF Edit, Outcome, RebuildsTheImage

(* What leaves the lock alone leaves what it tells.                        *)
LEMMA SameLock ==
  ASSUME LockTells, UNCHANGED <<lock, made>>
  PROVE  LockTells'
BY DEF LockTells

(* Every step keeps the invariant.                                         *)
LEMMA StepRebuilds ==
  ASSUME RebuildInv, [RebuildNext]_rebuildVars, SourcesAreMissed, PipIsPinned
  PROVE  RebuildInv'
<1> USE DEF RebuildInv
<1>1. CASE EditRecipe
  <2>1. Typed'
    BY <1>1 DEF EditRecipe, Typed
  <2> QED BY <1>1, <2>1, EditKeepsIt, SameLock DEF EditRecipe
<1>2. CASE ReplaceFile
  <2>1. Typed'
    <3>1. PICK f \in DOMAIN files, d \in Digests : files' = [files EXCEPT ![f] = d]
      BY <1>2 DEF ReplaceFile
    <3>2. files' \in [FileNames -> Digests]
      BY <3>1 DEF Typed
    <3> QED BY <1>2, <3>2 DEF ReplaceFile, Typed
  <2> QED BY <1>2, <2>1, EditKeepsIt, SameLock DEF ReplaceFile
<1>3. CASE ArchiveMoves
  <2>1. Typed'
    BY <1>3 DEF ArchiveMoves, Typed
  <2> QED BY <1>3, <2>1, EditKeepsIt, SameLock DEF ArchiveMoves
<1>4. CASE EditLock
  <2>1. Typed'
    BY <1>4 DEF EditLock, Typed
  <2>2. LockTells'
    <3>1. /\ IsMade(made) /\ Tells(lock, made.image, made.recipe, made.files)
          /\ made' = [made EXCEPT !.edited = TRUE]
      BY <1>4 DEF EditLock, LockTells
    <3>2. /\ IsMade(made') /\ made'.image = made.image /\ made'.recipe = made.recipe
          /\ made'.files = made.files
      BY <3>1 DEF IsMade
    <3>3. Tells(lock', made.image, made.recipe, made.files)
      BY <1>4, <3>1, EditTold DEF EditLock, LosesKeys, LosesDigests
    <3> QED BY <3>2, <3>3 DEF LockTells
  <2> QED BY <1>4, <2>1, <2>2, EditKeepsIt DEF EditLock
<1>5. CASE SpoilPool
  <2>1. Typed'
    BY <1>5 DEF SpoilPool, Typed
  <2> QED BY <1>5, <2>1, EditKeepsIt, SameLock DEF SpoilPool
<1>6. CASE BuildOnline
  <2> DEFINE built == IF recipe.distro = "fedora" THEN BuildFedora(recipe) ELSE BuildUbuntu(recipe)
  <2>1. Typed'
    BY <1>6 DEF BuildOnline, Typed
  <2>2. RebuildsTheImage'
    BY <1>6 DEF BuildOnline, Outcome, RebuildsTheImage
  <2>3. CASE built = Nothing
    BY <1>6, <2>1, <2>2, <2>3, SameLock DEF BuildOnline
  <2>4. CASE built # Nothing
    <3>1. /\ lock' = built.lock
          /\ made' = [image |-> built.image, recipe |-> recipe, files |-> files, edited |-> FALSE]
      BY <1>6, <2>4 DEF BuildOnline
    <3>2. Tells(built.lock, built.image, recipe, files)
      BY <2>4, UbuntuTold, FedoraTold
    <3> HIDE DEF built
    <3>3. IsMade(made') /\ made'.image = built.image /\ made'.recipe = recipe /\ made'.files = files
      BY <3>1 DEF IsMade
    <3>4. LockTells'
      BY <3>1, <3>2, <3>3 DEF LockTells
    <3> QED BY <2>1, <2>2, <3>4
  <2> QED BY <2>3, <2>4
<1>7. CASE Vendor
  <2>1. Typed'
    BY <1>7 DEF Vendor, Typed
  <2>2. RebuildsTheImage'
    <3>1. \E outcome : Outcome("vendor", outcome, Nothing)
      BY <1>7, Zenon DEF Vendor
    <3>2. last'.command = "vendor"
      BY <3>1 DEF Outcome
    <3> QED BY <3>2 DEF RebuildsTheImage
  <2> QED BY <1>7, <2>1, <2>2, SameLock DEF Vendor
<1>8. CASE BuildOffline
  <2>1. Typed'
    <3>1. recipe' = recipe /\ files' = files /\ now' = now + 1
      BY <1>8, Zenon DEF BuildOffline
    <3> QED BY <3>1 DEF Typed
  <2>2. RebuildsTheImage'
    <3> SUFFICES ASSUME last'.outcome = "placed"
                 PROVE  last'.image = made.image
      BY <1>8 DEF BuildOffline, RebuildsTheImage
    <3>0. PICK slip \in BOOLEAN : BuildsOffline(slip)
      BY <1>8 DEF BuildOffline
    <3>1. /\ PlanOffline(lock, recipe, files) = ""
          /\ IF recipe.distro = "fedora" THEN FedoraAsLocked(slip) ELSE UbuntuAsLocked(slip)
          /\ last'.image = IF recipe.distro = "fedora" THEN RebuildFedora(slip) ELSE RebuildUbuntu(slip)
      <4> DEFINE refused == PlanOffline(lock, recipe, files)
                 image == IF recipe.distro = "fedora" THEN RebuildFedora(slip) ELSE RebuildUbuntu(slip)
                 asLocked == IF recipe.distro = "fedora" THEN FedoraAsLocked(slip) ELSE UbuntuAsLocked(slip)
                 outcome == IF refused # "" THEN refused
                            ELSE IF ~Held(PoolEntries) THEN "pool incomplete"
                            ELSE IF ~asLocked THEN "differs from the lock" ELSE "placed"
      <4>1. last' = [command |-> "offline", outcome |-> outcome, slip |-> slip,
                     image |-> IF outcome = "placed" THEN image ELSE Nothing]
        BY <3>0 DEF BuildsOffline
      <4>2. refused # "placed"
        BY NotPlacedByPlan
      <4> HIDE DEF refused, image, asLocked
      <4>3. outcome = "placed" /\ last'.image = image
        BY <4>1
      <4>4. refused = "" /\ asLocked
        BY <4>2, <4>3
      <4> QED BY <4>3, <4>4 DEF refused, image, asLocked
    <3>2. lock # NoLock
      BY <3>1 DEF PlanOffline
    <3>3. Tells(lock, made.image, made.recipe, made.files)
      BY <3>2 DEF LockTells
    <3>4. CASE recipe.distro = "fedora"
      BY <3>1, <3>2, <3>3, <3>4, FedoraRebuilt
    <3>5. CASE recipe.distro # "fedora"
      BY <3>1, <3>2, <3>3, <3>5, UbuntuRebuilt
    <3> QED BY <3>4, <3>5
  <2> QED BY <1>8, <2>1, <2>2, SameLock DEF BuildOffline
<1>9. CASE UNCHANGED rebuildVars
  BY <1>9 DEF rebuildVars, Typed, LockTells, RebuildsTheImage
<1> QED BY <1>1, <1>2, <1>3, <1>4, <1>5, <1>6, <1>7, <1>8, <1>9 DEF RebuildNext

(* An offline build that places an image (buildUbuntu and buildFedora with *)
(* a plan of planOffline's) places the image of the build that wrote the   *)
(* lock, whatever was edited, published and damaged in between.            *)
THEOREM RebuildsTheImageHolds ==
  ASSUME SourcesAreMissed, PipIsPinned
  PROVE  RebuildSpec => []RebuildsTheImage
<1>1. RebuildInit => RebuildInv
  BY InitRebuilds
<1>2. RebuildInv /\ [RebuildNext]_rebuildVars => RebuildInv'
  BY StepRebuilds
<1>3. RebuildInv => RebuildsTheImage
  BY DEF RebuildInv
<1> QED BY <1>1, <1>2, <1>3, PTL DEF RebuildSpec

-----------------------------------------------------------------------------
(* An unedited lock can be read.                                           *)

(* A set of natural numbers has a least one.                               *)
LEMMA LeastExists ==
  ASSUME NEW T \in SUBSET Nat, T # {}
  PROVE  \E m \in T : \A k \in T : m <= k
<1>1. PICK m \in T : \A k \in T : ~(<<k, m>> \in OpToRel(<, Nat))
  <2>1. IsWellFoundedOn(OpToRel(<, Nat), Nat)
    BY NatLessThanWellFounded
  <2> QED BY <2>1, WFMin
<1>2. \A k \in T : <<k, m>> \in Nat \X Nat /\ (k < m => <<k, m>> \in OpToRel(<, Nat))
  BY DEF OpToRel
<1>3. \A k \in T : ~(k < m)
  BY <1>1, <1>2, Zenon
<1> QED BY <1>3

(* Min is of the set.                                                      *)
LEMMA MinIsOne ==
  ASSUME NEW T \in SUBSET Nat, T # {}
  PROVE  Min(T) \in T
<1>1. PICK m \in T : \A k \in T : m <= k
  BY LeastExists
<1> QED BY <1>1 DEF Min

(* So is Max, if the set is bounded.                                       *)
LEMMA MaxIsOne ==
  ASSUME NEW T \in SUBSET Nat, T # {}, NEW n \in Nat, \A k \in T : k <= n
  PROVE  Max(T) \in T
<1> DEFINE bounds == {b \in Nat : \A k \in T : k <= b}
<1>1. PICK m \in bounds : \A b \in bounds : m <= b
  BY LeastExists
<1>2. m \in T
  <2> SUFFICES ASSUME m \notin T PROVE FALSE
    OBVIOUS
  <2>1. \A k \in T : k < m
    OBVIOUS
  <2>2. m - 1 \in Nat
    <3>1. PICK k \in T : TRUE
      OBVIOUS
    <3>2. k \in Nat /\ m \in Nat /\ k < m
      BY <2>1, <3>1
    <3> QED BY <3>2
  <2>3. \A k \in T : k <= m - 1
    BY <2>1
  <2>4. m - 1 \in bounds
    BY <2>2, <2>3
  <2> QED BY <1>1, <2>4
<1> HIDE DEF bounds
<1>3. \A k \in T : k <= m
  BY <1>1 DEF bounds
<1> QED BY <1>2, <1>3 DEF Max

(* One of finitely many packages is the newest.                            *)
LEMMA NewestExists ==
  ASSUME NEW S, IsFiniteSet(S), S # {}, \A e \in S : e.version \in Nat
  PROVE  \E e \in S : \A o \in S : o.version <= e.version
<1> DEFINE HasNewest(U) == \E e \in U : \A o \in U : o.version <= e.version
           sizes == {n \in Nat : \E U \in SUBSET S : U # {} /\ Cardinality(U) = n /\ ~HasNewest(U)}
<1> SUFFICES ASSUME ~HasNewest(S) PROVE FALSE
  OBVIOUS
<1>1. Cardinality(S) \in sizes
  BY FS_CardinalityType
<1>2. PICK n \in sizes : \A k \in sizes : n <= k
  BY <1>1, LeastExists
<1>3. PICK U \in SUBSET S : U # {} /\ Cardinality(U) = n /\ ~HasNewest(U)
  BY <1>2
<1>4. PICK x \in U : TRUE
  BY <1>3
<1> DEFINE V == U \ {x}
<1>5. IsFiniteSet(U) /\ n \in Nat
  BY <1>2, FS_Subset
<1>6. IsFiniteSet(V) /\ Cardinality(V) = n - 1 /\ Cardinality(V) \in Nat
  BY <1>3, <1>4, <1>5, FS_RemoveElement, FS_CardinalityType
<1>7. V = {} \/ HasNewest(V)
  <2> SUFFICES ASSUME V # {}, ~HasNewest(V) PROVE FALSE
    OBVIOUS
  <2> HIDE DEF HasNewest
  <2>1. V \in SUBSET S
    BY <1>3
  <2>2. Cardinality(V) \in sizes
    BY <1>6, <2>1
  <2> QED BY <1>2, <1>5, <1>6, <2>2
<1>8. CASE V = {}
  <2>1. U = {x}
    BY <1>4, <1>8
  <2> QED BY <1>3, <2>1
<1>9. CASE HasNewest(V)
  <2>1. PICK e \in V : \A o \in V : o.version <= e.version
    BY <1>9
  <2>2. e \in U /\ e.version \in Nat /\ x.version \in Nat
    BY <1>3, <1>4, <2>1
  <2>3. CASE x.version <= e.version
    BY <1>3, <2>1, <2>2, <2>3
  <2>4. CASE e.version <= x.version
    <3>1. ASSUME NEW o \in U PROVE o.version <= x.version
      <4>1. CASE o = x
        BY <2>2, <4>1
      <4>2. CASE o # x
        <5>1. o.version <= e.version /\ o.version \in Nat
          BY <1>3, <2>1, <4>2
        <5> QED BY <2>2, <2>4, <5>1
      <4> QED BY <4>1, <4>2
    <3> QED BY <1>3, <1>4, <3>1
  <2> QED BY <2>2, <2>3, <2>4
<1> QED BY <1>7, <1>8, <1>9

(* What the archives serve now.                                            *)
WorldPackages == UNION {Worlds[world][at] : at \in DOMAIN Worlds[world]}

(* A list is part of it.                                                   *)
LEMMA Served ==
  ASSUME world \in DOMAIN Worlds, NEW at
  PROVE  Serves(at) \subseteq WorldPackages
BY DEF Serves, WorldPackages

(* The newest version of a package that can be installed is listed, with   *)
(* a digest.                                                               *)
LEMMA NewestIsOffered ==
  ASSUME world \in DOMAIN Worlds, NEW offers \in SUBSET WorldPackages, NEW names, Available(offers, names),
         NEW n \in UNION {Needs[m] : m \in names}
  PROVE  /\ Newest(offers, n) \in offers /\ Newest(offers, n).name = n
         /\ Newest(offers, n).version \in Nat /\ Newest(offers, n).arch = ArchOf[n]
         /\ Newest(offers, n).digest # Nothing
<1>1. IsFiniteSet(WorldPackages)
      /\ \A e \in WorldPackages : e.version \in Nat /\ e.arch = ArchOf[e.name] /\ e.digest # Nothing
  BY WorldsAssumption DEF WorldPackages
<1> DEFINE S == {o \in offers : o.name = n}
<1>2. S # {}
  BY DEF Available
<1>3. S \in SUBSET WorldPackages
  OBVIOUS
<1>4. IsFiniteSet(S) /\ \A e \in S : e.version \in Nat
  BY <1>1, <1>3, FS_Subset
<1>5. PICK e \in S : \A o \in S : o.version <= e.version
  BY <1>2, <1>4, NewestExists
<1>6. e \in offers /\ e.name = n /\ \A o \in offers : o.name = n => o.version <= e.version
  BY <1>5
<1>7. Newest(offers, n) \in offers /\ Newest(offers, n).name = n
  BY <1>6 DEF Newest
<1> QED BY <1>1, <1>7

(* One package of a name.                                                  *)
UniqueNames(packages) == \A p, q \in packages : p.name = q.name => p = q

(* What is installed is listed, with a digest.                             *)
LEMMA InstalledAreOffered ==
  ASSUME world \in DOMAIN Worlds, NEW offers \in SUBSET WorldPackages, NEW names, Available(offers, names),
         NEW p \in Installed(offers, names)
  PROVE  /\ p.version \in Nat
         /\ \E e \in offers : KeyOf(e) = KeyOf(p) /\ e.digest # Nothing
<1>1. PICK n \in UNION {Needs[m] : m \in names} :
        p = [name |-> n, version |-> Newest(offers, n).version, arch |-> ArchOf[n],
             reason |-> "", source |-> "", digest |-> Nothing]
  BY DEF Installed
<1>2. p.name = n /\ p.version = Newest(offers, n).version /\ p.arch = ArchOf[n]
  BY <1>1
<1>3. /\ Newest(offers, n) \in offers /\ Newest(offers, n).name = n
      /\ Newest(offers, n).version \in Nat /\ Newest(offers, n).arch = ArchOf[n]
      /\ Newest(offers, n).digest # Nothing
  BY NewestIsOffered
<1> QED BY <1>2, <1>3 DEF KeyOf

(* It is installed in one version.                                         *)
LEMMA InstalledOnce ==
  ASSUME NEW offers, NEW names
  PROVE  UniqueNames(Installed(offers, names))
<1> SUFFICES ASSUME NEW p \in Installed(offers, names), NEW q \in Installed(offers, names), p.name = q.name
             PROVE  p = q
  BY DEF UniqueNames
<1>1. PICK n \in UNION {Needs[m] : m \in names} :
        p = [name |-> n, version |-> Newest(offers, n).version, arch |-> ArchOf[n],
             reason |-> "", source |-> "", digest |-> Nothing]
  BY DEF Installed
<1>2. PICK k \in UNION {Needs[m] : m \in names} :
        q = [name |-> k, version |-> Newest(offers, k).version, arch |-> ArchOf[k],
             reason |-> "", source |-> "", digest |-> Nothing]
  BY DEF Installed
<1>3. n = k
  BY <1>1, <1>2
<1> QED BY <1>1, <1>2, <1>3

(* What is asked for is installed.                                         *)
LEMMA SomethingInstalled ==
  ASSUME NEW offers, NEW names, NEW n \in names, n \in Needs[n]
  PROVE  \E p \in Installed(offers, names) : p.name = n
<1> DEFINE p == [name |-> n, version |-> Newest(offers, n).version, arch |-> ArchOf[n],
                 reason |-> "", source |-> "", digest |-> Nothing]
<1>1. n \in UNION {Needs[m] : m \in names}
  OBVIOUS
<1>2. p \in Installed(offers, names)
  BY <1>1 DEF Installed
<1> QED BY <1>2

(* What the lists of the origins say of a package.                         *)
ListedDigests(lists, origins, key) ==
  {e.digest : e \in {e \in UNION {lists[at] : at \in {o.at : o \in Range(origins)}} : KeyOf(e) = key}}

(* The rank of a list is that of an origin.                                *)
LEMMA OriginIsOne ==
  ASSUME NEW origins, NEW n \in Nat, DOMAIN origins = 1..n, NEW at \in {o.at : o \in Range(origins)}
  PROVE  OriginOf(at, origins) \in 1..n
<1> DEFINE S == {i \in DOMAIN origins : origins[i].at = at}
<1>1. PICK o \in Range(origins) : o.at = at
  OBVIOUS
<1>2. PICK i \in DOMAIN origins : origins[i] = o
  BY DEF Range
<1>3. S # {} /\ S \in SUBSET Nat
  BY <1>1, <1>2
<1>4. Min(S) \in S
  BY <1>3, MinIsOne
<1> QED BY <1>4 DEF OriginOf

(* A recorded package was installed, its digest is the only one listed,    *)
(* and its source is that of an origin.                                    *)
LEMMA RecordedFrom ==
  ASSUME NEW lists, NEW installed, NEW origins, NEW n \in Nat, DOMAIN origins = 1..n,
         \A p \in installed : IsPackage(p),
         RecordChecksums(lists, installed, origins) # Nothing,
         NEW q \in RecordChecksums(lists, installed, origins)
  PROVE  \E p \in installed :
           /\ KeyOf(q) = KeyOf(p) /\ q.name = p.name /\ q.version = p.version
           /\ q.digest # Nothing /\ ListedDigests(lists, origins, KeyOf(q)) = {q.digest}
           /\ \E k \in DOMAIN origins : q.source = origins[k].source
<1> DEFINE places == {o.at : o \in Range(origins)}
           Listing(p) == {at \in places : \E e \in lists[at] : KeyOf(e) = KeyOf(p)}
           DigestsOf(p) == {e.digest : e \in {e \in UNION {lists[at] : at \in places} : KeyOf(e) = KeyOf(p)}}
           Ranks(p) == {OriginOf(at, origins) : at \in Listing(p)}
           SourceOf(p) == origins[Max(Ranks(p))].source
           DigestOf(p) == CHOOSE d \in DigestsOf(p) : TRUE
<1>1. PICK p \in installed : q = [p EXCEPT !.digest = DigestOf(p), !.source = SourceOf(p)]
  BY DEF RecordChecksums
<1>2. \E d \in DigestsOf(p) : d # Nothing /\ DigestsOf(p) = {d}
  BY DEF RecordChecksums
<1>3. \E k \in DOMAIN origins : SourceOf(p) = origins[k].source
  <2>1. PICK e \in UNION {lists[at] : at \in places} : KeyOf(e) = KeyOf(p)
    BY <1>2
  <2>2. PICK at \in places : e \in lists[at]
    OBVIOUS
  <2>3. at \in Listing(p)
    BY <2>1, <2>2
  <2>4. Ranks(p) \subseteq 1..n
    BY OriginIsOne
  <2>5. Ranks(p) # {}
    BY <2>3
  <2> HIDE DEF Ranks
  <2>6. Ranks(p) \in SUBSET Nat /\ \A k \in Ranks(p) : k <= n
    BY <2>4
  <2>7. Max(Ranks(p)) \in Ranks(p)
    BY <2>5, <2>6, MaxIsOne
  <2> QED BY <2>4, <2>7
<1> HIDE DEF DigestsOf, SourceOf
<1>4. DigestOf(p) # Nothing /\ DigestsOf(p) = {DigestOf(p)}
  BY <1>2
<1> HIDE DEF DigestOf
<1>5. /\ KeyOf(q) = KeyOf(p) /\ q.name = p.name /\ q.version = p.version
      /\ q.digest = DigestOf(p) /\ q.source = SourceOf(p)
  BY <1>1 DEF IsPackage, KeyOf
<1>6. ListedDigests(lists, origins, KeyOf(q)) = DigestsOf(p)
  BY <1>5 DEF ListedDigests, DigestsOf
<1> QED BY <1>1, <1>3, <1>4, <1>5, <1>6

(* The origins of the apt indexes: the pockets, and the recipe's sources.  *)
LEMMA IndexesOfTheImage ==
  ASSUME NEW sources, sources \in Seq(Range(sources))
  PROVE  LET origins == IndexOrigins(sources)
         IN /\ \E n \in Nat : DOMAIN origins = 1..n
            /\ \A k \in DOMAIN origins :
                 \/ origins[k].source = "" /\ origins[k].at \in Pockets
                 \/ \E s \in Range(sources) : origins[k].source = s.name
            /\ Pockets \subseteq {o.at : o \in Range(origins)}
<1> DEFINE n == Len(sources)
           named == [i \in DOMAIN sources |-> [source |-> sources[i].name, at |-> sources[i].at]]
           back  == Reverse(named)
           release == [source |-> "", at |-> "release"]
           updates == [source |-> "", at |-> "updates"]
           security == [source |-> "", at |-> "security"]
           pockets == <<release, updates, security>>
           origins == IndexOrigins(sources)
<1>1. n \in Nat /\ DOMAIN sources = 1..n
  OBVIOUS
<1>2. DOMAIN named = 1..n /\ Len(named) = n
  BY <1>1
<1>3. back = [i \in 1..n |-> named[n - i + 1]]
  BY <1>2 DEF Reverse
<1>4. \A i \in 1..n : \E s \in Range(sources) : back[i].source = s.name
  <2> TAKE i \in 1..n
  <2>1. n - i + 1 \in DOMAIN sources
    BY <1>1
  <2>2. back[i].source = sources[n - i + 1].name
    BY <1>1, <1>3, <2>1
  <2>3. sources[n - i + 1] \in Range(sources)
    BY <2>1 DEF Range
  <2> QED BY <2>2, <2>3
<1> HIDE DEF n, named, pockets
<1>5. DOMAIN back = 1..n /\ Len(back) = n
  BY <1>1, <1>3
<1>6. Len(pockets) = 3 /\ \A i \in 1..3 : pockets[i].source = "" /\ pockets[i].at \in Pockets
  <2>1. /\ Len(pockets) = 3
        /\ pockets[1].source = "" /\ pockets[2].source = "" /\ pockets[3].source = ""
        /\ pockets[1].at = "release" /\ pockets[2].at = "updates" /\ pockets[3].at = "security"
    BY DEF pockets
  <2>2. \A i \in 1..3 : i = 1 \/ i = 2 \/ i = 3
    OBVIOUS
  <2> QED BY <2>1, <2>2 DEF Pockets
<1>7. origins = back \o pockets
  BY DEF IndexOrigins, named, pockets
<1> HIDE DEF back, origins
<1>8. /\ DOMAIN origins = 1..(n + 3)
      /\ \A i \in 1..(n + 3) : origins[i] = IF i <= n THEN back[i] ELSE pockets[i - n]
  <2> DEFINE S == Range(back) \cup {release, updates, security}
  <2>1. back \in Seq(S)
    <3>1. \A i \in 1..n : back[i] \in S
      BY <1>5 DEF Range
    <3>2. back = [i \in 1..n |-> back[i]]
      BY <1>3, <1>5
    <3> HIDE DEF S
    <3>3. back \in [1..n -> S]
      BY <3>1, <3>2
    <3> QED BY <1>1, <3>3, SeqDef
  <2>2. pockets \in Seq(S)
    <3> HIDE DEF release, updates, security
    <3>1. release \in S /\ updates \in S /\ security \in S
      OBVIOUS
    <3> HIDE DEF S
    <3> QED BY <3>1 DEF pockets
  <2> HIDE DEF S
  <2>3. /\ origins \in Seq(S) /\ Len(origins) = n + 3
        /\ \A i \in 1..(n + 3) : origins[i] = IF i <= n THEN back[i] ELSE pockets[i - n]
    <3>1. /\ back \o pockets \in Seq(S) /\ Len(back \o pockets) = Len(back) + Len(pockets)
          /\ \A i \in 1 .. Len(back) + Len(pockets) :
               (back \o pockets)[i] = IF i <= Len(back) THEN back[i] ELSE pockets[i - Len(back)]
      BY <2>1, <2>2, ConcatProperties
    <3> QED BY <1>5, <1>6, <1>7, <3>1
  <2> QED BY <2>3, LenProperties
<1>9. n + 3 \in Nat
  BY <1>1
<1>10. ASSUME NEW k \in DOMAIN origins
       PROVE  \/ origins[k].source = "" /\ origins[k].at \in Pockets
              \/ \E s \in Range(sources) : origins[k].source = s.name
  <2>1. CASE k <= n
    <3>1. k \in 1..n /\ origins[k] = back[k]
      BY <1>1, <1>8, <2>1
    <3> QED BY <1>4, <3>1
  <2>2. CASE ~(k <= n)
    <3>1. k - n \in 1..3
      BY <1>1, <1>8, <2>2
    <3> QED BY <1>6, <1>8, <2>2, <3>1
  <2> QED BY <2>1, <2>2
<1>11. Pockets \subseteq {o.at : o \in Range(origins)}
  <2>1. n + 1 \in DOMAIN origins /\ n + 2 \in DOMAIN origins /\ n + 3 \in DOMAIN origins
    BY <1>1, <1>8
  <2>2. /\ origins[n + 1] = pockets[1] /\ origins[n + 2] = pockets[2] /\ origins[n + 3] = pockets[3]
    BY <1>1, <1>8
  <2>3. origins[n + 1] \in Range(origins) /\ origins[n + 2] \in Range(origins) /\ origins[n + 3] \in Range(origins)
    BY <2>1 DEF Range
  <2>4. pockets[1].at = "release" /\ pockets[2].at = "updates" /\ pockets[3].at = "security"
    BY DEF pockets
  <2> QED BY <2>2, <2>3, <2>4 DEF Pockets
<1> QED BY <1>8, <1>9, <1>10, <1>11 DEF origins

(* Recording keeps one package of a name.                                  *)
LEMMA RecordedOnce ==
  ASSUME NEW lists, NEW installed, NEW origins, \A p \in installed : IsPackage(p), UniqueNames(installed),
         RecordChecksums(lists, installed, origins) # Nothing
  PROVE  UniqueNames(RecordChecksums(lists, installed, origins))
<1> DEFINE places == {o.at : o \in Range(origins)}
           Listing(p) == {at \in places : \E e \in lists[at] : KeyOf(e) = KeyOf(p)}
           DigestsOf(p) == {e.digest : e \in {e \in UNION {lists[at] : at \in places} : KeyOf(e) = KeyOf(p)}}
           SourceOf(p) == origins[Max({OriginOf(at, origins) : at \in Listing(p)})].source
           Recorded(p) == [p EXCEPT !.digest = CHOOSE d \in DigestsOf(p) : TRUE, !.source = SourceOf(p)]
<1>1. RecordChecksums(lists, installed, origins) = {Recorded(p) : p \in installed}
  BY DEF RecordChecksums
<1>2. \A p \in installed : Recorded(p).name = p.name
  <2> HIDE DEF DigestsOf, SourceOf
  <2> QED BY DEF IsPackage
<1> HIDE DEF Recorded
<1> QED BY <1>1, <1>2 DEF UniqueNames

(* So does marking, which changes nothing but the reason.                  *)
LEMMA MarkedFrom ==
  ASSUME NEW installed, NEW marks, \A p \in installed : IsPackage(p), UniqueNames(installed)
  PROVE  /\ UniqueNames(MarkAutoInstalled(installed, marks))
         /\ \A q \in MarkAutoInstalled(installed, marks) : \E p \in installed :
              /\ KeyOf(q) = KeyOf(p) /\ q.name = p.name /\ q.version = p.version
              /\ q.digest = p.digest /\ q.source = p.source
<1> DEFINE Marked(p) == [p EXCEPT !.reason = IF <<p.name, AptArchitecture(p.arch)>> \in marks
                                             THEN "auto" ELSE ""]
<1>1. MarkAutoInstalled(installed, marks) = {Marked(p) : p \in installed}
  BY DEF MarkAutoInstalled
<1>2. \A p \in installed : /\ KeyOf(Marked(p)) = KeyOf(p) /\ Marked(p).name = p.name
                           /\ Marked(p).version = p.version
                           /\ Marked(p).digest = p.digest /\ Marked(p).source = p.source
  BY DEF IsPackage, KeyOf
<1> HIDE DEF Marked
<1> QED BY <1>1, <1>2 DEF UniqueNames

(* What vendor and an offline build find in a lock nobody edited.          *)
Readable(l, r, keys) ==
  /\ Manifest(l) = "" /\ WheelManifest(l) = "" /\ PlanOffline(l, r, keys) = ""
  /\ UniqueNames(l.packages) /\ UniqueNames(l.diskTools) /\ UniqueNames(l.tools)
  /\ \A p \in l.packages \cup l.diskTools : p.version \in Nat
  /\ l.distro = r.distro
  /\ l.distro = "fedora" => \A p \in l.packages \cup l.tools : p.source \in Range(FedoraRepos)

(* Packages of one version each, whose digest is the only one the lists of *)
(* the origins have, each from the archive or a source of names.           *)
UbuntuRecorded(packages, origins, names) ==
  /\ UniqueNames(packages)
  /\ \A q \in packages : /\ q.version \in Nat /\ q.digest # Nothing
                         /\ ListedDigests(Lists, origins, KeyOf(q)) = {q.digest}
                         /\ q.source = "" \/ q.source \in names

(* What an online build records is such a set,                             *)
LEMMA InstalledRecorded ==
  ASSUME world \in DOMAIN Worlds, NEW offers \in SUBSET WorldPackages, NEW names, Available(offers, names),
         NEW sources, sources \in Seq(Range(sources)),
         NEW listed, listed = RecordChecksums(Lists, Installed(offers, names), IndexOrigins(sources)),
         listed # Nothing
  PROVE  UbuntuRecorded(listed, IndexOrigins(sources), {s.name : s \in Range(sources)})
<1> DEFINE there == Installed(offers, names)
           origins == IndexOrigins(sources)
<1>0. listed = RecordChecksums(Lists, there, origins)
  OBVIOUS
<1>1. \A p \in there : IsPackage(p)
  BY InstalledPackages
<1>2. UniqueNames(listed)
  BY <1>1, InstalledOnce, RecordedOnce
<1>3. PICK n \in Nat : DOMAIN origins = 1..n
  BY IndexesOfTheImage
<1>4. \A k \in DOMAIN origins : origins[k].source = "" \/ origins[k].source \in {s.name : s \in Range(sources)}
  BY IndexesOfTheImage
<1> HIDE DEF there, origins
<1>5. ASSUME NEW q \in listed
      PROVE  /\ q.version \in Nat /\ q.digest # Nothing
             /\ ListedDigests(Lists, origins, KeyOf(q)) = {q.digest}
             /\ q.source = "" \/ q.source \in {s.name : s \in Range(sources)}
  <2>1. PICK p \in there :
           /\ KeyOf(q) = KeyOf(p) /\ q.version = p.version
           /\ q.digest # Nothing /\ ListedDigests(Lists, origins, KeyOf(q)) = {q.digest}
           /\ \E k \in DOMAIN origins : q.source = origins[k].source
    <3>1. q \in RecordChecksums(Lists, there, origins) /\ RecordChecksums(Lists, there, origins) # Nothing
      BY <1>0
    <3> QED BY <1>1, <1>3, <3>1, RecordedFrom
  <2>2. p.version \in Nat
    BY InstalledAreOffered DEF there
  <2> QED BY <1>4, <2>1, <2>2
<1> QED BY <1>2, <1>5 DEF UbuntuRecorded, origins

(* marked or not.                                                          *)
LEMMA MarkedRecorded ==
  ASSUME NEW listed, NEW origins, NEW names, NEW marks, UbuntuRecorded(listed, origins, names),
         \A p \in listed : IsPackage(p)
  PROVE  UbuntuRecorded(MarkAutoInstalled(listed, marks), origins, names)
<1> DEFINE marked == MarkAutoInstalled(listed, marks)
<1>0. UniqueNames(listed)
  BY DEF UbuntuRecorded
<1>1. UniqueNames(marked)
  BY <1>0, MarkedFrom
<1>2. ASSUME NEW q \in marked
      PROVE  /\ q.version \in Nat /\ q.digest # Nothing
             /\ ListedDigests(Lists, origins, KeyOf(q)) = {q.digest}
             /\ q.source = "" \/ q.source \in names
  <2>1. PICK p \in listed : /\ KeyOf(q) = KeyOf(p) /\ q.version = p.version
                            /\ q.digest = p.digest /\ q.source = p.source
    BY <1>0, MarkedFrom
  <2> QED BY <2>1 DEF UbuntuRecorded
<1> QED BY <1>1, <1>2 DEF UbuntuRecorded

(* The lists of the tools tree are among those of the image.               *)
LEMMA ToolsListed ==
  ASSUME NEW sources, sources \in Seq(Range(sources)), NEW key
  PROVE  ListedDigests(Lists, IndexOrigins(<<>>), key) \subseteq ListedDigests(Lists, IndexOrigins(sources), key)
<1> DEFINE few  == IndexOrigins(<<>>)
           many == IndexOrigins(sources)
<1>1. Pockets \subseteq {o.at : o \in Range(many)}
  BY IndexesOfTheImage
<1>2. <<>> \in Seq(Range(<<>>)) /\ Range(<<>>) = {}
  BY DEF Range
<1>3. \A k \in DOMAIN few : few[k].at \in Pockets
  BY <1>2, IndexesOfTheImage
<1> HIDE DEF few, many
<1>4. {o.at : o \in Range(few)} \subseteq Pockets
  BY <1>3 DEF Range
<1> QED BY <1>1, <1>4 DEF ListedDigests, few, many

(* The pool of an Ubuntu lock that was written so can be told.             *)
LEMMA UbuntuManifest ==
  ASSUME NEW l, l.distro = "ubuntu", NEW sources, sources \in Seq(Range(sources)), NEW keys,
         l.packages # {}, UbuntuRecorded(l.packages, IndexOrigins(sources), {s.name : s \in Range(sources)}),
         UbuntuRecorded(l.diskTools, IndexOrigins(<<>>), {}),
         l.repositories = LockRepositories(sources, keys)
  PROVE  Manifest(l) = ""
<1> DEFINE all == l.packages \cup l.diskTools
<1>1. \A p \in all : p.digest # Nothing
  BY DEF UbuntuRecorded
<1>2. ASSUME NEW p \in all, p.source # ""
      PROVE  \E q \in l.repositories : q.name = p.source
  <2>1. p \in l.packages /\ p.source \in {s.name : s \in Range(sources)}
    BY <1>2 DEF UbuntuRecorded
  <2>2. PICK s \in Range(sources) : p.source = s.name
    BY <2>1
  <2>3. [name |-> s.name, at |-> s.at, key |-> keys[s.name]] \in l.repositories
    BY DEF LockRepositories
  <2> QED BY <2>2, <2>3
<1>3. ASSUME NEW p \in l.packages, NEW q \in l.packages, FileName(p) = FileName(q)
      PROVE  p = q
  <2>1. p.name = q.name
    BY <1>3 DEF FileName
  <2> QED BY <2>1 DEF UbuntuRecorded, UniqueNames
<1>4. \A p : FileName(p) = KeyOf(p)
  BY DEF FileName, KeyOf
<1>5. ASSUME NEW p \in all, NEW q \in all, FileName(p) = FileName(q)
      PROVE  p.digest = q.digest
  <2> DEFINE many == ListedDigests(Lists, IndexOrigins(sources), KeyOf(p))
             few  == ListedDigests(Lists, IndexOrigins(<<>>), KeyOf(p))
  <2>1. few \subseteq many
    BY ToolsListed
  <2>2. KeyOf(p) = KeyOf(q)
    BY <1>4, <1>5
  <2>3. p \in l.packages => many = {p.digest}
    BY DEF UbuntuRecorded
  <2>4. q \in l.packages => many = {q.digest}
    BY <2>2 DEF UbuntuRecorded
  <2>5. p \in l.diskTools => few = {p.digest}
    BY DEF UbuntuRecorded
  <2>6. q \in l.diskTools => few = {q.digest}
    BY <2>2 DEF UbuntuRecorded
  <2> HIDE DEF many, few
  <2> QED BY <2>1, <2>3, <2>4, <2>5, <2>6
<1>6. \A p \in l.packages : p \in all
  OBVIOUS
<1> HIDE DEF all
<1> QED BY <1>1, <1>2, <1>3, <1>5, <1>6 DEF Manifest, all

(* Every locked wheel has a digest.                                        *)
LEMMA WheelsReadable ==
  ASSUME NEW report, NEW requested, NEW wheels,
         \/ wheels = ParsePipReport(report, requested)
         \/ wheels = WithResolvedPin(ParsePipReport(report, requested), PinnedPip),
         ParsePipReport(report, requested) # Nothing
  PROVE  \A w \in wheels : w.digest # Nothing
<1> DEFINE parsed == ParsePipReport(report, requested)
<1>1. \A w \in report : w.digest # Nothing
  BY DEF ParsePipReport
<1>2. parsed = WithPinnedPip(report)
  BY DEF ParsePipReport
<1>3. \A w \in parsed : w.digest # Nothing
  BY <1>1, <1>2, PinnedPipAssumption DEF WithPinnedPip
<1>4. [PinnedPip EXCEPT !.auto = TRUE] = PinnedPip
  BY PinnedPipAssumption
<1> HIDE DEF parsed
<1>5. \A w \in WithResolvedPin(parsed, PinnedPip) : w.digest # Nothing
  BY <1>3, <1>4, PinnedPipAssumption DEF WithResolvedPin
<1> QED BY <1>3, <1>5 DEF parsed

(* The lock does not differ from its own recipe.                           *)
LEMMA NoDifferences ==
  ASSUME NEW r \in Recipes, NEW keys, NEW l, l.release = r.release, l.requested = r.include,
         l.python = IF r.python = {} THEN NoPython ELSE [requested |-> r.python, index |-> r.index],
         l.repositories = LockRepositories(r.sources, keys),
         l.certificates = LockCertificates(r.certificates, keys)
  PROVE  ~UbuntuDifferences(l, r, keys)
<1>1. /\ r.index # "" => r.python # {}
      /\ \A s, t \in Range(r.sources) : s.name = t.name => s = t
  BY RecipesAssumption
<1>2. l.python.requested = r.python /\ l.python.index = r.index
  <2>1. CASE r.python = {}
    <3> DEFINE none == ""
    <3>1. l.python = [requested |-> {}, index |-> none] /\ r.index = none
      BY <1>1, <2>1 DEF NoPython
    <3> HIDE DEF none
    <3> QED BY <2>1, <3>1
  <2>2. CASE r.python # {}
    <3>1. l.python = [requested |-> r.python, index |-> r.index]
      BY <2>2
    <3> QED BY <3>1
  <2> QED BY <2>1, <2>2
<1>3. \A q \in l.repositories : \E s \in Range(r.sources) :
         q.name = s.name /\ q.at = s.at /\ q.key = keys[s.name]
  BY DEF LockRepositories
<1>4. ASSUME NEW s \in Range(r.sources) PROVE \E q \in l.repositories : q.name = s.name
  <2>1. [name |-> s.name, at |-> s.at, key |-> keys[s.name]] \in l.repositories
    BY DEF LockRepositories
  <2> QED BY <2>1
<1>5. {q.name : q \in l.repositories} = {s.name : s \in Range(r.sources)}
  BY <1>3, <1>4
<1>6. \A s \in Range(r.sources), q \in l.repositories : q.name = s.name => q.at = s.at /\ q.key = keys[s.name]
  BY <1>1, <1>3
<1> QED BY <1>2, <1>5, <1>6
        DEF UbuntuDifferences, RepositoryDifferences, SourceKeyDifferences, CertificateDifferences

(* An Ubuntu lock has source lines, if only the archive's.                 *)
LEMMA SourcesAreLocked ==
  ASSUME NEW sources, sources \in Seq(Range(sources))
  PROVE  SourceLines(sources) # <<>>
<1> DEFINE at == [i \in DOMAIN sources |-> sources[i].at]
           S == {at[i] : i \in DOMAIN sources} \cup {"release", "updates", "security"}
<1>1. Len(sources) \in Nat /\ DOMAIN sources = 1..Len(sources)
  OBVIOUS
<1>2. at \in [1..Len(sources) -> S]
  BY <1>1
<1>3. at \in Seq(S)
  BY <1>1, <1>2, SeqDef
<1>4. <<"release", "updates", "security">> \in Seq(S) /\ Len(<<"release", "updates", "security">>) = 3
  OBVIOUS
<1> HIDE DEF at, S
<1>5. Len(<<"release", "updates", "security">> \o at) = 3 + Len(at) /\ Len(at) \in Nat
  BY <1>3, <1>4, ConcatProperties, LenProperties
<1>6. Len(SourceLines(sources)) = 3 + Len(at)
  BY <1>5 DEF SourceLines, at
<1>7. Len(<<>>) = 0
  OBVIOUS
<1> QED BY <1>5, <1>6, <1>7

(* The absent lock is of no family.                                        *)
LEMMA NoLockIsOfNoFamily ==
  NoLock.distro \notin {"ubuntu", "fedora"}
<1> DEFINE none == ""
<1>1. none \notin {"ubuntu", "fedora"} /\ NoLock = [distro |-> none]
  BY DEF NoLock
<1> HIDE DEF none
<1> QED BY <1>1

(* The lock an online Ubuntu build writes can be read.                     *)
LEMMA UbuntuReadable ==
  ASSUME recipe \in Recipes, world \in DOMAIN Worlds, recipe.distro = "ubuntu",
         NEW built, built = BuildUbuntu(recipe), built # Nothing
  PROVE  Readable(built.lock, recipe, files)
<1> DEFINE r      == recipe
           offers == ToolsOffers \cup UNION {Serves(s.at) : s \in Range(r.sources)}
           parsed == ParsePipReport(Report(r), r.python)
           wheels == IF r.python = {} THEN {}
                     ELSE IF parsed = Nothing \/ r.index = "" THEN parsed ELSE WithResolvedPin(parsed, PinnedPip)
           names  == DiskPackagesToInstall(r)
           there  == Installed(offers, names)
           marks  == {<<p.name, AptArchitecture(p.arch)>> : p \in {p \in there : p.name \notin names}}
           tools  == IF r.target = "disk"
                     THEN RecordChecksums(Lists, Installed(ToolsOffers, DiskTools), IndexOrigins(<<>>)) ELSE {}
           listed == RecordChecksums(Lists, there, IndexOrigins(r.sources))
           marked == MarkAutoInstalled(listed, marks)
           python == IF r.python = {} THEN NoPython ELSE [requested |-> r.python, index |-> r.index]
<1>1. /\ listed # Nothing /\ tools # Nothing /\ wheels # Nothing
      /\ Available(offers, names) /\ (r.target = "disk" => Available(ToolsOffers, DiskTools))
      /\ built.lock =
              [distro |-> "ubuntu", target |-> r.target, release |-> r.release, requested |-> r.include,
               sources |-> SourceLines(r.sources), epoch |-> now,
               repositories |-> LockRepositories(r.sources, files),
               certificates |-> LockCertificates(r.certificates, files),
               packages |-> marked, pypi |-> wheels, python |-> python,
               disk |-> IF r.target = "disk" THEN r.size ELSE Nothing, diskTools |-> tools, tools |-> {}]
  BY DEF BuildUbuntu, UbuntuBuild
<1>2. r.sources \in Seq(Range(r.sources)) /\ <<>> \in Seq(Range(<<>>)) /\ Range(<<>>) = {}
  <2>1. DOMAIN <<>> = {} /\ <<>> \in Seq({})
    OBVIOUS
  <2>2. Range(<<>>) = {}
    BY <2>1 DEF Range
  <2> QED BY <2>1, <2>2, RecipesAssumption
<1>3. offers \in SUBSET WorldPackages /\ ToolsOffers \in SUBSET WorldPackages
  BY Served DEF ToolsOffers
<1> DEFINE l == built.lock
<1>4. /\ l.distro = "ubuntu" /\ l.target = r.target /\ l.release = r.release /\ l.requested = r.include
      /\ l.sources = SourceLines(r.sources) /\ l.repositories = LockRepositories(r.sources, files)
      /\ l.certificates = LockCertificates(r.certificates, files)
      /\ l.packages = marked /\ l.pypi = wheels /\ l.python = python
      /\ l.diskTools = tools /\ l.tools = {}
  <2> HIDE DEF wheels, names, there, marks, tools, marked, python
  <2> QED BY <1>1
<1> HIDE DEF offers, parsed
<1>6. \A w \in wheels : w.digest # Nothing
  <2>1. CASE r.python = {}
    BY <2>1
  <2>2. CASE r.python # {}
    <3>1. wheels = parsed \/ wheels = WithResolvedPin(parsed, PinnedPip)
      BY <2>2
    <3>2. wheels # Nothing
      BY <1>1
    <3>3. parsed # Nothing
      BY <2>2, <3>2
    <3> HIDE DEF wheels
    <3> QED BY <3>1, <3>3, WheelsReadable DEF parsed
  <2> QED BY <2>1, <2>2
<1> HIDE DEF wheels, names
<1>7. \A p \in there : IsPackage(p)
  BY InstalledPackages
<1>8. \A p \in listed : IsPackage(p)
  BY <1>1, <1>7, RecordedPackages
<1>9. UbuntuRecorded(listed, IndexOrigins(r.sources), {s.name : s \in Range(r.sources)})
  <2>1. listed = RecordChecksums(Lists, Installed(offers, names), IndexOrigins(r.sources))
    OBVIOUS
  <2>2. listed # Nothing /\ Available(offers, names)
    BY <1>1
  <2>3. r.sources \in Seq(Range(r.sources)) /\ offers \in SUBSET WorldPackages
    BY <1>2, <1>3
  <2> HIDE DEF listed, there, r
  <2> QED BY <2>1, <2>2, <2>3, InstalledRecorded
<1>10. UbuntuRecorded(tools, IndexOrigins(<<>>), {})
  <2>1. CASE r.target = "disk"
    <3>1. UbuntuRecorded(tools, IndexOrigins(<<>>), {s.name : s \in Range(<<>>)})
      <4>1. tools = RecordChecksums(Lists, Installed(ToolsOffers, DiskTools), IndexOrigins(<<>>))
        BY <2>1
      <4>2. tools # Nothing /\ Available(ToolsOffers, DiskTools)
        BY <1>1, <2>1
      <4> HIDE DEF tools
      <4> QED BY <1>2, <1>3, <4>1, <4>2, InstalledRecorded
    <3>2. {s.name : s \in Range(<<>>)} = {}
      BY <1>2
    <3> QED BY <3>1, <3>2
  <2>2. CASE r.target # "disk"
    BY <2>2 DEF UbuntuRecorded, UniqueNames
  <2> QED BY <2>1, <2>2
<1>11. marked # {}
  <2>1. PICK n \in names : n \in Needs[n]
    BY NeedsAssumption, ListsAssumption DEF names, DiskPackagesToInstall, PackagesToInstall
  <2>2. there # {}
    BY <2>1, SomethingInstalled
  <2>3. listed # {}
    <3>1. Content(listed) = Content(there)
      BY <1>1, <1>7, RecordedPackages
    <3> HIDE DEF listed, there
    <3> QED BY <2>2, <3>1 DEF Content
  <2> HIDE DEF listed
  <2> QED BY <2>3 DEF MarkAutoInstalled
<1>12. r.target = "disk" => tools # {}
  <2> SUFFICES ASSUME r.target = "disk" PROVE tools # {}
    OBVIOUS
  <2>1. PICK n \in DiskTools : n \in Needs[n]
    BY NeedsAssumption, ListsAssumption
  <2>2. Installed(ToolsOffers, DiskTools) # {}
    BY <2>1, SomethingInstalled
  <2>3. \A p \in Installed(ToolsOffers, DiskTools) : IsPackage(p)
    BY InstalledPackages
  <2>4. Content(tools) = Content(Installed(ToolsOffers, DiskTools))
    BY <1>1, <2>3, RecordedPackages
  <2> HIDE DEF tools
  <2> QED BY <2>2, <2>4 DEF Content
<1> HIDE DEF there, tools, listed, marks
<1>13. UbuntuRecorded(marked, IndexOrigins(r.sources), {s.name : s \in Range(r.sources)})
  BY <1>8, <1>9, MarkedRecorded
<1> HIDE DEF marked
<1>14. Manifest(l) = ""
  BY <1>2, <1>4, <1>10, <1>11, <1>13, UbuntuManifest
<1>15. WheelManifest(l) = ""
  BY <1>4, <1>6 DEF WheelManifest
<1>16. ~UbuntuDifferences(l, r, files)
  BY <1>4, NoDifferences
<1>17. l.sources # <<>>
  BY <1>2, <1>4, SourcesAreLocked
<1>18. l # NoLock
  <2> HIDE DEF l
  <2> QED BY <1>4, NoLockIsOfNoFamily
<1> HIDE DEF l
<1>19. PlanOffline(l, r, files) = ""
  BY <1>4, <1>12, <1>14, <1>15, <1>16, <1>17, <1>18 DEF PlanOffline, PlanUbuntu
<1>20. /\ UniqueNames(marked) /\ UniqueNames(tools)
       /\ \A p \in marked \cup tools : p.version \in Nat
  BY <1>10, <1>13 DEF UbuntuRecorded
<1> QED BY <1>4, <1>14, <1>15, <1>19, <1>20 DEF Readable, UniqueNames, l

(* What the repositories say of a Fedora package.                          *)
FedoraDigest(key) == CHOOSE d \in {e.digest : e \in {e \in FedoraOffers : KeyOf(e) = key}} : TRUE

(* They have a digest of what they list.                                   *)
LEMMA FedoraDigestIsKnown ==
  ASSUME NEW key, \E e \in FedoraOffers : KeyOf(e) = key, \A e \in FedoraOffers : e.digest # Nothing
  PROVE  FedoraDigest(key) # Nothing
<1> DEFINE S == {e.digest : e \in {e \in FedoraOffers : KeyOf(e) = key}}
<1>1. S # {} /\ Nothing \notin S
  OBVIOUS
<1> HIDE DEF S
<1>2. (CHOOSE d \in S : TRUE) \in S
  BY <1>1
<1> QED BY <1>1, <1>2 DEF FedoraDigest, S

(* The release's repositories come in an order.                            *)
LEMMA RepositoriesAreNumbered ==
  /\ DOMAIN FedoraRepos \in SUBSET Nat
  /\ \A n \in Range(FedoraRepos) : \E i \in DOMAIN FedoraRepos : FedoraRepos[i] = n
  /\ \A i \in DOMAIN FedoraRepos : FedoraRepos[i] \in Range(FedoraRepos)
BY ListsAssumption DEF Range

(* A listed package is from one of the repositories,                       *)
LEMMA FromRepoIsOne ==
  ASSUME NEW p, \E e \in FedoraOffers : KeyOf(e) = KeyOf(p)
  PROVE  FromRepo(p) \in Range(FedoraRepos)
<1> DEFINE S == {i \in DOMAIN FedoraRepos : \E e \in Serves(FedoraRepos[i]) : KeyOf(e) = KeyOf(p)}
<1>1. PICK n \in Range(FedoraRepos) : \E e \in Serves(n) : KeyOf(e) = KeyOf(p)
  BY DEF FedoraOffers
<1>2. S # {} /\ S \in SUBSET Nat
  BY <1>1, RepositoriesAreNumbered
<1>3. Min(S) \in S
  BY <1>2, MinIsOne
<1> QED BY <1>3, RepositoriesAreNumbered DEF FromRepo

(* and one that was downloaded is in the cache of one.                     *)
LEMMA CachedRepositoryIsOne ==
  ASSUME NEW held, NEW manager, NEW p, FromRepo(p) \in Range(FedoraRepos),
         <<manager, FromRepo(p), FileName(p)>> \in held
  PROVE  CachedRepository(held, manager, p) \in Range(FedoraRepos)
<1> DEFINE S == {i \in DOMAIN FedoraRepos : <<manager, FedoraRepos[i], FileName(p)>> \in held}
<1>1. S # {} /\ S \in SUBSET Nat
  BY RepositoriesAreNumbered
<1>2. Min(S) \in S
  BY <1>1, MinIsOne
<1> QED BY <1>2, RepositoriesAreNumbered DEF CachedRepository

(* Packages of one version each, with the digest the repositories have.    *)
FedoraRecorded(packages) ==
  /\ UniqueNames(packages)
  /\ \A q \in packages : /\ q.version \in Nat /\ q.digest # Nothing
                         /\ q.digest = FedoraDigest(KeyOf(q))
                         /\ q.source \in Range(FedoraRepos)

(* The pool of a Fedora lock that was written so can be told.              *)
LEMMA FedoraManifest ==
  ASSUME NEW l, l.distro = "fedora", l.packages # {}, FedoraRecorded(l.packages), FedoraRecorded(l.tools),
         l.repositories = {[name |-> n, at |-> n, key |-> FedoraKey] : n \in Range(FedoraRepos)}
  PROVE  /\ Manifest(l) = ""
         /\ \A p \in l.packages \cup l.tools : \E q \in l.repositories : q.name = p.source
<1> DEFINE all == l.packages \cup l.tools
<1>1. \A p \in all : p.digest # Nothing /\ p.source \in Range(FedoraRepos) /\ p.digest = FedoraDigest(KeyOf(p))
  BY DEF FedoraRecorded
<1>2. \A n \in Range(FedoraRepos) : \E q \in l.repositories : q.name = n
  <2> TAKE n \in Range(FedoraRepos)
  <2>1. [name |-> n, at |-> n, key |-> FedoraKey] \in l.repositories
    OBVIOUS
  <2> QED BY <2>1
<1>3. \A p : FileName(p) = KeyOf(p)
  BY DEF FileName, KeyOf
<1>4. \A p \in all, q \in all : FileName(p) = FileName(q) => p.digest = q.digest
  BY <1>1, <1>3
<1>5. \A p \in l.packages : p \in all
  OBVIOUS
<1>6. \A p \in l.tools : p \in all
  OBVIOUS
<1> HIDE DEF all
<1> QED BY <1>1, <1>2, <1>4, <1>5, <1>6 DEF Manifest, all

(* The lock an online Fedora build writes can be read.                     *)
LEMMA FedoraReadable ==
  ASSUME recipe \in Recipes, world \in DOMAIN Worlds, recipe.distro = "fedora",
         NEW built, built = BuildFedora(recipe), built # Nothing
  PROVE  Readable(built.lock, recipe, files)
<1> DEFINE r     == recipe
           asked == FedoraPackagesToInstall(r)
           Asked(p) == [p EXCEPT !.reason = IF p.name \in asked THEN "User" ELSE "Dependency",
                                 !.source = FromRepo(p)]
           image == Installed(FedoraOffers, asked)
           there == {Asked(p) : p \in image}
           tools == Installed(FedoraOffers, FedoraTools)
           held  == cache \cup Downloads("libdnf5", there) \cup Downloads("dnf", tools)
           digestOf(p) == CHOOSE d \in {e.digest : e \in {e \in FedoraOffers : KeyOf(e) = KeyOf(p)}} : TRUE
           Digested(p) == [p EXCEPT !.digest = digestOf(p)]
           packages == {Digested(p) : p \in there}
           repositories == {[name |-> n, at |-> n, key |-> FedoraKey] : n \in Range(FedoraRepos)}
           Tool(p) == [p EXCEPT !.digest = digestOf(p), !.source = CachedRepository(held, "dnf", p)]
           lockTools == {Tool(p) : p \in tools}
<1>1. Available(FedoraOffers, asked \cup FedoraTools)
  BY DEF BuildFedora
<1>2. built.lock =
           [distro |-> "fedora", target |-> r.target, release |-> r.release, requested |-> r.include,
            sources |-> <<>>, epoch |-> now, repositories |-> repositories,
            certificates |-> {}, packages |-> packages, pypi |-> {}, python |-> NoPython,
            disk |-> Nothing, diskTools |-> {}, tools |-> lockTools]
  BY DEF BuildFedora
<1> DEFINE l == built.lock
<1>3. /\ l.distro = "fedora" /\ l.target = r.target /\ l.release = r.release /\ l.requested = r.include
      /\ l.repositories = repositories /\ l.packages = packages /\ l.pypi = {}
      /\ l.diskTools = {} /\ l.tools = lockTools
  <2> HIDE DEF repositories, packages, lockTools
  <2> QED BY <1>2
<1>4. Available(FedoraOffers, asked) /\ Available(FedoraOffers, FedoraTools)
  BY <1>1 DEF Available
<1>5. FedoraOffers \in SUBSET WorldPackages
  BY Served DEF FedoraOffers
<1>6. \A e \in FedoraOffers : e.digest # Nothing
  BY <1>5, WorldsAssumption DEF WorldPackages
<1> HIDE DEF asked
<1>7. \A p \in image \cup tools :
        /\ IsPackage(p) /\ p.version \in Nat /\ \E e \in FedoraOffers : KeyOf(e) = KeyOf(p)
        /\ FromRepo(p) \in Range(FedoraRepos)
  <2> TAKE p \in image \cup tools
  <2>1. PICK names : Available(FedoraOffers, names) /\ p \in Installed(FedoraOffers, names)
    BY <1>4
  <2>2. IsPackage(p) /\ p.version \in Nat /\ \E e \in FedoraOffers : KeyOf(e) = KeyOf(p)
    BY <1>5, <2>1, InstalledPackages, InstalledAreOffered
  <2> QED BY <2>2, FromRepoIsOne
<1>8. UniqueNames(image) /\ UniqueNames(tools)
  BY InstalledOnce
<1>9. \A p : IsPackage(p) => /\ IsPackage(Asked(p)) /\ KeyOf(Asked(p)) = KeyOf(p)
                            /\ Asked(p).name = p.name /\ Asked(p).version = p.version
                            /\ Asked(p).source = FromRepo(p)
                            /\ Asked(p).reason \in {"User", "Dependency"}
  BY DEF IsPackage, KeyOf
<1>10. \A p : digestOf(p) = FedoraDigest(KeyOf(p))
  BY DEF FedoraDigest
<1> HIDE DEF digestOf
<1>11. \A p : IsPackage(p) => /\ KeyOf(Digested(p)) = KeyOf(p) /\ Digested(p).name = p.name
                             /\ Digested(p).version = p.version /\ Digested(p).source = p.source
                             /\ Digested(p).reason = p.reason /\ Digested(p).digest = FedoraDigest(KeyOf(p))
  BY <1>10 DEF IsPackage, KeyOf
<1> HIDE DEF held
<1>12. \A p : IsPackage(p) => /\ KeyOf(Tool(p)) = KeyOf(p) /\ Tool(p).name = p.name
                             /\ Tool(p).version = p.version
                             /\ Tool(p).source = CachedRepository(held, "dnf", p)
                             /\ Tool(p).digest = FedoraDigest(KeyOf(p))
  BY <1>10 DEF IsPackage, KeyOf
<1> HIDE DEF Asked, Digested, Tool, image, tools
<1>13. \A p \in tools : CachedRepository(held, "dnf", p) \in Range(FedoraRepos)
  <2> TAKE p \in tools
  <2>1. <<"dnf", FromRepo(p), FileName(p)>> \in held
    BY DEF held, Downloads
  <2> QED BY <1>7, <2>1, CachedRepositoryIsOne
<1>14. \A q \in packages : \E p \in image :
         /\ KeyOf(q) = KeyOf(p) /\ q.name = p.name /\ q.version = p.version /\ q.source = FromRepo(p)
         /\ q.reason \in {"User", "Dependency"} /\ q.digest = FedoraDigest(KeyOf(p))
         /\ q = Digested(Asked(p))
  <2> TAKE q \in packages
  <2>1. PICK p \in image : q = Digested(Asked(p))
    OBVIOUS
  <2> QED BY <1>7, <1>9, <1>11, <2>1
<1>15. \A q \in lockTools : \E p \in tools :
         /\ KeyOf(q) = KeyOf(p) /\ q.name = p.name /\ q.version = p.version
         /\ q.source = CachedRepository(held, "dnf", p) /\ q.digest = FedoraDigest(KeyOf(p))
         /\ q = Tool(p)
  BY <1>7, <1>12
<1>16. FedoraRecorded(packages)
  <2>1. UniqueNames(packages)
    BY <1>8, <1>14 DEF UniqueNames
  <2> HIDE DEF packages
  <2> QED BY <1>6, <1>7, <1>14, <2>1, FedoraDigestIsKnown DEF FedoraRecorded
<1>17. FedoraRecorded(lockTools)
  <2>1. UniqueNames(lockTools)
    BY <1>8, <1>15 DEF UniqueNames
  <2> HIDE DEF lockTools
  <2> QED BY <1>6, <1>7, <1>13, <1>15, <2>1, FedoraDigestIsKnown DEF FedoraRecorded
<1>18. ASSUME NEW n \in asked, n \in Needs[n]
       PROVE  \E p \in packages : p.name = n
  <2>1. PICK p \in image : p.name = n
    BY <1>18, SomethingInstalled DEF image
  <2>2. Digested(Asked(p)) \in packages /\ Digested(Asked(p)).name = n
    BY <1>7, <1>9, <1>11, <2>1
  <2> QED BY <2>2
<1>19. packages # {}
  <2>1. PICK n \in asked : n \in Needs[n]
    BY NeedsAssumption, ListsAssumption DEF asked, FedoraPackagesToInstall
  <2> QED BY <1>18, <2>1
<1>20. lockTools # {}
  <2>1. PICK n \in FedoraTools : n \in Needs[n]
    BY NeedsAssumption, ListsAssumption
  <2>2. tools # {}
    BY <2>1, SomethingInstalled DEF tools
  <2> QED BY <2>2
<1>21. \A n \in FedoraLangpack(r) : \E p \in packages : p.name = n
  <2> TAKE n \in FedoraLangpack(r)
  <2>1. n \in asked /\ n \in Needs[n]
    BY NeedsAssumption DEF asked, FedoraPackagesToInstall
  <2> QED BY <1>18, <2>1
<1>22. \A q \in packages : q.reason \in {"User", "Dependency"}
  BY <1>14
<1> HIDE DEF packages, lockTools
<1>23. /\ Manifest(l) = ""
       /\ \A p \in packages \cup lockTools : \E q \in repositories : q.name = p.source
  <2> HIDE DEF l
  <2>1. /\ l.packages # {} /\ FedoraRecorded(l.packages) /\ FedoraRecorded(l.tools)
        /\ l.repositories = {[name |-> n, at |-> n, key |-> FedoraKey] : n \in Range(FedoraRepos)}
    BY <1>3, <1>16, <1>17, <1>19
  <2>2. /\ Manifest(l) = ""
        /\ \A p \in l.packages \cup l.tools : \E q \in l.repositories : q.name = p.source
    BY <1>3, <2>1, FedoraManifest
  <2> QED BY <1>3, <2>2
<1>24. \A q \in repositories : q.name \in Range(FedoraRepos) /\ q.key = FedoraKey
  OBVIOUS
<1> HIDE DEF l, repositories
<1>25. CheckFedoraLockPackages(l)
  <2>1. ASSUME NEW part \in {packages, lockTools}
        PROVE  /\ part # {} /\ \A p \in part : \E q \in repositories : q.name = p.source
               /\ \A p, q \in part : p.name = q.name /\ p.arch = q.arch => p = q
    <3>1. part # {} /\ UniqueNames(part) /\ part \subseteq packages \cup lockTools
      BY <1>16, <1>17, <1>19, <1>20 DEF FedoraRecorded
    <3> QED BY <1>23, <3>1 DEF UniqueNames
  <2> QED BY <1>3, <1>22, <1>24, <2>1 DEF CheckFedoraLockPackages
<1>26. ~FedoraDifferences(l, r)
  BY <1>3, <1>21, <1>24 DEF FedoraDifferences
<1>27. WheelManifest(l) = ""
  BY <1>3 DEF WheelManifest
<1>28. PlanOffline(l, r, files) = ""
  BY <1>3, <1>23, <1>25, <1>26, NoLockIsOfNoFamily DEF PlanOffline, PlanFedora
<1>29. /\ UniqueNames(l.packages) /\ UniqueNames(l.diskTools) /\ UniqueNames(l.tools)
       /\ \A p \in l.packages \cup l.diskTools : p.version \in Nat
       /\ \A p \in l.packages \cup l.tools : p.source \in Range(FedoraRepos)
  BY <1>3, <1>16, <1>17 DEF FedoraRecorded, UniqueNames
<1> QED BY <1>3, <1>23, <1>27, <1>28, <1>29 DEF Readable, l

(* The tools tree of either family.                                        *)
ToolsOf(l) == IF l.distro = "fedora" THEN l.tools ELSE l.diskTools

(* The pool a lock asks for has a file for each of its packages, and one   *)
(* for the image is that of the image's package.                           *)
LEMMA EveryPackageHasAnEntry ==
  ASSUME NEW l
  PROVE  /\ \A e \in Entries(l) : \E p \in l.packages \cup ToolsOf(l) : e = Entry(p) /\ e.file = FileName(p)
         /\ \A e \in Entries(l) : (\E p \in l.packages : FileName(p) = e.file) =>
              \E q \in l.packages : e = Entry(q) /\ e.file = FileName(q)
         /\ \A p \in l.packages \cup ToolsOf(l) : \E e \in Entries(l) : e.file = FileName(p)
<1> DEFINE tools == ToolsOf(l)
           first(f) == IF \E p \in l.packages : FileName(p) = f
                       THEN CHOOSE p \in l.packages : FileName(p) = f
                       ELSE CHOOSE p \in tools : FileName(p) = f
<1>1. Entries(l) = {Entry(first(FileName(p))) : p \in l.packages \cup tools}
  BY DEF Entries, ToolsOf
<1>2. \A p \in l.packages \cup tools :
        /\ first(FileName(p)) \in l.packages \cup tools /\ FileName(first(FileName(p))) = FileName(p)
        /\ (\E q \in l.packages : FileName(q) = FileName(p)) => first(FileName(p)) \in l.packages
  OBVIOUS
<1> HIDE DEF first, tools
<1>3. \A p : Entry(p).file = FileName(p)
  BY DEF Entry
<1>4. ASSUME NEW e \in Entries(l)
      PROVE  \E p \in l.packages \cup tools :
               /\ e = Entry(first(FileName(p))) /\ e.file = FileName(p)
               /\ e.file = FileName(first(FileName(p)))
  <2>1. PICK p \in l.packages \cup tools : e = Entry(first(FileName(p)))
    BY <1>1
  <2> QED BY <1>2, <1>3, <2>1
<1>5. \A p \in l.packages \cup tools :
        Entry(first(FileName(p))) \in Entries(l) /\ Entry(first(FileName(p))).file = FileName(p)
  BY <1>1, <1>2, <1>3
<1> QED BY <1>2, <1>4, <1>5 DEF tools

(* What a package manager sees in a repository made of pool files.         *)
LEMMA OfferedFromPool ==
  ASSUME NEW entries
  PROVE  /\ \A e \in entries : \E o \in FromPool(entries) :
              /\ o.name = e.file[1] /\ o.version = e.file[2] /\ o.arch = e.file[3] /\ o.source = e.source
         /\ \A o \in FromPool(entries) : \E e \in entries :
              /\ o.name = e.file[1] /\ o.version = e.file[2] /\ o.arch = e.file[3] /\ o.source = e.source
<1> DEFINE Offer(e) == [name |-> e.file[1], version |-> e.file[2], arch |-> e.file[3], source |-> e.source]
<1>1. \A e : /\ Offer(e).name = e.file[1] /\ Offer(e).version = e.file[2]
             /\ Offer(e).arch = e.file[3] /\ Offer(e).source = e.source
  OBVIOUS
<1>2. FromPool(entries) = {Offer(e) : e \in entries}
  BY DEF FromPool
<1> HIDE DEF Offer
<1> QED BY <1>1, <1>2

(* A repository of the files of one part offers exactly its packages.      *)
LEMMA PoolOfAPart ==
  ASSUME NEW l, NEW part, part = l.packages \/ part = ToolsOf(l)
  PROVE  LET offers == FromPool(EntriesFor(Entries(l), part))
         IN /\ \A o \in offers : \E p \in part : KeyOf(o) = KeyOf(p) /\ o.name = p.name /\ o.version = p.version
            /\ \A p \in part : \E o \in offers : KeyOf(o) = KeyOf(p)
<1> DEFINE entries == EntriesFor(Entries(l), part)
           offers  == FromPool(entries)
<1>1. \A p : FileName(p)[1] = p.name /\ FileName(p)[2] = p.version /\ FileName(p)[3] = p.arch
  BY DEF FileName
<1>2. \A e \in entries : \E p \in part : e.file = FileName(p)
  BY DEF EntriesFor
<1>3. \A p \in part : \E e \in entries : e.file = FileName(p)
  BY EveryPackageHasAnEntry DEF EntriesFor
<1> HIDE DEF entries
<1>4. ASSUME NEW o \in offers
      PROVE  \E p \in part : KeyOf(o) = KeyOf(p) /\ o.name = p.name /\ o.version = p.version
  <2>1. PICK e \in entries : o.name = e.file[1] /\ o.version = e.file[2] /\ o.arch = e.file[3]
    BY OfferedFromPool
  <2>2. PICK p \in part : e.file = FileName(p)
    BY <1>2
  <2> QED BY <1>1, <2>1, <2>2 DEF KeyOf
<1>5. ASSUME NEW p \in part
      PROVE  \E o \in offers : KeyOf(o) = KeyOf(p)
  <2>1. PICK e \in entries : e.file = FileName(p)
    BY <1>3
  <2>2. PICK o \in offers : o.name = e.file[1] /\ o.version = e.file[2] /\ o.arch = e.file[3]
    BY OfferedFromPool
  <2> QED BY <1>1, <2>1, <2>2 DEF KeyOf
<1> QED BY <1>4, <1>5 DEF offers, entries

(* Where there is one version of each package it is the newest.            *)
LEMMA NewestOfOne ==
  ASSUME NEW offers, \A o \in offers : o.version \in Nat,
         \A o, q \in offers : o.name = q.name => o.version = q.version
  PROVE  NewestOf(offers) = offers
BY DEF NewestOf

(* What is installed from the pool is what is locked.                      *)
LEMMA PartAsLocked ==
  ASSUME NEW l, NEW part, part = l.packages \/ part = ToolsOf(l), UniqueNames(part),
         \A p \in part : p.version \in Nat
  PROVE  PackagesAsLocked(part, NewestOf(FromPool(EntriesFor(Entries(l), part))))
<1> DEFINE offers == FromPool(EntriesFor(Entries(l), part))
<1>1. /\ \A o \in offers : \E p \in part : KeyOf(o) = KeyOf(p) /\ o.name = p.name /\ o.version = p.version
      /\ \A p \in part : \E o \in offers : KeyOf(o) = KeyOf(p)
  BY PoolOfAPart
<1> HIDE DEF offers
<1>2. /\ \A o \in offers : o.version \in Nat
      /\ \A o, q \in offers : o.name = q.name => o.version = q.version
  BY <1>1 DEF UniqueNames
<1>3. NewestOf(offers) = offers
  BY <1>2, NewestOfOne
<1> QED BY <1>1, <1>3 DEF PackagesAsLocked, offers

(* An environment made from the locked wheels is as locked.                *)
LEMMA EnvironmentAsLocked ==
  PythonAsLocked(lock, PythonFromPool)
<1>1. CASE lock.pypi = {}
  BY <1>1 DEF PythonAsLocked, PythonFromPool
<1>2. CASE lock.pypi # {}
  <2> DEFINE over(base, wheels) == {w \in base : Named(wheels, Project[w.name]) = {}} \cup wheels
             env == PythonFromPool
  <2>1. env = over(over(VenvSeeds, LockedPip(lock)), lock.pypi)
    BY <1>2 DEF PythonFromPool, Environment
  <2>2. \A w \in env : \/ w \in lock.pypi
                       \/ w \in VenvSeeds /\ Named(lock.pypi, Project[w.name]) = {}
    BY <2>1 DEF LockedPip, Named
  <2>3. \A w \in lock.pypi : w \in env /\ w \in Named(lock.pypi, Project[w.name]) /\ w \in Named(env, Project[w.name])
    BY <2>1 DEF Named
  <2> HIDE DEF env
  <2> QED BY <2>2, <2>3, SeedsAssumption DEF PythonAsLocked, env
<1> QED BY <1>1, <1>2

(* An Ubuntu image made from a lock that can be read passes the checks,    *)
LEMMA UbuntuIsAsLocked ==
  ASSUME NEW r, NEW keys, Readable(lock, r, keys), lock.distro # "fedora"
  PROVE  UbuntuAsLocked(FALSE)
<1>1. /\ PackagesAsLocked(lock.packages, NewestOf(FromPool(EntriesFor(Entries(lock), lock.packages))))
      /\ PackagesAsLocked(lock.diskTools, NewestOf(FromPool(EntriesFor(Entries(lock), lock.diskTools))))
  BY PartAsLocked DEF Readable, ToolsOf
<1> QED BY <1>1, EnvironmentAsLocked DEF UbuntuAsLocked, UbuntuFromPool, ToolsFromPool, Left

(* The local repositories of a Fedora build offer exactly the packages     *)
(* locked, each from its own.                                              *)
LEMMA FromStagesIsThePart ==
  ASSUME NEW part, part = lock.packages \/ part = lock.tools, lock.distro = "fedora",
         \A p \in part : p.source \in Range(FedoraRepos)
  PROVE  /\ PackagesAsLocked(part, FromStages(part))
         /\ \A o \in FromStages(part) : \E e \in Entries(lock), p \in part :
              KeyOf(o) = KeyOf(p) /\ e.file = FileName(p) /\ o.source = e.source
<1>1. \A p : FileName(p)[1] = p.name /\ FileName(p)[2] = p.version /\ FileName(p)[3] = p.arch
  BY DEF FileName
<1> DEFINE Stage(n) == EntriesFor(Entries(lock), {p \in part : p.source = n})
<1>2. FromStages(part) = UNION {FromPool(Stage(n)) : n \in Range(FedoraRepos)}
  BY DEF FromStages, FedoraStages
<1>3. \A n, e : e \in Stage(n) <=> e \in Entries(lock) /\ \E p \in part : p.source = n /\ e.file = FileName(p)
  BY DEF EntriesFor
<1> HIDE DEF Stage
<1>4. ASSUME NEW o \in FromStages(part)
      PROVE  \E e \in Entries(lock), p \in part :
               KeyOf(o) = KeyOf(p) /\ e.file = FileName(p) /\ o.source = e.source
  <2>1. PICK n \in Range(FedoraRepos) : o \in FromPool(Stage(n))
    BY <1>2
  <2>2. PICK e \in Stage(n) :
          o.name = e.file[1] /\ o.version = e.file[2] /\ o.arch = e.file[3] /\ o.source = e.source
    BY <2>1, OfferedFromPool
  <2>3. PICK p \in part : e.file = FileName(p)
    BY <1>3
  <2> QED BY <1>1, <1>3, <2>2, <2>3 DEF KeyOf
<1>5. ASSUME NEW p \in part
      PROVE  \E o \in FromStages(part) : KeyOf(o) = KeyOf(p)
  <2>1. PICK e \in Entries(lock) : e.file = FileName(p)
    BY EveryPackageHasAnEntry DEF ToolsOf
  <2>2. e \in Stage(p.source)
    BY <1>3, <2>1
  <2>3. PICK o \in FromPool(Stage(p.source)) : o.name = e.file[1] /\ o.version = e.file[2] /\ o.arch = e.file[3]
    BY <2>2, OfferedFromPool
  <2> QED BY <1>1, <1>2, <2>1, <2>3 DEF KeyOf
<1> QED BY <1>4, <1>5 DEF PackagesAsLocked

(* and so does a Fedora one.                                               *)
LEMMA FedoraIsAsLocked ==
  ASSUME NEW r, NEW keys, Readable(lock, r, keys), lock.distro = "fedora"
  PROVE  FedoraAsLocked(FALSE)
<1> DEFINE there == FromStages(lock.packages)
<1>1. /\ PackagesAsLocked(lock.packages, there) /\ PackagesAsLocked(lock.tools, FromStages(lock.tools))
      /\ \A o \in there : \E e \in Entries(lock), p \in lock.packages :
           KeyOf(o) = KeyOf(p) /\ e.file = FileName(p) /\ o.source = e.source
  BY FromStagesIsThePart DEF Readable
<1>2. Left(there, FALSE) = there
  BY DEF Left
<1> HIDE DEF there
<1>3. RepositoriesAsLocked(lock.packages, there)
  <2> SUFFICES ASSUME NEW p \in lock.packages, NEW o \in there, KeyOf(p) = KeyOf(o)
               PROVE  p.source = o.source
    BY DEF RepositoriesAsLocked
  <2>1. PICK e \in Entries(lock), f \in lock.packages :
           KeyOf(o) = KeyOf(f) /\ e.file = FileName(f) /\ o.source = e.source
    BY <1>1
  <2>2. PICK q \in lock.packages : e = Entry(q) /\ e.file = FileName(q)
    BY <2>1, EveryPackageHasAnEntry
  <2>3. e.source = q.source
    BY <2>2 DEF Entry
  <2>4. q.name = p.name
    BY <2>1, <2>2 DEF FileName, KeyOf
  <2>5. q = p
    BY <2>4 DEF Readable, UniqueNames
  <2> QED BY <2>1, <2>3, <2>5
<1> QED BY <1>1, <1>2, <1>3 DEF FedoraAsLocked, there

(* The inductive invariant of RefusedForACause.                            *)
ReadInv ==
  /\ recipe \in Recipes /\ world \in DOMAIN Worlds
  /\ lock # NoLock => IsMade(made)
  /\ lock # NoLock /\ ~made.edited => Readable(lock, made.recipe, made.files)
  /\ RefusedForACause

(* At the start there is no lock to read.                                  *)
LEMMA InitIsRead ==
  RebuildInit => ReadInv
<1> SUFFICES ASSUME RebuildInit PROVE ReadInv
  OBVIOUS
<1>1. recipe \in Recipes /\ world = 1 /\ lock = NoLock /\ last.command = "none"
  BY DEF RebuildInit
<1>2. 1 \in DOMAIN Worlds
  BY WorldsAssumption
<1> QED BY <1>1, <1>2 DEF ReadInv, RefusedForACause

(* The property is about two commands.                                     *)
LEMMA OtherCommands ==
  ASSUME last'.command \notin {"offline", "vendor"}
  PROVE  RefusedForACause'
BY DEF RefusedForACause

(* What leaves the lock alone leaves what is read.                         *)
LEMMA SameReading ==
  ASSUME ReadInv, UNCHANGED <<lock, made>>
  PROVE  /\ lock' # NoLock => IsMade(made')
         /\ lock' # NoLock /\ ~made'.edited => Readable(lock', made'.recipe, made'.files)
BY DEF ReadInv

(* Every step keeps the invariant.                                         *)
LEMMA StepIsRead ==
  ASSUME ReadInv, [RebuildNext]_rebuildVars
  PROVE  ReadInv'
<1>1. CASE EditRecipe
  <2>1. recipe' \in Recipes /\ UNCHANGED <<world, lock, made>> /\ last'.command = "edit"
    BY <1>1 DEF EditRecipe, Edit, Outcome
  <2> QED BY <2>1, OtherCommands, SameReading DEF ReadInv
<1>2. CASE ReplaceFile
  <2>1. UNCHANGED <<recipe, world, lock, made>> /\ last'.command = "edit"
    BY <1>2 DEF ReplaceFile, Edit, Outcome
  <2> QED BY <2>1, OtherCommands, SameReading DEF ReadInv
<1>3. CASE ArchiveMoves
  <2>1. /\ UNCHANGED <<recipe, lock, made>> /\ last'.command = "edit"
        /\ world < Len(Worlds) /\ world' = world + 1
    BY <1>3 DEF ArchiveMoves, Edit, Outcome
  <2>2. world' \in DOMAIN Worlds
    BY <2>1, WorldsAssumption DEF ReadInv
  <2> QED BY <2>1, <2>2, OtherCommands, SameReading DEF ReadInv
<1>4. CASE EditLock
  <2>1. /\ UNCHANGED <<recipe, world>> /\ last'.command = "edit" /\ lock # NoLock
        /\ made' = [made EXCEPT !.edited = TRUE]
    BY <1>4 DEF EditLock, Edit, Outcome
  <2>2. IsMade(made') /\ made'.edited = TRUE
    BY <2>1 DEF ReadInv, IsMade
  <2> QED BY <2>1, <2>2, OtherCommands DEF ReadInv
<1>5. CASE SpoilPool
  <2>1. UNCHANGED <<recipe, world, lock, made>> /\ last'.command = "edit"
    BY <1>5 DEF SpoilPool, Edit, Outcome
  <2> QED BY <2>1, OtherCommands, SameReading DEF ReadInv
<1>6. CASE BuildOnline
  <2> DEFINE built == IF recipe.distro = "fedora" THEN BuildFedora(recipe) ELSE BuildUbuntu(recipe)
  <2>1. UNCHANGED <<recipe, world>> /\ last'.command = "online"
    <3>1. \E outcome, image : Outcome("online", outcome, image)
      BY <1>6, Zenon DEF BuildOnline
    <3> QED BY <1>6, <3>1 DEF BuildOnline, Outcome
  <2>2. CASE built = Nothing
    <3>1. UNCHANGED <<lock, made>>
      BY <1>6, <2>2 DEF BuildOnline
    <3> QED BY <2>1, <3>1, OtherCommands, SameReading DEF ReadInv
  <2>3. CASE built # Nothing
    <3>1. /\ lock' = built.lock
          /\ made' = [image |-> built.image, recipe |-> recipe, files |-> files, edited |-> FALSE]
      BY <1>6, <2>3 DEF BuildOnline
    <3>2. Readable(built.lock, recipe, files)
      BY <2>3, UbuntuReadable, FedoraReadable, RecipesAssumption DEF ReadInv
    <3> HIDE DEF built
    <3>3. IsMade(made') /\ made'.recipe = recipe /\ made'.files = files
      BY <3>1 DEF IsMade
    <3> QED BY <2>1, <3>1, <3>2, <3>3, OtherCommands DEF ReadInv
  <2> QED BY <2>2, <2>3
<1>7. CASE Vendor
  <2>1. UNCHANGED <<recipe, world, lock, made>>
    BY <1>7 DEF Vendor
  <2>2. RefusedForACause'
    <3> SUFFICES ASSUME lock # NoLock, ~made.edited
                 PROVE  last'.command = "vendor" /\ last'.outcome \in {"", "failed"}
      BY <2>1 DEF RefusedForACause
    <3>1. Manifest(lock) = "" /\ WheelManifest(lock) = ""
      BY DEF ReadInv, Readable
    <3> DEFINE refused == IF lock = NoLock THEN "no lock" ELSE IF Manifest(lock) # "" THEN Manifest(lock)
                          ELSE WheelManifest(lock)
               wanted  == {e \in PoolEntries : <<e.file, e.digest>> \notin pool}
               fetched == {e \in wanted : Fetchable(e)}
    <3>2. refused = ""
      BY <3>1
    <3>3. Outcome("vendor", IF fetched = wanted THEN "" ELSE "failed", Nothing)
      BY <1>7, <3>2 DEF Vendor
    <3> HIDE DEF fetched, wanted
    <3> QED BY <3>3 DEF Outcome
  <2> QED BY <2>1, <2>2, SameReading DEF ReadInv
<1>8. CASE BuildOffline
  <2>1. UNCHANGED <<recipe, files, world, lock, pool, made>>
    BY <1>8 DEF BuildOffline
  <2>2. PICK slip \in BOOLEAN : BuildsOffline(slip)
    BY <1>8 DEF BuildOffline
  <2>3. RefusedForACause'
    <3> DEFINE refused == PlanOffline(lock, recipe, files)
               image == IF recipe.distro = "fedora" THEN RebuildFedora(slip) ELSE RebuildUbuntu(slip)
               asLocked == IF recipe.distro = "fedora" THEN FedoraAsLocked(slip) ELSE UbuntuAsLocked(slip)
               outcome == IF refused # "" THEN refused
                          ELSE IF ~Held(PoolEntries) THEN "pool incomplete"
                          ELSE IF ~asLocked THEN "differs from the lock" ELSE "placed"
    <3>1. last' = [command |-> "offline", outcome |-> outcome, slip |-> slip,
                   image |-> IF outcome = "placed" THEN image ELSE Nothing]
      BY <2>2 DEF BuildsOffline
    <3>2. Held(PoolEntries)' = Held(PoolEntries)
      BY <2>1 DEF Held, PoolEntries
    <3>3. ASSUME lock # NoLock, ~slip, ~made.edited, Held(PoolEntries), recipe = made.recipe, files = made.files
          PROVE  outcome = "placed"
      <4>1. Readable(lock, recipe, files)
        BY <3>3 DEF ReadInv
      <4>2. refused = "" /\ lock.distro = recipe.distro
        BY <4>1 DEF Readable
      <4>3. asLocked
        BY <3>3, <4>1, <4>2, UbuntuIsAsLocked, FedoraIsAsLocked
      <4> HIDE DEF refused, asLocked
      <4> QED BY <3>3, <4>2, <4>3
    <3> HIDE DEF outcome, image
    <3>4. last'.command = "offline" /\ last'.outcome = outcome /\ last'.slip = slip
      BY <3>1
    <3> QED BY <2>1, <3>2, <3>3, <3>4 DEF RefusedForACause
  <2> QED BY <2>1, <2>3, SameReading DEF ReadInv
<1>9. CASE UNCHANGED rebuildVars
  BY <1>9 DEF rebuildVars, ReadInv, RefusedForACause, Held, PoolEntries
<1> QED BY <1>1, <1>2, <1>3, <1>4, <1>5, <1>6, <1>7, <1>8, <1>9 DEF RebuildNext

(* An offline build of the recipe and the files a lock was written for, the *)
(* lock unedited and the pool complete, is placed unless the package       *)
(* manager leaves something out; vendor never refuses an unedited lock.    *)
THEOREM RefusedForACauseHolds ==
  RebuildSpec => []RefusedForACause
<1>1. ReadInv => RefusedForACause
  BY DEF ReadInv
<1> QED BY <1>1, InitIsRead, StepIsRead, PTL DEF RebuildSpec

-----------------------------------------------------------------------------
(* The type of what a directory holds.                                     *)

(* A package of a lock, as a record and by its fields.                     *)
Sound(p) == IsPackage(p) /\ PackageType(p)
EveryPackage(l) == l.packages \cup l.diskTools \cup l.tools

(* The inductive invariant of RebuildTypeOK.                               *)
TypeInv ==
  /\ RebuildTypeOK
  /\ lock # NoLock => IsLock(lock) /\ IsMade(made) /\ \A p \in EveryPackage(lock) : Sound(p)

(* A lock that was written is not the lack of one.                         *)
LEMMA WrittenIsALock ==
  ASSUME NEW l, IsLock(l)
  PROVE  l # NoLock
<1>1. PICK none : NoLock = [distro |-> none]
  BY Zenon DEF NoLock
<1>2. "target" \in DOMAIN l
  BY DEF IsLock
<1> QED BY <1>1, <1>2

(* What a package is installed for, or not.                                *)
LEMMA ReasonsAre ==
  /\ "" \in Reasons /\ "auto" \in Reasons
  /\ "User" \in Reasons /\ "Dependency" \in Reasons
BY Zenon DEF Reasons

(* A record of a package's fields has them.                                *)
LEMMA SoundIfTyped ==
  ASSUME NEW p, IsPackage(p), p.arch \in {"amd64", "all"},
         p.reason \in Reasons
  PROVE  Sound(p)
<1>1. DOMAIN p = {"name", "version", "arch", "reason", "source", "digest"}
  BY DEF IsPackage
<1> QED BY <1>1 DEF Sound, PackageType

(* What can be installed is.                                               *)
LEMMA InstalledSound ==
  ASSUME world \in DOMAIN Worlds, NEW offers \in SUBSET WorldPackages, NEW names, Available(offers, names),
         NEW p \in Installed(offers, names)
  PROVE  Sound(p)
<1>1. PICK n \in UNION {Needs[m] : m \in names} :
        p = [name |-> n, version |-> Newest(offers, n).version, arch |-> ArchOf[n],
             reason |-> "", source |-> "", digest |-> Nothing]
  BY DEF Installed
<1>2. Newest(offers, n) \in WorldPackages /\ Newest(offers, n).arch = ArchOf[n]
  BY NewestIsOffered
<1>3. ArchOf[n] \in {"amd64", "all"}
  BY <1>2, WorldsAssumption DEF WorldPackages
<1>4. p.arch = ArchOf[n]
  BY <1>1
<1>5. IsPackage(p) /\ p.reason \in Reasons
  BY InstalledPackages, ReasonsAre, Zenon
<1> QED BY <1>3, <1>4, <1>5, SoundIfTyped

(* Recording digests and sources keeps it,                                 *)
LEMMA RecordedSound ==
  ASSUME NEW lists, NEW installed, NEW origins, \A p \in installed : Sound(p),
         RecordChecksums(lists, installed, origins) # Nothing,
         NEW q \in RecordChecksums(lists, installed, origins)
  PROVE  Sound(q)
<1>0. PICK p \in installed : \E d, s : q = [p EXCEPT !.digest = d, !.source = s]
  BY DEF RecordChecksums
<1>1. PICK d, s : q = [p EXCEPT !.digest = d, !.source = s]
  BY <1>0
<1>2. IsPackage(p) /\ p.arch \in {"amd64", "all"} /\ p.reason \in Reasons
  BY DEF Sound, PackageType
<1>3. IsPackage(q) /\ q.arch = p.arch /\ q.reason = p.reason
  BY <1>1, <1>2 DEF IsPackage
<1> QED BY <1>2, <1>3, SoundIfTyped

(* and so does marking.                                                    *)
LEMMA MarkedSound ==
  ASSUME NEW installed, NEW marks, \A p \in installed : Sound(p),
         NEW q \in MarkAutoInstalled(installed, marks)
  PROVE  Sound(q)
<1>0. PICK p \in installed : q = [p EXCEPT !.reason = IF <<p.name, AptArchitecture(p.arch)>> \in marks
                                                      THEN "auto" ELSE ""]
  BY Zenon DEF MarkAutoInstalled
<1>1. PICK reason \in Reasons : q = [p EXCEPT !.reason = reason]
  BY <1>0, ReasonsAre, Zenon
<1>2. IsPackage(p) /\ p.arch \in {"amd64", "all"}
  BY DEF Sound, PackageType
<1>3. IsPackage(q) /\ q.arch = p.arch /\ q.reason \in Reasons
  BY <1>1, <1>2 DEF IsPackage
<1> QED BY <1>2, <1>3, SoundIfTyped

(* A build that is made is an image and a lock of such packages:           *)
SoundBuild(built) ==
  /\ IsLock(built.lock) /\ IsImage(built.image)
  /\ \A p \in EveryPackage(built.lock) : Sound(p)

(* that of an Ubuntu recipe,                                               *)
LEMMA UbuntuSound ==
  ASSUME world \in DOMAIN Worlds, NEW r, NEW built, built = BuildUbuntu(r), built # Nothing
  PROVE  SoundBuild(built)
<1> DEFINE offers == ToolsOffers \cup UNION {Serves(s.at) : s \in Range(r.sources)}
           parsed == ParsePipReport(Report(r), r.python)
           wheels == IF r.python = {} THEN {}
                     ELSE IF parsed = Nothing \/ r.index = "" THEN parsed ELSE WithResolvedPin(parsed, PinnedPip)
           env    == IF r.python = {} THEN {} ELSE Environment({PinnedPip}, Report(r))
           names  == DiskPackagesToInstall(r)
           there  == Installed(offers, names)
           marks  == {<<p.name, AptArchitecture(p.arch)>> : p \in {p \in there : p.name \notin names}}
           tools  == IF r.target = "disk"
                     THEN RecordChecksums(Lists, Installed(ToolsOffers, DiskTools), IndexOrigins(<<>>)) ELSE {}
           listed == RecordChecksums(Lists, there, IndexOrigins(r.sources))
           marked == MarkAutoInstalled(listed, marks)
<1>1. /\ listed # Nothing /\ tools # Nothing
      /\ Available(offers, names) /\ (r.target = "disk" => Available(ToolsOffers, DiskTools))
      /\ built =
           [lock |->
              [distro |-> "ubuntu", target |-> r.target, release |-> r.release, requested |-> r.include,
               sources |-> SourceLines(r.sources), epoch |-> now,
               repositories |-> LockRepositories(r.sources, files),
               certificates |-> LockCertificates(r.certificates, files),
               packages |-> marked, pypi |-> wheels,
               python |-> IF r.python = {} THEN NoPython ELSE [requested |-> r.python, index |-> r.index],
               disk |-> IF r.target = "disk" THEN r.size ELSE Nothing, diskTools |-> tools, tools |-> {}],
            image |->
              [content |-> Content(there), marks |-> marks, wheels |-> Env(env), sources |-> SourceLines(r.sources),
               keys |-> LockRepositories(r.sources, files), certificates |-> LockCertificates(r.certificates, files),
               epoch |-> now, disk |-> IF r.target = "disk" THEN r.size ELSE Nothing]]
  BY DEF BuildUbuntu, UbuntuBuild
<1>2. ToolsOffers \in SUBSET WorldPackages /\ offers \in SUBSET WorldPackages
  BY Served DEF ToolsOffers
<1>3. \A p \in marked : Sound(p)
  <2>1. \A p \in there : Sound(p)
    BY <1>1, <1>2, InstalledSound
  <2>2. \A p \in listed : Sound(p)
    BY <1>1, <2>1, RecordedSound
  <2> QED BY <2>2, MarkedSound
<1>4. \A p \in tools : Sound(p)
  <2> SUFFICES ASSUME r.target = "disk" PROVE \A p \in tools : Sound(p)
    OBVIOUS
  <2>1. \A p \in Installed(ToolsOffers, DiskTools) : Sound(p)
    BY <1>1, <1>2, InstalledSound
  <2> QED BY <1>1, <2>1, RecordedSound
<1> HIDE DEF offers, parsed, wheels, env, names, there, marks, tools, listed, marked
<1>5. IsLock(built.lock) /\ IsImage(built.image)
  BY <1>1 DEF IsLock, IsImage
<1>6. built.lock.packages = marked /\ built.lock.diskTools = tools /\ built.lock.tools = {}
  BY <1>1
<1> QED BY <1>3, <1>4, <1>5, <1>6 DEF SoundBuild, EveryPackage

(* and that of a Fedora one.                                               *)
LEMMA FedoraSound ==
  ASSUME world \in DOMAIN Worlds, NEW r, NEW built, built = BuildFedora(r), built # Nothing
  PROVE  SoundBuild(built)
<1> DEFINE asked == FedoraPackagesToInstall(r)
           Asked(p) == [p EXCEPT !.reason = IF p.name \in asked THEN "User" ELSE "Dependency",
                                 !.source = FromRepo(p)]
           there == {Asked(p) : p \in Installed(FedoraOffers, asked)}
           tools == Installed(FedoraOffers, FedoraTools)
           held  == cache \cup Downloads("libdnf5", there) \cup Downloads("dnf", tools)
           digestOf(p) == CHOOSE d \in {e.digest : e \in {e \in FedoraOffers : KeyOf(e) = KeyOf(p)}} : TRUE
           Digested(p) == [p EXCEPT !.digest = digestOf(p)]
           Locked(p)   == [p EXCEPT !.digest = digestOf(p), !.source = CachedRepository(held, "dnf", p)]
           packages == {Digested(p) : p \in there}
           lockTools == {Locked(p) : p \in tools}
           repositories == {[name |-> n, at |-> n, key |-> FedoraKey] : n \in Range(FedoraRepos)}
           reasons == {<<p.name, p.reason>> : p \in there}
<1>1. /\ Available(FedoraOffers, asked \cup FedoraTools)
      /\ built =
           [lock |->
              [distro |-> "fedora", target |-> r.target, release |-> r.release, requested |-> r.include,
               sources |-> <<>>, epoch |-> now, repositories |-> repositories,
               certificates |-> {}, packages |-> packages, pypi |-> {}, python |-> NoPython,
               disk |-> Nothing, diskTools |-> {}, tools |-> lockTools],
            image |->
              [content |-> Content(there), marks |-> reasons, wheels |-> {}, sources |-> <<>>,
               keys |-> {}, certificates |-> {}, epoch |-> now, disk |-> Nothing]]
  BY DEF BuildFedora
<1>2. Available(FedoraOffers, asked) /\ Available(FedoraOffers, FedoraTools)
  BY <1>1 DEF Available
<1>3. FedoraOffers \in SUBSET WorldPackages
  BY Served DEF FedoraOffers
<1>4. \A p \in there : Sound(p)
  <2>1. \A p \in Installed(FedoraOffers, asked) : Sound(p)
    BY <1>2, <1>3, InstalledSound
  <2>2. ASSUME NEW p, Sound(p) PROVE Sound(Asked(p))
    <3>1. IsPackage(p) /\ p.arch \in {"amd64", "all"}
      BY <2>2 DEF Sound, PackageType
    <3>2. /\ IsPackage(Asked(p)) /\ Asked(p).arch = p.arch
          /\ Asked(p).reason \in {"User", "Dependency"}
      BY <3>1 DEF IsPackage
    <3> HIDE DEF Asked
    <3>3. Asked(p).reason \in Reasons
      BY <3>2, ReasonsAre
    <3> QED BY <3>1, <3>2, <3>3, SoundIfTyped
  <2> HIDE DEF Asked
  <2> QED BY <2>1, <2>2
<1>5. \A p \in tools : Sound(p)
  BY <1>2, <1>3, InstalledSound
<1>6. ASSUME NEW p, Sound(p) PROVE Sound(Digested(p)) /\ Sound(Locked(p))
  <2> HIDE DEF digestOf, held
  <2>1. IsPackage(p) /\ p.arch \in {"amd64", "all"} /\ p.reason \in Reasons
    BY <1>6 DEF Sound, PackageType
  <2>2. IsPackage(Digested(p)) /\ Digested(p).arch = p.arch /\ Digested(p).reason = p.reason
    BY <2>1 DEF IsPackage
  <2>3. IsPackage(Locked(p)) /\ Locked(p).arch = p.arch /\ Locked(p).reason = p.reason
    BY <2>1 DEF IsPackage
  <2> HIDE DEF Digested, Locked
  <2> QED BY <2>1, <2>2, <2>3, SoundIfTyped
<1> HIDE DEF there, tools, Digested, Locked, repositories, reasons
<1>7. (\A p \in packages : Sound(p)) /\ (\A p \in lockTools : Sound(p))
  BY <1>4, <1>5, <1>6
<1> HIDE DEF packages, lockTools
<1>8. IsLock(built.lock) /\ IsImage(built.image)
  BY <1>1 DEF IsLock, IsImage
<1>9. built.lock.packages = packages /\ built.lock.diskTools = {} /\ built.lock.tools = lockTools
  BY <1>1
<1> QED BY <1>7, <1>8, <1>9 DEF SoundBuild, EveryPackage

(* An image has its parts.                                                 *)
LEMMA ImageHasItsParts ==
  ASSUME NEW i, IsImage(i)
  PROVE  DOMAIN i = ImageParts
BY DEF IsImage, ImageParts

(* A file that a package manager downloads has a place in the cache.       *)
LEMMA DownloadsAreCached ==
  ASSUME world \in DOMAIN Worlds, NEW manager \in {"libdnf5", "dnf"}, NEW names,
         Available(FedoraOffers, names), NEW d \in Downloads(manager, Installed(FedoraOffers, names))
  PROVE  d[1] \in {"libdnf5", "dnf"} /\ d[2] \in Range(FedoraRepos)
<1>1. PICK p \in Installed(FedoraOffers, names) : d = <<manager, FromRepo(p), FileName(p)>>
  BY DEF Downloads
<1>2. FedoraOffers \in SUBSET WorldPackages
  BY Served DEF FedoraOffers
<1>3. FromRepo(p) \in Range(FedoraRepos)
  BY <1>2, InstalledAreOffered, FromRepoIsOne
<1> QED BY <1>1, <1>3

(* At the start nothing has been built.                                    *)
LEMMA InitTyped ==
  RebuildInit => TypeInv
<1> SUFFICES ASSUME RebuildInit PROVE TypeInv
  OBVIOUS
<1>1. /\ recipe \in Recipes /\ world = 1 /\ now = 1 /\ edits = 0 /\ lock = NoLock /\ cache = {}
      /\ made = Nothing /\ last.command = "none" /\ last.outcome # "placed" /\ last.image = Nothing
  BY DEF RebuildInit
<1>2. files \in [DOMAIN files -> Digests]
  <2>1. files = [f \in FileNames |-> CHOOSE d \in Digests : TRUE]
    BY DEF RebuildInit, FileNames
  <2>2. (CHOOSE d \in Digests : TRUE) \in Digests
    BY DigestsAssumption
  <2> QED BY <2>1, <2>2
<1>3. 1 \in DOMAIN Worlds
  BY WorldsAssumption
<1> QED BY <1>1, <1>2, <1>3, YearsAssumption DEF TypeInv, RebuildTypeOK

(* What the type says of the lock and what wrote it.                       *)
LockTyped ==
  /\ IF lock = NoLock THEN made = Nothing
     ELSE /\ DOMAIN made = {"image", "recipe", "files", "edited"}
          /\ \A p \in EveryPackage(lock) : PackageType(p)
  /\ lock # NoLock => IsLock(lock) /\ IsMade(made) /\ \A p \in EveryPackage(lock) : Sound(p)
LastTyped ==
  /\ last.command \in {"none", "edit", "online", "vendor", "offline"}
  /\ IF last.outcome = "placed" THEN DOMAIN last.image = ImageParts ELSE last.image = Nothing
CacheTyped == \A d \in cache : d[1] \in {"libdnf5", "dnf"} /\ d[2] \in Range(FedoraRepos)

(* The invariant in its parts.                                             *)
LEMMA TypeInvParts ==
  TypeInv <=> /\ recipe \in Recipes /\ files \in [DOMAIN files -> Digests] /\ world \in DOMAIN Worlds
              /\ now \in 1..Years /\ edits \in 0..Edits
              /\ LockTyped /\ CacheTyped /\ LastTyped
BY DEF TypeInv, RebuildTypeOK, EveryPackage, LockTyped, LastTyped, CacheTyped

(* A lock that is made typed is.                                           *)
LEMMA MadeTyped ==
  ASSUME lock # NoLock, IsLock(lock), IsMade(made), \A p \in EveryPackage(lock) : Sound(p)
  PROVE  LockTyped
<1>1. DOMAIN made = {"image", "recipe", "files", "edited"}
  BY DEF IsMade
<1> QED BY <1>1 DEF LockTyped, Sound

(* An edit is counted, and places nothing.                                 *)
LEMMA EditTyped ==
  ASSUME TypeInv, Edit
  PROVE  edits' \in 0..Edits /\ LastTyped'
<1>1. edits < Edits /\ edits' = edits + 1
  BY DEF Edit
<1>2. edits \in 0..Edits
  BY TypeInvParts
<1>3. edits' \in 0..Edits
  BY <1>1, <1>2, YearsAssumption
<1>4. last'.command = "edit" /\ last'.outcome # "placed" /\ last'.image = Nothing
  BY DEF Edit, Outcome
<1> QED BY <1>3, <1>4 DEF LastTyped

(* A field that goes leaves a lock of packages.                            *)
LEMMA EditLockTyped ==
  ASSUME TypeInv, EditLock
  PROVE  LockTyped'
<1>1. /\ IsLock(lock) /\ IsMade(made) /\ \A p \in EveryPackage(lock) : Sound(p)
      /\ lock # NoLock /\ made' = [made EXCEPT !.edited = TRUE]
  BY DEF EditLock, TypeInv
<1>2. IsMade(made')
  BY <1>1 DEF IsMade
<1>3. \A p : Sound(p) => Sound([p EXCEPT !.digest = Nothing])
  <2> SUFFICES ASSUME NEW p, Sound(p) PROVE Sound([p EXCEPT !.digest = Nothing])
    OBVIOUS
  <2> DEFINE q == [p EXCEPT !.digest = Nothing]
  <2>1. IsPackage(p) /\ p.arch \in {"amd64", "all"} /\ p.reason \in Reasons
    BY DEF Sound, PackageType
  <2>2. IsPackage(q) /\ q.arch = p.arch /\ q.reason = p.reason
    BY <2>1 DEF IsPackage
  <2> HIDE DEF q
  <2>3. Sound(q)
    BY <2>1, <2>2, SoundIfTyped
  <2> QED BY <2>3 DEF q
<1>4. ASSUME NEW p \in LosesDigests PROVE Sound(p)
  <2>1. PICK o \in lock.packages : p = [o EXCEPT !.digest = Nothing]
    BY DEF LosesDigests
  <2>2. Sound(o)
    BY <1>1 DEF EveryPackage
  <2> QED BY <1>3, <2>1, <2>2
<1>5. /\ IsLock(lock') /\ lock'.packages \in {lock.packages, LosesDigests}
      /\ lock'.diskTools \in {lock.diskTools, {}} /\ lock'.tools \in {lock.tools, {}}
  <2>1. \/ lock' = [lock EXCEPT !.sources = <<>>]
        \/ lock' = [lock EXCEPT !.repositories = LosesKeys]
        \/ lock' = [lock EXCEPT !.packages = LosesDigests]
        \/ lock' = [lock EXCEPT !.diskTools = {}, !.tools = {}]
        \/ lock' = [lock EXCEPT !.repositories = {}]
    BY DEF EditLock
  <2>2. CASE lock' = [lock EXCEPT !.sources = <<>>]
    BY <1>1, <2>2 DEF IsLock
  <2>3. CASE lock' = [lock EXCEPT !.repositories = LosesKeys]
    BY <1>1, <2>3 DEF IsLock
  <2>4. CASE lock' = [lock EXCEPT !.packages = LosesDigests]
    BY <1>1, <2>4 DEF IsLock
  <2>5. CASE lock' = [lock EXCEPT !.diskTools = {}, !.tools = {}]
    BY <1>1, <2>5 DEF IsLock
  <2>6. CASE lock' = [lock EXCEPT !.repositories = {}]
    BY <1>1, <2>6 DEF IsLock
  <2> QED BY <2>1, <2>2, <2>3, <2>4, <2>5, <2>6
<1>6. \A p \in EveryPackage(lock') : Sound(p)
  BY <1>1, <1>4, <1>5 DEF EveryPackage
<1>7. lock' # NoLock
  BY <1>5, WrittenIsALock
<1>8. EveryPackage(lock)' = EveryPackage(lock')
  BY DEF EveryPackage
<1>9. DOMAIN made' = {"image", "recipe", "files", "edited"}
  BY <1>2 DEF IsMade
<1> QED BY <1>2, <1>5, <1>6, <1>7, <1>9 DEF LockTyped, Sound, EveryPackage

(* Every step keeps the invariant.                                         *)
LEMMA StepTyped ==
  ASSUME TypeInv, [RebuildNext]_rebuildVars
  PROVE  TypeInv'
<1>0. /\ recipe \in Recipes /\ files \in [DOMAIN files -> Digests] /\ world \in DOMAIN Worlds
      /\ now \in 1..Years /\ edits \in 0..Edits
      /\ LockTyped /\ CacheTyped /\ LastTyped
  BY TypeInvParts
<1>a. UNCHANGED <<lock, made>> => LockTyped'
  BY <1>0 DEF LockTyped, EveryPackage
<1>b. UNCHANGED cache => CacheTyped'
  BY <1>0 DEF CacheTyped
<1>c. UNCHANGED files => files' \in [DOMAIN files' -> Digests]
  BY <1>0
<1>d. SUFFICES /\ recipe' \in Recipes /\ files' \in [DOMAIN files' -> Digests] /\ world' \in DOMAIN Worlds
               /\ now' \in 1..Years /\ edits' \in 0..Edits
               /\ LockTyped' /\ CacheTyped' /\ LastTyped'
  BY DEF TypeInv, RebuildTypeOK, EveryPackage, LockTyped, LastTyped, CacheTyped
<1>1. CASE EditRecipe
  <2>1. recipe' \in Recipes /\ Edit /\ UNCHANGED <<files, world, now, lock, made, cache>>
    BY <1>1 DEF EditRecipe
  <2> QED BY <1>0, <1>a, <1>b, <1>c, <2>1, EditTyped
<1>2. CASE ReplaceFile
  <2>1. /\ \E f \in DOMAIN files, d \in Digests : files' = [files EXCEPT ![f] = d]
        /\ Edit /\ UNCHANGED <<recipe, world, now, lock, made, cache>>
    BY <1>2 DEF ReplaceFile
  <2>2. files' \in [DOMAIN files' -> Digests]
    BY <1>0, <2>1
  <2> QED BY <1>0, <1>a, <1>b, <2>1, <2>2, EditTyped
<1>3. CASE ArchiveMoves
  <2>1. /\ world < Len(Worlds) /\ world' = world + 1
        /\ Edit /\ UNCHANGED <<recipe, files, now, lock, made, cache>>
    BY <1>3 DEF ArchiveMoves
  <2>2. world' \in DOMAIN Worlds
    BY <1>0, <2>1, WorldsAssumption
  <2> QED BY <1>0, <1>a, <1>b, <1>c, <2>1, <2>2, EditTyped
<1>4. CASE EditLock
  <2>1. Edit /\ UNCHANGED <<recipe, files, world, now, cache>>
    BY <1>4 DEF EditLock
  <2> QED BY <1>0, <1>4, <1>b, <1>c, <2>1, EditTyped, EditLockTyped
<1>5. CASE SpoilPool
  <2>1. Edit /\ UNCHANGED <<recipe, files, world, now, lock, cache, made>>
    BY <1>5 DEF SpoilPool
  <2> QED BY <1>0, <1>a, <1>b, <1>c, <2>1, EditTyped
<1>6. CASE BuildOnline
  <2> DEFINE built == IF recipe.distro = "fedora" THEN BuildFedora(recipe) ELSE BuildUbuntu(recipe)
             asked == FedoraPackagesToInstall(recipe)
  <2>1. UNCHANGED <<recipe, files, world, edits>> /\ now < Years /\ now' = now + 1
    BY <1>6 DEF BuildOnline
  <2>2. now' \in 1..Years
    BY <1>0, <2>1, YearsAssumption
  <2>3. CacheTyped'
    <3>1. CASE recipe.distro = "fedora" /\ Available(FedoraOffers, asked \cup FedoraTools)
      <4>1. cache' = cache \cup Downloads("libdnf5", Installed(FedoraOffers, asked))
                           \cup Downloads("dnf", Installed(FedoraOffers, FedoraTools))
        BY <1>6, <3>1 DEF BuildOnline
      <4>2. Available(FedoraOffers, asked) /\ Available(FedoraOffers, FedoraTools)
        BY <3>1 DEF Available
      <4>3. \A d \in Downloads("libdnf5", Installed(FedoraOffers, asked)) :
              d[1] \in {"libdnf5", "dnf"} /\ d[2] \in Range(FedoraRepos)
        BY <1>0, <4>2, DownloadsAreCached
      <4>4. \A d \in Downloads("dnf", Installed(FedoraOffers, FedoraTools)) :
              d[1] \in {"libdnf5", "dnf"} /\ d[2] \in Range(FedoraRepos)
        BY <1>0, <4>2, DownloadsAreCached
      <4> QED BY <1>0, <4>1, <4>3, <4>4 DEF CacheTyped
    <3>2. CASE ~(recipe.distro = "fedora" /\ Available(FedoraOffers, asked \cup FedoraTools))
      <4>1. cache' = cache
        BY <1>6, <3>2 DEF BuildOnline
      <4> QED BY <1>b, <4>1
    <3> QED BY <3>1, <3>2
  <2>4. CASE built = Nothing
    <3>1. Outcome("online", "failed", Nothing) /\ UNCHANGED <<lock, made>>
      BY <1>6, <2>4 DEF BuildOnline
    <3>2. LastTyped'
      BY <3>1 DEF Outcome, LastTyped
    <3> QED BY <1>0, <1>a, <1>c, <2>1, <2>2, <2>3, <3>1, <3>2
  <2>5. CASE built # Nothing
    <3>1. /\ lock' = built.lock /\ Outcome("online", "placed", built.image)
          /\ made' = [image |-> built.image, recipe |-> recipe, files |-> files, edited |-> FALSE]
      BY <1>6, <2>5 DEF BuildOnline
    <3>2. SoundBuild(built)
      BY <1>0, <2>5, UbuntuSound, FedoraSound
    <3> HIDE DEF built
    <3>3. LastTyped'
      <4>1. DOMAIN built.image = ImageParts
        BY <3>2, ImageHasItsParts DEF SoundBuild
      <4> QED BY <3>1, <4>1 DEF Outcome, LastTyped
    <3>4. LockTyped'
      <4>1. IsMade(made') /\ DOMAIN made' = {"image", "recipe", "files", "edited"}
        BY <3>1 DEF IsMade
      <4>2. IsLock(lock') /\ \A p \in EveryPackage(lock') : Sound(p)
        BY <3>1, <3>2 DEF SoundBuild
      <4>3. lock' # NoLock
        BY <4>2, WrittenIsALock
      <4> QED BY <4>1, <4>2, <4>3 DEF LockTyped, Sound, EveryPackage
    <3> QED BY <1>0, <1>c, <2>1, <2>2, <2>3, <3>3, <3>4
  <2> QED BY <2>4, <2>5
<1>7. CASE Vendor
  <2>1. UNCHANGED <<recipe, files, world, now, edits, lock, cache, made>>
    BY <1>7 DEF Vendor
  <2>2. \E outcome : outcome # "placed" /\ Outcome("vendor", outcome, Nothing)
    <3> DEFINE refused == IF lock = NoLock THEN "no lock" ELSE IF Manifest(lock) # "" THEN Manifest(lock)
                          ELSE WheelManifest(lock)
               wanted  == {e \in PoolEntries : <<e.file, e.digest>> \notin pool}
               fetched == {e \in wanted : Fetchable(e)}
    <3>1. refused # "placed"
      BY DEF Manifest, WheelManifest
    <3>2. IF refused # "" THEN Outcome("vendor", refused, Nothing)
          ELSE Outcome("vendor", IF fetched = wanted THEN "" ELSE "failed", Nothing)
      BY <1>7, Zenon DEF Vendor
    <3> HIDE DEF refused, wanted, fetched
    <3> QED BY <3>1, <3>2
  <2>3. LastTyped'
    BY <2>2 DEF Outcome, LastTyped
  <2> QED BY <1>0, <1>a, <1>b, <1>c, <2>1, <2>3
<1>8. CASE BuildOffline
  <2>1. UNCHANGED <<recipe, files, world, edits, lock, cache, made>> /\ now < Years /\ now' = now + 1
    BY <1>8 DEF BuildOffline
  <2>2. now' \in 1..Years
    BY <1>0, <2>1, YearsAssumption
  <2>3. PICK slip \in BOOLEAN : BuildsOffline(slip)
    BY <1>8 DEF BuildOffline
  <2>4. LastTyped'
    <3> DEFINE refused == PlanOffline(lock, recipe, files)
               image == IF recipe.distro = "fedora" THEN RebuildFedora(slip) ELSE RebuildUbuntu(slip)
               asLocked == IF recipe.distro = "fedora" THEN FedoraAsLocked(slip) ELSE UbuntuAsLocked(slip)
               outcome == IF refused # "" THEN refused
                          ELSE IF ~Held(PoolEntries) THEN "pool incomplete"
                          ELSE IF ~asLocked THEN "differs from the lock" ELSE "placed"
    <3>1. last' = [command |-> "offline", outcome |-> outcome, slip |-> slip,
                   image |-> IF outcome = "placed" THEN image ELSE Nothing]
      BY <2>3 DEF BuildsOffline
    <3>2. DOMAIN image = ImageParts
      <4>1. IsImage(RebuildFedora(slip))
        BY DEF IsImage, RebuildFedora
      <4>2. IsImage(RebuildUbuntu(slip))
        BY DEF IsImage, RebuildUbuntu
      <4> QED BY <4>1, <4>2, ImageHasItsParts
    <3> HIDE DEF outcome, image
    <3>3. /\ last'.command = "offline" /\ last'.outcome = outcome
          /\ last'.image = IF outcome = "placed" THEN image ELSE Nothing
      BY <3>1
    <3> QED BY <3>2, <3>3 DEF LastTyped
  <2> QED BY <1>0, <1>a, <1>b, <1>c, <2>1, <2>2, <2>4
<1>9. CASE UNCHANGED rebuildVars
  <2>1. UNCHANGED <<recipe, files, world, now, edits, lock, cache, last, made>>
    BY <1>9 DEF rebuildVars
  <2>2. LastTyped'
    BY <1>0, <2>1 DEF LastTyped
  <2> QED BY <1>0, <1>a, <1>b, <1>c, <2>1, <2>2
<1> QED BY <1>1, <1>2, <1>3, <1>4, <1>5, <1>6, <1>7, <1>8, <1>9 DEF RebuildNext

(* Whatever was built, edited and published, a lock is one a build wrote,  *)
(* of whole packages (composeLock); a command that placed an image has one *)
(* to show, and one that did not has none; and every cached download came  *)
(* from a repository of the release (cachedRepository).                    *)
THEOREM RebuildTypeOKHolds == RebuildSpec => []RebuildTypeOK
<1>1. TypeInv => RebuildTypeOK
  BY DEF TypeInv
<1> QED BY <1>1, InitTyped, StepTyped, PTL DEF RebuildSpec

-----------------------------------------------------------------------------
(* The sizes of a disk.                                                    *)

(* A disk is assembled only from a layout a lock's check takes, the root   *)
(* of an online one holds its tarball, and what the lock was written from  *)
(* is kept beside it.                                                      *)
DiskInv ==
  /\ DiskTypeOK
  /\ state \in {"sized", "built", "done"} =>
       DiskLayoutFromLock(layout) /\ layout.root >= tarball + tarball \div 4 + Headroom
  /\ state \in {"from lock", "rebuilt"} => DiskLayoutFromLock(layout) /\ layout = locked
  /\ state = "done" => locked = layout
  /\ state \in {"built", "rebuilt"} => disk = Assembled(layout)
  /\ disk # NoDisk => disk = Assembled(layout) /\ layout \in SizeType /\ DiskLayoutFromLock(layout)
  /\ state \in {"done", "edited", "from lock", "rebuilt"} => before.disk = Assembled(before.layout)

-----------------------------------------------------------------------------
(* Arithmetic.                                                             *)

(* What is a multiple of m is found again by dividing.                     *)
LEMMA Multiple ==
  ASSUME NEW n \in Int, NEW m \in Nat \ {0}
  PROVE  (n * m) \div m = n /\ (n * m) % m = 0
BY SMT

(* What leaves no rest is a multiple.                                      *)
LEMMA NoRest ==
  ASSUME NEW a \in Int, NEW m \in Nat \ {0}, a % m = 0
  PROVE  a \div m \in Int /\ a = (a \div m) * m
BY SMT

(* Rounding up loses nothing.                                              *)
LEMMA RoundUp ==
  ASSUME NEW n \in Int, NEW m \in Nat \ {0}
  PROVE  (n + m - 1) \div m \in Int /\ ((n + m - 1) \div m) * m >= n
BY SMT

LEMMA Monotone ==
  ASSUME NEW a \in Int, NEW b \in Int, NEW m \in Nat \ {0}, a <= b
  PROVE  a * m <= b * m
BY SMT

LEMMA Positive ==
  ASSUME NEW a \in Nat \ {0}, NEW m \in Nat \ {0}
  PROVE  a * m \in Nat \ {0}
BY SMT

(* The sum of multiples is one.                                            *)
LEMMA SumOfMultiples ==
  ASSUME NEW a \in Int, NEW b \in Int, NEW m \in Nat \ {0}, a % m = 0, b % m = 0
  PROVE  (a + b) % m = 0
<1> DEFINE p == a \div m
           q == b \div m
<1>1. p \in Int /\ q \in Int /\ a = p * m /\ b = q * m
  BY NoRest
<1> HIDE DEF p, q
<1>2. a + b = (p + q) * m
  BY <1>1, SMT
<1> QED
  BY <1>1, <1>2, Multiple

(* Whole MiBs are whole sectors.                                           *)
LEMMA WholeSectors ==
  ASSUME NEW a \in Int, a % MiB = 0
  PROVE  Bytes(a \div Sector) = a
<1> DEFINE n == a \div MiB
           q == MiB \div Sector
<1>1. n \in Int /\ a = n * MiB
  BY NoRest, GeometryAssumption
<1>2. q \in Int /\ MiB = q * Sector
  BY NoRest, GeometryAssumption
<1> HIDE DEF n, q
<1>3. a = (n * q) * Sector
  BY <1>1, <1>2, GeometryAssumption, SMT
<1>4. n * q \in Int
  BY <1>1, <1>2
<1>5. a \div Sector = n * q
  BY <1>3, <1>4, Multiple, GeometryAssumption
<1> QED
  BY <1>3, <1>5 DEF Bytes

-----------------------------------------------------------------------------
(* The sizes of an online build.                                           *)

(* The root for a tarball is whole MiBs and holds it with room to spare.   *)
LEMMA RootForHolds ==
  ASSUME NEW t \in Nat
  PROVE  /\ RootFor(t) \in Int /\ RootFor(t) % MiB = 0
         /\ RootFor(t) >= t + t \div 4 + Headroom
         /\ t + t \div 4 + Headroom > 0 /\ Headroom \in Nat
<1> DEFINE n == t + t \div 4 + Headroom
           k == (n + MiB - 1) \div MiB
<1>1. Headroom \in Nat \ {0}
  BY Positive, GeometryAssumption DEF Headroom
<1>2. n \in Int /\ n > 0
  BY <1>1, SMT
<1>3. RootFor(t) = k * MiB
  BY DEF RootFor, RoundUpToMiB
<1> HIDE DEF n
<1>4. k \in Int /\ k * MiB >= n
  BY <1>2, RoundUp, GeometryAssumption
<1> HIDE DEF k
<1>5. k * MiB \in Int /\ (k * MiB) % MiB = 0
  BY <1>4, Multiple, GeometryAssumption
<1> USE DEF n
<1> QED
  BY <1>1, <1>2, <1>3, <1>4, <1>5

(* An online build's layout is one its own lock check takes.               *)
LEMMA SizeIsTaken ==
  ASSUME NEW seed \in DiskSeeds, NEW shim \in Shims, NEW t \in Tarballs, NEW asked \in Requests,
         ~TooSmall(NewDiskLayout(seed, shim), t, asked)
  PROVE  LET l == Size(NewDiskLayout(seed, shim), t, asked)
         IN  /\ l \in SizeType /\ DiskLayoutFromLock(l)
             /\ l.root >= t + t \div 4 + Headroom
<1> DEFINE new  == NewDiskLayout(seed, shim)
           l    == Size(new, t, asked)
           root == IF asked = 0 THEN RootFor(t) ELSE asked * MiB - FirstPartition - EspBytes - GPTTail
           size == IF asked = 0 THEN Whole(EspBytes, RootFor(t)) ELSE asked * MiB
<1>1. t \in Nat /\ asked \in Nat /\ asked <= MaxMiB /\ MiB \in Nat \ {0} /\ EspMiB \in Nat \ {0}
      /\ MaxMiB \in Nat /\ EspMinMiB \in Nat /\ EspMaxMiB \in Nat
      /\ EspMinMiB <= EspMiB /\ EspMiB <= EspMaxMiB
  BY GeometryAssumption
<1>2. l = [seed |-> seed, shim |-> shim, esp |-> EspBytes, root |-> root, disk |-> size]
  BY DEF Size, NewDiskLayout
<1>3. /\ EspBytes \in Nat \ {0} /\ EspBytes % MiB = 0
      /\ EspBytes >= EspMinMiB * MiB /\ EspBytes <= EspMaxMiB * MiB
  BY <1>1, Positive, Multiple, Monotone DEF EspBytes
<1>4. /\ RootFor(t) \in Int /\ RootFor(t) % MiB = 0 /\ RootFor(t) >= t + t \div 4 + Headroom
      /\ t + t \div 4 + Headroom > 0 /\ Headroom \in Nat
  BY <1>1, RootForHolds
<1>5. size = Whole(EspBytes, root) /\ root \in Int /\ size \in Int
  BY <1>1, <1>3, <1>4 DEF Whole, FirstPartition, GPTTail
<1>6. root >= RootFor(t)
  <2>1. CASE asked = 0
    BY <2>1, <1>4
  <2>2. CASE asked # 0
    <3>1. asked * MiB >= Whole(EspBytes, RootFor(t))
      BY <2>2, <1>1, <1>3, <1>4 DEF TooSmall, NewDiskLayout, Whole, FirstPartition, GPTTail
    <3> QED
      BY <2>2, <3>1, <1>1, <1>3, <1>4 DEF Whole, FirstPartition, GPTTail
  <2> QED
    BY <2>1, <2>2
<1>7. root % MiB = 0
  <2>1. CASE asked = 0
    BY <2>1, <1>4
  <2>2. CASE asked # 0
    <3>1. root = (asked - EspMiB - 2) * MiB
      BY <2>2, <1>1, SMT DEF FirstPartition, EspBytes, GPTTail
    <3>2. asked - EspMiB - 2 \in Int
      BY <1>1
    <3> QED
      BY <3>1, <3>2, <1>1, Multiple
  <2> QED
    BY <2>1, <2>2
<1>8. size <= MaxMiB * MiB
  <2>1. CASE asked = 0
    BY <2>1, TarballAssumption
  <2>2. CASE asked # 0
    BY <2>2, <1>1, Monotone
  <2> QED
    BY <2>1, <2>2
<1> HIDE DEF root, size
<1>9. size % MiB = 0
  <2>1. MiB \in Int /\ MiB % MiB = 0 /\ EspBytes \in Int
    BY <1>1, <1>3
  <2>2. MiB + EspBytes \in Int /\ MiB + EspBytes + root \in Int
    BY <1>1, <1>3, <1>5
  <2>3. (MiB + EspBytes) % MiB = 0
    BY <2>1, <1>1, <1>3, SumOfMultiples, Zenon
  <2>4. (MiB + EspBytes + root) % MiB = 0
    BY <2>2, <2>3, <1>1, <1>5, <1>7, SumOfMultiples, Zenon
  <2>5. (MiB + EspBytes + root + MiB) % MiB = 0
    BY <2>1, <2>2, <2>4, <1>1, SumOfMultiples, Zenon
  <2> QED
    BY <2>5, <1>5 DEF Whole, FirstPartition, GPTTail
<1>10. root > 0 /\ root >= t + t \div 4 + Headroom
  BY <1>1, <1>4, <1>5, <1>6
<1>11. size > 0
  BY <1>1, <1>3, <1>5, <1>10 DEF Whole, FirstPartition, GPTTail
<1>12. l \in SizeType
  BY <1>2, <1>3, <1>5, <1>10, <1>11 DEF SizeType
<1>13. DiskLayoutFromLock(l)
  BY <1>2, <1>3, <1>5, <1>7, <1>8, <1>9, <1>10, <1>11 DEF DiskLayoutFromLock, CheckSizes, WholeMiB
<1> QED
  BY <1>2, <1>10, <1>12, <1>13

(* The disk assembled from a layout that was taken has a table that fits.  *)
LEMMA AssembledFits ==
  ASSUME layout \in SizeType, CheckSizes(layout), disk = Assembled(layout)
  PROVE  TableFits
<1> DEFINE esp == layout.esp
           root == layout.root
           two == FirstPartition + esp
<1>1. MiB \in Nat \ {0} /\ Sector \in Nat \ {0}
  BY GeometryAssumption
<1>2. /\ esp \in Nat /\ esp > 0 /\ esp % MiB = 0
      /\ root \in Nat /\ root > 0 /\ root % MiB = 0
      /\ layout.disk = FirstPartition + esp + root + GPTTail
  BY DEF CheckSizes, WholeMiB, SizeType, Whole
<1>3. FirstPartition % MiB = 0 /\ FirstPartition \in Nat
  BY <1>1 DEF FirstPartition
<1>4. two % MiB = 0 /\ two \in Nat
  <2>1. FirstPartition \in Int /\ esp \in Int
    BY <1>2, <1>3
  <2>2. two % MiB = 0
    BY <2>1, <1>1, <1>2, <1>3, SumOfMultiples, Zenon
  <2> QED
    BY <2>2, <1>2, <1>3
<1> HIDE DEF two
<1>5. /\ Bytes(FirstPartition \div Sector) = FirstPartition /\ Bytes(esp \div Sector) = esp
      /\ Bytes(two \div Sector) = two /\ Bytes(root \div Sector) = root
  BY <1>2, <1>3, <1>4, WholeSectors
<1>6. (FirstPartition \div MiB) * MiB = FirstPartition /\ (two \div MiB) * MiB = two
  BY <1>1, <1>3, <1>4, NoRest
<1>7. esp \div Sector > 0 /\ root \div Sector > 0
  <2>1. esp \div Sector \in Int /\ root \div Sector \in Int
    BY <1>1, <1>2
  <2>2. \A n \in Int : n * Sector > 0 => n > 0
    BY <1>1, SMT
  <2> QED
    BY <1>2, <1>5, <2>1, <2>2 DEF Bytes
<1>8. disk.table = <<[start |-> FirstPartition \div Sector, size |-> esp \div Sector],
                     [start |-> two \div Sector, size |-> root \div Sector]>>
  BY DEF Assembled, RenderSfdiskScript, two
<1>9. disk.bytes = <<[seek |-> FirstPartition \div MiB, size |-> esp],
                     [seek |-> two \div MiB, size |-> root]>>
  BY DEF Assembled, Placed, two
<1> DEFINE T == disk.table
           B == disk.bytes
<1>10. /\ T[1].start = FirstPartition \div Sector /\ T[1].size = esp \div Sector
       /\ T[2].start = two \div Sector /\ T[2].size = root \div Sector
       /\ B[1].seek = FirstPartition \div MiB /\ B[1].size = esp
       /\ B[2].seek = two \div MiB /\ B[2].size = root
  BY <1>8, <1>9
<1> HIDE DEF T, B, esp, root
<1>11. \A i \in {1, 2} :
         /\ Aligned(T[i]) /\ T[i].size > 0
         /\ Bytes(T[i].start) = B[i].seek * MiB
         /\ Bytes(T[i].size) = B[i].size
  BY <1>2, <1>3, <1>4, <1>5, <1>6, <1>7, <1>10 DEF Aligned
<1>12. Bytes(T[1].start) = FirstPartition
  BY <1>5, <1>10
<1>13. End(T[1]) <= Bytes(T[2].start)
  BY <1>2, <1>3, <1>5, <1>10 DEF End, two
<1>14. End(T[2]) + GPTTail = layout.disk
  BY <1>2, <1>3, <1>5, <1>10 DEF End, two
<1> QED
  BY <1>11, <1>12, <1>13, <1>14 DEF TableFits, T, B

-----------------------------------------------------------------------------
(* The invariant.                                                          *)

(* A sized layout is a layout, a new one is, and one that is taken is      *)
(* sized.                                                                  *)
LEMMA SizedIsLayout == SizeType \subseteq LayoutType
BY DEF SizeType, LayoutType

LEMMA NewIsLayout ==
  ASSUME NEW seed \in DiskSeeds, NEW shim \in Shims
  PROVE  NewDiskLayout(seed, shim) \in LayoutType
<1>1. EspBytes \in Int
  BY GeometryAssumption, Positive DEF EspBytes
<1> QED
  BY <1>1 DEF NewDiskLayout, LayoutType

LEMMA TakenIsSized ==
  ASSUME NEW l \in LayoutType, DiskLayoutFromLock(l)
  PROVE  l \in SizeType
<1>1. l = [seed |-> l.seed, shim |-> l.shim, esp |-> l.esp, root |-> l.root, disk |-> l.disk]
  BY DEF LayoutType
<1>2. l.esp \in Int /\ l.root \in Int /\ l.disk \in Int
  BY DEF LayoutType
<1>3. l.esp > 0 /\ l.root > 0 /\ l.disk > 0 /\ l.seed \in DiskSeeds /\ l.shim \in Shims
  BY DEF DiskLayoutFromLock, CheckSizes, WholeMiB
<1> HIDE DEF DiskLayoutFromLock
<1>4. l.esp \in Nat /\ l.root \in Nat /\ l.disk \in Nat
  BY <1>2, <1>3
<1> QED
  BY <1>1, <1>3, <1>4 DEF SizeType

LEMMA DiskInitInv == DiskInit => DiskInv
BY DEF DiskInit, DiskInv, DiskTypeOK, LayoutType, NoLayout

LEMMA DiskStepInv == DiskInv /\ [DiskNext]_diskVars => DiskInv'
<1> SUFFICES ASSUME DiskInv, [DiskNext]_diskVars PROVE DiskInv'
  OBVIOUS
<1> USE DEF DiskInv
<1>1. CASE Online
  <2>1. PICK seed \in DiskSeeds, shim \in Shims, t \in Tarballs, asked \in Requests :
          /\ request' = asked /\ tarball' = t
          /\ IF TooSmall(NewDiskLayout(seed, shim), t, asked)
             THEN state' = "refused" /\ layout' = NewDiskLayout(seed, shim)
             ELSE state' = "sized" /\ layout' = Size(NewDiskLayout(seed, shim), t, asked)
    BY <1>1 DEF Online
  <2>2. disk' = NoDisk /\ locked' = locked /\ before' = before
    BY <1>1 DEF Online
  <2>3. CASE TooSmall(NewDiskLayout(seed, shim), t, asked)
    <3>1. layout' \in LayoutType
      BY <2>1, <2>3, NewIsLayout
    <3> QED
      BY <2>1, <2>2, <2>3, <3>1 DEF DiskTypeOK
  <2>4. CASE ~TooSmall(NewDiskLayout(seed, shim), t, asked)
    <3>1. /\ layout' \in SizeType /\ DiskLayoutFromLock(layout')
          /\ layout'.root >= tarball' + tarball' \div 4 + Headroom
      BY <2>1, <2>4, SizeIsTaken
    <3>2. layout' \in LayoutType
      BY <3>1, SizedIsLayout
    <3> QED
      BY <2>1, <2>2, <2>4, <3>1, <3>2 DEF DiskTypeOK
  <2> QED
    BY <2>3, <2>4
<1>2. CASE Assemble
  BY <1>2 DEF Assemble, DiskTypeOK
<1>3. CASE WriteLock
  BY <1>3 DEF WriteLock, DiskTypeOK
<1>4. CASE EditSizes
  <2>1. PICK size \in Edited, field \in {"esp", "root", "disk"} : locked' = [locked EXCEPT ![field] = size]
    BY <1>4 DEF EditSizes
  <2>2. size \in Int
    BY GeometryAssumption
  <2>3. locked' \in LayoutType
    BY <2>1, <2>2 DEF DiskTypeOK, LayoutType
  <2> QED
    BY <1>4, <2>3 DEF EditSizes, DiskTypeOK
<1>5. CASE Offline
  <2>1. CASE DiskLayoutFromLock(locked)
    <3>1. locked \in SizeType
      BY <2>1, TakenIsSized DEF DiskTypeOK
    <3> QED
      BY <1>5, <2>1, <3>1 DEF Offline, DiskTypeOK
  <2>2. CASE ~DiskLayoutFromLock(locked)
    BY <1>5, <2>2 DEF Offline, DiskTypeOK
  <2> QED
    BY <2>1, <2>2
<1>6. CASE UNCHANGED diskVars
  BY <1>6 DEF diskVars, DiskTypeOK, DiskLayoutFromLock, CheckSizes
<1> QED
  BY <1>1, <1>2, <1>3, <1>4, <1>5, <1>6 DEF DiskNext

(* What a disk is assembled from is sized, and its lock checked, for every *)
(* geometry: the inductive invariant of DiskSpec.                          *)
THEOREM DiskInvariant == DiskSpec => []DiskInv
<1>1. DiskInit => DiskInv
  BY DiskInitInv
<1>2. DiskInv /\ [DiskNext]_diskVars => DiskInv'
  BY DiskStepInv
<1> QED
  BY <1>1, <1>2, PTL DEF DiskSpec

(* Whatever sizes a disk is assembled from, drawn or read from an edited   *)
(* lock (newDiskLayout, diskLayoutFromLock), its partitions fit, an online *)
(* root holds its tarball, and an untouched lock gives the same disk.      *)
THEOREM PartitionsFitHolds == DiskSpec => []PartitionsFit
<1>1. DiskInv => PartitionsFit
  <2> SUFFICES ASSUME DiskInv PROVE PartitionsFit
    OBVIOUS
  <2>1. TableFits
    <3>1. CASE disk = NoDisk
      BY <3>1 DEF TableFits
    <3>2. CASE disk # NoDisk
      BY <3>2, AssembledFits DEF DiskInv, DiskLayoutFromLock
    <3> QED
      BY <3>1, <3>2
  <2>2. RootHolds
    BY DEF DiskInv, RootHolds
  <2>3. LockIsTaken
    BY DEF DiskInv, LockIsTaken
  <2> QED
    BY <2>1, <2>2, <2>3 DEF PartitionsFit
<1> QED
  BY <1>1, DiskInvariant, PTL
=============================================================================
