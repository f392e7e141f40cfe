------------------------------ MODULE Recipes ------------------------------
(***************************************************************************)
(* The recipe, frostroot.toml, as data: its tables, the releases it may    *)
(* name, and what Validate finds wrong with it.                            *)
(*                                                                         *)
(* A pattern a name must match is the set of the names it accepts; the     *)
(* wording of a problem is left out.  A table that is absent is Absent.    *)
(***************************************************************************)
EXTENDS Naturals, FiniteSets, SequencesExt

CONSTANTS
  Absent,
  Accepted,       \* kind of value |-> the values its pattern accepts
  Releases,       \* version |-> [family, suite, disks]
  Newest,         \* family |-> its newest version
  ProjectOf,      \* Python name |-> the PyPI project, as PEP 503 compares
  CertificateName \* certificate file |-> what it is called in the image

Families == {"ubuntu", "fedora"}
Targets  == {"wsl", "disk"}

ASSUME AbsentAssumption == Absent \notin Families
(* A disk is made in one further format than the raw image.                *)
ASSUME FormatsAssumption == Accepted["format"] = {"qcow2"}
ASSUME ReleasesAssumption ==
  /\ \A v \in DOMAIN Releases : Releases[v].family \in Families
  /\ \A f \in Families : Releases[Newest[f]].family = f

(* An absent name is Ubuntu's, as in every recipe older than Fedora's.     *)
FamilyOf(name) == CASE name = "" -> "ubuntu"
                    [] name \in Families -> name
                    [] OTHER -> Absent
SupportedVersions(family) == {v \in DOMAIN Releases : Releases[v].family = family}
Builds(family, version) == version \in SupportedVersions(family)
BuildsDisks(version) == version \in DOMAIN Releases /\ Releases[version].disks

TargetOf(recipe) == IF recipe.target = "" THEN "wsl" ELSE recipe.target
NoWSL == [systemd |-> FALSE, defaultUser |-> ""]

IncludeOf(table) == IF table = Absent THEN <<>> ELSE table.include
PythonPackages(recipe)   == IncludeOf(recipe.python)
CertificatePaths(recipe) == IncludeOf(recipe.certificates)
PythonIndexURL(recipe)   == IF recipe.python = Absent THEN "" ELSE recipe.python.index
DiskSize(recipe)    == IF recipe.disk = Absent THEN "" ELSE recipe.disk.size
DiskFormats(recipe) == IF recipe.disk = Absent THEN <<>> ELSE recipe.disk.formats
DefaultUser(recipe) ==
  IF recipe.wsl.defaultUser # "" THEN recipe.wsl.defaultUser ELSE recipe.user

Check(kind, value) == IF value \in Accepted[kind] THEN {} ELSE {<<kind, value>>}
CheckAll(kind, list) == UNION {Check(kind, value) : value \in ToSet(list)}
CheckGiven(kind, value) == IF value = "" THEN {} ELSE Check(kind, value)

(* The entries of a list at some of its places, in its order: SelectSeq by *)
(* place, and without its recursion.                                       *)
Ranked(places, n) == CHOOSE p \in places : Cardinality({q \in places : q <= p}) = n
Picked(list, places) == [n \in 1..Cardinality(places) |-> list[Ranked(places, n)]]

(* The places of a list of names that an earlier place has too.            *)
Repeats(names) == {n \in DOMAIN names : \E m \in 1..(n - 1) : names[m] = names[n]}
Twice(what, names) == {<<what, "twice", names[n]>> : n \in Repeats(names)}
NamedBy(nameOf, list) == [n \in DOMAIN list |-> nameOf[list[n]]]
SourceNames(list)     == [n \in DOMAIN list |-> list[n].name]
WellFormed(kind, list) == Picked(list, {n \in DOMAIN list : list[n] \in Accepted[kind]})

-----------------------------------------------------------------------------
(* Validate, a group of rules at a time.                                   *)

ImageProblems(recipe) ==
  LET family == FamilyOf(recipe.distro)
  IN  Check("image", recipe.name)
      \cup (IF family = Absent THEN {<<"distro", recipe.distro>>}
            ELSE IF Builds(family, recipe.release) THEN {}
            ELSE {<<"release", recipe.release>>})

FedoraUnsupported(recipe) ==
  (IF recipe.sources # <<>> THEN {<<"sources are Ubuntu's">>} ELSE {})
  \cup (IF recipe.python # Absent THEN {<<"python is Ubuntu's">>} ELSE {})
  \cup (IF recipe.certificates # Absent THEN {<<"certificates are Ubuntu's">>} ELSE {})

DiskProblems(recipe) ==
  (IF recipe.wsl # NoWSL THEN {<<"a disk has no wsl.conf">>} ELSE {})
  \cup (IF /\ FamilyOf(recipe.distro) = "ubuntu" /\ Builds("ubuntu", recipe.release)
           /\ ~BuildsDisks(recipe.release)
        THEN {<<"no disk of this release">>} ELSE {})
  \cup CheckGiven("size", DiskSize(recipe))
  \cup CheckAll("format", DiskFormats(recipe))
  \cup Twice("format", WellFormed("format", DiskFormats(recipe)))

TargetProblems(recipe) ==
  CASE TargetOf(recipe) = "wsl"  -> IF recipe.disk # Absent THEN {<<"a tarball has no disk">>} ELSE {}
    [] TargetOf(recipe) = "disk" -> DiskProblems(recipe)
    [] OTHER -> {<<"target", recipe.target>>}

UserProblems(recipe) ==
  Check("user", recipe.user)
  \cup (IF /\ recipe.wsl.defaultUser \notin {"", recipe.user}
           /\ TargetOf(recipe) = "wsl"
        THEN {<<"default_user is another user">>} ELSE {})
  \cup CheckGiven("lang", recipe.lang) \cup CheckGiven("timezone", recipe.timezone)

PackageProblems(recipe) ==
  CheckAll(IF FamilyOf(recipe.distro) = "fedora" THEN "rpm" ELSE "apt", recipe.include)

PythonProblems(recipe) ==
  LET packages == PythonPackages(recipe)
  IN  CheckAll("python", packages)
      \cup Twice("python", NamedBy(ProjectOf, WellFormed("python", packages)))
      \cup CheckGiven("index", PythonIndexURL(recipe))
      \cup (IF PythonIndexURL(recipe) # "" /\ packages = <<>>
            THEN {<<"an index nothing resolves from">>} ELSE {})

CertificateProblems(recipe) ==
  LET paths == CertificatePaths(recipe)
  IN  CheckAll("certificate", paths)
      \cup Twice("certificate", NamedBy(CertificateName, WellFormed("certificate", paths)))

(* A source is [name, suite, own]: own is the fields that are not those of *)
(* the catalog entry of that name, or Absent; a PPA's are the PPA.         *)
SourceProblems(recipe) ==
  (UNION {Check("source", [name |-> s.name, own |-> s.own]) : s \in ToSet(recipe.sources)})
  \cup Twice("source", SourceNames(recipe.sources))

Validate(recipe) ==
  ImageProblems(recipe)
  \cup (IF FamilyOf(recipe.distro) = "fedora" THEN FedoraUnsupported(recipe) ELSE {})
  \cup TargetProblems(recipe) \cup UserProblems(recipe) \cup PackageProblems(recipe)
  \cup PythonProblems(recipe) \cup CertificateProblems(recipe) \cup SourceProblems(recipe)

-----------------------------------------------------------------------------
(* What needs the recipe's directory: a certificate file holds a number of *)
(* certificates, a key file a key; one that cannot be read or parsed holds *)
(* none.  The first certificate of a file is installed under its name, and *)
(* each further one under the name with its number.                        *)

InstallName(path, n) == <<CertificateName[path], n>>

CertificateFileProblems(holds, spelled, paths) ==
  LET checked == WellFormed("certificate", paths)
      names(k) == {spelled[InstallName(checked[k], n)] : n \in 1..holds[checked[k]]}
  IN  {<<"certificate", checked[k]>> : k \in
        {k \in DOMAIN checked :
           \/ holds[checked[k]] = 0
           \/ \E j \in 1..(k - 1) : names(j) \cap names(k) # {}}}

SourceKeyProblems(keyAt, sources) ==
  {<<"key", s.name>> : s \in {s \in ToSet(sources) : keyAt[s.name] # "key"}}
=============================================================================
