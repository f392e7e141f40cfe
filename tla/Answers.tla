------------------------------ MODULE Answers ------------------------------
(***************************************************************************)
(* The answers of the recipe form, and how they become a recipe and come   *)
(* from one.  Besides the answers, values hold what the recipe they came   *)
(* from had, so that an edit gives back what no question shows.            *)
(*                                                                         *)
(* A free-text list is the sequence of its names: joining them with spaces *)
(* and splitting the text gives the names back, except of a certificate    *)
(* file with a separator in its path (Exotic), which no field can hold.    *)
(* Passwordless sudo, which every variant asks alike, is left out.         *)
(***************************************************************************)
EXTENDS Recipes

CONSTANTS
  CatalogOf,      \* family |-> the package names its catalog offers
  SourceCatalog,  \* the sources the catalog offers, of which
  PerRelease,     \* these name the release's suite in their fields
  Ppas,           \* the PPAs, owner and name
  PpaName,        \* PPA |-> the source name it gets, which two may share
  PpaOf,          \* a row's own fields |-> the PPA whose URL is among them
  Offered,        \* the questions with a list of values |-> that list
  Exotic          \* certificate files with a space or a comma in their path

(* What frostroot offers by itself its own patterns accept, which accept   *)
(* more: a recipe may name a locale or a time zone no list has.            *)
ASSUME OffersAssumption ==
  /\ CatalogOf["ubuntu"] \subseteq Accepted["apt"]
  /\ CatalogOf["fedora"] \subseteq Accepted["rpm"]
  /\ \A n \in SourceCatalog : [name |-> n, own |-> Absent] \in Accepted["source"]
  /\ \A p \in Ppas : [name |-> PpaName[p], own |-> p] \in Accepted["source"]
  /\ DOMAIN Offered = {"locale", "timezone"}
  /\ Offered["locale"] # <<>> /\ ToSet(Offered["locale"]) \subseteq Accepted["lang"]
  /\ Offered["timezone"] # <<>> /\ ToSet(Offered["timezone"]) \subseteq Accepted["timezone"]
  /\ "en_US.UTF-8" \in ToSet(Offered["locale"]) /\ "UTC" \in ToSet(Offered["timezone"])
ASSUME PpasAssumption ==
  \A own \in DOMAIN PpaOf : PpaOf[own] \in Ppas /\ (own \in Ppas => PpaOf[own] = own)

(* A full-screen choice over a value its list lacks stands on the first of *)
(* the list, and holds that.                                               *)
AsOffered(key, value) ==
  IF value \in ToSet(Offered[key]) THEN value ELSE Offered[key][1]

InCatalog(family, name) == name \in CatalogOf[family]
SplitPackages(family, include) ==
  LET chosen == {n \in DOMAIN include : InCatalog(family, include[n])}
  IN  <<Picked(include, chosen), Picked(include, DOMAIN include \ chosen)>>

EntrySource(name, suite) ==
  [name |-> name, suite |-> IF name \in PerRelease THEN suite ELSE Absent, own |-> Absent]
PPA(ppa) == [name |-> PpaName[ppa], suite |-> Absent, own |-> ppa]

(* A row with a PPA's URL is that PPA when it has its name too.            *)
IsEntry(source) == source.name \in SourceCatalog
IsPPA(source) ==
  source.own \in DOMAIN PpaOf /\ source.name = PpaName[PpaOf[source.own]]
PpasIn(rows) == [n \in DOMAIN rows |-> PpaOf[rows[n].own]]

SplitSources(list) ==
  LET entries == {n \in DOMAIN list : IsEntry(list[n])}
      ppas    == {n \in DOMAIN list : IsPPA(list[n])} \ entries
  IN  <<SourceNames(Picked(list, entries)), PpasIn(Picked(list, ppas))>>

(* The paths the field can hold, and those it cannot.                      *)
SplitCertificates(paths) ==
  LET exotic == {n \in DOMAIN paths : paths[n] \in Exotic}
  IN  <<Picked(paths, DOMAIN paths \ exotic), Picked(paths, exotic)>>

(* The first of each name stays.                                           *)
FirstOfEach(list, names) == Picked(list, DOMAIN list \ Repeats(names))

MergeAnew(selected, others, original) == FirstOfEach(selected \o others, selected \o others)
MergePackages(selected, others, original) ==
  LET wanted == ToSet(selected \o others)
      kept   == Picked(original, {n \in DOMAIN original : original[n] \in wanted})
      merged == kept \o selected \o others
  IN  FirstOfEach(merged, merged)

(* The original rows keep their place and their fields, unless deselected, *)
(* which goes by name: one PPA in place of another of its name leaves the  *)
(* row.  An unedited row of the catalog is resolved again for the release. *)
MergeSources(selected, ppas, original, originalSuite, suite) ==
  LET entries == Picked(selected, {n \in DOMAIN selected : selected[n] \in SourceCatalog})
      wanted  == [n \in DOMAIN entries |-> EntrySource(entries[n], suite)]
                 \o [n \in DOMAIN ppas |-> PPA(ppas[n])]
      isWanted(s) == \E w \in ToSet(wanted) : w.name = s.name
      stays(s)    == (IsEntry(s) \/ IsPPA(s)) => isWanted(s)
      kept        == Picked(original, {n \in DOMAIN original : stays(original[n])})
      unedited(s) == /\ IsEntry(s) /\ originalSuite # ""
                     /\ s = EntrySource(s.name, originalSuite)
      resolved    == [n \in DOMAIN kept |->
                        IF unedited(kept[n]) THEN EntrySource(kept[n].name, suite) ELSE kept[n]]
  IN  FirstOfEach(resolved \o wanted, SourceNames(resolved \o wanted))

(* The release as typed stands for a suite when it is none of Ubuntu's.    *)
ReleaseSuite(version) ==
  IF Builds("ubuntu", version) THEN Releases[version].suite ELSE version

-----------------------------------------------------------------------------

Family(values) == LET f == FamilyOf(values.distro) IN IF f = Absent THEN values.distro ELSE f
Target(values) == IF values.target = "" THEN "wsl" ELSE values.target
VariantOf(values) == [family |-> Family(values), target |-> Target(values)]

Defaults ==
  [name |-> "lab", distro |-> "ubuntu", release |-> Newest["ubuntu"], user |-> "student",
   timezone |-> "UTC", locale |-> "en_US.UTF-8", systemd |-> TRUE, packages |-> <<>>,
   others |-> <<>>, python |-> <<>>, certificates |-> <<>>, sources |-> <<>>, ppas |-> <<>>,
   target |-> "wsl", size |-> "", qcow2 |-> FALSE, originalInclude |-> <<>>,
   originalSources |-> <<>>, originalRelease |-> "", originalCertificates |-> <<>>,
   indexURL |-> "", originalDistro |-> "", originalTarget |-> ""]

CatalogSelections(family, values) ==
  SplitPackages(family, values.packages)[1]

ForFamily(values, family) ==
  [values EXCEPT
     !.distro   = family,
     !.release  = IF Builds(family, @) THEN @ ELSE Newest[family],
     !.packages = CatalogSelections(family, values)]

OrDefault(text, default) == IF text = "" THEN default ELSE text

FromRecipe(recipe) ==
  LET family   == FamilyOf(recipe.distro)
      packages == SplitPackages(family, recipe.include)
      sources  == SplitSources(recipe.sources)
      paths    == SplitCertificates(CertificatePaths(recipe))
  IN  [name |-> recipe.name, distro |-> family, release |-> recipe.release,
       user |-> recipe.user, timezone |-> OrDefault(recipe.timezone, "UTC"),
       locale |-> OrDefault(recipe.lang, "en_US.UTF-8"), systemd |-> recipe.wsl.systemd,
       packages |-> packages[1], others |-> packages[2], python |-> PythonPackages(recipe),
       sources |-> sources[1], ppas |-> sources[2],
       certificates |-> paths[1],
       target |-> TargetOf(recipe), size |-> DiskSize(recipe),
       qcow2 |-> "qcow2" \in ToSet(DiskFormats(recipe)),
       originalInclude |-> recipe.include, originalSources |-> recipe.sources,
       originalRelease |-> recipe.release, indexURL |-> PythonIndexURL(recipe),
       originalCertificates |-> paths[2],
       originalDistro |-> recipe.distro, originalTarget |-> recipe.target]

(* A default the recipe did not spell out stays unsaid.                    *)
Named(answer, default, original) ==
  IF answer = default /\ original = "" THEN "" ELSE answer
RecipeDistro(values) == Named(values.distro, "ubuntu", values.originalDistro)
RecipeTarget(values) == Named(values.target, "wsl", values.originalTarget)

DiskTable(values) ==
  [size |-> values.size, formats |-> IF values.qcow2 THEN <<"qcow2">> ELSE <<>>]
PythonTable(values) ==
  IF values.python = <<>> THEN Absent
  ELSE [include |-> values.python, index |-> values.indexURL]
CertificatesTable(values) ==
  LET paths == values.originalCertificates \o values.certificates
  IN  IF paths = <<>> THEN Absent ELSE [include |-> paths]

(* What the family or the target has no use for is left out.               *)
ToRecipe(values) ==
  LET isDisk   == Target(values) = "disk"
      isFedora == Family(values) = "fedora"
  IN  [name |-> values.name, distro |-> RecipeDistro(values), release |-> values.release,
       target |-> RecipeTarget(values), user |-> values.user,
       wsl |-> IF isDisk THEN NoWSL
               ELSE [systemd |-> values.systemd, defaultUser |-> values.user],
       disk |-> IF isDisk THEN DiskTable(values) ELSE Absent,
       lang |-> values.locale, timezone |-> values.timezone,
       include |-> MergePackages(CatalogSelections(Family(values), values), values.others,
                                 values.originalInclude),
       sources |-> IF isFedora THEN <<>>
                   ELSE MergeSources(values.sources, values.ppas, values.originalSources,
                                     ReleaseSuite(values.originalRelease),
                                     ReleaseSuite(values.release)),
       python |-> IF isFedora THEN Absent ELSE PythonTable(values),
       certificates |-> IF isFedora THEN Absent ELSE CertificatesTable(values)]
=============================================================================
