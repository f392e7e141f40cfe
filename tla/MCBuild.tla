------------------------------ MODULE MCBuild ------------------------------
(***************************************************************************)
(* Builds on small instances: the recipe directory with its lock and pool, *)
(* one build from its first program to the image's place, and the layout   *)
(* of a disk image.  The three share no state; a behavior is of one of     *)
(* them.                                                                   *)
(***************************************************************************)
EXTENDS Rebuild, Bootstrap, DiskLayout

VARIABLE part  \* the one that moves

(* The archives before and after a publication: a version that moves, one  *)
(* that a second source has newer, and Fedora's two repositories.          *)
Deb(n, v) == [name |-> n, version |-> v, arch |-> IF n = "lib" THEN "all" ELSE "amd64", digest |-> <<n, v>>]
Debs(ns, v) == {Deb(n, v) : n \in ns}
Release == Debs({"git", "lib", "sudo", "python3", "linux", "mke2fs"}, 1)
FedoraRelease == Debs({"git", "lib", "dnf5", "glibc-langpack-tr", "glibc-langpack-en"}, 1)
MCWorlds ==
  << "release" :> Release @@ "updates" :> {Deb("git", 1)} @@ "security" :> {Deb("sudo", 1)}
     @@ "docker.com" :> {Deb("docker", 1), Deb("lib", 2)}
     @@ "fedora" :> FedoraRelease @@ "fedora-updates" :> {Deb("lib", 1)},
     "release" :> Release @@ "updates" :> {Deb("git", 2), [Deb("lib", 2) EXCEPT !.digest = <<"lib", 9>>]}
     @@ "security" :> {Deb("sudo", 2)} @@ "docker.com" :> {Deb("docker", 2), Deb("lib", 2)}
     @@ "fedora" :> FedoraRelease @@ "fedora-updates" :> {Deb("lib", 2)} >>
MCNames == {"git", "lib", "sudo", "python3", "linux", "mke2fs", "docker", "dnf5", "glibc-langpack-tr",
            "glibc-langpack-en", "flask", "pip", "wheel"}
MCNeeds == [n \in MCNames |-> IF n \in {"git", "mke2fs", "docker", "dnf5"} THEN {n, "lib"}
                              ELSE IF n = "flask" THEN {n, "wheel"} ELSE {n}]
MCArchOf == [n \in MCNames |-> IF n = "lib" THEN "all" ELSE "amd64"]
MCLangpack == "C" :> Nothing @@ "tr" :> "glibc-langpack-tr" @@ "" :> "glibc-langpack-en"
MCProject == [p \in {"Flask", "flask", "pip", "wheel", "setuptools"} |-> IF p = "Flask" THEN "flask" ELSE p]
Wheel(n, v) == [name |-> n, version |-> v, auto |-> TRUE, digest |-> <<n, v>>]
MCWheels == "" :> {Wheel("flask", 1), Wheel("wheel", 2), Wheel("pip", 2)}
            @@ "mirror" :> {Wheel("flask", 1), Wheel("wheel", 1), Wheel("pip", 2)}
MCPinnedPip == Wheel("pip", 1)
MCSeeds == {Wheel("pip", 0), Wheel("setuptools", 0), Wheel("wheel", 0)}
MCRepos == <<"fedora", "fedora-updates">>

(* Recipes of each family and target, with a source, a certificate, a      *)
(* project spelled in two ways, an index, and locales.                     *)
Base == [distro |-> "ubuntu", target |-> "wsl", release |-> "24.04", include |-> {"git"}, python |-> {}, index |-> "",
         sources |-> <<>>, certificates |-> {}, size |-> "", lang |-> ""]
Docker == [Base EXCEPT !.sources = <<[name |-> "docker", at |-> "docker.com"]>>, !.include = {"docker"},
                       !.certificates = {"corp.pem"}]
OnDisk == [Docker EXCEPT !.target = "disk", !.size = "16G"]
OnFedora == [Base EXCEPT !.distro = "fedora", !.release = "44"]
MCRecipes ==
  {Docker, OnDisk, [OnDisk EXCEPT !.size = "32G"],
   [Base EXCEPT !.python = {"Flask"}], [Base EXCEPT !.python = {"flask"}],
   [Base EXCEPT !.python = {"flask"}, !.index = "mirror"], [Base EXCEPT !.python = {"pip"}],
   OnFedora, [OnFedora EXCEPT !.lang = "tr"], [OnFedora EXCEPT !.lang = "C"]}
(* A recipe that asks for pip by name, from an index of its own.           *)
PipRecipes == {[Base EXCEPT !.python = {"pip"}, !.index = "mirror"], Docker}

(* Builds of each family and target, online and offline.                   *)
Wsl == [family |-> "ubuntu", target |-> "wsl", offline |-> FALSE, python |-> FALSE, index |-> FALSE,
        certificates |-> FALSE, keys |-> FALSE, bundle |-> FALSE, insecure |-> FALSE, sudo |-> TRUE]
Full == [Wsl EXCEPT !.python = TRUE, !.index = TRUE, !.certificates = TRUE, !.keys = TRUE, !.bundle = TRUE]
MCKinds ==
  {Wsl, Full, [Full EXCEPT !.bundle = FALSE, !.index = FALSE], [Full EXCEPT !.offline = TRUE],
   [Wsl EXCEPT !.target = "disk", !.insecure = TRUE, !.python = TRUE],
   [Wsl EXCEPT !.target = "disk", !.offline = TRUE],
   [Wsl EXCEPT !.family = "fedora"], [Wsl EXCEPT !.family = "fedora", !.offline = TRUE]}

(* The parts that do not move stay in one of their initial states.         *)
DirectoryStill == recipe = Docker
ProgramsStill  == kind = Wsl /\ omits = {} /\ ~refuses

MCInit ==
  /\ part \in {"directory", "programs", "disk"}
  /\ RebuildInit /\ (part # "directory" => DirectoryStill)
  /\ BootstrapInit /\ (part # "programs" => ProgramsStill)
  /\ DiskInit
MCNext ==
  /\ \/ part = "directory" /\ RebuildNext /\ UNCHANGED <<vars, diskVars>>
     \/ part = "programs"  /\ BootstrapNext /\ UNCHANGED <<rebuildVars, diskVars>>
     \/ part = "disk"      /\ DiskNext /\ UNCHANGED <<rebuildVars, vars>>
  /\ UNCHANGED part
MCSpec == MCInit /\ [][MCNext]_<<rebuildVars, vars, diskVars, part>>

TypeOK == RebuildTypeOK /\ BootstrapTypeOK /\ DiskTypeOK
=============================================================================
