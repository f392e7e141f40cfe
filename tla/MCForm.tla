------------------------------- MODULE MCForm -------------------------------
(***************************************************************************)
(* The recipe form on small instances: the field that searches an index,   *)
(* the questions and what becomes of the answers, and the runs that write  *)
(* recipes in one directory.  The three share no state; a behavior is of   *)
(* one of them.                                                            *)
(***************************************************************************)
EXTENDS Picker, RecipeForm, RecipeWrite

VARIABLE part  \* the one that moves

(* The index: Ubuntu's archive, one further source, and PyPI.              *)
MCNames == {"a", "b", "x"}
MCTexts == {"", "a", "b", "x", "part"}
MCOrder == <<"a", "b", "x">>
MCHolds == [r \in Repos |-> IF r = "noble" THEN {"a"} ELSE IF r = "docker" THEN {"b"} ELSE {"a", "b"}]
MCSectionOf == [n \in MCNames |-> IF n = "a" THEN "devel" ELSE None]
MCSpelling == [n \in MCNames |-> IF n = "x" THEN "a" ELSE n]
MCFolded == [n \in MCNames |-> n]
MCLists  == {<<"b", "part">>}
MCStarts == {<<"x">>}
MCMatches(name, q) == q \in {"", "part"} \/ name = q
MCRequests ==
  {[release |-> "24.04", archive |-> "noble", sources |-> <<>>],
   [release |-> "24.04", archive |-> "noble", sources |-> <<"docker">>],
   [release |-> "24.04", archive |-> "pypi", sources |-> <<>>]}
MCCaches ==
  {[r \in Repos |-> IF r = "noble" THEN "old" ELSE "none"],
   [r \in Repos |-> IF r = "docker" THEN "old" ELSE "fresh"]}

(* The questions: recipes of each family and target, one release without   *)
(* disks, rows of the catalog edited and not, two PPAs of one name, a      *)
(* certificate no field can show, a locale and a time zone no list has.    *)
MCPaths == {"corp.pem", "my corp.pem", "certs/corp.pem"}
MCPpas == {"a-b/c", "a/b-c"}
MCPpaName == [p \in MCPpas |-> "ppa-a"]
MCPpaOf == [own \in MCPpas |-> own]
MCOffered == [locale |-> <<"en_US.UTF-8", "C.UTF-8">>, timezone |-> <<"UTC", "Europe/Rome">>]
MCAccepted ==
  [image |-> {"lab", "pc", "ws"}, user |-> {"student", "ada"}, 
   lang |-> {"en_US.UTF-8", "C.UTF-8", "sv_SE.UTF-8"},
   timezone |-> {"UTC", "Europe/Rome", "Etc/UTC"}, apt |-> {"git", "zsh", "cmake"},
   rpm |-> {"git", "zsh", "golang", "Xorg", "cmake"}, python |-> {"Flask", "flask", "rich"},
   index |-> {"mirror"}, certificate |-> MCPaths, size |-> {"16G"}, format |-> {"qcow2"},
   source |-> [name : {"docker", "llvm", "ppa-a", "hand"}, own : {Absent, "edited", "elsewhere"} \cup MCPpas]]
Version(family, suite, disks) == [family |-> family, suite |-> suite, disks |-> disks]
MCReleases == "22.04" :> Version("ubuntu", "jammy", FALSE)
              @@ "26.04" :> Version("ubuntu", "resolute", TRUE)
              @@ "44" :> Version("fedora", "", FALSE)
MCNewest == [ubuntu |-> "26.04", fedora |-> "44"]
MCProjectOf == [p \in {"Flask", "flask", "rich"} |-> IF p = "Flask" THEN "flask" ELSE p]
MCCertificateName == [c \in MCPaths |-> "corp"]
MCCatalogOf == [ubuntu |-> {"git", "cmake"}, fedora |-> {"git", "golang"}]
MCCertificates == [c \in MCPaths |-> 1]
MCSpelled == [x \in {<<"corp", 1>>} |-> x]
Row3(name, suite, own) == [name |-> name, suite |-> suite, own |-> own]
Base ==
  [name |-> "ws", distro |-> "", release |-> "26.04", target |-> "", user |-> "ada",
   wsl |-> [systemd |-> TRUE, defaultUser |-> "ada"], disk |-> Absent, lang |-> "",
   timezone |-> "Europe/Rome", include |-> <<"zsh", "git", "zsh">>,
   sources |-> <<Row3("hand", Absent, "elsewhere"), Row3("llvm", "resolute", Absent),
                 Row3("ppa-a", Absent, "a-b/c")>>,
   python |-> [include |-> <<"rich">>, index |-> "mirror"],
   certificates |-> [include |-> <<"corp.pem">>]]
MCOriginals ==
  {Base,
   [Base EXCEPT !.release = "22.04", !.distro = "ubuntu", !.lang = "sv_SE.UTF-8",
                !.certificates = [include |-> <<"my corp.pem">>],
                !.sources = <<Row3("llvm", "jammy", "edited")>>,
                !.python = [include |-> <<>>, index |-> ""]],
   [Base EXCEPT !.target = "disk", !.disk = [size |-> "16G", formats |-> <<"qcow2">>],
                !.wsl = NoWSL, !.python = Absent, !.timezone = "Etc/UTC"],
   [Base EXCEPT !.distro = "fedora", !.release = "44", !.sources = <<>>, !.python = Absent,
                !.certificates = Absent, !.include = <<"Xorg", "golang", "git">>]}
MCTries ==
  [name |-> {"pc", "/"}, distro |-> Families, release |-> {"22.04"}, target |-> Targets,
   user |-> {"student", "root"}, timezone |-> {"Etc/UTC"}, locale |-> {"C.UTF-8"}, systemd |-> {FALSE},
   size |-> {""}, qcow2 |-> {FALSE}, sources |-> {<<>>, <<"docker", "llvm">>},
   ppas |-> {<<>>, <<"a/b-c">>, <<"a-b/c", "a/b-c">>}, packages |-> {<<"cmake">>, <<"golang">>},
   others |-> {<<>>, <<"Xorg">>}, python |-> {<<>>, <<"Flask", "flask">>},
   certificates |-> {<<>>, <<"certs/corp.pem">>}]

MCCapturedBy == [r \in Runs |-> IF r \in Captures THEN Certs ELSE {}]

(* The parts that do not move stay in one of their initial states.         *)
PickerStill ==
  request = [release |-> "24.04", archive |-> "noble", sources |-> <<>>]
  /\ ~refresh /\ cache["noble"] = "old"
QuestionsStill == original = Absent /\ ~plain /\ fixed = [family |-> FALSE, target |-> FALSE]
DirectoryStill ==
  recipeAt = Missing /\ certAt = [c \in Certs |-> Missing] /\ \A r \in Runs : ~run[r].force

MCInit ==
  /\ part \in {"picker", "questions", "directory"}
  /\ IndexesInit /\ PickerInit /\ (part # "picker" => PickerStill)
  /\ (refresh => cache["noble"] = "fresh")  \* with nothing fresh it is no different
  /\ FormInit /\ (part # "questions" => QuestionsStill)
  /\ WriteInit /\ (part # "directory" => DirectoryStill)
MCNext ==
  /\ \/ part = "picker"    /\ PickerNext /\ UNCHANGED <<formVars, writeVars>>
     \/ part = "questions" /\ FormNext /\ UNCHANGED <<vars, writeVars>>
     \/ part = "directory" /\ WriteNext /\ UNCHANGED <<vars, formVars>>
  /\ UNCHANGED part
MCSpec == MCInit /\ [][MCNext]_<<vars, formVars, writeVars, part>>

(* The field, the questions and the runs each keep their types; the parts  *)
(* that stand still are looked at where they move.                         *)
TypeOK ==
  CASE part = "picker" -> PickerTypeOK
    [] part = "questions" -> FormTypeOK
    [] part = "directory" -> WriteTypeOK

(* Which of its openings the field uses makes no difference.               *)
Symmetry == Permutations(Loads)
=============================================================================
