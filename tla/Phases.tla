------------------------------- MODULE Phases -------------------------------
(***************************************************************************)
(* The phases of a build: the list a display is given, the reports a       *)
(* build makes of its own steps, and the two parsers that read phases out  *)
(* of mmdebstrap's and mkosi's output (internal/builder/progress.go, and   *)
(* mkosiProgress in mkosi.go).  A display keeps the phases of its list     *)
(* alone (tui/progress.go, apply).                                         *)
(***************************************************************************)
EXTENDS Naturals, Sequences, SequencesExt

(* mmdebstrap's phases in the order of their constants, and the order a    *)
(* phase has among them.                                                   *)
ImagePhases ==
  <<"update-index", "download", "extract", "install-essential", "install-requested",
    "provision", "install-python", "create-tarball">>
Rank(phase) == CHOOSE i \in 1..Len(ImagePhases) : ImagePhases[i] = phase

(* The list of a build: tarball or disk, online or offline, with Python    *)
(* or without, and Fedora's.                                               *)
UbuntuPart(k) ==
  <<"update-index", "download", "extract", "install-essential", "install-requested", "provision">>
  \o (IF k.python THEN <<"install-python">> ELSE <<>>) \o <<"create-tarball">>
LockPhase(k)  == IF k.offline THEN "check-lock" ELSE "write-lock"
TarballPhases(k) ==
  (IF k.offline THEN <<"verify-vendored", "prepare-repository">> ELSE <<>>)
  \o UbuntuPart(k) \o <<LockPhase(k), "place">>
DiskPhases(k) ==
  (IF k.offline THEN <<"verify-vendored", "make-tools-tree", "prepare-repository">>
   ELSE <<"make-tools-tree">>)
  \o UbuntuPart(k) \o <<"assemble-disk", LockPhase(k), "place">>
FedoraPhases(k) ==
  (IF k.offline THEN <<"verify-vendored", "prepare-repository", "make-tools-tree">>
   ELSE <<"make-tools-tree", "download">>)
  \o <<"install-requested", "provision", "create-tarball", LockPhase(k), "place">>
PhasesOf(k) ==
  IF k.family = "fedora" THEN FedoraPhases(k)
  ELSE IF k.target = "disk" THEN DiskPhases(k) ELSE TarballPhases(k)

-----------------------------------------------------------------------------
(* The display's table, and what a report does to it: a phase it does not  *)
(* list is not shown.                                                      *)
Statuses == {"pending", "running", "done"}
EmptyTable(list) == [p \in ToSet(list) |-> "pending"]
Apply(table, phase, status) ==
  IF phase \in DOMAIN table THEN [table EXCEPT ![phase] = status] ELSE table
Started(table, phase)  == Apply(table, phase, "running")
Finished(table, phase) == Apply(table, phase, "done")
FinishedAll(table, phases) == [p \in DOMAIN table |-> IF p \in phases THEN "done" ELSE table[p]]

(* The parser of mmdebstrap's output: the phase it last saw announced and  *)
(* whether that runs.  A phase already passed is ignored; those between    *)
(* that were never announced are reported finished, Python's excepted,     *)
(* which a build may not have at all.                                      *)
NewParser(list) == [current |-> "update-index", running |-> FALSE, table |-> EmptyTable(list)]
FinishCurrent(s) ==
  IF s.running THEN [s EXCEPT !.running = FALSE, !.table = Finished(@, s.current)] ELSE s
BetweenButTheLast(s, phase) ==
  {ImagePhases[i] : i \in (IF s.running THEN Rank(s.current) + 1 ELSE 1)..Rank(phase) - 2}
Between(s, phase) ==
  {ImagePhases[i] : i \in (IF s.running THEN Rank(s.current) + 1 ELSE 1)..Rank(phase) - 1}
Passed(s, phase) == s.running /\ Rank(phase) <= Rank(s.current)
StartPhase(s, phase) ==
  IF Passed(s, phase) THEN s
  ELSE [current |-> phase, running |-> TRUE,
        table |-> Started(FinishedAll(FinishCurrent(s).table, Between(s, phase) \ {"install-python"}), phase)]
HandleLine(s, said) ==
  IF said = "done" THEN FinishCurrent(s)
  ELSE IF said \in ToSet(ImagePhases) THEN StartPhase(s, said) ELSE s

(* The parser of mkosi's: the markers count once the image's build has     *)
(* begun, and a phase that is not later in the build's list is ignored.    *)
After(list, s, phase) ==
  /\ s.current # "over"
  /\ \/ phase = "over"
     \/ \E i \in DOMAIN list :
          list[i] = phase /\ \A j \in DOMAIN list : list[j] = s.current => j < i
Advance(list, s, phase) ==
  IF ~After(list, s, phase) THEN s
  ELSE [current |-> phase, running |-> TRUE,
        table |-> Started(IF s.running \/ s.current # "make-tools-tree"
                          THEN Finished(s.table, s.current) ELSE s.table, phase)]
MkosiLine(list, s, said) ==
  IF s.current = "make-tools-tree" \/ said \notin {"install-requested", "provision", "create-tarball"}
  THEN s ELSE Advance(list, s, said)
=============================================================================
