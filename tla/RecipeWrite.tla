---------------------------- MODULE RecipeWrite ----------------------------
(***************************************************************************)
(* Runs of init, edit and capture in one recipe directory, from the look   *)
(* whether there is a recipe to the last key fetched and, of capture, the  *)
(* report: what each puts in the directory while its form is open and      *)
(* after, any step of which may fail, and what it takes away again.        *)
(*                                                                         *)
(* The form is one step (module RecipeForm is what happens in it), as are  *)
(* the directories made on the way, and the keys: each is fetched whatever *)
(* became of those before it.  The report is whole or not there, and no    *)
(* run reads it, so it is its exit code alone.  A run that is killed stops *)
(* where it is.                                                            *)
(***************************************************************************)
EXTENDS Naturals, FiniteSets

CONSTANTS
  Runs,
  Certs,       \* certificate files beside the recipe
  Captures,    \* the runs of capture
  CapturedBy,  \* run |-> the ones it reads off the machine
  Killable,    \* the runs that may be killed
  Missing

ASSUME WriteAssumption ==
  /\ CapturedBy \in [Runs -> SUBSET Certs] /\ Killable \subseteq Runs
  /\ \A r \in Runs : CapturedBy[r] # {} => r \in Captures
  /\ "person" \notin Runs /\ Missing \notin Runs \cup {"person"}
  /\ Missing \notin [by : Runs \cup {"person"}, whole : BOOLEAN, names : SUBSET Certs]

VARIABLES
  recipeAt,    \* the file at frostroot.toml: who made it, whether it is a
               \* whole recipe, and the certificates it names; or Missing
  certAt,      \* certificate file |-> who made it: a run, "person" or Missing
  run,         \* run |-> its state
  named        \* history: certificates a recipe in place has named

writeVars == <<recipeAt, certAt, run, named>>

NotStarted == [at |-> "start", force |-> FALSE, todo |-> {}, created |-> {}, names |-> {},
               temporary |-> FALSE, wrote |-> FALSE, unnamed |-> {}, exit |-> Missing]
Goes(r, place) == run' = [run EXCEPT ![r].at = place]

WriteInit ==
  /\ recipeAt \in {Missing, [by |-> "person", whole |-> TRUE, names |-> {}]}
  /\ certAt \in [Certs -> {Missing, "person"}]
  /\ \E force \in [Runs -> BOOLEAN] :
       run = [r \in Runs |->
                [NotStarted EXCEPT !.force = force[r], !.todo = CapturedBy[r]]]
  /\ named = {}

(* A run that fails looks which of its certificates the recipe names.      *)
Fails(r, change) ==
  run' = [run EXCEPT ![r] = [change EXCEPT !.at = "cleanup", !.exit = 1]]

LookForRecipe(r) ==
  /\ run[r].at = "start"
  /\ IF recipeAt # Missing /\ ~run[r].force
     THEN run' = [run EXCEPT ![r].at = "ended", ![r].exit = 1]
     ELSE Goes(r, "certificates")
  /\ UNCHANGED <<recipeAt, certAt, named>>

(* A file that is there, whatever it holds, is the person's.               *)
WriteCertificate(r) ==
  /\ run[r].at = "certificates"
  /\ \E c \in run[r].todo :
       IF certAt[c] # Missing
       THEN run' = [run EXCEPT ![r].todo = @ \ {c}] /\ UNCHANGED certAt
       ELSE /\ certAt' = [certAt EXCEPT ![c] = r]
            /\ run' = [run EXCEPT ![r].todo = @ \ {c}, ![r].created = @ \cup {c}]
  /\ UNCHANGED <<recipeAt, named>>

(* One that cannot be created, or written to its end; all created go.      *)
CertificateFails(r) ==
  /\ run[r].at = "certificates"
  /\ \E c \in run[r].todo : certAt[c] = Missing
  /\ certAt' = [c \in Certs |-> IF c \in run[r].created THEN Missing ELSE certAt[c]]
  /\ run' = [run EXCEPT ![r].at = "ended", ![r].exit = 1]
  /\ UNCHANGED <<recipeAt, named>>

(* The Trust page takes the certificates that are there.                   *)
FormConfirmed(r) ==
  /\ run[r].at = "certificates" /\ run[r].todo = {}
  /\ \E names \in SUBSET {c \in Certs : certAt[c] # Missing} :
       run' = [run EXCEPT ![r].at = "write", ![r].names = names]
  /\ UNCHANGED <<recipeAt, certAt, named>>

FormAbandoned(r) ==
  /\ run[r].at = "certificates" /\ run[r].todo = {}
  /\ Fails(r, run[r])
  /\ UNCHANGED <<recipeAt, certAt, named>>

(* The temporary file, read back and compared.                             *)
WriteTemporary(r) ==
  /\ run[r].at = "write"
  /\ \/ run' = [run EXCEPT ![r].at = IF run[r].force THEN "replace" ELSE "claim",
                           ![r].temporary = TRUE]
     \/ Fails(r, run[r])
  /\ UNCHANGED <<recipeAt, certAt, named>>

WholeRecipe(r) == [by |-> r, whole |-> TRUE, names |-> run[r].names]
Empty(r)       == [by |-> r, whole |-> FALSE, names |-> {}]

ClaimUnasked(r) ==
  /\ run[r].at = "claim"
  /\ recipeAt' = Empty(r) /\ Goes(r, "replace")
  /\ UNCHANGED <<certAt, named>>

(* O_EXCL: whether a recipe appeared and the claim of its name in one step.*)
Claim(r) ==
  /\ run[r].at = "claim" /\ recipeAt = Missing
  /\ recipeAt' = Empty(r) /\ Goes(r, "replace")
  /\ UNCHANGED <<certAt, named>>

ClaimFails(r) ==
  /\ run[r].at = "claim" /\ Fails(r, [run[r] EXCEPT !.temporary = FALSE])
  /\ UNCHANGED <<recipeAt, certAt, named>>

(* The rename over whatever is there: a claim, or what --force replaces.   *)
RenameIntoPlace(r) ==
  /\ run[r].at = "replace"
  /\ recipeAt' = WholeRecipe(r) /\ named' = named \cup run[r].names
  /\ run' = [run EXCEPT ![r].at = "keys", ![r].temporary = FALSE]
  /\ UNCHANGED certAt

RenameFailsKeepsClaim(r) ==
  /\ run[r].at = "replace"
  /\ Fails(r, [run[r] EXCEPT !.temporary = FALSE])
  /\ UNCHANGED <<recipeAt, certAt, named>>

(* The claim is taken back, by its name.                                   *)
RenameFails(r) ==
  /\ run[r].at = "replace"
  /\ recipeAt' = IF run[r].force THEN recipeAt ELSE Missing
  /\ Fails(r, [run[r] EXCEPT !.temporary = FALSE])
  /\ UNCHANGED <<certAt, named>>

(* The last of the form: with it the run has written its recipe.           *)
FetchKeys(r) ==
  /\ run[r].at = "keys"
  /\ \/ /\ r \in Captures
        /\ run' = [run EXCEPT ![r].at = "report", ![r].wrote = TRUE]
     \/ /\ r \notin Captures
        /\ run' = [run EXCEPT ![r].at = "ended", ![r].wrote = TRUE, ![r].exit = 0]
     \/ Fails(r, run[r])
  /\ UNCHANGED <<recipeAt, certAt, named>>

(* A report that cannot be written fails the run, which takes nothing away.*)
WriteReport(r) ==
  /\ run[r].at = "report"
  /\ \E code \in {0, 1} : run' = [run EXCEPT ![r].at = "ended", ![r].exit = code]
  /\ UNCHANGED <<recipeAt, certAt, named>>

(* certificatesNotNamedBy: all of them when no recipe loads.               *)
ReadNames(r) ==
  /\ run[r].at = "cleanup"
  /\ LET stay == IF recipeAt # Missing /\ recipeAt.whole THEN recipeAt.names ELSE {}
     IN  run' = [run EXCEPT ![r].at = "remove", ![r].unnamed = run[r].created \ stay]
  /\ UNCHANGED <<recipeAt, certAt, named>>

RemoveUnnamed(r) ==
  /\ run[r].at = "remove"
  /\ certAt' = [c \in Certs |-> IF c \in run[r].unnamed THEN Missing ELSE certAt[c]]
  /\ Goes(r, "ended")
  /\ UNCHANGED <<recipeAt, named>>

Kill(r) ==
  /\ r \in Killable /\ run[r].at \notin {"start", "ended", "killed"}
  /\ Goes(r, "killed")
  /\ UNCHANGED <<recipeAt, certAt, named>>

WriteNext ==
  \E r \in Runs :
    \/ LookForRecipe(r) \/ WriteCertificate(r) \/ CertificateFails(r)
    \/ FormConfirmed(r) \/ FormAbandoned(r) \/ WriteTemporary(r)
    \/ Claim(r) \/ ClaimFails(r)
    \/ RenameIntoPlace(r) \/ RenameFails(r) \/ FetchKeys(r) \/ WriteReport(r)
    \/ ReadNames(r) \/ RemoveUnnamed(r) \/ Kill(r)
WriteSpec == WriteInit /\ [][WriteNext]_writeVars

-----------------------------------------------------------------------------
(* Properties.                                                             *)

Places == {"start", "certificates", "write", "claim", "replace", "keys", "report",
           "cleanup", "remove", "ended", "killed"}

WriteTypeOK ==
  /\ recipeAt # Missing => recipeAt.by \in Runs \cup {"person"}
  /\ certAt \in [Certs -> Runs \cup {Missing, "person"}]
  /\ \A r \in Runs :
       /\ run[r].at \in Places /\ run[r].exit \in {Missing, 0, 1}
       /\ run[r].created \subseteq CapturedBy[r] /\ run[r].unnamed \subseteq run[r].created
  /\ named \subseteq Certs

(* A recipe that appeared while the form was open is left alone: without   *)
(* --force a run puts its own where there was none, or where a run with    *)
(* --force has replaced the claim it made (writeRecipe).                   *)
UnforcedReplacesNothing ==
  [][\A r \in Runs :
       /\ run[r].at = "replace" /\ recipeAt' # recipeAt /\ recipeAt' # Missing
       /\ recipeAt'.by = r /\ ~run[r].force
       => \/ recipeAt = Missing \/ recipeAt.by = r
          \/ recipeAt.by \in Runs /\ run[recipeAt.by].force]_writeVars

(* A run that failed leaves neither a temporary file nor its claim, and of *)
(* the certificates it made only those some recipe in place has named: a   *)
(* recipe it wrote before a key failed, or another's.  Only a capture that *)
(* wrote its recipe, keys and all, and then not its report leaves all it   *)
(* made, as one that succeeds does (runCapture).                           *)
FailedRunLeavesNothing ==
  \A r \in Runs :
    run[r].at = "ended" /\ run[r].exit = 1 =>
      /\ ~run[r].temporary
      /\ recipeAt # Missing /\ recipeAt.by = r => recipeAt.whole
      /\ IF run[r].wrote THEN r \in Captures /\ run[r].names \subseteq named
         ELSE \A c \in Certs : certAt[c] = r => c \in named
=============================================================================
