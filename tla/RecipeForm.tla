----------------------------- MODULE RecipeForm -----------------------------
(***************************************************************************)
(* The form init, edit and capture ask their questions in: full-screen,    *)
(* page by page and back, or plain, line by line.  The family and the      *)
(* target answered decide which questions come after; each way of asking a *)
(* question has a variable of its own.  At the end the answers become a    *)
(* recipe that is validated and, once confirmed, written.                  *)
(*                                                                         *)
(* A page is answered question by question in the code and in any order    *)
(* here.  The notes capture shows first, and passwordless sudo, are left   *)
(* out; the field that searches an index is module Picker.                 *)
(***************************************************************************)
EXTENDS Answers

CONSTANTS
  Originals,   \* bound: recipes edit opens
  Tries,       \* bound: key |-> answers tried besides those there
  Certificates,\* certificate file |-> how many certificates it holds
  Spelled,     \* <<certificate name, number>> |-> the file it is installed as
  MaxAnswers   \* bound: answers given

VARIABLES
  stage,     \* "pages", "summary", or how it ended: "written", "refused",
             \* "declined" or "canceled"
  plain, fixed, \* the interface; the choices the command made already
  initial,   \* the values the form starts from
  original,  \* the recipe edit opened, or Absent
  answers,   \* question |-> the variable its widget writes
  at,        \* the page; in the plain interface, the question
  problems,  \* plain: an answer was not acceptable
  result,    \* the recipe the answers make, once they are asked for
  given,     \* bound: answers given so far
  lastName   \* history: the image name the user gave last, or Absent

(* Edit opens the recipes that validate; the tables of one that has them   *)
(* are records.                                                            *)
IsList(list) == list \in Seq(ToSet(list))
IsRecipe(r) ==
  /\ DOMAIN r = {"name", "distro", "release", "target", "user", "wsl", "disk", "lang",
                 "timezone", "include", "sources", "python", "certificates"}
  /\ IsList(r.include) /\ IsList(r.sources)
  /\ r.wsl = [systemd |-> r.wsl.systemd, defaultUser |-> r.wsl.defaultUser]
  /\ r.disk # Absent =>
       /\ r.disk = [size |-> r.disk.size, formats |-> r.disk.formats]
       /\ IsList(r.disk.formats)
  /\ r.python # Absent =>
       /\ r.python = [include |-> r.python.include, index |-> r.python.index]
       /\ IsList(r.python.include)
  /\ r.certificates # Absent => IsList(r.certificates.include)
ASSUME OriginalsAssumption == \A r \in Originals : IsRecipe(r) /\ Validate(r) = {}

(* A family and a target are some that are; the lists hold anything.       *)
ListKeys == {"packages", "others", "python", "sources", "ppas", "certificates"}
ASSUME TriesAssumption ==
  /\ Tries["distro"] \subseteq Families /\ Tries["target"] \subseteq Targets
  /\ \A key \in ListKeys : \A answer \in Tries[key] : IsList(answer)
ASSUME CertificatesAssumption ==
  /\ \A c \in Accepted["certificate"] : Certificates[c] \in Nat
  /\ MaxAnswers \in Nat

formVars == <<stage, plain, fixed, initial, original, answers, at, problems, result,
              given, lastName>>

-----------------------------------------------------------------------------
(* The questions.                                                          *)

Question(page, key, families, targets) ==
  [page |-> page, key |-> key, families |-> families, targets |-> targets]
Ubuntu == {"ubuntu"}
Fedora == {"fedora"}

Fields == <<
  Question("Image",    "name",         Families, {"wsl"}),
  Question("Image",    "name",         Families, {"disk"}),
  Question("Image",    "distro",       Families, Targets),
  Question("Image",    "release",      Ubuntu,   Targets),
  Question("Image",    "release",      Fedora,   Targets),
  Question("Image",    "target",       Families, Targets),
  Question("User",     "user",         Families, {"wsl"}),
  Question("User",     "user",         Families, {"disk"}),
  Question("System",   "timezone",     Families, Targets),
  Question("System",   "locale",       Families, Targets),
  Question("System",   "systemd",      Families, {"wsl"}),
  Question("Disk",     "size",         Families, {"disk"}),
  Question("Disk",     "qcow2",        Families, {"disk"}),
  Question("Sources",  "sources",      Ubuntu,   Targets),
  Question("Sources",  "ppas",         Ubuntu,   Targets),
  Question("Packages", "packages",     Ubuntu,   Targets),
  Question("Packages", "others",       Ubuntu,   Targets),
  Question("Packages", "python",       Ubuntu,   Targets),
  Question("Packages", "packages",     Fedora,   Targets),
  Question("Packages", "others",       Fedora,   Targets),
  Question("Trust",    "certificates", Ubuntu,   Targets) >>
Pages == <<"Image", "User", "System", "Disk", "Sources", "Packages", "Trust">>

FixedChoices == [family : BOOLEAN, target : BOOLEAN]

AskedFor(question, variant) ==
  variant.family \in question.families /\ variant.target \in question.targets

(* A choice made already is not asked, nor is what another would ask.      *)
FieldsFor(chosen, fix) ==
  {q \in ToSet(Fields) :
     /\ fix.family => q.key # "distro" /\ chosen.family \in q.families
     /\ fix.target => q.key # "target" /\ chosen.target \in q.targets}

OneNameEach(packages) == Repeats(packages) = {}
OneProjectEach(packages) == Repeats(NamedBy(ProjectOf, packages)) = {}

(* A recipe holds one source of a name; the same PPA twice is one.         *)
OnePpaEach(ppas) == \A p, q \in ToSet(ppas) : PpaName[p] = PpaName[q] => p = q

(* What a question's own check lets the user move on with.                 *)
Accepts(question, answer) ==
  LET all(kind) == ToSet(answer) \subseteq Accepted[kind]
  IN  CASE question.key = "name" -> answer \in Accepted["image"]
        [] question.key = "user" -> answer \in Accepted["user"]
        [] question.key = "size" -> answer = "" \/ answer \in Accepted["size"]
        [] question.key = "release" ->
             \E f \in question.families : Builds(f, answer)
        [] question.key = "packages" ->
             \E f \in question.families : ToSet(answer) \subseteq CatalogOf[f]
        [] question.key = "sources" -> ToSet(answer) \subseteq SourceCatalog
        [] question.key = "ppas" -> ToSet(answer) \subseteq Ppas /\ OnePpaEach(answer)
        [] question.key = "others" -> all(IF question.families = Fedora THEN "rpm" ELSE "apt")
        [] question.key = "python" -> all("python") /\ OneProjectEach(answer)
        [] question.key = "certificates" ->
             all("certificate") /\ CertificateFileProblems(Certificates, Spelled, answer) = {}
        [] question.key \in DOMAIN Offered -> answer \in ToSet(Offered[question.key])
        [] OTHER -> TRUE

-----------------------------------------------------------------------------
(* The variables of the widgets, and what they make.                       *)

(* A question of another family starts where switching to it puts it; a    *)
(* full-screen choice, on something its list has.                          *)
Start(question, values) ==
  LET family == CHOOSE f \in question.families : TRUE
      value  == (IF Family(values) \in question.families THEN values
                 ELSE ForFamily(values, family))[question.key]
  IN  IF question.key \in DOMAIN Offered /\ ~plain
      THEN AsOffered(question.key, value) ELSE value

Asked == FieldsFor(VariantOf(initial), fixed)
AnswerTo(key, default) ==
  IF \E q \in DOMAIN answers : q.key = key
  THEN answers[CHOOSE q \in DOMAIN answers : q.key = key] ELSE default
Answered == [family |-> AnswerTo("distro", Family(initial)),
             target |-> AnswerTo("target", Target(initial))]

(* What the widgets of the answered variant hold; the rest as it started.  *)
ValuesOf(variant) ==
  LET asked(key) == {q \in DOMAIN answers : q.key = key /\ AskedFor(q, variant)}
  IN  [key \in DOMAIN initial |->
         IF asked(key) = {} THEN initial[key]
         ELSE answers[CHOOSE q \in asked(key) : TRUE]]
Values == ValuesOf(Answered)

(* The variants the form can be answered for.                              *)
Variants == [family : IF fixed.family THEN {Family(initial)} ELSE Families,
             target : IF fixed.target THEN {Target(initial)} ELSE Targets]

(* A page every variant asks alike, each with questions of its own, is one *)
(* group; otherwise a group per distinct set of questions, shown to the    *)
(* variants that ask it.                                                   *)
OnPage(page) == {q \in Asked : q.page = page}
QuestionsFor(questions, variant) == {q \in questions : AskedFor(q, variant)}
KeysOf(questions) == {q.key : q \in questions}
IsShared(questions) ==
  \A v \in Variants : KeysOf(QuestionsFor(questions, v)) = KeysOf(questions)
Groups(page) ==
  LET whole == OnPage(page)
      asked == [v \in Variants |-> QuestionsFor(whole, v)]
  IN  IF IsShared(whole) THEN {[questions |-> whole, variants |-> Variants]}
      ELSE {[questions |-> asked[v], variants |-> {w \in Variants : asked[w] = asked[v]}] :
              v \in {w \in Variants : asked[w] # {}}}

(* The group shown, of which a question asked in several ways is asked the *)
(* answered variant's.                                                     *)
Shown(page) ==
  {q \in UNION {g.questions : g \in {h \in Groups(page) : Answered \in h.variants}} :
     AskedFor(q, Answered)}

-----------------------------------------------------------------------------

Commands ==
  {[original |-> r, fixed |-> f] :
     r \in Originals, f \in {[family |-> FALSE, target |-> FALSE]}}
  \cup {[original |-> Absent, fixed |-> f] : f \in FixedChoices}

(* init: --distro and --target start the answers where they choose.        *)
InitValues(fix, family, target) ==
  LET chosen == IF fix.family THEN ForFamily(Defaults, family) ELSE Defaults
  IN  IF fix.target THEN [chosen EXCEPT !.target = target] ELSE chosen

FormInit ==
  /\ stage = "pages" /\ at = 1 /\ problems = FALSE /\ result = Absent
  /\ given = 0 /\ lastName = Absent /\ plain \in BOOLEAN
  /\ \E c \in Commands :
       /\ original = c.original
       /\ fixed = IF plain THEN [family |-> TRUE, target |-> TRUE] ELSE c.fixed
       /\ IF c.original # Absent THEN initial = FromRecipe(c.original)
          ELSE \E f \in Families, t \in Targets : initial = InitValues(c.fixed, f, t)
  /\ answers = [q \in FieldsFor(VariantOf(initial), fixed) |-> Start(q, initial)]

Give(question, answer) ==
  /\ given < MaxAnswers /\ given' = given + 1
  /\ answers' = [answers EXCEPT ![question] = answer]
  /\ lastName' = IF question.key = "name" THEN answer ELSE lastName

GiveAnswer ==
  /\ stage = "pages" /\ ~plain
  /\ \E q \in Shown(Pages[at]) : \E a \in Tries[q.key] \ {answers[q]} :
       Accepts(q, a) /\ Give(q, a)
  /\ UNCHANGED <<stage, plain, fixed, initial, original, at, problems, result>>

(* Pages with nothing to ask are skipped; after the last comes the         *)
(* summary, from which there is no way back.                               *)
PagesFrom(from, to) == {p \in from..to : Shown(Pages[p]) # {}}
NextPage ==
  /\ stage = "pages" /\ ~plain
  /\ \A q \in Shown(Pages[at]) : Accepts(q, answers[q])
  /\ LET later == PagesFrom(at + 1, Len(Pages))
     IN  IF later = {} THEN stage' = "summary" /\ at' = at /\ result' = ToRecipe(Values)
         ELSE at' = Min(later) /\ UNCHANGED <<stage, result>>
  /\ UNCHANGED <<plain, fixed, initial, original, answers, problems, given, lastName>>

PreviousPage ==
  /\ stage = "pages" /\ ~plain
  /\ PagesFrom(1, at - 1) # {} /\ at' = Max(PagesFrom(1, at - 1))
  /\ UNCHANGED <<stage, plain, fixed, initial, original, answers, problems, result,
                 given, lastName>>

(* A line answers one question: what is there, or something else.  A line  *)
(* that is not acceptable is a problem, and the questions go on; nothing   *)
(* is written then, so what becomes of the answer no longer matters.       *)
PlainQuestions ==
  Picked(Fields, {n \in DOMAIN Fields : Fields[n] \in Asked /\ AskedFor(Fields[n], Answered)})
AnswerLine ==
  /\ stage = "pages" /\ plain /\ at <= Len(PlainQuestions)
  /\ LET q == PlainQuestions[at]
     IN  \/ /\ UNCHANGED <<answers, given, lastName>>
            /\ problems' = (problems \/ ~Accepts(q, answers[q]))
         \/ \E a \in Tries[q.key] \ {answers[q]} :
              Give(q, a) /\ problems' = (problems \/ ~Accepts(q, a))
  /\ at' = at + 1
  /\ UNCHANGED <<stage, plain, fixed, initial, original, result>>

(* The plain interface validates before it asks whether to write.          *)
LinesEnd ==
  /\ stage = "pages" /\ plain /\ at > Len(PlainQuestions)
  /\ result' = ToRecipe(Values)
  /\ stage' = IF problems \/ Validate(result') # {} THEN "refused" ELSE "summary"
  /\ UNCHANGED <<plain, fixed, initial, original, answers, at, problems, given, lastName>>

(* The full-screen form validates what was confirmed.                      *)
Confirm ==
  /\ stage = "summary"
  /\ stage' = IF Validate(result) = {} THEN "written" ELSE "refused"
  /\ UNCHANGED <<plain, fixed, initial, original, answers, at, problems, result,
                 given, lastName>>

Decline ==
  /\ stage = "summary" /\ stage' = "declined"
  /\ UNCHANGED <<plain, fixed, initial, original, answers, at, problems, result,
                 given, lastName>>

Abort ==
  /\ stage \in {"pages", "summary"} /\ stage' = "canceled"
  /\ UNCHANGED <<plain, fixed, initial, original, answers, at, problems, result,
                 given, lastName>>

FormNext ==
  \/ GiveAnswer \/ NextPage \/ PreviousPage \/ AnswerLine \/ LinesEnd
  \/ Confirm \/ Decline \/ Abort

FormSpec == FormInit /\ [][FormNext]_formVars

-----------------------------------------------------------------------------
(* Properties.                                                             *)

(* The questions each part of the recipe is answered by.                   *)
AnsweredBy ==
  [name |-> {"name"}, distro |-> {}, release |-> {"release"}, target |-> {},
   user |-> {"user"}, wsl |-> {"systemd", "user"}, disk |-> {"size", "qcow2"},
   lang |-> {"locale"}, timezone |-> {"timezone"}, include |-> {"packages", "others"},
   sources |-> {"sources", "ppas", "release"}, python |-> {"python"},
   certificates |-> {"certificates"}]

FormStages == {"pages", "summary", "written", "refused", "declined", "canceled"}

FormTypeOK ==
  /\ stage \in FormStages /\ plain \in BOOLEAN /\ fixed \in FixedChoices
  /\ original \in Originals \cup {Absent}
  /\ DOMAIN answers = Asked /\ at \in 1..(Len(Fields) + 1)
  /\ problems \in BOOLEAN /\ given \in 0..MaxAnswers
  /\ stage = "pages" => result = Absent
  /\ stage \in {"summary", "written", "refused"} => DOMAIN result = DOMAIN AnsweredBy

(* What a recipe says once its defaults are spelled out: the form writes   *)
(* them, a disk's table, a package once, and the certificates no field can *)
(* hold first, and leaves out a table that asks for nothing.               *)
Reading(recipe) ==
  [recipe EXCEPT
     !.lang     = OrDefault(@, "en_US.UTF-8"),
     !.timezone = OrDefault(@, "UTC"),
     !.wsl      = IF TargetOf(recipe) = "disk" THEN @ ELSE [@ EXCEPT !.defaultUser = recipe.user],
     !.disk     = IF TargetOf(recipe) = "disk"
                  THEN [size |-> DiskSize(recipe), formats |-> DiskFormats(recipe)] ELSE @,
     !.include  = FirstOfEach(@, @),
     !.python   = IF PythonPackages(recipe) = <<>> THEN Absent ELSE @,
     !.certificates =
       LET paths == SplitCertificates(CertificatePaths(recipe))
       IN  IF paths[2] \o paths[1] = <<>> THEN Absent ELSE [include |-> paths[2] \o paths[1]]]

(* A full-screen form gives back the locale and the time zone its lists    *)
(* have; the plain one refuses another.                                    *)
GivenBack ==
  IF plain THEN Reading(original)
  ELSE [Reading(original) EXCEPT !.lang     = AsOffered("locale", @),
                                 !.timezone = AsOffered("timezone", @)]

(* Editing a recipe changes only the parts whose answers the user changed, *)
(* whatever pages were passed, whatever the family and the target were in  *)
(* between, and whatever was answered for those: the order of the packages,*)
(* hand-written sources, a hand-edited row, the index URL and the lines a  *)
(* recipe leaves out all stay (FromRecipe, ToRecipe and the merges).  Only *)
(* a locale or time zone no list has gives way (UneditedIsGivenBack).      *)
EditKeepsTheRest ==
  stage = "written" /\ original # Absent /\ Answered = VariantOf(initial) =>
    LET changed(key) == \E q \in DOMAIN answers : /\ q.key = key /\ AskedFor(q, Answered)
                                                  /\ answers[q] # Start(q, initial)
    IN  \A part \in DOMAIN AnsweredBy :
          (\A key \in AnsweredBy[part] : ~changed(key)) =>
             result[part] = GivenBack[part]

(* An edit in which nothing is answered is not refused, and writes back    *)
(* what the recipe says ("writes back an equivalent recipe when nothing is *)
(* changed", docs/superpowers/specs/2026-09-17-frostroot-tui.md:371).      *)
UneditedIsGivenBack ==
  original # Absent /\ given = 0 =>
    stage # "refused" /\ (stage = "written" => result = Reading(original))

(* What was confirmed is written, so that no answer is lost on the summary *)
(* page, from which there is no way back: each question refuses what the   *)
(* recipe could not hold.  Only two combinations get past them, a disk of  *)
(* a release that has none and a certificate an edit carries unseen.       *)
RefusedForACombination ==
  stage = "refused" /\ ~plain =>
    Validate(result) \subseteq
      {<<"no disk of this release">>}
      \cup {<<"certificate", "twice", CertificateName[c]>> : c \in ToSet(initial.originalCertificates)}

(* Switching the target carries every answer across, the image's name      *)
(* among them.                                                             *)
SwitchingCarriesTheName ==
  stage = "written" /\ lastName # Absent => result.name = lastName
=============================================================================
