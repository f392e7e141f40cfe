-------------------------- MODULE BootstrapProofs --------------------------
(***************************************************************************)
(* What a build's programs come to, for every kind of build, any pipe and  *)
(* any announcement a newer mmdebstrap leaves out: the verdict is what     *)
(* happened (VerdictIsTrueHolds), what is placed holds nothing of the host *)
(* or of the build and all its recipe promises (PlacedIsCleanHolds), and   *)
(* the phases of its display go forward (PhasesGoForwardHolds).            *)
(*                                                                         *)
(* A program is a list of steps, each with what it takes, needs, writes,   *)
(* gives and says; the list is put together from the kind of build.  A     *)
(* list carries a set of states to another (Carries) when there is a walk: *)
(* a state before each of its steps in which that step finds what it       *)
(* needs, and leaves the next.  The parts of a program carry one another,  *)
(* and so the programs of a plan (ProgramsLead).  The inductive invariant  *)
(* BootInv is that a build stands where the walk of its program does.      *)
(* DisplayInv adds how far its display has come: what its program has said *)
(* is heard, on its way in the pipe in its order, or left out.             *)
(***************************************************************************)
EXTENDS Bootstrap, SequenceTheorems, TLAPS

-----------------------------------------------------------------------------
(* A build's work files, and what its programs announce.                   *)
WorkFiles ==
  {"tools-lists", "tools-status", "pip-report", "pip-pin-report", "pip-list", "lists", "marks",
   "dpkg-status", "tarball", "root", "esp", "boot-files", "filled-esp", "disk", "table",
   "esp-placed", "disk-image", "tools-record", "installed", "locations", "tar", "index"}
Sayings ==
  {"nothing", "update-index", "download", "extract", "install-essential", "install-requested",
   "provision", "install-python", "create-tarball", "done"}
States == [image : [ImageFiles -> Contents], given : SUBSET WorkFiles, said : SUBSET Sayings]

(* The order of the announcements of the image's program, and the phases   *)
(* of all kinds of build.                                                  *)
Ord(k, p) ==
  IF p = "verify-vendored" THEN 1
  ELSE IF p = "make-tools-tree" THEN (IF Fedora(k) THEN 3 ELSE 2)
  ELSE IF p = "prepare-repository" THEN (IF Fedora(k) THEN 2 ELSE 3)
  ELSE IF p = "update-index" THEN 4
  ELSE IF p = "download" THEN 5
  ELSE IF p = "extract" THEN 6
  ELSE IF p = "install-essential" THEN 7
  ELSE IF p = "install-requested" THEN 8
  ELSE IF p = "provision" THEN 9
  ELSE IF p = "install-python" THEN 10
  ELSE IF p = "create-tarball" THEN 11
  ELSE IF p \in {"done", "assemble-disk", "over"} THEN 12
  ELSE IF p \in {"write-lock", "check-lock"} THEN 13
  ELSE 14
Announced(k) ==
  IF Fedora(k) THEN {"install-requested", "provision", "create-tarball"}
  ELSE {"update-index", "download", "extract", "install-essential", "install-requested",
        "provision", "create-tarball", "done"}
       \cup (IF k.python THEN {"install-python"} ELSE {})

Earlier(k, says) == {q \in Announced(k) : Ord(k, q) < Ord(k, says)}
Speaks(k, says, u) ==
  \/ says = "nothing"
  \/ says \in Announced(k) /\ "done" \notin u /\ Earlier(k, says) \subseteq u
Fits(k, ship, step, s) ==
  /\ step.takes \subseteq s.given
  /\ \A p \in DOMAIN step.needs : s.image[p] = step.needs[p]
  /\ ship => Speaks(k, step.says, s.said)
Taken(ship, step, s) ==
  [image |-> IF ship THEN Onto(step.writes, s.image) ELSE s.image,
   given |-> s.given \cup step.gives, said |-> s.said \cup {step.says}]
Labels(k, ship, steps, l) ==
  /\ l \in [1..Len(steps) + 1 -> States]
  /\ \A i \in 1..Len(steps) : Fits(k, ship, steps[i], l[i]) /\ l[i + 1] = Taken(ship, steps[i], l[i])
Listed(steps) == \E S : steps \in Seq(S)
Carries(k, ship, steps, P, Q) ==
  /\ Listed(steps)
  /\ \A a \in P : \E l : Labels(k, ship, steps, l) /\ l[1] = a /\ l[Len(steps) + 1] \in Q

LEMMA ListedConcat ==
  ASSUME NEW A, NEW B, Listed(A), Listed(B)
  PROVE  /\ Listed(A \o B) /\ Len(A \o B) = Len(A) + Len(B)
         /\ \A i \in 1..Len(A) : (A \o B)[i] = A[i]
         /\ \A i \in 1..Len(B) : (A \o B)[Len(A) + i] = B[i]
         /\ Len(A) \in Nat /\ Len(B) \in Nat
<1>1. PICK S : A \in Seq(S) BY DEF Listed
<1>2. PICK T : B \in Seq(T) BY DEF Listed
<1>3. A \in Seq(S \cup T) /\ B \in Seq(S \cup T) BY <1>1, <1>2
<1>4. A \o B \in Seq(S \cup T) BY <1>3
<1> QED BY <1>3, <1>4 DEF Listed

LEMMA CarriesConcat ==
  ASSUME NEW k, NEW ship \in BOOLEAN, NEW A, NEW B, NEW P, NEW Q, NEW R,
         Carries(k, ship, A, P, Q), Carries(k, ship, B, Q, R)
  PROVE  Carries(k, ship, A \o B, P, R)
<1>1. Listed(A) /\ Listed(B) BY DEF Carries
<1>2. /\ Listed(A \o B) /\ Len(A \o B) = Len(A) + Len(B) /\ Len(A) \in Nat /\ Len(B) \in Nat
      /\ \A i \in 1..Len(A) : (A \o B)[i] = A[i]
      /\ \A i \in 1..Len(B) : (A \o B)[Len(A) + i] = B[i]
  BY <1>1, ListedConcat
<1>3. ASSUME NEW a \in P
      PROVE  \E l : Labels(k, ship, A \o B, l) /\ l[1] = a /\ l[Len(A \o B) + 1] \in R
  <2>1. PICK f : Labels(k, ship, A, f) /\ f[1] = a /\ f[Len(A) + 1] \in Q BY <1>3 DEF Carries
  <2>2. PICK g : Labels(k, ship, B, g) /\ g[1] = f[Len(A) + 1] /\ g[Len(B) + 1] \in R
    BY <2>1 DEF Carries
  <2> DEFINE l == [i \in 1..Len(A) + Len(B) + 1 |-> IF i <= Len(A) THEN f[i] ELSE g[i - Len(A)]]
  <2>3. l \in [1..Len(A) + Len(B) + 1 -> States]
    BY <1>2, <2>1, <2>2 DEF Labels
  <2>4. \A i \in 1..Len(A) + 1 : l[i] = f[i] BY <1>2, <2>2
  <2>5. \A i \in 1..Len(B) + 1 : l[Len(A) + i] = g[i] BY <1>2
  <2> HIDE DEF l
  <2>6. ASSUME NEW i \in 1..Len(A) + Len(B)
        PROVE  Fits(k, ship, (A \o B)[i], l[i]) /\ l[i + 1] = Taken(ship, (A \o B)[i], l[i])
    <3>1. CASE i <= Len(A)
      <4>1. i \in 1..Len(A) /\ i \in 1..Len(A) + 1 /\ i + 1 \in 1..Len(A) + 1 BY <1>2, <3>1
      <4>2. l[i] = f[i] /\ l[i + 1] = f[i + 1] /\ (A \o B)[i] = A[i] BY <4>1, <2>4, <1>2
      <4> QED BY <4>1, <4>2, <2>1 DEF Labels
    <3>2. CASE ~(i <= Len(A))
      <4> DEFINE j == i - Len(A)
      <4>1. j \in 1..Len(B) /\ j \in 1..Len(B) + 1 /\ j + 1 \in 1..Len(B) + 1 /\ i = Len(A) + j
            /\ i + 1 = Len(A) + (j + 1)
        BY <1>2, <3>2
      <4> HIDE DEF j
      <4>2. l[i] = g[j] /\ l[i + 1] = g[j + 1] /\ (A \o B)[i] = B[j] BY <4>1, <2>5, <1>2
      <4> QED BY <4>1, <4>2, <2>2 DEF Labels
    <3> QED BY <3>1, <3>2
  <2>7. Labels(k, ship, A \o B, l) BY <2>3, <2>6, <1>2 DEF Labels
  <2>8. l[1] = a BY <2>4, <2>1, <1>2
  <2>9. l[Len(A \o B) + 1] \in R
    <3>1. Len(A \o B) + 1 = Len(A) + (Len(B) + 1) /\ Len(B) + 1 \in 1..Len(B) + 1 BY <1>2
    <3> QED BY <3>1, <2>5, <2>2
  <2> QED BY <2>7, <2>8, <2>9
<1> QED BY <1>2, <1>3 DEF Carries

LEMMA TwoSteps == ASSUME NEW a, NEW b PROVE <<a, b>> = <<a>> \o <<b>>
<1>1. <<a>> \in Seq({a, b}) /\ <<b>> \in Seq({a, b}) /\ <<a, b>> \in Seq({a, b}) OBVIOUS
<1>2. Len(<<a>>) = 1 /\ Len(<<b>>) = 1 /\ Len(<<a, b>>) = 2 OBVIOUS
<1>3. Len(<<a>> \o <<b>>) = 2 BY <1>1, <1>2
<1>4. (<<a>> \o <<b>>)[1] = a /\ (<<a>> \o <<b>>)[2] = b BY <1>1, <1>2
<1>5. <<a>> \o <<b>> \in Seq({a, b}) BY <1>1
<1>6. <<a, b>>[1] = a /\ <<a, b>>[2] = b OBVIOUS
<1>7. \A i \in 1..2 : i = 1 \/ i = 2 OBVIOUS
<1> QED BY <1>1, <1>2, <1>3, <1>4, <1>5, <1>6, <1>7, SeqEqual

LEMMA CarriesNothing ==
  ASSUME NEW k, NEW ship \in BOOLEAN, NEW P \in SUBSET States, NEW Q, P \subseteq Q
  PROVE  Carries(k, ship, <<>>, P, Q)
<1>1. Listed(<<>>) /\ Len(<<>>) = 0
  <2>1. <<>> \in Seq({}) OBVIOUS
  <2> QED BY <2>1 DEF Listed
<1>2. ASSUME NEW a \in P
      PROVE \E l : Labels(k, ship, <<>>, l) /\ l[1] = a /\ l[Len(<<>>) + 1] \in Q
  <2> DEFINE l == [i \in 1..1 |-> a]
  <2>1. Labels(k, ship, <<>>, l) /\ l[1] = a BY <1>1 DEF Labels
  <2> QED BY <2>1, <1>1
<1> QED BY <1>1, <1>2 DEF Carries

LEMMA CarriesWhen ==
  ASSUME NEW k, NEW ship \in BOOLEAN, NEW c \in BOOLEAN, NEW steps, NEW P \in SUBSET States, NEW Q,
         c => Carries(k, ship, steps, P, Q), ~c => P \subseteq Q
  PROVE  Carries(k, ship, When(c, steps), P, Q)
BY CarriesNothing DEF When

LEMMA CarriesOne ==
  ASSUME NEW k, NEW ship \in BOOLEAN, NEW step, NEW P \in SUBSET States, NEW Q \in SUBSET States,
         \A a \in P : Fits(k, ship, step, a) /\ Taken(ship, step, a) \in Q
  PROVE  Carries(k, ship, <<step>>, P, Q)
<1>1. Listed(<<step>>) /\ Len(<<step>>) = 1 /\ <<step>>[1] = step
  <2>1. <<step>> \in Seq({step}) OBVIOUS
  <2> QED BY <2>1 DEF Listed
<1>2. ASSUME NEW a \in P
      PROVE \E l : Labels(k, ship, <<step>>, l) /\ l[1] = a /\ l[Len(<<step>>) + 1] \in Q
  <2> DEFINE l == [i \in 1..2 |-> IF i = 1 THEN a ELSE Taken(ship, step, a)]
  <2>1. l[1] = a /\ l[2] = Taken(ship, step, a) OBVIOUS
  <2>2. l \in [1..2 -> States] OBVIOUS
  <2> HIDE DEF l
  <2>3. \A i \in 1..1 : i = 1 OBVIOUS
  <2>4. Labels(k, ship, <<step>>, l) BY <1>1, <2>1, <2>2, <2>3 DEF Labels
  <2> QED BY <2>1, <2>4, <1>1
<1> QED BY <1>1, <1>2 DEF Carries

-----------------------------------------------------------------------------
(* Points of the image's program: which files are the build's, the host's, *)
(* the recipe's and the archive's (all others are none of the first two),  *)
(* which work files there are, and what has been said.                     *)
At(b, h, r, a, g, u) ==
  [build |-> b, host |-> h, recipe |-> r, archive |-> a, given |-> g, said |-> u]
Stood(x) ==
  {s \in States :
     /\ \A p \in ImageFiles :
          /\ p \in x.build => s.image[p] = "build"
          /\ p \in x.host => s.image[p] = "host"
          /\ p \in x.recipe => s.image[p] = "recipe"
          /\ p \in x.archive => s.image[p] = "archive"
          /\ p \notin x.build /\ p \notin x.host => s.image[p] \notin {"build", "host"}
     /\ x.given \subseteq s.given /\ x.said \subseteq s.said /\ "done" \notin s.said}

Needed(needs, x) ==
  \A p \in DOMAIN needs : p \in ImageFiles /\
    \/ needs[p] = "build" /\ p \in x.build
    \/ needs[p] = "host" /\ p \in x.host
    \/ needs[p] = "recipe" /\ p \in x.recipe
    \/ needs[p] = "archive" /\ p \in x.archive
Written(writes, x, y) ==
  /\ DOMAIN writes \subseteq ImageFiles
  /\ \A p \in DOMAIN writes :
       /\ writes[p] \in Contents
       /\ p \in y.build => writes[p] = "build"
       /\ p \in y.host => writes[p] = "host"
       /\ p \in y.recipe => writes[p] = "recipe"
       /\ p \in y.archive => writes[p] = "archive"
       /\ p \notin y.build /\ p \notin y.host => writes[p] \notin {"build", "host"}
  /\ \A p \in ImageFiles : p \notin DOMAIN writes =>
       /\ p \in y.build => p \in x.build
       /\ p \in y.host => p \in x.host
       /\ p \in y.recipe => p \in x.recipe
       /\ p \in y.archive => p \in x.archive
       /\ p \in x.build \/ p \in x.host => p \in y.build \/ p \in y.host

LEMMA WrittenNothing ==
  ASSUME NEW x, NEW y, x.build = y.build, x.host = y.host, x.recipe = y.recipe, x.archive = y.archive
  PROVE  Written(<<>>, x, y)
BY DEF Written

Spoken(k, says, u) == says = "nothing" \/ (says \in Announced(k) \ {"done"} /\ Earlier(k, says) \subseteq u)

LEMMA StepLeads ==
  ASSUME NEW k, NEW says \in Sayings, NEW takes, NEW needs, NEW writes, NEW gives \in SUBSET WorkFiles,
         NEW x, NEW y,
         takes \subseteq x.given, Needed(needs, x), Written(writes, x, y), Spoken(k, says, x.said),
         y.given \subseteq x.given \cup gives, y.said \subseteq x.said \cup {says}
  PROVE  Carries(k, TRUE, <<Do(says, takes, needs, writes, gives)>>, Stood(x), Stood(y))
<1> DEFINE d == Do(says, takes, needs, writes, gives)
<1>1. d.says = says /\ d.takes = takes /\ d.needs = needs /\ d.writes = writes /\ d.gives = gives
  BY DEF Do
<1> HIDE DEF d
<1>2. ASSUME NEW s \in Stood(x) PROVE Fits(k, TRUE, d, s) /\ Taken(TRUE, d, s) \in Stood(y)
  <2>0. s \in States /\ x.given \subseteq s.given /\ x.said \subseteq s.said /\ "done" \notin s.said
    BY <1>2 DEF Stood
  <2>1. \A p \in DOMAIN needs : s.image[p] = needs[p] /\ p \in ImageFiles
    BY <1>2 DEF Stood, Needed
  <2>2. Speaks(k, says, s.said) BY <2>0 DEF Speaks, Spoken
  <2>3. Fits(k, TRUE, d, s) BY <1>1, <2>0, <2>1, <2>2 DEF Fits
  <2> DEFINE t == Taken(TRUE, d, s)
  <2>4. t.image = Onto(writes, s.image) /\ t.given = s.given \cup gives /\ t.said = s.said \cup {says}
    BY <1>1 DEF Taken
  <2>5. /\ s.image \in [ImageFiles -> Contents]
        /\ t.image = [p \in ImageFiles |-> IF p \in DOMAIN writes THEN writes[p] ELSE s.image[p]]
    BY <2>0, <2>4 DEF States, Onto, Written
  <2>6. t \in States
    <3>1. t.image \in [ImageFiles -> Contents] BY <2>5 DEF Written
    <3>2. t.given \in SUBSET WorkFiles /\ t.said \in SUBSET Sayings BY <2>0, <2>4 DEF States
    <3> QED BY <3>1, <3>2 DEF States, Taken
  <2> HIDE DEF t
  <2>7. ASSUME NEW p \in ImageFiles
        PROVE  /\ p \in y.build => t.image[p] = "build"
               /\ p \in y.host => t.image[p] = "host"
               /\ p \in y.recipe => t.image[p] = "recipe"
               /\ p \in y.archive => t.image[p] = "archive"
               /\ p \notin y.build /\ p \notin y.host => t.image[p] \notin {"build", "host"}
    <3>1. CASE p \in DOMAIN writes BY <3>1, <2>5 DEF Written
    <3>2. CASE p \notin DOMAIN writes BY <3>2, <2>5, <1>2 DEF Written, Stood
    <3> QED BY <3>1, <3>2
  <2>8. says # "done" BY DEF Spoken
  <2> QED BY <2>0, <2>3, <2>4, <2>6, <2>7, <2>8 DEF Stood, t
<1>3. Stood(x) \in SUBSET States /\ Stood(y) \in SUBSET States BY DEF Stood
<1> QED BY <1>2, <1>3, CarriesOne DEF d

-----------------------------------------------------------------------------
UbuntuKinds == {k \in AllKinds : ~Fedora(k)}
Basics == {"update-index", "download", "extract", "install-essential", "install-requested"}

LEMMA KindFields ==
  ASSUME NEW k \in AllKinds
  PROVE  /\ k.family \in {"ubuntu", "fedora"} /\ k.target \in {"wsl", "disk"}
         /\ k.offline \in BOOLEAN /\ k.python \in BOOLEAN /\ k.index \in BOOLEAN
         /\ k.certificates \in BOOLEAN /\ k.keys \in BOOLEAN /\ k.bundle \in BOOLEAN
         /\ k.insecure \in BOOLEAN /\ k.sudo \in BOOLEAN
         /\ Fedora(k) \in BOOLEAN /\ Disk(k) \in BOOLEAN /\ AptTrusts(k) \in BOOLEAN
BY DEF AllKinds, Fedora, Disk, AptTrusts

LEMMA EarlierPhases ==
  ASSUME NEW k \in UbuntuKinds
  PROVE  /\ Earlier(k, "update-index") = {}
         /\ Earlier(k, "download") = {"update-index"}
         /\ Earlier(k, "extract") = {"update-index", "download"}
         /\ Earlier(k, "install-essential") = {"update-index", "download", "extract"}
         /\ Earlier(k, "install-requested") = {"update-index", "download", "extract", "install-essential"}
         /\ Earlier(k, "provision") = Basics
         /\ Earlier(k, "install-python") = Basics \cup {"provision"}
         /\ Earlier(k, "create-tarball")
              = Basics \cup {"provision"} \cup (IF k.python THEN {"install-python"} ELSE {})
         /\ Earlier(k, "done") = Announced(k) \ {"done"}
         /\ Basics \cup {"provision", "create-tarball"} \subseteq Announced(k)
         /\ k.python => "install-python" \in Announced(k)
<1>1. ~Fedora(k) /\ k.python \in BOOLEAN BY KindFields DEF UbuntuKinds
<1>2. Announced(k) = Basics \cup {"provision", "create-tarball", "done"}
                     \cup (IF k.python THEN {"install-python"} ELSE {})
  BY <1>1 DEF Announced, Basics
<1>3. /\ Ord(k, "update-index") = 4 /\ Ord(k, "download") = 5 /\ Ord(k, "extract") = 6
      /\ Ord(k, "install-essential") = 7 /\ Ord(k, "install-requested") = 8 /\ Ord(k, "provision") = 9
      /\ Ord(k, "install-python") = 10 /\ Ord(k, "create-tarball") = 11 /\ Ord(k, "done") = 12
  BY DEF Ord
<1> HIDE DEF Ord
<1>4. \A q \in Announced(k) :
        \/ q = "update-index" /\ Ord(k, q) = 4
        \/ q = "download" /\ Ord(k, q) = 5
        \/ q = "extract" /\ Ord(k, q) = 6
        \/ q = "install-essential" /\ Ord(k, q) = 7
        \/ q = "install-requested" /\ Ord(k, q) = 8
        \/ q = "provision" /\ Ord(k, q) = 9
        \/ q = "install-python" /\ Ord(k, q) = 10 /\ k.python
        \/ q = "create-tarball" /\ Ord(k, q) = 11
        \/ q = "done" /\ Ord(k, q) = 12
  BY <1>2, <1>3 DEF Basics
<1>5. /\ "update-index" \in Announced(k) /\ "download" \in Announced(k) /\ "extract" \in Announced(k)
      /\ "install-essential" \in Announced(k) /\ "install-requested" \in Announced(k)
      /\ "provision" \in Announced(k) /\ "create-tarball" \in Announced(k)
      /\ k.python => "install-python" \in Announced(k)
  BY <1>2 DEF Basics
<1> HIDE DEF Announced
<1>a. Earlier(k, "update-index") = {}
  <2>1. \A q \in Announced(k) : Ord(k, q) < Ord(k, "update-index") <=> q \in {}
    BY <1>1, <1>3, <1>4 DEF Basics
  <2>2. {} \subseteq Announced(k) BY <1>5 DEF Basics
  <2> QED BY <2>1, <2>2 DEF Earlier
<1>b. Earlier(k, "download") = {"update-index"}
  <2>1. \A q \in Announced(k) : Ord(k, q) < Ord(k, "download") <=> q \in {"update-index"}
    BY <1>1, <1>3, <1>4 DEF Basics
  <2>2. {"update-index"} \subseteq Announced(k) BY <1>5 DEF Basics
  <2> QED BY <2>1, <2>2 DEF Earlier
<1>c. Earlier(k, "extract") = {"update-index", "download"}
  <2>1. \A q \in Announced(k) : Ord(k, q) < Ord(k, "extract") <=> q \in {"update-index", "download"}
    BY <1>1, <1>3, <1>4 DEF Basics
  <2>2. {"update-index", "download"} \subseteq Announced(k) BY <1>5 DEF Basics
  <2> QED BY <2>1, <2>2 DEF Earlier
<1>d. Earlier(k, "install-essential") = {"update-index", "download", "extract"}
  <2>1. \A q \in Announced(k) : Ord(k, q) < Ord(k, "install-essential") <=> q \in {"update-index", "download", "extract"}
    BY <1>1, <1>3, <1>4 DEF Basics
  <2>2. {"update-index", "download", "extract"} \subseteq Announced(k) BY <1>5 DEF Basics
  <2> QED BY <2>1, <2>2 DEF Earlier
<1>e. Earlier(k, "install-requested") = {"update-index", "download", "extract", "install-essential"}
  <2>1. \A q \in Announced(k) : Ord(k, q) < Ord(k, "install-requested") <=> q \in {"update-index", "download", "extract", "install-essential"}
    BY <1>1, <1>3, <1>4 DEF Basics
  <2>2. {"update-index", "download", "extract", "install-essential"} \subseteq Announced(k)
    BY <1>5 DEF Basics
  <2> QED BY <2>1, <2>2 DEF Earlier
<1>6. Earlier(k, "provision") = Basics
  <2>1. \A q \in Announced(k) : Ord(k, q) < Ord(k, "provision") <=> q \in Basics
    BY <1>1, <1>3, <1>4 DEF Basics
  <2>2. Basics \subseteq Announced(k) BY <1>5 DEF Basics
  <2> QED BY <2>1, <2>2 DEF Earlier
<1>7. Earlier(k, "install-python") = Basics \cup {"provision"}
  <2>1. \A q \in Announced(k) : Ord(k, q) < Ord(k, "install-python") <=> q \in Basics \cup {"provision"}
    BY <1>1, <1>3, <1>4 DEF Basics
  <2>2. (Basics \cup {"provision"}) \subseteq Announced(k) BY <1>5 DEF Basics
  <2> QED BY <2>1, <2>2 DEF Earlier
<1>8. Earlier(k, "create-tarball") = Basics \cup {"provision"} \cup (IF k.python THEN {"install-python"} ELSE {})
  <2>1. \A q \in Announced(k) : Ord(k, q) < Ord(k, "create-tarball") <=> q \in Basics \cup {"provision"} \cup (IF k.python THEN {"install-python"} ELSE {})
    BY <1>1, <1>3, <1>4 DEF Basics
  <2>2. (Basics \cup {"provision"} \cup (IF k.python THEN {"install-python"} ELSE {})) \subseteq Announced(k)
    BY <1>5 DEF Basics
  <2> QED BY <2>1, <2>2 DEF Earlier
<1>9. Earlier(k, "done") = Announced(k) \ {"done"}
  <2>1. \A q \in Announced(k) : Ord(k, q) < Ord(k, "done") <=> q # "done" BY <1>3, <1>4
  <2> QED BY <2>1 DEF Earlier
<1> QED BY <1>2, <1>5, <1>a, <1>b, <1>c, <1>d, <1>e, <1>6, <1>7, <1>8, <1>9 DEF Basics

(* A conditional upload of what the recipe asks for.                       *)
LEMMA UploadLeads ==
  ASSUME NEW k \in UbuntuKinds, NEW c \in BOOLEAN, NEW p \in ImageFiles,
         NEW b, NEW h, NEW r, NEW a, NEW g, NEW u, Basics \subseteq u,
         p \notin b, p \notin h, p \notin a
  PROVE  Carries(k, TRUE, When(c, <<Upload(p, "recipe")>>), Stood(At(b, h, r, a, g, u)),
                 Stood(At(b, h, r \cup (IF c THEN {p} ELSE {}), a, g, u)))
<1> DEFINE x == At(b, h, r, a, g, u)
           y == At(b, h, r \cup (IF c THEN {p} ELSE {}), a, g, u)
<1>1. Spoken(k, "provision", x.said) BY EarlierPhases DEF Spoken, At
<1>2. ASSUME c PROVE Written(All({p}, "recipe"), x, y) BY <1>2 DEF Written, All, At, Contents
<1>3. Needed(<<>>, x) BY DEF Needed
<1>4. ASSUME c PROVE Carries(k, TRUE, <<Upload(p, "recipe")>>, Stood(x), Stood(y))
  <2>1. y.given \subseteq x.given \cup {} /\ y.said \subseteq x.said \cup {"provision"} BY DEF At
  <2>2. {} \subseteq x.given /\ {} \subseteq WorkFiles /\ "provision" \in Sayings BY DEF Sayings
  <2> HIDE DEF x, y
  <2>3. Carries(k, TRUE, <<Do("provision", {}, <<>>, All({p}, "recipe"), {})>>, Stood(x), Stood(y))
    BY <1>1, <1>2, <1>3, <1>4, <2>1, <2>2, StepLeads
  <2> QED BY <2>3 DEF Upload
<1>5. ASSUME ~c PROVE Stood(x) \subseteq Stood(y) BY <1>5 DEF At
<1>6. Stood(x) \in SUBSET States BY DEF Stood
<1> HIDE DEF x, y
<1>7. Carries(k, TRUE, When(c, <<Upload(p, "recipe")>>), Stood(x), Stood(y))
  BY <1>4, <1>5, <1>6, CarriesWhen
<1> QED BY <1>7 DEF x, y

(* A conditional download of a file.                                       *)
LEMMA DownloadLeads ==
  ASSUME NEW k \in UbuntuKinds, NEW c \in BOOLEAN, NEW p \in ImageFiles, NEW content,
         NEW f \in WorkFiles, NEW b, NEW h, NEW r, NEW a, NEW g, NEW u, Basics \subseteq u,
         c => (content = "build" /\ p \in b) \/ (content = "archive" /\ p \in a)
  PROVE  Carries(k, TRUE, When(c, <<Download(p, content, f)>>), Stood(At(b, h, r, a, g, u)),
                 Stood(At(b, h, r, a, g \cup (IF c THEN {f} ELSE {}), u)))
<1> DEFINE x == At(b, h, r, a, g, u)
           y == At(b, h, r, a, g \cup (IF c THEN {f} ELSE {}), u)
<1>1. Spoken(k, "provision", x.said) BY EarlierPhases DEF Spoken, At
<1>2. Written(<<>>, x, y) BY DEF Written, At
<1>3. ASSUME c PROVE Needed(All({p}, content), x) BY <1>3 DEF Needed, All, At
<1>4. ASSUME c PROVE Carries(k, TRUE, <<Download(p, content, f)>>, Stood(x), Stood(y))
  <2>1. y.given \subseteq x.given \cup {f} /\ y.said \subseteq x.said \cup {"provision"} BY DEF At
  <2>2. {} \subseteq x.given /\ {f} \subseteq WorkFiles /\ "provision" \in Sayings BY DEF Sayings
  <2> HIDE DEF x, y
  <2>3. Carries(k, TRUE, <<Do("provision", {}, All({p}, content), <<>>, {f})>>, Stood(x), Stood(y))
    BY <1>1, <1>2, <1>3, <1>4, <2>1, <2>2, StepLeads
  <2> QED BY <2>3 DEF Download
<1>5. ASSUME ~c PROVE Stood(x) \subseteq Stood(y) BY <1>5 DEF At
<1>6. Stood(x) \in SUBSET States BY DEF Stood
<1> HIDE DEF x, y
<1>7. Carries(k, TRUE, When(c, <<Download(p, content, f)>>), Stood(x), Stood(y))
  BY <1>4, <1>5, <1>6, CarriesWhen
<1> QED BY <1>7 DEF x, y

(* A deletion.                                                             *)
LEMMA DeleteLeads ==
  ASSUME NEW k \in UbuntuKinds, NEW ps \in SUBSET ImageFiles,
         NEW b, NEW h, NEW r, NEW a, NEW g, NEW u, Basics \subseteq u
  PROVE  Carries(k, TRUE, <<Delete(ps)>>, Stood(At(b, h, r, a, g, u)),
                 Stood(At(b \ ps, h \ ps, r \ ps, a \ ps, g, u)))
<1> DEFINE x == At(b, h, r, a, g, u)
           y == At(b \ ps, h \ ps, r \ ps, a \ ps, g, u)
<1>1. Spoken(k, "provision", x.said) BY EarlierPhases DEF Spoken, At
<1>2. Written(All(ps, "none"), x, y) BY DEF Written, All, At, Contents
<1>3. Needed(<<>>, x) BY DEF Needed
<1>4. y.given \subseteq x.given \cup {} /\ y.said \subseteq x.said \cup {"provision"} BY DEF At
<1>5. {} \subseteq x.given /\ {} \subseteq WorkFiles /\ "provision" \in Sayings BY DEF Sayings
<1> HIDE DEF x, y
<1>6. Carries(k, TRUE, <<Do("provision", {}, <<>>, All(ps, "none"), {})>>, Stood(x), Stood(y))
  BY <1>1, <1>2, <1>3, <1>4, <1>5, StepLeads
<1> QED BY <1>6 DEF Delete, x, y

-----------------------------------------------------------------------------
(* The image's program up to the packages.                                 *)
HostFiles  == {"resolv.conf", "hostname"}
Trusted(k) == IF AptTrusts(k) THEN {"apt-trust"} ELSE {}
Left(k)    == Trusted(k) \cup {"apt-lists"} \cup (IF Disk(k) THEN {"per-machine"} ELSE {})

LEMMA SetupLeads ==
  ASSUME NEW k \in UbuntuKinds, NEW g
  PROVE  Carries(k, TRUE, Setup(k), Stood(At({}, {}, {}, {}, g, {})),
                 Stood(At(Trusted(k), HostFiles, {}, {}, g, {})))
<1> DEFINE x == At({}, {}, {}, {}, g, {})
           y == At({}, HostFiles, {}, {}, g, {})
           z == At(Trusted(k), HostFiles, {}, {}, g, {})
           w1 == All({"resolv.conf", "hostname"}, "host")
           w2 == All({"apt-trust"}, "build")
<1>1. AptTrusts(k) \in BOOLEAN BY KindFields DEF UbuntuKinds
<1>2. "nothing" \in Sayings /\ Spoken(k, "nothing", x.said) /\ Spoken(k, "nothing", y.said)
  BY DEF Sayings, Spoken
<1>3. Needed(<<>>, x) /\ Needed(<<>>, y) BY DEF Needed
<1>4. Written(w1, x, y) BY DEF Written, All, At, HostFiles, ImageFiles, Contents
<1>5. AptTrusts(k) => Written(w2, y, z)
  BY DEF Written, All, At, HostFiles, ImageFiles, Contents, Trusted
<1>6. /\ y.given \subseteq x.given /\ y.said \subseteq x.said
      /\ z.given \subseteq y.given /\ z.said \subseteq y.said
  BY DEF At
<1>7. ~AptTrusts(k) => Stood(y) \subseteq Stood(z) BY DEF At, Trusted
<1>8. Stood(y) \in SUBSET States BY DEF Stood
<1> HIDE DEF x, y, z, w1, w2
<1>9. Carries(k, TRUE, <<Do("nothing", {}, <<>>, w1, {})>>, Stood(x), Stood(y))
  BY <1>2, <1>3, <1>4, <1>6, StepLeads
<1>10. AptTrusts(k) => Carries(k, TRUE, <<Do("nothing", {}, <<>>, w2, {})>>, Stood(y), Stood(z))
  BY <1>2, <1>3, <1>5, <1>6, StepLeads
<1>11. Carries(k, TRUE, When(AptTrusts(k), <<Do("nothing", {}, <<>>, w2, {})>>), Stood(y), Stood(z))
  BY <1>1, <1>7, <1>8, <1>10, CarriesWhen
<1>12. Setup(k) = <<Do("nothing", {}, <<>>, w1, {})>> \o When(AptTrusts(k), <<Do("nothing", {}, <<>>, w2, {})>>)
  BY DEF Setup, w1, w2
<1> QED BY <1>9, <1>11, <1>12, CarriesConcat DEF x, z

LEMMA AptLeads ==
  ASSUME NEW k \in UbuntuKinds, NEW g
  PROVE  Carries(k, TRUE, AptAndDpkg(k), Stood(At(Trusted(k), HostFiles, {}, {}, g, {})),
                 Stood(At(Left(k), HostFiles, {}, {"dpkg-status"}, g, Basics)))
<1> DEFINE b == Trusted(k) \cup {"apt-lists"}
           x == [i \in 1..6 |->
                  IF i = 1 THEN At(Trusted(k), HostFiles, {}, {}, g, {})
                  ELSE IF i = 2 THEN At(b, HostFiles, {}, {}, g, {"update-index"})
                  ELSE IF i = 3 THEN At(b, HostFiles, {}, {}, g, {"update-index", "download"})
                  ELSE IF i = 4 THEN At(b, HostFiles, {}, {}, g, {"update-index", "download", "extract"})
                  ELSE IF i = 5 THEN At(b, HostFiles, {}, {"dpkg-status"}, g,
                                        {"update-index", "download", "extract", "install-essential"})
                  ELSE At(Left(k), HostFiles, {}, {"dpkg-status"}, g, Basics)]
           c == IF Disk(k) THEN "build" ELSE "none"
           d1 == Do("update-index", {}, AptNeeds(k), All({"apt-lists"}, "build"), {})
           d2 == Do("download", {}, AptNeeds(k), <<>>, {})
           d3 == Do("extract", {}, <<>>, <<>>, {})
           d4 == Do("install-essential", {}, <<>>, All({"dpkg-status"}, "archive"), {})
           d5 == Do("install-requested", {}, AptNeeds(k), All({"per-machine"}, c), {})
<1>1. AptTrusts(k) \in BOOLEAN /\ Disk(k) \in BOOLEAN BY KindFields DEF UbuntuKinds
<1>2. Needed(AptNeeds(k), x[1]) /\ Needed(AptNeeds(k), x[2]) /\ Needed(AptNeeds(k), x[5])
  BY DEF Needed, AptNeeds, All, At, Trusted, ImageFiles
<1>3. Needed(<<>>, x[3]) /\ Needed(<<>>, x[4]) BY DEF Needed
<1>4. Written(All({"apt-lists"}, "build"), x[1], x[2])
  BY DEF Written, All, At, HostFiles, ImageFiles, Contents, Trusted
<1>5. Written(<<>>, x[2], x[3]) /\ Written(<<>>, x[3], x[4])
  <2>1. \A i \in {2, 3, 4} : /\ x[i].build = b /\ x[i].host = HostFiles /\ x[i].recipe = {} /\ x[i].archive = {}
    BY DEF At
  <2> HIDE DEF x, b
  <2> QED BY <2>1, WrittenNothing
<1>6. Written(All({"dpkg-status"}, "archive"), x[4], x[5])
  BY DEF Written, All, At, HostFiles, ImageFiles, Contents, Trusted
<1>7. Written(All({"per-machine"}, c), x[5], x[6])
  <2>1. /\ x[5] = At(b, HostFiles, {}, {"dpkg-status"}, g,
                    {"update-index", "download", "extract", "install-essential"})
        /\ x[6] = At(Left(k), HostFiles, {}, {"dpkg-status"}, g, Basics)
    OBVIOUS
  <2>2. /\ x[5].build = b /\ x[5].host = HostFiles /\ x[5].recipe = {} /\ x[5].archive = {"dpkg-status"}
        /\ x[6].build = Left(k) /\ x[6].host = HostFiles /\ x[6].recipe = {} /\ x[6].archive = {"dpkg-status"}
    BY <2>1 DEF At
  <2> HIDE DEF x
  <2> QED BY <1>1, <2>2 DEF Written, All, HostFiles, ImageFiles, Contents, Trusted, Left
<1>8. /\ Spoken(k, "update-index", x[1].said) /\ Spoken(k, "download", x[2].said)
      /\ Spoken(k, "extract", x[3].said) /\ Spoken(k, "install-essential", x[4].said)
      /\ Spoken(k, "install-requested", x[5].said)
  BY EarlierPhases DEF Spoken, At, Basics
<1>9. /\ x[2].said \subseteq x[1].said \cup {"update-index"} /\ x[3].said \subseteq x[2].said \cup {"download"}
      /\ x[4].said \subseteq x[3].said \cup {"extract"} /\ x[5].said \subseteq x[4].said \cup {"install-essential"}
      /\ x[6].said \subseteq x[5].said \cup {"install-requested"}
  BY DEF At, Basics
<1>10. /\ x[1].given = g /\ x[2].given = g /\ x[3].given = g /\ x[4].given = g /\ x[5].given = g /\ x[6].given = g
  BY DEF At
<1>11. Basics \subseteq Sayings BY DEF Basics, Sayings
<1>12. /\ x[1] = At(Trusted(k), HostFiles, {}, {}, g, {})
       /\ x[6] = At(Left(k), HostFiles, {}, {"dpkg-status"}, g, Basics)
  OBVIOUS
<1> HIDE DEF x, c
<1>a. Carries(k, TRUE, <<d1>>, Stood(x[1]), Stood(x[2]))
  BY <1>2, <1>4, <1>8, <1>9, <1>10, <1>11, StepLeads DEF Basics
<1>b. Carries(k, TRUE, <<d2>>, Stood(x[2]), Stood(x[3]))
  BY <1>2, <1>5, <1>8, <1>9, <1>10, <1>11, StepLeads DEF Basics
<1>c. Carries(k, TRUE, <<d3>>, Stood(x[3]), Stood(x[4]))
  BY <1>3, <1>5, <1>8, <1>9, <1>10, <1>11, StepLeads DEF Basics
<1>d. Carries(k, TRUE, <<d4>>, Stood(x[4]), Stood(x[5]))
  BY <1>3, <1>6, <1>8, <1>9, <1>10, <1>11, StepLeads DEF Basics
<1>e. Carries(k, TRUE, <<d5>>, Stood(x[5]), Stood(x[6]))
  BY <1>2, <1>7, <1>8, <1>9, <1>10, <1>11, StepLeads DEF Basics
<1>13. AptAndDpkg(k) = <<d1>> \o <<d2>> \o <<d3>> \o <<d4>> \o <<d5>>
  BY DEF AptAndDpkg, c
<1> HIDE DEF d1, d2, d3, d4, d5
<1>14. Carries(k, TRUE, <<d1>> \o <<d2>>, Stood(x[1]), Stood(x[3])) BY <1>a, <1>b, CarriesConcat
<1>15. Carries(k, TRUE, <<d1>> \o <<d2>> \o <<d3>>, Stood(x[1]), Stood(x[4]))
  BY <1>14, <1>c, CarriesConcat
<1>16. Carries(k, TRUE, <<d1>> \o <<d2>> \o <<d3>> \o <<d4>>, Stood(x[1]), Stood(x[5]))
  BY <1>15, <1>d, CarriesConcat
<1>17. Carries(k, TRUE, <<d1>> \o <<d2>> \o <<d3>> \o <<d4>> \o <<d5>>, Stood(x[1]), Stood(x[6]))
  BY <1>16, <1>e, CarriesConcat
<1> QED BY <1>12, <1>13, <1>17

-----------------------------------------------------------------------------
(* What the stage directory holds.                                         *)
LEMMA StageHolds ==
  ASSUME NEW k \in UbuntuKinds
  PROVE  LET held == WriteStage(k)
         IN /\ "sources.list" \in held /\ ("wsl.conf" \in held <=> ~Disk(k))
            /\ ("disk-script" \in held <=> Disk(k))
            /\ ("auto-marks" \in held <=> k.offline) /\ ("lists" \in held <=> ~k.offline)
            /\ ("extended-states" \in held <=> ~k.offline)
            /\ ("sudoers" \in held <=> k.sudo) /\ ("keys" \in held <=> k.keys)
            /\ ("certificates" \in held <=> k.certificates)
            /\ ("python-script" \in held <=> k.python)
            /\ ("pip-list" \in held <=> k.python /\ k.offline)
            /\ ("requirements" \in held <=> k.python /\ k.offline)
            /\ ("wheels" \in held <=> k.python /\ k.offline)
            /\ ("pip-report" \in held <=> k.python /\ ~k.offline)
            /\ ("pip-pin-report" \in held <=> k.python /\ ~k.offline /\ k.index)
            /\ ("extra-CA" \in held <=> k.python /\ ~k.offline /\ k.bundle)
<1>1. /\ k.offline \in BOOLEAN /\ k.python \in BOOLEAN /\ k.index \in BOOLEAN /\ k.bundle \in BOOLEAN
      /\ k.certificates \in BOOLEAN /\ k.keys \in BOOLEAN /\ k.sudo \in BOOLEAN /\ Disk(k) \in BOOLEAN
  BY KindFields DEF UbuntuKinds
<1> QED BY <1>1 DEF WriteStage

(* A conditional upload of what only the build uses.                       *)
LEMMA UploadBuildLeads ==
  ASSUME NEW k \in UbuntuKinds, NEW c \in BOOLEAN, NEW p \in ImageFiles,
         NEW b, NEW h, NEW r, NEW a, NEW g, NEW u, Basics \subseteq u,
         p \notin h, p \notin r, p \notin a
  PROVE  Carries(k, TRUE, When(c, <<Upload(p, "build")>>), Stood(At(b, h, r, a, g, u)),
                 Stood(At(b \cup (IF c THEN {p} ELSE {}), h, r, a, g, u)))
<1> DEFINE x == At(b, h, r, a, g, u)
           y == At(b \cup (IF c THEN {p} ELSE {}), h, r, a, g, u)
<1>1. Spoken(k, "provision", x.said) BY EarlierPhases DEF Spoken, At
<1>2. ASSUME c PROVE Written(All({p}, "build"), x, y) BY <1>2 DEF Written, All, At, Contents
<1>3. Needed(<<>>, x) BY DEF Needed
<1>4. ASSUME c PROVE Carries(k, TRUE, <<Upload(p, "build")>>, Stood(x), Stood(y))
  <2>1. y.given \subseteq x.given \cup {} /\ y.said \subseteq x.said \cup {"provision"} BY DEF At
  <2>2. {} \subseteq x.given /\ {} \subseteq WorkFiles /\ "provision" \in Sayings BY DEF Sayings
  <2> HIDE DEF x, y
  <2>3. Carries(k, TRUE, <<Do("provision", {}, <<>>, All({p}, "build"), {})>>, Stood(x), Stood(y))
    BY <1>1, <1>2, <1>3, <1>4, <2>1, <2>2, StepLeads
  <2> QED BY <2>3 DEF Upload
<1>5. ASSUME ~c PROVE Stood(x) \subseteq Stood(y) BY <1>5 DEF At
<1>6. Stood(x) \in SUBSET States BY DEF Stood
<1> HIDE DEF x, y
<1>7. Carries(k, TRUE, When(c, <<Upload(p, "build")>>), Stood(x), Stood(y))
  BY <1>4, <1>5, <1>6, CarriesWhen
<1> QED BY <1>7 DEF x, y

-----------------------------------------------------------------------------
(* The Python step.                                                        *)
PipFiles ==
  {"extra-CA", "CA-bundle", "requirements", "wheels", "pip-pin", "pip-report", "pip-pin-report", "pip-list"}
Uploaded(k) ==
  IF k.offline THEN {"requirements", "wheels"} ELSE IF k.bundle THEN {"extra-CA"} ELSE {}
PipReports(k) ==
  IF k.offline THEN {"pip-list"} ELSE {"pip-report"} \cup (IF k.index THEN {"pip-pin-report"} ELSE {})

LEMMA PythonScriptLeads ==
  ASSUME NEW k \in UbuntuKinds, k.python, NEW b, NEW r, NEW a, NEW g,
         k.certificates => "trust-store" \in r,
         b \cap (PipFiles \cup {"venv"}) = {}, r \cap PipFiles = {}, a \cap (PipFiles \cup {"venv"}) = {}
  PROVE  Carries(k, TRUE, <<PythonScript(k)>>,
                 Stood(At(b \cup Uploaded(k), HostFiles, r, a, g, Basics \cup {"provision"})),
                 Stood(At(b \cup PipReports(k), HostFiles, r \cup {"venv"}, a, g,
                          Basics \cup {"provision", "install-python"})))
<1> DEFINE x == At(b \cup Uploaded(k), HostFiles, r, a, g, Basics \cup {"provision"})
           y == At(b \cup PipReports(k), HostFiles, r \cup {"venv"}, a, g,
                   Basics \cup {"provision", "install-python"})
           n1 == All({"requirements", "wheels"}, "build")
           w1 == Onto(All({"venv"}, "recipe"),
                      Onto(All({"pip-list"}, "build"), All({"requirements", "wheels", "pip-pin"}, "none")))
           n2 == Onto(All({"resolv.conf"}, "host"),
                      Onto(All(IF k.bundle THEN {"extra-CA"} ELSE {}, "build"),
                           All(IF k.certificates THEN {"trust-store"} ELSE {}, "recipe")))
           w2 == Onto(All({"venv"}, "recipe"),
                      Onto(All({"pip-report"} \cup (IF k.index THEN {"pip-pin-report"} ELSE {}), "build"),
                           All({"pip-pin"} \cup (IF k.bundle THEN {"CA-bundle", "extra-CA"} ELSE {}), "none")))
<1>1. /\ k.offline \in BOOLEAN /\ k.index \in BOOLEAN /\ k.bundle \in BOOLEAN /\ k.certificates \in BOOLEAN
  BY KindFields DEF UbuntuKinds
<1>2. Spoken(k, "install-python", x.said) BY EarlierPhases DEF Spoken, At
<1>3. "install-python" \in Sayings /\ {} \subseteq WorkFiles /\ {} \subseteq x.given BY DEF Sayings
<1>4. y.given \subseteq x.given \cup {} /\ y.said \subseteq x.said \cup {"install-python"} BY DEF At
<1>5. ASSUME k.offline PROVE Needed(n1, x)
  BY <1>5 DEF Needed, All, At, Uploaded, ImageFiles
<1>6. ASSUME k.offline PROVE Written(w1, x, y)
  <2>1. DOMAIN w1 = {"venv", "pip-list", "requirements", "wheels", "pip-pin"} BY DEF Onto, All
  <2>2. /\ w1["venv"] = "recipe" /\ w1["pip-list"] = "build" /\ w1["requirements"] = "none"
        /\ w1["wheels"] = "none" /\ w1["pip-pin"] = "none"
    BY DEF Onto, All
  <2> HIDE DEF w1
  <2> QED
    BY <1>6, <2>1, <2>2 DEF Written, At, Uploaded, PipReports, PipFiles, HostFiles, ImageFiles, Contents
<1>7. ASSUME ~k.offline PROVE Needed(n2, x)
  <2>1. DOMAIN n2 = {"resolv.conf"} \cup (IF k.bundle THEN {"extra-CA"} ELSE {})
                                    \cup (IF k.certificates THEN {"trust-store"} ELSE {})
    BY DEF Onto, All
  <2>2. /\ n2["resolv.conf"] = "host"
        /\ k.bundle => n2["extra-CA"] = "build"
        /\ k.certificates => n2["trust-store"] = "recipe"
    BY DEF Onto, All
  <2> HIDE DEF n2
  <2> QED BY <1>7, <2>1, <2>2 DEF Needed, At, Uploaded, HostFiles, ImageFiles
<1>8. ASSUME ~k.offline PROVE Written(w2, x, y)
  <2>1. DOMAIN w2 = {"venv", "pip-report", "pip-pin"} \cup (IF k.index THEN {"pip-pin-report"} ELSE {})
                    \cup (IF k.bundle THEN {"CA-bundle", "extra-CA"} ELSE {})
    BY DEF Onto, All
  <2>2. /\ w2["venv"] = "recipe" /\ w2["pip-report"] = "build" /\ w2["pip-pin"] = "none"
        /\ k.index => w2["pip-pin-report"] = "build"
        /\ k.bundle => w2["CA-bundle"] = "none" /\ w2["extra-CA"] = "none"
    BY DEF Onto, All
  <2> HIDE DEF w2
  <2> QED
    BY <1>1, <1>8, <2>1, <2>2 DEF Written, At, Uploaded, PipReports, PipFiles, HostFiles, ImageFiles, Contents
<1> HIDE DEF x, y, n1, w1, n2, w2
<1>9. CASE k.offline
  <2>1. Carries(k, TRUE, <<Do("install-python", {}, n1, w1, {})>>, Stood(x), Stood(y))
    BY <1>2, <1>3, <1>4, <1>5, <1>6, <1>9, StepLeads
  <2>2. PythonScript(k) = Do("install-python", {}, n1, w1, {}) BY <1>9 DEF PythonScript, n1, w1
  <2> QED BY <2>1, <2>2 DEF x, y
<1>10. CASE ~k.offline
  <2>1. Carries(k, TRUE, <<Do("install-python", {}, n2, w2, {})>>, Stood(x), Stood(y))
    BY <1>2, <1>3, <1>4, <1>7, <1>8, <1>10, StepLeads
  <2>2. PipTrust(k) = "CA-bundle" <=> k.bundle BY <1>10, <1>1 DEF PipTrust
  <2>3. PythonScript(k) = Do("install-python", {}, n2, w2, {})
    BY <1>10, <2>2, <1>1 DEF PythonScript, n2, w2
  <2> QED BY <2>1, <2>3 DEF x, y
<1> QED BY <1>9, <1>10, <1>1

Python(k) == IF k.python THEN {"install-python"} ELSE {}
PipGiven(k) == IF k.python THEN PipReports(k) ELSE {}
Venv(k) == IF k.python THEN {"venv"} ELSE {}

LEMMA PythonLeads ==
  ASSUME NEW k \in UbuntuKinds, NEW b, NEW r, NEW g,
         k.certificates => "trust-store" \in r,
         b \cap (PipFiles \cup {"venv"}) = {}, r \cap PipFiles = {}
  PROVE  Carries(k, TRUE, PythonHooks(k, WriteStage(k)),
                 Stood(At(b, HostFiles, r, {"dpkg-status"}, g, Basics \cup {"provision"})),
                 Stood(At(b, HostFiles, r \cup Venv(k), {"dpkg-status"}, g \cup PipGiven(k),
                          Basics \cup {"provision"} \cup Python(k))))
<1> DEFINE st == WriteStage(k)
           up == Basics \cup {"provision"}
           uq == Basics \cup {"provision", "install-python"}
           a == {"dpkg-status"}
           If(c, e) == IF c THEN {e} ELSE {}
           b1 == b \cup If("extra-CA" \in st, "extra-CA")
           b2 == b1 \cup If("requirements" \in st, "requirements")
           b3 == b2 \cup If("wheels" \in st, "wheels")
           b4 == b \cup PipReports(k)
           r4 == r \cup {"venv"}
           g5 == g \cup If("pip-report" \in st, "pip-report")
           g6 == g5 \cup If("pip-pin-report" \in st, "pip-pin-report")
           g7 == g6 \cup If("pip-list" \in st, "pip-list")
           ps == {"pip-report", "pip-pin-report", "pip-list"}
           s1 == When("extra-CA" \in st, <<Upload("extra-CA", "build")>>)
           s2 == When("requirements" \in st, <<Upload("requirements", "build")>>)
           s3 == When("wheels" \in st, <<Upload("wheels", "build")>>)
           s4 == <<PythonScript(k)>>
           s5 == When("pip-report" \in st, <<Download("pip-report", "build", "pip-report")>>)
           s6 == When("pip-pin-report" \in st, <<Download("pip-pin-report", "build", "pip-pin-report")>>)
           s7 == When("pip-list" \in st, <<Download("pip-list", "build", "pip-list")>>)
           s8 == <<Delete(ps)>>
<1>1. /\ k.offline \in BOOLEAN /\ k.index \in BOOLEAN /\ k.bundle \in BOOLEAN /\ k.certificates \in BOOLEAN
      /\ k.python \in BOOLEAN
  BY KindFields DEF UbuntuKinds
<1>2. /\ ("python-script" \in st <=> k.python)
      /\ ("pip-list" \in st <=> k.python /\ k.offline)
      /\ ("requirements" \in st <=> k.python /\ k.offline)
      /\ ("wheels" \in st <=> k.python /\ k.offline)
      /\ ("pip-report" \in st <=> k.python /\ ~k.offline)
      /\ ("pip-pin-report" \in st <=> k.python /\ ~k.offline /\ k.index)
      /\ ("extra-CA" \in st <=> k.python /\ ~k.offline /\ k.bundle)
  BY StageHolds
<1> HIDE DEF st
<1>3. CASE ~k.python
  <2>1. PythonHooks(k, st) = <<>> BY <1>2, <1>3 DEF PythonHooks
  <2>2. r \cup Venv(k) = r /\ g \cup PipGiven(k) = g /\ Python(k) = {}
    BY <1>3 DEF Venv, PipGiven, Python
  <2>3. up \cup {} = up OBVIOUS
  <2>4. Stood(At(b, HostFiles, r, a, g, up)) \in SUBSET States BY DEF Stood
  <2> HIDE DEF up, a
  <2>5. Carries(k, TRUE, <<>>, Stood(At(b, HostFiles, r, a, g, up)), Stood(At(b, HostFiles, r, a, g, up)))
    BY <2>4, CarriesNothing
  <2> QED BY <2>1, <2>2, <2>3, <2>5 DEF up, a, st
<1>4. CASE k.python
  <2>1. PythonHooks(k, st) = s1 \o s2 \o s3 \o s4 \o s5 \o s6 \o s7 \o s8
    BY <1>2, <1>4 DEF PythonHooks
  <2>0. /\ ("extra-CA" \in st) \in BOOLEAN /\ ("requirements" \in st) \in BOOLEAN
        /\ ("wheels" \in st) \in BOOLEAN /\ ("pip-report" \in st) \in BOOLEAN
        /\ ("pip-pin-report" \in st) \in BOOLEAN /\ ("pip-list" \in st) \in BOOLEAN
    OBVIOUS
  <2>2. Basics \subseteq up /\ Basics \subseteq uq OBVIOUS
  <2>3. /\ "extra-CA" \in ImageFiles /\ "requirements" \in ImageFiles /\ "wheels" \in ImageFiles
        /\ "pip-report" \in ImageFiles /\ "pip-pin-report" \in ImageFiles /\ "pip-list" \in ImageFiles
        /\ ps \subseteq ImageFiles
    BY DEF ImageFiles
  <2>4. /\ "extra-CA" \notin HostFiles \cup r \cup a /\ "requirements" \notin HostFiles \cup r \cup a
        /\ "wheels" \notin HostFiles \cup r \cup a
    BY DEF HostFiles, PipFiles
  <2>5. b3 = b \cup Uploaded(k) BY <1>1, <1>2, <1>4 DEF Uploaded
  <2>6. /\ "pip-report" \in st => "pip-report" \in b4
        /\ "pip-pin-report" \in st => "pip-pin-report" \in b4
        /\ "pip-list" \in st => "pip-list" \in b4
    BY <1>2 DEF PipReports
  <2>7. /\ b4 \ ps = b /\ HostFiles \ ps = HostFiles /\ r4 \ ps = r \cup Venv(k) /\ a \ ps = a
    BY <1>1, <1>4 DEF PipReports, HostFiles, PipFiles, Venv
  <2>8. g7 = g \cup PipGiven(k) /\ uq = up \cup Python(k)
    BY <1>1, <1>2, <1>4 DEF PipGiven, PipReports, Python
  <2>9. a \cap (PipFiles \cup {"venv"}) = {} BY DEF PipFiles
  <2>10. /\ "pip-report" \in WorkFiles /\ "pip-pin-report" \in WorkFiles /\ "pip-list" \in WorkFiles
    BY DEF WorkFiles
  <2>11. Carries(k, TRUE, s4, Stood(At(b \cup Uploaded(k), HostFiles, r, a, g, up)),
                 Stood(At(b4, HostFiles, r4, a, g, uq)))
    BY <1>4, <2>9, PythonScriptLeads
  <2> HIDE DEF up, uq, a, ps
  <2>a. Carries(k, TRUE, s1, Stood(At(b, HostFiles, r, a, g, up)), Stood(At(b1, HostFiles, r, a, g, up)))
    BY <2>0, <2>2, <2>3, <2>4, UploadBuildLeads
  <2> HIDE DEF b1
  <2>b. Carries(k, TRUE, s2, Stood(At(b1, HostFiles, r, a, g, up)), Stood(At(b2, HostFiles, r, a, g, up)))
    BY <2>0, <2>2, <2>3, <2>4, UploadBuildLeads
  <2> HIDE DEF b2
  <2>c. Carries(k, TRUE, s3, Stood(At(b2, HostFiles, r, a, g, up)), Stood(At(b3, HostFiles, r, a, g, up)))
    BY <2>0, <2>2, <2>3, <2>4, UploadBuildLeads
  <2> HIDE DEF b3, b4, r4
  <2>d. Carries(k, TRUE, s4, Stood(At(b3, HostFiles, r, a, g, up)), Stood(At(b4, HostFiles, r4, a, g, uq)))
    BY <2>5, <2>11
  <2>e. Carries(k, TRUE, s5, Stood(At(b4, HostFiles, r4, a, g, uq)), Stood(At(b4, HostFiles, r4, a, g5, uq)))
    BY <2>0, <2>2, <2>3, <2>6, <2>10, DownloadLeads
  <2> HIDE DEF g5
  <2>f. Carries(k, TRUE, s6, Stood(At(b4, HostFiles, r4, a, g5, uq)), Stood(At(b4, HostFiles, r4, a, g6, uq)))
    BY <2>0, <2>2, <2>3, <2>6, <2>10, DownloadLeads
  <2> HIDE DEF g6
  <2>g. Carries(k, TRUE, s7, Stood(At(b4, HostFiles, r4, a, g6, uq)), Stood(At(b4, HostFiles, r4, a, g7, uq)))
    BY <2>0, <2>2, <2>3, <2>6, <2>10, DownloadLeads
  <2> HIDE DEF g7
  <2>h. Carries(k, TRUE, s8, Stood(At(b4, HostFiles, r4, a, g7, uq)),
                Stood(At(b, HostFiles, r \cup Venv(k), a, g7, uq)))
    BY <2>2, <2>3, <2>7, DeleteLeads
  <2> HIDE DEF s1, s2, s3, s4, s5, s6, s7, s8
  <2>12. Carries(k, TRUE, s1 \o s2 \o s3 \o s4, Stood(At(b, HostFiles, r, a, g, up)),
                 Stood(At(b4, HostFiles, r4, a, g, uq)))
    <3>1. Carries(k, TRUE, s1 \o s2, Stood(At(b, HostFiles, r, a, g, up)), Stood(At(b2, HostFiles, r, a, g, up)))
      BY <2>a, <2>b, CarriesConcat
    <3>2. Carries(k, TRUE, s1 \o s2 \o s3, Stood(At(b, HostFiles, r, a, g, up)),
                  Stood(At(b3, HostFiles, r, a, g, up)))
      BY <3>1, <2>c, CarriesConcat
    <3> QED BY <3>2, <2>d, CarriesConcat
  <2>13. Carries(k, TRUE, s1 \o s2 \o s3 \o s4 \o s5 \o s6, Stood(At(b, HostFiles, r, a, g, up)),
                 Stood(At(b4, HostFiles, r4, a, g6, uq)))
    <3>1. Carries(k, TRUE, s1 \o s2 \o s3 \o s4 \o s5, Stood(At(b, HostFiles, r, a, g, up)),
                  Stood(At(b4, HostFiles, r4, a, g5, uq)))
      BY <2>12, <2>e, CarriesConcat
    <3> QED BY <3>1, <2>f, CarriesConcat
  <2>14. Carries(k, TRUE, s1 \o s2 \o s3 \o s4 \o s5 \o s6 \o s7 \o s8, Stood(At(b, HostFiles, r, a, g, up)),
                 Stood(At(b, HostFiles, r \cup Venv(k), a, g7, uq)))
    <3>1. Carries(k, TRUE, s1 \o s2 \o s3 \o s4 \o s5 \o s6 \o s7, Stood(At(b, HostFiles, r, a, g, up)),
                  Stood(At(b4, HostFiles, r4, a, g7, uq)))
      BY <2>13, <2>g, CarriesConcat
    <3> QED BY <3>1, <2>h, CarriesConcat
  <2> QED BY <2>1, <2>8, <2>14 DEF up, a, st
<1> QED BY <1>1, <1>3, <1>4

-----------------------------------------------------------------------------
(* The hooks of every image: the recipe's files and its user.              *)
Owned(k) ==
  {"sources.list", "user"} \cup (IF Disk(k) THEN {} ELSE {"wsl.conf"})
  \cup (IF k.sudo THEN {"sudoers"} ELSE {}) \cup (IF k.keys THEN {"keyrings"} ELSE {})
  \cup (IF k.certificates THEN {"certificates", "trust-store"} ELSE {})
HeadHooks(st) ==
  When("wsl.conf" \in st, <<Upload("wsl.conf", "recipe")>>)
  \o When("sudoers" \in st, <<Upload("sudoers", "recipe")>>)
  \o When("keys" \in st, <<Upload("keyrings", "recipe")>>)
  \o When("certificates" \in st, <<Upload("certificates", "recipe")>>)
  \o When("sources.list" \in st, <<Upload("sources.list", "recipe")>>)
  \o <<ProvisionScript(st)>>

LEMMA HeadLeads ==
  ASSUME NEW k \in UbuntuKinds, NEW g
  PROVE  Carries(k, TRUE, HeadHooks(WriteStage(k)),
                 Stood(At(Left(k), HostFiles, {}, {"dpkg-status"}, g, Basics)),
                 Stood(At(Left(k), HostFiles, Owned(k), {"dpkg-status"}, g, Basics \cup {"provision"})))
<1> DEFINE st == WriteStage(k)
           b == Left(k)
           a == {"dpkg-status"}
           If(c, e) == IF c THEN {e} ELSE {}
           r1 == {} \cup If("wsl.conf" \in st, "wsl.conf")
           r2 == r1 \cup If("sudoers" \in st, "sudoers")
           r3 == r2 \cup If("keys" \in st, "keyrings")
           r4 == r3 \cup If("certificates" \in st, "certificates")
           r5 == r4 \cup If("sources.list" \in st, "sources.list")
           s1 == When("wsl.conf" \in st, <<Upload("wsl.conf", "recipe")>>)
           s2 == When("sudoers" \in st, <<Upload("sudoers", "recipe")>>)
           s3 == When("keys" \in st, <<Upload("keyrings", "recipe")>>)
           s4 == When("certificates" \in st, <<Upload("certificates", "recipe")>>)
           s5 == When("sources.list" \in st, <<Upload("sources.list", "recipe")>>)
           s6 == <<ProvisionScript(st)>>
           x == At(b, HostFiles, r5, a, g, Basics)
           y == At(b, HostFiles, Owned(k), a, g, Basics \cup {"provision"})
           n == All({"sudoers"} \cap st, "recipe")
           w == All({"user"} \cup (IF "certificates" \in st THEN {"trust-store"} ELSE {}), "recipe")
<1>1. /\ k.certificates \in BOOLEAN /\ k.keys \in BOOLEAN /\ k.sudo \in BOOLEAN /\ Disk(k) \in BOOLEAN
      /\ AptTrusts(k) \in BOOLEAN
  BY KindFields DEF UbuntuKinds
<1>2. /\ "sources.list" \in st /\ ("wsl.conf" \in st <=> ~Disk(k))
      /\ ("sudoers" \in st <=> k.sudo) /\ ("keys" \in st <=> k.keys)
      /\ ("certificates" \in st <=> k.certificates)
  BY StageHolds
<1>3. /\ ("wsl.conf" \in st) \in BOOLEAN /\ ("sudoers" \in st) \in BOOLEAN /\ ("keys" \in st) \in BOOLEAN
      /\ ("certificates" \in st) \in BOOLEAN /\ ("sources.list" \in st) \in BOOLEAN
  OBVIOUS
<1> HIDE DEF st
<1>4. /\ "wsl.conf" \in ImageFiles /\ "sudoers" \in ImageFiles /\ "keyrings" \in ImageFiles
      /\ "certificates" \in ImageFiles /\ "sources.list" \in ImageFiles
  BY DEF ImageFiles
<1>5. /\ "wsl.conf" \notin b \cup HostFiles \cup a /\ "sudoers" \notin b \cup HostFiles \cup a
      /\ "keyrings" \notin b \cup HostFiles \cup a /\ "certificates" \notin b \cup HostFiles \cup a
      /\ "sources.list" \notin b \cup HostFiles \cup a
  BY DEF Left, Trusted, HostFiles
<1>6. Carries(k, TRUE, s6, Stood(x), Stood(y))
  <2>1. r5 \cup {"user"} \cup (IF k.certificates THEN {"trust-store"} ELSE {}) = Owned(k)
    BY <1>1, <1>2 DEF Owned
  <2>2. "sudoers" \in st => "sudoers" \in r5 OBVIOUS
  <2>3. r5 \subseteq Owned(k) BY <2>1
  <2> HIDE DEF r5, b, a
  <2>4. Needed(n, x) BY <2>2 DEF Needed, All, At, ImageFiles
  <2>5. b \cap {"user", "trust-store"} = {} /\ a \cap {"user", "trust-store"} = {}
    BY DEF b, a, Left, Trusted
  <2>6. Written(w, x, y)
    <3>1. DOMAIN w = {"user"} \cup (IF k.certificates THEN {"trust-store"} ELSE {}) BY <1>2 DEF All
    <3>2. \A p \in DOMAIN w : w[p] = "recipe" BY DEF All
    <3> HIDE DEF w
    <3>3. DOMAIN w \subseteq ImageFiles BY <3>1 DEF ImageFiles
    <3>4. \A p \in DOMAIN w : p \notin b /\ p \notin HostFiles /\ p \notin a BY <2>5, <3>1 DEF HostFiles
    <3>5. \A p : p \notin DOMAIN w /\ p \in Owned(k) => p \in r5 BY <2>1, <3>1
    <3> HIDE DEF Owned
    <3> QED BY <3>2, <3>3, <3>4, <3>5 DEF Written, At, Contents
  <2>7. Spoken(k, "provision", x.said) BY EarlierPhases DEF Spoken, At
  <2>8. "provision" \in Sayings /\ {} \subseteq WorkFiles /\ {} \subseteq x.given BY DEF Sayings
  <2>9. y.given \subseteq x.given \cup {} /\ y.said \subseteq x.said \cup {"provision"} BY DEF At
  <2> HIDE DEF x, y, n, w
  <2>10. Carries(k, TRUE, <<Do("provision", {}, n, w, {})>>, Stood(x), Stood(y))
    BY <2>4, <2>6, <2>7, <2>8, <2>9, StepLeads
  <2> QED BY <2>10 DEF ProvisionScript, n, w
<1> HIDE DEF b, a
<1>a. Carries(k, TRUE, s1, Stood(At(b, HostFiles, {}, a, g, Basics)), Stood(At(b, HostFiles, r1, a, g, Basics)))
  BY <1>3, <1>4, <1>5, UploadLeads
<1> HIDE DEF r1
<1>b. Carries(k, TRUE, s2, Stood(At(b, HostFiles, r1, a, g, Basics)), Stood(At(b, HostFiles, r2, a, g, Basics)))
  BY <1>3, <1>4, <1>5, UploadLeads
<1> HIDE DEF r2
<1>c. Carries(k, TRUE, s3, Stood(At(b, HostFiles, r2, a, g, Basics)), Stood(At(b, HostFiles, r3, a, g, Basics)))
  BY <1>3, <1>4, <1>5, UploadLeads
<1> HIDE DEF r3
<1>d. Carries(k, TRUE, s4, Stood(At(b, HostFiles, r3, a, g, Basics)), Stood(At(b, HostFiles, r4, a, g, Basics)))
  BY <1>3, <1>4, <1>5, UploadLeads
<1> HIDE DEF r4
<1>e. Carries(k, TRUE, s5, Stood(At(b, HostFiles, r4, a, g, Basics)), Stood(At(b, HostFiles, r5, a, g, Basics)))
  BY <1>3, <1>4, <1>5, UploadLeads
<1>7. HeadHooks(st) = s1 \o s2 \o s3 \o s4 \o s5 \o s6 BY DEF HeadHooks
<1> HIDE DEF r5, s1, s2, s3, s4, s5, s6
<1> DEFINE P == Stood(At(b, HostFiles, {}, a, g, Basics))
<1>8. Carries(k, TRUE, s1 \o s2, P, Stood(At(b, HostFiles, r2, a, g, Basics)))
  BY <1>a, <1>b, CarriesConcat
<1>9. Carries(k, TRUE, s1 \o s2 \o s3, P, Stood(At(b, HostFiles, r3, a, g, Basics)))
  BY <1>8, <1>c, CarriesConcat
<1>10. Carries(k, TRUE, s1 \o s2 \o s3 \o s4, P, Stood(At(b, HostFiles, r4, a, g, Basics)))
  BY <1>9, <1>d, CarriesConcat
<1>11. Carries(k, TRUE, s1 \o s2 \o s3 \o s4 \o s5, P, Stood(x)) BY <1>10, <1>e, CarriesConcat
<1> HIDE DEF x, y
<1>12. Carries(k, TRUE, s1 \o s2 \o s3 \o s4 \o s5 \o s6, P, Stood(y)) BY <1>11, <1>6, CarriesConcat
<1> QED BY <1>7, <1>12 DEF st, b, a, y

-----------------------------------------------------------------------------
(* The hooks of a disk image's first boot; a tarball's lose the host's.    *)
BootFiles(k) == IF Disk(k) THEN {"fstab", "hostname", "password", "resolv.conf"} ELSE {}
Remains(k) == Trusted(k) \cup {"apt-lists"}

LEMMA BootLeads ==
  ASSUME NEW k \in UbuntuKinds, NEW r, NEW g, NEW u, Basics \subseteq u,
         "user" \in r, r \cap (HostFiles \cup {"fstab", "password", "per-machine"}) = {}
  PROVE  Carries(k, TRUE, IF Disk(k) THEN DiskHooks ELSE <<Delete({"resolv.conf", "hostname"})>>,
                 Stood(At(Left(k), HostFiles, r, {"dpkg-status"}, g, u)),
                 Stood(At(Remains(k), {}, r \cup BootFiles(k), {"dpkg-status"}, g, u)))
<1> DEFINE a == {"dpkg-status"}
<1>1. AptTrusts(k) \in BOOLEAN /\ Disk(k) \in BOOLEAN BY KindFields DEF UbuntuKinds
<1>2. CASE ~Disk(k)
  <2> DEFINE ps == {"resolv.conf", "hostname"}
  <2>1. Left(k) = Remains(k) BY <1>2 DEF Left, Remains
  <2>2. Remains(k) \ ps = Remains(k) BY DEF Remains, Trusted
  <2>3. HostFiles \ ps = {} BY DEF HostFiles
  <2>4. r \ ps = r /\ r \cup BootFiles(k) = r BY <1>2 DEF HostFiles, BootFiles
  <2>5. a \ ps = a OBVIOUS
  <2>6. ps \in SUBSET ImageFiles BY DEF ImageFiles
  <2> HIDE DEF ps, a
  <2>7. Carries(k, TRUE, <<Delete(ps)>>, Stood(At(Remains(k), HostFiles, r, a, g, u)),
                Stood(At(Remains(k) \ ps, HostFiles \ ps, r \ ps, a \ ps, g, u)))
    BY <2>6, DeleteLeads
  <2> QED BY <1>2, <2>1, <2>2, <2>3, <2>4, <2>5, <2>7 DEF ps, a
<1>3. CASE Disk(k)
  <2> DEFINE x1 == At(Left(k), HostFiles, r, a, g, u)
             x2 == At(Left(k), HostFiles, r \cup {"fstab"}, a, g, u)
             x3 == At(Left(k), {"resolv.conf"}, r \cup {"fstab", "hostname"}, a, g, u)
             x4 == At(Remains(k), {}, r \cup BootFiles(k), a, g, u)
             w3 == Onto(All({"password", "resolv.conf"}, "recipe"), All({"per-machine"}, "none"))
  <2>1. Left(k) = Remains(k) \cup {"per-machine"} /\ BootFiles(k) = {"fstab", "hostname", "password", "resolv.conf"}
        /\ Remains(k) \cap {"fstab", "hostname", "password", "resolv.conf", "per-machine", "user"} = {}
    BY <1>3 DEF Left, Remains, Trusted, BootFiles
  <2>2. Spoken(k, "provision", u) BY EarlierPhases DEF Spoken
  <2>3. Written(All({"fstab"}, "recipe"), x1, x2)
    BY <2>1 DEF Written, All, At, HostFiles, ImageFiles, Contents
  <2>4. Written(All({"hostname"}, "recipe"), x2, x3)
    BY <2>1 DEF Written, All, At, HostFiles, ImageFiles, Contents
  <2>5. Written(w3, x3, x4)
    <3>1. /\ DOMAIN w3 = {"password", "resolv.conf", "per-machine"}
          /\ w3["password"] = "recipe" /\ w3["resolv.conf"] = "recipe" /\ w3["per-machine"] = "none"
      BY DEF Onto, All
    <3> HIDE DEF w3
    <3> QED BY <3>1, <2>1 DEF Written, At, HostFiles, ImageFiles, Contents
  <2>6. Needed(<<>>, x1) /\ Needed(<<>>, x2) BY DEF Needed
  <2>7. Needed(All({"user", "hostname"}, "recipe"), x3) BY DEF Needed, All, At, ImageFiles
  <2>8. /\ x1.said = u /\ x2.said = u /\ x3.said = u /\ x4.said = u
        /\ x1.given = g /\ x2.given = g /\ x3.given = g /\ x4.given = g
    BY DEF At
  <2>9. "provision" \in Sayings BY DEF Sayings
  <2> HIDE DEF x1, x2, x3, x4, w3
  <2>a. Carries(k, TRUE, <<Do("provision", {}, <<>>, All({"fstab"}, "recipe"), {})>>, Stood(x1), Stood(x2))
    BY <2>2, <2>3, <2>6, <2>8, <2>9, StepLeads
  <2>b. Carries(k, TRUE, <<Do("provision", {}, <<>>, All({"hostname"}, "recipe"), {})>>, Stood(x2), Stood(x3))
    BY <2>2, <2>4, <2>6, <2>8, <2>9, StepLeads
  <2>c. Carries(k, TRUE, <<Do("provision", {}, All({"user", "hostname"}, "recipe"), w3, {})>>,
                Stood(x3), Stood(x4))
    BY <2>2, <2>5, <2>7, <2>8, <2>9, StepLeads
  <2>10. DiskHooks = <<Upload("fstab", "recipe")>> \o <<Upload("hostname", "recipe")>>
                     \o <<Do("provision", {}, All({"user", "hostname"}, "recipe"), w3, {})>>
    BY DEF DiskHooks, w3
  <2>11. Carries(k, TRUE, <<Upload("fstab", "recipe")>> \o <<Upload("hostname", "recipe")>>, Stood(x1), Stood(x3))
    BY <2>a, <2>b, CarriesConcat DEF Upload
  <2>12. Carries(k, TRUE, DiskHooks, Stood(x1), Stood(x4)) BY <2>10, <2>11, <2>c, CarriesConcat
  <2> QED BY <1>3, <2>12 DEF x1, x4
<1> QED BY <1>1, <1>2, <1>3

-----------------------------------------------------------------------------
(* The last hooks: apt's marks and what the lock is written from.          *)
HooksGive(k) == {"dpkg-status"} \cup (IF k.offline THEN {} ELSE {"lists", "marks"})
Marks(k) == IF k.offline THEN {"extended_states"} ELSE {}
LEMMA TailLeads ==
  ASSUME NEW k \in UbuntuKinds, NEW r, NEW g, NEW u, Basics \subseteq u,
         "extended_states" \notin r, NEW steps, NEW P,
         Carries(k, TRUE, steps, P, Stood(At(Remains(k), {}, r, {"dpkg-status"}, g, u)))
  PROVE  LET st == WriteStage(k)
         IN  Carries(k, TRUE,
               steps \o When("auto-marks" \in st, <<Upload("extended_states", "recipe")>>)
               \o When("lists" \in st, <<Download("apt-lists", "build", "lists")>>)
               \o When("extended-states" \in st,
                       <<Upload("extended_states", "archive"), Download("extended_states", "archive", "marks")>>)
               \o <<Download("dpkg-status", "archive", "dpkg-status")>>,
               P, Stood(At(Remains(k), {}, r \cup Marks(k), {}, g \cup HooksGive(k), u)))
<1> DEFINE st == WriteStage(k)
           b == Remains(k)
           a == {"dpkg-status"}
           If(c, e) == IF c THEN {e} ELSE {}
           r1 == r \cup If("auto-marks" \in st, "extended_states")
           g2 == g \cup If("lists" \in st, "lists")
           a3 == a \cup If("extended-states" \in st, "extended_states")
           g3 == g2 \cup If("extended-states" \in st, "marks")
           g4 == g3 \cup If(TRUE, "dpkg-status")
           s1 == When("auto-marks" \in st, <<Upload("extended_states", "recipe")>>)
           s2 == When("lists" \in st, <<Download("apt-lists", "build", "lists")>>)
           s3 == When("extended-states" \in st,
                      <<Upload("extended_states", "archive"), Download("extended_states", "archive", "marks")>>)
           s4 == When(TRUE, <<Download("dpkg-status", "archive", "dpkg-status")>>)
           x1 == At(b, {}, r, a, g, u)
           x2 == At(b, {}, r1, a, g, u)
           x3 == At(b, {}, r1, a, g2, u)
           x4 == At(b, {}, r1, a3, g3, u)
           x5 == At(b, {}, r1, a3, g4, u)
           y  == At(b, {}, r \cup Marks(k), {}, g \cup HooksGive(k), u)
<1>1. k.offline \in BOOLEAN /\ AptTrusts(k) \in BOOLEAN BY KindFields DEF UbuntuKinds
<1>2. /\ ("auto-marks" \in st <=> k.offline) /\ ("lists" \in st <=> ~k.offline)
      /\ ("extended-states" \in st <=> ~k.offline)
  BY StageHolds
<1>3. ("auto-marks" \in st) \in BOOLEAN /\ ("lists" \in st) \in BOOLEAN /\ ("extended-states" \in st) \in BOOLEAN
  OBVIOUS
<1> HIDE DEF st
<1>4. /\ "extended_states" \in ImageFiles /\ "apt-lists" \in ImageFiles /\ "dpkg-status" \in ImageFiles
      /\ "lists" \in WorkFiles /\ "marks" \in WorkFiles /\ "dpkg-status" \in WorkFiles
  BY DEF ImageFiles, WorkFiles
<1>5. "extended_states" \notin b /\ "extended_states" \notin a /\ "apt-lists" \in b
  BY DEF Remains, Trusted
<1>6. Stood(x5) \subseteq Stood(y)
  <2>1. r1 = r \cup Marks(k) BY <1>1, <1>2 DEF Marks
  <2>2. g4 = g \cup HooksGive(k) BY <1>1, <1>2 DEF HooksGive
  <2> HIDE DEF r1, g4
  <2> QED BY <2>1, <2>2 DEF Stood, At
<1>7. Carries(k, TRUE, s3, Stood(x3), Stood(x4))
  <2> DEFINE d1 == Upload("extended_states", "archive")
             d2 == Download("extended_states", "archive", "marks")
             z == At(b, {}, r1, a3, g2, u)
  <2>1. ASSUME "extended-states" \in st PROVE Carries(k, TRUE, <<d1>>, Stood(x3), Stood(z))
    <3>1. "extended_states" \notin r1 BY <2>1, <1>1, <1>2
    <3> DEFINE w == All({"extended_states"}, "archive")
    <3> HIDE DEF r1, b
    <3>2. Written(w, x3, z) BY <3>1, <1>4, <1>5 DEF Written, All, At, Contents
    <3>3. Needed(<<>>, x3) BY DEF Needed
    <3>4. Spoken(k, "provision", x3.said) BY EarlierPhases DEF Spoken, At
    <3>5. "provision" \in Sayings /\ z.given \subseteq x3.given /\ z.said \subseteq x3.said
      BY DEF Sayings, At
    <3> HIDE DEF w, x3, z
    <3>6. Carries(k, TRUE, <<Do("provision", {}, <<>>, w, {})>>, Stood(x3), Stood(z))
      BY <3>2, <3>3, <3>4, <3>5, StepLeads
    <3> QED BY <3>6 DEF Upload, w
  <2>2. ASSUME "extended-states" \in st PROVE Carries(k, TRUE, <<d2>>, Stood(z), Stood(x4))
    <3>1. "extended_states" \in a3 BY <2>2
    <3>2. g3 = g2 \cup (IF TRUE THEN {"marks"} ELSE {}) BY <2>2
    <3>3. TRUE \in BOOLEAN OBVIOUS
    <3> HIDE DEF r1, b, a3, g2, g3
    <3>4. Carries(k, TRUE, When(TRUE, <<d2>>), Stood(z),
                  Stood(At(b, {}, r1, a3, g2 \cup (IF TRUE THEN {"marks"} ELSE {}), u)))
      BY <3>1, <3>3, <1>4, DownloadLeads
    <3> QED BY <3>2, <3>4 DEF When
  <2>3. ASSUME "extended-states" \notin st PROVE Stood(x3) \subseteq Stood(x4)
    <3>1. a3 = a /\ g3 = g2 BY <2>3
    <3> QED BY <3>1
  <2>4. Stood(x3) \in SUBSET States BY DEF Stood
  <2>5. <<d1, d2>> = <<d1>> \o <<d2>> OBVIOUS
  <2> HIDE DEF d1, d2, x3, x4, z
  <2>6. "extended-states" \in st => Carries(k, TRUE, <<d1>> \o <<d2>>, Stood(x3), Stood(x4))
    BY <2>1, <2>2, CarriesConcat
  <2>7. "extended-states" \in st => Carries(k, TRUE, <<d1, d2>>, Stood(x3), Stood(x4)) BY <2>5, <2>6
  <2>8. Carries(k, TRUE, When("extended-states" \in st, <<d1, d2>>), Stood(x3), Stood(x4))
    BY <1>3, <2>3, <2>4, <2>7, CarriesWhen
  <2> QED BY <2>8 DEF d1, d2
<1>8. "dpkg-status" \in a3 OBVIOUS
<1> HIDE DEF b, a, a3, g3
<1>a. Carries(k, TRUE, s1, Stood(x1), Stood(x2)) BY <1>3, <1>4, <1>5, UploadLeads
<1> HIDE DEF r1
<1>b. Carries(k, TRUE, s2, Stood(x2), Stood(x3)) BY <1>3, <1>4, <1>5, DownloadLeads
<1> HIDE DEF g2
<1>c. Carries(k, TRUE, s4, Stood(x4), Stood(x5))
  <2>1. TRUE \in BOOLEAN OBVIOUS
  <2> QED BY <2>1, <1>4, <1>8, DownloadLeads
<1>9. s4 = <<Download("dpkg-status", "archive", "dpkg-status")>> BY DEF When
<1>d. Carries(k, TRUE, steps, P, Stood(x1)) BY DEF b, a
<1> HIDE DEF s1, s2, s3, s4, x1, x2, x3, x4, x5, y
<1>10. Carries(k, TRUE, steps \o s1, P, Stood(x2)) BY <1>d, <1>a, CarriesConcat
<1>11. Carries(k, TRUE, steps \o s1 \o s2, P, Stood(x3)) BY <1>10, <1>b, CarriesConcat
<1>12. Carries(k, TRUE, steps \o s1 \o s2 \o s3, P, Stood(x4)) BY <1>11, <1>7, CarriesConcat
<1>13. Carries(k, TRUE, s4, Stood(x4), Stood(y)) BY <1>c, <1>6 DEF Carries
<1>14. Carries(k, TRUE, steps \o s1 \o s2 \o s3 \o s4, P, Stood(y)) BY <1>12, <1>13, CarriesConcat
<1> QED BY <1>9, <1>14 DEF st, y, b, a, s1, s2, s3

-----------------------------------------------------------------------------
(* The image's program as a whole.                                         *)
Kept(k)     == Owned(k) \cup Venv(k) \cup BootFiles(k) \cup Marks(k)
AllButTheEnd(k) == Basics \cup {"provision"} \cup Python(k) \cup {"create-tarball"}
Given(k)    == PipGiven(k) \cup HooksGive(k) \cup {"tarball"}

(* An image that may be placed: nothing of the build or of its host, all   *)
(* the recipe promises; with the work files the lock and the disk need.    *)
Made(k, files) ==
  {s \in States :
     /\ \A p \in ImageFiles : s.image[p] \notin {"build", "host"}
     /\ \A p \in Promised(k) : s.image[p] = "recipe"
     /\ files \subseteq s.given /\ Announced(k) \subseteq s.said}

LEMMA CustomizeLeads ==
  ASSUME NEW k \in UbuntuKinds, NEW g
  PROVE  Carries(k, TRUE, CustomizeHooks(k, WriteStage(k)),
                 Stood(At(Left(k), HostFiles, {}, {"dpkg-status"}, g, Basics)),
                 Stood(At(Remains(k), {}, Kept(k), {}, g \cup PipGiven(k) \cup HooksGive(k),
                          Basics \cup {"provision"} \cup Python(k))))
<1> DEFINE st == WriteStage(k)
           a == {"dpkg-status"}
           u1 == Basics \cup {"provision"}
           u2 == u1 \cup Python(k)
           g2 == g \cup PipGiven(k)
           r1 == Owned(k)
           r2 == r1 \cup Venv(k)
           r3 == r2 \cup BootFiles(k)
           x1 == Stood(At(Left(k), HostFiles, {}, a, g, Basics))
           x2 == Stood(At(Left(k), HostFiles, r1, a, g, u1))
           x3 == Stood(At(Left(k), HostFiles, r2, a, g2, u2))
           x4 == Stood(At(Remains(k), {}, r3, a, g2, u2))
           x5 == Stood(At(Remains(k), {}, r3 \cup Marks(k), {}, g2 \cup HooksGive(k), u2))
           s3 == IF Disk(k) THEN DiskHooks ELSE <<Delete({"resolv.conf", "hostname"})>>
<1>1. /\ k.certificates \in BOOLEAN /\ k.python \in BOOLEAN /\ Disk(k) \in BOOLEAN /\ k.offline \in BOOLEAN
      /\ AptTrusts(k) \in BOOLEAN /\ k.sudo \in BOOLEAN /\ k.keys \in BOOLEAN
  BY KindFields DEF UbuntuKinds
<1>2. /\ k.certificates => "trust-store" \in r1
      /\ Left(k) \cap (PipFiles \cup {"venv"}) = {}
      /\ r1 \cap PipFiles = {}
  <2>1. k.certificates => "trust-store" \in r1 BY DEF Owned
  <2>2. Left(k) \cap (PipFiles \cup {"venv"}) = {} BY DEF Left, Trusted, PipFiles
  <2>3. r1 \cap PipFiles = {} BY DEF Owned, PipFiles
  <2> QED BY <2>1, <2>2, <2>3
<1>3. /\ "user" \in r2 /\ r2 \cap (HostFiles \cup {"fstab", "password", "per-machine"}) = {}
      /\ "extended_states" \notin r3
  <2>1. "user" \in r2 BY DEF Owned
  <2>2. r2 \cap (HostFiles \cup {"fstab", "password", "per-machine"}) = {} BY DEF Owned, Venv, HostFiles
  <2>3. "extended_states" \notin r3 BY DEF Owned, Venv, BootFiles
  <2> QED BY <2>1, <2>2, <2>3
<1>4. Basics \subseteq u2 OBVIOUS
<1>5. ("disk-script" \in st) <=> Disk(k) BY StageHolds
<1>6. CustomizeHooks(k, st) =
        HeadHooks(st) \o PythonHooks(k, st) \o s3
        \o When("auto-marks" \in st, <<Upload("extended_states", "recipe")>>)
        \o When("lists" \in st, <<Download("apt-lists", "build", "lists")>>)
        \o When("extended-states" \in st,
                <<Upload("extended_states", "archive"), Download("extended_states", "archive", "marks")>>)
        \o <<Download("dpkg-status", "archive", "dpkg-status")>>
  BY <1>5 DEF CustomizeHooks, HeadHooks
<1>a. Carries(k, TRUE, HeadHooks(st), x1, x2) BY HeadLeads
<1>b. Carries(k, TRUE, PythonHooks(k, st), x2, x3) BY <1>2, PythonLeads
<1> HIDE DEF u2, g2, r1, r2
<1>c. Carries(k, TRUE, s3, x3, x4) BY <1>3, <1>4, BootLeads
<1> HIDE DEF r3
<1> HIDE DEF s3
<1>7. Carries(k, TRUE, HeadHooks(st) \o PythonHooks(k, st), x1, x3) BY <1>a, <1>b, CarriesConcat
<1>8. Carries(k, TRUE, HeadHooks(st) \o PythonHooks(k, st) \o s3, x1, x4) BY <1>7, <1>c, CarriesConcat
<1>9. Carries(k, TRUE, CustomizeHooks(k, st), x1, x5)
  <2> DEFINE hooks == HeadHooks(st) \o PythonHooks(k, st) \o s3
  <2>1. Carries(k, TRUE, hooks, x1, x4) BY <1>8
  <2> HIDE DEF hooks, x1, u2, g2
  <2>2. Carries(k, TRUE,
               hooks \o When("auto-marks" \in st, <<Upload("extended_states", "recipe")>>)
               \o When("lists" \in st, <<Download("apt-lists", "build", "lists")>>)
               \o When("extended-states" \in st,
                       <<Upload("extended_states", "archive"), Download("extended_states", "archive", "marks")>>)
               \o <<Download("dpkg-status", "archive", "dpkg-status")>>, x1, x5)
    BY <2>1, <1>3, <1>4, TailLeads
  <2> QED BY <2>2, <1>6 DEF hooks
<1> HIDE DEF st, x1, x2, x3, x4, x5
<1> QED BY <1>9 DEF st, x1, x5, a, r1, r2, r3, g2, u1, u2, Kept

(* The last hook undoes what apt trusted, the tarball is made without      *)
(* apt's lists, and the end is said once.                                  *)
LEMMA ImageLeads ==
  ASSUME NEW k \in UbuntuKinds, NEW g
  PROVE  Carries(k, TRUE, ImageProgram(k), Stood(At({}, {}, {}, {}, g, {})), Made(k, g \cup Given(k)))
<1> DEFINE c == TrustCleanup(k)
           d1 == Do("create-tarball", {}, <<>>, All({"apt-lists"}, "none"), {})
           d2 == Do("nothing", {}, <<>>, <<>>, {"tarball"})
           d3 == Do("done", {}, <<>>, <<>>, {})
           u == Basics \cup {"provision"} \cup Python(k)
           g1 == g \cup PipGiven(k) \cup HooksGive(k)
           x0 == Stood(At({}, {}, {}, {}, g, {}))
           x1 == Stood(At(Trusted(k), HostFiles, {}, {}, g, {}))
           x2 == Stood(At(Left(k), HostFiles, {}, {"dpkg-status"}, g, Basics))
           x3 == At(Remains(k), {}, Kept(k), {}, g1, u)
           x4 == At({"apt-lists"}, {}, Kept(k), {}, g1, u)
           x5 == At({}, {}, Kept(k), {}, g1, AllButTheEnd(k))
           x6 == At({}, {}, Kept(k), {}, g \cup Given(k), AllButTheEnd(k))
<1>1. /\ k.certificates \in BOOLEAN /\ k.python \in BOOLEAN /\ Disk(k) \in BOOLEAN /\ k.offline \in BOOLEAN
      /\ AptTrusts(k) \in BOOLEAN /\ k.sudo \in BOOLEAN /\ k.keys \in BOOLEAN /\ ~Fedora(k)
  BY KindFields DEF UbuntuKinds
<1>2. Basics \subseteq u OBVIOUS
<1>3. Kept(k) \cap {"apt-trust", "apt-lists"} = {}
  <2>1. Owned(k) \cap {"apt-trust", "apt-lists"} = {} BY DEF Owned
  <2>2. (Venv(k) \cup BootFiles(k) \cup Marks(k)) \cap {"apt-trust", "apt-lists"} = {}
    BY DEF Venv, BootFiles, Marks
  <2> QED BY <2>1, <2>2 DEF Kept
<1>a. Carries(k, TRUE, Setup(k), x0, x1) BY SetupLeads
<1>b. Carries(k, TRUE, AptAndDpkg(k), x1, x2) BY AptLeads
<1>c. Carries(k, TRUE, CustomizeHooks(k, WriteStage(k)), x2, Stood(x3)) BY CustomizeLeads
<1>d. Carries(k, TRUE, c, Stood(x3), Stood(x4))
  <2> DEFINE ps == {"apt-trust"}
  <2>1. Remains(k) \ ps = {"apt-lists"} BY DEF Remains, Trusted
  <2>2. Kept(k) \ ps = Kept(k) BY <1>3
  <2>3. {} \ ps = {} OBVIOUS
  <2>4. ps \in SUBSET ImageFiles BY DEF ImageFiles
  <2>5. ~AptTrusts(k) => Remains(k) = {"apt-lists"} BY DEF Remains, Trusted
  <2>6. Stood(x3) \in SUBSET States BY DEF Stood
  <2>7. ~AptTrusts(k) => Stood(x3) \subseteq Stood(x4) BY <2>5
  <2> HIDE DEF ps, u, g1
  <2>8. Carries(k, TRUE, <<Delete(ps)>>, Stood(x3), Stood(At(Remains(k) \ ps, {} \ ps, Kept(k) \ ps, {} \ ps, g1, u)))
    BY <1>2, <2>4, DeleteLeads DEF u
  <2>9. Carries(k, TRUE, <<Delete(ps)>>, Stood(x3), Stood(x4)) BY <2>1, <2>2, <2>3, <2>8
  <2> HIDE DEF x3, x4
  <2> QED BY <1>1, <2>6, <2>7, <2>9, CarriesWhen DEF TrustCleanup, ps
<1>e. Carries(k, TRUE, <<d1>>, Stood(x4), Stood(x5))
  <2> DEFINE w == All({"apt-lists"}, "none")
  <2>1. Written(w, x4, x5) BY <1>3 DEF Written, All, At, ImageFiles, Contents
  <2>2. Needed(<<>>, x4) BY DEF Needed
  <2>3. Spoken(k, "create-tarball", x4.said) BY EarlierPhases DEF Spoken, At, Python
  <2>4. "create-tarball" \in Sayings /\ x5.given \subseteq x4.given /\ {} \subseteq WorkFiles
        /\ x5.said \subseteq x4.said \cup {"create-tarball"}
    BY DEF Sayings, At, AllButTheEnd
  <2> HIDE DEF w, x4, x5
  <2>5. Carries(k, TRUE, <<Do("create-tarball", {}, <<>>, w, {})>>, Stood(x4), Stood(x5))
    BY <2>1, <2>2, <2>3, <2>4, StepLeads
  <2> QED BY <2>5 DEF w
<1>f. Carries(k, TRUE, <<d2>>, Stood(x5), Stood(x6))
  <2>1. Written(<<>>, x5, x6) BY DEF Written, At
  <2>2. Needed(<<>>, x5) BY DEF Needed
  <2>3. Spoken(k, "nothing", x5.said) BY DEF Spoken
  <2>4. "nothing" \in Sayings /\ x6.given \subseteq x5.given \cup {"tarball"} /\ {"tarball"} \subseteq WorkFiles
        /\ x6.said \subseteq x5.said \cup {"nothing"}
    BY DEF Sayings, At, Given, WorkFiles
  <2> HIDE DEF x5, x6
  <2> QED BY <2>1, <2>2, <2>3, <2>4, StepLeads
<1>g. Carries(k, TRUE, <<d3>>, Stood(x6), Made(k, g \cup Given(k)))
  <2>1. ASSUME NEW s \in Stood(x6)
        PROVE  Fits(k, TRUE, d3, s) /\ Taken(TRUE, d3, s) \in Made(k, g \cup Given(k))
    <3>1. d3.says = "done" /\ d3.takes = {} /\ d3.needs = <<>> /\ d3.writes = <<>> /\ d3.gives = {}
      BY DEF Do
    <3> HIDE DEF d3
    <3>2. /\ s \in States /\ g \cup Given(k) \subseteq s.given /\ AllButTheEnd(k) \subseteq s.said
          /\ "done" \notin s.said
      BY DEF Stood, At
    <3>3. \A p \in ImageFiles : s.image[p] \notin {"build", "host"} /\ (p \in Kept(k) => s.image[p] = "recipe")
      BY DEF Stood, At
    <3>4. Announced(k) = AllButTheEnd(k) \cup {"done"} /\ "done" \notin AllButTheEnd(k)
      BY <1>1 DEF Announced, AllButTheEnd, Basics, Python
    <3>5. Speaks(k, "done", s.said) BY <3>2, <3>4, EarlierPhases DEF Speaks
    <3>6. Fits(k, TRUE, d3, s) BY <3>1, <3>5 DEF Fits
    <3> DEFINE t == Taken(TRUE, d3, s)
    <3>7. t = [image |-> Onto(<<>>, s.image), given |-> s.given, said |-> s.said \cup {"done"}]
      BY <3>1 DEF Taken
    <3> HIDE DEF t
    <3>8. Onto(<<>>, s.image) = s.image
      <4>1. DOMAIN s.image = ImageFiles /\ s.image = [p \in ImageFiles |-> s.image[p]]
        BY <3>2 DEF States
      <4>2. Onto(<<>>, s.image) = [p \in ImageFiles |-> s.image[p]] BY <4>1 DEF Onto
      <4> QED BY <4>1, <4>2
    <3>9. t.image = s.image /\ t.given = s.given /\ t.said = s.said \cup {"done"} BY <3>7, <3>8
    <3>10. t \in States BY <3>2, <3>7, <3>8 DEF States, Sayings
    <3>11. Promised(k) \subseteq Kept(k) /\ Promised(k) \subseteq ImageFiles
      <4>1. Promised(k) \subseteq Kept(k)
        BY <1>1 DEF Promised, Kept, Owned, Venv, BootFiles
      <4>2. Promised(k) \subseteq ImageFiles BY <1>1 DEF Promised, ImageFiles
      <4> QED BY <4>1, <4>2
    <3> HIDE DEF t
    <3> QED BY <3>2, <3>3, <3>4, <3>6, <3>9, <3>10, <3>11 DEF Made, t
  <2>2. Stood(x6) \in SUBSET States /\ Made(k, g \cup Given(k)) \in SUBSET States BY DEF Stood, Made
  <2> HIDE DEF d3, x6
  <2> QED BY <2>1, <2>2, CarriesOne
<1>3a. ImageProgram(k) = Setup(k) \o AptAndDpkg(k) \o CustomizeHooks(k, WriteStage(k)) \o c \o <<d1, d2, d3>>
  BY DEF ImageProgram
<1>3b. <<d1, d2, d3>> = <<d1>> \o <<d2>> \o <<d3>> OBVIOUS
<1> HIDE DEF c, d1, d2, d3, x0, x1, x2, x3, x4, x5, x6
<1>4. Carries(k, TRUE, Setup(k) \o AptAndDpkg(k), x0, x2) BY <1>a, <1>b, CarriesConcat
<1>5. Carries(k, TRUE, Setup(k) \o AptAndDpkg(k) \o CustomizeHooks(k, WriteStage(k)), x0, Stood(x3))
  BY <1>4, <1>c, CarriesConcat
<1>6. Carries(k, TRUE, Setup(k) \o AptAndDpkg(k) \o CustomizeHooks(k, WriteStage(k)) \o c, x0, Stood(x4))
  BY <1>5, <1>d, CarriesConcat
<1>7. Carries(k, TRUE, <<d1>> \o <<d2>>, Stood(x4), Stood(x6)) BY <1>e, <1>f, CarriesConcat
<1>8. Carries(k, TRUE, <<d1, d2, d3>>, Stood(x4), Made(k, g \cup Given(k)))
  BY <1>3b, <1>7, <1>g, CarriesConcat
<1>9. Carries(k, TRUE, ImageProgram(k), x0, Made(k, g \cup Given(k)))
  BY <1>3a, <1>6, <1>8, CarriesConcat
<1> QED BY <1>9 DEF x0

-----------------------------------------------------------------------------
(* mkosi's image.                                                          *)
FedoraKinds == {k \in AllKinds : Fedora(k) /\ FedoraSupported(k)}
FedoraGiven(k) == {"installed", "tar"} \cup (IF k.offline THEN {} ELSE {"locations"})

LEMMA FedoraFields ==
  ASSUME NEW k \in FedoraKinds
  PROVE  /\ k \in AllKinds /\ Fedora(k) /\ ~Disk(k) /\ k.offline \in BOOLEAN /\ k.sudo \in BOOLEAN
         /\ ~k.python /\ ~k.certificates /\ ~k.keys
BY KindFields DEF FedoraKinds, FedoraSupported, Disk

LEMMA EarlierFedora ==
  ASSUME NEW k \in FedoraKinds
  PROVE  /\ Announced(k) = {"install-requested", "provision", "create-tarball"}
         /\ Earlier(k, "install-requested") = {}
         /\ Earlier(k, "provision") = {"install-requested"}
         /\ Earlier(k, "create-tarball") = {"install-requested", "provision"}
<1>1. Announced(k) = {"install-requested", "provision", "create-tarball"} BY FedoraFields DEF Announced
<1>2. Ord(k, "install-requested") = 8 /\ Ord(k, "provision") = 9 /\ Ord(k, "create-tarball") = 11
  BY DEF Ord
<1> HIDE DEF Ord
<1> QED BY <1>1, <1>2 DEF Earlier

LEMMA MkosiLeads ==
  ASSUME NEW k \in FedoraKinds, NEW g
  PROVE  Carries(k, TRUE, MkosiImage(k), Stood(At({}, {}, {}, {}, g, {})), Made(k, g \cup FedoraGiven(k)))
<1> DEFINE r == {"user", "wsl.conf"} \cup (IF k.sudo THEN {"sudoers"} ELSE {})
           h == {"resolv.conf"}
           b == {"apt-lists"}
           bl == {"apt-lists", "package-log"}
           q1 == {"install-requested"}
           q2 == {"install-requested", "provision"}
           r2 == r \cup (IF k.offline THEN {"reasons"} ELSE {})
           g1 == g \cup {"installed"}
           g2 == g1 \cup (IF k.offline THEN {} ELSE {"locations"})
           w1 == Onto(All({"resolv.conf"}, "host"), All({"apt-lists"}, "build"))
           w2 == All({"dpkg-status"}, "archive")
           w4 == All(r, "recipe")
           w5 == All({"reasons"}, "recipe")
           w6 == All({"package-log"}, "build")
           w8 == All({"package-log", "resolv.conf"}, "none")
           w9 == All({"apt-lists"}, "none")
           n7 == All({"apt-lists"}, "build")
           d1 == Do("nothing", {}, <<>>, w1, {})
           d2 == Do("install-requested", {}, <<>>, w2, {})
           d3 == Do("install-requested", {}, <<>>, <<>>, {})
           d4 == Do("provision", {}, <<>>, w4, {})
           d5 == Do("nothing", {}, <<>>, w5, {})
           d6 == Do("nothing", {}, <<>>, w6, {"installed"})
           d7 == Do("nothing", {}, n7, w6, {"locations"})
           d8 == Do("nothing", {}, <<>>, w8, {})
           d9 == Do("create-tarball", {}, <<>>, w9, {"tar"})
           x0 == At({}, {}, {}, {}, g, {})
           x1 == At(b, h, {}, {}, g, {})
           x2 == At(b, h, {}, {}, g, q1)
           x4 == At(b, h, r, {}, g, q2)
           x5 == At(b, h, r2, {}, g, q2)
           x6 == At(bl, h, r2, {}, g1, q2)
           x7 == At(bl, h, r2, {}, g2, q2)
           x8 == At(b, {}, r2, {}, g2, q2)
           x9 == At({}, {}, r2, {}, g \cup FedoraGiven(k), q2 \cup {"create-tarball"})
<1>1. k.offline \in BOOLEAN /\ k.sudo \in BOOLEAN BY FedoraFields
<1>2. /\ Needed(<<>>, x0) /\ Needed(<<>>, x1) /\ Needed(<<>>, x2) /\ Needed(<<>>, x4) /\ Needed(<<>>, x5)
      /\ Needed(<<>>, x7) /\ Needed(<<>>, x8)
  BY DEF Needed
<1>3. Needed(n7, x6) BY DEF Needed, All, At, ImageFiles
<1>4. /\ x0.given = g /\ x1.given = g /\ x2.given = g /\ x4.given = g /\ x5.given = g
      /\ x6.given = g1 /\ x7.given = g2 /\ x8.given = g2 /\ x9.given = g \cup FedoraGiven(k)
      /\ x0.said = {} /\ x1.said = {} /\ x2.said = q1 /\ x4.said = q2 /\ x5.said = q2
      /\ x6.said = q2 /\ x7.said = q2 /\ x8.said = q2 /\ x9.said = q2 \cup {"create-tarball"}
  BY DEF At
<1>5. /\ Spoken(k, "nothing", {}) /\ Spoken(k, "nothing", q2) /\ Spoken(k, "install-requested", {})
      /\ Spoken(k, "install-requested", q1)
      /\ Spoken(k, "provision", q1) /\ Spoken(k, "create-tarball", q2)
  BY EarlierFedora DEF Spoken
<1>6. {"nothing", "install-requested", "provision", "create-tarball"} \subseteq Sayings BY DEF Sayings
<1>7. {"installed", "locations", "tar"} \subseteq WorkFiles BY DEF WorkFiles
<1>8. /\ g1 \subseteq g \cup {"installed"}
      /\ ~k.offline => g2 \subseteq g1 \cup {"locations"}
  OBVIOUS
<1>9. g \cup FedoraGiven(k) \subseteq g2 \cup {"tar"} BY DEF FedoraGiven
<1>a. Written(w1, x0, x1)
  <2>1. DOMAIN w1 = {"resolv.conf", "apt-lists"} /\ w1["resolv.conf"] = "host" /\ w1["apt-lists"] = "build"
    BY DEF Onto, All
  <2> HIDE DEF w1
  <2> QED BY <2>1 DEF Written, At, ImageFiles, Contents
<1>b. Written(w2, x1, x2) /\ Written(<<>>, x2, x2) BY DEF Written, All, At, ImageFiles, Contents
<1>c. Written(w4, x2, x4) BY DEF Written, All, At, ImageFiles, Contents
<1>d. k.offline => Written(w5, x4, x5) BY DEF Written, All, At, ImageFiles, Contents
<1>e. Written(w6, x5, x6)
  <2>1. "package-log" \notin r2 OBVIOUS
  <2> HIDE DEF r2
  <2> QED BY <2>1 DEF Written, All, At, ImageFiles, Contents
<1>f. Written(w6, x6, x7)
  <2>1. "package-log" \notin r2 OBVIOUS
  <2> HIDE DEF r2
  <2> QED BY <2>1 DEF Written, All, At, ImageFiles, Contents
<1>g. Written(w8, x7, x8)
  <2>1. "package-log" \notin r2 /\ "resolv.conf" \notin r2 OBVIOUS
  <2> HIDE DEF r2
  <2> QED BY <2>1 DEF Written, All, At, ImageFiles, Contents
<1>h. Written(w9, x8, x9)
  <2>1. "apt-lists" \notin r2 OBVIOUS
  <2> HIDE DEF r2
  <2> QED BY <2>1 DEF Written, All, At, ImageFiles, Contents
<1>i. Stood(x9) \subseteq Made(k, g \cup FedoraGiven(k))
  <2>1. Promised(k) \subseteq r2 /\ Promised(k) \subseteq ImageFiles
    BY FedoraFields DEF Promised, ImageFiles
  <2>2. Announced(k) \subseteq q2 \cup {"create-tarball"} BY EarlierFedora
  <2> HIDE DEF r2
  <2> QED BY <2>1, <2>2 DEF Stood, Made, At
<1>j. (k.offline => Stood(x6) \subseteq Stood(x7)) /\ (~k.offline => Stood(x4) \subseteq Stood(x5)) OBVIOUS
<1>k. /\ Stood(x4) \in SUBSET States /\ Stood(x6) \in SUBSET States BY DEF Stood
<1>l. MkosiImage(k) = <<d1, d2, d3, d4>> \o (When(k.offline, <<d5>>) \o <<d6>> \o When(~k.offline, <<d7>>) \o <<d8>>)
                      \o <<d9>>
  BY DEF MkosiImage, FedoraFinalize
<1> HIDE DEF x0, x1, x2, x4, x5, x6, x7, x8, x9, w1, w2, w4, w5, w6, w8, w9, n7, r, r2, g1, g2, q1, q2
<1>q. q1 \subseteq {} \cup {"install-requested"} /\ q2 \subseteq q1 \cup {"provision"} BY DEF q1, q2
<1>s1. Carries(k, TRUE, <<d1>>, Stood(x0), Stood(x1)) BY <1>2, <1>4, <1>5, <1>6, <1>a, StepLeads
<1>s2. Carries(k, TRUE, <<d2>>, Stood(x1), Stood(x2))
  <2>1. /\ {} \subseteq x1.given /\ Needed(<<>>, x1) /\ Written(w2, x1, x2)
        /\ Spoken(k, "install-requested", x1.said) /\ "install-requested" \in Sayings /\ {} \in SUBSET WorkFiles
        /\ x2.given \subseteq x1.given \cup {} /\ x2.said \subseteq x1.said \cup {"install-requested"}
    BY <1>2, <1>4, <1>5, <1>6, <1>b, <1>q
  <2> QED BY <2>1, StepLeads
<1>s3. Carries(k, TRUE, <<d3>>, Stood(x2), Stood(x2)) BY <1>2, <1>4, <1>5, <1>6, <1>b, <1>q, StepLeads
<1>s4. Carries(k, TRUE, <<d4>>, Stood(x2), Stood(x4)) BY <1>2, <1>4, <1>5, <1>6, <1>c, <1>q, StepLeads
<1>s5. ASSUME k.offline PROVE Carries(k, TRUE, <<d5>>, Stood(x4), Stood(x5))
  BY <1>2, <1>4, <1>5, <1>6, <1>d, <1>s5, StepLeads
<1>s6. Carries(k, TRUE, <<d6>>, Stood(x5), Stood(x6))
  <2>1. /\ {} \subseteq x5.given /\ Needed(<<>>, x5) /\ Written(w6, x5, x6)
        /\ Spoken(k, "nothing", x5.said) /\ "nothing" \in Sayings /\ {"installed"} \in SUBSET WorkFiles
        /\ x6.given \subseteq x5.given \cup {"installed"} /\ x6.said \subseteq x5.said \cup {"nothing"}
    BY <1>2, <1>4, <1>5, <1>6, <1>7, <1>8, <1>e
  <2> QED BY <2>1, StepLeads
<1>s7. ASSUME ~k.offline PROVE Carries(k, TRUE, <<d7>>, Stood(x6), Stood(x7))
  <2>1. /\ {} \subseteq x6.given /\ Needed(n7, x6) /\ Written(w6, x6, x7)
        /\ Spoken(k, "nothing", x6.said) /\ "nothing" \in Sayings /\ {"locations"} \in SUBSET WorkFiles
        /\ x7.given \subseteq x6.given \cup {"locations"} /\ x7.said \subseteq x6.said \cup {"nothing"}
    BY <1>s7, <1>3, <1>4, <1>5, <1>6, <1>7, <1>8, <1>f
  <2> QED BY <2>1, StepLeads
<1>s8. Carries(k, TRUE, <<d8>>, Stood(x7), Stood(x8)) BY <1>2, <1>4, <1>5, <1>6, <1>g, StepLeads
<1>s9. Carries(k, TRUE, <<d9>>, Stood(x8), Stood(x9))
  BY <1>2, <1>4, <1>5, <1>6, <1>7, <1>9, <1>h, StepLeads
<1> HIDE DEF d1, d2, d3, d4, d5, d6, d7, d8, d9
<1>m. <<d1, d2, d3, d4>> = <<d1>> \o <<d2>> \o <<d3>> \o <<d4>>
  <2>1. <<d1, d2>> = <<d1>> \o <<d2>> BY TwoSteps
  <2>2. <<d1, d2, d3>> = <<d1, d2>> \o <<d3>> OBVIOUS
  <2>3. <<d1, d2, d3, d4>> = <<d1, d2, d3>> \o <<d4>> OBVIOUS
  <2> QED BY <2>1, <2>2, <2>3
<1>t1. Carries(k, TRUE, When(k.offline, <<d5>>), Stood(x4), Stood(x5))
  BY <1>1, <1>j, <1>k, <1>s5, CarriesWhen
<1>t2. Carries(k, TRUE, When(~k.offline, <<d7>>), Stood(x6), Stood(x7))
  <2>1. (~k.offline) \in BOOLEAN BY <1>1
  <2>2. ~(~k.offline) => Stood(x6) \subseteq Stood(x7) BY <1>j
  <2> QED BY <2>1, <2>2, <1>k, <1>s7, CarriesWhen
<1>u1. Carries(k, TRUE, <<d1>> \o <<d2>>, Stood(x0), Stood(x2)) BY <1>s1, <1>s2, CarriesConcat
<1>u2. Carries(k, TRUE, <<d1>> \o <<d2>> \o <<d3>>, Stood(x0), Stood(x2)) BY <1>u1, <1>s3, CarriesConcat
<1>u3. Carries(k, TRUE, <<d1, d2, d3, d4>>, Stood(x0), Stood(x4)) BY <1>m, <1>u2, <1>s4, CarriesConcat
<1>u4. Carries(k, TRUE, When(k.offline, <<d5>>) \o <<d6>>, Stood(x4), Stood(x6))
  BY <1>t1, <1>s6, CarriesConcat
<1>u5. Carries(k, TRUE, When(k.offline, <<d5>>) \o <<d6>> \o When(~k.offline, <<d7>>), Stood(x4), Stood(x7))
  BY <1>u4, <1>t2, CarriesConcat
<1>u6. Carries(k, TRUE, When(k.offline, <<d5>>) \o <<d6>> \o When(~k.offline, <<d7>>) \o <<d8>>,
               Stood(x4), Stood(x8))
  BY <1>u5, <1>s8, CarriesConcat
<1>u7. Carries(k, TRUE, <<d1, d2, d3, d4>>
               \o (When(k.offline, <<d5>>) \o <<d6>> \o When(~k.offline, <<d7>>) \o <<d8>>), Stood(x0), Stood(x8))
  BY <1>u3, <1>u6, CarriesConcat
<1>u8. Carries(k, TRUE, MkosiImage(k), Stood(x0), Stood(x9)) BY <1>l, <1>u7, <1>s9, CarriesConcat
<1> QED BY <1>u8, <1>i DEF Carries, x0

-----------------------------------------------------------------------------
(* The programs of a build, and what there is before each: a blank image   *)
(* or a clean one, and the work files of the programs before.              *)
ValidKinds == {k \in AllKinds : Fedora(k) => FedoraSupported(k)}
ImageIndex(k) == IF Fedora(k) THEN (IF k.offline THEN 3 ELSE 2) ELSE IF Disk(k) THEN 2 ELSE 1
Clean(k) == {im \in [ImageFiles -> Contents] :
               /\ \A p \in ImageFiles : im[p] \notin {"build", "host"}
               /\ \A p \in Promised(k) : im[p] = "recipe"}
ImageAt(k, n) == IF n <= ImageIndex(k) THEN {NothingYet} ELSE Clean(k)
ToolsGiven(k) ==
  IF Disk(k) THEN {"tools-status"} \cup (IF k.offline THEN {} ELSE {"tools-lists"}) ELSE {}
Assembled(i) ==
  (IF i > 1 THEN {"root"} ELSE {}) \cup (IF i > 2 THEN {"esp"} ELSE {})
  \cup (IF i > 3 THEN {"boot-files"} ELSE {}) \cup (IF i > 4 THEN {"filled-esp"} ELSE {})
  \cup (IF i > 5 THEN {"disk"} ELSE {}) \cup (IF i > 6 THEN {"table"} ELSE {})
  \cup (IF i > 7 THEN {"esp-placed"} ELSE {})
FilesAt(k, n) ==
  IF Fedora(k)
  THEN IF n < ImageIndex(k) THEN {} ELSE IF n = ImageIndex(k) THEN {"tools-record"}
       ELSE {"tools-record"} \cup FedoraGiven(k)
  ELSE IF n < ImageIndex(k) THEN {} ELSE IF n = ImageIndex(k) THEN ToolsGiven(k)
       ELSE ToolsGiven(k) \cup Given(k) \cup Assembled(n - ImageIndex(k))
Having(im, files) == {s \in States : s.image \in im /\ files \subseteq s.given}
Ships(name) == name \in {"image", "mkosi"}
Entry(k, n) == {s \in Having(ImageAt(k, n), FilesAt(k, n)) : s.said = {}}
Goal(k, n) ==
  {s \in Having(ImageAt(k, n + 1), FilesAt(k, n + 1)) :
     Ships(Programs(k)[n].name) => Announced(k) \subseteq s.said}

LEMMA SilentLeads ==
  ASSUME NEW k, NEW im, NEW files, NEW files2, NEW says \in Sayings, NEW takes, NEW gives \in SUBSET WorkFiles,
         takes \subseteq files, files2 \subseteq files \cup gives
  PROVE  Carries(k, FALSE, <<Do(says, takes, <<>>, <<>>, gives)>>, Having(im, files), Having(im, files2))
<1> DEFINE d == Do(says, takes, <<>>, <<>>, gives)
<1>1. d.says = says /\ d.takes = takes /\ d.needs = <<>> /\ d.gives = gives BY DEF Do
<1> HIDE DEF d
<1>2. ASSUME NEW s \in Having(im, files)
      PROVE  Fits(k, FALSE, d, s) /\ Taken(FALSE, d, s) \in Having(im, files2)
  <2>1. s \in States /\ s.image \in im /\ files \subseteq s.given BY DEF Having
  <2> DEFINE t == Taken(FALSE, d, s)
  <2>2. t.image = s.image /\ t.given = s.given \cup gives /\ t.said = s.said \cup {says}
    BY <1>1 DEF Taken
  <2>3. t \in States
    <3>1. t.image \in [ImageFiles -> Contents] BY <2>1, <2>2 DEF States
    <3>2. t.given \in SUBSET WorkFiles /\ t.said \in SUBSET Sayings BY <2>1, <2>2 DEF States
    <3> QED BY <3>1, <3>2 DEF States, Taken
  <2> HIDE DEF t
  <2>4. Fits(k, FALSE, d, s) BY <1>1, <2>1 DEF Fits
  <2>5. t \in Having(im, files2) BY <2>1, <2>2, <2>3 DEF Having
  <2> QED BY <2>4, <2>5 DEF t
<1>3. Having(im, files) \in SUBSET States /\ Having(im, files2) \in SUBSET States BY DEF Having
<1>4. FALSE \in BOOLEAN OBVIOUS
<1>5. Carries(k, FALSE, <<d>>, Having(im, files), Having(im, files2)) BY <1>2, <1>3, <1>4, CarriesOne
<1> QED BY <1>5 DEF d

LEMMA CarriesFrom ==
  ASSUME NEW k, NEW ship, NEW steps, NEW P, NEW Q, NEW P2, NEW Q2,
         Carries(k, ship, steps, P, Q), P2 \subseteq P, Q \subseteq Q2
  PROVE  Carries(k, ship, steps, P2, Q2)
BY DEF Carries

(* The plans.                                                              *)
LEMMA TarballPlan ==
  ASSUME NEW k \in UbuntuKinds, ~Disk(k)
  PROVE  Programs(k) = <<Program("image", ImageProgram(k))>>
<1>1. ~Fedora(k) BY DEF UbuntuKinds
<1>2. Programs(k) = <<>> \o <<Program("image", ImageProgram(k))>> \o <<>> BY <1>1 DEF Programs, When
<1> QED BY <1>2

LEMMA Assembly ==
  /\ Len(AssemblyPrograms) = 8 /\ DOMAIN AssemblyPrograms = 1..8
  /\ AssemblyPrograms[1] = Tool({"tarball"}, {"root"}) /\ AssemblyPrograms[2] = Tool({}, {"esp"})
  /\ AssemblyPrograms[3] = Tool({"tarball"}, {"boot-files"})
  /\ AssemblyPrograms[4] = Tool({"boot-files", "esp"}, {"filled-esp"})
  /\ AssemblyPrograms[5] = Tool({}, {"disk"}) /\ AssemblyPrograms[6] = Tool({"disk"}, {"table"})
  /\ AssemblyPrograms[7] = Tool({"table", "filled-esp"}, {"esp-placed"})
  /\ AssemblyPrograms[8] = Tool({"table", "root"}, {"disk-image"})
BY DEF AssemblyPrograms

LEMMA DiskPlan ==
  ASSUME NEW k \in UbuntuKinds, Disk(k)
  PROVE  /\ Len(Programs(k)) = 10 /\ DOMAIN Programs(k) = 1..10
         /\ Programs(k)[1] = Program("tools-tree", DiskToolsProgram(k))
         /\ Programs(k)[2] = Program("image", ImageProgram(k))
         /\ \A i \in 1..8 : Programs(k)[2 + i] = Program("tool", AssemblyPrograms[i])
<1> DEFINE a == Program("tools-tree", DiskToolsProgram(k))
           b == Program("image", ImageProgram(k))
           t == [i \in 1..8 |-> Program("tool", AssemblyPrograms[i])]
<1>1. ~Fedora(k) BY DEF UbuntuKinds
<1>2. Programs(k) = <<a>> \o <<b>> \o t BY <1>1, Assembly DEF Programs, When
<1>3. t \in Seq({t[i] : i \in 1..8}) /\ Len(t) = 8 OBVIOUS
<1>4. \A i \in 1..8 : t[i] = Program("tool", AssemblyPrograms[i]) OBVIOUS
<1> HIDE DEF a, b, t
<1>5. Listed(t) BY <1>3 DEF Listed
<1>6. Listed(<<a, b>>) /\ Len(<<a, b>>) = 2 /\ <<a, b>>[1] = a /\ <<a, b>>[2] = b
  <2>1. <<a, b>> \in Seq({a, b}) OBVIOUS
  <2> QED BY <2>1 DEF Listed
<1>7. Programs(k) = <<a, b>> \o t BY <1>2, TwoSteps
<1>8. 1 \in 1..2 /\ 2 \in 1..2 OBVIOUS
<1> DEFINE h == <<a, b>>
<1>a. Listed(h) /\ Len(h) = 2 /\ h[1] = a /\ h[2] = b /\ Programs(k) = h \o t BY <1>6, <1>7
<1> HIDE DEF h
<1>b. /\ Len(h \o t) = Len(h) + Len(t)
      /\ \A i \in 1..Len(h) : (h \o t)[i] = h[i]
      /\ \A i \in 1..Len(t) : (h \o t)[Len(h) + i] = t[i]
  <2>1. Listed(h) /\ Listed(t) BY <1>5, <1>a
  <2> QED BY <2>1, ListedConcat
<1>c. DOMAIN (h \o t) = 1..Len(h \o t)
  <2>1. Listed(h) /\ Listed(t) BY <1>5, <1>a
  <2>2. Listed(h \o t) BY <2>1, ListedConcat
  <2> QED BY <2>2 DEF Listed
<1>9. Len(Programs(k)) = 10 /\ Programs(k)[1] = a /\ Programs(k)[2] = b
      /\ DOMAIN Programs(k) = 1..10
  BY <1>3, <1>8, <1>a, <1>b, <1>c
<1>10. \A i \in 1..8 : Programs(k)[2 + i] = t[i] BY <1>3, <1>a, <1>b
<1> QED BY <1>4, <1>9, <1>10 DEF a, b

LEMMA FedoraPlan ==
  ASSUME NEW k \in FedoraKinds
  PROVE  LET o == IF k.offline THEN 1 ELSE 0 IN
         /\ Len(Programs(k)) = o + 3 /\ DOMAIN Programs(k) = 1..o + 3
         /\ k.offline => Programs(k)[1] = Program("createrepo", Createrepo)
         /\ Programs(k)[o + 1] = Program("mkosi-tools", MkosiTools)
         /\ Programs(k)[o + 2] = Program("mkosi", MkosiImage(k))
         /\ Programs(k)[o + 3] = Program("gzip", Gzip)
<1> DEFINE a == Program("createrepo", Createrepo)
           b == Program("mkosi-tools", MkosiTools)
           c == Program("mkosi", MkosiImage(k))
           d == Program("gzip", Gzip)
<1>1. Fedora(k) /\ k.offline \in BOOLEAN BY FedoraFields
<1>2. Programs(k) = When(k.offline, <<a>>) \o <<b, c, d>> BY <1>1 DEF Programs
<1> HIDE DEF a, b, c, d
<1>3. CASE k.offline
  <2>1. Programs(k) = <<a>> \o <<b, c, d>> BY <1>2, <1>3 DEF When
  <2>2. <<a>> \in Seq({a, b, c, d}) /\ <<b, c, d>> \in Seq({a, b, c, d}) OBVIOUS
  <2>3. Programs(k)[1] = a /\ Programs(k)[2] = b /\ Programs(k)[3] = c /\ Programs(k)[4] = d
        /\ Len(Programs(k)) = 4 /\ DOMAIN Programs(k) = 1..4
    BY <2>1, <2>2
  <2> QED BY <1>3, <2>3 DEF a, b, c, d
<1>4. CASE ~k.offline
  <2>1. Programs(k) = <<>> \o <<b, c, d>> BY <1>2, <1>4 DEF When
  <2>2. <<>> \in Seq({a, b, c, d}) /\ <<b, c, d>> \in Seq({a, b, c, d}) OBVIOUS
  <2>3. Programs(k)[1] = b /\ Programs(k)[2] = c /\ Programs(k)[3] = d
        /\ Len(Programs(k)) = 3 /\ DOMAIN Programs(k) = 1..3
    BY <2>1, <2>2
  <2> QED BY <1>4, <2>3 DEF b, c, d
<1> QED BY <1>1, <1>3, <1>4

(* What a program of the plan is.                                          *)
ToolsAt(k, n)  == Disk(k) /\ n = 1 /\ Programs(k)[n] = Program("tools-tree", DiskToolsProgram(k))
ImageOf(k, n)  == n = ImageIndex(k) /\ Programs(k)[n] = Program("image", ImageProgram(k))
ToolAt(k, n)   == /\ Disk(k) /\ n - 2 \in 1..8
                  /\ Programs(k)[n] = Program("tool", AssemblyPrograms[n - 2])
RepoAt(k, n)   == k.offline /\ n = 1 /\ Programs(k)[n] = Program("createrepo", Createrepo)
MkosiToolsAt(k, n) == n = ImageIndex(k) - 1 /\ Programs(k)[n] = Program("mkosi-tools", MkosiTools)
MkosiAt(k, n)  == n = ImageIndex(k) /\ Programs(k)[n] = Program("mkosi", MkosiImage(k))
GzipAt(k, n)   == n = ImageIndex(k) + 1 /\ Programs(k)[n] = Program("gzip", Gzip)

LEMMA ValidKind ==
  ASSUME NEW k \in ValidKinds
  PROVE  /\ k \in AllKinds
         /\ Fedora(k) => k \in FedoraKinds
         /\ ~Fedora(k) => k \in UbuntuKinds
BY DEF ValidKinds, FedoraKinds, UbuntuKinds

LEMMA ThePlan ==
  ASSUME NEW k \in ValidKinds
  PROVE  /\ Len(Programs(k)) = IF Fedora(k) THEN ImageIndex(k) + 1 ELSE IF Disk(k) THEN 10 ELSE 1
         /\ DOMAIN Programs(k) = 1..Len(Programs(k))
         /\ \A n \in 1..Len(Programs(k)) :
              \/ ~Fedora(k) /\ (ToolsAt(k, n) \/ ImageOf(k, n) \/ ToolAt(k, n))
              \/ Fedora(k) /\ (RepoAt(k, n) \/ MkosiToolsAt(k, n) \/ MkosiAt(k, n) \/ GzipAt(k, n))
<1>1. CASE ~Fedora(k) /\ ~Disk(k)
  <2>1. Programs(k) = <<Program("image", ImageProgram(k))>> BY <1>1, ValidKind, TarballPlan
  <2>2. ImageIndex(k) = 1 BY <1>1 DEF ImageIndex
  <2>3. Len(Programs(k)) = 1 /\ DOMAIN Programs(k) = 1..1 /\ Programs(k)[1] = Program("image", ImageProgram(k))
    BY <2>1
  <2>4. \A n \in 1..1 : n = 1 OBVIOUS
  <2> QED BY <1>1, <2>2, <2>3, <2>4 DEF ImageOf
<1>2. CASE ~Fedora(k) /\ Disk(k)
  <2>1. /\ Len(Programs(k)) = 10 /\ DOMAIN Programs(k) = 1..10
        /\ Programs(k)[1] = Program("tools-tree", DiskToolsProgram(k))
        /\ Programs(k)[2] = Program("image", ImageProgram(k))
        /\ \A i \in 1..8 : Programs(k)[2 + i] = Program("tool", AssemblyPrograms[i])
    BY <1>2, ValidKind, DiskPlan
  <2>2. ImageIndex(k) = 2 BY <1>2 DEF ImageIndex
  <2>3. ASSUME NEW n \in 1..10, n # 1, n # 2 PROVE ToolAt(k, n)
    <3>1. n - 2 \in 1..8 /\ n = 2 + (n - 2) BY <2>3
    <3> QED BY <3>1, <2>1, <1>2 DEF ToolAt
  <2> QED BY <1>2, <2>1, <2>2, <2>3 DEF ImageOf, ToolsAt
<1>3. CASE Fedora(k)
  <2> DEFINE o == IF k.offline THEN 1 ELSE 0
  <2>1. /\ Len(Programs(k)) = o + 3 /\ DOMAIN Programs(k) = 1..o + 3
        /\ k.offline => Programs(k)[1] = Program("createrepo", Createrepo)
        /\ Programs(k)[o + 1] = Program("mkosi-tools", MkosiTools)
        /\ Programs(k)[o + 2] = Program("mkosi", MkosiImage(k))
        /\ Programs(k)[o + 3] = Program("gzip", Gzip)
    <3>1. k \in FedoraKinds BY <1>3, ValidKind
    <3> QED BY <3>1, FedoraPlan
  <2>2. ImageIndex(k) = o + 2 BY <1>3 DEF ImageIndex
  <2>3. ASSUME NEW n \in 1..o + 3
        PROVE  RepoAt(k, n) \/ MkosiToolsAt(k, n) \/ MkosiAt(k, n) \/ GzipAt(k, n)
    <3>1. (k.offline /\ n = 1) \/ n = o + 1 \/ n = o + 2 \/ n = o + 3 OBVIOUS
    <3> HIDE DEF o
    <3>2. o \in Int /\ ImageIndex(k) - 1 = o + 1 /\ ImageIndex(k) + 1 = o + 3 BY <2>2 DEF o
    <3> QED BY <2>1, <2>2, <3>1, <3>2 DEF RepoAt, MkosiToolsAt, MkosiAt, GzipAt
  <2>4. Len(Programs(k)) = ImageIndex(k) + 1 BY <2>1, <2>2
  <2> HIDE DEF o
  <2> QED BY <1>3, <2>1, <2>3, <2>4
<1> QED BY <1>1, <1>2, <1>3

LEMMA DiskToolsLead ==
  ASSUME NEW k \in UbuntuKinds, NEW im
  PROVE  /\ Carries(k, FALSE, DiskToolsProgram(k), Having(im, {}),
                    Having(im, {"tools-status"} \cup (IF k.offline THEN {} ELSE {"tools-lists"})))
         /\ Len(DiskToolsProgram(k)) = 4
<1> DEFINE g == IF k.offline THEN {} ELSE {"tools-lists"}
           d1 == Do("nothing", {}, <<>>, <<>>, {})
           d2 == Do("update-index", {}, <<>>, <<>>, {})
           d3 == Do("install-requested", {}, <<>>, <<>>, g)
           d4 == Do("provision", {}, <<>>, <<>>, {"tools-status"})
           last == {"tools-status"} \cup g
<1>1. DiskToolsProgram(k) = <<d1, d2, d3, d4>> BY DEF DiskToolsProgram
<1>2. {"nothing", "update-index", "install-requested", "provision"} \subseteq Sayings BY DEF Sayings
<1>3. g \in SUBSET WorkFiles /\ {"tools-status"} \in SUBSET WorkFiles /\ {} \in SUBSET WorkFiles
  BY DEF WorkFiles
<1>4. last \subseteq g \cup {"tools-status"} /\ g \subseteq {} \cup g OBVIOUS
<1> HIDE DEF g, last
<1>a. Carries(k, FALSE, <<d1>>, Having(im, {}), Having(im, {})) BY <1>2, <1>3, SilentLeads
<1>b. Carries(k, FALSE, <<d2>>, Having(im, {}), Having(im, {})) BY <1>2, <1>3, SilentLeads
<1>c. Carries(k, FALSE, <<d3>>, Having(im, {}), Having(im, g)) BY <1>2, <1>3, <1>4, SilentLeads
<1>d. Carries(k, FALSE, <<d4>>, Having(im, g), Having(im, last)) BY <1>2, <1>3, <1>4, SilentLeads
<1> HIDE DEF d1, d2, d3, d4
<1>5. <<d1, d2, d3, d4>> = <<d1>> \o <<d2>> \o <<d3>> \o <<d4>>
  <2>1. <<d1, d2>> = <<d1>> \o <<d2>> BY TwoSteps
  <2>2. <<d1, d2, d3>> = <<d1, d2>> \o <<d3>> OBVIOUS
  <2>3. <<d1, d2, d3, d4>> = <<d1, d2, d3>> \o <<d4>> OBVIOUS
  <2> QED BY <2>1, <2>2, <2>3
<1>e. FALSE \in BOOLEAN OBVIOUS
<1>6. Carries(k, FALSE, <<d1>> \o <<d2>>, Having(im, {}), Having(im, {}))
  BY <1>a, <1>b, <1>e, CarriesConcat
<1>7. Carries(k, FALSE, <<d1>> \o <<d2>> \o <<d3>>, Having(im, {}), Having(im, g))
  BY <1>6, <1>c, <1>e, CarriesConcat
<1>8. Carries(k, FALSE, <<d1, d2, d3, d4>>, Having(im, {}), Having(im, last))
  BY <1>5, <1>7, <1>d, <1>e, CarriesConcat
<1>9. Len(<<d1, d2, d3, d4>>) = 4 OBVIOUS
<1> QED BY <1>1, <1>8, <1>9 DEF last, g

(* The programs that make no image say nothing, but for the disk tools'.   *)
Silent(steps) == \A i \in 1..Len(steps) : steps[i].says = "nothing"

LEMMA OneSilent ==
  ASSUME NEW takes, NEW gives
  PROVE  LET s == <<Do("nothing", takes, <<>>, <<>>, gives)>> IN Silent(s) /\ Len(s) = 1
BY DEF Silent, Do

LEMMA SilentPrograms ==
  /\ \A i \in 1..8 : Silent(AssemblyPrograms[i]) /\ Len(AssemblyPrograms[i]) = 1
  /\ Silent(Createrepo) /\ Len(Createrepo) = 1
  /\ Silent(MkosiTools) /\ Len(MkosiTools) = 1
  /\ Silent(Gzip) /\ Len(Gzip) = 1
<1>1. \A takes, gives : Silent(Tool(takes, gives)) /\ Len(Tool(takes, gives)) = 1 BY OneSilent DEF Tool
<1>2. \A i \in 1..8 : i = 1 \/ i = 2 \/ i = 3 \/ i = 4 \/ i = 5 \/ i = 6 \/ i = 7 \/ i = 8 OBVIOUS
<1>3. ASSUME NEW i \in 1..8 PROVE \E takes, gives : AssemblyPrograms[i] = Tool(takes, gives)
  <2> USE Assembly
  <2>1. CASE i = 1 BY <2>1
  <2>2. CASE i = 2 BY <2>2
  <2>3. CASE i = 3 BY <2>3
  <2>4. CASE i = 4 BY <2>4
  <2>5. CASE i = 5 BY <2>5
  <2>6. CASE i = 6 BY <2>6
  <2>7. CASE i = 7 BY <2>7
  <2>8. CASE i = 8 BY <2>8
  <2> QED BY <1>2, <2>1, <2>2, <2>3, <2>4, <2>5, <2>6, <2>7, <2>8
<1>4. \A i \in 1..8 : Silent(AssemblyPrograms[i]) /\ Len(AssemblyPrograms[i]) = 1
  <2> SUFFICES ASSUME NEW i \in 1..8 PROVE Silent(AssemblyPrograms[i]) /\ Len(AssemblyPrograms[i]) = 1 OBVIOUS
  <2>1. PICK takes, gives : AssemblyPrograms[i] = Tool(takes, gives) BY <1>3
  <2> QED BY <2>1, <1>1
<1>5. Silent(Createrepo) /\ Len(Createrepo) = 1 BY OneSilent DEF Createrepo
<1>6. Silent(MkosiTools) /\ Len(MkosiTools) = 1 BY OneSilent DEF MkosiTools
<1>7. Silent(Gzip) /\ Len(Gzip) = 1 BY OneSilent DEF Gzip
<1> QED BY <1>4, <1>5, <1>6, <1>7

(* A tool takes what the tools before it gave.                             *)
LEMMA ToolLeads ==
  ASSUME NEW k, NEW i \in 1..8, NEW im, NEW g
  PROVE  Carries(k, FALSE, AssemblyPrograms[i], Having(im, g \cup {"tarball"} \cup Assembled(i)),
                 Having(im, g \cup {"tarball"} \cup Assembled(i + 1)))
<1> DEFINE f == g \cup {"tarball"} \cup Assembled(i)
           f2 == g \cup {"tarball"} \cup Assembled(i + 1)
<1> SUFFICES Carries(k, FALSE, AssemblyPrograms[i], Having(im, f), Having(im, f2)) OBVIOUS
<1>1. ASSUME NEW takes, NEW gives \in SUBSET WorkFiles, takes \subseteq f, f2 \subseteq f \cup gives,
             AssemblyPrograms[i] = Tool(takes, gives)
      PROVE  Carries(k, FALSE, AssemblyPrograms[i], Having(im, f), Having(im, f2))
  <2> HIDE DEF f, f2
  <2>1. "nothing" \in Sayings BY DEF Sayings
  <2>2. Carries(k, FALSE, <<Do("nothing", takes, <<>>, <<>>, gives)>>, Having(im, f), Having(im, f2))
    BY <1>1, <2>1, SilentLeads
  <2> QED BY <1>1, <2>2 DEF Tool
<1>2. i = 1 \/ i = 2 \/ i = 3 \/ i = 4 \/ i = 5 \/ i = 6 \/ i = 7 \/ i = 8 OBVIOUS
<1>3. {{"root"}, {"esp"}, {"boot-files"}, {"filled-esp"}, {"disk"}, {"table"}, {"esp-placed"}, {"disk-image"}}
      \subseteq SUBSET WorkFiles
  BY DEF WorkFiles
<1>w. ASSUME NEW takes, NEW gives \in SUBSET WorkFiles, takes \subseteq {"tarball"} \cup Assembled(i),
             Assembled(i + 1) \subseteq Assembled(i) \cup gives, AssemblyPrograms[i] = Tool(takes, gives)
      PROVE  Carries(k, FALSE, AssemblyPrograms[i], Having(im, f), Having(im, f2))
  <2>1. takes \subseteq f /\ f2 \subseteq f \cup gives BY <1>w
  <2> QED BY <1>w, <2>1, <1>1
<1> HIDE DEF f, f2
<1>c1. CASE i = 1
  <2> DEFINE takes == {"tarball"}
             gives == {"root"}
  <2>1. takes \subseteq {"tarball"} \cup Assembled(i) /\ Assembled(i + 1) \subseteq Assembled(i) \cup gives
    BY <1>c1 DEF Assembled
  <2>2. AssemblyPrograms[i] = Tool(takes, gives) /\ gives \in SUBSET WorkFiles BY <1>c1, <1>3, Assembly
  <2> HIDE DEF takes, gives
  <2> QED BY <2>1, <2>2, <1>w
<1>c2. CASE i = 2
  <2> DEFINE takes == {}
             gives == {"esp"}
  <2>1. takes \subseteq {"tarball"} \cup Assembled(i) /\ Assembled(i + 1) \subseteq Assembled(i) \cup gives
    BY <1>c2 DEF Assembled
  <2>2. AssemblyPrograms[i] = Tool(takes, gives) /\ gives \in SUBSET WorkFiles BY <1>c2, <1>3, Assembly
  <2> HIDE DEF takes, gives
  <2> QED BY <2>1, <2>2, <1>w
<1>c3. CASE i = 3
  <2> DEFINE takes == {"tarball"}
             gives == {"boot-files"}
  <2>1. takes \subseteq {"tarball"} \cup Assembled(i) /\ Assembled(i + 1) \subseteq Assembled(i) \cup gives
    BY <1>c3 DEF Assembled
  <2>2. AssemblyPrograms[i] = Tool(takes, gives) /\ gives \in SUBSET WorkFiles BY <1>c3, <1>3, Assembly
  <2> HIDE DEF takes, gives
  <2> QED BY <2>1, <2>2, <1>w
<1>c4. CASE i = 4
  <2> DEFINE takes == {"boot-files", "esp"}
             gives == {"filled-esp"}
  <2>1. takes \subseteq {"tarball"} \cup Assembled(i) /\ Assembled(i + 1) \subseteq Assembled(i) \cup gives
    BY <1>c4 DEF Assembled
  <2>2. AssemblyPrograms[i] = Tool(takes, gives) /\ gives \in SUBSET WorkFiles BY <1>c4, <1>3, Assembly
  <2> HIDE DEF takes, gives
  <2> QED BY <2>1, <2>2, <1>w
<1>c5. CASE i = 5
  <2> DEFINE takes == {}
             gives == {"disk"}
  <2>1. takes \subseteq {"tarball"} \cup Assembled(i) /\ Assembled(i + 1) \subseteq Assembled(i) \cup gives
    BY <1>c5 DEF Assembled
  <2>2. AssemblyPrograms[i] = Tool(takes, gives) /\ gives \in SUBSET WorkFiles BY <1>c5, <1>3, Assembly
  <2> HIDE DEF takes, gives
  <2> QED BY <2>1, <2>2, <1>w
<1>c6. CASE i = 6
  <2> DEFINE takes == {"disk"}
             gives == {"table"}
  <2>1. takes \subseteq {"tarball"} \cup Assembled(i) /\ Assembled(i + 1) \subseteq Assembled(i) \cup gives
    BY <1>c6 DEF Assembled
  <2>2. AssemblyPrograms[i] = Tool(takes, gives) /\ gives \in SUBSET WorkFiles BY <1>c6, <1>3, Assembly
  <2> HIDE DEF takes, gives
  <2> QED BY <2>1, <2>2, <1>w
<1>c7. CASE i = 7
  <2> DEFINE takes == {"table", "filled-esp"}
             gives == {"esp-placed"}
  <2>1. takes \subseteq {"tarball"} \cup Assembled(i) /\ Assembled(i + 1) \subseteq Assembled(i) \cup gives
    BY <1>c7 DEF Assembled
  <2>2. AssemblyPrograms[i] = Tool(takes, gives) /\ gives \in SUBSET WorkFiles BY <1>c7, <1>3, Assembly
  <2> HIDE DEF takes, gives
  <2> QED BY <2>1, <2>2, <1>w
<1>c8. CASE i = 8
  <2> DEFINE takes == {"table", "root"}
             gives == {"disk-image"}
  <2>1. takes \subseteq {"tarball"} \cup Assembled(i) /\ Assembled(i + 1) \subseteq Assembled(i) \cup gives
    BY <1>c8 DEF Assembled
  <2>2. AssemblyPrograms[i] = Tool(takes, gives) /\ gives \in SUBSET WorkFiles BY <1>c8, <1>3, Assembly
  <2> HIDE DEF takes, gives
  <2> QED BY <2>1, <2>2, <1>w
<1> QED BY <1>2, <1>c1, <1>c2, <1>c3, <1>c4, <1>c5, <1>c6, <1>c7, <1>c8

LEMMA BlankStood ==
  ASSUME NEW g, NEW s \in States, s.image = NothingYet, g \subseteq s.given, s.said = {}
  PROVE  s \in Stood(At({}, {}, {}, {}, g, {}))
<1>1. \A p \in ImageFiles : s.image[p] = "none" BY DEF NothingYet
<1> QED BY <1>1 DEF Stood, At

LEMMA FilesBefore ==
  ASSUME NEW k, NEW m
  PROVE  /\ m < ImageIndex(k) => FilesAt(k, m) = {}
         /\ ~(m < ImageIndex(k)) /\ m = ImageIndex(k)
              => FilesAt(k, m) = IF Fedora(k) THEN {"tools-record"} ELSE ToolsGiven(k)
         /\ ~(m < ImageIndex(k)) /\ m # ImageIndex(k) /\ ~Fedora(k)
              => FilesAt(k, m) = ToolsGiven(k) \cup Given(k) \cup Assembled(m - ImageIndex(k))
         /\ ~(m < ImageIndex(k)) /\ m # ImageIndex(k) /\ Fedora(k)
              => FilesAt(k, m) = {"tools-record"} \cup FedoraGiven(k)
<1>1. CASE m < ImageIndex(k) BY <1>1, Zenon DEF FilesAt
<1>2. CASE ~(m < ImageIndex(k)) /\ m = ImageIndex(k) BY <1>2, Zenon DEF FilesAt
<1>3. CASE ~(m < ImageIndex(k)) /\ m # ImageIndex(k) BY <1>3, Zenon DEF FilesAt
<1> QED BY <1>1, <1>2, <1>3

(* Every program of every build, run on what the programs before it leave, *)
(* finds what each of its steps needs, and leaves what those after it and  *)
(* the lock need; and the image is the recipe's once its program is done.  *)
LEMMA ProgramsLead ==
  ASSUME NEW k \in ValidKinds, NEW n \in 1..Len(Programs(k))
  PROVE  Carries(k, Ships(Programs(k)[n].name), Programs(k)[n].steps, Entry(k, n), Goal(k, n))
<1> DEFINE ii == ImageIndex(k)
<1>1. ii \in 1..3 /\ Len(Programs(k)) \in Nat /\ n \in Nat
  <2>1. ii \in 1..3 BY DEF ImageIndex
  <2> HIDE DEF ii
  <2> QED BY <2>1, ThePlan DEF ii
<1>2. \A name, steps : Program(name, steps).name = name /\ Program(name, steps).steps = steps
  BY DEF Program
<1>3. Entry(k, n) \subseteq Having(ImageAt(k, n), FilesAt(k, n)) BY DEF Entry
<1>4. ASSUME ~Ships(Programs(k)[n].name),
             Carries(k, FALSE, Programs(k)[n].steps, Having(ImageAt(k, n), FilesAt(k, n)),
                     Having(ImageAt(k, n + 1), FilesAt(k, n + 1)))
      PROVE  Carries(k, Ships(Programs(k)[n].name), Programs(k)[n].steps, Entry(k, n), Goal(k, n))
  <2>1. Ships(Programs(k)[n].name) = FALSE BY <1>4 DEF Ships
  <2>2. Goal(k, n) = Having(ImageAt(k, n + 1), FilesAt(k, n + 1)) BY <1>4 DEF Goal, Having
  <2> QED BY <1>3, <1>4, <2>1, <2>2, CarriesFrom
<1>5. ASSUME n = ii, Ships(Programs(k)[n].name), NEW g, NEW files,
             FilesAt(k, n) = g, FilesAt(k, n + 1) = files,
             Carries(k, TRUE, Programs(k)[n].steps, Stood(At({}, {}, {}, {}, g, {})), Made(k, files))
      PROVE  Carries(k, Ships(Programs(k)[n].name), Programs(k)[n].steps, Entry(k, n), Goal(k, n))
  <2>1. Ships(Programs(k)[n].name) = TRUE BY <1>5 DEF Ships
  <2>2. ImageAt(k, n) = {NothingYet} /\ ImageAt(k, n + 1) = Clean(k)
    <3>1. n <= ImageIndex(k) /\ ~(n + 1 <= ImageIndex(k)) BY <1>1, <1>5
    <3> QED BY <3>1 DEF ImageAt
  <2>3. Entry(k, n) \subseteq Stood(At({}, {}, {}, {}, g, {}))
    <3>1. \A s \in Entry(k, n) : s \in States /\ s.image = NothingYet /\ g \subseteq s.given /\ s.said = {}
      BY <1>5, <2>2 DEF Entry, Having
    <3> QED BY <3>1, BlankStood
  <2>4. Made(k, files) \subseteq Goal(k, n)
    <3>1. ASSUME NEW s \in Made(k, files) PROVE s \in Goal(k, n)
      <4>1. s \in States /\ s.image \in Clean(k) /\ files \subseteq s.given /\ Announced(k) \subseteq s.said
        BY DEF Made, Clean, States
      <4> QED BY <4>1, <1>5, <2>2 DEF Goal, Having
    <3> QED BY <3>1
  <2> QED BY <1>5, <2>1, <2>3, <2>4, CarriesFrom
<1>a. CASE ~Fedora(k)
  <2>1. k \in UbuntuKinds BY <1>a, ValidKind
  <2>2. ToolsAt(k, n) \/ ImageOf(k, n) \/ ToolAt(k, n) BY <1>a, ThePlan
  <2>3. CASE ToolsAt(k, n)
    <3>1. Disk(k) /\ n = 1 /\ Programs(k)[n] = Program("tools-tree", DiskToolsProgram(k))
      BY <2>3 DEF ToolsAt
    <3>2. ii = 2 BY <1>a, <3>1 DEF ImageIndex
    <3>3. ~Ships(Programs(k)[n].name) /\ Programs(k)[n].steps = DiskToolsProgram(k)
      BY <1>2, <3>1 DEF Ships
    <3>4. n <= ImageIndex(k) /\ n + 1 = ImageIndex(k) /\ n < ImageIndex(k) BY <3>1, <3>2
    <3>5. ImageAt(k, n) = {NothingYet} /\ ImageAt(k, n + 1) = {NothingYet} BY <3>4, <1>1 DEF ImageAt
    <3>6. FilesAt(k, n) = {} /\ FilesAt(k, n + 1) = ToolsGiven(k)
      <4>1. FilesAt(k, n) = {} BY <1>a, <3>4 DEF FilesAt
      <4>2. ~(n + 1 < ImageIndex(k)) BY <3>4, <1>1
      <4> QED BY <1>a, <3>4, <4>1, <4>2 DEF FilesAt
    <3>7. ToolsGiven(k) = {"tools-status"} \cup (IF k.offline THEN {} ELSE {"tools-lists"})
      BY <3>1 DEF ToolsGiven
    <3> HIDE DEF ii
    <3>8. Carries(k, FALSE, DiskToolsProgram(k), Having({NothingYet}, {}), Having({NothingYet}, ToolsGiven(k)))
      BY <2>1, <3>7, DiskToolsLead
    <3> QED BY <1>4, <3>3, <3>5, <3>6, <3>8
  <2>4. CASE ImageOf(k, n)
    <3>1. n = ii /\ Programs(k)[n] = Program("image", ImageProgram(k)) BY <2>4 DEF ImageOf
    <3>2. Ships(Programs(k)[n].name) /\ Programs(k)[n].steps = ImageProgram(k) BY <1>2, <3>1 DEF Ships
    <3>3. FilesAt(k, n) = ToolsGiven(k) BY <1>a, <1>1, <3>1 DEF FilesAt
    <3>4. FilesAt(k, n + 1) = ToolsGiven(k) \cup Given(k)
      <4>1. (n + 1) - ImageIndex(k) = 1 /\ ~(n + 1 < ImageIndex(k)) /\ n + 1 # ImageIndex(k)
        BY <3>1, <1>1
      <4>2. Assembled(1) = {} BY DEF Assembled
      <4> DEFINE m == n + 1
      <4>3. ~(m < ImageIndex(k)) /\ m # ImageIndex(k) /\ m - ImageIndex(k) = 1 BY <4>1
      <4> HIDE DEF m
      <4>4. FilesAt(k, m) = ToolsGiven(k) \cup Given(k) \cup Assembled(m - ImageIndex(k))
        BY <1>a, <4>3, FilesBefore, Zenon
      <4> QED BY <4>2, <4>3, <4>4 DEF m
    <3> HIDE DEF ii
    <3>5. Carries(k, TRUE, ImageProgram(k), Stood(At({}, {}, {}, {}, ToolsGiven(k), {})),
                  Made(k, ToolsGiven(k) \cup Given(k)))
      BY <2>1, ImageLeads
    <3> QED BY <1>5, <3>1, <3>2, <3>3, <3>4, <3>5
  <2>5. CASE ToolAt(k, n)
    <3>1. Disk(k) /\ n - 2 \in 1..8 /\ Programs(k)[n] = Program("tool", AssemblyPrograms[n - 2])
      BY <2>5 DEF ToolAt
    <3>2. ii = 2 BY <1>a, <3>1 DEF ImageIndex
    <3> DEFINE i == n - 2
               g == ToolsGiven(k) \cup Given(k)
    <3>3. ~Ships(Programs(k)[n].name) /\ Programs(k)[n].steps = AssemblyPrograms[i]
      BY <1>2, <3>1 DEF Ships
    <3>4. /\ ~(n <= ImageIndex(k)) /\ ~(n + 1 <= ImageIndex(k)) /\ ~(n < ImageIndex(k))
          /\ ~(n + 1 < ImageIndex(k)) /\ n # ImageIndex(k) /\ n + 1 # ImageIndex(k)
          /\ n - ImageIndex(k) = i /\ (n + 1) - ImageIndex(k) = i + 1 /\ i \in 1..8
      BY <1>1, <3>1, <3>2
    <3>5. ImageAt(k, n) = Clean(k) /\ ImageAt(k, n + 1) = Clean(k) BY <3>4 DEF ImageAt
    <3>6. FilesAt(k, n) = g \cup Assembled(i) /\ FilesAt(k, n + 1) = g \cup Assembled(i + 1)
      <4>1. FilesAt(k, n) = g \cup Assembled(n - ImageIndex(k)) BY <1>a, <3>4, FilesBefore, Zenon
      <4> DEFINE m == n + 1
      <4>2. ~(m < ImageIndex(k)) /\ m # ImageIndex(k) /\ m - ImageIndex(k) = i + 1 BY <3>4
      <4> HIDE DEF m, i
      <4>3. FilesAt(k, m) = g \cup Assembled(m - ImageIndex(k)) BY <1>a, <4>2, FilesBefore, Zenon
      <4>4. n - ImageIndex(k) = i BY <3>4 DEF i
      <4> QED BY <4>1, <4>2, <4>3, <4>4 DEF m
    <3>7. g \cup {"tarball"} = g BY DEF Given
    <3> HIDE DEF g, i, ii
    <3>8. Carries(k, FALSE, AssemblyPrograms[i], Having(Clean(k), g \cup Assembled(i)),
                  Having(Clean(k), g \cup Assembled(i + 1)))
      <4>1. Carries(k, FALSE, AssemblyPrograms[i], Having(Clean(k), g \cup {"tarball"} \cup Assembled(i)),
                    Having(Clean(k), g \cup {"tarball"} \cup Assembled(i + 1)))
        BY <3>4, ToolLeads
      <4> QED BY <4>1, <3>7
    <3> QED BY <1>4, <3>3, <3>5, <3>6, <3>8
  <2> QED BY <2>2, <2>3, <2>4, <2>5
<1>b. CASE Fedora(k)
  <2>1. k \in FedoraKinds /\ k.offline \in BOOLEAN BY <1>b, ValidKind, FedoraFields
  <2>2. RepoAt(k, n) \/ MkosiToolsAt(k, n) \/ MkosiAt(k, n) \/ GzipAt(k, n) BY <1>b, ThePlan
  <2>s. "nothing" \in Sayings /\ {{"index"}, {"tools-record"}, {"tarball"}} \subseteq SUBSET WorkFiles
    BY DEF Sayings, WorkFiles
  <2>3. CASE RepoAt(k, n)
    <3>1. k.offline /\ n = 1 /\ Programs(k)[n] = Program("createrepo", Createrepo) BY <2>3 DEF RepoAt
    <3>2. ii = 3 BY <1>b, <3>1 DEF ImageIndex
    <3>3. ~Ships(Programs(k)[n].name) /\ Programs(k)[n].steps = Createrepo BY <1>2, <3>1 DEF Ships
    <3>4. n < ImageIndex(k) /\ n + 1 < ImageIndex(k) /\ n <= ImageIndex(k) /\ n + 1 <= ImageIndex(k)
      BY <3>1, <3>2
    <3>5. ImageAt(k, n) = {NothingYet} /\ ImageAt(k, n + 1) = {NothingYet} BY <3>4 DEF ImageAt
    <3>6. FilesAt(k, n) = {} /\ FilesAt(k, n + 1) = {} BY <1>b, <3>4 DEF FilesAt
    <3>7. {"index"} \in SUBSET WorkFiles /\ {} \subseteq {} \cup {"index"} BY <2>s
    <3> HIDE DEF ii
    <3>8. Carries(k, FALSE, <<Do("nothing", {}, <<>>, <<>>, {"index"})>>, Having({NothingYet}, {}), Having({NothingYet}, {}))
      <4> DEFINE gives == {"index"}
                 files == {}
      <4>1. gives \in SUBSET WorkFiles /\ files \subseteq files \cup gives /\ files \subseteq files
        BY <2>s
      <4> HIDE DEF gives, files
      <4>2. Carries(k, FALSE, <<Do("nothing", files, <<>>, <<>>, gives)>>, Having({NothingYet}, files), Having({NothingYet}, files))
        BY <2>s, <4>1, SilentLeads
      <4> QED BY <4>2 DEF gives, files
    <3> QED BY <1>4, <3>3, <3>5, <3>6, <3>8 DEF Createrepo
  <2>4. CASE MkosiToolsAt(k, n)
    <3>1. n = ii - 1 /\ Programs(k)[n] = Program("mkosi-tools", MkosiTools) BY <2>4 DEF MkosiToolsAt
    <3>2. ~Ships(Programs(k)[n].name) /\ Programs(k)[n].steps = MkosiTools BY <1>2, <3>1 DEF Ships
    <3>3. n < ImageIndex(k) /\ n + 1 = ImageIndex(k) /\ n <= ImageIndex(k) /\ n + 1 <= ImageIndex(k)
          /\ ~(n + 1 < ImageIndex(k))
      BY <1>1, <3>1
    <3>4. ImageAt(k, n) = {NothingYet} /\ ImageAt(k, n + 1) = {NothingYet} BY <3>3 DEF ImageAt
    <3>5. FilesAt(k, n) = {} /\ FilesAt(k, n + 1) = {"tools-record"}
      <4>1. FilesAt(k, n) = {} BY <1>b, <3>3 DEF FilesAt
      <4> QED BY <1>b, <3>3, <4>1 DEF FilesAt
    <3> HIDE DEF ii
    <3>6. Carries(k, FALSE, <<Do("nothing", {}, <<>>, <<>>, {"tools-record"})>>, Having({NothingYet}, {}),
                  Having({NothingYet}, {"tools-record"}))
      <4> DEFINE gives == {"tools-record"}
                 files == {}
      <4>1. gives \in SUBSET WorkFiles /\ gives \subseteq files \cup gives /\ files \subseteq files
        BY <2>s
      <4> HIDE DEF gives, files
      <4>2. Carries(k, FALSE, <<Do("nothing", files, <<>>, <<>>, gives)>>, Having({NothingYet}, files), Having({NothingYet}, gives))
        BY <2>s, <4>1, SilentLeads
      <4> QED BY <4>2 DEF gives, files
    <3> QED BY <1>4, <3>2, <3>4, <3>5, <3>6 DEF MkosiTools
  <2>5. CASE MkosiAt(k, n)
    <3>1. n = ii /\ Programs(k)[n] = Program("mkosi", MkosiImage(k)) BY <2>5 DEF MkosiAt
    <3>2. Ships(Programs(k)[n].name) /\ Programs(k)[n].steps = MkosiImage(k) BY <1>2, <3>1 DEF Ships
    <3>3. FilesAt(k, n) = {"tools-record"} BY <1>b, <1>1, <3>1 DEF FilesAt
    <3>4. FilesAt(k, n + 1) = {"tools-record"} \cup FedoraGiven(k)
      <4>1. ~(n + 1 < ImageIndex(k)) /\ n + 1 # ImageIndex(k) BY <3>1, <1>1
      <4> QED BY <1>b, <4>1 DEF FilesAt
    <3> HIDE DEF ii
    <3>5. Carries(k, TRUE, MkosiImage(k), Stood(At({}, {}, {}, {}, {"tools-record"}, {})),
                  Made(k, {"tools-record"} \cup FedoraGiven(k)))
      BY <2>1, MkosiLeads
    <3> QED BY <1>5, <3>1, <3>2, <3>3, <3>4, <3>5
  <2>6. CASE GzipAt(k, n)
    <3>1. n = ii + 1 /\ Programs(k)[n] = Program("gzip", Gzip) BY <2>6 DEF GzipAt
    <3>2. ~Ships(Programs(k)[n].name) /\ Programs(k)[n].steps = Gzip BY <1>2, <3>1 DEF Ships
    <3>3. /\ ~(n < ImageIndex(k)) /\ n # ImageIndex(k) /\ ~(n <= ImageIndex(k)) /\ ~(n + 1 <= ImageIndex(k))
          /\ ~(n + 1 < ImageIndex(k)) /\ n + 1 # ImageIndex(k)
      BY <1>1, <3>1
    <3> DEFINE g == {"tools-record"} \cup FedoraGiven(k)
    <3>4. ImageAt(k, n) = Clean(k) /\ ImageAt(k, n + 1) = Clean(k) BY <3>3 DEF ImageAt
    <3>5. FilesAt(k, n) = g /\ FilesAt(k, n + 1) = g BY <1>b, <3>3 DEF FilesAt
    <3>6. {"tar"} \subseteq g BY DEF FedoraGiven
    <3> HIDE DEF g, ii
    <3>7. Carries(k, FALSE, <<Do("nothing", {"tar"}, <<>>, <<>>, {"tarball"})>>, Having(Clean(k), g), Having(Clean(k), g))
      <4> DEFINE gives == {"tarball"}
                 takes == {"tar"}
      <4>1. gives \in SUBSET WorkFiles /\ g \subseteq g \cup gives /\ takes \subseteq g BY <2>s, <3>6
      <4> HIDE DEF gives, takes
      <4>2. Carries(k, FALSE, <<Do("nothing", takes, <<>>, <<>>, gives)>>, Having(Clean(k), g), Having(Clean(k), g))
        BY <2>s, <4>1, SilentLeads
      <4> QED BY <4>2 DEF gives, takes
    <3> QED BY <1>4, <3>2, <3>4, <3>5, <3>7 DEF Gzip
  <2> QED BY <2>2, <2>3, <2>4, <2>5, <2>6
<1> QED BY <1>a, <1>b

NameAt(k, n)  == Programs(k)[n].name
StepsAt(k, n) == Programs(k)[n].steps

LEMMA PlanFacts ==
  ASSUME NEW k \in ValidKinds
  PROVE  /\ Len(Programs(k)) \in Nat /\ ImageIndex(k) \in 1..Len(Programs(k))
         /\ DOMAIN Programs(k) = 1..Len(Programs(k))
         /\ ImageAt(k, Len(Programs(k)) + 1) = Clean(k)
         /\ Reads(k) \subseteq FilesAt(k, Len(Programs(k)) + 1)
<1> DEFINE len == Len(Programs(k))
           m == len + 1
<1>1. len = (IF Fedora(k) THEN ImageIndex(k) + 1 ELSE IF Disk(k) THEN 10 ELSE 1) /\ DOMAIN Programs(k) = 1..len
  BY ThePlan
<1>2. ImageIndex(k) \in Nat /\ ImageIndex(k) >= 1 /\ (~Fedora(k) => ImageIndex(k) = IF Disk(k) THEN 2 ELSE 1)
  BY DEF ImageIndex
<1> HIDE DEF len
<1>3. len \in Nat /\ ImageIndex(k) \in 1..len BY <1>1, <1>2
<1>4. ~(m < ImageIndex(k)) /\ m # ImageIndex(k) /\ ~(m <= ImageIndex(k))
      /\ (Disk(k) /\ ~Fedora(k) => m - ImageIndex(k) = 9)
  BY <1>1, <1>2
<1>5. /\ k.offline \in BOOLEAN /\ k.python \in BOOLEAN /\ k.index \in BOOLEAN /\ Disk(k) \in BOOLEAN
      /\ Fedora(k) \in BOOLEAN
  BY ValidKind, KindFields
<1> HIDE DEF m
<1>6. ImageAt(k, m) = Clean(k) BY <1>4 DEF ImageAt
<1>7. CASE Fedora(k)
  <2>1. FilesAt(k, m) = {"tools-record"} \cup FedoraGiven(k) BY <1>4, <1>7, FilesBefore, Zenon
  <2>2. Reads(k) \subseteq {"tools-record"} \cup FedoraGiven(k) BY <1>7 DEF Reads, FedoraGiven
  <2> QED BY <1>1, <1>3, <1>6, <2>1, <2>2 DEF len, m
<1>8. CASE ~Fedora(k)
  <2>1. FilesAt(k, m) = ToolsGiven(k) \cup Given(k) \cup Assembled(m - ImageIndex(k))
    BY <1>4, <1>8, FilesBefore, Zenon
  <2>2. Reads(k) \subseteq ToolsGiven(k) \cup Given(k)
    BY <1>5, <1>8 DEF Reads, ToolsGiven, Given, PipGiven, HooksGive, PipReports
  <2> QED BY <1>1, <1>3, <1>6, <2>1, <2>2 DEF len, m
<1> QED BY <1>7, <1>8

LEMMA NameFacts ==
  ASSUME NEW k \in ValidKinds, NEW n \in 1..Len(Programs(k))
  PROVE  /\ Ships(NameAt(k, n)) <=> n = ImageIndex(k)
         /\ NameAt(k, n) = "image" <=> ~Fedora(k) /\ n = ImageIndex(k)
         /\ NameAt(k, n) = "tools-tree" <=> ~Fedora(k) /\ Disk(k) /\ n = 1
         /\ NameAt(k, n) = "tool" <=> ~Fedora(k) /\ n > ImageIndex(k)
         /\ NameAt(k, n) = "createrepo" <=> Fedora(k) /\ k.offline /\ n = 1
         /\ NameAt(k, n) = "mkosi-tools" <=> Fedora(k) /\ n + 1 = ImageIndex(k)
         /\ NameAt(k, n) = "mkosi" <=> Fedora(k) /\ n = ImageIndex(k)
         /\ NameAt(k, n) = "gzip" <=> Fedora(k) /\ n = ImageIndex(k) + 1
         /\ NameAt(k, n) \notin {"image", "mkosi", "tools-tree"} => Silent(StepsAt(k, n))
         /\ NameAt(k, n) = "image" => StepsAt(k, n) = ImageProgram(k)
         /\ NameAt(k, n) = "tools-tree" => Len(StepsAt(k, n)) = 4
<1>1. \A name, steps : Program(name, steps).name = name /\ Program(name, steps).steps = steps
  BY DEF Program
<1>2. ImageIndex(k) \in Nat /\ ImageIndex(k) >= 1 /\ n \in Nat /\ n >= 1 /\ Disk(k) \in BOOLEAN
  BY ThePlan, ValidKind, KindFields DEF ImageIndex
<1>a. CASE ~Fedora(k)
  <2>1. ToolsAt(k, n) \/ ImageOf(k, n) \/ ToolAt(k, n) BY <1>a, ThePlan
  <2>2. ImageIndex(k) = IF Disk(k) THEN 2 ELSE 1 BY <1>a DEF ImageIndex
  <2>3. CASE ToolsAt(k, n)
    <3>1. Disk(k) /\ n = 1 /\ NameAt(k, n) = "tools-tree" /\ StepsAt(k, n) = DiskToolsProgram(k)
      BY <1>1, <2>3 DEF ToolsAt, NameAt, StepsAt
    <3>2. n # ImageIndex(k) /\ ~(n > ImageIndex(k)) BY <2>2, <3>1
    <3>3. Len(StepsAt(k, n)) = 4 BY <1>a, <3>1, ValidKind, DiskToolsLead
    <3> QED BY <1>a, <3>1, <3>2, <3>3 DEF Ships
  <2>4. CASE ImageOf(k, n)
    <3>1. n = ImageIndex(k) /\ NameAt(k, n) = "image" /\ StepsAt(k, n) = ImageProgram(k)
      BY <1>1, <2>4 DEF ImageOf, NameAt, StepsAt
    <3>2. ~(n > ImageIndex(k)) /\ ~(Disk(k) /\ n = 1) BY <1>2, <2>2, <3>1
    <3> QED BY <1>a, <3>1, <3>2 DEF Ships
  <2>5. CASE ToolAt(k, n)
    <3>1. Disk(k) /\ n - 2 \in 1..8 /\ NameAt(k, n) = "tool" /\ StepsAt(k, n) = AssemblyPrograms[n - 2]
      BY <1>1, <2>5 DEF ToolAt, NameAt, StepsAt
    <3>2. n # ImageIndex(k) /\ n > ImageIndex(k) /\ n # 1 BY <1>2, <2>2, <3>1
    <3>3. Silent(StepsAt(k, n)) BY <3>1, SilentPrograms
    <3> QED BY <1>a, <3>1, <3>2, <3>3 DEF Ships
  <2> QED BY <2>1, <2>3, <2>4, <2>5
<1>b. CASE Fedora(k)
  <2>1. RepoAt(k, n) \/ MkosiToolsAt(k, n) \/ MkosiAt(k, n) \/ GzipAt(k, n) BY <1>b, ThePlan
  <2>2. ImageIndex(k) = (IF k.offline THEN 3 ELSE 2) BY <1>b DEF ImageIndex
  <2>3. CASE RepoAt(k, n)
    <3>1. k.offline /\ n = 1 /\ NameAt(k, n) = "createrepo" /\ StepsAt(k, n) = Createrepo
      BY <1>1, <2>3 DEF RepoAt, NameAt, StepsAt
    <3>2. n # ImageIndex(k) /\ n + 1 # ImageIndex(k) /\ n # ImageIndex(k) + 1 BY <2>2, <3>1
    <3> QED BY <1>b, <3>1, <3>2, SilentPrograms DEF Ships
  <2>4. CASE MkosiToolsAt(k, n)
    <3>1. n = ImageIndex(k) - 1 /\ NameAt(k, n) = "mkosi-tools" /\ StepsAt(k, n) = MkosiTools
      BY <1>1, <2>4 DEF MkosiToolsAt, NameAt, StepsAt
    <3>2. n # ImageIndex(k) /\ n + 1 = ImageIndex(k) /\ n # ImageIndex(k) + 1 /\ ~(k.offline /\ n = 1)
      BY <1>2, <2>2, <3>1
    <3> QED BY <1>b, <3>1, <3>2, SilentPrograms DEF Ships
  <2>5. CASE MkosiAt(k, n)
    <3>1. n = ImageIndex(k) /\ NameAt(k, n) = "mkosi" BY <1>1, <2>5 DEF MkosiAt, NameAt
    <3>2. n + 1 # ImageIndex(k) /\ n # ImageIndex(k) + 1 /\ ~(k.offline /\ n = 1) BY <1>2, <2>2, <3>1
    <3> QED BY <1>b, <3>1, <3>2 DEF Ships
  <2>6. CASE GzipAt(k, n)
    <3>1. n = ImageIndex(k) + 1 /\ NameAt(k, n) = "gzip" /\ StepsAt(k, n) = Gzip
      BY <1>1, <2>6 DEF GzipAt, NameAt, StepsAt
    <3>2. n # ImageIndex(k) /\ n + 1 # ImageIndex(k) /\ ~(k.offline /\ n = 1) BY <1>2, <2>2, <3>1
    <3> QED BY <1>b, <3>1, <3>2, SilentPrograms DEF Ships
  <2> QED BY <2>1, <2>3, <2>4, <2>5, <2>6
<1> QED BY <1>a, <1>b

(* The way through a program: what there is before each of its steps.      *)
Walks(k, n, i, im, g, l) ==
  /\ Labels(k, Ships(NameAt(k, n)), StepsAt(k, n), l) /\ l[1].said = {}
  /\ l[i].image = im /\ l[i].given = g /\ l[Len(StepsAt(k, n)) + 1] \in Goal(k, n)

LEMMA WalkBegins ==
  ASSUME NEW k \in ValidKinds, NEW n \in 1..Len(Programs(k)), NEW im, NEW g,
         [image |-> im, given |-> g, said |-> {}] \in Entry(k, n)
  PROVE  \E l : Walks(k, n, 1, im, g, l)
<1>1. Carries(k, Ships(NameAt(k, n)), StepsAt(k, n), Entry(k, n), Goal(k, n))
  BY ProgramsLead DEF NameAt, StepsAt
<1> DEFINE a == [image |-> im, given |-> g, said |-> {}]
<1>2. a.image = im /\ a.given = g /\ a.said = {} OBVIOUS
<1> HIDE DEF a
<1>3. a \in Entry(k, n) BY DEF a
<1>4. PICK l : /\ Labels(k, Ships(NameAt(k, n)), StepsAt(k, n), l) /\ l[1] = a
               /\ l[Len(StepsAt(k, n)) + 1] \in Goal(k, n)
  BY <1>1, <1>3 DEF Carries
<1>5. Walks(k, n, 1, im, g, l) BY <1>2, <1>4 DEF Walks
<1> QED BY <1>5

LEMMA StepsLength ==
  ASSUME NEW k \in ValidKinds, NEW n \in 1..Len(Programs(k))
  PROVE  Len(StepsAt(k, n)) \in Nat
<1>1. Listed(StepsAt(k, n)) BY ProgramsLead DEF Carries, StepsAt
<1> QED BY <1>1 DEF Listed

LEMMA FirstWalk ==
  ASSUME NEW k \in ValidKinds
  PROVE  \E l : Walks(k, 1, 1, NothingYet, {}, l)
<1> DEFINE a == [image |-> NothingYet, given |-> {}, said |-> {}]
<1>1. 1 \in 1..Len(Programs(k)) /\ 1 <= ImageIndex(k) /\ ImageIndex(k) \in Nat BY PlanFacts
<1>2. FilesAt(k, 1) = {}
  <2>1. CASE 1 < ImageIndex(k) BY <2>1, FilesBefore
  <2>2. CASE ~(1 < ImageIndex(k))
    <3>1. 1 = ImageIndex(k) BY <1>1, <2>2
    <3>2. ~Fedora(k) /\ ~Disk(k) BY <3>1 DEF ImageIndex
    <3>3. FilesAt(k, 1) = ToolsGiven(k) BY <2>2, <3>1, <3>2, FilesBefore, Zenon
    <3> QED BY <3>2, <3>3 DEF ToolsGiven
  <2> QED BY <2>1, <2>2
<1>3. NothingYet \in [ImageFiles -> Contents] BY DEF NothingYet, Contents
<1>4. a \in States BY <1>3 DEF States
<1>5. ImageAt(k, 1) = {NothingYet} BY <1>1 DEF ImageAt
<1>6. a \in Entry(k, 1) BY <1>2, <1>4, <1>5 DEF Entry, Having
<1> HIDE DEF a
<1> QED BY <1>1, <1>6, WalkBegins DEF a

LEMMA NextWalk ==
  ASSUME NEW k \in ValidKinds, NEW n \in 1..Len(Programs(k)), n < Len(Programs(k)), NEW im, NEW g, NEW l,
         Walks(k, n, Len(StepsAt(k, n)) + 1, im, g, l)
  PROVE  \E m : Walks(k, n + 1, 1, im, g, m)
<1> DEFINE s == l[Len(StepsAt(k, n)) + 1]
           a == [image |-> im, given |-> g, said |-> {}]
<1>1. s \in Goal(k, n) /\ s.image = im /\ s.given = g BY DEF Walks
<1> HIDE DEF s
<1>2. s \in States /\ s.image \in ImageAt(k, n + 1) /\ FilesAt(k, n + 1) \subseteq s.given
  BY <1>1 DEF Goal, Having
<1>3. im \in [ImageFiles -> Contents] /\ g \in SUBSET WorkFiles BY <1>1, <1>2 DEF States
<1>4. a \in States BY <1>3 DEF States
<1>5. a.image = im /\ a.given = g /\ a.said = {} OBVIOUS
<1> HIDE DEF a
<1>6. a \in Entry(k, n + 1) BY <1>1, <1>2, <1>4, <1>5 DEF Entry, Having
<1>7. n + 1 \in 1..Len(Programs(k)) BY PlanFacts
<1> QED BY <1>6, <1>7, WalkBegins DEF a

(* A step of the way is ready, and leads on.                               *)
LEMMA WalkReady ==
  ASSUME NEW k \in ValidKinds, NEW n \in 1..Len(Programs(k)), NEW i \in 1..Len(StepsAt(k, n)),
         NEW im, NEW g, NEW l, Walks(k, n, i, im, g, l)
  PROVE  LET s == StepsAt(k, n)[i]
         IN /\ s.takes \subseteq g /\ \A p \in DOMAIN s.needs : im[p] = s.needs[p]
            /\ Ships(NameAt(k, n)) => Speaks(k, s.says, l[i].said)
            /\ Walks(k, n, i + 1, IF Ships(NameAt(k, n)) THEN Onto(s.writes, im) ELSE im, g \cup s.gives, l)
            /\ l[i + 1].said = l[i].said \cup {s.says}
<1> DEFINE s == StepsAt(k, n)[i]
           ship == Ships(NameAt(k, n))
<1>1. Fits(k, ship, s, l[i]) /\ l[i + 1] = Taken(ship, s, l[i]) BY DEF Walks, Labels
<1>2. l[i].image = im /\ l[i].given = g BY DEF Walks
<1>3. /\ l[i + 1].image = (IF ship THEN Onto(s.writes, im) ELSE im) /\ l[i + 1].given = g \cup s.gives
      /\ l[i + 1].said = l[i].said \cup {s.says}
  BY <1>1, <1>2 DEF Taken
<1> HIDE DEF s, ship
<1>4. Walks(k, n, i + 1, IF ship THEN Onto(s.writes, im) ELSE im, g \cup s.gives, l)
  BY <1>3, Zenon DEF Walks
<1>5. s.takes \subseteq g /\ (\A p \in DOMAIN s.needs : im[p] = s.needs[p]) /\ (ship => Speaks(k, s.says, l[i].said))
  BY <1>1, <1>2 DEF Fits
<1> QED BY <1>3, <1>4, <1>5 DEF s, ship

LEMMA WalkFinds ==
  ASSUME NEW k \in ValidKinds, NEW n \in 1..Len(Programs(k)), NEW i \in 1..Len(StepsAt(k, n)),
         NEW im, NEW g, NEW l, Walks(k, n, i, im, g, l)
  PROVE  /\ StepsAt(k, n)[i].takes \subseteq g
         /\ \A p \in DOMAIN StepsAt(k, n)[i].needs : im[p] = StepsAt(k, n)[i].needs[p]
         /\ Ships(NameAt(k, n)) => Speaks(k, StepsAt(k, n)[i].says, l[i].said)
         /\ l[i + 1].said = l[i].said \cup {StepsAt(k, n)[i].says}
         /\ l[i] \in States /\ l[i + 1] \in States
<1>1. l \in [1..Len(StepsAt(k, n)) + 1 -> States] BY DEF Walks, Labels
<1>2. i \in 1..Len(StepsAt(k, n)) + 1 /\ i + 1 \in 1..Len(StepsAt(k, n)) + 1 BY StepsLength
<1>3. l[i] \in States /\ l[i + 1] \in States BY <1>1, <1>2
<1> DEFINE s == StepsAt(k, n)[i]
           ship == Ships(NameAt(k, n))
<1>4. Fits(k, ship, s, l[i]) /\ l[i + 1] = Taken(ship, s, l[i]) BY DEF Walks, Labels
<1>5. l[i].image = im /\ l[i].given = g BY DEF Walks
<1> HIDE DEF s, ship
<1>6. l[i + 1].said = l[i].said \cup {s.says} BY <1>4 DEF Taken
<1>7. s.takes \subseteq g /\ (\A p \in DOMAIN s.needs : im[p] = s.needs[p]) /\ (ship => Speaks(k, s.says, l[i].said))
  BY <1>4, <1>5 DEF Fits
<1> QED BY <1>3, <1>6, <1>7 DEF s, ship

LEMMA WalkEnds ==
  ASSUME NEW k \in ValidKinds, NEW im, NEW g, NEW l,
         Walks(k, Len(Programs(k)), Len(StepsAt(k, Len(Programs(k)))) + 1, im, g, l)
  PROVE  im \in Clean(k) /\ Reads(k) \subseteq g
<1> DEFINE n == Len(Programs(k))
           s == l[Len(StepsAt(k, n)) + 1]
<1>1. s \in Goal(k, n) /\ s.image = im /\ s.given = g BY DEF Walks
<1>2. s.image \in ImageAt(k, n + 1) /\ FilesAt(k, n + 1) \subseteq s.given BY <1>1 DEF Goal, Having
<1> QED BY <1>1, <1>2, PlanFacts

-----------------------------------------------------------------------------
(* What is in a queue of lines.                                            *)
In(x, q) == \E i \in 1..Len(q) : q[i] = x
SpokenLines == Sayings \cup {"refusal"}

LEMMA InTail ==
  ASSUME NEW S, NEW q \in Seq(S), q # <<>>, NEW x
  PROVE  /\ In(x, q) <=> x = Head(q) \/ In(x, Tail(q))
         /\ Tail(q) \in Seq(S) /\ Head(q) \in S /\ Len(Tail(q)) = Len(q) - 1 /\ Len(q) \in Nat \ {0}
<1>1. Tail(q) \in Seq(S) /\ Head(q) \in S /\ Len(Tail(q)) = Len(q) - 1 /\ Len(q) \in Nat \ {0} /\ Head(q) = q[1]
  OBVIOUS
<1>2. \A i \in 1..Len(Tail(q)) : Tail(q)[i] = q[i + 1] OBVIOUS
<1>3. ASSUME In(x, q) PROVE x = Head(q) \/ In(x, Tail(q))
  <2>1. PICK i \in 1..Len(q) : q[i] = x BY <1>3 DEF In
  <2>2. CASE i = 1 BY <2>1, <2>2, <1>1
  <2>3. CASE i # 1
    <3>1. i - 1 \in 1..Len(Tail(q)) /\ (i - 1) + 1 = i BY <2>1, <2>3, <1>1
    <3>2. Tail(q)[i - 1] = x BY <3>1, <2>1, <1>2
    <3> QED BY <3>1, <3>2 DEF In
  <2> QED BY <2>2, <2>3
<1>4. ASSUME In(x, Tail(q)) PROVE In(x, q)
  <2>1. PICK i \in 1..Len(Tail(q)) : Tail(q)[i] = x BY <1>4 DEF In
  <2>2. i + 1 \in 1..Len(q) /\ q[i + 1] = x BY <2>1, <1>1, <1>2
  <2> QED BY <2>2 DEF In
<1>5. x = Head(q) => In(x, q) BY <1>1 DEF In
<1> QED BY <1>1, <1>3, <1>4, <1>5

LEMMA InConcat ==
  ASSUME NEW S, NEW q \in Seq(S), NEW r \in Seq(S), NEW x
  PROVE  /\ In(x, q \o r) <=> In(x, q) \/ In(x, r)
         /\ q \o r \in Seq(S) /\ Len(q \o r) = Len(q) + Len(r)
<1>1. /\ q \o r \in Seq(S) /\ Len(q \o r) = Len(q) + Len(r) /\ Len(q) \in Nat /\ Len(r) \in Nat
      /\ \A i \in 1..Len(q) : (q \o r)[i] = q[i]
      /\ \A i \in 1..Len(r) : (q \o r)[Len(q) + i] = r[i]
  OBVIOUS
<1>2. ASSUME In(x, q \o r) PROVE In(x, q) \/ In(x, r)
  <2>1. PICK i \in 1..Len(q) + Len(r) : (q \o r)[i] = x BY <1>1, <1>2 DEF In
  <2>2. CASE i <= Len(q)
    <3>1. i \in 1..Len(q) BY <1>1, <2>2
    <3> QED BY <1>1, <2>1, <3>1 DEF In
  <2>3. CASE ~(i <= Len(q))
    <3>1. i - Len(q) \in 1..Len(r) /\ i = Len(q) + (i - Len(q)) BY <1>1, <2>3
    <3>2. r[i - Len(q)] = x BY <1>1, <2>1, <3>1
    <3> QED BY <3>1, <3>2 DEF In
  <2> QED BY <2>2, <2>3
<1>3. ASSUME In(x, q) PROVE In(x, q \o r)
  <2>1. PICK i \in 1..Len(q) : q[i] = x BY <1>3 DEF In
  <2>2. i \in 1..Len(q \o r) /\ (q \o r)[i] = x BY <1>1, <2>1
  <2> QED BY <2>2 DEF In
<1>4. ASSUME In(x, r) PROVE In(x, q \o r)
  <2>1. PICK i \in 1..Len(r) : r[i] = x BY <1>4 DEF In
  <2>2. Len(q) + i \in 1..Len(q \o r) /\ (q \o r)[Len(q) + i] = x BY <1>1, <2>1
  <2> QED BY <2>2 DEF In
<1> QED BY <1>1, <1>2, <1>3, <1>4

LEMMA InNothing == ASSUME NEW x PROVE ~In(x, <<>>)
BY DEF In

-----------------------------------------------------------------------------
(* The build's invariant, without its display.                             *)
Length == Len(StepsAt(kind, program))

Typed ==
  /\ kind \in ValidKinds /\ omits \subseteq Omitted
  /\ refuses \in BOOLEAN /\ refused \in BOOLEAN /\ interrupted \in BOOLEAN
  /\ signaled \in BOOLEAN /\ fault \in BOOLEAN
  /\ program \in 1..Len(Programs(kind)) /\ at \in 1..Length + 1
  /\ pipe \in Seq(SpokenLines) /\ Len(pipe) <= PipeSize
  /\ process \in {"none", "running", "ok", "failed"} /\ tree \in {"none", "there"}
  /\ removal \in {"none", "done", "failed"}
  /\ stage \in {"verify", "programs", "clean", "records", "place", "failing", "over"}
Walking == \E l : Walks(kind, program, at, image, given, l)
Running ==
  /\ process # "none" => stage = "programs"
  /\ process = "none" /\ stage \in {"verify", "programs"} => pipe = <<>> /\ at = 1 /\ ~signaled
  /\ stage = "verify" => program = 1
  /\ process = "ok" => at = Length + 1
  /\ process = "failed" => fault \/ signaled
  /\ signaled => interrupted \/ refused
  /\ stage \in {"records", "clean", "place"} \/ verdict = "placed"
       => program = Len(Programs(kind)) /\ at = Length + 1 /\ ~refuses
Refusing ==
  /\ refused \/ In("refusal", pipe) => refuses
  /\ refuses => ~Fedora(kind) /\ program = 1
  /\ refuses /\ process # "none" /\ at > 1 => refused \/ In("refusal", pipe)
Treed ==
  /\ stage \in {"verify", "programs"} => removal = "none"
  /\ removal = "done" => tree = "none"
  /\ stage = "place" \/ verdict = "placed" => tree = "none"
  /\ ~Tree => tree = "none"
  /\ stage = "records" /\ Fedora(kind) => tree = "none"
  /\ stage = "over" /\ tree = "there" => removal = "failed"
Judged ==
  /\ stage \notin {"failing", "over"} => verdict = "none"
  /\ verdict = "placed" => stage = "over"
  /\ verdict = "interrupted" => interrupted
  /\ verdict = "mounts" => refuses
  /\ verdict \notin {"none", "placed", "interrupted", "mounts"} => fault
BootInv == Typed /\ Walking /\ Running /\ Refusing /\ Treed /\ Judged

LEMMA Derived ==
  /\ Plan = Programs(kind) /\ Name = NameAt(kind, program) /\ Steps = StepsAt(kind, program)
  /\ Len(Steps) = Length /\ Shipped = Ships(NameAt(kind, program))
BY DEF Plan, Name, Steps, NameAt, StepsAt, Length, Shipped, Ships

LEMMA InvGivesVerdict == BootInv => VerdictIsTrue
BY DEF BootInv, Judged, Treed, VerdictIsTrue

LEMMA InvGivesClean == BootInv => PlacedIsClean
<1> SUFFICES ASSUME BootInv, verdict = "placed"
             PROVE  /\ ~refuses /\ tree = "none"
                    /\ \A p \in ImageFiles : image[p] \notin {"build", "host"}
                    /\ \A p \in Promised(kind) : image[p] = "recipe"
  BY DEF PlacedIsClean
<1>1. kind \in ValidKinds /\ program = Len(Programs(kind)) /\ at = Length + 1 /\ ~refuses /\ tree = "none"
  BY DEF BootInv, Typed, Running, Treed
<1>2. PICK l : Walks(kind, program, at, image, given, l) BY DEF BootInv, Walking
<1>3. Walks(kind, Len(Programs(kind)), Len(StepsAt(kind, Len(Programs(kind)))) + 1, image, given, l)
  BY <1>1, <1>2 DEF Length
<1>4. image \in Clean(kind) BY <1>1, <1>3, WalkEnds
<1> QED BY <1>1, <1>4 DEF Clean

LEMMA BootInvInit == BootstrapInit => BootInv
<1> SUFFICES ASSUME BootstrapInit PROVE BootInv OBVIOUS
<1>1. kind \in ValidKinds /\ omits \subseteq Omitted /\ refuses \in BOOLEAN
  BY KindsAssumption DEF BootstrapInit, ValidKinds
<1>2. 1 \in 1..Len(Programs(kind)) BY <1>1, PlanFacts
<1>3. program = 1 /\ at = 1 /\ process = "none" /\ signaled = FALSE /\ pipe = <<>>
      /\ refused = FALSE /\ interrupted = FALSE /\ image = NothingYet /\ given = {} /\ tree = "none"
      /\ removal = "none" /\ stage \in {"verify", "programs"} /\ verdict = "none" /\ fault = FALSE
      /\ (Fedora(kind) => ~refuses)
  BY DEF BootstrapInit
<1>4. <<>> \in Seq(SpokenLines) /\ Len(<<>>) = 0 /\ 0 <= PipeSize BY PipeSizeAssumption
<1>5. Length \in Nat BY <1>1, <1>2, <1>3, StepsLength DEF Length
<1>6. Typed
  <2>1. at \in 1..Length + 1 /\ program \in 1..Len(Programs(kind)) BY <1>2, <1>3, <1>5
  <2>2. pipe \in Seq(SpokenLines) /\ Len(pipe) <= PipeSize BY <1>3, <1>4
  <2> QED BY <1>1, <1>3, <2>1, <2>2 DEF Typed
<1>7. Walking BY <1>1, <1>3, FirstWalk DEF Walking
<1>8. Running BY <1>3 DEF Running
<1>9. Refusing BY <1>3, InNothing DEF Refusing
<1>10. Treed BY <1>3 DEF Treed
<1>11. Judged BY <1>3 DEF Judged
<1> QED BY <1>6, <1>7, <1>8, <1>9, <1>10, <1>11 DEF BootInv

-----------------------------------------------------------------------------
(* Every action keeps it.                                                  *)
LEMMA VerifyKeeps == BootInv /\ VerifyPool => BootInv'
<1> SUFFICES ASSUME BootInv, VerifyPool PROVE BootInv' OBVIOUS
<1> USE DEF VerifyPool, BootInv, Breaks, Fail, host, running, product
<1>1. Typed' BY DEF Typed, Length
<1>2. Walking' BY DEF Walking
<1>3. Running' BY DEF Typed, Running, Length
<1>4. Refusing' BY DEF Refusing
<1>5. Treed' BY DEF Typed, Treed, Tree
<1>6. Judged' BY DEF Typed, Judged
<1> QED BY <1>1, <1>2, <1>3, <1>4, <1>5, <1>6

LEMMA StartKeeps == BootInv /\ Start => BootInv'
<1> SUFFICES ASSUME BootInv, Start PROVE BootInv' OBVIOUS
<1>1. UNCHANGED <<kind, omits, refuses, program, at, signaled, pipe, refused, interrupted, image, given, removal, fault>>
      /\ stage = "programs" /\ process = "none"
  BY DEF Start, host, ending, Fail
<1>2. \/ interrupted /\ stage' = "failing" /\ verdict' = "interrupted" /\ process' = "none"
      \/ ~interrupted /\ process' = "running" /\ stage' = "programs" /\ verdict' = verdict
  BY DEF Start, Fail, ending
<1>3. tree' \in {"none", "there"} /\ (tree' # tree => Tree)
  <2>1. Name \in {"tools-tree", "createrepo", "mkosi-tools"} => Tree
    BY Derived, NameFacts DEF Tree, BootInv, Typed
  <2>2. tree' = IF Name \in {"tools-tree", "createrepo", "mkosi-tools"} THEN "there" ELSE tree
    BY DEF Start
  <2> QED BY <2>1, <2>2 DEF BootInv, Typed
<1> USE <1>1, <1>2, <1>3 DEF BootInv
<1>4. Typed' BY DEF Typed, Length
<1>5. Walking' BY DEF Walking
<1>6. Running' BY DEF Typed, Running, Length, Judged
<1>7. Refusing' BY DEF Refusing, Running
<1>8. Treed' BY DEF Typed, Treed, Tree, Judged
<1>9. Judged' BY DEF Typed, Judged
<1> QED BY <1>4, <1>5, <1>6, <1>7, <1>8, <1>9

LEMMA StageFailsKeeps == BootInv /\ StageFails => BootInv'
<1> SUFFICES ASSUME BootInv, StageFails PROVE BootInv' OBVIOUS
<1> USE DEF StageFails, BootInv, Breaks, Fail, host, running, product
<1>1. Typed' BY DEF Typed, Length
<1>2. Walking' BY DEF Walking
<1>3. Running' BY DEF Typed, Running, Length, Judged
<1>4. Refusing' BY DEF Refusing
<1>5. Treed' BY DEF Typed, Treed, Tree, Judged
<1>6. Judged' BY DEF Typed, Judged
<1> QED BY <1>1, <1>2, <1>3, <1>4, <1>5, <1>6

LEMMA InterruptKeeps == BootInv /\ Interrupt => BootInv'
<1> SUFFICES ASSUME BootInv, Interrupt PROVE BootInv' OBVIOUS
<1> USE DEF Interrupt, BootInv, host, running, product, ending
<1>1. Typed' BY DEF Typed, Length
<1>2. Walking' BY DEF Walking
<1>3. Running' BY DEF Typed, Running, Length, Judged
<1>4. Refusing' BY DEF Refusing
<1>5. Treed' BY DEF Typed, Treed, Tree, Judged
<1>6. Judged' BY DEF Typed, Judged
<1> QED BY <1>1, <1>2, <1>3, <1>4, <1>5, <1>6

LEMMA SignalKeeps == BootInv /\ Signal => BootInv'
<1> SUFFICES ASSUME BootInv, Signal PROVE BootInv' OBVIOUS
<1> USE DEF Signal, BootInv, host, product, ending
<1>1. Typed' BY DEF Typed, Length
<1>2. Walking' BY DEF Walking
<1>3. Running' BY DEF Typed, Running, Length, Judged
<1>4. Refusing' BY DEF Refusing
<1>5. Treed' BY DEF Typed, Treed, Tree, Judged
<1>6. Judged' BY DEF Typed, Judged
<1> QED BY <1>1, <1>2, <1>3, <1>4, <1>5, <1>6

LEMMA RefusesIsWatched == BootInv /\ refuses => Watched
<1> SUFFICES ASSUME BootInv, refuses PROVE Watched OBVIOUS
<1>1. ~Fedora(kind) /\ program = 1 /\ kind \in ValidKinds /\ 1 \in 1..Len(Programs(kind))
  BY DEF BootInv, Refusing, Typed
<1>2. Disk(kind) => NameAt(kind, 1) = "tools-tree" BY <1>1, NameFacts
<1>3. ~Disk(kind) => NameAt(kind, 1) = "image"
  <2>1. ~Disk(kind) => ImageIndex(kind) = 1 BY <1>1 DEF ImageIndex
  <2> QED BY <1>1, <2>1, NameFacts
<1> QED BY <1>1, <1>2, <1>3, Derived DEF Watched

LEMMA ReadKeeps == BootInv /\ Read => BootInv'
<1> SUFFICES ASSUME BootInv, Read PROVE BootInv' OBVIOUS
<1>1. /\ UNCHANGED <<kind, omits, refuses, program, at, process, signaled, interrupted, image, given,
                     tree, removal, stage, verdict, fault>>
      /\ process # "none" /\ pipe # <<>> /\ pipe' = Tail(pipe)
      /\ refused' = (refused \/ Sees(Head(pipe)))
  BY DEF Read, host, product, ending
<1>2. /\ In("refusal", pipe) <=> "refusal" = Head(pipe) \/ In("refusal", Tail(pipe))
      /\ Tail(pipe) \in Seq(SpokenLines) /\ Len(Tail(pipe)) = Len(pipe) - 1 /\ Len(pipe) \in Nat \ {0}
  BY <1>1, InTail DEF BootInv, Typed
<1>3. Sees(Head(pipe)) \in BOOLEAN /\ (Sees(Head(pipe)) => Head(pipe) = "refusal") BY DEF Sees, Watched
<1>4. refuses /\ process # "none" /\ Head(pipe) = "refusal" => Sees(Head(pipe))
  <2>1. refuses => Watched BY RefusesIsWatched
  <2> QED BY <2>1 DEF Sees
<1>5. Typed' BY <1>1, <1>2, <1>3, PipeSizeAssumption DEF BootInv, Typed, Length
<1>6. Walking' BY <1>1 DEF BootInv, Walking
<1>7. Running' BY <1>1 DEF BootInv, Typed, Running, Length
<1>8. Refusing' BY <1>1, <1>2, <1>3, <1>4 DEF BootInv, Refusing
<1>9. Treed' BY <1>1 DEF BootInv, Treed, Tree
<1>10. Judged' BY <1>1 DEF BootInv, Judged
<1> QED BY <1>5, <1>6, <1>7, <1>8, <1>9, <1>10 DEF BootInv

(* What every step but a program's leaves of the running programs.         *)
LEMMA StepKeeps == BootInv /\ Step => BootInv'
<1> SUFFICES ASSUME BootInv, Step PROVE BootInv' OBVIOUS
<1> DEFINE s == StepsAt(kind, program)[at]
           lines == Lines(Steps[at])
<1>1. /\ UNCHANGED <<kind, omits, refuses, program, process, signaled, refused, interrupted, tree, removal,
                     stage, verdict, fault>>
      /\ process = "running" /\ at <= Length /\ at' = at + 1 /\ pipe' = pipe \o lines
      /\ Len(pipe) + Len(lines) <= PipeSize
      /\ image' = (IF Ships(NameAt(kind, program)) THEN Onto(s.writes, image) ELSE image)
      /\ given' = given \cup s.gives
  BY Derived DEF Step, host, ending
<1>2. kind \in ValidKinds /\ program \in 1..Len(Programs(kind)) /\ Length \in Nat /\ at \in 1..Length + 1
  BY StepsLength DEF BootInv, Typed, Length
<1>3. at \in 1..Length /\ at + 1 \in 1..Length + 1 /\ at + 1 > 1 BY <1>1, <1>2
<1>4. PICK l : Walks(kind, program, at, image, given, l) BY DEF BootInv, Walking
<1>5. Walks(kind, program, at', image', given', l) BY <1>1, <1>2, <1>3, <1>4, WalkReady DEF Length
<1>6. s.says \in Sayings
  <2>1. l[at + 1].said = l[at].said \cup {s.says} /\ l[at + 1] \in States
    BY <1>2, <1>3, <1>4, WalkFinds DEF Length
  <2> QED BY <2>1 DEF States
<1>7. lines \in Seq(SpokenLines)
  <2>1. lines = (IF Watched /\ refuses /\ at = 1 THEN <<"refusal">> ELSE <<>>)
                \o (IF s.says = "nothing" \/ s.says \in omits THEN <<>> ELSE <<s.says>>)
    BY Derived DEF Lines
  <2>2. <<"refusal">> \in Seq(SpokenLines) /\ <<>> \in Seq(SpokenLines) /\ <<s.says>> \in Seq(SpokenLines)
    BY <1>6 DEF SpokenLines
  <2> QED BY <2>1, <2>2
<1>8. (In("refusal", lines) => refuses) /\ (refuses /\ at = 1 => In("refusal", lines))
  <2> DEFINE a == IF Watched /\ refuses /\ at = 1 THEN <<"refusal">> ELSE <<>>
             b == IF s.says = "nothing" \/ s.says \in omits THEN <<>> ELSE <<s.says>>
  <2>1. lines = a \o b BY Derived DEF Lines
  <2>2. a \in Seq(SpokenLines) /\ b \in Seq(SpokenLines)
    <3>1. <<"refusal">> \in Seq(SpokenLines) /\ <<>> \in Seq(SpokenLines) /\ <<s.says>> \in Seq(SpokenLines)
      BY <1>6 DEF SpokenLines
    <3> QED BY <3>1
  <2>3. "refusal" \notin Sayings BY DEF Sayings
  <2>4. ~In("refusal", b)
    <3>1. In("refusal", <<s.says>>) => s.says = "refusal"
      <4>1. Len(<<s.says>>) = 1 /\ <<s.says>>[1] = s.says /\ \A i \in 1..1 : i = 1 OBVIOUS
      <4> HIDE DEF s
      <4> QED BY <4>1 DEF In
    <3> QED BY <3>1, <2>3, <1>6, InNothing
  <2>5. In("refusal", <<"refusal">>)
    <3>1. Len(<<"refusal">>) = 1 /\ <<"refusal">>[1] = "refusal" /\ 1 \in 1..1 OBVIOUS
    <3> QED BY <3>1 DEF In
  <2>6. In("refusal", a) => refuses BY InNothing
  <2>7. refuses => Watched BY RefusesIsWatched
  <2>8. refuses /\ at = 1 => In("refusal", a) BY <2>5, <2>7
  <2> HIDE DEF a, b, lines
  <2> QED BY <2>1, <2>2, <2>4, <2>6, <2>8, InConcat
<1> HIDE DEF lines, s
<1>9. /\ In("refusal", pipe') <=> In("refusal", pipe) \/ In("refusal", lines)
      /\ pipe' \in Seq(SpokenLines) /\ Len(pipe') = Len(pipe) + Len(lines)
  <2>1. pipe \in Seq(SpokenLines) BY DEF BootInv, Typed
  <2> QED BY <1>1, <1>7, <2>1, InConcat
<1>10. Typed'
  <2>1. Length' = Length BY <1>1 DEF Length
  <2> QED BY <1>1, <1>2, <1>3, <1>9, <2>1 DEF BootInv, Typed
<1>11. Walking' BY <1>1, <1>5 DEF Walking
<1>12. Running' BY <1>1 DEF BootInv, Running, Judged
<1>13. Refusing'
  <2>1. at = 1 \/ at > 1 BY <1>2
  <2> QED BY <1>1, <1>8, <1>9, <2>1 DEF BootInv, Refusing
<1>14. Treed' BY <1>1 DEF BootInv, Treed, Tree
<1>15. Judged' BY <1>1 DEF BootInv, Judged
<1> QED BY <1>10, <1>11, <1>12, <1>13, <1>14, <1>15 DEF BootInv

LEMMA ExitKeeps == BootInv /\ Exit => BootInv'
<1> SUFFICES ASSUME BootInv, Exit PROVE BootInv' OBVIOUS
<1>1. /\ UNCHANGED <<kind, omits, refuses, program, at, signaled, pipe, refused, interrupted, image, given,
                     tree, removal, stage, verdict>>
      /\ process = "running"
  BY DEF Exit, host, product
<1>2. kind \in ValidKinds /\ program \in 1..Len(Programs(kind)) /\ Length \in Nat /\ at \in 1..Length + 1
  BY StepsLength DEF BootInv, Typed, Length
<1>3. at <= Length => Ready(Steps[at])
  <2> SUFFICES ASSUME at <= Length PROVE Ready(Steps[at]) OBVIOUS
  <2>1. at \in 1..Length BY <1>2
  <2>2. PICK l : Walks(kind, program, at, image, given, l) BY DEF BootInv, Walking
  <2>3. /\ StepsAt(kind, program)[at].takes \subseteq given
        /\ \A p \in DOMAIN StepsAt(kind, program)[at].needs : image[p] = StepsAt(kind, program)[at].needs[p]
    BY <1>2, <2>1, <2>2, WalkFinds DEF Length
  <2> QED BY <2>3, Derived DEF Ready
<1>4. \/ process' = "ok" /\ at = Length + 1 /\ fault' = fault
      \/ process' = "failed" /\ signaled /\ fault' = fault
      \/ process' = "failed" /\ fault' = TRUE
  BY <1>2, <1>3, Derived DEF Exit
<1>5. Length' = Length BY <1>1 DEF Length
<1>6. stage = "programs" BY <1>1 DEF BootInv, Running
<1> USE <1>1, <1>4, <1>5, <1>6 DEF BootInv
<1>7. Typed' BY DEF Typed
<1>8. Walking' BY DEF Walking
<1>9. Running' BY DEF Running, Judged
<1>10. Refusing' BY DEF Refusing
<1>11. Treed' BY DEF Treed, Tree
<1>12. Judged' BY DEF Judged
<1> QED BY <1>7, <1>8, <1>9, <1>10, <1>11, <1>12

LEMMA FailedKeeps ==
  ASSUME BootInv, UNCHANGED <<kind, omits, refuses, program, at, signaled, interrupted, image, given, tree, removal>>,
         stage = "programs", process' = "none", stage' = "failing", pipe' \in Seq(SpokenLines), Len(pipe') <= PipeSize,
         refused' \in BOOLEAN, refused' \/ In("refusal", pipe') => refuses, refused => refused',
         fault' \in BOOLEAN,
         \/ verdict' = "interrupted" /\ interrupted
         \/ verdict' = "mounts" /\ refuses
         \/ verdict' \in {"log", "program"} /\ fault'
  PROVE  BootInv'
<1>1. Length' = Length BY DEF Length
<1> USE <1>1 DEF BootInv
<1>2. Typed' BY DEF Typed
<1>3. Walking' BY DEF Walking
<1>4. Running' BY DEF Running
<1>5. Refusing' BY DEF Refusing
<1>6. Treed' BY DEF Treed, Tree
<1>7. Judged' BY DEF Judged
<1> QED BY <1>2, <1>3, <1>4, <1>5, <1>6, <1>7

LEMMA LastLine ==
  ASSUME BootInv, Over
  PROVE  /\ process # "none" /\ stage = "programs" /\ Flushed \in BOOLEAN
         /\ Flushed => refuses
         /\ refused => Flushed
         /\ refuses /\ at > 1 => Flushed
<1>1. process # "none" /\ stage = "programs" BY DEF Over, BootInv, Running
<1>2. pipe \in Seq(SpokenLines) /\ Len(pipe) <= 1 /\ refused \in BOOLEAN BY DEF BootInv, Typed, Over
<1>3. CASE pipe = <<>>
  <2>1. (Flushed <=> refused) /\ ~In("refusal", pipe) BY <1>2, <1>3, InNothing DEF Flushed
  <2>2. Flushed \in BOOLEAN BY <1>2, <1>3 DEF Flushed
  <2> QED BY <1>1, <2>1, <2>2 DEF BootInv, Refusing
<1>4. CASE pipe # <<>>
  <2>1. /\ In("refusal", pipe) <=> "refusal" = Head(pipe) \/ In("refusal", Tail(pipe))
        /\ Tail(pipe) \in Seq(SpokenLines) /\ Len(Tail(pipe)) = Len(pipe) - 1 /\ Len(pipe) \in Nat \ {0}
    BY <1>2, <1>4, InTail
  <2>2. ~In("refusal", Tail(pipe))
    <3>1. Len(Tail(pipe)) = 0 BY <2>1, <1>2
    <3> QED BY <3>1 DEF In
  <2>3. Flushed <=> refused \/ (Watched /\ Head(pipe) = "refusal") BY <1>4 DEF Flushed, Sees
  <2>4. Flushed \in BOOLEAN BY <1>2, <1>4 DEF Flushed, Sees, Watched
  <2>5. refuses => Watched BY RefusesIsWatched
  <2> QED BY <1>1, <2>1, <2>2, <2>3, <2>4, <2>5 DEF BootInv, Refusing
<1> QED BY <1>3, <1>4

LEMMA WaitFailedKeeps == BootInv /\ WaitFailed => BootInv'
<1> SUFFICES ASSUME BootInv, WaitFailed PROVE BootInv' OBVIOUS
<1>1. /\ UNCHANGED <<kind, omits, refuses, program, at, signaled, interrupted, image, given, tree, removal, fault>>
      /\ process' = "none" /\ stage' = "failing" /\ pipe' = <<>> /\ refused' = Flushed /\ Over /\ Erred
      /\ verdict' = (IF interrupted THEN "interrupted" ELSE IF Flushed THEN "mounts" ELSE "program")
  BY DEF WaitFailed, host, product, Fail
<1>2. <<>> \in Seq(SpokenLines) /\ Len(<<>>) <= PipeSize BY PipeSizeAssumption
<1>3. /\ process # "none" /\ stage = "programs" /\ Flushed \in BOOLEAN /\ (Flushed => refuses) /\ (refused => Flushed)
  BY <1>1, LastLine
<1>4. ~interrupted /\ ~Flushed => fault BY <1>1, <1>3 DEF Erred, BootInv, Running
<1>5. fault \in BOOLEAN /\ ~In("refusal", <<>>) BY InNothing DEF BootInv, Typed
<1> QED BY <1>1, <1>2, <1>3, <1>4, <1>5, FailedKeeps

LEMMA LogLostKeeps == BootInv /\ LogLost => BootInv'
<1> SUFFICES ASSUME BootInv, LogLost PROVE BootInv' OBVIOUS
<1>1. /\ UNCHANGED <<kind, omits, refuses, program, at, signaled, interrupted, image, given, tree, removal,
                     pipe, refused>>
      /\ process' = "none" /\ stage' = "failing" /\ Over /\ verdict' = "log" /\ fault' = TRUE
  BY DEF LogLost, host, product, Breaks, Fail
<1>2. stage = "programs" BY <1>1, LastLine
<1>3. pipe \in Seq(SpokenLines) /\ Len(pipe) <= PipeSize /\ refused \in BOOLEAN
      /\ (refused \/ In("refusal", pipe) => refuses)
  BY DEF BootInv, Typed, Refusing
<1> QED BY <1>1, <1>2, <1>3, FailedKeeps

LEMMA WaitRefusedKeeps == BootInv /\ WaitRefused => BootInv'
<1> SUFFICES ASSUME BootInv, WaitRefused PROVE BootInv' OBVIOUS
<1>1. /\ UNCHANGED <<kind, omits, refuses, program, at, signaled, interrupted, image, given, tree, removal,
                     pipe, refused, fault>>
      /\ process' = "none" /\ stage' = "failing" /\ Over /\ Flushed /\ verdict' = "mounts"
  BY DEF WaitRefused, host, product, Fail
<1>2. stage = "programs" /\ refuses BY <1>1, LastLine
<1>3. pipe \in Seq(SpokenLines) /\ Len(pipe) <= PipeSize /\ refused \in BOOLEAN /\ fault \in BOOLEAN
      /\ (refused \/ In("refusal", pipe) => refuses)
  BY DEF BootInv, Typed, Refusing
<1> QED BY <1>1, <1>2, <1>3, FailedKeeps

LEMMA WaitDoneKeeps == BootInv /\ WaitDone => BootInv'
<1> SUFFICES ASSUME BootInv, WaitDone PROVE BootInv' OBVIOUS
<1>1. /\ UNCHANGED <<kind, omits, refuses, refused, interrupted, image, given, tree, removal, verdict, fault>>
      /\ process' = "none" /\ pipe' = <<>> /\ signaled' = FALSE /\ Over /\ ~Erred /\ ~Flushed
      /\ \/ program < Len(Programs(kind)) /\ program' = program + 1 /\ at' = 1 /\ stage' = stage
         \/ ~(program < Len(Programs(kind))) /\ stage' \in {"clean", "records"}
            /\ (stage' = "records" => ~Fedora(kind)) /\ program' = program /\ at' = at
  BY Derived DEF WaitDone, host, product
<1>2. stage = "programs" /\ (refused => Flushed) /\ (refuses /\ at > 1 => Flushed) BY <1>1, LastLine
<1>3. process = "ok" /\ at = Length + 1 BY <1>1 DEF Over, Erred, BootInv, Running
<1>4. kind \in ValidKinds /\ program \in 1..Len(Programs(kind)) /\ Length \in Nat
  BY StepsLength DEF BootInv, Typed, Length
<1>5. PICK l : Walks(kind, program, at, image, given, l) BY DEF BootInv, Walking
<1>6. ~refuses
  <2> SUFFICES ASSUME refuses PROVE FALSE OBVIOUS
  <2>1. Length = 0 BY <1>1, <1>2, <1>3, <1>4
  <2>2. program = 1 /\ ~Fedora(kind) BY DEF BootInv, Refusing
  <2>3. NameAt(kind, program) # "tools-tree" BY <1>4, <2>1, NameFacts DEF Length
  <2>4. NameAt(kind, program) = "image" BY <2>3, RefusesIsWatched, Derived DEF Watched
  <2>5. l[1].said = {} /\ l[Length + 1] \in Goal(kind, program) BY <1>5 DEF Walks, Length
  <2>6. Announced(kind) \subseteq l[1].said BY <2>1, <2>4, <2>5 DEF Goal, NameAt, Ships
  <2> QED BY <2>2, <2>5, <2>6 DEF Announced
<1>7. program' \in 1..Len(Programs(kind)) /\ Len(Programs(kind)) \in Nat BY <1>1, <1>4, PlanFacts
<1>8. <<>> \in Seq(SpokenLines) /\ Len(<<>>) <= PipeSize BY PipeSizeAssumption
<1>9. Typed'
  <2>1. Length' \in Nat BY <1>1, <1>4, <1>7, StepsLength DEF Length
  <2>2. at' \in 1..Length' + 1
    <3>0. \A n \in Nat : 1 \in 1..n + 1 OBVIOUS
    <3>1. CASE at' = 1 BY <2>1, <3>0, <3>1, Zenon
    <3>2. CASE program' = program /\ at' = at BY <1>1, <1>3, <1>4, <3>2 DEF Length
    <3> QED BY <1>1, <3>1, <3>2
  <2> QED BY <1>1, <1>2, <1>7, <1>8, <2>2 DEF BootInv, Typed
<1>10. Walking'
  <2>1. CASE program < Len(Programs(kind))
    <3>1. Walks(kind, program, Len(StepsAt(kind, program)) + 1, image, given, l)
      BY <1>3, <1>5 DEF Length
    <3>2. \E m : Walks(kind, program + 1, 1, image, given, m) BY <1>4, <2>1, <3>1, NextWalk
    <3> QED BY <1>1, <2>1, <3>2 DEF Walking
  <2>2. CASE ~(program < Len(Programs(kind))) BY <1>1, <1>5, <2>2 DEF Walking
  <2> QED BY <2>1, <2>2
<1>11. Running'
  <2>1. CASE program < Len(Programs(kind)) BY <1>1, <1>2, <2>1 DEF BootInv, Running, Judged
  <2>2. CASE ~(program < Len(Programs(kind)))
    <3>1. program = Len(Programs(kind)) BY <1>4, <1>7, <2>2
    <3>2. Length' = Length BY <1>1, <2>2 DEF Length
    <3> QED BY <1>1, <1>2, <1>3, <1>6, <2>2, <3>1, <3>2 DEF BootInv, Running, Judged
  <2> QED BY <2>1, <2>2
<1>12. Refusing' BY <1>1, <1>2, <1>6, InNothing DEF BootInv, Refusing
<1>13. Treed' BY <1>1, <1>2 DEF BootInv, Treed, Tree, Judged
<1>14. Judged' BY <1>1, <1>2 DEF BootInv, Judged
<1> QED BY <1>9, <1>10, <1>11, <1>12, <1>13, <1>14 DEF BootInv

LEMMA RecordsKeeps == BootInv /\ Records => BootInv'
<1> SUFFICES ASSUME BootInv, Records PROVE BootInv' OBVIOUS
<1>1. /\ UNCHANGED <<kind, omits, refuses, program, at, process, signaled, pipe, refused, interrupted, image, given,
                     tree, removal>>
      /\ stage = "records"
      /\ \/ stage' = (IF Disk(kind) THEN "clean" ELSE "place") /\ verdict' = verdict /\ fault' = fault
         \/ stage' = "failing" /\ verdict' = "lock" /\ fault' = (fault \/ Reads(kind) \subseteq given)
  BY DEF Records, host, running, product, Fail
<1>2. kind \in ValidKinds /\ program = Len(Programs(kind)) /\ at = Length + 1
  BY <1>1 DEF BootInv, Typed, Running
<1>3. PICK l : Walks(kind, program, at, image, given, l) BY DEF BootInv, Walking
<1>4. Walks(kind, Len(Programs(kind)), Len(StepsAt(kind, Len(Programs(kind)))) + 1, image, given, l)
  BY <1>2, <1>3 DEF Length
<1>5. Reads(kind) \subseteq given BY <1>2, <1>4, WalkEnds
<1>6. Length' = Length BY <1>1 DEF Length
<1> USE <1>1, <1>5, <1>6 DEF BootInv
<1>7. Typed' BY DEF Typed
<1>8. Walking' BY DEF Walking
<1>9. Running' BY DEF Running, Judged
<1>10. Refusing' BY DEF Refusing, Running
<1>11. Treed' BY DEF Treed, Tree, Judged
<1>12. Judged' BY DEF Judged
<1> QED BY <1>7, <1>8, <1>9, <1>10, <1>11, <1>12

LEMMA CleanTreeKeeps == BootInv /\ CleanTree => BootInv'
<1> SUFFICES ASSUME BootInv, CleanTree PROVE BootInv' OBVIOUS
<1>1. /\ UNCHANGED <<kind, omits, refuses, program, at, process, signaled, pipe, refused, interrupted, image, given>>
      /\ stage = "clean"
      /\ \/ /\ tree' = "none" /\ removal' = "done" /\ stage' = (IF Fedora(kind) THEN "records" ELSE "place")
            /\ verdict' = verdict /\ fault' = fault
         \/ /\ tree' = "none" /\ removal' = "done" /\ stage' = "failing" /\ verdict' = "log" /\ fault' = TRUE
         \/ /\ tree' = tree /\ removal' = "failed" /\ stage' = "failing" /\ verdict' = "tree" /\ fault' = TRUE
  BY DEF CleanTree, Removed, NotRemoved, Remaining, RemovalStarts, Breaks, Fail, host, running
<1>2. Length' = Length BY <1>1 DEF Length
<1> USE <1>1, <1>2 DEF BootInv
<1>3. Typed' BY DEF Typed
<1>4. Walking' BY DEF Walking
<1>5. Running' BY DEF Running, Judged
<1>6. Refusing' BY DEF Refusing, Running
<1>7. Treed' BY DEF Treed, Tree, Judged
<1>8. Judged' BY DEF Judged
<1> QED BY <1>3, <1>4, <1>5, <1>6, <1>7, <1>8

LEMMA PlaceKeeps == BootInv /\ Place => BootInv'
<1> SUFFICES ASSUME BootInv, Place PROVE BootInv' OBVIOUS
<1>1. /\ UNCHANGED <<kind, omits, refuses, program, at, process, signaled, pipe, refused, interrupted, image, given,
                     tree, removal>>
      /\ stage = "place"
      /\ \/ stage' = "over" /\ verdict' = "placed" /\ fault' = fault
         \/ stage' = "failing" /\ verdict' = "place" /\ fault' = TRUE
  BY DEF Place, host, running, product, Breaks, Fail
<1>2. Length' = Length BY <1>1 DEF Length
<1> USE <1>1, <1>2 DEF BootInv
<1>3. Typed'
  <2>1. /\ stage' \in {"verify", "programs", "clean", "records", "place", "failing", "over"}
        /\ fault' \in BOOLEAN
    BY DEF Typed
  <2> QED BY <2>1 DEF Typed
<1>4. Walking' BY DEF Walking
<1>5. Running' BY DEF Running, Judged
<1>6. Refusing' BY DEF Refusing, Running
<1>7. Treed' BY DEF Treed, Tree, Judged
<1>8. Judged' BY DEF Judged
<1> QED BY <1>3, <1>4, <1>5, <1>6, <1>7, <1>8

LEMMA FailBuildKeeps == BootInv /\ FailBuild => BootInv'
<1> SUFFICES ASSUME BootInv, FailBuild PROVE BootInv' OBVIOUS
<1>1. /\ UNCHANGED <<kind, omits, refuses, program, at, process, signaled, pipe, refused, interrupted, image, given,
                     verdict, fault>>
      /\ stage = "failing" /\ stage' = "over"
      /\ IF tree = "there" /\ removal = "none"
         THEN \/ tree' = "none" /\ removal' = "done"
              \/ tree' = tree /\ removal' = "failed"
         ELSE UNCHANGED <<tree, removal>>
  BY DEF FailBuild, Removed, NotRemoved, Remaining, RemovalStarts, host, running
<1>2. Length' = Length BY <1>1 DEF Length
<1> USE <1>1, <1>2 DEF BootInv
<1>3. Typed' BY DEF Typed
<1>4. Walking' BY DEF Walking
<1>5. Running' BY DEF Running, Judged
<1>6. Refusing' BY DEF Refusing, Running
<1>7. Treed' BY DEF Typed, Treed, Tree, Judged
<1>8. Judged' BY DEF Judged
<1> QED BY <1>3, <1>4, <1>5, <1>6, <1>7, <1>8

LEMMA BootInvNext == BootInv /\ [BootstrapNext]_vars => BootInv'
<1> SUFFICES ASSUME BootInv, [BootstrapNext]_vars PROVE BootInv' OBVIOUS
<1>1. CASE UNCHANGED vars
  BY <1>1 DEF vars, BootInv, Typed, Length, Walking, Running, Refusing, Treed, Tree, Judged
<1>2. CASE BootstrapNext
  BY <1>2, VerifyKeeps, StartKeeps, StageFailsKeeps, StepKeeps, ExitKeeps, InterruptKeeps, SignalKeeps, ReadKeeps,
     WaitFailedKeeps, LogLostKeeps, WaitRefusedKeeps, WaitDoneKeeps, RecordsKeeps, CleanTreeKeeps, PlaceKeeps,
     FailBuildKeeps
  DEF BootstrapNext
<1> QED BY <1>1, <1>2

(* A build says what happened: an interruption only when the user asked,   *)
(* refused mounts only when the host refused them, and any other failure   *)
(* only when something of the host failed by itself: no program of any     *)
(* kind of build ever misses what it needs.  Its tools tree is gone at the *)
(* end unless removing it failed.                                          *)
THEOREM VerdictIsTrueHolds == BootstrapSpec => []VerdictIsTrue
<1>1. BootInv => VerdictIsTrue BY InvGivesVerdict
<1> QED BY <1>1, BootInvInit, BootInvNext, PTL DEF BootstrapSpec

(* A placed image, of any kind of build, holds all its recipe promises and *)
(* nothing of the build or of its host; it was installed with everything   *)
(* mounted, and the tree that made it is gone.                             *)
THEOREM PlacedIsCleanHolds == BootstrapSpec => []PlacedIsClean
<1>1. BootInv => PlacedIsClean BY InvGivesClean
<1> QED BY <1>1, BootInvInit, BootInvNext, PTL DEF BootstrapSpec

-----------------------------------------------------------------------------
(* The list of a build's phases rises in their order.                      *)
Rising(k, list, m, n, S) ==
  /\ Listed(list) /\ ToSet(list) = S
  /\ \A i \in 1..Len(list) : m <= Ord(k, list[i]) /\ Ord(k, list[i]) < n
  /\ \A i, j \in 1..Len(list) : i < j => Ord(k, list[i]) < Ord(k, list[j])

LEMMA OrdNat == \A k, p : Ord(k, p) \in 1..14
BY DEF Ord

LEMMA RisingConcat ==
  ASSUME NEW k, NEW A, NEW B, NEW m \in Nat, NEW n \in Nat, NEW o \in Nat, NEW S, NEW T, m <= n, n <= o,
         Rising(k, A, m, n, S), Rising(k, B, n, o, T)
  PROVE  Rising(k, A \o B, m, o, S \cup T)
<1>1. Listed(A) /\ Listed(B) BY DEF Rising
<1>2. /\ Listed(A \o B) /\ Len(A \o B) = Len(A) + Len(B)
      /\ \A i \in 1..Len(A) : (A \o B)[i] = A[i]
      /\ \A i \in 1..Len(B) : (A \o B)[Len(A) + i] = B[i]
      /\ Len(A) \in Nat /\ Len(B) \in Nat
  BY <1>1, ListedConcat
<1>3. DOMAIN A = 1..Len(A) /\ DOMAIN B = 1..Len(B) /\ DOMAIN (A \o B) = 1..Len(A) + Len(B)
  BY <1>1, <1>2 DEF Listed
<1> DEFINE C == A \o B
<1> HIDE DEF C
<1>4. \A i \in 1..Len(A) + Len(B) : \/ i \in 1..Len(A) /\ C[i] = A[i]
                                    \/ i - Len(A) \in 1..Len(B) /\ C[i] = B[i - Len(A)]
  <2> SUFFICES ASSUME NEW i \in 1..Len(A) + Len(B)
               PROVE  \/ i \in 1..Len(A) /\ C[i] = A[i]
                      \/ i - Len(A) \in 1..Len(B) /\ C[i] = B[i - Len(A)]
    OBVIOUS
  <2>1. CASE i <= Len(A) BY <1>2, <2>1 DEF C
  <2>2. CASE ~(i <= Len(A))
    <3>1. i - Len(A) \in 1..Len(B) /\ Len(A) + (i - Len(A)) = i BY <1>2, <2>2
    <3> QED BY <1>2, <3>1 DEF C
  <2> QED BY <2>1, <2>2
<1>5. /\ \A i \in 1..Len(A) : m <= Ord(k, A[i]) /\ Ord(k, A[i]) < n
      /\ \A i \in 1..Len(B) : n <= Ord(k, B[i]) /\ Ord(k, B[i]) < o
      /\ \A i, j \in 1..Len(A) : i < j => Ord(k, A[i]) < Ord(k, A[j])
      /\ \A i, j \in 1..Len(B) : i < j => Ord(k, B[i]) < Ord(k, B[j])
  BY DEF Rising
<1>6. \A i \in 1..Len(C) : m <= Ord(k, C[i]) /\ Ord(k, C[i]) < o
  <2> SUFFICES ASSUME NEW i \in 1..Len(C) PROVE m <= Ord(k, C[i]) /\ Ord(k, C[i]) < o OBVIOUS
  <2>0. Len(C) = Len(A) + Len(B) BY <1>2 DEF C
  <2>1. i \in 1..Len(A) + Len(B) /\ Ord(k, C[i]) \in Int BY <2>0, OrdNat
  <2>2. CASE i \in 1..Len(A) /\ C[i] = A[i]
    <3>1. m <= Ord(k, C[i]) /\ Ord(k, C[i]) < n BY <1>5, <2>2
    <3> QED BY <2>1, <3>1
  <2>3. CASE i - Len(A) \in 1..Len(B) /\ C[i] = B[i - Len(A)]
    <3>1. n <= Ord(k, C[i]) /\ Ord(k, C[i]) < o BY <1>5, <2>3
    <3> QED BY <2>1, <3>1
  <2> QED BY <1>4, <2>1, <2>2, <2>3
<1>7. ASSUME NEW i \in 1..Len(C), NEW j \in 1..Len(C), i < j PROVE Ord(k, C[i]) < Ord(k, C[j])
  <2>0. i \in 1..Len(A) + Len(B) /\ j \in 1..Len(A) + Len(B) BY <1>2 DEF C
  <2>1. CASE j \in 1..Len(A)
    <3>1. i \in 1..Len(A) BY <1>2, <1>7, <2>0, <2>1
    <3>2. C[i] = A[i] /\ C[j] = A[j] BY <1>2, <2>1, <3>1 DEF C
    <3> QED BY <1>5, <1>7, <2>1, <3>1, <3>2
  <2>2. CASE j \notin 1..Len(A)
    <3>1. j - Len(A) \in 1..Len(B) /\ C[j] = B[j - Len(A)] BY <1>4, <2>0, <2>2
    <3>2. CASE i \in 1..Len(A)
      <4>1. C[i] = A[i] BY <1>2, <3>2 DEF C
      <4>2. Ord(k, C[i]) < n /\ n <= Ord(k, C[j]) BY <1>5, <3>1, <3>2, <4>1
      <4>3. Ord(k, C[i]) \in Int /\ Ord(k, C[j]) \in Int
        <5>1. \A x : Ord(k, x) \in Int BY OrdNat
        <5> QED BY <5>1
      <4> QED BY <4>2, <4>3
    <3>3. CASE i \notin 1..Len(A)
      <4>1. i - Len(A) \in 1..Len(B) /\ C[i] = B[i - Len(A)] BY <1>4, <2>0, <3>3
      <4>2. i - Len(A) < j - Len(A) BY <1>2, <1>7
      <4> QED BY <1>5, <3>1, <4>1, <4>2
    <3> QED BY <3>2, <3>3
  <2> QED BY <2>1, <2>2
<1>8. ToSet(C) = S \cup T
  <2>1. S = {A[i] : i \in 1..Len(A)} /\ T = {B[i] : i \in 1..Len(B)} BY <1>3 DEF Rising, ToSet
  <2>2. ToSet(C) = {C[i] : i \in 1..Len(A) + Len(B)} BY <1>3 DEF ToSet, C
  <2>3. \A x \in S : x \in ToSet(C)
    <3> SUFFICES ASSUME NEW i \in 1..Len(A) PROVE A[i] \in ToSet(C) BY <2>1
    <3>1. i \in 1..Len(A) + Len(B) /\ C[i] = A[i] BY <1>2 DEF C
    <3> QED BY <2>2, <3>1
  <2>4. \A x \in T : x \in ToSet(C)
    <3> SUFFICES ASSUME NEW i \in 1..Len(B) PROVE B[i] \in ToSet(C) BY <2>1
    <3>1. Len(A) + i \in 1..Len(A) + Len(B) /\ C[Len(A) + i] = B[i] BY <1>2 DEF C
    <3> QED BY <2>2, <3>1
  <2>5. \A x \in ToSet(C) : x \in S \cup T
    <3> SUFFICES ASSUME NEW i \in 1..Len(A) + Len(B) PROVE C[i] \in S \cup T BY <2>2
    <3> QED BY <1>4, <2>1
  <2> QED BY <2>3, <2>4, <2>5
<1> QED BY <1>2, <1>6, <1>7, <1>8 DEF Rising, C

LEMMA RisingNothing == ASSUME NEW k, NEW m, NEW n PROVE Rising(k, <<>>, m, n, {})
<1>1. <<>> \in Seq({}) /\ Len(<<>>) = 0 /\ DOMAIN <<>> = {} OBVIOUS
<1>2. Listed(<<>>) BY <1>1 DEF Listed
<1>3. ToSet(<<>>) = {} BY <1>1 DEF ToSet
<1> QED BY <1>1, <1>2, <1>3 DEF Rising

LEMMA RisingOne ==
  ASSUME NEW k, NEW m \in Nat, NEW n \in Nat, NEW p, m <= Ord(k, p), Ord(k, p) < n
  PROVE  Rising(k, <<p>>, m, n, {p})
<1>1. <<p>> \in Seq({p}) /\ Len(<<p>>) = 1 /\ DOMAIN <<p>> = {1} /\ <<p>>[1] = p /\ 1..1 = {1} OBVIOUS
<1>2. Listed(<<p>>) BY <1>1 DEF Listed
<1>3. ToSet(<<p>>) = {p} BY <1>1 DEF ToSet
<1> QED BY <1>1, <1>2, <1>3 DEF Rising

LEMMA RisingTwo ==
  ASSUME NEW k, NEW m \in Nat, NEW n \in Nat, NEW p, NEW q, m <= Ord(k, p), Ord(k, p) < Ord(k, q), Ord(k, q) < n
  PROVE  Rising(k, <<p, q>>, m, n, {p, q})
<1>1. Rising(k, <<p>>, m, Ord(k, q), {p}) BY OrdNat, RisingOne
<1>2. Rising(k, <<q>>, Ord(k, q), n, {q}) BY OrdNat, RisingOne
<1>3. Ord(k, q) \in Nat /\ m <= Ord(k, q) /\ Ord(k, q) <= n BY OrdNat
<1>4. Rising(k, <<p>> \o <<q>>, m, n, {p} \cup {q}) BY <1>1, <1>2, <1>3, RisingConcat
<1>5. {p} \cup {q} = {p, q} OBVIOUS
<1> QED BY <1>4, <1>5, TwoSteps

LEMMA RisingThree ==
  ASSUME NEW k, NEW m \in Nat, NEW n \in Nat, NEW p, NEW q, NEW r,
         m <= Ord(k, p), Ord(k, p) < Ord(k, q), Ord(k, q) < Ord(k, r), Ord(k, r) < n
  PROVE  Rising(k, <<p, q, r>>, m, n, {p, q, r})
<1>1. Rising(k, <<p, q>>, m, Ord(k, r), {p, q}) BY OrdNat, RisingTwo
<1>2. Rising(k, <<r>>, Ord(k, r), n, {r}) BY OrdNat, RisingOne
<1>3. Ord(k, r) \in Nat /\ m <= Ord(k, r) /\ Ord(k, r) <= n BY OrdNat
<1>4. Rising(k, <<p, q>> \o <<r>>, m, n, {p, q} \cup {r}) BY <1>1, <1>2, <1>3, RisingConcat
<1>5. {p, q} \cup {r} = {p, q, r} OBVIOUS
<1>6. <<p, q, r>> = <<p, q>> \o <<r>>
  <2>1. <<p, q>> \in Seq({p, q, r}) /\ <<r>> \in Seq({p, q, r}) /\ <<p, q, r>> \in Seq({p, q, r}) OBVIOUS
  <2>2. /\ Len(<<p, q>>) = 2 /\ Len(<<r>>) = 1 /\ Len(<<p, q, r>>) = 3
        /\ <<p, q>>[1] = p /\ <<p, q>>[2] = q /\ <<r>>[1] = r
        /\ <<p, q, r>>[1] = p /\ <<p, q, r>>[2] = q /\ <<p, q, r>>[3] = r
    OBVIOUS
  <2> DEFINE x == <<p, q>>
             y == <<r>>
             z == <<p, q, r>>
  <2> HIDE DEF x, y, z
  <2>l. Listed(x) /\ Listed(y) BY <2>1 DEF Listed, x, y
  <2>3. Len(x) = 2 /\ Len(y) = 1 BY <2>2 DEF x, y
  <2>4. /\ Listed(x \o y) /\ Len(x \o y) = Len(x) + Len(y)
        /\ \A i \in 1..Len(x) : (x \o y)[i] = x[i]
        /\ \A i \in 1..Len(y) : (x \o y)[Len(x) + i] = y[i]
    BY <2>l, ListedConcat
  <2>5. x \o y \in Seq({p, q, r}) /\ z \in Seq({p, q, r}) BY <2>1 DEF x, y, z
  <2>6. Len(x \o y) = 3 /\ Len(z) = 3 BY <2>2, <2>3, <2>4 DEF z
  <2>7. (x \o y)[1] = p /\ (x \o y)[2] = q
    <3>1. 1 \in 1..2 /\ 2 \in 1..2 OBVIOUS
    <3>2. x[1] = p /\ x[2] = q BY <2>2 DEF x
    <3> QED BY <2>3, <2>4, <3>1, <3>2
  <2>8. (x \o y)[3] = r
    <3>1. 1 \in 1..1 /\ 2 + 1 = 3 OBVIOUS
    <3>2. y[1] = r BY <2>2 DEF y
    <3> QED BY <2>3, <2>4, <3>1, <3>2
  <2>9. z[1] = p /\ z[2] = q /\ z[3] = r BY <2>2 DEF z
  <2>10. \A i \in 1..3 : i = 1 \/ i = 2 \/ i = 3 OBVIOUS
  <2>11. \A i \in 1..3 : z[i] = (x \o y)[i] BY <2>7, <2>8, <2>9, <2>10
  <2>12. z = x \o y BY <2>5, <2>6, <2>11, SeqEqual
  <2> QED BY <2>12 DEF x, y, z
<1> QED BY <1>4, <1>5, <1>6

-----------------------------------------------------------------------------
(* The lists of the builds.                                                *)
Listing(k) ==
  {LockPhase(k), "place", "install-requested", "provision", "create-tarball"}
  \cup (IF k.offline THEN {"verify-vendored", "prepare-repository"} ELSE {})
  \cup (IF Fedora(k) THEN {"make-tools-tree"} \cup (IF k.offline THEN {} ELSE {"download"})
        ELSE {"update-index", "download", "extract", "install-essential"}
             \cup (IF k.python THEN {"install-python"} ELSE {})
             \cup (IF Disk(k) THEN {"make-tools-tree", "assemble-disk"} ELSE {}))

LEMMA UbuntuRising ==
  ASSUME NEW k \in UbuntuKinds
  PROVE  Rising(k, UbuntuPart(k), 4, 12,
                {"update-index", "download", "extract", "install-essential", "install-requested",
                 "provision", "create-tarball"} \cup (IF k.python THEN {"install-python"} ELSE {}))
<1> DEFINE a == <<"update-index", "download", "extract">>
           b == <<"install-essential", "install-requested", "provision">>
           six == <<"update-index", "download", "extract", "install-essential", "install-requested", "provision">>
           c == IF k.python THEN <<"install-python">> ELSE <<>>
           C == IF k.python THEN {"install-python"} ELSE {}
           d == <<"create-tarball">>
<1>1. /\ Ord(k, "update-index") = 4 /\ Ord(k, "download") = 5 /\ Ord(k, "extract") = 6
      /\ Ord(k, "install-essential") = 7 /\ Ord(k, "install-requested") = 8 /\ Ord(k, "provision") = 9
      /\ Ord(k, "install-python") = 10 /\ Ord(k, "create-tarball") = 11
  BY DEF Ord
<1> HIDE DEF Ord
<1>2. Rising(k, a, 4, 7, {"update-index", "download", "extract"}) BY <1>1, RisingThree
<1>3. Rising(k, b, 7, 10, {"install-essential", "install-requested", "provision"}) BY <1>1, RisingThree
<1>4. Rising(k, c, 10, 11, C)
  <2>1. k.python => Rising(k, <<"install-python">>, 10, 11, {"install-python"}) BY <1>1, RisingOne
  <2>2. Rising(k, <<>>, 10, 11, {}) BY RisingNothing
  <2> QED BY <2>1, <2>2
<1>5. Rising(k, d, 11, 12, {"create-tarball"}) BY <1>1, RisingOne
<1>6. six = a \o b
  <2>1. a \in Seq(Sayings) /\ b \in Seq(Sayings) /\ six \in Seq(Sayings) BY DEF Sayings
  <2>2. Len(a) = 3 /\ Len(b) = 3 /\ Len(six) = 6 /\ a[1] = "update-index" /\ a[2] = "download" /\ a[3] = "extract"
        /\ b[1] = "install-essential" /\ b[2] = "install-requested" /\ b[3] = "provision"
        /\ six[1] = "update-index" /\ six[2] = "download" /\ six[3] = "extract" /\ six[4] = "install-essential"
        /\ six[5] = "install-requested" /\ six[6] = "provision"
    OBVIOUS
  <2> HIDE DEF a, b, six
  <2>l. Listed(a) /\ Listed(b) BY <2>1 DEF Listed
  <2>m. /\ Listed(a \o b) /\ Len(a \o b) = Len(a) + Len(b)
        /\ \A i \in 1..Len(a) : (a \o b)[i] = a[i]
        /\ \A i \in 1..Len(b) : (a \o b)[Len(a) + i] = b[i]
    BY <2>l, ListedConcat
  <2>n. Len(a) = 3 /\ Len(b) = 3 BY <2>2
  <2>3. a \o b \in Seq(Sayings) /\ Len(a \o b) = 6
    <3>1. a \o b \in Seq(Sayings) BY <2>1
    <3> QED BY <2>m, <2>n, <3>1
  <2>a. (\A i \in 1..3 : (a \o b)[i] = a[i]) /\ (\A i \in 1..3 : (a \o b)[3 + i] = b[i]) BY <2>m, <2>n
  <2>b. /\ (a \o b)[1] = a[1] /\ (a \o b)[2] = a[2] /\ (a \o b)[3] = a[3]
        /\ (a \o b)[3 + 1] = b[1] /\ (a \o b)[3 + 2] = b[2] /\ (a \o b)[3 + 3] = b[3]
    <3>1. 1 \in 1..3 /\ 2 \in 1..3 /\ 3 \in 1..3 OBVIOUS
    <3> QED BY <2>a, <3>1, Zenon
  <2>c. 3 + 1 = 4 /\ 3 + 2 = 5 /\ 3 + 3 = 6 OBVIOUS
  <2>4. \A i \in 1..6 : i = 1 \/ i = 2 \/ i = 3 \/ i = 4 \/ i = 5 \/ i = 6 OBVIOUS
  <2>5. \A i \in 1..6 : six[i] = (a \o b)[i]
    <3>1. /\ six[1] = (a \o b)[1] /\ six[2] = (a \o b)[2] /\ six[3] = (a \o b)[3]
          /\ six[4] = (a \o b)[4] /\ six[5] = (a \o b)[5] /\ six[6] = (a \o b)[6]
      BY <2>2, <2>b, <2>c
    <3> QED BY <2>4, <3>1, Zenon
  <2> QED BY <2>1, <2>2, <2>3, <2>5, SeqEqual
<1>7. UbuntuPart(k) = a \o b \o c \o d BY <1>6 DEF UbuntuPart
<1> HIDE DEF a, b, c, d, C, six
<1>8. Rising(k, a \o b, 4, 10, {"update-index", "download", "extract"} \cup
             {"install-essential", "install-requested", "provision"})
  BY <1>2, <1>3, RisingConcat
<1>9. Rising(k, a \o b \o c, 4, 11, {"update-index", "download", "extract"} \cup
             {"install-essential", "install-requested", "provision"} \cup C)
  BY <1>4, <1>8, RisingConcat
<1>10. Rising(k, a \o b \o c \o d, 4, 12, {"update-index", "download", "extract"} \cup
             {"install-essential", "install-requested", "provision"} \cup C \cup {"create-tarball"})
  BY <1>5, <1>9, RisingConcat
<1>11. {"update-index", "download", "extract"} \cup
             {"install-essential", "install-requested", "provision"} \cup C \cup {"create-tarball"}
       = {"update-index", "download", "extract", "install-essential", "install-requested",
                 "provision", "create-tarball"} \cup C
  OBVIOUS
<1> QED BY <1>7, <1>10, <1>11 DEF C

LEMMA ListRises ==
  ASSUME NEW k \in ValidKinds
  PROVE  Rising(k, PhasesOf(k), 1, 15, Listing(k))
<1>1. /\ Ord(k, "verify-vendored") = 1 /\ Ord(k, "make-tools-tree") = (IF Fedora(k) THEN 3 ELSE 2)
      /\ Ord(k, "prepare-repository") = (IF Fedora(k) THEN 2 ELSE 3)
      /\ Ord(k, "download") = 5 /\ Ord(k, "install-requested") = 8 /\ Ord(k, "provision") = 9
      /\ Ord(k, "create-tarball") = 11 /\ Ord(k, "assemble-disk") = 12
      /\ Ord(k, LockPhase(k)) = 13 /\ Ord(k, "place") = 14
  BY DEF Ord, LockPhase
<1> HIDE DEF Ord
<1> DEFINE e == <<LockPhase(k), "place">>
<1>2. Rising(k, e, 13, 15, {LockPhase(k), "place"}) BY <1>1, RisingTwo
<1>3. (k.family = "fedora" <=> Fedora(k)) /\ (k.target = "disk" <=> Disk(k)) /\ k.offline \in BOOLEAN
  BY ValidKind, KindFields DEF Fedora, Disk
<1>4. CASE ~Fedora(k)
  <2> DEFINE part == {"update-index", "download", "extract", "install-essential", "install-requested",
                      "provision", "create-tarball"} \cup (IF k.python THEN {"install-python"} ELSE {})
             u == UbuntuPart(k)
  <2>1. Rising(k, u, 4, 12, part) BY <1>4, ValidKind, UbuntuRising
  <2>2. CASE ~Disk(k)
    <3> DEFINE a == IF k.offline THEN <<"verify-vendored", "prepare-repository">> ELSE <<>>
               A == IF k.offline THEN {"verify-vendored", "prepare-repository"} ELSE {}
    <3>1. Rising(k, a, 1, 4, A)
      <4>1. k.offline => Rising(k, <<"verify-vendored", "prepare-repository">>, 1, 4, {"verify-vendored", "prepare-repository"})
        BY <1>1, <1>4, RisingTwo
      <4>2. Rising(k, <<>>, 1, 4, {}) BY RisingNothing
      <4> QED BY <4>1, <4>2
    <3>2. PhasesOf(k) = a \o u \o e BY <1>3, <1>4, <2>2 DEF PhasesOf, TarballPhases
    <3>3. A \cup part \cup {} \cup {LockPhase(k), "place"} = Listing(k) BY <1>3, <1>4, <2>2 DEF Listing
    <3> DEFINE z == <<>>
    <3>4. Rising(k, z, 12, 13, {}) BY RisingNothing
    <3> HIDE DEF a, A, part, u, e, z
    <3>5. Rising(k, a \o u, 1, 12, A \cup part) BY <3>1, <2>1, RisingConcat
    <3>6. Rising(k, a \o u \o z, 1, 13, A \cup part \cup {}) BY <3>4, <3>5, RisingConcat
    <3>7. a \o u \o z = a \o u
      <4>1. PICK S : a \o u \in Seq(S) BY <3>5 DEF Rising, Listed
      <4> QED BY <4>1 DEF z
    <3>8. Rising(k, a \o u \o e, 1, 15, A \cup part \cup {} \cup {LockPhase(k), "place"})
      BY <1>2, <3>6, <3>7, RisingConcat
    <3> QED BY <3>2, <3>3, <3>8
  <2>3. CASE Disk(k)
    <3> DEFINE a == IF k.offline THEN <<"verify-vendored", "make-tools-tree", "prepare-repository">>
                    ELSE <<"make-tools-tree">>
               A == IF k.offline THEN {"verify-vendored", "make-tools-tree", "prepare-repository"}
                    ELSE {"make-tools-tree"}
               f == <<"assemble-disk">>
               ff == <<"assemble-disk", LockPhase(k), "place">>
    <3>1. Rising(k, a, 1, 4, A)
      <4>1. k.offline => Rising(k, <<"verify-vendored", "make-tools-tree", "prepare-repository">>, 1, 4,
                                {"verify-vendored", "make-tools-tree", "prepare-repository"})
        BY <1>1, <1>4, RisingThree
      <4>2. Rising(k, <<"make-tools-tree">>, 1, 4, {"make-tools-tree"}) BY <1>1, <1>4, RisingOne
      <4> QED BY <4>1, <4>2
    <3>2. PhasesOf(k) = a \o u \o ff BY <1>3, <1>4, <2>3 DEF PhasesOf, DiskPhases
    <3>3. A \cup part \cup {"assemble-disk", LockPhase(k), "place"} = Listing(k)
      BY <1>3, <1>4, <2>3 DEF Listing
    <3>4. Rising(k, ff, 12, 15, {"assemble-disk", LockPhase(k), "place"}) BY <1>1, RisingThree
    <3> HIDE DEF a, A, part, u, ff
    <3>5. Rising(k, a \o u, 1, 12, A \cup part) BY <3>1, <2>1, RisingConcat
    <3>6. Rising(k, a \o u \o ff, 1, 15, A \cup part \cup {"assemble-disk", LockPhase(k), "place"})
      BY <3>4, <3>5, RisingConcat
    <3> QED BY <3>2, <3>3, <3>6
  <2> QED BY <2>2, <2>3
<1>5. CASE Fedora(k)
  <2> DEFINE a == IF k.offline THEN <<"verify-vendored", "prepare-repository", "make-tools-tree">>
                  ELSE <<"make-tools-tree", "download">>
             A == IF k.offline THEN {"verify-vendored", "prepare-repository", "make-tools-tree"}
                  ELSE {"make-tools-tree", "download"}
             b == <<"install-requested", "provision", "create-tarball">>
             five == <<"install-requested", "provision", "create-tarball", LockPhase(k), "place">>
  <2>1. Rising(k, a, 1, 8, A)
    <3>1. k.offline => Rising(k, <<"verify-vendored", "prepare-repository", "make-tools-tree">>, 1, 8,
                              {"verify-vendored", "prepare-repository", "make-tools-tree"})
      BY <1>1, <1>5, RisingThree
    <3>2. Rising(k, <<"make-tools-tree", "download">>, 1, 8, {"make-tools-tree", "download"})
      BY <1>1, <1>5, RisingTwo
    <3> QED BY <3>1, <3>2
  <2>2. Rising(k, b, 8, 13, {"install-requested", "provision", "create-tarball"}) BY <1>1, RisingThree
  <2>3. PhasesOf(k) = a \o five BY <1>3, <1>5 DEF PhasesOf, FedoraPhases
  <2>4. five = b \o e
    <3> DEFINE S == {"install-requested", "provision", "create-tarball", LockPhase(k), "place"}
    <3>1. b \in Seq(S) /\ e \in Seq(S) /\ five \in Seq(S) OBVIOUS
    <3>2. /\ Len(b) = 3 /\ Len(e) = 2 /\ Len(five) = 5
          /\ b[1] = five[1] /\ b[2] = five[2] /\ b[3] = five[3] /\ e[1] = five[4] /\ e[2] = five[5]
      OBVIOUS
    <3> HIDE DEF S, b, e, five
    <3>l. Listed(b) /\ Listed(e) BY <3>1 DEF Listed
    <3>m. /\ Listed(b \o e) /\ Len(b \o e) = Len(b) + Len(e)
          /\ \A i \in 1..Len(b) : (b \o e)[i] = b[i]
          /\ \A i \in 1..Len(e) : (b \o e)[Len(b) + i] = e[i]
      BY <3>l, ListedConcat
    <3>n. Len(b) = 3 /\ Len(e) = 2 BY <3>2
    <3>3. b \o e \in Seq(S) /\ Len(b \o e) = 5
      <4>1. b \o e \in Seq(S) BY <3>1
      <4> QED BY <3>m, <3>n, <4>1
    <3>a. (\A i \in 1..3 : (b \o e)[i] = b[i]) /\ (\A i \in 1..2 : (b \o e)[3 + i] = e[i]) BY <3>m, <3>n
    <3>b. /\ (b \o e)[1] = b[1] /\ (b \o e)[2] = b[2] /\ (b \o e)[3] = b[3]
          /\ (b \o e)[3 + 1] = e[1] /\ (b \o e)[3 + 2] = e[2]
      <4>1. 1 \in 1..3 /\ 2 \in 1..3 /\ 3 \in 1..3 /\ 1 \in 1..2 /\ 2 \in 1..2 OBVIOUS
      <4> QED BY <3>a, <4>1, Zenon
    <3>c. 3 + 1 = 4 /\ 3 + 2 = 5 OBVIOUS
    <3>4. \A i \in 1..5 : i = 1 \/ i = 2 \/ i = 3 \/ i = 4 \/ i = 5 OBVIOUS
    <3>5. \A i \in 1..5 : five[i] = (b \o e)[i] BY <3>2, <3>b, <3>c, <3>4
    <3> QED BY <3>1, <3>2, <3>3, <3>5, SeqEqual
  <2>5. A \cup ({"install-requested", "provision", "create-tarball"} \cup {LockPhase(k), "place"}) = Listing(k)
    BY <1>3, <1>5 DEF Listing
  <2> HIDE DEF a, A, b, e, five
  <2>6. Rising(k, b \o e, 8, 15, {"install-requested", "provision", "create-tarball"} \cup {LockPhase(k), "place"})
    BY <1>2, <2>2, RisingConcat
  <2>7. Rising(k, a \o five, 1, 15,
               A \cup ({"install-requested", "provision", "create-tarball"} \cup {LockPhase(k), "place"}))
    BY <2>1, <2>4, <2>6, RisingConcat
  <2> QED BY <2>3, <2>5, <2>7
<1> QED BY <1>4, <1>5

-----------------------------------------------------------------------------
(* A display that has come to a phase of the list: those before it are     *)
(* done, those after it wait.                                              *)
Known(om, p) == ~(p = "install-python" /\ p \in om)
Shows(k, om, d, t) ==
  /\ t \in [Listing(k) -> Statuses]
  /\ \A p \in Listing(k) : /\ Ord(k, p) < d /\ Known(om, p) => t[p] = "done"
                           /\ Ord(k, p) > d => t[p] = "pending"

LEMMA ShowsForward ==
  ASSUME kind \in ValidKinds, NEW d \in 1..15, Shows(kind, omits, d, parser.table), verdict = "placed" => d = 15
  PROVE  PhasesGoForward
<1> DEFINE t == parser.table
<1>1. Rising(kind, List, 1, 15, Listing(kind)) BY ListRises DEF List
<1>2. DOMAIN List = 1..Len(List) BY <1>1 DEF Rising, Listed
<1>3. \A i \in DOMAIN List : List[i] \in Listing(kind) BY <1>1 DEF Rising, ToSet
<1>4. \A p : Told(p) <=> Known(omits, p) BY DEF Told, Known
<1>5. ASSUME NEW i \in DOMAIN List, NEW j \in DOMAIN List, i < j, t[List[j]] # "pending", Told(List[i])
      PROVE  t[List[i]] = "done"
  <2>1. Ord(kind, List[i]) < Ord(kind, List[j]) BY <1>1, <1>2, <1>5 DEF Rising
  <2>2. ~(Ord(kind, List[j]) > d) BY <1>3, <1>5 DEF Shows
  <2>3. Ord(kind, List[i]) < d
    <3>1. Ord(kind, List[i]) \in Int /\ Ord(kind, List[j]) \in Int BY OrdNat
    <3> QED BY <2>1, <2>2, <3>1
  <2> QED BY <1>3, <1>4, <1>5, <2>3 DEF Shows
<1>6. ASSUME verdict = "placed", NEW p \in ToSet(List), Told(p) PROVE t[p] = "done"
  <2>1. p \in Listing(kind) BY <1>1, <1>6 DEF Rising
  <2>2. Ord(kind, p) < d
    <3>1. Ord(kind, p) \in 1..14 BY OrdNat
    <3> QED BY <1>6, <3>1
  <2> QED BY <1>4, <1>6, <2>1, <2>2 DEF Shows
<1> QED BY <1>5, <1>6 DEF PhasesGoForward

LEMMA ShowsTyped == ASSUME NEW k, NEW om, NEW d, NEW t, Shows(k, om, d, t) PROVE t \in [Listing(k) -> Statuses]
BY DEF Shows

LEMMA Applied ==
  ASSUME NEW k, NEW t \in [Listing(k) -> Statuses], NEW p, NEW s \in Statuses
  PROVE  /\ Apply(t, p, s) \in [Listing(k) -> Statuses]
         /\ \A q \in Listing(k) : Apply(t, p, s)[q] = IF q = p THEN s ELSE t[q]
BY DEF Apply

(* The display goes on: what it passes is done.                            *)
LEMMA Leap ==
  ASSUME NEW k, NEW om, NEW d \in 1..15, NEW e \in 1..15, d <= e, NEW t, Shows(k, om, d, t),
         NEW t2 \in [Listing(k) -> Statuses],
         \A q \in Listing(k) :
           /\ Ord(k, q) < d => t2[q] = t[q] \/ t2[q] = "done"
           /\ d <= Ord(k, q) /\ Ord(k, q) < e /\ Known(om, q) => t2[q] = "done"
           /\ Ord(k, q) > e => t2[q] = t[q]
  PROVE  Shows(k, om, e, t2)
<1> SUFFICES ASSUME NEW q \in Listing(k)
             PROVE  /\ Ord(k, q) < e /\ Known(om, q) => t2[q] = "done"
                    /\ Ord(k, q) > e => t2[q] = "pending"
  BY DEF Shows
<1>1. Ord(k, q) \in Int BY OrdNat
<1>2. /\ Ord(k, q) < d /\ Known(om, q) => t[q] = "done"
      /\ Ord(k, q) > d => t[q] = "pending"
  BY DEF Shows
<1> QED BY <1>1, <1>2

LEMMA ShowsBegan ==
  ASSUME NEW k, NEW om, NEW d \in 1..15, NEW t, Shows(k, om, d, t), NEW p, Ord(k, p) = d
  PROVE  Shows(k, om, d, Started(t, p)) /\ Shows(k, om, d, Finished(t, p))
<1>1. t \in [Listing(k) -> Statuses] BY ShowsTyped
<1>2. ASSUME NEW s \in Statuses PROVE Shows(k, om, d, Apply(t, p, s))
  <2>1. /\ Apply(t, p, s) \in [Listing(k) -> Statuses]
        /\ \A q \in Listing(k) : Apply(t, p, s)[q] = IF q = p THEN s ELSE t[q]
    BY <1>1, Applied
  <2>2. ASSUME NEW q \in Listing(k)
        PROVE  /\ Ord(k, q) < d => Apply(t, p, s)[q] = t[q] \/ Apply(t, p, s)[q] = "done"
               /\ d <= Ord(k, q) /\ Ord(k, q) < d /\ Known(om, q) => Apply(t, p, s)[q] = "done"
               /\ Ord(k, q) > d => Apply(t, p, s)[q] = t[q]
    <3>1. Ord(k, q) \in Int BY OrdNat
    <3> QED BY <2>1, <3>1
  <2>3. d <= d OBVIOUS
  <2> QED BY <2>1, <2>2, <2>3, Leap
<1>3. "running" \in Statuses /\ "done" \in Statuses BY DEF Statuses
<1> QED BY <1>2, <1>3 DEF Started, Finished

LEMMA ShowsEnded ==
  ASSUME NEW k, NEW om, NEW d \in 1..15, NEW e \in 1..15, d <= e, NEW t, Shows(k, om, d, t), NEW p,
         Ord(k, p) = d, \A q \in Listing(k) : d <= Ord(k, q) /\ Ord(k, q) < e => q = p
  PROVE  Shows(k, om, e, Finished(t, p))
<1>1. t \in [Listing(k) -> Statuses] BY ShowsTyped
<1>2. "done" \in Statuses BY DEF Statuses
<1> DEFINE t2 == Apply(t, p, "done")
<1>3. t2 \in [Listing(k) -> Statuses] /\ \A q \in Listing(k) : t2[q] = IF q = p THEN "done" ELSE t[q]
  BY <1>1, <1>2, Applied
<1> HIDE DEF t2
<1>4. ASSUME NEW q \in Listing(k)
      PROVE  /\ Ord(k, q) < d => t2[q] = t[q] \/ t2[q] = "done"
             /\ d <= Ord(k, q) /\ Ord(k, q) < e /\ Known(om, q) => t2[q] = "done"
             /\ Ord(k, q) > e => t2[q] = t[q]
  <2>1. Ord(k, q) \in Int BY OrdNat
  <2>2. q = p => Ord(k, q) = d OBVIOUS
  <2> QED BY <1>3, <2>1, <2>2
<1>5. Shows(k, om, e, t2) BY <1>3, <1>4, Leap
<1> QED BY <1>5 DEF Finished, t2

(* Nothing is listed between two places: the display is at either.         *)
LEMMA ShowsGap ==
  ASSUME NEW k, NEW om, NEW d \in 1..15, NEW e \in 1..15, d <= e, NEW t, Shows(k, om, d, t),
         \A q \in Listing(k) : ~(d <= Ord(k, q) /\ Ord(k, q) < e)
  PROVE  Shows(k, om, e, t)
<1>1. t \in [Listing(k) -> Statuses] BY ShowsTyped
<1> QED BY <1>1, Leap

-----------------------------------------------------------------------------
(* mmdebstrap's phases and their ranks.                                    *)
ImageNames == Basics \cup {"provision", "install-python", "create-tarball"}

LEMMA Ranks ==
  /\ ToSet(ImagePhases) = ImageNames
  /\ \A k, p : p \in ImageNames => Rank(p) = Ord(k, p) - 3 /\ Ord(k, p) \in 4..11
  /\ \A i \in 1..8 : ImagePhases[i] \in ImageNames /\ Rank(ImagePhases[i]) = i
  /\ \A p \in ImageNames : Rank(p) \in 1..8 /\ ImagePhases[Rank(p)] = p
<1>1. /\ Len(ImagePhases) = 8 /\ DOMAIN ImagePhases = 1..8
      /\ ImagePhases[1] = "update-index" /\ ImagePhases[2] = "download" /\ ImagePhases[3] = "extract"
      /\ ImagePhases[4] = "install-essential" /\ ImagePhases[5] = "install-requested"
      /\ ImagePhases[6] = "provision" /\ ImagePhases[7] = "install-python" /\ ImagePhases[8] = "create-tarball"
  BY DEF ImagePhases
<1>2. \A i \in 1..8 : i = 1 \/ i = 2 \/ i = 3 \/ i = 4 \/ i = 5 \/ i = 6 \/ i = 7 \/ i = 8 OBVIOUS
<1>3. \A i \in 1..8 : ImagePhases[i] \in ImageNames BY <1>1, <1>2 DEF ImageNames, Basics
<1>4. ToSet(ImagePhases) = ImageNames
  <2>1. ToSet(ImagePhases) = {ImagePhases[i] : i \in 1..8} BY <1>1 DEF ToSet
  <2>2. ImageNames \subseteq {ImagePhases[i] : i \in 1..8}
    <3>1. 1 \in 1..8 /\ 2 \in 1..8 /\ 3 \in 1..8 /\ 4 \in 1..8 /\ 5 \in 1..8 /\ 6 \in 1..8 /\ 7 \in 1..8 /\ 8 \in 1..8
      OBVIOUS
    <3> QED BY <1>1, <3>1 DEF ImageNames, Basics
  <2> QED BY <1>3, <2>1, <2>2
<1>5. \A i, j \in 1..8 : ImagePhases[i] = ImagePhases[j] => i = j BY <1>1, <1>2
<1>6. \A i \in 1..8 : Rank(ImagePhases[i]) = i
  <2> SUFFICES ASSUME NEW i \in 1..8 PROVE Rank(ImagePhases[i]) = i OBVIOUS
  <2>1. Rank(ImagePhases[i]) = CHOOSE j \in 1..8 : ImagePhases[j] = ImagePhases[i] BY <1>1 DEF Rank
  <2>2. \E j \in 1..8 : ImagePhases[j] = ImagePhases[i] OBVIOUS
  <2>3. Rank(ImagePhases[i]) \in 1..8 /\ ImagePhases[Rank(ImagePhases[i])] = ImagePhases[i]
    BY <2>1, <2>2
  <2> QED BY <1>5, <2>3
<1>7. \A p \in ImageNames : Rank(p) \in 1..8 /\ ImagePhases[Rank(p)] = p
  <2> SUFFICES ASSUME NEW p \in ImageNames PROVE Rank(p) \in 1..8 /\ ImagePhases[Rank(p)] = p OBVIOUS
  <2>1. PICK i \in 1..8 : p = ImagePhases[i] BY <1>1, <1>4 DEF ToSet
  <2> QED BY <1>6, <2>1
<1>8. ASSUME NEW k, NEW p \in ImageNames PROVE Rank(p) = Ord(k, p) - 3 /\ Ord(k, p) \in 4..11
  <2>1. /\ Ord(k, "update-index") = 4 /\ Ord(k, "download") = 5 /\ Ord(k, "extract") = 6
        /\ Ord(k, "install-essential") = 7 /\ Ord(k, "install-requested") = 8 /\ Ord(k, "provision") = 9
        /\ Ord(k, "install-python") = 10 /\ Ord(k, "create-tarball") = 11
    BY DEF Ord
  <2>2. /\ Rank("update-index") = 1 /\ Rank("download") = 2 /\ Rank("extract") = 3
        /\ Rank("install-essential") = 4 /\ Rank("install-requested") = 5 /\ Rank("provision") = 6
        /\ Rank("install-python") = 7 /\ Rank("create-tarball") = 8
    <3>1. 1 \in 1..8 /\ 2 \in 1..8 /\ 3 \in 1..8 /\ 4 \in 1..8 /\ 5 \in 1..8 /\ 6 \in 1..8 /\ 7 \in 1..8 /\ 8 \in 1..8
      OBVIOUS
    <3> QED BY <1>1, <1>6, <3>1
  <2> QED BY <2>1, <2>2 DEF ImageNames, Basics
<1> QED BY <1>3, <1>4, <1>6, <1>7, <1>8

-----------------------------------------------------------------------------
(* The parser of a running program, what it has heard, and how far the     *)
(* display has come by it.                                                 *)
Moments == ImageNames \cup {"make-tools-tree", "over"}
Parsers(k) == [current : Moments, running : BOOLEAN, table : [Listing(k) -> Statuses]]
Closed(s) == ~s.running /\ s.current = "create-tarball"
HeardBy(k, s, x) == Closed(s) \/ (s.running /\ Ord(k, x) <= Ord(k, s.current))
DepthOf(k, s) == IF s.running THEN Ord(k, s.current) ELSE IF s.current = "update-index" THEN 4 ELSE 12
Tracks(k, om, s) ==
  /\ s \in Parsers(k) /\ s.current \in ImageNames
  /\ ~s.running => s.current \in {"update-index", "create-tarball"}
  /\ Shows(k, om, DepthOf(k, s), s.table)

LEMMA UbuntuOrds ==
  ASSUME NEW k \in UbuntuKinds
  PROVE  /\ Ord(k, "done") = 12 /\ Ord(k, "create-tarball") = 11 /\ Ord(k, "update-index") = 4
         /\ Ord(k, "install-python") = 10
         /\ \A q \in Listing(k) : Ord(k, q) \in 4..11 => q \in ImageNames
         /\ \A q \in Listing(k) : q = "install-python" => k.python
         /\ \A p, q \in ImageNames : Ord(k, p) = Ord(k, q) => p = q
         /\ Announced(k) \subseteq ImageNames \cup {"done"}
         /\ \A q \in ImageNames : Ord(k, q) \in 4..11
<1>1. ~Fedora(k) BY DEF UbuntuKinds
<1>2. /\ Ord(k, "update-index") = 4 /\ Ord(k, "download") = 5 /\ Ord(k, "extract") = 6
      /\ Ord(k, "install-essential") = 7 /\ Ord(k, "install-requested") = 8 /\ Ord(k, "provision") = 9
      /\ Ord(k, "install-python") = 10 /\ Ord(k, "create-tarball") = 11 /\ Ord(k, "done") = 12
      /\ Ord(k, "verify-vendored") = 1 /\ Ord(k, "make-tools-tree") = 2 /\ Ord(k, "prepare-repository") = 3
      /\ Ord(k, "assemble-disk") = 12 /\ Ord(k, LockPhase(k)) = 13 /\ Ord(k, "place") = 14
  BY <1>1 DEF Ord, LockPhase
<1> HIDE DEF Ord
<1>3. \A q \in Listing(k) : \/ q \in ImageNames
                            \/ q \in {"verify-vendored", "make-tools-tree", "prepare-repository", "assemble-disk",
                                      LockPhase(k), "place"}
  BY <1>1 DEF Listing, ImageNames, Basics
<1>4. \A q \in Listing(k) : Ord(k, q) \in 4..11 => q \in ImageNames BY <1>2, <1>3
<1>5. \A q \in Listing(k) : q = "install-python" => k.python BY <1>1 DEF Listing, LockPhase
<1>6. Announced(k) \subseteq ImageNames \cup {"done"} BY <1>1 DEF Announced, ImageNames, Basics
<1>7. \A p, q \in ImageNames : Ord(k, p) = Ord(k, q) => p = q BY <1>2 DEF ImageNames, Basics
<1>8. \A q \in ImageNames : Ord(k, q) \in 4..11 BY <1>2 DEF ImageNames, Basics
<1> QED BY <1>2, <1>4, <1>5, <1>6, <1>7, <1>8

LEMMA Betweens ==
  ASSUME NEW k, NEW s, s.running => s.current \in ImageNames, NEW x \in ImageNames, NEW q
  PROVE  q \in Between(s, x) <=>
           /\ q \in ImageNames /\ Ord(k, q) < Ord(k, x)
           /\ s.running => Ord(k, s.current) < Ord(k, q)
<1>1. \A p \in ImageNames : Rank(p) = Ord(k, p) - 3 /\ Ord(k, p) \in 4..11 /\ Rank(p) \in 1..8 /\ ImagePhases[Rank(p)] = p
  BY Ranks
<1>2. \A i \in 1..8 : ImagePhases[i] \in ImageNames /\ Rank(ImagePhases[i]) = i BY Ranks
<1> DEFINE lo == IF s.running THEN Rank(s.current) + 1 ELSE 1
<1>3. lo \in 1..9 BY <1>1
<1>4. Between(s, x) = {ImagePhases[i] : i \in lo..Rank(x) - 1} BY DEF Between
<1>5. Rank(x) \in 1..8 BY <1>1
<1>6. ASSUME q \in Between(s, x)
      PROVE  q \in ImageNames /\ Ord(k, q) < Ord(k, x) /\ (s.running => Ord(k, s.current) < Ord(k, q))
  <2>1. PICK i \in lo..Rank(x) - 1 : q = ImagePhases[i] BY <1>4, <1>6
  <2>2. i \in 1..8 /\ lo <= i /\ i < Rank(x) BY <1>3, <1>5, <2>1
  <2>3. q \in ImageNames /\ Rank(q) = i BY <1>2, <2>1, <2>2
  <2>4. Rank(q) = Ord(k, q) - 3 /\ Rank(x) = Ord(k, x) - 3 /\ Ord(k, q) \in 4..11 /\ Ord(k, x) \in 4..11
    BY <1>1, <2>3
  <2>5. s.running => lo = Rank(s.current) + 1 /\ Rank(s.current) = Ord(k, s.current) - 3 /\ Ord(k, s.current) \in 4..11
    BY <1>1
  <2> HIDE DEF lo
  <2> QED BY <2>2, <2>3, <2>4, <2>5
<1>7. ASSUME q \in ImageNames, Ord(k, q) < Ord(k, x), s.running => Ord(k, s.current) < Ord(k, q)
      PROVE  q \in Between(s, x)
  <2>1. Rank(q) = Ord(k, q) - 3 /\ Rank(x) = Ord(k, x) - 3 /\ Ord(k, q) \in 4..11 /\ Ord(k, x) \in 4..11
    BY <1>1, <1>7
  <2>2. s.running => Rank(s.current) = Ord(k, s.current) - 3 /\ Ord(k, s.current) \in 4..11 BY <1>1
  <2>3. Rank(q) \in lo..Rank(x) - 1 BY <1>7, <2>1, <2>2
  <2>4. q = ImagePhases[Rank(q)] BY <1>1, <1>7
  <2> QED BY <1>4, <2>3, <2>4
<1> QED BY <1>6, <1>7

LEMMA HandleKeeps ==
  ASSUME NEW k \in UbuntuKinds, NEW om, om \subseteq ImageNames \ {"create-tarball"},
         NEW s, Tracks(k, om, s), ~Closed(s), NEW x \in Announced(k) \ om,
         \A q \in Earlier(k, x) \ om : HeardBy(k, s, q)
  PROVE  /\ Tracks(k, om, HandleLine(s, x)) /\ HeardBy(k, HandleLine(s, x), x)
         /\ \A y : HeardBy(k, s, y) => HeardBy(k, HandleLine(s, x), y)
         /\ Closed(HandleLine(s, x)) => x = "done"
<1> DEFINE t == HandleLine(s, x)
<1>1. /\ s \in Parsers(k) /\ s.current \in ImageNames /\ s.running \in BOOLEAN /\ s.table \in [Listing(k) -> Statuses]
      /\ Shows(k, om, DepthOf(k, s), s.table)
      /\ ~s.running => s.current = "update-index"
  BY DEF Tracks, Parsers, Closed
<1>2. \A q \in Earlier(k, x) \ om : s.running /\ Ord(k, q) <= Ord(k, s.current) BY DEF HeardBy
<1>3. /\ Ord(k, "done") = 12 /\ Ord(k, "create-tarball") = 11 /\ Ord(k, "update-index") = 4 /\ Ord(k, "install-python") = 10
      /\ \A q \in Listing(k) : Ord(k, q) \in 4..11 => q \in ImageNames
      /\ \A q \in Listing(k) : q = "install-python" => k.python
      /\ \A p, q \in ImageNames : Ord(k, p) = Ord(k, q) => p = q
      /\ Announced(k) \subseteq ImageNames \cup {"done"}
      /\ \A q \in ImageNames : Ord(k, q) \in 4..11
  BY UbuntuOrds
<1>4. s = [current |-> s.current, running |-> s.running, table |-> s.table] BY <1>1 DEF Parsers
<1>5. DepthOf(k, s) = (IF s.running THEN Ord(k, s.current) ELSE 4) /\ DepthOf(k, s) \in 4..11
  BY <1>1, <1>3 DEF DepthOf
<1>6. "done" \in Statuses /\ "running" \in Statuses BY DEF Statuses
<1>7. CASE x = "done"
  <2>1. "create-tarball" \in Earlier(k, x) \ om
    <3>1. "create-tarball" \in Announced(k) BY DEF UbuntuKinds, Announced
    <3> QED BY <1>3, <1>7, <3>1 DEF Earlier
  <2>2. s.running /\ s.current = "create-tarball"
    <3>1. s.running /\ 11 <= Ord(k, s.current) BY <1>2, <1>3, <2>1
    <3>2. Ord(k, s.current) \in 4..11 BY <1>1, <1>3
    <3>3. Ord(k, s.current) = Ord(k, "create-tarball") /\ "create-tarball" \in ImageNames
      BY <1>3, <3>1, <3>2 DEF ImageNames
    <3> QED BY <1>1, <1>3, <3>1, <3>3
  <2>3. t = [current |-> "create-tarball", running |-> FALSE, table |-> Finished(s.table, "create-tarball")]
    <3>1. t = [s EXCEPT !.running = FALSE, !.table = Finished(s.table, s.current)]
      BY <1>7, <2>2 DEF HandleLine, FinishCurrent
    <3> QED BY <1>4, <2>2, <3>1
  <2>4. Shows(k, om, 12, Finished(s.table, "create-tarball"))
    <3>1. Shows(k, om, 11, s.table) BY <1>1, <1>3, <1>5, <2>2
    <3>2. \A q \in Listing(k) : 11 <= Ord(k, q) /\ Ord(k, q) < 12 => q = "create-tarball"
      <4> SUFFICES ASSUME NEW q \in Listing(k), 11 <= Ord(k, q), Ord(k, q) < 12 PROVE q = "create-tarball" OBVIOUS
      <4>1. Ord(k, q) = 11 BY OrdNat
      <4>2. q \in ImageNames BY <1>3, <4>1
      <4> QED BY <1>3, <2>2, <1>1, <4>1, <4>2
    <3>3. 11 \in 1..15 /\ 12 \in 1..15 /\ 11 <= 12 OBVIOUS
    <3> QED BY <1>3, <3>1, <3>2, <3>3, ShowsEnded
  <2>5. Closed(t) /\ t.current \in ImageNames BY <1>1, <2>2, <2>3 DEF Closed
  <2>6. Tracks(k, om, t)
    <3>1. t \in Parsers(k) BY <2>3, <2>4, ShowsTyped DEF Parsers, Moments, ImageNames
    <3>2. DepthOf(k, t) = 12 BY <2>3 DEF DepthOf
    <3>3. t.table = Finished(s.table, "create-tarball") /\ ~t.running /\ t.current = "create-tarball"
      BY <2>3
    <3> QED BY <2>4, <2>5, <3>1, <3>2, <3>3 DEF Tracks
  <2> QED BY <1>7, <2>5, <2>6 DEF HeardBy
<1>8. CASE x # "done" /\ Passed(s, x)
  <2>1. x \in ImageNames /\ x \in ToSet(ImagePhases) BY <1>3, <1>8, Ranks
  <2>2. t = s BY <1>8, <2>1 DEF HandleLine, StartPhase
  <2>3. s.running /\ Ord(k, x) <= Ord(k, s.current)
    <3>1. s.running /\ Rank(x) <= Rank(s.current) BY <1>8 DEF Passed
    <3>2. Rank(x) = Ord(k, x) - 3 /\ Rank(s.current) = Ord(k, s.current) - 3 /\ Ord(k, x) \in 4..11 /\ Ord(k, s.current) \in 4..11
      BY <1>1, <2>1, Ranks
    <3> QED BY <3>1, <3>2
  <2> QED BY <2>2, <2>3 DEF HeardBy
<1>9. CASE x # "done" /\ ~Passed(s, x)
  <2>1. x \in ImageNames /\ x \in ToSet(ImagePhases) /\ x # "done" BY <1>3, <1>9, Ranks
  <2>2. s.running => Ord(k, s.current) < Ord(k, x)
    <3>1. s.running => ~(Rank(x) <= Rank(s.current)) BY <1>9 DEF Passed
    <3>2. Rank(x) = Ord(k, x) - 3 /\ Rank(s.current) = Ord(k, s.current) - 3 /\ Ord(k, x) \in 4..11 /\ Ord(k, s.current) \in 4..11
      BY <1>1, <2>1, Ranks
    <3> QED BY <3>1, <3>2
  <2> DEFINE f  == FinishCurrent(s).table
             B  == Between(s, x) \ {"install-python"}
             g  == FinishedAll(f, B)
             t2 == Started(g, x)
  <2>3. t = [current |-> x, running |-> TRUE, table |-> t2] BY <1>9, <2>1 DEF HandleLine, StartPhase
  <2>4. f \in [Listing(k) -> Statuses] /\ \A q \in Listing(k) : f[q] = IF s.running /\ q = s.current THEN "done" ELSE s.table[q]
    <3>1. CASE s.running
      <4>1. f = Apply(s.table, s.current, "done") BY <1>1, <3>1 DEF FinishCurrent, Finished, Parsers
      <4> HIDE DEF f
      <4>2. /\ Apply(s.table, s.current, "done") \in [Listing(k) -> Statuses]
            /\ \A q \in Listing(k) : Apply(s.table, s.current, "done")[q] = IF q = s.current THEN "done" ELSE s.table[q]
        BY <1>1, <1>6, Applied
      <4> QED BY <3>1, <4>1, <4>2
    <3>2. CASE ~s.running
      <4>1. f = s.table BY <3>2 DEF FinishCurrent
      <4> QED BY <1>1, <3>2, <4>1
    <3> QED BY <3>1, <3>2
  <2> HIDE DEF f, B
  <2>5. g \in [Listing(k) -> Statuses] /\ \A q \in Listing(k) : g[q] = IF q \in B THEN "done" ELSE f[q]
    BY <1>6, <2>4 DEF FinishedAll
  <2> HIDE DEF g
  <2>6. t2 \in [Listing(k) -> Statuses] /\ \A q \in Listing(k) : t2[q] = IF q = x THEN "running" ELSE g[q]
    BY <1>6, <2>5, Applied DEF Started
  <2> HIDE DEF t2
  <2>7. \A q : q \in B <=> /\ q \in ImageNames /\ Ord(k, q) < Ord(k, x) /\ q # "install-python"
                           /\ s.running => Ord(k, s.current) < Ord(k, q)
    BY <1>1, <2>1, Betweens DEF B
  <2>8. Ord(k, x) \in 4..11 BY <1>3, <2>1
  <2>9. ASSUME NEW q \in Listing(k)
        PROVE  /\ Ord(k, q) < DepthOf(k, s) => t2[q] = s.table[q] \/ t2[q] = "done"
               /\ DepthOf(k, s) <= Ord(k, q) /\ Ord(k, q) < Ord(k, x) /\ Known(om, q) => t2[q] = "done"
               /\ Ord(k, q) > Ord(k, x) => t2[q] = s.table[q]
    <3>1. Ord(k, q) \in 1..14 BY OrdNat
    <3>2. DepthOf(k, s) <= Ord(k, x) BY <1>5, <2>2, <2>8
    <3>3. t2[q] = IF q = x THEN "running" ELSE IF q \in B THEN "done"
                  ELSE IF s.running /\ q = s.current THEN "done" ELSE s.table[q]
      BY <2>4, <2>5, <2>6
    <3>4. ASSUME Ord(k, q) < DepthOf(k, s) PROVE t2[q] = s.table[q] \/ t2[q] = "done"
      <4>1. q # x BY <3>1, <3>2, <3>4, <1>5, <2>8
      <4> QED BY <3>3, <4>1
    <3>5. ASSUME Ord(k, q) > Ord(k, x) PROVE t2[q] = s.table[q]
      <4>1. q # x BY <3>1, <3>5, <2>8
      <4>2. q \notin B BY <2>7, <2>8, <3>1, <3>5
      <4>3. s.running => q # s.current BY <2>2, <2>8, <3>1, <3>5
      <4> QED BY <3>3, <4>1, <4>2, <4>3
    <3>6. ASSUME DepthOf(k, s) <= Ord(k, q), Ord(k, q) < Ord(k, x), Known(om, q) PROVE t2[q] = "done"
      <4>1. q # x BY <3>1, <3>6, <2>8
      <4>2. q \in ImageNames /\ Ord(k, q) \in 4..11
        <5>1. Ord(k, q) \in 4..11 BY <1>5, <2>8, <3>1, <3>6
        <5> QED BY <1>3, <5>1
      <4>3. CASE s.running /\ q = s.current BY <3>3, <4>1, <4>3
      <4>4. CASE ~(s.running /\ q = s.current)
        <5>1. s.running => Ord(k, s.current) < Ord(k, q)
          <6> SUFFICES ASSUME s.running PROVE Ord(k, s.current) < Ord(k, q) OBVIOUS
          <6>1. Ord(k, s.current) <= Ord(k, q) /\ q # s.current BY <1>5, <3>6, <4>4
          <6>2. Ord(k, s.current) # Ord(k, q) BY <1>1, <1>3, <4>2, <6>1
          <6>3. Ord(k, s.current) \in 4..11 BY <1>1, <1>3
          <6> QED BY <3>1, <6>1, <6>2, <6>3
        <5>2. q # "install-python"
          <6> SUFFICES ASSUME q = "install-python" PROVE FALSE OBVIOUS
          <6>1. q \notin om BY <3>6 DEF Known
          <6>2. q \in Announced(k) BY <1>3 DEF UbuntuKinds, Announced
          <6>3. q \in Earlier(k, x) \ om BY <3>6, <6>1, <6>2 DEF Earlier
          <6>4. s.running /\ Ord(k, q) <= Ord(k, s.current) BY <1>2, <6>3
          <6>5. Ord(k, s.current) \in 4..11 BY <1>1, <1>3
          <6> QED BY <3>1, <5>1, <6>4, <6>5
        <5>3. q \in B BY <2>7, <3>6, <4>2, <5>1, <5>2
        <5> QED BY <3>3, <4>1, <5>3
      <4> QED BY <4>3, <4>4
    <3> QED BY <3>4, <3>5, <3>6
  <2>10. Shows(k, om, Ord(k, x), t2)
    <3>1. DepthOf(k, s) \in 1..15 /\ Ord(k, x) \in 1..15 /\ DepthOf(k, s) <= Ord(k, x)
      BY <1>5, <2>2, <2>8
    <3> DEFINE d == DepthOf(k, s)
               e == Ord(k, x)
    <3>2. d \in 1..15 /\ e \in 1..15 /\ d <= e /\ Shows(k, om, d, s.table) BY <1>1, <3>1
    <3>3. \A q \in Listing(k) : /\ Ord(k, q) < d => t2[q] = s.table[q] \/ t2[q] = "done"
                                /\ d <= Ord(k, q) /\ Ord(k, q) < e /\ Known(om, q) => t2[q] = "done"
                                /\ Ord(k, q) > e => t2[q] = s.table[q]
      BY <2>9
    <3>4. t2 \in [Listing(k) -> Statuses] BY <2>6
    <3> HIDE DEF d, e
    <3>5. Shows(k, om, e, t2) BY <3>2, <3>3, <3>4, Leap
    <3> QED BY <3>5 DEF e
  <2>11. t.current = x /\ t.running /\ t.table = t2 BY <2>3
  <2>12. Tracks(k, om, t)
    <3>1. t \in Parsers(k) BY <2>1, <2>3, <2>6 DEF Parsers, Moments
    <3>2. DepthOf(k, t) = Ord(k, x) BY <2>11 DEF DepthOf
    <3> QED BY <2>1, <2>10, <2>11, <3>1, <3>2 DEF Tracks
  <2>13. ASSUME NEW y, HeardBy(k, s, y) PROVE HeardBy(k, t, y)
    <3>1. s.running /\ Ord(k, y) <= Ord(k, s.current) BY <2>13 DEF HeardBy
    <3>2. Ord(k, y) \in 1..14 /\ Ord(k, s.current) \in 1..14 BY OrdNat
    <3>3. Ord(k, y) <= Ord(k, x) BY <2>2, <2>8, <3>1, <3>2
    <3> QED BY <2>11, <3>3 DEF HeardBy
  <2>14. HeardBy(k, t, x) BY <2>8, <2>11 DEF HeardBy
  <2>15. ~Closed(t) BY <2>11 DEF Closed
  <2> QED BY <2>12, <2>13, <2>14, <2>15
<1> QED BY <1>7, <1>8, <1>9

(* mkosi's parser once the image's build has begun.                        *)
MkosiPhases(k) ==
  {"install-requested", "provision", "create-tarball"} \cup (IF k.offline THEN {} ELSE {"download"})
Follows(k, s) ==
  /\ s \in Parsers(k) /\ s.running /\ s.current \in MkosiPhases(k)
  /\ Shows(k, {}, Ord(k, s.current), s.table)

LEMMA FedoraOrds ==
  ASSUME NEW k \in FedoraKinds
  PROVE  /\ Ord(k, "create-tarball") = 11 /\ Ord(k, "make-tools-tree") = 3 /\ Ord(k, "prepare-repository") = 2
         /\ Ord(k, "verify-vendored") = 1 /\ Ord(k, "download") = 5 /\ Ord(k, "install-requested") = 8
         /\ Ord(k, LockPhase(k)) = 13 /\ Ord(k, "place") = 14
         /\ MkosiPhases(k) \subseteq Listing(k) /\ "make-tools-tree" \in Listing(k)
         /\ \A q \in MkosiPhases(k) : Ord(k, q) \in 5..11 /\ q # "make-tools-tree" /\ q # "over" /\ q \in ImageNames
         /\ \A q \in Listing(k) : Ord(k, q) \in 4..12 => q \in MkosiPhases(k)
         /\ \A q \in Listing(k) : Ord(k, q) = 3 => q = "make-tools-tree"
         /\ \A q \in Listing(k) : Ord(k, q) = 2 => q = "prepare-repository"
         /\ \A p, q \in MkosiPhases(k) : Ord(k, p) = Ord(k, q) => p = q
         /\ Announced(k) = {"install-requested", "provision", "create-tarball"}
         /\ Announced(k) \subseteq MkosiPhases(k)
         /\ \A q \in MkosiPhases(k) : Ord(k, q) > 5 => q \in Announced(k)
         /\ "over" \notin Listing(k)
<1>1. Fedora(k) /\ k.offline \in BOOLEAN BY KindFields DEF FedoraKinds
<1>2. /\ Ord(k, "download") = 5 /\ Ord(k, "install-requested") = 8 /\ Ord(k, "provision") = 9
      /\ Ord(k, "create-tarball") = 11
      /\ Ord(k, "verify-vendored") = 1 /\ Ord(k, "make-tools-tree") = 3 /\ Ord(k, "prepare-repository") = 2
      /\ Ord(k, LockPhase(k)) = 13 /\ Ord(k, "place") = 14
  BY <1>1 DEF Ord, LockPhase
<1> HIDE DEF Ord
<1>3. \A q \in Listing(k) : \/ q \in MkosiPhases(k)
                            \/ q \in {"verify-vendored", "make-tools-tree", "prepare-repository", LockPhase(k), "place"}
  BY <1>1 DEF Listing, MkosiPhases
<1>4. /\ MkosiPhases(k) \subseteq Listing(k) /\ "make-tools-tree" \in Listing(k)
  BY <1>1 DEF Listing, MkosiPhases
<1>5. /\ Announced(k) = {"install-requested", "provision", "create-tarball"}
      /\ Announced(k) \subseteq MkosiPhases(k)
  BY <1>1 DEF Announced, MkosiPhases
<1>6. \A q \in MkosiPhases(k) : q \in {"download", "install-requested", "provision", "create-tarball"}
  BY DEF MkosiPhases
<1>7. /\ \A q \in MkosiPhases(k) : Ord(k, q) \in 5..11 /\ q # "make-tools-tree" /\ q # "over" /\ q \in ImageNames
      /\ \A p, q \in MkosiPhases(k) : Ord(k, p) = Ord(k, q) => p = q
      /\ \A q \in MkosiPhases(k) : Ord(k, q) > 5 => q \in Announced(k)
  BY <1>2, <1>5, <1>6 DEF ImageNames, Basics
<1>8. /\ \A q \in Listing(k) : Ord(k, q) \in 4..12 => q \in MkosiPhases(k)
      /\ \A q \in Listing(k) : Ord(k, q) = 3 => q = "make-tools-tree"
      /\ \A q \in Listing(k) : Ord(k, q) = 2 => q = "prepare-repository"
  BY <1>2, <1>3, <1>7
<1>9. "over" \notin Listing(k) BY <1>1 DEF Listing, LockPhase
<1> QED BY <1>2, <1>4, <1>5, <1>7, <1>8, <1>9

(* A phase is after the current one if it is later in the list.            *)
LEMMA AfterRises ==
  ASSUME NEW k \in ValidKinds, NEW s, s.current \in Listing(k), s.current # "over", NEW x \in Listing(k), x # "over"
  PROVE  After(PhasesOf(k), s, x) <=> Ord(k, s.current) < Ord(k, x)
<1> DEFINE list == PhasesOf(k)
<1>1. Rising(k, list, 1, 15, Listing(k)) BY ListRises
<1> HIDE DEF list
<1>2. /\ DOMAIN list = 1..Len(list) /\ Len(list) \in Nat /\ ToSet(list) = Listing(k)
      /\ \A i, j \in 1..Len(list) : i < j => Ord(k, list[i]) < Ord(k, list[j])
  BY <1>1 DEF Rising, Listed
<1>3. \A y \in Listing(k) : \E i \in 1..Len(list) : list[i] = y BY <1>2 DEF ToSet
<1>4. \A p : Ord(k, p) \in 1..14 BY OrdNat
<1>5. ASSUME After(list, s, x) PROVE Ord(k, s.current) < Ord(k, x)
  <2>1. PICK i \in 1..Len(list) : list[i] = x /\ \A j \in DOMAIN list : list[j] = s.current => j < i
    BY <1>2, <1>5 DEF After
  <2>2. PICK j \in 1..Len(list) : list[j] = s.current BY <1>3
  <2>3. j < i BY <1>2, <2>1, <2>2
  <2> QED BY <1>2, <2>1, <2>2, <2>3
<1>6. ASSUME Ord(k, s.current) < Ord(k, x) PROVE After(list, s, x)
  <2>1. PICK i \in 1..Len(list) : list[i] = x BY <1>3
  <2>2. ASSUME NEW j \in 1..Len(list), list[j] = s.current PROVE j < i
    <3>1. CASE j = i BY <1>4, <1>6, <2>1, <2>2, <3>1
    <3>2. CASE i < j
      <4>1. Ord(k, x) < Ord(k, s.current) BY <1>2, <2>1, <2>2, <3>2
      <4> QED BY <1>4, <1>6, <4>1
    <3> QED BY <3>1, <3>2
  <2> QED BY <1>2, <2>1, <2>2 DEF After
<1> QED BY <1>5, <1>6 DEF list

LEMMA MkosiKeeps ==
  ASSUME NEW k \in FedoraKinds, k \in ValidKinds, NEW s, Follows(k, s), NEW x \in Announced(k),
         \A q \in Earlier(k, x) : HeardBy(k, s, q)
  PROVE  /\ Follows(k, MkosiLine(PhasesOf(k), s, x)) /\ HeardBy(k, MkosiLine(PhasesOf(k), s, x), x)
         /\ \A y : HeardBy(k, s, y) => HeardBy(k, MkosiLine(PhasesOf(k), s, x), y)
<1> DEFINE t == MkosiLine(PhasesOf(k), s, x)
<1>1. s \in Parsers(k) /\ s.running /\ s.current \in MkosiPhases(k) /\ Shows(k, {}, Ord(k, s.current), s.table)
  BY DEF Follows
<1>2. /\ \A q \in MkosiPhases(k) : Ord(k, q) \in 5..11 /\ q # "make-tools-tree" /\ q # "over" /\ q \in ImageNames
      /\ \A q \in Listing(k) : Ord(k, q) \in 4..12 => q \in MkosiPhases(k)
      /\ \A p, q \in MkosiPhases(k) : Ord(k, p) = Ord(k, q) => p = q
      /\ Announced(k) = {"install-requested", "provision", "create-tarball"}
      /\ Announced(k) \subseteq MkosiPhases(k) /\ MkosiPhases(k) \subseteq Listing(k)
      /\ \A q \in MkosiPhases(k) : Ord(k, q) > 5 => q \in Announced(k)
  BY FedoraOrds
<1>3. \A q \in Earlier(k, x) : Ord(k, q) <= Ord(k, s.current) BY <1>1 DEF HeardBy, Closed
<1>4. x \in MkosiPhases(k) /\ x \in Listing(k) /\ s.current \in Listing(k) BY <1>1, <1>2
<1>5. t = Advance(PhasesOf(k), s, x)
  <2>1. s.current # "make-tools-tree" /\ x \in {"install-requested", "provision", "create-tarball"}
    BY <1>1, <1>2
  <2> QED BY <2>1 DEF MkosiLine
<1>6. After(PhasesOf(k), s, x) <=> Ord(k, s.current) < Ord(k, x) BY <1>1, <1>2, <1>4, AfterRises
<1>7. Ord(k, s.current) \in 5..11 /\ Ord(k, x) \in 5..11 BY <1>1, <1>2, <1>4
<1>8. CASE ~(Ord(k, s.current) < Ord(k, x))
  <2>1. t = s BY <1>5, <1>6, <1>8 DEF Advance
  <2>2. Ord(k, x) <= Ord(k, s.current) BY <1>7, <1>8
  <2> QED BY <1>1, <2>1, <2>2 DEF HeardBy
<1>9. CASE Ord(k, s.current) < Ord(k, x)
  <2> DEFINE t2 == Started(Finished(s.table, s.current), x)
  <2>1. t = [current |-> x, running |-> TRUE, table |-> t2]
    BY <1>1, <1>5, <1>6, <1>9 DEF Advance
  <2>2. \A q \in Listing(k) : Ord(k, s.current) <= Ord(k, q) /\ Ord(k, q) < Ord(k, x) => q = s.current
    <3> SUFFICES ASSUME NEW q \in Listing(k), Ord(k, s.current) <= Ord(k, q), Ord(k, q) < Ord(k, x), q # s.current
                 PROVE  FALSE
      OBVIOUS
    <3>1. Ord(k, q) \in 4..12
      <4>1. Ord(k, q) \in 1..14 BY OrdNat
      <4> QED BY <1>7, <4>1
    <3>2. q \in MkosiPhases(k) BY <1>2, <3>1
    <3>3. Ord(k, q) # Ord(k, s.current) BY <1>1, <1>2, <3>2
    <3>4. Ord(k, q) > 5 BY <1>7, <3>1, <3>3
    <3>5. q \in Earlier(k, x) BY <1>2, <3>2, <3>4 DEF Earlier
    <3>6. Ord(k, q) <= Ord(k, s.current) BY <1>3, <3>5
    <3> QED BY <1>7, <3>1, <3>3, <3>6
  <2>3. Shows(k, {}, Ord(k, x), Finished(s.table, s.current))
    <3> DEFINE d == Ord(k, s.current)
               e == Ord(k, x)
               p == s.current
    <3>1. d \in 1..15 /\ e \in 1..15 /\ d <= e /\ Shows(k, {}, d, s.table) /\ Ord(k, p) = d
          /\ \A q \in Listing(k) : d <= Ord(k, q) /\ Ord(k, q) < e => q = p
      BY <1>1, <1>7, <1>9, <2>2
    <3> HIDE DEF d, e, p
    <3>2. Shows(k, {}, e, Finished(s.table, p)) BY <3>1, ShowsEnded
    <3> QED BY <3>2 DEF e, p
  <2>4. Shows(k, {}, Ord(k, x), t2)
    <3>1. Ord(k, x) \in 1..15 BY <1>7
    <3> QED BY <2>3, <3>1, ShowsBegan
  <2> HIDE DEF t2
  <2>5. t.current = x /\ t.running /\ t.table = t2 BY <2>1
  <2>6. t \in Parsers(k)
    <3>1. x \in Moments BY <1>2, <1>4 DEF Moments
    <3> QED BY <2>1, <2>4, <3>1, ShowsTyped DEF Parsers
  <2>7. ASSUME NEW y, HeardBy(k, s, y) PROVE HeardBy(k, t, y)
    <3>1. Ord(k, y) <= Ord(k, s.current) BY <1>1, <2>7 DEF HeardBy, Closed
    <3>2. Ord(k, y) \in 1..14 BY OrdNat
    <3>3. Ord(k, y) <= Ord(k, x) BY <1>7, <1>9, <3>1, <3>2
    <3> QED BY <2>5, <3>3 DEF HeardBy
  <2>8. HeardBy(k, t, x) BY <1>7, <2>5 DEF HeardBy
  <2> QED BY <1>4, <2>4, <2>5, <2>6, <2>7, <2>8 DEF Follows
<1> QED BY <1>8, <1>9

(* The tree of mkosi is made: the build's phases begin.                    *)
LEMMA MkosiBegins ==
  ASSUME NEW k \in FedoraKinds, k \in ValidKinds, NEW s \in Parsers(k), ~s.running, s.current = "make-tools-tree",
         Shows(k, {}, 3, s.table), NEW x, x = IF k.offline THEN "install-requested" ELSE "download"
  PROVE  Follows(k, Advance(PhasesOf(k), [s EXCEPT !.table = Finished(s.table, "make-tools-tree")], x))
<1> DEFINE f == Finished(s.table, "make-tools-tree")
           r == [s EXCEPT !.table = f]
           t == Advance(PhasesOf(k), r, x)
<1>1. r = [current |-> "make-tools-tree", running |-> s.running, table |-> f] BY DEF Parsers
<1>2. r.current = "make-tools-tree" /\ ~r.running /\ r.table = f BY <1>1
<1> HIDE DEF r, f
<1>3. /\ Ord(k, "make-tools-tree") = 3 /\ Ord(k, "download") = 5 /\ Ord(k, "install-requested") = 8
      /\ "make-tools-tree" \in Listing(k) /\ MkosiPhases(k) \subseteq Listing(k)
      /\ \A q \in MkosiPhases(k) : q # "over"
      /\ \A q \in Listing(k) : Ord(k, q) \in 4..12 => q \in MkosiPhases(k)
      /\ \A q \in MkosiPhases(k) : Ord(k, q) \in 5..11 /\ q \in ImageNames
      /\ \A q \in Listing(k) : Ord(k, q) = 3 => q = "make-tools-tree"
      /\ \A q \in MkosiPhases(k) : Ord(k, q) > 5 => q \in Announced(k)
      /\ Announced(k) = {"install-requested", "provision", "create-tarball"}
      /\ \A p, q \in MkosiPhases(k) : Ord(k, p) = Ord(k, q) => p = q
  BY FedoraOrds
<1>4. x \in MkosiPhases(k) BY DEF MkosiPhases
<1>5. After(PhasesOf(k), r, x)
  <2>1. Ord(k, r.current) < Ord(k, x) BY <1>2, <1>3
  <2>2. r.current \in Listing(k) /\ r.current # "over" /\ x \in Listing(k) /\ x # "over"
    BY <1>2, <1>3, <1>4
  <2> QED BY <2>1, <2>2, AfterRises
<1>6. t = [current |-> x, running |-> TRUE, table |-> Started(f, x)] BY <1>2, <1>5 DEF Advance
<1>7. \A q \in Listing(k) : 3 <= Ord(k, q) /\ Ord(k, q) < Ord(k, x) => q = "make-tools-tree"
  <2> SUFFICES ASSUME NEW q \in Listing(k), 3 <= Ord(k, q), Ord(k, q) < Ord(k, x), Ord(k, q) # 3 PROVE FALSE
    BY <1>3
  <2>1. Ord(k, q) \in 4..12
    <3>1. Ord(k, q) \in 1..14 /\ Ord(k, x) \in 5..11 BY <1>3, <1>4, OrdNat
    <3> QED BY <3>1
  <2>2. q \in MkosiPhases(k) BY <1>3, <2>1
  <2>3. CASE k.offline
    <3>1. x = "install-requested" /\ Ord(k, x) = 8 BY <1>3, <2>3
    <3>2. q \in {"install-requested", "provision", "create-tarball"} BY <2>2, <2>3 DEF MkosiPhases
    <3>3. Ord(k, "provision") = 9 /\ Ord(k, "create-tarball") = 11 BY DEF Ord
    <3> QED BY <1>3, <3>1, <3>2, <3>3
  <2>4. CASE ~k.offline
    <3>1. Ord(k, x) = 5 BY <1>3, <2>4
    <3>2. Ord(k, q) \in 5..11 BY <1>3, <2>2
    <3> QED BY <3>1, <3>2
  <2> QED BY <2>3, <2>4
<1>8. Ord(k, x) \in 5..11 BY <1>3, <1>4
<1>9. Shows(k, {}, Ord(k, x), f)
  <2> DEFINE e == Ord(k, x)
  <2>1. 3 \in 1..15 /\ e \in 1..15 /\ 3 <= e BY <1>8
  <2>2. \A q \in Listing(k) : 3 <= Ord(k, q) /\ Ord(k, q) < e => q = "make-tools-tree" BY <1>7
  <2> HIDE DEF e
  <2>3. Shows(k, {}, e, Finished(s.table, "make-tools-tree")) BY <1>3, <2>1, <2>2, ShowsEnded
  <2> QED BY <2>3 DEF e, f
<1>10. Shows(k, {}, Ord(k, x), Started(f, x))
  <2>1. Ord(k, x) \in 1..15 BY <1>8
  <2> QED BY <1>9, <2>1, ShowsBegan
<1>11. t.current = x /\ t.running /\ t.table = Started(f, x) BY <1>6
<1>12. t \in Parsers(k)
  <2>1. x \in Moments BY <1>3, <1>4 DEF Moments
  <2>2. Started(f, x) \in [Listing(k) -> Statuses] BY <1>10, ShowsTyped
  <2> HIDE DEF t
  <2> QED BY <1>6, <2>1, <2>2 DEF Parsers
<1>13. Follows(k, t) BY <1>4, <1>10, <1>11, <1>12 DEF Follows
<1> QED BY <1>13 DEF r, f

(* The tarball is compressed: the last of mkosi's phases is done.          *)
LEMMA MkosiEnds ==
  ASSUME NEW k \in FedoraKinds, NEW s, Follows(k, s), s.current = "create-tarball"
  PROVE  /\ Shows(k, {}, 13, Advance(PhasesOf(k), s, "over").table)
         /\ Advance(PhasesOf(k), s, "over") \in Parsers(k)
<1> DEFINE f == Finished(s.table, "create-tarball")
           t == Advance(PhasesOf(k), s, "over")
<1>1. s.running /\ Shows(k, {}, 11, s.table) BY FedoraOrds DEF Follows
<1>2. After(PhasesOf(k), s, "over") BY DEF After
<1>3. t = [current |-> "over", running |-> TRUE, table |-> Started(f, "over")] BY <1>1, <1>2 DEF Advance
<1> HIDE DEF f
<1>4. /\ "over" \notin Listing(k) /\ "create-tarball" \in MkosiPhases(k) /\ Ord(k, "create-tarball") = 11
      /\ \A q \in Listing(k) : Ord(k, q) \in 4..12 => q \in MkosiPhases(k)
      /\ \A q \in MkosiPhases(k) : Ord(k, q) \in 5..11
      /\ \A p, q \in MkosiPhases(k) : Ord(k, p) = Ord(k, q) => p = q
  BY FedoraOrds DEF MkosiPhases
<1>5. \A q \in Listing(k) : 11 <= Ord(k, q) /\ Ord(k, q) < 13 => q = "create-tarball"
  <2> SUFFICES ASSUME NEW q \in Listing(k), 11 <= Ord(k, q), Ord(k, q) < 13 PROVE q = "create-tarball" OBVIOUS
  <2>1. Ord(k, q) \in 4..12
    <3>1. Ord(k, q) \in 1..14 BY OrdNat
    <3> QED BY <3>1
  <2>2. q \in MkosiPhases(k) /\ Ord(k, q) \in 5..11 BY <1>4, <2>1
  <2>3. Ord(k, q) = Ord(k, "create-tarball") BY <1>4, <2>2
  <2> QED BY <1>4, <2>2, <2>3
<1>6. Shows(k, {}, 13, f)
  <2>1. 11 \in 1..15 /\ 13 \in 1..15 /\ 11 <= 13 OBVIOUS
  <2> QED BY <1>1, <1>4, <1>5, <2>1, ShowsEnded DEF f
<1>7. Started(f, "over") = f
  <2>1. DOMAIN f = Listing(k) BY <1>6, ShowsTyped
  <2> QED BY <1>4, <2>1 DEF Started, Apply
<1>8. t.table = f /\ t \in Parsers(k)
  <2>1. f \in [Listing(k) -> Statuses] BY <1>6, ShowsTyped
  <2>2. t = [current |-> "over", running |-> TRUE, table |-> f] BY <1>3, <1>7
  <2> HIDE DEF t
  <2> QED BY <2>1, <2>2 DEF Parsers, Moments
<1> QED BY <1>6, <1>8

-----------------------------------------------------------------------------
(* What the image's program has said is heard, on its way, or left out; a  *)
(* line on its way comes after those before it; and the end is the last.   *)
Hears(k, om, s, q, u) ==
  /\ \A x \in u : x = "nothing" \/ x \in om \/ HeardBy(k, s, x) \/ In(x, q)
  /\ \A i \in 1..Len(q) : q[i] # "refusal" =>
       /\ q[i] \in Announced(k) \ om
       /\ \A x \in Earlier(k, q[i]) \ om : HeardBy(k, s, x) \/ \E j \in 1..i - 1 : q[j] = x
  /\ \A i \in 1..Len(q) : q[i] = "done" => i = Len(q)
  /\ Closed(s) \/ In("done", q) => "done" \in u
  /\ Closed(s) => q = <<>>

LEMMA HearsNothing == ASSUME NEW k, NEW om, NEW s, ~Closed(s) PROVE Hears(k, om, s, <<>>, {})
BY InNothing DEF Hears

LEMMA HearsMore ==
  ASSUME NEW k, NEW om, NEW s, NEW q, NEW u, Hears(k, om, s, q, u), NEW x, x = "nothing" \/ x \in om
  PROVE  Hears(k, om, s, q, u \cup {x})
BY DEF Hears

LEMMA Appended ==
  ASSUME NEW S, NEW q \in Seq(S), NEW x \in S
  PROVE  LET r == q \o <<x>>
         IN /\ r \in Seq(S) /\ Len(r) = Len(q) + 1 /\ Len(q) \in Nat /\ r[Len(q) + 1] = x
            /\ \A i \in 1..Len(q) : r[i] = q[i]
            /\ \A y : In(y, r) <=> In(y, q) \/ y = x
<1> DEFINE r == q \o <<x>>
<1>1. <<x>> \in Seq(S) /\ Len(<<x>>) = 1 /\ <<x>>[1] = x OBVIOUS
<1>2. r \in Seq(S) /\ Len(r) = Len(q) + 1 /\ Len(q) \in Nat /\ r[Len(q) + 1] = x
      /\ \A i \in 1..Len(q) : r[i] = q[i]
  OBVIOUS
<1>3. ASSUME NEW y PROVE In(y, r) <=> In(y, q) \/ y = x
  <2>1. In(y, <<x>>) <=> y = x
    <3>1. \A i \in 1..1 : i = 1 OBVIOUS
    <3>2. 1 \in 1..1 OBVIOUS
    <3> QED BY <1>1, <3>1, <3>2 DEF In
  <2>2. In(y, r) <=> In(y, q) \/ In(y, <<x>>) BY <1>1, InConcat
  <2> QED BY <2>1, <2>2
<1> QED BY <1>2, <1>3

LEMMA HearsRefusal ==
  ASSUME NEW k, NEW om, NEW s, NEW q \in Seq(SpokenLines), NEW u, Hears(k, om, s, q, u), "done" \notin u
  PROVE  Hears(k, om, s, q \o <<"refusal">>, u)
<1> DEFINE r == q \o <<"refusal">>
<1>1. "refusal" \in SpokenLines BY DEF SpokenLines
<1>2. /\ r \in Seq(SpokenLines) /\ Len(r) = Len(q) + 1 /\ Len(q) \in Nat /\ r[Len(q) + 1] = "refusal"
      /\ \A i \in 1..Len(q) : r[i] = q[i]
      /\ \A y : In(y, r) <=> In(y, q) \/ y = "refusal"
  BY <1>1, Appended
<1> HIDE DEF r
<1>3. \A i \in 1..Len(r) : i \in 1..Len(q) \/ i = Len(q) + 1 BY <1>2
<1>4. ~In("done", q) /\ ~Closed(s) BY DEF Hears
<1>5. \A x \in u : x = "nothing" \/ x \in om \/ HeardBy(k, s, x) \/ In(x, r) BY <1>2 DEF Hears
<1>6. ASSUME NEW i \in 1..Len(r), r[i] # "refusal"
      PROVE  /\ r[i] \in Announced(k) \ om
             /\ \A x \in Earlier(k, r[i]) \ om : HeardBy(k, s, x) \/ \E j \in 1..i - 1 : r[j] = x
  <2>1. i \in 1..Len(q) /\ r[i] = q[i] BY <1>2, <1>3, <1>6
  <2>2. \A j \in 1..i - 1 : r[j] = q[j] BY <1>2, <2>1
  <2> QED BY <1>6, <2>1, <2>2 DEF Hears
<1>7. \A i \in 1..Len(r) : r[i] # "done" BY <1>2, <1>4 DEF In
<1>8. ~In("done", r) BY <1>2, <1>4
<1>9. Hears(k, om, s, r, u) BY <1>4, <1>5, <1>6, <1>7, <1>8 DEF Hears
<1> QED BY <1>9 DEF r

LEMMA HearsSaid ==
  ASSUME NEW k, NEW om, NEW s, NEW q \in Seq(SpokenLines), NEW u, Hears(k, om, s, q, u),
         NEW x \in Sayings, x \in Announced(k) \ om, "done" \notin u, Earlier(k, x) \subseteq u
  PROVE  Hears(k, om, s, q \o <<x>>, u \cup {x})
<1> DEFINE r == q \o <<x>>
<1>1. x \in SpokenLines BY DEF SpokenLines
<1>2. /\ r \in Seq(SpokenLines) /\ Len(r) = Len(q) + 1 /\ Len(q) \in Nat /\ r[Len(q) + 1] = x
      /\ \A i \in 1..Len(q) : r[i] = q[i]
      /\ \A y : In(y, r) <=> In(y, q) \/ y = x
  BY <1>1, Appended
<1> HIDE DEF r
<1>3. \A i \in 1..Len(r) : i \in 1..Len(q) \/ i = Len(q) + 1 BY <1>2
<1>4. ~In("done", q) /\ ~Closed(s) BY DEF Hears
<1>5. \A y \in u \cup {x} : y = "nothing" \/ y \in om \/ HeardBy(k, s, y) \/ In(y, r) BY <1>2 DEF Hears
<1>6. ASSUME NEW i \in 1..Len(r), r[i] # "refusal"
      PROVE  /\ r[i] \in Announced(k) \ om
             /\ \A y \in Earlier(k, r[i]) \ om : HeardBy(k, s, y) \/ \E j \in 1..i - 1 : r[j] = y
  <2>1. CASE i \in 1..Len(q)
    <3>1. r[i] = q[i] BY <1>2, <2>1
    <3>2. \A j \in 1..i - 1 : r[j] = q[j] BY <1>2, <2>1
    <3> QED BY <1>6, <2>1, <3>1, <3>2 DEF Hears
  <2>2. CASE i = Len(q) + 1
    <3>1. r[i] = x /\ i - 1 = Len(q) BY <1>2, <2>2
    <3>2. ASSUME NEW y \in Earlier(k, x) \ om PROVE HeardBy(k, s, y) \/ \E j \in 1..Len(q) : r[j] = y
      <4>1. y \in u /\ y # "nothing" BY <3>2 DEF Earlier, Announced
      <4>2. HeardBy(k, s, y) \/ In(y, q) BY <3>2, <4>1 DEF Hears
      <4> QED BY <1>2, <4>2 DEF In
    <3> QED BY <3>1, <3>2
  <2> QED BY <1>3, <2>1, <2>2
<1>7. \A i \in 1..Len(r) : r[i] = "done" => i = Len(r)
  <2> SUFFICES ASSUME NEW i \in 1..Len(r), r[i] = "done" PROVE i = Len(r) OBVIOUS
  <2>1. i \notin 1..Len(q) BY <1>2, <1>4 DEF In
  <2> QED BY <1>2, <1>3, <2>1
<1>8. In("done", r) => "done" \in u \cup {x} BY <1>2, <1>4
<1>9. Hears(k, om, s, r, u \cup {x}) BY <1>4, <1>5, <1>6, <1>7, <1>8 DEF Hears
<1> QED BY <1>9 DEF r

(* The first line is one whose forerunners are heard, and it is read.      *)
LEMMA HearsHead ==
  ASSUME NEW k, NEW om, NEW s, NEW q \in Seq(SpokenLines), q # <<>>, NEW u, Hears(k, om, s, q, u)
  PROVE  /\ ~Closed(s)
         /\ Head(q) # "refusal" => Head(q) \in Announced(k) \ om
                                   /\ \A x \in Earlier(k, Head(q)) \ om : HeardBy(k, s, x)
<1>1. 1 \in 1..Len(q) /\ Head(q) = q[1] OBVIOUS
<1>2. \A j \in 1..1 - 1 : FALSE OBVIOUS
<1> QED BY <1>1, <1>2 DEF Hears

LEMMA HearsRead ==
  ASSUME NEW k, NEW om, NEW s, NEW q \in Seq(SpokenLines), q # <<>>, NEW u \in SUBSET Sayings,
         Hears(k, om, s, q, u), NEW t,
         \A y : HeardBy(k, s, y) => HeardBy(k, t, y),
         \/ Head(q) = "refusal" /\ t = s
         \/ HeardBy(k, t, Head(q)) /\ (Closed(t) => Head(q) = "done")
  PROVE  Hears(k, om, t, Tail(q), u)
<1> DEFINE r == Tail(q)
<1>1. /\ Len(r) = Len(q) - 1 /\ Len(q) \in Nat \ {0} /\ Head(q) = q[1] /\ r \in Seq(SpokenLines)
      /\ \A i \in 1..Len(r) : r[i] = q[i + 1]
  OBVIOUS
<1>2. \A x : In(x, q) <=> x = Head(q) \/ In(x, r) BY InTail
<1> HIDE DEF r
<1>3. ~Closed(s) BY HearsHead
<1>4. \A x \in u : x = "nothing" \/ x \in om \/ HeardBy(k, t, x) \/ In(x, r)
  <2> SUFFICES ASSUME NEW x \in u, x # "nothing", x \notin om PROVE HeardBy(k, t, x) \/ In(x, r) OBVIOUS
  <2>0. x \in Sayings OBVIOUS
  <2>1. x # "refusal" BY <2>0 DEF Sayings
  <2>2. HeardBy(k, s, x) \/ In(x, q) BY DEF Hears
  <2> QED BY <1>2, <2>1, <2>2
<1>5. ASSUME NEW i \in 1..Len(r), r[i] # "refusal"
      PROVE  /\ r[i] \in Announced(k) \ om
             /\ \A x \in Earlier(k, r[i]) \ om : HeardBy(k, t, x) \/ \E j \in 1..i - 1 : r[j] = x
  <2>1. i + 1 \in 1..Len(q) /\ q[i + 1] = r[i] /\ (i + 1) - 1 = i /\ i \in Nat BY <1>1
  <2>2. /\ r[i] \in Announced(k) \ om
        /\ \A x \in Earlier(k, r[i]) \ om : HeardBy(k, s, x) \/ \E j \in 1..i : q[j] = x
    <3> DEFINE n == i + 1
    <3>1. n \in 1..Len(q) /\ q[n] = r[i] /\ n - 1 = i BY <2>1
    <3> HIDE DEF n
    <3>2. /\ q[n] \in Announced(k) \ om
          /\ \A x \in Earlier(k, q[n]) \ om : HeardBy(k, s, x) \/ \E j \in 1..n - 1 : q[j] = x
      BY <1>5, <3>1 DEF Hears
    <3> QED BY <3>1, <3>2
  <2>3. ASSUME NEW x \in Earlier(k, r[i]) \ om, ~HeardBy(k, t, x) PROVE \E j \in 1..i - 1 : r[j] = x
    <3>1. ~HeardBy(k, s, x) BY <2>3
    <3>2. PICK j \in 1..i : q[j] = x BY <2>2, <2>3, <3>1
    <3>3. x # "refusal" BY <2>3 DEF Earlier, Announced
    <3>4. j # 1 BY <1>1, <2>3, <3>2, <3>3
    <3>5. j - 1 \in 1..i - 1 /\ j - 1 \in 1..Len(r) /\ (j - 1) + 1 = j BY <1>1, <2>1, <3>2, <3>4
    <3>6. r[j - 1] = x BY <1>1, <3>2, <3>5
    <3> QED BY <3>5, <3>6
  <2> QED BY <2>2, <2>3
<1>6. \A i \in 1..Len(r) : r[i] = "done" => i = Len(r)
  <2> SUFFICES ASSUME NEW i \in 1..Len(r), r[i] = "done" PROVE i = Len(r) OBVIOUS
  <2>1. i + 1 \in 1..Len(q) /\ q[i + 1] = "done" BY <1>1
  <2>2. i + 1 = Len(q) BY <2>1 DEF Hears
  <2> QED BY <1>1, <2>2
<1>7. Closed(t) => Head(q) = "done" BY <1>3
<1>8. Closed(t) \/ In("done", r) => "done" \in u BY <1>2, <1>7 DEF Hears
<1>9. Closed(t) => r = <<>>
  <2> SUFFICES ASSUME Head(q) = "done" PROVE r = <<>> BY <1>7
  <2>1. 1 \in 1..Len(q) /\ q[1] = "done" BY <1>1
  <2>2. Len(q) = 1 BY <2>1 DEF Hears
  <2> QED BY <1>1, <2>2
<1>10. Hears(k, om, t, r, u) BY <1>4, <1>5, <1>6, <1>8, <1>9 DEF Hears
<1> QED BY <1>10 DEF r

LEMMA ImageReads ==
  ASSUME NEW k \in UbuntuKinds, NEW om, om \subseteq ImageNames \ {"create-tarball"}, NEW s, Tracks(k, om, s),
         NEW q \in Seq(SpokenLines), q # <<>>, NEW u \in SUBSET Sayings, Hears(k, om, s, q, u)
  PROVE  Tracks(k, om, HandleLine(s, Head(q))) /\ Hears(k, om, HandleLine(s, Head(q)), Tail(q), u)
<1> DEFINE x == Head(q)
           t == HandleLine(s, x)
<1>1. /\ ~Closed(s)
      /\ x # "refusal" => x \in Announced(k) \ om /\ \A y \in Earlier(k, x) \ om : HeardBy(k, s, y)
  BY HearsHead
<1>2. CASE x = "refusal"
  <2>1. x \notin ToSet(ImagePhases) /\ x # "done" BY <1>2, Ranks DEF ImageNames, Basics
  <2>2. t = s BY <2>1 DEF HandleLine
  <2> QED BY <1>2, <2>2, HearsRead
<1>3. CASE x # "refusal"
  <2> HIDE DEF x, t
  <2>1. /\ Tracks(k, om, HandleLine(s, x)) /\ HeardBy(k, HandleLine(s, x), x)
        /\ \A y : HeardBy(k, s, y) => HeardBy(k, HandleLine(s, x), y)
        /\ Closed(HandleLine(s, x)) => x = "done"
    BY <1>1, <1>3, HandleKeeps
  <2> QED BY <2>1, HearsRead DEF x, t
<1> QED BY <1>2, <1>3

LEMMA MkosiReads ==
  ASSUME NEW k \in FedoraKinds, k \in ValidKinds, NEW s, Follows(k, s),
         NEW q \in Seq(SpokenLines), q # <<>>, NEW u \in SUBSET Sayings, Hears(k, {}, s, q, u)
  PROVE  Follows(k, MkosiLine(PhasesOf(k), s, Head(q))) /\ Hears(k, {}, MkosiLine(PhasesOf(k), s, Head(q)), Tail(q), u)
<1> DEFINE x == Head(q)
           t == MkosiLine(PhasesOf(k), s, x)
<1>1. x # "refusal" => x \in Announced(k) /\ \A y \in Earlier(k, x) : HeardBy(k, s, y) BY HearsHead
<1>2. CASE x = "refusal"
  <2>1. t = s BY <1>2 DEF MkosiLine
  <2> QED BY <1>2, <2>1, HearsRead
<1>3. CASE x # "refusal"
  <2> HIDE DEF x, t
  <2>1. /\ Follows(k, MkosiLine(PhasesOf(k), s, x)) /\ HeardBy(k, MkosiLine(PhasesOf(k), s, x), x)
        /\ \A y : HeardBy(k, s, y) => HeardBy(k, MkosiLine(PhasesOf(k), s, x), y)
    BY <1>1, <1>3, MkosiKeeps
  <2>2. ~Closed(MkosiLine(PhasesOf(k), s, x)) BY <2>1 DEF Follows, Closed
  <2> QED BY <2>1, <2>2, HearsRead DEF x, t
<1> QED BY <1>2, <1>3

LEMMA Grouped ==
  ASSUME NEW S, NEW q \in Seq(S), NEW a \in Seq(S), NEW b \in Seq(S)
  PROVE  q \o (a \o b) = (q \o a) \o b
<1> DEFINE x == q \o (a \o b)
           y == (q \o a) \o b
           l == Len(q)
           m == Len(a)
           n == Len(b)
<1>1. l \in Nat /\ m \in Nat /\ n \in Nat OBVIOUS
<1>2. a \o b \in Seq(S) /\ Len(a \o b) = m + n /\ (\A i \in 1..m : (a \o b)[i] = a[i])
      /\ \A i \in 1..n : (a \o b)[m + i] = b[i]
  OBVIOUS
<1>3. q \o a \in Seq(S) /\ Len(q \o a) = l + m /\ (\A i \in 1..l : (q \o a)[i] = q[i])
      /\ \A i \in 1..m : (q \o a)[l + i] = a[i]
  OBVIOUS
<1>4. x \in Seq(S) /\ Len(x) = l + (m + n) /\ (\A i \in 1..l : x[i] = q[i])
      /\ \A i \in 1..m + n : x[l + i] = (a \o b)[i]
  BY <1>2
<1>5. y \in Seq(S) /\ Len(y) = (l + m) + n /\ (\A i \in 1..l + m : y[i] = (q \o a)[i])
      /\ \A i \in 1..n : y[(l + m) + i] = b[i]
  BY <1>3
<1> HIDE DEF x, y, l, m, n
<1>6. ASSUME NEW i \in 1..Len(x) PROVE x[i] = y[i]
  <2>1. CASE i <= l
    <3>1. i \in 1..l /\ i \in 1..l + m BY <1>1, <2>1
    <3> QED BY <1>3, <1>4, <1>5, <3>1
  <2>2. CASE l < i /\ i <= l + m
    <3>1. i - l \in 1..m /\ i - l \in 1..m + n /\ i \in 1..l + m /\ l + (i - l) = i BY <1>1, <2>2
    <3>2. x[i] = a[i - l] BY <1>2, <1>4, <3>1
    <3>3. y[i] = a[i - l] BY <1>3, <1>5, <3>1
    <3> QED BY <3>2, <3>3
  <2>3. CASE l + m < i
    <3> DEFINE j == i - (l + m)
    <3>1. j \in 1..n /\ m + j \in 1..m + n /\ l + (m + j) = i /\ (l + m) + j = i BY <1>1, <1>4, <2>3
    <3> HIDE DEF j
    <3>2. x[i] = b[j] BY <1>2, <1>4, <3>1
    <3>3. y[i] = b[j] BY <1>5, <3>1
    <3> QED BY <3>2, <3>3
  <2> QED BY <1>1, <1>4, <2>1, <2>2, <2>3
<1>7. Len(x) = Len(y) BY <1>1, <1>4, <1>5
<1>8. x = y BY <1>4, <1>5, <1>6, <1>7, SeqEqual
<1> QED BY <1>8 DEF x, y

(* What a step of the way writes is heard after what is on its way.        *)
LEMMA HearsStep ==
  ASSUME NEW k, NEW om, NEW s, NEW q \in Seq(SpokenLines), NEW u \in SUBSET Sayings, Hears(k, om, s, q, u),
         NEW says \in Sayings, Speaks(k, says, u), NEW refusal \in BOOLEAN, refusal => u = {},
         NEW r, r = (IF refusal THEN <<"refusal">> ELSE <<>>)
                    \o (IF says = "nothing" \/ says \in om THEN <<>> ELSE <<says>>)
  PROVE  Hears(k, om, s, q \o r, u \cup {says})
<1> DEFINE a == IF refusal THEN <<"refusal">> ELSE <<>>
           b == IF says = "nothing" \/ says \in om THEN <<>> ELSE <<says>>
           q2 == q \o a
<1>1. says \in SpokenLines /\ "refusal" \in SpokenLines BY DEF SpokenLines
<1>2. a \in Seq(SpokenLines) /\ b \in Seq(SpokenLines) /\ r = a \o b BY <1>1
<1>3. Hears(k, om, s, q2, u) /\ q2 \in Seq(SpokenLines)
  <2>1. CASE refusal
    <3>1. q2 = q \o <<"refusal">> BY <2>1
    <3>2. q2 \in Seq(SpokenLines) BY <1>2
    <3> HIDE DEF q2
    <3> QED BY <2>1, <3>1, <3>2, HearsRefusal
  <2>2. CASE ~refusal
    <3>1. q2 = q BY <2>2
    <3> HIDE DEF q2
    <3> QED BY <3>1
  <2> QED BY <2>1, <2>2
<1>4. q \o r = q2 \o b
  <2> HIDE DEF a, b
  <2>1. a \in Seq(SpokenLines) /\ b \in Seq(SpokenLines) BY <1>2
  <2>2. q \o (a \o b) = (q \o a) \o b BY <2>1, Grouped
  <2> QED BY <1>2, <2>2
<1> HIDE DEF q2
<1>5. CASE says = "nothing" \/ says \in om
  <2>1. q2 \o b = q2 BY <1>3, <1>5
  <2> QED BY <1>3, <1>4, <1>5, <2>1, HearsMore
<1>6. CASE ~(says = "nothing" \/ says \in om)
  <2>1. q2 \o b = q2 \o <<says>> BY <1>6
  <2>2. says \in Announced(k) \ om /\ "done" \notin u /\ Earlier(k, says) \subseteq u BY <1>6 DEF Speaks
  <2>3. Hears(k, om, s, q2 \o <<says>>, u \cup {says}) BY <1>3, <2>2, HearsSaid
  <2> QED BY <1>4, <2>1, <2>3
<1> QED BY <1>5, <1>6

-----------------------------------------------------------------------------
(* The phases around those of the image's program.                         *)
LEMMA ListedOrds ==
  ASSUME NEW k \in ValidKinds
  PROVE  /\ Ord(k, "verify-vendored") = 1 /\ Ord(k, LockPhase(k)) = 13 /\ Ord(k, "place") = 14
         /\ Ord(k, "make-tools-tree") = (IF Fedora(k) THEN 3 ELSE 2)
         /\ Ord(k, "prepare-repository") = (IF Fedora(k) THEN 2 ELSE 3) /\ Ord(k, "assemble-disk") = 12
         /\ \A q \in Listing(k) :
              /\ Ord(k, q) = 1 => k.offline /\ q = "verify-vendored"
              /\ Ord(k, q) = 2 /\ ~Fedora(k) => Disk(k) /\ q = "make-tools-tree"
              /\ Ord(k, q) = 3 /\ ~Fedora(k) => k.offline /\ q = "prepare-repository"
              /\ Ord(k, q) = 2 /\ Fedora(k) => k.offline /\ q = "prepare-repository"
              /\ Ord(k, q) = 3 /\ Fedora(k) => q = "make-tools-tree"
              /\ Ord(k, q) = 12 => Disk(k) /\ ~Fedora(k) /\ q = "assemble-disk"
              /\ Ord(k, q) = 13 => q = LockPhase(k)
              /\ Ord(k, q) = 14 => q = "place"
<1>1. Fedora(k) \in BOOLEAN /\ Disk(k) \in BOOLEAN /\ k.offline \in BOOLEAN BY ValidKind, KindFields
<1>2. /\ Ord(k, "update-index") = 4 /\ Ord(k, "download") = 5 /\ Ord(k, "extract") = 6
      /\ Ord(k, "install-essential") = 7 /\ Ord(k, "install-requested") = 8 /\ Ord(k, "provision") = 9
      /\ Ord(k, "install-python") = 10 /\ Ord(k, "create-tarball") = 11
      /\ Ord(k, "verify-vendored") = 1 /\ Ord(k, "make-tools-tree") = (IF Fedora(k) THEN 3 ELSE 2)
      /\ Ord(k, "prepare-repository") = (IF Fedora(k) THEN 2 ELSE 3)
      /\ Ord(k, "assemble-disk") = 12 /\ Ord(k, LockPhase(k)) = 13 /\ Ord(k, "place") = 14
  BY DEF Ord, LockPhase
<1> HIDE DEF Ord
<1>3. ASSUME NEW q \in Listing(k)
      PROVE  \/ q \in {"update-index", "download", "extract", "install-essential", "install-requested", "provision",
                       "install-python", "create-tarball", LockPhase(k), "place"}
             \/ q \in {"verify-vendored", "prepare-repository"} /\ k.offline
             \/ q = "make-tools-tree" /\ (Fedora(k) \/ Disk(k))
             \/ q = "assemble-disk" /\ ~Fedora(k) /\ Disk(k)
  BY <1>1, <1>3 DEF Listing
<1>4. ASSUME NEW q \in Listing(k)
      PROVE  /\ Ord(k, q) = 1 => k.offline /\ q = "verify-vendored"
             /\ Ord(k, q) = 2 /\ ~Fedora(k) => Disk(k) /\ q = "make-tools-tree"
             /\ Ord(k, q) = 3 /\ ~Fedora(k) => k.offline /\ q = "prepare-repository"
             /\ Ord(k, q) = 2 /\ Fedora(k) => k.offline /\ q = "prepare-repository"
             /\ Ord(k, q) = 3 /\ Fedora(k) => q = "make-tools-tree"
             /\ Ord(k, q) = 12 => Disk(k) /\ ~Fedora(k) /\ q = "assemble-disk"
             /\ Ord(k, q) = 13 => q = LockPhase(k)
             /\ Ord(k, q) = 14 => q = "place"
  <2>1. CASE q \in {"update-index", "download", "extract", "install-essential", "install-requested", "provision",
                    "install-python", "create-tarball", LockPhase(k), "place"}
    BY <1>2, <2>1
  <2>2. CASE q \in {"verify-vendored", "prepare-repository"} /\ k.offline BY <1>1, <1>2, <2>2
  <2>3. CASE q = "make-tools-tree" /\ (Fedora(k) \/ Disk(k)) BY <1>1, <1>2, <2>3
  <2>4. CASE q = "assemble-disk" /\ ~Fedora(k) /\ Disk(k) BY <1>2, <2>4
  <2> QED BY <1>3, <2>1, <2>2, <2>3, <2>4
<1> QED BY <1>2, <1>4

LEMMA ProgramNames ==
  ASSUME NEW k \in ValidKinds, NEW n \in 1..Len(Programs(k))
  PROVE  NameAt(k, n) \in {"tools-tree", "image", "tool", "createrepo", "mkosi-tools", "mkosi", "gzip"}
<1>1. \A name, steps : Program(name, steps).name = name BY DEF Program
<1> QED BY <1>1, ThePlan DEF NameAt, ToolsAt, ImageOf, ToolAt, RepoAt, MkosiToolsAt, MkosiAt, GzipAt

(* A step from one place of the list to the next, over a phase that is     *)
(* listed or not.                                                          *)
LEMMA ShowsNext ==
  ASSUME NEW k, NEW om, NEW d \in 1..14, NEW t, Shows(k, om, d, t), NEW p, Ord(k, p) = d,
         \A q \in Listing(k) : Ord(k, q) = d => q = p
  PROVE  Shows(k, om, d + 1, Finished(t, p))
<1> DEFINE e == d + 1
<1>1. d \in 1..15 /\ e \in 1..15 /\ d <= e OBVIOUS
<1>2. ASSUME NEW q \in Listing(k), d <= Ord(k, q), Ord(k, q) < e PROVE q = p
  <2>1. Ord(k, q) \in 1..14 BY OrdNat
  <2>2. Ord(k, q) = d BY <1>2, <2>1
  <2> QED BY <2>2
<1> HIDE DEF e
<1>3. Shows(k, om, e, Finished(t, p)) BY <1>1, <1>2, ShowsEnded
<1> QED BY <1>3 DEF e

LEMMA ShowsOver ==
  ASSUME NEW k, NEW om, NEW d \in 1..14, NEW t, Shows(k, om, d, t), \A q \in Listing(k) : Ord(k, q) # d
  PROVE  Shows(k, om, d + 1, t)
<1> DEFINE e == d + 1
<1>1. d \in 1..15 /\ e \in 1..15 /\ d <= e OBVIOUS
<1>2. ASSUME NEW q \in Listing(k) PROVE ~(d <= Ord(k, q) /\ Ord(k, q) < e)
  <2>1. Ord(k, q) \in 1..14 BY OrdNat
  <2> QED BY <1>2, <2>1
<1> HIDE DEF e
<1>3. Shows(k, om, e, t) BY <1>1, <1>2, ShowsGap
<1> QED BY <1>3 DEF e

LEMMA ShowsNew ==
  ASSUME NEW k \in ValidKinds, NEW om
  PROVE  /\ Shows(k, om, 1, NewParser(PhasesOf(k)).table)
         /\ NewParser(PhasesOf(k)) \in Parsers(k)
         /\ NewParser(PhasesOf(k)) = [current |-> "update-index", running |-> FALSE, table |-> NewParser(PhasesOf(k)).table]
<1> DEFINE t == EmptyTable(PhasesOf(k))
<1>1. ToSet(PhasesOf(k)) = Listing(k) BY ListRises DEF Rising
<1>2. t = [p \in Listing(k) |-> "pending"] BY <1>1 DEF EmptyTable
<1> HIDE DEF t
<1>3. t \in [Listing(k) -> Statuses] /\ \A q \in Listing(k) : t[q] = "pending" BY <1>2 DEF Statuses
<1>4. \A q : Ord(k, q) \in 1..14 BY OrdNat
<1>5. Shows(k, om, 1, t) BY <1>3, <1>4 DEF Shows
<1>6. NewParser(PhasesOf(k)) = [current |-> "update-index", running |-> FALSE, table |-> t]
  BY DEF NewParser, t
<1>7. "update-index" \in Moments BY DEF Moments, ImageNames, Basics
<1> QED BY <1>3, <1>5, <1>6, <1>7 DEF Parsers

-----------------------------------------------------------------------------
(* How far the display of a build has come, by the program that is next or *)
(* runs, and what of its lines is heard.                                   *)
Pointed(k, om, name, p, started) ==
  /\ name = "tools-tree" => Shows(k, om, 2, p.table)
  /\ name = "createrepo" => Shows(k, om, IF started THEN 3 ELSE 2, p.table)
  /\ name = "mkosi-tools" => /\ Shows(k, om, 3, p.table)
                             /\ started => ~p.running /\ p.current = "make-tools-tree"
  /\ name = "image" => IF started THEN Tracks(k, om, p) ELSE Shows(k, om, 3, p.table)
  /\ name = "mkosi" => Follows(k, p)
  /\ name = "tool" => Shows(k, om, 12, p.table)
  /\ name = "gzip" => Follows(k, p) /\ p.current = "create-tarball"
Heard(k, om, n, i, im, g, p, q) ==
  IF Ships(NameAt(k, n))
  THEN \E l : Walks(k, n, i, im, g, l) /\ Hears(k, om, p, q, l[i].said)
  ELSE NameAt(k, n) = "tools-tree" \/ q = <<>>
Shown(d) == Shows(kind, omits, d, parser.table)
Display ==
  /\ parser \in Parsers(kind)
  /\ Fedora(kind) => omits = {}
  /\ stage = "verify" => kind.offline /\ Shown(1)
  /\ stage = "programs" => Pointed(kind, omits, NameAt(kind, program), parser, process # "none")
  /\ stage = "programs" /\ process # "none" => Heard(kind, omits, program, at, image, given, parser, pipe)
  /\ stage = "records" => Shown(13)
  /\ stage = "clean" => Shown(IF Fedora(kind) THEN 13 ELSE 14)
  /\ stage = "place" => Shown(14)
  /\ stage \in {"failing", "over"} => \E d \in 1..15 : Shown(d)
  /\ verdict = "placed" => Shown(15)
DisplayInv == BootInv /\ Display

LEMMA NamesTell ==
  ASSUME NEW k \in ValidKinds, NEW n \in 1..Len(Programs(k))
  PROVE  /\ Fedora(k) => k \in FedoraKinds /\ ~Disk(k)
         /\ ~Fedora(k) => k \in UbuntuKinds
         /\ NameAt(k, n) \in {"tools-tree", "image", "tool", "createrepo", "mkosi-tools", "mkosi", "gzip"}
         /\ Fedora(k) <=> NameAt(k, n) \in {"createrepo", "mkosi-tools", "mkosi", "gzip"}
         /\ NameAt(k, n) = "createrepo" => k.offline
         /\ NameAt(k, n) \in {"tools-tree", "tool"} => Disk(k)
<1> DEFINE name == NameAt(k, n)
<1>1. Fedora(k) => ~Disk(k) BY ValidKind DEF FedoraKinds, FedoraSupported, Disk
<1>2. name \in {"tools-tree", "image", "tool", "createrepo", "mkosi-tools", "mkosi", "gzip"}
  BY ProgramNames
<1>3. /\ name = "image" => ~Fedora(k)
      /\ name = "tools-tree" => ~Fedora(k) /\ Disk(k)
      /\ name = "tool" => ~Fedora(k) /\ n > ImageIndex(k)
      /\ name = "createrepo" => Fedora(k) /\ k.offline
      /\ name = "mkosi-tools" => Fedora(k)
      /\ name = "mkosi" => Fedora(k)
      /\ name = "gzip" => Fedora(k)
  BY NameFacts
<1> HIDE DEF name
<1>4. name = "tool" => Disk(k)
  <2> SUFFICES ASSUME name = "tool", ~Disk(k) PROVE FALSE OBVIOUS
  <2>1. ~Fedora(k) /\ n > ImageIndex(k) BY <1>3
  <2>2. Len(Programs(k)) = 1 /\ ImageIndex(k) = 1 BY <2>1, ThePlan DEF ImageIndex
  <2> QED BY <2>1, <2>2
<1> QED BY <1>1, <1>2, <1>3, <1>4, ValidKind DEF name

LEMMA OmitsTell ==
  ASSUME omits \subseteq Omitted
  PROVE  omits \subseteq ImageNames \ {"create-tarball"}
BY OmittedAssumption, Ranks

LEMMA Somewhere ==
  ASSUME NEW k \in ValidKinds, NEW om, Fedora(k) => om = {}, NEW n \in 1..Len(Programs(k)), NEW p, NEW started \in BOOLEAN,
         Pointed(k, om, NameAt(k, n), p, started)
  PROVE  \E d \in 1..15 : Shows(k, om, d, p.table)
<1> DEFINE name == NameAt(k, n)
<1>1. /\ name \in {"tools-tree", "image", "tool", "createrepo", "mkosi-tools", "mkosi", "gzip"}
      /\ name \in {"mkosi", "gzip"} => om = {}
  BY ProgramNames, NameFacts
<1> HIDE DEF name
<1>2. CASE name \in {"mkosi", "gzip"}
  <2>1. Follows(k, p) /\ om = {} BY <1>1, <1>2 DEF Pointed, name
  <2>2. Ord(k, p.current) \in 1..15
    <3>1. Ord(k, p.current) \in 1..14 BY OrdNat
    <3> QED BY <3>1
  <2> QED BY <2>1, <2>2 DEF Follows
<1>3. CASE name = "image" /\ started
  <2>1. Tracks(k, om, p) BY <1>3 DEF Pointed, name
  <2>2. DepthOf(k, p) \in 1..15
    <3>1. Ord(k, p.current) \in 1..14 BY OrdNat
    <3> QED BY <3>1 DEF DepthOf
  <2> QED BY <2>1, <2>2 DEF Tracks
<1>4. CASE name \notin {"mkosi", "gzip"} /\ ~(name = "image" /\ started)
  <2>1. 2 \in 1..15 /\ 3 \in 1..15 /\ 12 \in 1..15 OBVIOUS
  <2>2. Pointed(k, om, name, p, started) BY DEF name
  <2> QED BY <1>1, <1>4, <2>1, <2>2 DEF Pointed
<1> QED BY <1>2, <1>3, <1>4

LEMMA DisplayGoesForward == DisplayInv => PhasesGoForward
<1> SUFFICES ASSUME DisplayInv PROVE PhasesGoForward OBVIOUS
<1>1. BootInv /\ Display BY DEF DisplayInv
<1>2. kind \in ValidKinds /\ program \in 1..Len(Programs(kind)) BY <1>1 DEF BootInv, Typed
<1>3. \E d \in 1..15 : Shown(d) /\ (verdict = "placed" => d = 15)
  <2>1. 13 \in 1..15 /\ 14 \in 1..15 /\ 15 \in 1..15 /\ 1 \in 1..15 OBVIOUS
  <2>2. CASE verdict = "placed" BY <1>1, <2>1, <2>2 DEF Display
  <2>3. CASE verdict # "placed" /\ stage = "programs"
    <3>1. Pointed(kind, omits, NameAt(kind, program), parser, process # "none") /\ (process # "none") \in BOOLEAN
      BY <1>1, <2>3 DEF Display
    <3>2. Fedora(kind) => omits = {} BY <1>1 DEF Display
    <3>3. \E d \in 1..15 : Shows(kind, omits, d, parser.table) BY <1>2, <3>1, <3>2, Somewhere
    <3> QED BY <2>3, <3>3 DEF Shown
  <2>4. CASE verdict # "placed" /\ stage # "programs"
    <3>1. stage \in {"verify", "clean", "records", "place", "failing", "over"}
      BY <1>1, <2>4 DEF BootInv, Typed
    <3> QED BY <1>1, <2>1, <2>4, <3>1 DEF Display
  <2> QED BY <2>2, <2>3, <2>4
<1>4. PICK d \in 1..15 : Shows(kind, omits, d, parser.table) /\ (verdict = "placed" => d = 15)
  BY <1>3 DEF Shown
<1> QED BY <1>2, <1>4, ShowsForward

LEMMA DisplayInit == BootstrapInit => DisplayInv
<1> SUFFICES ASSUME BootstrapInit PROVE DisplayInv OBVIOUS
<1>1. BootInv BY BootInvInit
<1>2. /\ parser = NewParser(PhasesOf(kind)) /\ program = 1 /\ process = "none" /\ verdict = "none"
      /\ stage = (IF kind.offline THEN "verify" ELSE "programs") /\ (Fedora(kind) => omits = {})
  BY DEF BootstrapInit, List
<1>3. kind \in ValidKinds /\ 1 \in 1..Len(Programs(kind)) BY <1>1, <1>2 DEF BootInv, Typed
<1>4. parser \in Parsers(kind) /\ Shown(1) BY <1>2, <1>3, ShowsNew DEF Shown
<1> DEFINE name == NameAt(kind, program)
<1>5. ASSUME ~kind.offline PROVE Pointed(kind, omits, NameAt(kind, program), parser, FALSE)
  <2>1. Shown(2)
    <3>1. \A q \in Listing(kind) : Ord(kind, q) # 1 BY <1>3, <1>5, ListedOrds
    <3>2. 1 \in 1..14 /\ 1 + 1 = 2 OBVIOUS
    <3> QED BY <1>4, <3>1, <3>2, ShowsOver DEF Shown
  <2>2. Fedora(kind) \/ ~Disk(kind) => Shown(3)
    <3> SUFFICES ASSUME Fedora(kind) \/ ~Disk(kind) PROVE Shown(3) OBVIOUS
    <3>1. \A q \in Listing(kind) : Ord(kind, q) # 2 BY <1>3, <1>5, ListedOrds
    <3>2. 2 \in 1..14 /\ 2 + 1 = 3 OBVIOUS
    <3> QED BY <2>1, <3>1, <3>2, ShowsOver DEF Shown
  <2>3. /\ name = "tools-tree" \/ name = "image" \/ name = "mkosi-tools"
        /\ name = "image" => ~Disk(kind) /\ ~Fedora(kind)
        /\ name = "mkosi-tools" => Fedora(kind)
    <3>1. ImageIndex(kind) = IF Fedora(kind) THEN 2 ELSE IF Disk(kind) THEN 2 ELSE 1
      BY <1>5 DEF ImageIndex
    <3>2. name = NameAt(kind, 1) BY <1>2
    <3>3. name \in {"tools-tree", "image", "tool", "createrepo", "mkosi-tools", "mkosi", "gzip"}
      BY <1>3, <3>2, ProgramNames
    <3>4. ~(1 > ImageIndex(kind)) /\ 1 # ImageIndex(kind) + 1 BY <3>1
    <3>5. name # "tool" /\ name # "createrepo" /\ name # "gzip" BY <1>3, <1>5, <3>2, <3>4, NameFacts
    <3>6. name # "mkosi" BY <1>3, <3>1, <3>2, NameFacts
    <3>7. (name = "image" => ~Disk(kind) /\ ~Fedora(kind)) /\ (name = "mkosi-tools" => Fedora(kind))
      BY <1>3, <3>1, <3>2, NameFacts
    <3> QED BY <3>3, <3>5, <3>6, <3>7
  <2> HIDE DEF name
  <2>4. Pointed(kind, omits, name, parser, FALSE) BY <2>1, <2>2, <2>3 DEF Pointed, Shown
  <2> QED BY <2>4 DEF name
<1>6. Display BY <1>2, <1>4, <1>5 DEF Display
<1> QED BY <1>1, <1>6 DEF DisplayInv


LEMMA VerifyShows == DisplayInv /\ VerifyPool => Display'
<1> SUFFICES ASSUME DisplayInv, VerifyPool PROVE Display' OBVIOUS
<1>1. /\ UNCHANGED <<kind, omits, program, process, at, image, given, pipe>> /\ stage = "verify"
      /\ \/ /\ parser' = [parser EXCEPT !.table = Finished(parser.table, "verify-vendored")]
            /\ stage' = "programs" /\ verdict' = verdict
         \/ /\ parser' = [parser EXCEPT !.table = Started(parser.table, "verify-vendored")]
            /\ stage' = "failing" /\ verdict' = "pool"
  BY DEF VerifyPool, Ended, Began, Table, Breaks, Fail, host, running, product
<1>2. /\ BootInv /\ Display /\ kind \in ValidKinds /\ program = 1 /\ 1 \in 1..Len(Programs(kind))
      /\ process = "none" /\ verdict = "none"
  BY <1>1 DEF DisplayInv, BootInv, Typed, Running, Judged
<1>3. /\ parser \in Parsers(kind) /\ (Fedora(kind) => omits = {}) /\ kind.offline
      /\ Shows(kind, omits, 1, parser.table)
  BY <1>1, <1>2 DEF Display, Shown
<1>4. CASE stage' = "failing"
  <2>1. 1 \in 1..15 /\ Ord(kind, "verify-vendored") = 1 BY <1>2, ListedOrds
  <2> DEFINE t == Started(parser.table, "verify-vendored")
  <2>2. Shows(kind, omits, 1, t) /\ t \in [Listing(kind) -> Statuses]
    BY <1>3, <2>1, ShowsBegan, ShowsTyped
  <2> HIDE DEF t
  <2>3. parser' = [parser EXCEPT !.table = t] BY <1>1, <1>4 DEF t
  <2>4. parser' \in Parsers(kind) /\ parser'.table = t BY <1>3, <2>2, <2>3 DEF Parsers
  <2> QED BY <1>1, <1>2, <1>3, <1>4, <2>1, <2>2, <2>4 DEF Display, Shown
<1>5. CASE stage' = "programs"
  <2> DEFINE t == Finished(parser.table, "verify-vendored")
             name == NameAt(kind, program)
  <2>1. Shows(kind, omits, 2, t)
    <3>1. /\ Ord(kind, "verify-vendored") = 1
          /\ \A q \in Listing(kind) : Ord(kind, q) = 1 => q = "verify-vendored"
      BY <1>2, ListedOrds
    <3>2. 1 \in 1..14 /\ 1 + 1 = 2 OBVIOUS
    <3> QED BY <1>3, <3>1, <3>2, ShowsNext
  <2>2. t \in [Listing(kind) -> Statuses] BY <2>1, ShowsTyped
  <2> HIDE DEF t
  <2>3. parser' = [parser EXCEPT !.table = t] BY <1>1, <1>5 DEF t
  <2>4. parser' \in Parsers(kind) /\ parser'.table = t BY <1>3, <2>2, <2>3 DEF Parsers
  <2>5. /\ name \in {"tools-tree", "image", "createrepo"}
        /\ name = "image" => ~Disk(kind) /\ ~Fedora(kind)
    <3>1. ImageIndex(kind) = (IF Fedora(kind) THEN 3 ELSE IF Disk(kind) THEN 2 ELSE 1)
      BY <1>3 DEF ImageIndex
    <3>2. name \in {"tools-tree", "image", "tool", "createrepo", "mkosi-tools", "mkosi", "gzip"}
      BY <1>2, ProgramNames
    <3>3. ~(1 > ImageIndex(kind)) /\ 1 # ImageIndex(kind) + 1 BY <3>1
    <3>4. name # "tool" /\ name # "gzip" /\ name # "mkosi" /\ name # "mkosi-tools"
      BY <1>2, <3>1, <3>3, NameFacts
    <3>5. name = "image" => ~Disk(kind) /\ ~Fedora(kind) BY <1>2, <3>1, NameFacts
    <3> HIDE DEF name
    <3> QED BY <3>2, <3>4, <3>5
  <2>6. name = "image" => Shows(kind, omits, 3, t)
    <3> SUFFICES ASSUME name = "image" PROVE Shows(kind, omits, 3, t) OBVIOUS
    <3>1. \A q \in Listing(kind) : Ord(kind, q) # 2 BY <1>2, <2>5, ListedOrds
    <3>2. 2 \in 1..14 /\ 2 + 1 = 3 OBVIOUS
    <3> QED BY <2>1, <3>1, <3>2, ShowsOver
  <2> HIDE DEF name
  <2>7. Pointed(kind, omits, name, parser', FALSE) BY <2>1, <2>4, <2>5, <2>6 DEF Pointed
  <2> QED BY <1>1, <1>2, <1>3, <1>5, <2>4, <2>7 DEF Display, name
<1> QED BY <1>1, <1>4, <1>5

LEMMA StageFailsShows == DisplayInv /\ StageFails => Display'
<1> SUFFICES ASSUME DisplayInv, StageFails PROVE Display' OBVIOUS
<1>1. /\ UNCHANGED <<kind, omits, program, process>> /\ stage = "programs" /\ process = "none" /\ StagesFirst
      /\ parser' = [parser EXCEPT !.table = Started(parser.table, "prepare-repository")]
      /\ stage' = "failing" /\ verdict' = "repository"
  BY DEF StageFails, Began, Table, Breaks, Fail, host, running, product
<1>2. BootInv /\ Display /\ kind \in ValidKinds /\ program \in 1..Len(Programs(kind))
  BY DEF DisplayInv, BootInv, Typed
<1>3. /\ parser \in Parsers(kind) /\ (Fedora(kind) => omits = {})
      /\ Pointed(kind, omits, NameAt(kind, program), parser, FALSE)
  BY <1>1, <1>2 DEF Display
<1>4. NameAt(kind, program) = IF Fedora(kind) THEN "createrepo" ELSE "image"
  BY <1>1, Derived DEF StagesFirst
<1> DEFINE d == IF Fedora(kind) THEN 2 ELSE 3
           t == Started(parser.table, "prepare-repository")
<1>5. Shows(kind, omits, d, parser.table) BY <1>3, <1>4 DEF Pointed
<1>6. d \in 1..15 /\ Ord(kind, "prepare-repository") = d BY <1>2, ListedOrds
<1> HIDE DEF d
<1>7. Shows(kind, omits, d, t) /\ t \in [Listing(kind) -> Statuses]
  BY <1>5, <1>6, ShowsBegan, ShowsTyped
<1> HIDE DEF t
<1>8. parser' = [parser EXCEPT !.table = t] BY <1>1 DEF t
<1>9. parser' \in Parsers(kind) /\ parser'.table = t BY <1>3, <1>7, <1>8 DEF Parsers
<1> QED BY <1>1, <1>3, <1>6, <1>7, <1>9 DEF Display, Shown

LEMMA StartShows == DisplayInv /\ Start => Display'
<1> SUFFICES ASSUME DisplayInv, Start PROVE Display' OBVIOUS
<1> DEFINE name   == NameAt(kind, program)
           staged == IF StagesFirst THEN Finished(parser.table, "prepare-repository") ELSE parser.table
           begun  == IF name \in {"tools-tree", "createrepo", "mkosi-tools"} THEN Started(staged, "make-tools-tree")
                     ELSE IF name = "tool" THEN Started(staged, "assemble-disk") ELSE staged
           moment == IF Fedora(kind) THEN "make-tools-tree" ELSE "update-index"
           new    == NewParser(PhasesOf(kind))
<1>1. /\ UNCHANGED <<kind, omits, program, at, image, given, pipe>> /\ stage = "programs" /\ process = "none"
      /\ \/ stage' = "failing" /\ process' = "none" /\ verdict' = "interrupted"
         \/ stage' = "programs" /\ process' = "running" /\ verdict' = verdict
  BY DEF Start, Fail, ending, host
<1>2. parser' = IF name \in {"image", "mkosi-tools"} THEN [new EXCEPT !.table = begun, !.current = moment]
                ELSE [parser EXCEPT !.table = begun]
  BY Derived DEF Start, List
<1>3. /\ BootInv /\ Display /\ kind \in ValidKinds /\ program \in 1..Len(Programs(kind))
      /\ pipe = <<>> /\ at = 1 /\ verdict = "none"
  BY <1>1 DEF DisplayInv, BootInv, Typed, Running, Judged
<1>4. /\ parser \in Parsers(kind) /\ (Fedora(kind) => omits = {}) /\ Pointed(kind, omits, name, parser, FALSE)
  BY <1>1, <1>3 DEF Display
<1>5. /\ name \in {"tools-tree", "image", "tool", "createrepo", "mkosi-tools", "mkosi", "gzip"}
      /\ Fedora(kind) <=> name \in {"createrepo", "mkosi-tools", "mkosi", "gzip"}
      /\ name = "createrepo" => kind.offline
      /\ ~Fedora(kind) => kind \in UbuntuKinds
      /\ Fedora(kind) \in BOOLEAN /\ kind.offline \in BOOLEAN
  BY <1>3, NamesTell, ValidKind, KindFields
<1>6. StagesFirst <=> name = "createrepo" \/ (name = "image" /\ kind.offline)
  <2>1. StagesFirst <=> kind.offline /\ name = (IF Fedora(kind) THEN "createrepo" ELSE "image")
    BY Derived DEF StagesFirst
  <2> HIDE DEF name
  <2> QED BY <1>5, <2>1
<1>7. new \in Parsers(kind) /\ ~new.running
  <2>1. new = [current |-> "update-index", running |-> FALSE, table |-> new.table] BY <1>3, ShowsNew
  <2>2. new.running = FALSE BY <2>1
  <2> QED BY <1>3, <2>2, ShowsNew
<1> HIDE DEF new, name, begun, moment
<1>9. ASSUME begun \in [Listing(kind) -> Statuses]
      PROVE  /\ parser' \in Parsers(kind) /\ parser'.table = begun
             /\ name \in {"image", "mkosi-tools"} => parser'.current = moment /\ ~parser'.running
             /\ name \notin {"image", "mkosi-tools"} => parser'.current = parser.current /\ parser'.running = parser.running
  <2>1. moment \in Moments BY DEF Moments, ImageNames, Basics, moment
  <2>2. CASE name \in {"image", "mkosi-tools"}
    <3>1. parser' = [new EXCEPT !.table = begun, !.current = moment] BY <1>2, <2>2
    <3>2. \A x : x = [new EXCEPT !.table = begun, !.current = moment]
                 => x \in Parsers(kind) /\ x.table = begun /\ x.current = moment /\ x.running = new.running
      BY <1>7, <1>9, <2>1 DEF Parsers
    <3> QED BY <1>7, <2>2, <3>1, <3>2
  <2>3. CASE name \notin {"image", "mkosi-tools"}
    <3>1. parser' = [parser EXCEPT !.table = begun] BY <1>2, <2>3
    <3> QED BY <1>4, <1>9, <2>3, <3>1 DEF Parsers
  <2> QED BY <2>2, <2>3
<1>10. /\ Ord(kind, "make-tools-tree") = (IF Fedora(kind) THEN 3 ELSE 2)
       /\ Ord(kind, "prepare-repository") = (IF Fedora(kind) THEN 2 ELSE 3) /\ Ord(kind, "assemble-disk") = 12
       /\ \A q \in Listing(kind) : /\ Ord(kind, q) = 2 /\ Fedora(kind) => q = "prepare-repository"
                                   /\ Ord(kind, q) = 3 /\ ~Fedora(kind) => kind.offline /\ q = "prepare-repository"
  BY <1>3, ListedOrds
<1>11. /\ parser' \in Parsers(kind) /\ Pointed(kind, omits, name, parser', TRUE)
       /\ name = "image" => parser'.current = "update-index"
  <2>1. CASE name = "tools-tree"
    <3>1. begun = Started(parser.table, "make-tools-tree") BY <1>6, <2>1 DEF begun, staged
    <3>2. Shows(kind, omits, 2, parser.table) BY <1>4, <2>1 DEF Pointed
    <3>3. 2 \in 1..15 /\ Ord(kind, "make-tools-tree") = 2 BY <1>5, <1>10, <2>1
    <3>4. Shows(kind, omits, 2, begun) BY <3>1, <3>2, <3>3, ShowsBegan
    <3>5. begun \in [Listing(kind) -> Statuses] BY <3>4, ShowsTyped
    <3>6. parser' \in Parsers(kind) /\ parser'.table = begun BY <1>9, <3>5
    <3> QED BY <2>1, <3>4, <3>6 DEF Pointed
  <2>2. CASE name = "createrepo"
    <3>1. begun = Started(Finished(parser.table, "prepare-repository"), "make-tools-tree")
      BY <1>6, <2>2 DEF begun, staged
    <3>2. Shows(kind, omits, 2, parser.table) BY <1>4, <2>2 DEF Pointed
    <3>3. Shows(kind, omits, 3, Finished(parser.table, "prepare-repository"))
      <4>1. 2 \in 1..14 /\ 2 + 1 = 3 OBVIOUS
      <4>2. Ord(kind, "prepare-repository") = 2 /\ \A q \in Listing(kind) : Ord(kind, q) = 2 => q = "prepare-repository"
        BY <1>5, <1>10, <2>2
      <4> QED BY <3>2, <4>1, <4>2, ShowsNext
    <3>4. Shows(kind, omits, 3, begun)
      <4>1. 3 \in 1..15 /\ Ord(kind, "make-tools-tree") = 3 BY <1>5, <1>10, <2>2
      <4> QED BY <3>1, <3>3, <4>1, ShowsBegan
    <3>5. begun \in [Listing(kind) -> Statuses] BY <3>4, ShowsTyped
    <3>6. parser' \in Parsers(kind) /\ parser'.table = begun BY <1>9, <3>5
    <3> QED BY <2>2, <3>4, <3>6 DEF Pointed
  <2>3. CASE name = "mkosi-tools"
    <3>1. begun = Started(parser.table, "make-tools-tree") BY <1>6, <2>3 DEF begun, staged
    <3>2. Shows(kind, omits, 3, parser.table) BY <1>4, <2>3 DEF Pointed
    <3>3. 3 \in 1..15 /\ Ord(kind, "make-tools-tree") = 3 BY <1>5, <1>10, <2>3
    <3>4. Shows(kind, omits, 3, begun) BY <3>1, <3>2, <3>3, ShowsBegan
    <3>5. begun \in [Listing(kind) -> Statuses] BY <3>4, ShowsTyped
    <3>6. parser' \in Parsers(kind) /\ parser'.table = begun /\ parser'.current = "make-tools-tree" /\ ~parser'.running
      BY <1>5, <1>9, <2>3, <3>5 DEF moment
    <3> QED BY <2>3, <3>4, <3>6 DEF Pointed
  <2>4. CASE name = "image"
    <3>2. Shows(kind, omits, 3, parser.table) BY <1>4, <2>4 DEF Pointed
    <3>3. 3 \in 1..14 /\ 3 + 1 = 4 OBVIOUS
    <3>4. ~Fedora(kind) BY <1>5, <2>4
    <3>7. Shows(kind, omits, 4, begun)
      <4>1. CASE kind.offline
        <5>1. Ord(kind, "prepare-repository") = 3 /\ \A q \in Listing(kind) : Ord(kind, q) = 3 => q = "prepare-repository"
          BY <1>10, <3>4
        <5>2. Shows(kind, omits, 4, Finished(parser.table, "prepare-repository"))
          BY <3>2, <3>3, <5>1, ShowsNext
        <5>3. begun = Finished(parser.table, "prepare-repository") BY <1>6, <2>4, <4>1 DEF begun, staged
        <5> QED BY <5>2, <5>3
      <4>2. CASE ~kind.offline
        <5>1. \A q \in Listing(kind) : Ord(kind, q) # 3 BY <1>10, <3>4, <4>2
        <5>2. Shows(kind, omits, 4, parser.table) BY <3>2, <3>3, <5>1, ShowsOver
        <5>3. begun = parser.table BY <1>6, <2>4, <4>2 DEF begun, staged
        <5> QED BY <5>2, <5>3
      <4> QED BY <4>1, <4>2
    <3>8. begun \in [Listing(kind) -> Statuses] BY <3>7, ShowsTyped
    <3>9. parser' \in Parsers(kind) /\ parser'.table = begun /\ parser'.current = "update-index" /\ ~parser'.running
      BY <1>9, <2>4, <3>4, <3>8 DEF moment
    <3>10. Tracks(kind, omits, parser') BY <3>7, <3>9 DEF Tracks, DepthOf, ImageNames, Basics
    <3> QED BY <2>4, <3>9, <3>10 DEF Pointed
  <2>5. CASE name = "tool"
    <3>1. begun = Started(parser.table, "assemble-disk") BY <1>6, <2>5 DEF begun, staged
    <3>2. Shows(kind, omits, 12, parser.table) BY <1>4, <2>5 DEF Pointed
    <3>3. 12 \in 1..15 /\ Ord(kind, "assemble-disk") = 12 BY <1>10
    <3>4. Shows(kind, omits, 12, begun) BY <3>1, <3>2, <3>3, ShowsBegan
    <3>5. begun \in [Listing(kind) -> Statuses] BY <3>4, ShowsTyped
    <3>6. parser' \in Parsers(kind) /\ parser'.table = begun BY <1>9, <3>5
    <3> QED BY <2>5, <3>4, <3>6 DEF Pointed
  <2>6. CASE name \in {"mkosi", "gzip"}
    <3>1. begun = parser.table BY <1>6, <2>6 DEF begun, staged
    <3>2. parser' = parser BY <1>2, <1>4, <2>6, <3>1 DEF Parsers
    <3>3. Follows(kind, parser') /\ (name = "gzip" => parser'.current = "create-tarball")
      BY <1>4, <2>6, <3>2 DEF Pointed
    <3> QED BY <1>4, <2>6, <3>2, <3>3 DEF Pointed
  <2> QED BY <1>5, <2>1, <2>2, <2>3, <2>4, <2>5, <2>6
<1>12. CASE stage' = "failing"
  <2>1. \E d \in 1..15 : Shows(kind, omits, d, parser'.table)
    <3>1. Pointed(kind, omits, NameAt(kind, program), parser', TRUE) BY <1>11 DEF name
    <3> QED BY <1>3, <1>4, <3>1, Somewhere
  <2> QED BY <1>1, <1>3, <1>4, <1>11, <1>12, <2>1 DEF Display, Shown
<1>13. CASE stage' = "programs"
  <2>1. Heard(kind, omits, program, 1, image, given, parser', <<>>)
    <3>1. CASE Ships(name)
      <4>1. PICK l : Walks(kind, program, 1, image, given, l) BY <1>3 DEF BootInv, Walking
      <4>2. l[1].said = {} BY <4>1 DEF Walks
      <4>3. ~Closed(parser')
        <5>1. CASE name = "image" BY <1>11, <5>1 DEF Closed
        <5>2. CASE name = "mkosi" BY <1>11, <5>2 DEF Pointed, Follows, Closed
        <5> QED BY <3>1, <5>1, <5>2 DEF Ships
      <4>4. Hears(kind, omits, parser', <<>>, l[1].said) BY <4>2, <4>3, HearsNothing
      <4> QED BY <3>1, <4>1, <4>4 DEF Heard, name
    <3>2. CASE ~Ships(name) BY <3>2 DEF Heard, name
    <3> QED BY <3>1, <3>2
  <2> QED BY <1>1, <1>3, <1>4, <1>11, <1>13, <2>1 DEF Display, name
<1> QED BY <1>1, <1>12, <1>13

LEMMA StepShows == DisplayInv /\ Step => Display'
<1> SUFFICES ASSUME DisplayInv, Step PROVE Display' OBVIOUS
<1> DEFINE s == StepsAt(kind, program)[at]
           name == NameAt(kind, program)
           refusal == Watched /\ refuses /\ at = 1
           lines == (IF refusal THEN <<"refusal">> ELSE <<>>)
                    \o (IF s.says = "nothing" \/ s.says \in omits THEN <<>> ELSE <<s.says>>)
<1>1. /\ UNCHANGED <<kind, omits, program, process, parser, stage, verdict>>
      /\ process = "running" /\ at <= Length /\ at' = at + 1 /\ pipe' = pipe \o lines
      /\ image' = (IF Ships(name) THEN Onto(s.writes, image) ELSE image)
      /\ given' = given \cup s.gives
  BY Derived DEF Step, host, ending, Lines
<1>2. /\ BootInv /\ Display /\ kind \in ValidKinds /\ program \in 1..Len(Programs(kind))
      /\ Length \in Nat /\ at \in 1..Length + 1 /\ stage = "programs" /\ pipe \in Seq(SpokenLines)
      /\ refuses \in BOOLEAN
  BY <1>1, StepsLength DEF DisplayInv, BootInv, Typed, Length, Running
<1>3. at \in 1..Length /\ at + 1 \in 1..Length + 1 BY <1>1, <1>2
<1>4. /\ Pointed(kind, omits, name, parser, TRUE) /\ parser \in Parsers(kind) /\ (Fedora(kind) => omits = {})
      /\ Heard(kind, omits, program, at, image, given, parser, pipe)
  BY <1>1, <1>2 DEF Display
<1> HIDE DEF lines
<1>5. Heard(kind, omits, program, at', image', given', parser, pipe')
  <2>1. CASE Ships(name)
    <3>1. PICK l : Walks(kind, program, at, image, given, l) /\ Hears(kind, omits, parser, pipe, l[at].said)
      BY <1>4, <2>1 DEF Heard
    <3>a. Walks(kind, program, at', image', given', l)
      BY <1>1, <1>2, <1>3, <2>1, <3>1, WalkReady DEF Length
    <3>b. /\ Ships(NameAt(kind, program)) => Speaks(kind, s.says, l[at].said)
          /\ l[at + 1].said = l[at].said \cup {s.says} /\ l[at] \in States /\ l[at + 1] \in States
      BY <1>2, <1>3, <3>1, WalkFinds DEF Length
    <3>2. /\ Walks(kind, program, at', image', given', l) /\ Speaks(kind, s.says, l[at].said)
          /\ l[at + 1].said = l[at].said \cup {s.says}
      BY <2>1, <3>a, <3>b
    <3>3. l[at].said \in SUBSET Sayings /\ s.says \in Sayings
      <4>1. l[at] \in States /\ l[at + 1] \in States /\ l[at + 1].said = l[at].said \cup {s.says}
        BY <3>b
      <4> HIDE DEF s
      <4> QED BY <4>1 DEF States
    <3>4. refusal => l[at].said = {} BY <3>1 DEF Walks
    <3>5. refusal \in BOOLEAN BY <1>2 DEF Watched
    <3>6. lines = (IF refusal THEN <<"refusal">> ELSE <<>>)
                  \o (IF s.says = "nothing" \/ s.says \in omits THEN <<>> ELSE <<s.says>>)
      BY DEF lines
    <3> HIDE DEF s, refusal
    <3>7. Hears(kind, omits, parser, pipe \o lines, l[at].said \cup {s.says})
      BY <1>2, <3>1, <3>2, <3>3, <3>4, <3>5, <3>6, HearsStep
    <3>8. Hears(kind, omits, parser, pipe', l[at'].said) BY <1>1, <3>2, <3>7
    <3> QED BY <2>1, <3>2, <3>8 DEF Heard
  <2>2. CASE name = "tools-tree" BY <2>2 DEF Heard, Ships
  <2>3. CASE ~Ships(name) /\ name # "tools-tree"
    <3>1. pipe = <<>> BY <1>4, <2>3 DEF Heard
    <3>2. Silent(StepsAt(kind, program)) BY <1>2, <2>3, NameFacts DEF Ships
    <3>3. s.says = "nothing" BY <1>3, <3>2 DEF Silent, Length
    <3>4. ~refusal BY <2>3, Derived DEF Watched, Ships
    <3>5. lines = <<>> \o <<>> BY <3>3, <3>4 DEF lines
    <3>6. <<>> \o <<>> \o <<>> = <<>> OBVIOUS
    <3>7. pipe' = <<>> BY <1>1, <3>1, <3>5
    <3> QED BY <2>3, <3>7 DEF Heard
  <2> QED BY <2>1, <2>2, <2>3
<1> HIDE DEF s, refusal
<1>6. verdict # "placed" BY <1>2 DEF BootInv, Judged
<1> QED BY <1>1, <1>2, <1>4, <1>5, <1>6 DEF Display

LEMMA QuietShows ==
  DisplayInv /\ (Exit \/ Interrupt \/ Signal) => Display'
<1> SUFFICES ASSUME DisplayInv, Exit \/ Interrupt \/ Signal PROVE Display' OBVIOUS
<1>1. /\ UNCHANGED <<kind, omits, program, at, image, given, parser, pipe, stage, verdict>>
      /\ process' = process \/ (process = "running" /\ process' # "none")
  BY DEF Exit, Interrupt, Signal, host, product, ending, running
<1>2. (process # "none") = (process' # "none") BY <1>1
<1>3. Display BY DEF DisplayInv
<1> HIDE DEF DisplayInv
<1>4. Shown(13)' = Shown(13) /\ Shown(14)' = Shown(14) /\ Shown(15)' = Shown(15) /\ Shown(1)' = Shown(1)
      /\ \A d \in 1..15 : Shown(d)' <=> Shown(d)
  BY <1>1 DEF Shown
<1> QED BY <1>1, <1>2, <1>3 DEF Display, Shown

(* A build that fails: the display is where it was.                        *)
LEMMA FailedShows ==
  ASSUME Display, UNCHANGED <<kind, omits>>, stage' \in {"failing", "over"}, verdict' # "placed",
         parser' \in Parsers(kind), \E d \in 1..15 : Shows(kind, omits, d, parser'.table)
  PROVE  Display'
BY DEF Display, Shown

LEMMA LostShows == DisplayInv /\ (LogLost \/ WaitRefused) => Display'
<1> SUFFICES ASSUME DisplayInv, LogLost \/ WaitRefused PROVE Display' OBVIOUS
<1>1. /\ UNCHANGED <<kind, omits, parser>> /\ Over /\ stage' = "failing" /\ verdict' \in {"log", "mounts"}
  BY DEF LogLost, WaitRefused, Breaks, Fail, host
<1>2. BootInv /\ Display /\ kind \in ValidKinds /\ program \in 1..Len(Programs(kind))
  BY DEF DisplayInv, BootInv, Typed
<1>3. stage = "programs" /\ process # "none" BY <1>1, <1>2, LastLine
<1>4. Pointed(kind, omits, NameAt(kind, program), parser, TRUE) /\ (Fedora(kind) => omits = {}) /\ parser \in Parsers(kind)
  BY <1>2, <1>3 DEF Display
<1>5. \E d \in 1..15 : Shows(kind, omits, d, parser.table) BY <1>2, <1>4, Somewhere
<1> QED BY <1>1, <1>2, <1>4, <1>5, FailedShows

LEMMA FailBuildShows == DisplayInv /\ FailBuild => Display'
<1> SUFFICES ASSUME DisplayInv, FailBuild PROVE Display' OBVIOUS
<1>1. UNCHANGED <<kind, omits, parser, verdict>> /\ stage = "failing" /\ stage' = "over"
  BY DEF FailBuild, host
<1>2. Display /\ verdict # "placed" BY <1>1 DEF DisplayInv, BootInv, Judged
<1>3. parser \in Parsers(kind) /\ \E d \in 1..15 : Shows(kind, omits, d, parser.table)
  BY <1>1, <1>2 DEF Display, Shown
<1> QED BY <1>1, <1>2, <1>3, FailedShows

LEMMA CleanTreeShows == DisplayInv /\ CleanTree => Display'
<1> SUFFICES ASSUME DisplayInv, CleanTree PROVE Display' OBVIOUS
<1>1. /\ UNCHANGED <<kind, omits, parser>> /\ stage = "clean"
      /\ \/ stage' = (IF Fedora(kind) THEN "records" ELSE "place") /\ verdict' = verdict
         \/ stage' = "failing" /\ verdict' \in {"log", "tree"}
  BY DEF CleanTree, Removed, NotRemoved, Remaining, Breaks, Fail, host, running
<1>2. Display /\ verdict = "none" BY <1>1 DEF DisplayInv, BootInv, Judged
<1>3. parser \in Parsers(kind) /\ Shows(kind, omits, IF Fedora(kind) THEN 13 ELSE 14, parser.table)
      /\ (Fedora(kind) => omits = {})
  BY <1>1, <1>2 DEF Display, Shown
<1>4. \E d \in 1..15 : Shows(kind, omits, d, parser.table)
  <2>1. (IF Fedora(kind) THEN 13 ELSE 14) \in 1..15 OBVIOUS
  <2> QED BY <1>3, <2>1
<1>5. CASE stage' = "failing" BY <1>1, <1>2, <1>3, <1>4, <1>5, FailedShows
<1>6. CASE stage' # "failing" BY <1>1, <1>2, <1>3, <1>6 DEF Display, Shown
<1> QED BY <1>5, <1>6

LEMMA RecordsShows == DisplayInv /\ Records => Display'
<1> SUFFICES ASSUME DisplayInv, Records PROVE Display' OBVIOUS
<1>1. /\ UNCHANGED <<kind, omits>> /\ stage = "records"
      /\ \/ /\ parser' = [parser EXCEPT !.table = Finished(parser.table, LockPhase(kind))]
            /\ stage' = (IF Disk(kind) THEN "clean" ELSE "place") /\ verdict' = verdict
         \/ /\ parser' = [parser EXCEPT !.table = Started(parser.table, LockPhase(kind))]
            /\ stage' = "failing" /\ verdict' = "lock"
  BY DEF Records, Ended, Began, Table, Fail, host
<1>2. Display /\ verdict = "none" /\ kind \in ValidKinds BY <1>1 DEF DisplayInv, BootInv, Judged, Typed
<1>3. parser \in Parsers(kind) /\ Shows(kind, omits, 13, parser.table) /\ (Fedora(kind) => omits = {})
  BY <1>1, <1>2 DEF Display, Shown
<1>4. Ord(kind, LockPhase(kind)) = 13 /\ \A q \in Listing(kind) : Ord(kind, q) = 13 => q = LockPhase(kind)
  BY <1>2, ListedOrds
<1>5. 13 \in 1..14 /\ 13 + 1 = 14 /\ 13 \in 1..15 OBVIOUS
<1> DEFINE f == Finished(parser.table, LockPhase(kind))
           t == Started(parser.table, LockPhase(kind))
<1>6. Shows(kind, omits, 14, f) BY <1>3, <1>4, <1>5, ShowsNext
<1>7. Shows(kind, omits, 13, t) BY <1>3, <1>4, <1>5, ShowsBegan
<1>8. f \in [Listing(kind) -> Statuses] /\ t \in [Listing(kind) -> Statuses] BY <1>6, <1>7, ShowsTyped
<1> HIDE DEF f, t
<1>9. CASE stage' = "failing"
  <2>1. parser' = [parser EXCEPT !.table = t] BY <1>1, <1>9 DEF t
  <2>2. parser' \in Parsers(kind) /\ parser'.table = t BY <1>3, <1>8, <2>1 DEF Parsers
  <2> QED BY <1>1, <1>2, <1>5, <1>7, <1>9, <2>2, FailedShows
<1>10. CASE stage' # "failing"
  <2>1. parser' = [parser EXCEPT !.table = f] BY <1>1, <1>10 DEF f
  <2>2. parser' \in Parsers(kind) /\ parser'.table = f BY <1>3, <1>8, <2>1 DEF Parsers
  <2>3. Fedora(kind) => ~Disk(kind) BY <1>2, ValidKind DEF FedoraKinds, FedoraSupported, Disk
  <2> QED BY <1>1, <1>2, <1>3, <1>6, <1>10, <2>2, <2>3 DEF Display, Shown
<1> QED BY <1>9, <1>10

LEMMA PlaceShows == DisplayInv /\ Place => Display'
<1> SUFFICES ASSUME DisplayInv, Place PROVE Display' OBVIOUS
<1>1. /\ UNCHANGED <<kind, omits>> /\ stage = "place"
      /\ \/ /\ parser' = [parser EXCEPT !.table = Finished(parser.table, "place")]
            /\ stage' = "over" /\ verdict' = "placed"
         \/ /\ parser' = [parser EXCEPT !.table = Started(parser.table, "place")]
            /\ stage' = "failing" /\ verdict' = "place"
  BY DEF Place, Ended, Began, Table, Breaks, Fail, host
<1>2. Display /\ kind \in ValidKinds BY <1>1 DEF DisplayInv, BootInv, Typed
<1>3. parser \in Parsers(kind) /\ Shows(kind, omits, 14, parser.table) /\ (Fedora(kind) => omits = {})
  BY <1>1, <1>2 DEF Display, Shown
<1>4. Ord(kind, "place") = 14 /\ \A q \in Listing(kind) : Ord(kind, q) = 14 => q = "place"
  BY <1>2, ListedOrds
<1>5. 14 \in 1..14 /\ 14 + 1 = 15 /\ 14 \in 1..15 /\ 15 \in 1..15 OBVIOUS
<1> DEFINE f == Finished(parser.table, "place")
           t == Started(parser.table, "place")
<1>6. Shows(kind, omits, 15, f) BY <1>3, <1>4, <1>5, ShowsNext
<1>7. Shows(kind, omits, 14, t) BY <1>3, <1>4, <1>5, ShowsBegan
<1>8. f \in [Listing(kind) -> Statuses] /\ t \in [Listing(kind) -> Statuses] BY <1>6, <1>7, ShowsTyped
<1> HIDE DEF f, t
<1>9. CASE stage' = "failing"
  <2>1. parser' = [parser EXCEPT !.table = t] BY <1>1, <1>9 DEF t
  <2>2. parser' \in Parsers(kind) /\ parser'.table = t BY <1>3, <1>8, <2>1 DEF Parsers
  <2> QED BY <1>1, <1>2, <1>5, <1>7, <1>9, <2>2, FailedShows
<1>10. CASE stage' # "failing"
  <2>1. parser' = [parser EXCEPT !.table = f] /\ stage' = "over" BY <1>1, <1>10 DEF f
  <2>2. parser' \in Parsers(kind) /\ parser'.table = f BY <1>3, <1>8, <2>1 DEF Parsers
  <2> QED BY <1>1, <1>3, <1>5, <1>6, <2>1, <2>2 DEF Display, Shown
<1> QED BY <1>9, <1>10

-----------------------------------------------------------------------------
(* A line read: the display has come as far as the line says.              *)
LEMMA ReadShows ==
  ASSUME DisplayInv, stage = "programs", process # "none", pipe # <<>>, NEW p, p = Parse(Head(pipe))
  PROVE  /\ p \in Parsers(kind) /\ Pointed(kind, omits, NameAt(kind, program), p, TRUE)
         /\ Heard(kind, omits, program, at, image, given, p, Tail(pipe))
<1> DEFINE name == NameAt(kind, program)
<1>1. /\ kind \in ValidKinds /\ program \in 1..Len(Programs(kind)) /\ pipe \in Seq(SpokenLines) /\ omits \subseteq Omitted
      /\ at \in 1..Length + 1
  BY DEF DisplayInv, BootInv, Typed
<1>2. /\ parser \in Parsers(kind) /\ (Fedora(kind) => omits = {})
      /\ Pointed(kind, omits, name, parser, TRUE) /\ Heard(kind, omits, program, at, image, given, parser, pipe)
  BY DEF DisplayInv, Display
<1>3. /\ Fedora(kind) => kind \in FedoraKinds
      /\ ~Fedora(kind) => kind \in UbuntuKinds
      /\ Fedora(kind) <=> name \in {"createrepo", "mkosi-tools", "mkosi", "gzip"}
  BY <1>1, NamesTell
<1>4. p = IF name = "image" THEN HandleLine(parser, Head(pipe))
          ELSE IF Fedora(kind) THEN MkosiLine(PhasesOf(kind), parser, Head(pipe)) ELSE parser
  BY Derived DEF Parse, List
<1> HIDE DEF name
<1>5. CASE name = "tools-tree"
  <2>1. p = parser BY <1>3, <1>4, <1>5
  <2> QED BY <1>2, <1>5, <2>1 DEF Heard, Ships, name
<1>6. CASE Ships(name)
  <2>1. PICK l : Walks(kind, program, at, image, given, l) /\ Hears(kind, omits, parser, pipe, l[at].said)
    BY <1>2, <1>6 DEF Heard, name
  <2>2. l[at].said \in SUBSET Sayings
    <3>1. l \in [1..Length + 1 -> States] BY <2>1 DEF Walks, Labels, Length
    <3>2. l[at] \in States BY <1>1, <3>1
    <3> QED BY <3>2 DEF States
  <2>3. CASE name = "image"
    <3>1. kind \in UbuntuKinds /\ p = HandleLine(parser, Head(pipe)) BY <1>3, <1>4, <2>3
    <3>2. omits \subseteq ImageNames \ {"create-tarball"} BY <1>1, OmitsTell
    <3>3. Tracks(kind, omits, parser) BY <1>2, <2>3 DEF Pointed
    <3>4. Tracks(kind, omits, p) /\ Hears(kind, omits, p, Tail(pipe), l[at].said)
      BY <1>1, <2>1, <2>2, <3>1, <3>2, <3>3, ImageReads
    <3>5. Pointed(kind, omits, name, p, TRUE) BY <2>3, <3>4 DEF Pointed
    <3>6. Heard(kind, omits, program, at, image, given, p, Tail(pipe))
      BY <1>6, <2>1, <3>4 DEF Heard, name
    <3> QED BY <3>4, <3>5, <3>6 DEF Tracks, name
  <2>4. CASE name = "mkosi"
    <3>1. kind \in FedoraKinds /\ omits = {} /\ p = MkosiLine(PhasesOf(kind), parser, Head(pipe))
      BY <1>2, <1>3, <1>4, <2>4
    <3>2. Follows(kind, parser) BY <1>2, <2>4 DEF Pointed
    <3>3. Hears(kind, {}, parser, pipe, l[at].said) BY <2>1, <3>1
    <3>4. Follows(kind, p) /\ Hears(kind, omits, p, Tail(pipe), l[at].said)
      BY <1>1, <2>2, <3>1, <3>2, <3>3, MkosiReads
    <3>5. Pointed(kind, omits, name, p, TRUE) BY <2>4, <3>4 DEF Pointed
    <3>6. Heard(kind, omits, program, at, image, given, p, Tail(pipe))
      BY <1>6, <2>1, <3>4 DEF Heard, name
    <3> QED BY <3>4, <3>5, <3>6 DEF Follows, name
  <2> QED BY <1>6, <2>3, <2>4 DEF Ships
<1>7. CASE name # "tools-tree" /\ ~Ships(name) BY <1>2, <1>7 DEF Heard, name
<1> QED BY <1>5, <1>6, <1>7

LEMMA ReadKeepsShown == DisplayInv /\ Read => Display'
<1> SUFFICES ASSUME DisplayInv, Read PROVE Display' OBVIOUS
<1>1. /\ UNCHANGED <<kind, omits, program, at, process, image, given, stage, verdict>>
      /\ process # "none" /\ pipe # <<>> /\ pipe' = Tail(pipe) /\ parser' = Parse(Head(pipe))
  BY DEF Read, host, product, ending
<1>2. stage = "programs" /\ verdict = "none" /\ (Fedora(kind) => omits = {})
  BY <1>1 DEF DisplayInv, BootInv, Running, Judged, Display
<1>3. /\ parser' \in Parsers(kind) /\ Pointed(kind, omits, NameAt(kind, program), parser', TRUE)
      /\ Heard(kind, omits, program, at, image, given, parser', pipe')
  BY <1>1, <1>2, ReadShows
<1> QED BY <1>1, <1>2, <1>3 DEF Display

(* All that a program that is over has written is heard.                   *)
LEMMA LastShows ==
  ASSUME DisplayInv, Over, NEW p, p = IF pipe = <<>> THEN parser ELSE Parse(Head(pipe))
  PROVE  /\ p \in Parsers(kind) /\ Pointed(kind, omits, NameAt(kind, program), p, TRUE)
         /\ Heard(kind, omits, program, at, image, given, p, <<>>)
<1>1. stage = "programs" /\ process # "none" BY LastLine DEF DisplayInv
<1>2. CASE pipe = <<>> BY <1>1, <1>2 DEF DisplayInv, Display
<1>3. CASE pipe # <<>>
  <2>1. pipe \in Seq(SpokenLines) /\ Len(pipe) <= 1 BY DEF DisplayInv, BootInv, Typed, Over
  <2>2. Tail(pipe) = <<>> BY <1>3, <2>1
  <2>3. p = Parse(Head(pipe)) BY <1>3
  <2> QED BY <1>1, <1>3, <2>2, <2>3, ReadShows
<1> QED BY <1>2, <1>3

LEMMA WaitFailedShows == DisplayInv /\ WaitFailed => Display'
<1> SUFFICES ASSUME DisplayInv, WaitFailed PROVE Display' OBVIOUS
<1>1. /\ UNCHANGED <<kind, omits>> /\ Over /\ stage' = "failing" /\ verdict' # "placed"
      /\ parser' = IF pipe = <<>> THEN parser ELSE Parse(Head(pipe))
  BY DEF WaitFailed, Fail, host
<1>2. Display /\ kind \in ValidKinds /\ program \in 1..Len(Programs(kind))
  BY DEF DisplayInv, BootInv, Typed
<1>3. parser' \in Parsers(kind) /\ Pointed(kind, omits, NameAt(kind, program), parser', TRUE)
  BY <1>1, LastShows
<1>4. Fedora(kind) => omits = {} BY <1>2 DEF Display
<1>5. \E d \in 1..15 : Shows(kind, omits, d, parser'.table) BY <1>2, <1>3, <1>4, Somewhere
<1> QED BY <1>1, <1>2, <1>3, <1>5, FailedShows

-----------------------------------------------------------------------------
(* A program has ended well: what the build reports between two programs,  *)
(* or after the last.                                                      *)
Report(k, n, p) ==
  IF NameAt(k, n) = "tools-tree" THEN [p EXCEPT !.table = Finished(p.table, "make-tools-tree")]
  ELSE IF NameAt(k, n) = "mkosi-tools"
  THEN Advance(PhasesOf(k), [p EXCEPT !.table = Finished(p.table, "make-tools-tree")],
               IF k.offline THEN "install-requested" ELSE "download")
  ELSE IF NameAt(k, n) = "gzip" THEN Advance(PhasesOf(k), p, "over")
  ELSE IF NameAt(k, n) = "tool" /\ n = Len(Programs(k))
  THEN [p EXCEPT !.table = Finished(p.table, "assemble-disk")] ELSE p
Onward(k, om, n, r) ==
  /\ r \in Parsers(k)
  /\ n < Len(Programs(k)) => Pointed(k, om, NameAt(k, n + 1), r, FALSE)
  /\ n = Len(Programs(k)) => Shows(k, om, 13, r.table)

LEMMA Tabled ==
  ASSUME NEW k, NEW p \in Parsers(k), NEW t \in [Listing(k) -> Statuses]
  PROVE  [p EXCEPT !.table = t] \in Parsers(k) /\ [p EXCEPT !.table = t].table = t
<1>1. \A x : x = [p EXCEPT !.table = t] =>
        /\ x = [current |-> p.current, running |-> p.running, table |-> t]
        /\ x.table = t
  BY DEF Parsers
<1>2. p.current \in Moments /\ p.running \in BOOLEAN BY DEF Parsers
<1>3. [current |-> p.current, running |-> p.running, table |-> t] \in Parsers(k) BY <1>2 DEF Parsers
<1> QED BY <1>1, <1>3

LEMMA PlanOnward ==
  ASSUME NEW k \in ValidKinds, NEW n \in 1..Len(Programs(k))
  PROVE  LET next == NameAt(k, n + 1)
             last == Len(Programs(k))
         IN /\ n < last \/ n = last
            /\ NameAt(k, n) = "tools-tree" => n < last /\ next = "image"
            /\ NameAt(k, n) = "createrepo" => n < last /\ next = "mkosi-tools"
            /\ NameAt(k, n) = "mkosi-tools" => n < last /\ next = "mkosi"
            /\ NameAt(k, n) = "mkosi" => n < last /\ next = "gzip"
            /\ NameAt(k, n) = "gzip" => n = last
            /\ NameAt(k, n) = "image" => IF Disk(k) THEN n < last /\ next = "tool" ELSE n = last
            /\ NameAt(k, n) = "tool" /\ n < last => next = "tool"
<1> DEFINE last == Len(Programs(k))
           m == n + 1
<1>1. last = (IF Fedora(k) THEN ImageIndex(k) + 1 ELSE IF Disk(k) THEN 10 ELSE 1) BY ThePlan
<1>2. ImageIndex(k) = IF Fedora(k) THEN (IF k.offline THEN 3 ELSE 2) ELSE IF Disk(k) THEN 2 ELSE 1
  BY DEF ImageIndex
<1>3. Fedora(k) \in BOOLEAN /\ Disk(k) \in BOOLEAN /\ k.offline \in BOOLEAN BY ValidKind, KindFields
<1>4. last \in Nat /\ n \in 1..last /\ m = n + 1 BY <1>1, <1>2, <1>3
<1>5. /\ NameAt(k, n) = "image" => ~Fedora(k) /\ n = ImageIndex(k)
      /\ NameAt(k, n) = "tools-tree" => ~Fedora(k) /\ Disk(k) /\ n = 1
      /\ NameAt(k, n) = "tool" => ~Fedora(k) /\ n > ImageIndex(k)
      /\ NameAt(k, n) = "createrepo" => Fedora(k) /\ k.offline /\ n = 1
      /\ NameAt(k, n) = "mkosi-tools" => Fedora(k) /\ n + 1 = ImageIndex(k)
      /\ NameAt(k, n) = "mkosi" => Fedora(k) /\ n = ImageIndex(k)
      /\ NameAt(k, n) = "gzip" => Fedora(k) /\ n = ImageIndex(k) + 1
  BY NameFacts
<1>6. n < last => /\ ~Fedora(k) /\ m = ImageIndex(k) => NameAt(k, m) = "image"
                  /\ ~Fedora(k) /\ m > ImageIndex(k) => NameAt(k, m) = "tool"
                  /\ Fedora(k) /\ m + 1 = ImageIndex(k) => NameAt(k, m) = "mkosi-tools"
                  /\ Fedora(k) /\ m = ImageIndex(k) => NameAt(k, m) = "mkosi"
                  /\ Fedora(k) /\ m = ImageIndex(k) + 1 => NameAt(k, m) = "gzip"
  <2> SUFFICES ASSUME n < last
               PROVE  /\ ~Fedora(k) /\ m = ImageIndex(k) => NameAt(k, m) = "image"
                      /\ ~Fedora(k) /\ m > ImageIndex(k) => NameAt(k, m) = "tool"
                      /\ Fedora(k) /\ m + 1 = ImageIndex(k) => NameAt(k, m) = "mkosi-tools"
                      /\ Fedora(k) /\ m = ImageIndex(k) => NameAt(k, m) = "mkosi"
                      /\ Fedora(k) /\ m = ImageIndex(k) + 1 => NameAt(k, m) = "gzip"
    OBVIOUS
  <2>1. m \in 1..Len(Programs(k)) BY <1>4
  <2> HIDE DEF m
  <2> QED BY <2>1, NameFacts
<1> HIDE DEF last
<1>7. n < last \/ n = last BY <1>4
<1>8. /\ NameAt(k, n) = "tools-tree" => n < last /\ ~Fedora(k) /\ m = ImageIndex(k)
      /\ NameAt(k, n) = "createrepo" => n < last /\ Fedora(k) /\ m + 1 = ImageIndex(k)
      /\ NameAt(k, n) = "mkosi-tools" => n < last /\ Fedora(k) /\ m = ImageIndex(k)
      /\ NameAt(k, n) = "mkosi" => n < last /\ Fedora(k) /\ m = ImageIndex(k) + 1
      /\ NameAt(k, n) = "gzip" => n = last
      /\ NameAt(k, n) = "image" => ~Fedora(k) /\ IF Disk(k) THEN n < last /\ m > ImageIndex(k) ELSE n = last
      /\ NameAt(k, n) = "tool" => ~Fedora(k) /\ m > ImageIndex(k)
  BY <1>1, <1>2, <1>3, <1>4, <1>5
<1> HIDE DEF m
<1> QED BY <1>6, <1>7, <1>8 DEF last, m

LEMMA ProgramReports ==
  ASSUME NEW k \in ValidKinds, NEW om, om \subseteq Omitted, Fedora(k) => om = {},
         NEW n \in 1..Len(Programs(k)), NEW im, NEW g, NEW p \in Parsers(k),
         Pointed(k, om, NameAt(k, n), p, TRUE), Heard(k, om, n, Len(StepsAt(k, n)) + 1, im, g, p, <<>>)
  PROVE  Onward(k, om, n, Report(k, n, p))
<1> DEFINE name == NameAt(k, n)
           last == Len(Programs(k))
           next == NameAt(k, n + 1)
<1>1. /\ n < last \/ n = last
      /\ name = "tools-tree" => n < last /\ next = "image"
      /\ name = "createrepo" => n < last /\ next = "mkosi-tools"
      /\ name = "mkosi-tools" => n < last /\ next = "mkosi"
      /\ name = "mkosi" => n < last /\ next = "gzip"
      /\ name = "gzip" => n = last
      /\ name = "image" => IF Disk(k) THEN n < last /\ next = "tool" ELSE n = last
      /\ name = "tool" /\ n < last => next = "tool"
  BY PlanOnward
<1>2. /\ Fedora(k) => k \in FedoraKinds
      /\ ~Fedora(k) => k \in UbuntuKinds
      /\ name \in {"tools-tree", "image", "tool", "createrepo", "mkosi-tools", "mkosi", "gzip"}
      /\ Fedora(k) <=> name \in {"createrepo", "mkosi-tools", "mkosi", "gzip"}
  BY NamesTell
<1>3. last \in Nat /\ ~(n < last /\ n = last) BY PlanFacts
<1>4. Pointed(k, om, name, p, TRUE) OBVIOUS
<1>5. /\ ~Fedora(k) => Ord(k, "make-tools-tree") = 2
      /\ Ord(k, "assemble-disk") = 12
      /\ \A q \in Listing(k) : /\ Ord(k, q) = 2 /\ ~Fedora(k) => q = "make-tools-tree"
                               /\ Ord(k, q) = 12 => Disk(k) /\ q = "assemble-disk"
  BY ListedOrds
<1>6. Ships(name) => \E u : Announced(k) \subseteq u /\ Hears(k, om, p, <<>>, u)
  <2> SUFFICES ASSUME Ships(name) PROVE \E u : Announced(k) \subseteq u /\ Hears(k, om, p, <<>>, u) OBVIOUS
  <2>1. PICK l : /\ Walks(k, n, Len(StepsAt(k, n)) + 1, im, g, l)
                 /\ Hears(k, om, p, <<>>, l[Len(StepsAt(k, n)) + 1].said)
    BY DEF Heard
  <2>2. l[Len(StepsAt(k, n)) + 1] \in Goal(k, n) BY <2>1 DEF Walks
  <2>3. Announced(k) \subseteq l[Len(StepsAt(k, n)) + 1].said BY <2>2 DEF Goal, NameAt
  <2> QED BY <2>1, <2>3
<1>7. Ships(name) => \A x \in Announced(k) \ om : HeardBy(k, p, x)
  <2>1. \A x \in Announced(k) : x # "nothing" BY DEF Announced
  <2> QED BY <1>6, <2>1, InNothing DEF Hears
<1> HIDE DEF name, last, next
<1>8. CASE name = "tools-tree"
  <2>1. Report(k, n, p) = [p EXCEPT !.table = Finished(p.table, "make-tools-tree")]
    BY <1>8 DEF Report, name
  <2>2. Shows(k, om, 2, p.table) BY <1>4, <1>8 DEF Pointed
  <2>3. ~Fedora(k) /\ 2 \in 1..14 /\ 2 + 1 = 3 BY <1>2, <1>8
  <2>4. Shows(k, om, 3, Finished(p.table, "make-tools-tree")) BY <1>5, <2>2, <2>3, ShowsNext
  <2>5. Report(k, n, p) \in Parsers(k) /\ Shows(k, om, 3, Report(k, n, p).table)
    BY <2>1, <2>4, ShowsTyped, Tabled
  <2>6. Pointed(k, om, next, Report(k, n, p), FALSE) BY <1>1, <1>8, <2>5 DEF Pointed
  <2> QED BY <1>1, <1>3, <1>8, <2>5, <2>6 DEF Onward, last, next
<1>9. CASE name = "createrepo"
  <2>1. Report(k, n, p) = p BY <1>9 DEF Report, name
  <2>2. Shows(k, om, 3, p.table) BY <1>4, <1>9 DEF Pointed
  <2>3. Pointed(k, om, next, p, FALSE) BY <1>1, <1>9, <2>2 DEF Pointed
  <2> QED BY <1>1, <1>3, <1>9, <2>1, <2>3 DEF Onward, last, next
<1>10. CASE name = "mkosi-tools"
  <2> DEFINE x == IF k.offline THEN "install-requested" ELSE "download"
  <2>1. Report(k, n, p) = Advance(PhasesOf(k), [p EXCEPT !.table = Finished(p.table, "make-tools-tree")], x)
    BY <1>10 DEF Report, name
  <2>2. om = {} /\ k \in FedoraKinds BY <1>2, <1>10
  <2>3. Shows(k, {}, 3, p.table) /\ ~p.running /\ p.current = "make-tools-tree"
    BY <1>4, <1>10, <2>2 DEF Pointed
  <2>4. x = IF k.offline THEN "install-requested" ELSE "download" OBVIOUS
  <2> HIDE DEF x
  <2>5. Follows(k, Report(k, n, p)) BY <2>1, <2>2, <2>3, <2>4, MkosiBegins
  <2>6. Pointed(k, om, next, Report(k, n, p), FALSE) BY <1>1, <1>10, <2>5 DEF Pointed
  <2> QED BY <1>1, <1>3, <1>10, <2>5, <2>6 DEF Onward, Follows, last, next
<1>11. CASE name = "mkosi"
  <2>1. Report(k, n, p) = p BY <1>11 DEF Report, name
  <2>2. om = {} /\ k \in FedoraKinds /\ Follows(k, p) BY <1>2, <1>4, <1>11 DEF Pointed
  <2>3. "create-tarball" \in Announced(k) \ om BY <2>2 DEF Announced, FedoraKinds
  <2>4. HeardBy(k, p, "create-tarball") BY <1>7, <1>11, <2>3 DEF Ships
  <2>5. p.running /\ p.current \in MkosiPhases(k) BY <2>2 DEF Follows
  <2>6. Ord(k, "create-tarball") <= Ord(k, p.current) BY <2>4, <2>5 DEF HeardBy, Closed
  <2>7. /\ Ord(k, "create-tarball") = 11 /\ \A q \in MkosiPhases(k) : Ord(k, q) \in 5..11
        /\ \A x, y \in MkosiPhases(k) : Ord(k, x) = Ord(k, y) => x = y
    BY <2>2, FedoraOrds
  <2>8. "create-tarball" \in MkosiPhases(k) BY DEF MkosiPhases
  <2>9. Ord(k, p.current) = 11 BY <2>5, <2>6, <2>7
  <2>10. p.current = "create-tarball" BY <2>5, <2>7, <2>8, <2>9
  <2>11. Pointed(k, om, next, p, FALSE) BY <1>1, <1>11, <2>2, <2>10 DEF Pointed
  <2> QED BY <1>1, <1>3, <1>11, <2>1, <2>11 DEF Onward, last, next
<1>12. CASE name = "gzip"
  <2>1. Report(k, n, p) = Advance(PhasesOf(k), p, "over") BY <1>12 DEF Report, name
  <2>2. om = {} /\ k \in FedoraKinds /\ Follows(k, p) /\ p.current = "create-tarball"
    BY <1>2, <1>4, <1>12 DEF Pointed
  <2>3. Shows(k, {}, 13, Report(k, n, p).table) /\ Report(k, n, p) \in Parsers(k)
    BY <2>1, <2>2, MkosiEnds
  <2> QED BY <1>1, <1>3, <1>12, <2>2, <2>3 DEF Onward, last
<1>13. CASE name = "image"
  <2>1. Report(k, n, p) = p BY <1>13 DEF Report, name
  <2>2. k \in UbuntuKinds /\ Tracks(k, om, p) BY <1>2, <1>4, <1>13 DEF Pointed
  <2>3. "done" \in Announced(k) \ om
    <3>1. om \subseteq ImageNames
      <4>1. Omitted \subseteq ImageNames BY OmittedAssumption, Ranks
      <4> QED BY <4>1
    <3>2. "done" \notin ImageNames BY DEF ImageNames, Basics
    <3> QED BY <2>2, <3>1, <3>2 DEF Announced, UbuntuKinds
  <2>4. HeardBy(k, p, "done") BY <1>7, <1>13, <2>3 DEF Ships
  <2>5. p.current \in ImageNames /\ Shows(k, om, DepthOf(k, p), p.table) BY <2>2 DEF Tracks
  <2>6. Closed(p)
    <3>1. Ord(k, "done") = 12 /\ Ord(k, p.current) \in 4..11 BY <2>2, <2>5, UbuntuOrds
    <3>2. ~(Ord(k, "done") <= Ord(k, p.current)) BY <3>1
    <3> QED BY <2>4, <3>2 DEF HeardBy
  <2>7. DepthOf(k, p) = 12 BY <2>6 DEF DepthOf, Closed
  <2>8. Shows(k, om, 12, p.table) BY <2>5, <2>7
  <2>9. CASE Disk(k)
    <3>1. n < last /\ next = "tool" BY <1>1, <1>13, <2>9
    <3>2. Pointed(k, om, next, p, FALSE) BY <2>8, <3>1 DEF Pointed
    <3> QED BY <1>3, <2>1, <3>1, <3>2 DEF Onward, last, next
  <2>10. CASE ~Disk(k)
    <3>1. n = last BY <1>1, <1>13, <2>10
    <3>2. \A q \in Listing(k) : Ord(k, q) # 12 BY <1>5, <2>10
    <3>3. 12 \in 1..14 /\ 12 + 1 = 13 OBVIOUS
    <3>4. Shows(k, om, 13, p.table) BY <2>8, <3>2, <3>3, ShowsOver
    <3> QED BY <1>3, <2>1, <3>1, <3>4 DEF Onward, last
  <2> QED BY <2>9, <2>10
<1>14. CASE name = "tool"
  <2>1. Shows(k, om, 12, p.table) BY <1>4, <1>14 DEF Pointed
  <2>2. CASE n < last
    <3>1. Report(k, n, p) = p BY <1>3, <1>14, <2>2 DEF Report, name, last
    <3>2. Pointed(k, om, next, p, FALSE) BY <1>1, <1>14, <2>1, <2>2 DEF Pointed
    <3> QED BY <1>3, <2>2, <3>1, <3>2 DEF Onward, last, next
  <2>3. CASE n = last
    <3>1. Report(k, n, p) = [p EXCEPT !.table = Finished(p.table, "assemble-disk")]
      BY <1>14, <2>3 DEF Report, name, last
    <3>2. 12 \in 1..14 /\ 12 + 1 = 13 OBVIOUS
    <3>3. Shows(k, om, 13, Finished(p.table, "assemble-disk")) BY <1>5, <2>1, <3>2, ShowsNext
    <3>4. Report(k, n, p) \in Parsers(k) /\ Shows(k, om, 13, Report(k, n, p).table)
      BY <3>1, <3>3, ShowsTyped, Tabled
    <3> QED BY <1>3, <2>3, <3>4 DEF Onward, last
  <2> QED BY <1>1, <2>2, <2>3
<1> QED BY <1>2, <1>8, <1>9, <1>10, <1>11, <1>12, <1>13, <1>14

LEMMA WaitDoneShows == DisplayInv /\ WaitDone => Display'
<1> SUFFICES ASSUME DisplayInv, WaitDone PROVE Display' OBVIOUS
<1> DEFINE p == IF pipe = <<>> THEN parser ELSE Parse(Head(pipe))
<1>1. /\ UNCHANGED <<kind, omits, image, given, verdict>>
      /\ process' = "none" /\ Over /\ ~Erred /\ parser' = Reported(p.table, p)
      /\ \/ program < Len(Programs(kind)) /\ program' = program + 1 /\ stage' = stage
         \/ /\ ~(program < Len(Programs(kind))) /\ program' = program
            /\ stage' = (IF Fedora(kind) THEN "clean" ELSE "records")
  BY Derived DEF WaitDone, host, product
<1>2. stage = "programs" BY <1>1, LastLine DEF DisplayInv
<1>3. process = "ok" /\ at = Length + 1 BY <1>1 DEF Over, Erred, DisplayInv, BootInv, Running
<1>4. kind \in ValidKinds /\ program \in 1..Len(Programs(kind)) /\ omits \subseteq Omitted
  BY DEF DisplayInv, BootInv, Typed
<1>5. /\ p \in Parsers(kind) /\ Pointed(kind, omits, NameAt(kind, program), p, TRUE)
      /\ Heard(kind, omits, program, at, image, given, p, <<>>)
  BY <1>1, LastShows
<1>6. verdict = "none" /\ (Fedora(kind) => omits = {}) BY <1>2 DEF DisplayInv, BootInv, Judged, Display
<1> HIDE DEF p
<1>7. Reported(p.table, p) = Report(kind, program, p) BY Derived DEF Reported, Report, List
<1>8. Heard(kind, omits, program, Len(StepsAt(kind, program)) + 1, image, given, p, <<>>)
  BY <1>3, <1>5 DEF Length
<1>9. Onward(kind, omits, program, parser') BY <1>1, <1>4, <1>5, <1>6, <1>7, <1>8, ProgramReports
<1>10. Len(Programs(kind)) \in Nat BY <1>4, PlanFacts
<1>11. CASE program < Len(Programs(kind))
  <2>1. program' = program + 1 /\ stage' = "programs" BY <1>1, <1>2, <1>11
  <2>2. Pointed(kind, omits, NameAt(kind, program + 1), parser', FALSE) /\ parser' \in Parsers(kind)
    BY <1>9, <1>11 DEF Onward
  <2>3. (process' # "none") = FALSE BY <1>1
  <2> QED BY <1>1, <1>6, <2>1, <2>2, <2>3 DEF Display
<1>12. CASE ~(program < Len(Programs(kind)))
  <2>1. program = Len(Programs(kind)) BY <1>4, <1>10, <1>12
  <2>2. Shows(kind, omits, 13, parser'.table) /\ parser' \in Parsers(kind) BY <1>9, <2>1 DEF Onward
  <2>3. stage' = (IF Fedora(kind) THEN "clean" ELSE "records") BY <1>1, <1>12
  <2> QED BY <1>1, <1>6, <2>2, <2>3 DEF Display, Shown
<1> QED BY <1>11, <1>12

LEMMA DisplayNext == DisplayInv /\ [BootstrapNext]_vars => DisplayInv'
<1> SUFFICES ASSUME DisplayInv, [BootstrapNext]_vars PROVE DisplayInv' OBVIOUS
<1>1. BootInv' BY BootInvNext DEF DisplayInv
<1>2. CASE UNCHANGED vars
  <2>1. UNCHANGED <<kind, omits, program, at, process, pipe, image, given, parser, stage, verdict>>
    BY <1>2 DEF vars
  <2> QED BY <1>1, <2>1 DEF DisplayInv, Display, Shown
<1>3. CASE BootstrapNext
  <2>1. Display'
    BY <1>3, VerifyShows, StartShows, StageFailsShows, StepShows, QuietShows, ReadKeepsShown, WaitFailedShows,
       LostShows, WaitDoneShows, RecordsShows, CleanTreeShows, PlaceShows, FailBuildShows
    DEF BootstrapNext
  <2> QED BY <1>1, <2>1 DEF DisplayInv
<1> QED BY <1>2, <1>3

(* Wherever a build is, what its programs have made so far is what the    *)
(* program it has come to is put together for, its verdict is what became  *)
(* of it, and its display has come as far as the lines it has read say.    *)
THEOREM BootstrapInvariant == BootstrapSpec => []DisplayInv
BY DisplayInit, DisplayNext, PTL DEF BootstrapSpec

(* The display of a build goes forward: of any kind of build, whatever     *)
(* announcement a newer mmdebstrap leaves out, and however far its lines   *)
(* are read behind the program that writes them, a phase that runs or is   *)
(* done has every listed one before it done, and a placed image leaves     *)
(* none open, but for Python's that was never announced.                   *)
THEOREM PhasesGoForwardHolds == BootstrapSpec => []PhasesGoForward
BY DisplayInit, DisplayNext, DisplayGoesForward, PTL DEF BootstrapSpec

(* What TLC checks of the variables' values holds of every build.          *)
LEMMA InvGivesTypes == DisplayInv /\ kind \in Kinds => BootstrapTypeOK
<1> SUFFICES ASSUME DisplayInv, kind \in Kinds PROVE BootstrapTypeOK OBVIOUS
<1>1. Typed /\ Walking /\ parser \in Parsers(kind) BY DEF DisplayInv, BootInv, Display
<1>2. kind \in ValidKinds /\ program \in 1..Len(Programs(kind)) BY <1>1 DEF Typed
<1>3. program \in DOMAIN Plan BY <1>2, PlanFacts DEF Plan
<1>4. at \in 1..Len(Steps) + 1 BY <1>1, Derived DEF Typed
<1>5. image \in [ImageFiles -> Contents]
  <2>1. PICK l : Walks(kind, program, at, image, given, l) BY <1>1 DEF Walking
  <2>2. l \in [1..Length + 1 -> States] /\ l[at].image = image BY <2>1 DEF Walks, Labels, Length
  <2>3. l[at] \in States BY <1>1, <2>2 DEF Typed
  <2> QED BY <2>2, <2>3 DEF States
<1>6. parser.table \in [ToSet(List) -> Statuses]
  <2>1. ToSet(List) = Listing(kind) BY <1>2, ListRises DEF Rising, List
  <2> QED BY <1>1, <2>1 DEF Parsers
<1>7. {refuses, refused, interrupted, signaled, fault} \subseteq BOOLEAN BY <1>1 DEF Typed
<1> QED BY <1>1, <1>3, <1>4, <1>5, <1>6, <1>7 DEF Typed, BootstrapTypeOK

(* A build's variables keep to their values: its program and step are of   *)
(* its plan, the lines ahead of their reader are no more than the pipe     *)
(* holds, and the display lists the phases of its kind.                    *)
THEOREM BootstrapTypeOKHolds == BootstrapSpec => []BootstrapTypeOK
<1>1. BootstrapInit => kind \in Kinds BY DEF BootstrapInit
<1>2. kind \in Kinds /\ [BootstrapNext]_vars => (kind \in Kinds)'
  BY DEF BootstrapNext, vars, host, VerifyPool, Start, StageFails, Step, Exit, Interrupt, Signal, Read,
         WaitFailed, LogLost, WaitRefused, WaitDone, Records, CleanTree, Place, FailBuild
<1> QED BY <1>1, <1>2, DisplayInit, DisplayNext, InvGivesTypes, PTL DEF BootstrapSpec
=============================================================================
