-------------------------- MODULE OpenIndexProofs ---------------------------
(***************************************************************************)
(* Proofs about OpenIndex, for any number of pockets, files and revisions  *)
(* and any sizes.  A sum of sizes is the number of a set's bytes, so that  *)
(* what is added and taken back is counted by the theorems about finite    *)
(* sets and no induction is needed.                                        *)
(***************************************************************************)
EXTENDS OpenIndex, FiniteSetTheorems, TLAPS

(* The first pocket is always there; a frozen mirror has no other.         *)
Missing(p) == frozen /\ p > 1

(* Nothing is read before the call decides to fetch. *)
Unstarted ==
  at \in {"idle", "looking", "removing"} =>
    /\ plan = [p \in Pockets |-> 0] /\ got = Nothing
    /\ pocket = 1 /\ file = 1 /\ again = FALSE
    /\ done = 0 /\ total = 0 /\ pocketBytes = 0

(* A plan is as new as what was listed when the call began. *)
PlanIsRecent ==
  \A p \in Pockets : begun[p] <= listed[p] /\ (plan[p] # 0 => plan[p] >= begun[p])

(* Pockets are planned in order, before anything is read. *)
PlansInOrder ==
  at = "planning" =>
    /\ pocket <= LastPocket /\ file = 1 /\ again = FALSE
    /\ got = Nothing /\ done = 0 /\ pocketBytes = 0
    /\ \A p \in Pockets : plan[p] = 0 <=> p >= pocket \/ Missing(p)

(* What has been read, to the file: all of the pockets before this one,    *)
(* and of this one the files before this, at the revision that is planned. *)
Fetching == at \in {"files", "replan", "writing"}
ReadSoFar(p, f) ==
  f <= LastFile /\ (p < pocket \/ (p = pocket /\ f < file))
ReadsInOrder ==
  Fetching =>
    /\ \A p \in Pockets : plan[p] = 0 <=> Missing(p)
    /\ \A p \in Pockets, f \in FileIds :
         got[p][f] = IF ReadSoFar(p, f) THEN plan[p] ELSE 0
    /\ file <= LastFile
    /\ file > 1 => pocket <= LastPocket /\ plan[pocket] # 0
    /\ at = "replan" => pocket <= LastPocket /\ file = 1 /\ plan[pocket] # 0 /\ again
    /\ again => pocket <= LastPocket /\ plan[pocket] # 0
    /\ at = "writing" => pocket > LastPocket

(* Every index that may be answered is whole. *)
IndexesAreWhole ==
  /\ cached # None => Whole(cached)
  /\ AnswerIsWhole

(* An answer ends the call. *)
AnswersOnce == at # "done" => answer = None
RefreshIsOnline == offline => ~refresh

(* The counters count what they say. *)
Only(content, p) == [Nothing EXCEPT ![p] = content[p]]
PlannedIndex(revision) ==
  [p \in Pockets |-> [f \in FileIds |-> IF f = 1 THEN revision[p] ELSE 0]]
CountsAreTrue ==
  /\ done = Bytes(got)
  /\ at \in {"files", "replan"} /\ pocket <= LastPocket =>
       pocketBytes = Bytes(Only(got, pocket))
  /\ kind = "fedora" => total = Bytes(PlannedIndex(plan))

(* Progress was told the counters last, but while a pocket is read again.  *)
ReportIsCurrent ==
  Fetching /\ ~again /\ (pocket > 1 \/ file > 1) => reported = <<done, total>>

OpenInv ==
  /\ TypeOK /\ Unstarted /\ PlanIsRecent /\ PlansInOrder /\ ReadsInOrder
  /\ IndexesAreWhole /\ AnswersOnce /\ RefreshIsOnline /\ RefreshIsHonoured
  /\ CountsAreTrue /\ ReportIsCurrent
-----------------------------------------------------------------------------
(* Counting bytes.                                                         *)

(* The bounds are positive. *)
LEMMA BoundsType ==
  LastPocket \in Nat \ {0} /\ Files \in Nat \ {0} /\ MaxRevision \in Nat \ {0}
BY BoundsAssumption

(* Sizes are natural numbers, and none of what is not there. *)
LEMMA SizeAtType ==
  ASSUME NEW r \in 0 .. MaxRevision
  PROVE  SizeAt(r) \in Nat /\ (r # 0 => SizeAt(r) = Size(r) /\ SizeAt(r) > 0)
BY SizeAssumption, BoundsType DEF SizeAt

(* The bytes of an index, one by one. *)
LEMMA ByteOf ==
  ASSUME NEW c \in Contents, NEW b
  PROVE  b \in BytesOf(c) <=>
           \E pf \in Places : b \in {pf} \X (1 .. SizeAt(c[pf[1]][pf[2]]))
BY SMT DEF BytesOf

(* An index has finitely many bytes. *)
LEMMA BytesFinite ==
  ASSUME NEW c \in Contents
  PROVE  IsFiniteSet(BytesOf(c)) /\ Bytes(c) \in Nat
<1> DEFINE Part(q) == {q} \X (1 .. SizeAt(c[q[1]][q[2]]))
           Parts   == {Part(q) : q \in Places}
           part    == [q \in Places |-> Part(q)]
<1>1. IsFiniteSet(Places)
  <2>1. IsFiniteSet(Pockets) /\ IsFiniteSet(FileIds)
    BY FS_Interval, BoundsType DEF Pockets, FileIds
  <2> QED BY <2>1, FS_Product DEF Places
<1>2. IsFiniteSet(Parts)
  <2>1. part \in Surjection(Places, Parts)
    BY DEF Surjection
  <2> QED BY <1>1, <2>1, FS_Surjection
<1>3. \A q \in Places : IsFiniteSet(Part(q))
  <2> TAKE q \in Places
  <2>1. SizeAt(c[q[1]][q[2]]) \in Nat
    BY SizeAtType DEF Contents, Places
  <2>2. IsFiniteSet(1 .. SizeAt(c[q[1]][q[2]]))
    <3> DEFINE n == SizeAt(c[q[1]][q[2]])
    <3>1. n \in Nat
      BY <2>1
    <3> HIDE DEF n
    <3>2. IsFiniteSet(1 .. n)
      BY <3>1, FS_Interval
    <3> QED BY <3>2 DEF n
  <2>3. IsFiniteSet({q})
    BY FS_Singleton
  <2> QED BY <2>2, <2>3, FS_Product
<1>4. IsFiniteSet(UNION Parts)
  BY <1>2, <1>3, FS_UNION
<1> QED BY <1>4, FS_CardinalityType DEF Bytes, BytesOf

(* What is split by files is split by bytes. *)
LEMMA BytesSplit ==
  ASSUME NEW c \in Contents, NEW d \in Contents, NEW e \in Contents,
         \A p \in Pockets, f \in FileIds :
           \/ d[p][f] = c[p][f] /\ e[p][f] = 0
           \/ d[p][f] = 0 /\ e[p][f] = c[p][f]
  PROVE  Bytes(c) = Bytes(d) + Bytes(e)
<1>1. 1 .. SizeAt(0) = {}
  BY DEF SizeAt
<1>2. \A pf \in Places :
        \/ d[pf[1]][pf[2]] = c[pf[1]][pf[2]] /\ e[pf[1]][pf[2]] = 0
        \/ d[pf[1]][pf[2]] = 0 /\ e[pf[1]][pf[2]] = c[pf[1]][pf[2]]
  BY DEF Places
<1>3. BytesOf(c) = BytesOf(d) \cup BytesOf(e)
  <2>1. ASSUME NEW b
        PROVE  b \in BytesOf(c) <=> b \in BytesOf(d) \/ b \in BytesOf(e)
    BY <1>1, <1>2, ByteOf
  <2> QED BY <2>1
<1>4. BytesOf(d) \cap BytesOf(e) = {}
  <2> SUFFICES ASSUME NEW b \in BytesOf(d), b \in BytesOf(e) PROVE FALSE
    OBVIOUS
  <2>1. PICK p \in Places : b \in {p} \X (1 .. SizeAt(d[p[1]][p[2]]))
    BY ByteOf
  <2>2. PICK q \in Places : b \in {q} \X (1 .. SizeAt(e[q[1]][q[2]]))
    BY ByteOf
  <2>3. p = q
    BY <2>1, <2>2
  <2> QED BY <1>1, <1>2, <2>1, <2>2, <2>3
<1>5. /\ IsFiniteSet(BytesOf(d)) /\ Bytes(d) \in Nat
      /\ IsFiniteSet(BytesOf(e)) /\ Bytes(e) \in Nat
  BY BytesFinite
<1>6. Cardinality(BytesOf(d) \cup BytesOf(e)) =
        Cardinality(BytesOf(d)) + Cardinality(BytesOf(e)) - Cardinality({})
  BY <1>4, <1>5, FS_Union
<1> QED
  BY <1>3, <1>5, <1>6, FS_EmptySet DEF Bytes

(* Nothing has no bytes, and one file its size. *)
LEMMA NoBytes == Nothing \in Contents /\ Bytes(Nothing) = 0
<1>1. Nothing \in Contents
  BY BoundsType DEF Nothing, Contents
<1>2. BytesOf(Nothing) = {}
  <2>1. 1 .. SizeAt(0) = {}
    BY DEF SizeAt
  <2>2. \A pf \in Places : Nothing[pf[1]][pf[2]] = 0
    BY DEF Places, Nothing
  <2>3. \A b : b \notin BytesOf(Nothing)
    BY <1>1, <2>1, <2>2, ByteOf
  <2> QED BY <2>3
<1> QED BY <1>1, <1>2, FS_EmptySet DEF Bytes

(* An index of one file has that file's bytes. *)
LEMMA BytesOfOne ==
  ASSUME NEW c \in Contents, NEW p \in Pockets, NEW f \in FileIds,
         \A q \in Pockets, g \in FileIds : q # p \/ g # f => c[q][g] = 0
  PROVE  Bytes(c) = SizeAt(c[p][f])
<1> DEFINE n == SizeAt(c[p][f])
<1>1. 1 .. SizeAt(0) = {}
  BY DEF SizeAt
<1>2. /\ \A q \in Places : q = <<p, f>> \/ c[q[1]][q[2]] = 0
      /\ <<p, f>> \in Places /\ <<p, f>>[1] = p /\ <<p, f>>[2] = f
  BY DEF Places
<1>3. n \in Nat
  BY SizeAtType DEF Contents
<1>4. BytesOf(c) = {<<p, f>>} \X (1 .. n)
  <2>1. ASSUME NEW b
        PROVE  b \in BytesOf(c) <=> b \in {<<p, f>>} \X (1 .. n)
    <3>1. ASSUME NEW q \in Places, b \in {q} \X (1 .. SizeAt(c[q[1]][q[2]]))
          PROVE  q = <<p, f>>
      BY <1>1, <1>2, <3>1
    <3> QED BY <1>2, <3>1, ByteOf
  <2> QED BY <2>1
<1> HIDE DEF n
<1>5. IsFiniteSet({<<p, f>>}) /\ Cardinality({<<p, f>>}) = 1
  BY FS_Singleton
<1>6. IsFiniteSet(1 .. n) /\ Cardinality(1 .. n) = n
  BY <1>3, FS_Interval
<1>7. Cardinality({<<p, f>>} \X (1 .. n)) =
        Cardinality({<<p, f>>}) * Cardinality(1 .. n)
  BY <1>5, <1>6, FS_Product, Zenon
<1> QED
  BY <1>3, <1>4, <1>5, <1>6, <1>7 DEF Bytes, n

(* A file that is read adds its size, to the index and to its pocket. *)
LEMMA BytesOfMore ==
  ASSUME NEW c \in Contents, NEW p \in Pockets, NEW f \in FileIds,
         c[p][f] = 0, NEW r \in 0 .. MaxRevision
  PROVE  /\ [c EXCEPT ![p][f] = r] \in Contents
         /\ Bytes([c EXCEPT ![p][f] = r]) = Bytes(c) + SizeAt(r)
<1> DEFINE d == [c EXCEPT ![p][f] = r]
           e == [Nothing EXCEPT ![p][f] = r]
<1>1. d \in Contents /\ e \in Contents
  BY NoBytes DEF Contents
<1>2. \A q \in Pockets, g \in FileIds :
        /\ d[q][g] = IF q = p /\ g = f THEN r ELSE c[q][g]
        /\ e[q][g] = IF q = p /\ g = f THEN r ELSE 0
  BY NoBytes DEF Contents, Nothing
<1> HIDE DEF d, e
<1>3. Bytes(d) = Bytes(c) + Bytes(e)
  BY <1>1, <1>2, BytesSplit
<1>4. Bytes(e) = SizeAt(r)
  BY <1>1, <1>2, BytesOfOne
<1> QED BY <1>1, <1>3, <1>4 DEF d

(* What is taken back of a pocket is what it had. *)
LEMMA BytesOfPocket ==
  ASSUME NEW c \in Contents, NEW p \in Pockets
  PROVE  /\ [c EXCEPT ![p] = Nothing[p]] \in Contents /\ Only(c, p) \in Contents
         /\ Bytes([c EXCEPT ![p] = Nothing[p]]) = Bytes(c) - Bytes(Only(c, p))
<1> DEFINE d == [c EXCEPT ![p] = Nothing[p]]
           e == [Nothing EXCEPT ![p] = c[p]]
<1>1. d \in Contents /\ e \in Contents
  BY NoBytes DEF Contents
<1>2. \A q \in Pockets, g \in FileIds :
        /\ d[q][g] = IF q = p THEN 0 ELSE c[q][g]
        /\ e[q][g] = IF q = p THEN c[q][g] ELSE 0
  BY NoBytes DEF Contents, Nothing
<1> HIDE DEF d, e
<1>3. Bytes(c) = Bytes(d) + Bytes(e)
  BY <1>1, <1>2, BytesSplit
<1>4. Bytes(d) \in Nat /\ Bytes(e) \in Nat /\ Bytes(c) \in Nat
  BY <1>1, BytesFinite
<1> QED BY <1>1, <1>3, <1>4 DEF d, e, Only

(* Of a pocket that has nothing, nothing is left. *)
LEMMA OnlyNothing ==
  ASSUME NEW c \in Contents, NEW p \in Pockets, \A f \in FileIds : c[p][f] = 0
  PROVE  Bytes(Only(c, p)) = 0
<1>1. Only(c, p) = Nothing
  BY DEF Only, Nothing, Contents
<1> QED BY <1>1, NoBytes

(* A second plan replaces the size of the first. *)
LEMMA BytesPlanned ==
  ASSUME NEW a \in [Pockets -> 0 .. MaxRevision], NEW p \in Pockets,
         NEW r \in 0 .. MaxRevision, NEW b, b = [a EXCEPT ![p] = r]
  PROVE  /\ Bytes(PlannedIndex(a)) \in Nat
         /\ Bytes(PlannedIndex(b)) = Bytes(PlannedIndex(a)) - SizeAt(a[p]) + SizeAt(r)
<1> DEFINE z == PlannedIndex([a EXCEPT ![p] = 0])
<1>1. z \in Contents /\ z[p][1] = 0 /\ 1 \in FileIds
  BY BoundsType DEF PlannedIndex, Contents, FileIds
<1>2. \A s \in 0 .. MaxRevision :
        PlannedIndex([a EXCEPT ![p] = s]) = [z EXCEPT ![p][1] = s]
  BY <1>1 DEF PlannedIndex
<1> HIDE DEF z
<1>3. \A s \in 0 .. MaxRevision :
        Bytes(PlannedIndex([a EXCEPT ![p] = s])) = Bytes(z) + SizeAt(s)
  <2> TAKE s \in 0 .. MaxRevision
  <2>1. Bytes([z EXCEPT ![p][1] = s]) = Bytes(z) + SizeAt(s)
    BY <1>1, BytesOfMore
  <2> QED BY <1>2, <2>1
<1>4. [a EXCEPT ![p] = a[p]] = a /\ a[p] \in 0 .. MaxRevision
  OBVIOUS
<1>5. Bytes(z) \in Nat
  BY <1>1, BytesFinite
<1>6. SizeAt(a[p]) \in Nat /\ SizeAt(r) \in Nat
  BY <1>4, SizeAtType
<1>7. Bytes(PlannedIndex(a)) = Bytes(z) + SizeAt(a[p])
  <2>1. Bytes(PlannedIndex([a EXCEPT ![p] = a[p]])) = Bytes(z) + SizeAt(a[p])
    BY <1>3, <1>4
  <2> QED BY <1>4, <2>1
<1>8. Bytes(PlannedIndex([a EXCEPT ![p] = r])) = Bytes(z) + SizeAt(r)
  BY <1>3
<1> QED BY <1>5, <1>6, <1>7, <1>8
-----------------------------------------------------------------------------
(* Every step keeps the invariant.                                         *)

(* Where the call is, in numbers. *)
LEMMA Positions ==
  ASSUME TypeOK
  PROVE  /\ LastPocket \in Nat \ {0} /\ Files \in Nat \ {0}
         /\ pocket \in 1 .. (LastPocket + 1) /\ file \in 1 .. Files
         /\ plan \in [Pockets -> 0 .. MaxRevision]
         /\ listed \in [Pockets -> Revisions] /\ begun \in [Pockets -> Revisions]
         /\ kind \in {"apt", "fedora"} /\ again \in BOOLEAN
         /\ Pockets = 1 .. LastPocket /\ FileIds = 1 .. Files
         /\ Revisions = 1 .. MaxRevision /\ MaxRevision \in Nat \ {0}
BY BoundsType DEF TypeOK, Pockets, FileIds, Revisions

(* The records are what they are made of. *)
LEMMA RecordTypes ==
  /\ \A d \in Cached : d.content \in Contents
  /\ \A c \in Contents : \A b \in BOOLEAN :
       /\ [content |-> c, fresh |-> b] \in Cached
       /\ [content |-> c, missing |-> b] \in Served
  /\ \A d \in Cached : [d EXCEPT !.fresh = FALSE] \in Cached
BY DEF Cached, Served

(* No index is taken for none. *)
LEMMA NoneIsNone ==
  None \notin Contents /\ None \notin Cached /\ None \notin Served /\ Broken \notin Cached
BY NoneAssumption

(* A published index is one, and whole. *)
LEMMA IndexType ==
  ASSUME TypeOK
  PROVE  Index(listed) \in Contents /\ Whole(Index(listed))
BY SMTT(30), Positions DEF Index, Contents, Whole, LastFile, Pockets, FileIds, Revisions

(* A pocket that is planned, or is known to be missing, is one pocket more *)
(* in order; after the last of them nothing has been read yet. *)
LEMMA PlannedInOrder ==
  ASSUME OpenInv, NEW r \in 0 .. MaxRevision, at = "planning",
         r = 0 <=> Missing(pocket), Planned(pocket, r),
         UNCHANGED <<mirror, file, again, got, done, pocketBytes>>
  PROVE  /\ plan' \in [Pockets -> 0 .. MaxRevision]
         /\ pocket' \in 1 .. (LastPocket + 1) /\ at' \in {"planning", "files"}
         /\ plan[pocket] = 0 /\ plan' = [plan EXCEPT ![pocket] = r]
         /\ pocket \in Pockets
         /\ PlansInOrder' /\ ReadsInOrder' /\ ReportIsCurrent'
         /\ pocketBytes' = 0 /\ Bytes(Only(got', pocket')) = 0
<1> USE DEF OpenInv, PlansInOrder, Missing, mirror
<1>1. /\ plan' \in [Pockets -> 0 .. MaxRevision]
      /\ plan[pocket] = 0 /\ plan' = [plan EXCEPT ![pocket] = r]
      /\ pocket \in Pockets
  BY Positions DEF Planned
<1>2. pocket' \in 1 .. (LastPocket + 1) /\ at' \in {"planning", "files"}
  BY Positions DEF Planned
<1>3. PlansInOrder'
  BY Positions DEF Planned
<1>4. at' = "files" => /\ pocket = LastPocket /\ pocket' = 1 /\ file' = 1
                       /\ got' = Nothing /\ ~again'
  BY Positions DEF Planned
<1>5. at' = "files" => \A p \in Pockets : plan'[p] = 0 <=> Missing(p)'
  BY <1>1, <1>4, Positions
<1>6. ReadsInOrder' /\ ReportIsCurrent'
  BY <1>1, <1>2, <1>4, <1>5, Positions
     DEF ReadsInOrder, ReportIsCurrent, Fetching, ReadSoFar, Nothing, LastFile
<1>7. pocketBytes' = 0 /\ Bytes(Only(got', pocket')) = 0
  <2>1. got' = Nothing /\ pocket' \in Pockets /\ pocketBytes' = 0
    BY <1>2, <1>4, Positions DEF Planned
  <2>2. \A f \in FileIds : got'[pocket'][f] = 0
    BY <2>1 DEF Nothing
  <2> QED BY <2>1, <2>2, NoBytes, OnlyNothing
<1> QED BY <1>1, <1>2, <1>3, <1>6, <1>7

(* The file that is read next: its place, its size, and that it was not    *)
(* read before. *)
LEMMA NextFile ==
  ASSUME OpenInv, HasFile
  PROVE  /\ pocket \in Pockets /\ file \in FileIds /\ got \in Contents
         /\ got[pocket][file] = 0 /\ plan[pocket] \in Revisions
         /\ Size(plan[pocket]) \in Nat \ {0}
         /\ SizeAt(plan[pocket]) = Size(plan[pocket])
         /\ ~Missing(pocket)
<1> USE DEF OpenInv, HasFile
<1>1. /\ pocket \in Pockets /\ file \in FileIds /\ plan[pocket] \in Revisions
      /\ ~Missing(pocket)
  BY Positions DEF ReadsInOrder, Fetching
<1>2. Size(plan[pocket]) \in Nat \ {0} /\ SizeAt(plan[pocket]) = Size(plan[pocket])
  BY <1>1, SizeAssumption, Positions DEF SizeAt
<1>3. got \in Contents
  BY DEF TypeOK
<1>4. got[pocket][file] = 0
  BY <1>1, Positions DEF ReadsInOrder, Fetching, ReadSoFar
<1> QED BY <1>1, <1>2, <1>3, <1>4

(* The call begins: what is listed now is what a refresh asks for. *)
LEMMA BeginInv ==
  ASSUME OpenInv, Begin
  PROVE  OpenInv'
<1> USE DEF OpenInv, Reading, mirror, request, fetching, progress, result
<1>1. TypeOK'
  BY DEF Begin, Unstarted, TypeOK
<1>2. Unstarted'
  BY DEF Begin, Unstarted
<1>3. PlanIsRecent'
  BY Positions DEF Begin, Unstarted, PlanIsRecent, Revisions
<1>4. PlansInOrder'
  BY Positions DEF Begin, Unstarted, PlansInOrder, Missing, Pockets
<1>5. ReadsInOrder'
  BY Positions DEF Begin, Unstarted, ReadsInOrder, Fetching, ReadSoFar,
     Missing, LastFile
<1>6. IndexesAreWhole'
  BY DEF Begin, Unstarted, IndexesAreWhole, Whole, AnswerIsWhole, LastFile
<1>7. AnswersOnce'
  BY DEF Begin, Unstarted, AnswersOnce
<1>8. RefreshIsOnline'
  BY DEF Begin, Unstarted, RefreshIsOnline, TypeOK
<1>9. RefreshIsHonoured'
  BY NoneIsNone DEF Begin, Unstarted, RefreshIsHonoured, AnswersOnce
<1>10. CountsAreTrue'
  BY DEF Begin, Unstarted, CountsAreTrue, PlannedIndex
<1>11. ReportIsCurrent'
  BY Positions DEF Begin, Unstarted, ReportIsCurrent, Fetching
<1> QED BY <1>1, <1>2, <1>3, <1>4, <1>5, <1>6, <1>7, <1>8, <1>9, <1>10,
         <1>11

(* The cache is answered, or kept while the index is fetched. *)
LEMMA ReadCacheInv ==
  ASSUME OpenInv, ReadCache
  PROVE  OpenInv'
<1> USE DEF OpenInv, Reading, mirror, request, fetching, progress, result
<1>1. TypeOK'
  BY RecordTypes DEF ReadCache, Suffices, Answers, Fetches, TypeOK
<1>2. Unstarted'
  BY DEF ReadCache, Suffices, Answers, Fetches, Unstarted
<1>3. PlanIsRecent'
  BY Positions DEF ReadCache, Suffices, Answers, Fetches, PlanIsRecent,
     Revisions
<1>4. PlansInOrder'
  BY Positions DEF ReadCache, Suffices, Answers, Fetches, PlansInOrder,
     Missing, Pockets, Unstarted
<1>5. ReadsInOrder'
  BY Positions DEF ReadCache, Suffices, Answers, Fetches, ReadsInOrder,
     Fetching, ReadSoFar, Missing, LastFile
<1>6. IndexesAreWhole'
  BY DEF ReadCache, Suffices, Answers, Fetches, IndexesAreWhole, Whole,
     AnswerIsWhole, LastFile
<1>7. AnswersOnce'
  BY DEF ReadCache, Suffices, Answers, Fetches, AnswersOnce
<1>8. RefreshIsOnline'
  BY DEF ReadCache, Suffices, Answers, Fetches, RefreshIsOnline, TypeOK
<1>9. RefreshIsHonoured'
  BY NoneIsNone DEF ReadCache, Suffices, Answers, Fetches,
     RefreshIsHonoured, AnswersOnce, RefreshIsOnline
<1>10. CountsAreTrue'
  BY DEF ReadCache, Suffices, Answers, Fetches, CountsAreTrue, PlannedIndex
<1>11. ReportIsCurrent'
  BY Positions DEF ReadCache, Suffices, Answers, Fetches, ReportIsCurrent,
     Fetching
<1> QED BY <1>1, <1>2, <1>3, <1>4, <1>5, <1>6, <1>7, <1>8, <1>9, <1>10,
         <1>11

(* There is no cache. *)
LEMMA NothingCachedInv ==
  ASSUME OpenInv, NothingCached
  PROVE  OpenInv'
<1> USE DEF OpenInv, Reading, mirror, request, fetching, progress, result
<1>1. TypeOK'
  BY DEF NothingCached, NoCache, Errs, Fetches, TypeOK
<1>2. Unstarted'
  BY DEF NothingCached, NoCache, Errs, Fetches, Unstarted
<1>3. PlanIsRecent'
  BY Positions DEF NothingCached, NoCache, Errs, Fetches, PlanIsRecent,
     Revisions
<1>4. PlansInOrder'
  BY Positions DEF NothingCached, NoCache, Errs, Fetches, PlansInOrder,
     Missing, Pockets, Unstarted
<1>5. ReadsInOrder'
  BY Positions DEF NothingCached, NoCache, Errs, Fetches, ReadsInOrder,
     Fetching, ReadSoFar, Missing, LastFile
<1>6. IndexesAreWhole'
  BY DEF NothingCached, NoCache, Errs, Fetches, IndexesAreWhole, Whole,
     AnswerIsWhole, LastFile
<1>7. AnswersOnce'
  BY DEF NothingCached, NoCache, Errs, Fetches, AnswersOnce
<1>8. RefreshIsOnline'
  BY DEF NothingCached, NoCache, Errs, Fetches, RefreshIsOnline, TypeOK
<1>9. RefreshIsHonoured'
  BY DEF NothingCached, NoCache, Errs, Fetches, RefreshIsHonoured,
     AnswersOnce
<1>10. CountsAreTrue'
  BY DEF NothingCached, NoCache, Errs, Fetches, CountsAreTrue, PlannedIndex
<1>11. ReportIsCurrent'
  BY Positions DEF NothingCached, NoCache, Errs, Fetches, ReportIsCurrent,
     Fetching
<1> QED BY <1>1, <1>2, <1>3, <1>4, <1>5, <1>6, <1>7, <1>8, <1>9, <1>10,
         <1>11

(* The cache does not parse. *)
LEMMA CacheIsBrokenInv ==
  ASSUME OpenInv, CacheIsBroken
  PROVE  OpenInv'
<1> USE DEF OpenInv, Reading, mirror, request, fetching, progress, result
<1>1. TypeOK'
  BY DEF CacheIsBroken, TypeOK
<1>2. Unstarted'
  BY DEF CacheIsBroken, Unstarted
<1>3. PlanIsRecent'
  BY Positions DEF CacheIsBroken, PlanIsRecent, Revisions
<1>4. PlansInOrder'
  BY Positions DEF CacheIsBroken, PlansInOrder, Missing, Pockets
<1>5. ReadsInOrder'
  BY Positions DEF CacheIsBroken, ReadsInOrder, Fetching, ReadSoFar,
     Missing, LastFile
<1>6. IndexesAreWhole'
  BY DEF CacheIsBroken, IndexesAreWhole, Whole, AnswerIsWhole, LastFile
<1>7. AnswersOnce'
  BY DEF CacheIsBroken, AnswersOnce
<1>8. RefreshIsOnline'
  BY DEF CacheIsBroken, RefreshIsOnline, TypeOK
<1>9. RefreshIsHonoured'
  BY DEF CacheIsBroken, RefreshIsHonoured, AnswersOnce
<1>10. CountsAreTrue'
  BY DEF CacheIsBroken, CountsAreTrue, PlannedIndex
<1>11. ReportIsCurrent'
  BY Positions DEF CacheIsBroken, ReportIsCurrent, Fetching
<1> QED BY <1>1, <1>2, <1>3, <1>4, <1>5, <1>6, <1>7, <1>8, <1>9, <1>10,
         <1>11

(* Whatever lies under the name of the cache is deleted. *)
LEMMA RemoveCacheInv ==
  ASSUME OpenInv, RemoveCache
  PROVE  OpenInv'
<1> USE DEF OpenInv, Reading, mirror, request, fetching, progress, result
<1>1. TypeOK'
  BY DEF RemoveCache, NoCache, Errs, Fetches, TypeOK
<1>2. Unstarted'
  BY DEF RemoveCache, NoCache, Errs, Fetches, Unstarted
<1>3. PlanIsRecent'
  BY Positions DEF RemoveCache, NoCache, Errs, Fetches, PlanIsRecent,
     Revisions
<1>4. PlansInOrder'
  BY Positions DEF RemoveCache, NoCache, Errs, Fetches, PlansInOrder,
     Missing, Pockets, Unstarted
<1>5. ReadsInOrder'
  BY Positions DEF RemoveCache, NoCache, Errs, Fetches, ReadsInOrder,
     Fetching, ReadSoFar, Missing, LastFile
<1>6. IndexesAreWhole'
  BY NoneIsNone DEF RemoveCache, NoCache, Errs, Fetches, IndexesAreWhole,
     Whole, AnswerIsWhole, LastFile
<1>7. AnswersOnce'
  BY DEF RemoveCache, NoCache, Errs, Fetches, AnswersOnce
<1>8. RefreshIsOnline'
  BY DEF RemoveCache, NoCache, Errs, Fetches, RefreshIsOnline, TypeOK
<1>9. RefreshIsHonoured'
  BY DEF RemoveCache, NoCache, Errs, Fetches, RefreshIsHonoured, AnswersOnce
<1>10. CountsAreTrue'
  BY DEF RemoveCache, NoCache, Errs, Fetches, CountsAreTrue, PlannedIndex
<1>11. ReportIsCurrent'
  BY Positions DEF RemoveCache, NoCache, Errs, Fetches, ReportIsCurrent,
     Fetching
<1> QED BY <1>1, <1>2, <1>3, <1>4, <1>5, <1>6, <1>7, <1>8, <1>9, <1>10,
         <1>11

(* A pocket is planned as it is listed. *)
LEMMA PlanInv ==
  ASSUME OpenInv, Plan
  PROVE  OpenInv'
<1> USE DEF OpenInv, Reading, mirror, request, fetching, progress, result
<1>a. /\ plan' \in [Pockets -> 0 .. MaxRevision]
      /\ pocket' \in 1 .. (LastPocket + 1) /\ at' \in {"planning", "files"}
      /\ plan[pocket] = 0 /\ plan' = [plan EXCEPT ![pocket] = listed[pocket]]
      /\ pocket \in Pockets
      /\ PlansInOrder' /\ ReadsInOrder' /\ ReportIsCurrent'
      /\ pocketBytes' = 0 /\ Bytes(Only(got', pocket')) = 0
  <2>1. listed[pocket] \in 0 .. MaxRevision /\ (listed[pocket] = 0 <=> Missing(pocket))
    BY Positions DEF Plan, PlansInOrder, Missing
  <2>2. /\ at = "planning" /\ Planned(pocket, listed[pocket])
        /\ UNCHANGED <<mirror, file, again, got, done, pocketBytes>>
    BY DEF Plan
  <2> QED BY <2>1, <2>2, PlannedInOrder
<1>1. TypeOK'
  <2>1. LastFile \in Nat /\ Size(listed[pocket]) \in Nat
    BY <1>a, Positions, SizeAssumption DEF LastFile
  <2>2. total' \in Nat
    BY <2>1 DEF Plan, TypeOK
  <2> QED BY <1>a, <2>2 DEF Plan, TypeOK
<1>2. Unstarted'
  BY DEF Plan, Planned, Unstarted
<1>3. PlanIsRecent'
  BY Positions DEF Plan, Planned, PlanIsRecent, Revisions
<1>4. PlansInOrder'
  BY <1>a
<1>5. ReadsInOrder'
  BY <1>a
<1>6. IndexesAreWhole'
  BY DEF Plan, Planned, IndexesAreWhole, Whole, AnswerIsWhole, LastFile
<1>7. AnswersOnce'
  BY DEF Plan, Planned, AnswersOnce
<1>8. RefreshIsOnline'
  BY DEF Plan, Planned, RefreshIsOnline, TypeOK
<1>9. RefreshIsHonoured'
  BY DEF Plan, Planned, RefreshIsHonoured, AnswersOnce
<1>10. CountsAreTrue'
  <2>1. ASSUME kind = "fedora"
        PROVE  total' = Bytes(PlannedIndex(plan'))
    <3>1. total' = total + Size(listed[pocket]) /\ Size(listed[pocket]) \in Nat
      BY SMTT(30), <1>a, <2>1, Positions, SizeAssumption DEF Plan, LastFile, TypeOK
    <3>2. /\ listed[pocket] \in 0 .. MaxRevision
          /\ SizeAt(listed[pocket]) = Size(listed[pocket]) /\ SizeAt(0) = 0
      BY <1>a, Positions DEF SizeAt
    <3>3. Bytes(PlannedIndex([plan EXCEPT ![pocket] = listed[pocket]])) =
            Bytes(PlannedIndex(plan)) - SizeAt(plan[pocket]) + SizeAt(listed[pocket])
      <4>1. plan \in [Pockets -> 0 .. MaxRevision] /\ pocket \in Pockets
        BY <1>a, Positions
      <4> QED BY <3>2, <4>1, BytesPlanned
    <3> QED BY <1>a, <2>1, <3>1, <3>2, <3>3 DEF CountsAreTrue, TypeOK
  <2> QED BY <1>a, <2>1 DEF Plan, CountsAreTrue
<1>11. ReportIsCurrent'
  BY <1>a
<1> QED BY <1>1, <1>2, <1>3, <1>4, <1>5, <1>6, <1>7, <1>8, <1>9, <1>10,
         <1>11

(* A frozen mirror lacks the pocket. *)
LEMMA PocketNotFoundInv ==
  ASSUME OpenInv, PocketNotFound
  PROVE  OpenInv'
<1> USE DEF OpenInv, Reading, mirror, request, fetching, progress, result
<1>a. /\ plan' \in [Pockets -> 0 .. MaxRevision]
      /\ pocket' \in 1 .. (LastPocket + 1) /\ at' \in {"planning", "files"}
      /\ plan[pocket] = 0 /\ plan' = [plan EXCEPT ![pocket] = 0]
      /\ pocket \in Pockets
      /\ PlansInOrder' /\ ReadsInOrder' /\ ReportIsCurrent'
      /\ pocketBytes' = 0 /\ Bytes(Only(got', pocket')) = 0
  <2>1. 0 \in 0 .. MaxRevision /\ (0 = 0 <=> Missing(pocket))
    BY Positions DEF PocketNotFound, PlansInOrder, Missing
  <2>2. /\ at = "planning" /\ Planned(pocket, 0)
        /\ UNCHANGED <<mirror, file, again, got, done, pocketBytes>>
    BY DEF PocketNotFound
  <2> QED BY <2>1, <2>2, PlannedInOrder
<1>1. TypeOK'
  BY <1>a DEF PocketNotFound, TypeOK
<1>2. Unstarted'
  BY DEF PocketNotFound, Planned, Unstarted
<1>3. PlanIsRecent'
  BY Positions DEF PocketNotFound, Planned, PlanIsRecent, Revisions
<1>4. PlansInOrder'
  BY <1>a
<1>5. ReadsInOrder'
  BY <1>a
<1>6. IndexesAreWhole'
  BY DEF PocketNotFound, Planned, IndexesAreWhole, Whole, AnswerIsWhole,
     LastFile
<1>7. AnswersOnce'
  BY DEF PocketNotFound, Planned, AnswersOnce
<1>8. RefreshIsOnline'
  BY DEF PocketNotFound, Planned, RefreshIsOnline, TypeOK
<1>9. RefreshIsHonoured'
  BY DEF PocketNotFound, Planned, RefreshIsHonoured, AnswersOnce
<1>10. CountsAreTrue'
  <2>1. plan' = plan
    BY <1>a, Positions
  <2> QED BY <1>a, <2>1 DEF PocketNotFound, CountsAreTrue
<1>11. ReportIsCurrent'
  BY <1>a
<1> QED BY <1>1, <1>2, <1>3, <1>4, <1>5, <1>6, <1>7, <1>8, <1>9, <1>10,
         <1>11

(* A pocket without a plan is passed over. *)
LEMMA SkipPocketInv ==
  ASSUME OpenInv, SkipPocket
  PROVE  OpenInv'
<1> USE DEF OpenInv, Reading, mirror, request, fetching, progress, result
<1>1. TypeOK'
  <2>1. pocket' \in 1 .. (LastPocket + 1)
    BY Positions DEF SkipPocket
  <2> QED BY <2>1 DEF SkipPocket, TypeOK
<1>2. Unstarted'
  BY DEF SkipPocket, Unstarted
<1>3. PlanIsRecent'
  BY Positions DEF SkipPocket, PlanIsRecent, Revisions
<1>4. PlansInOrder'
  BY Positions DEF SkipPocket, PlansInOrder, Missing, Pockets
<1>5. ReadsInOrder'
  BY Positions DEF SkipPocket, ReadsInOrder, Fetching, ReadSoFar, Missing,
     LastFile
<1>6. IndexesAreWhole'
  BY DEF SkipPocket, IndexesAreWhole, Whole, AnswerIsWhole, LastFile
<1>7. AnswersOnce'
  BY DEF SkipPocket, AnswersOnce
<1>8. RefreshIsOnline'
  BY DEF SkipPocket, RefreshIsOnline, TypeOK
<1>9. RefreshIsHonoured'
  BY DEF SkipPocket, RefreshIsHonoured, AnswersOnce
<1>10. CountsAreTrue'
  <2>1. /\ pocket \in Pockets /\ got \in Contents
        /\ \A p \in {pocket, pocket + 1} \cap Pockets :
             \A f \in FileIds : got[p][f] = 0
    <3>1. pocket \in Pockets /\ got \in Contents
      BY Positions DEF SkipPocket, TypeOK
    <3>2. \A f \in FileIds : ~ReadSoFar(pocket + 1, f)
      BY <3>1, Positions DEF ReadSoFar
    <3> QED BY <3>1, <3>2 DEF SkipPocket, ReadsInOrder, Fetching
  <2>2. \A p \in {pocket, pocket + 1} \cap Pockets : Bytes(Only(got, p)) = 0
    BY <2>1, OnlyNothing
  <2>3. pocket' <= LastPocket => pocket' \in {pocket, pocket + 1} \cap Pockets
    BY Positions DEF SkipPocket
  <2> QED BY <2>1, <2>2, <2>3, Positions DEF SkipPocket, CountsAreTrue
<1>11. ReportIsCurrent'
  <2>1. Missing(pocket)
    BY Positions DEF SkipPocket, ReadsInOrder, Fetching
  <2> QED BY <2>1, Positions DEF SkipPocket, ReportIsCurrent, Fetching, Missing
<1> QED BY <1>1, <1>2, <1>3, <1>4, <1>5, <1>6, <1>7, <1>8, <1>9, <1>10,
         <1>11

(* A file is the listed one. *)
LEMMA FileMatchesInv ==
  ASSUME OpenInv, FileMatches
  PROVE  OpenInv'
<1> USE DEF OpenInv, Reading, mirror, request, fetching, progress, result
<1>a. /\ pocket \in Pockets /\ file \in FileIds /\ got \in Contents
      /\ got[pocket][file] = 0 /\ plan[pocket] \in Revisions
      /\ Size(plan[pocket]) \in Nat \ {0}
      /\ SizeAt(plan[pocket]) = Size(plan[pocket])
  BY NextFile DEF FileMatches
<1>b. /\ got' \in Contents /\ Bytes(got') = Bytes(got) + Size(plan[pocket])
      /\ got' = [got EXCEPT ![pocket][file] = plan[pocket]]
  <2>1. plan[pocket] \in 0 .. MaxRevision
    BY <1>a, Positions
  <2>2. got' = [got EXCEPT ![pocket][file] = plan[pocket]]
    BY DEF FileMatches
  <2>3. /\ [got EXCEPT ![pocket][file] = plan[pocket]] \in Contents
        /\ Bytes([got EXCEPT ![pocket][file] = plan[pocket]]) =
             Bytes(got) + SizeAt(plan[pocket])
    BY <1>a, <2>1, BytesOfMore
  <2> QED BY <1>a, <2>2, <2>3
<1>c. \/ /\ file = LastFile /\ pocket' = pocket + 1 /\ file' = 1
         /\ pocketBytes' = 0 /\ again' = FALSE
      \/ /\ file # LastFile /\ pocket' = pocket /\ file' = file + 1
         /\ pocketBytes' = pocketBytes + Size(plan[pocket]) /\ again' = again
  BY DEF FileMatches
<1>1. TypeOK'
  <2>1. pocket' \in 1 .. (LastPocket + 1) /\ file' \in FileIds /\ pocketBytes' \in Nat
    <3>1. file <= LastFile /\ LastFile \in FileIds
      BY Positions DEF LastFile, ReadsInOrder, Fetching, FileMatches, HasFile
    <3>2. pocketBytes \in Nat
      BY DEF TypeOK
    <3> HIDE DEF LastFile
    <3> QED BY SMTT(30), <1>a, <1>c, <3>1, <3>2, Positions
  <2>2. done' \in Nat /\ reported' \in Nat \X Nat
    BY <1>a DEF FileMatches, Read, TypeOK
  <2>3. again' \in BOOLEAN
    BY <1>c, Positions
  <2> QED BY <1>b, <2>1, <2>2, <2>3 DEF FileMatches, HasFile, TypeOK
<1>2. Unstarted'
  BY DEF FileMatches, HasFile, Matches, Read, Unstarted
<1>3. PlanIsRecent'
  BY Positions DEF FileMatches, HasFile, Matches, Read, PlanIsRecent,
     Revisions
<1>4. PlansInOrder'
  BY Positions DEF FileMatches, HasFile, Matches, Read, PlansInOrder,
     Missing, Pockets
<1>5. ReadsInOrder'
  <2>1. /\ LastFile' = LastFile /\ at = "files" /\ at' = at /\ plan' = plan
        /\ frozen' = frozen
    BY DEF FileMatches, HasFile, LastFile
  <2>2. \A p \in Pockets, f \in FileIds :
          got'[p][f] = IF p = pocket /\ f = file THEN plan[pocket] ELSE got[p][f]
    BY <1>a, <1>b DEF Contents
  <2>3. \A p \in Pockets, f \in FileIds :
          ReadSoFar(p, f)' <=> ReadSoFar(p, f) \/ (p = pocket /\ f = file)
    BY SMTT(30), <1>a, <1>c, <2>1, Positions DEF ReadSoFar, ReadsInOrder, Fetching, LastFile
  <2>4. \A p \in Pockets, f \in FileIds :
          got'[p][f] = IF ReadSoFar(p, f)' THEN plan'[p] ELSE 0
    BY <2>1, <2>2, <2>3 DEF ReadsInOrder, Fetching
  <2> HIDE DEF LastFile
  <2>5. file' <= LastFile' /\ (file' > 1 => pocket' <= LastPocket /\ plan'[pocket'] # 0)
    BY <1>a, <1>c, <2>1, Positions DEF ReadsInOrder, Fetching, LastFile
  <2> QED
    BY <1>a, <1>c, <2>1, <2>4, <2>5, Positions DEF ReadsInOrder, Fetching, Missing
<1>6. IndexesAreWhole'
  BY DEF FileMatches, HasFile, Matches, Read, IndexesAreWhole, Whole,
     AnswerIsWhole, LastFile
<1>7. AnswersOnce'
  BY DEF FileMatches, HasFile, Matches, Read, AnswersOnce
<1>8. RefreshIsOnline'
  BY DEF FileMatches, HasFile, Matches, Read, RefreshIsOnline, TypeOK
<1>9. RefreshIsHonoured'
  BY DEF FileMatches, HasFile, Matches, Read, RefreshIsHonoured, AnswersOnce
<1>10. CountsAreTrue'
  <2>1. done' = Bytes(got')
    BY <1>b DEF FileMatches, CountsAreTrue
  <2>2. ASSUME pocket' <= LastPocket
        PROVE  pocketBytes' = Bytes(Only(got', pocket'))
    <3>1. CASE file = LastFile
      <4>1. pocket' \in Pockets /\ \A f \in FileIds : got'[pocket'][f] = 0
        <5>1. /\ pocket' = pocket + 1 /\ pocket' \in Pockets
              /\ \A f \in FileIds : ~ReadSoFar(pocket', f)
          BY <1>a, <1>c, <2>2, <3>1, Positions DEF ReadSoFar
        <5>2. \A f \in FileIds : got[pocket'][f] = 0
          BY <5>1 DEF ReadsInOrder, Fetching, FileMatches, HasFile
        <5> QED BY <1>a, <1>b, <5>1, <5>2 DEF Contents
      <4> QED BY <1>b, <1>c, <3>1, <4>1, OnlyNothing
    <3>2. CASE file # LastFile
      <4>1. Only(got', pocket') = [Only(got, pocket) EXCEPT ![pocket][file] = plan[pocket]]
        BY <1>a, <1>b, <1>c, <3>2, NoBytes DEF Only, Contents
      <4>2. Only(got, pocket) \in Contents /\ Only(got, pocket)[pocket][file] = 0
        BY <1>a, BytesOfPocket, NoBytes DEF Only, Contents
      <4>3. Bytes(Only(got', pocket')) = Bytes(Only(got, pocket)) + SizeAt(plan[pocket])
        <5>1. plan[pocket] \in 0 .. MaxRevision
          BY <1>a, Positions
        <5>2. Bytes([Only(got, pocket) EXCEPT ![pocket][file] = plan[pocket]]) =
                Bytes(Only(got, pocket)) + SizeAt(plan[pocket])
          BY <1>a, <4>2, <5>1, BytesOfMore
        <5> QED BY <4>1, <5>2
      <4> QED
        BY <1>a, <1>c, <3>2, <4>3, Positions DEF CountsAreTrue, FileMatches, HasFile
    <3> QED BY <3>1, <3>2
  <2> QED BY <2>1, <2>2 DEF FileMatches, CountsAreTrue
<1>11. ReportIsCurrent'
  BY <1>a DEF FileMatches, Read, ReportIsCurrent
<1> QED BY <1>1, <1>2, <1>3, <1>4, <1>5, <1>6, <1>7, <1>8, <1>9, <1>10,
         <1>11

(* A file is not, and its pocket is read again. *)
LEMMA FileChangedInv ==
  ASSUME OpenInv, FileChanged
  PROVE  OpenInv'
<1> USE DEF OpenInv, Reading, mirror, request, fetching, progress, result
<1>a. /\ pocket \in Pockets /\ got \in Contents /\ plan[pocket] \in Revisions
      /\ Size(plan[pocket]) \in Nat \ {0}
  BY NextFile DEF FileChanged
<1>b. /\ got' = [got EXCEPT ![pocket] = Nothing[pocket]] /\ got' \in Contents
      /\ Bytes(got') = Bytes(got) - Bytes(Only(got, pocket))
      /\ Bytes(got') \in Nat
  BY <1>a, BytesOfPocket, BytesFinite DEF FileChanged, WholePocket
<1>c. done' = Bytes(got') /\ pocketBytes' = 0
  BY <1>b, Positions DEF FileChanged, TakenBack, CountsAreTrue, HasFile
<1>1. TypeOK'
  <2>1. ChangedAfter \subseteq Nat
    BY <1>a DEF ChangedAfter
  <2>2. reported' \in Nat \X Nat
    BY <2>1 DEF FileChanged, Read, TypeOK
  <2>3. file' \in FileIds
    BY Positions DEF FileChanged, WholePocket
  <2> QED BY <1>b, <1>c, <2>2, <2>3 DEF FileChanged, TypeOK
<1>2. Unstarted'
  BY DEF FileChanged, HasFile, OnceMore, Matches, Read, ChangedAfter,
     TakenBack, WholePocket, Unstarted
<1>3. PlanIsRecent'
  BY Positions DEF FileChanged, HasFile, OnceMore, Matches, Read,
     ChangedAfter, TakenBack, WholePocket, PlanIsRecent, Revisions
<1>4. PlansInOrder'
  BY Positions DEF FileChanged, HasFile, OnceMore, Matches, Read,
     ChangedAfter, TakenBack, WholePocket, PlansInOrder, Missing, Pockets
<1>5. ReadsInOrder'
  <2>1. \A p \in Pockets, f \in FileIds :
          got'[p][f] = IF p = pocket THEN 0 ELSE got[p][f]
    BY <1>a, <1>b DEF Contents, Nothing
  <2>2. file' = 1 /\ LastFile' = LastFile /\ 1 <= LastFile
    BY Positions DEF FileChanged, WholePocket, LastFile
  <2>3. \A p \in Pockets, f \in FileIds :
          ReadSoFar(p, f)' <=> ReadSoFar(p, f) /\ p # pocket
    BY <1>a, <2>2, Positions DEF FileChanged, ReadSoFar
  <2> QED
    BY SMTT(30), <1>a, <2>1, <2>2, <2>3, Positions
       DEF FileChanged, HasFile, ReadsInOrder, Fetching, Missing
<1>6. IndexesAreWhole'
  BY DEF FileChanged, HasFile, OnceMore, Matches, Read, ChangedAfter,
     TakenBack, WholePocket, IndexesAreWhole, Whole, AnswerIsWhole, LastFile
<1>7. AnswersOnce'
  BY DEF FileChanged, HasFile, OnceMore, Matches, Read, ChangedAfter,
     TakenBack, WholePocket, AnswersOnce
<1>8. RefreshIsOnline'
  BY DEF FileChanged, HasFile, OnceMore, Matches, Read, ChangedAfter,
     TakenBack, WholePocket, RefreshIsOnline, TypeOK
<1>9. RefreshIsHonoured'
  BY DEF FileChanged, HasFile, OnceMore, Matches, Read, ChangedAfter,
     TakenBack, WholePocket, RefreshIsHonoured, AnswersOnce
<1>10. CountsAreTrue'
  <2>1. \A f \in FileIds : got'[pocket][f] = 0
    BY <1>a, <1>b DEF Contents, Nothing
  <2>2. Bytes(Only(got', pocket)) = 0
    BY <1>a, <1>b, <2>1, OnlyNothing
  <2> QED BY <1>c, <2>2 DEF FileChanged, CountsAreTrue
<1>11. ReportIsCurrent'
  BY Positions DEF FileChanged, HasFile, OnceMore, Matches, Read,
     ChangedAfter, TakenBack, WholePocket, ReportIsCurrent, Fetching
<1> QED BY <1>1, <1>2, <1>3, <1>4, <1>5, <1>6, <1>7, <1>8, <1>9, <1>10,
         <1>11

(* The pocket is planned again, as it is listed by now. *)
LEMMA ReplanInv ==
  ASSUME OpenInv, Replan
  PROVE  OpenInv'
<1> USE DEF OpenInv, Reading, mirror, request, fetching, progress, result
<1>a. /\ pocket \in Pockets /\ plan[pocket] # 0 /\ ~Missing(pocket)
      /\ plan' = [plan EXCEPT ![pocket] = listed[pocket]]
      /\ plan' \in [Pockets -> 0 .. MaxRevision] /\ plan'[pocket] = listed[pocket]
      /\ \A p \in Pockets : p # pocket => plan'[p] = plan[p]
      /\ listed[pocket] \in Revisions
  BY Positions DEF Replan, ReadsInOrder, Fetching
<1>b. kind = "fedora" => total' = Bytes(PlannedIndex(plan')) /\ total' \in Nat
  <2>1. /\ SizeAt(listed[pocket]) = Size(listed[pocket])
        /\ SizeAt(plan[pocket]) = Size(plan[pocket])
        /\ listed[pocket] \in 0 .. MaxRevision /\ plan[pocket] \in 0 .. MaxRevision
    BY <1>a, Positions DEF SizeAt
  <2>2. /\ Bytes(PlannedIndex(plan')) = Bytes(PlannedIndex(plan))
             - SizeAt(plan[pocket]) + SizeAt(listed[pocket])
        /\ Bytes(PlannedIndex(plan)) \in Nat /\ Bytes(PlannedIndex(plan')) \in Nat
    <3>1. plan \in [Pockets -> 0 .. MaxRevision]
      BY Positions
    <3>2. /\ pocket \in Pockets /\ listed[pocket] \in 0 .. MaxRevision
          /\ plan' = [plan EXCEPT ![pocket] = listed[pocket]]
      BY <1>a, <2>1
    <3>3. /\ Bytes(PlannedIndex(plan)) \in Nat
          /\ Bytes(PlannedIndex(plan')) =
               Bytes(PlannedIndex(plan)) - SizeAt(plan[pocket]) + SizeAt(listed[pocket])
      BY <3>1, <3>2, BytesPlanned
    <3>4. Bytes(PlannedIndex(plan')) \in Nat
      BY <1>a, <2>1, BytesPlanned
    <3> QED BY <1>a, <3>3, <3>4
  <2>3. SizeAt(plan[pocket]) \in Nat /\ SizeAt(listed[pocket]) \in Nat
    BY <2>1, SizeAtType
  <2> QED BY <2>1, <2>2, <2>3 DEF Replan, NewTotal, CountsAreTrue
<1>1. TypeOK'
  <2>1. total' \in Nat
    BY <1>b DEF Replan, NewTotal, TypeOK
  <2> QED BY <1>a, <2>1 DEF Replan, TypeOK
<1>2. Unstarted'
  BY DEF Replan, NewTotal, Unstarted
<1>3. PlanIsRecent'
  BY Positions DEF Replan, NewTotal, PlanIsRecent, Revisions
<1>4. PlansInOrder'
  BY Positions DEF Replan, NewTotal, PlansInOrder, Missing, Pockets
<1>5. ReadsInOrder'
  <2>1. \A f \in FileIds : ~ReadSoFar(pocket, f)
    BY Positions DEF Replan, ReadsInOrder, Fetching, ReadSoFar
  <2>2. LastFile' = LastFile
    BY DEF Replan, LastFile
  <2> QED
    BY SMTT(30), <1>a, <2>1, <2>2, Positions
       DEF Replan, ReadsInOrder, Fetching, ReadSoFar, Missing
<1>6. IndexesAreWhole'
  BY DEF Replan, NewTotal, IndexesAreWhole, Whole, AnswerIsWhole, LastFile
<1>7. AnswersOnce'
  BY DEF Replan, NewTotal, AnswersOnce
<1>8. RefreshIsOnline'
  BY DEF Replan, NewTotal, RefreshIsOnline, TypeOK
<1>9. RefreshIsHonoured'
  BY DEF Replan, NewTotal, RefreshIsHonoured, AnswersOnce
<1>10. CountsAreTrue'
  BY <1>b DEF Replan, CountsAreTrue
<1>11. ReportIsCurrent'
  BY Positions DEF Replan, NewTotal, ReportIsCurrent, Fetching, ReadsInOrder
<1> QED BY <1>1, <1>2, <1>3, <1>4, <1>5, <1>6, <1>7, <1>8, <1>9, <1>10,
         <1>11

(* The fetch fails: what was cached is answered, or an error. *)
LEMMA FetchFailsInv ==
  ASSUME OpenInv, FetchFails
  PROVE  OpenInv'
<1> USE DEF OpenInv, Reading, mirror, request, fetching, progress, result
<1>1. TypeOK'
  <2>1. /\ answer' \in Served \cup {None} /\ at' = "done"
        /\ error' \in {"none", "unavailable", "toolong", "ended"}
    BY RecordTypes DEF FetchFails, FailsWith, Answers, Errs, TypeOK
  <2> QED BY <2>1 DEF FetchFails, TypeOK
<1>2. Unstarted'
  BY DEF FetchFails, FailsWith, Answers, Errs, Unstarted
<1>3. PlanIsRecent'
  BY Positions DEF FetchFails, FailsWith, Answers, Errs, PlanIsRecent,
     Revisions
<1>4. PlansInOrder'
  BY Positions DEF FetchFails, FailsWith, Answers, Errs, PlansInOrder,
     Missing, Pockets
<1>5. ReadsInOrder'
  BY Positions DEF FetchFails, FailsWith, Answers, Errs, ReadsInOrder,
     Fetching, ReadSoFar, Missing, LastFile
<1>6. IndexesAreWhole'
  BY DEF FetchFails, FailsWith, Answers, Errs, IndexesAreWhole, Whole,
     AnswerIsWhole, LastFile
<1>7. AnswersOnce'
  BY DEF FetchFails, FailsWith, Answers, Errs, AnswersOnce
<1>8. RefreshIsOnline'
  BY DEF FetchFails, FailsWith, Answers, Errs, RefreshIsOnline, TypeOK
<1>9. RefreshIsHonoured'
  BY DEF FetchFails, FailsWith, Answers, Errs, RefreshIsHonoured,
     AnswersOnce
<1>10. CountsAreTrue'
  BY DEF FetchFails, FailsWith, Answers, Errs, CountsAreTrue, PlannedIndex
<1>11. ReportIsCurrent'
  BY Positions DEF FetchFails, FailsWith, Answers, Errs, ReportIsCurrent,
     Fetching
<1> QED BY <1>1, <1>2, <1>3, <1>4, <1>5, <1>6, <1>7, <1>8, <1>9, <1>10,
         <1>11

(* A file is longer than listed, which fails the fetch. *)
LEMMA FileTooLongInv ==
  ASSUME OpenInv, FileTooLong
  PROVE  OpenInv'
<1> USE DEF OpenInv, Reading, mirror, request, fetching, progress, result
<1>1. TypeOK'
  <2>1. /\ answer' \in Served \cup {None} /\ at' = "done"
        /\ error' \in {"none", "unavailable", "toolong", "ended"}
    BY RecordTypes DEF FileTooLong, FailsWith, Answers, Errs, TypeOK
  <2>2. reported' \in Nat \X Nat
    BY NextFile DEF FileTooLong, Read, TypeOK
  <2> QED BY <2>1, <2>2 DEF FileTooLong, TypeOK
<1>2. Unstarted'
  BY DEF FileTooLong, HasFile, Read, FailsWith, Answers, Errs, Unstarted
<1>3. PlanIsRecent'
  BY Positions DEF FileTooLong, HasFile, Read, FailsWith, Answers, Errs,
     PlanIsRecent, Revisions
<1>4. PlansInOrder'
  BY Positions DEF FileTooLong, HasFile, Read, FailsWith, Answers, Errs,
     PlansInOrder, Missing, Pockets
<1>5. ReadsInOrder'
  BY Positions DEF FileTooLong, HasFile, Read, FailsWith, Answers, Errs,
     ReadsInOrder, Fetching, ReadSoFar, Missing, LastFile
<1>6. IndexesAreWhole'
  BY DEF FileTooLong, HasFile, Read, FailsWith, Answers, Errs,
     IndexesAreWhole, Whole, AnswerIsWhole, LastFile
<1>7. AnswersOnce'
  BY DEF FileTooLong, HasFile, Read, FailsWith, Answers, Errs, AnswersOnce
<1>8. RefreshIsOnline'
  BY DEF FileTooLong, HasFile, Read, FailsWith, Answers, Errs,
     RefreshIsOnline, TypeOK
<1>9. RefreshIsHonoured'
  BY DEF FileTooLong, HasFile, Read, FailsWith, Answers, Errs,
     RefreshIsHonoured, AnswersOnce
<1>10. CountsAreTrue'
  BY DEF FileTooLong, HasFile, Read, FailsWith, Answers, Errs,
     CountsAreTrue, PlannedIndex
<1>11. ReportIsCurrent'
  BY Positions DEF FileTooLong, HasFile, Read, FailsWith, Answers, Errs,
     ReportIsCurrent, Fetching
<1> QED BY <1>1, <1>2, <1>3, <1>4, <1>5, <1>6, <1>7, <1>8, <1>9, <1>10,
         <1>11

(* All pockets are read. *)
LEMMA FetchedInv ==
  ASSUME OpenInv, Fetched
  PROVE  OpenInv'
<1> USE DEF OpenInv, Reading, mirror, request, fetching, progress, result
<1>1. TypeOK'
  BY DEF Fetched, TypeOK
<1>2. Unstarted'
  BY DEF Fetched, Unstarted
<1>3. PlanIsRecent'
  BY Positions DEF Fetched, PlanIsRecent, Revisions
<1>4. PlansInOrder'
  BY Positions DEF Fetched, PlansInOrder, Missing, Pockets
<1>5. ReadsInOrder'
  BY Positions DEF Fetched, ReadsInOrder, Fetching, ReadSoFar, Missing,
     LastFile
<1>6. IndexesAreWhole'
  BY DEF Fetched, IndexesAreWhole, Whole, AnswerIsWhole, LastFile
<1>7. AnswersOnce'
  BY DEF Fetched, AnswersOnce
<1>8. RefreshIsOnline'
  BY DEF Fetched, RefreshIsOnline, TypeOK
<1>9. RefreshIsHonoured'
  BY DEF Fetched, RefreshIsHonoured, AnswersOnce
<1>10. CountsAreTrue'
  BY DEF Fetched, CountsAreTrue, PlannedIndex
<1>11. ReportIsCurrent'
  BY Positions DEF Fetched, ReportIsCurrent, Fetching
<1> QED BY <1>1, <1>2, <1>3, <1>4, <1>5, <1>6, <1>7, <1>8, <1>9, <1>10,
         <1>11

(* What was read is answered, and cached if it can be. *)
LEMMA WriteCacheInv ==
  ASSUME OpenInv, WriteCache
  PROVE  OpenInv'
<1> USE DEF OpenInv, Reading, mirror, request, fetching, progress, result
<1>1. TypeOK'
  BY ZenonT(40), RecordTypes DEF WriteCache, Answers, TypeOK
<1>2. Unstarted'
  BY DEF WriteCache, Answers, Unstarted
<1>3. PlanIsRecent'
  BY Positions DEF WriteCache, Answers, PlanIsRecent, Revisions
<1>4. PlansInOrder'
  BY Positions DEF WriteCache, Answers, PlansInOrder, Missing, Pockets
<1>5. ReadsInOrder'
  BY Positions DEF WriteCache, Answers, ReadsInOrder, Fetching, ReadSoFar,
     Missing, LastFile
<1>6. IndexesAreWhole'
  <2>1. /\ LastFile \in FileIds /\ LastFile' = LastFile /\ frozen' = frozen
        /\ at = "writing"
    BY Positions DEF WriteCache, LastFile
  <2>2. \A p \in Pockets, f \in 1 .. LastFile : got[p][f] = plan[p]
    <3>1. \A p \in Pockets, f \in 1 .. LastFile : f \in FileIds /\ ReadSoFar(p, f)
      BY <2>1, Positions DEF ReadsInOrder, Fetching, ReadSoFar
    <3> QED BY <2>1, <3>1 DEF ReadsInOrder, Fetching
  <2>3. Whole(got)
    BY SMTT(30), <2>1, <2>2, Positions DEF Whole, ReadsInOrder, Fetching, Missing
  <2> QED
    <3>1. Whole(got)' /\ (cached # None => Whole(cached)')
      BY <2>1, <2>3 DEF WriteCache, IndexesAreWhole, Whole
    <3>2. disk' = disk => (disk \in Cached => Whole(disk.content))'
      BY <2>1 DEF WriteCache, IndexesAreWhole, AnswerIsWhole, Whole
    <3>3. /\ answer'.content = got' /\ cached' = cached
          /\ disk'.content = got' \/ disk' = disk
      BY DEF WriteCache, Answers
    <3> QED BY <3>1, <3>2, <3>3 DEF IndexesAreWhole, AnswerIsWhole, Whole
<1>7. AnswersOnce'
  BY DEF WriteCache, Answers, AnswersOnce
<1>8. RefreshIsOnline'
  BY DEF WriteCache, Answers, RefreshIsOnline, TypeOK
<1>9. RefreshIsHonoured'
  <2>1. 1 \in FileIds /\ 1 <= LastFile /\ at = "writing"
    BY Positions DEF WriteCache, LastFile
  <2>2. \A p \in Pockets : got[p][1] = plan[p]
    BY <2>1, Positions DEF ReadsInOrder, Fetching, ReadSoFar
  <2> QED BY <2>2 DEF WriteCache, Answers, RefreshIsHonoured, PlanIsRecent
<1>10. CountsAreTrue'
  BY DEF WriteCache, Answers, CountsAreTrue, PlannedIndex
<1>11. ReportIsCurrent'
  BY Positions DEF WriteCache, Answers, ReportIsCurrent, Fetching
<1> QED BY <1>1, <1>2, <1>3, <1>4, <1>5, <1>6, <1>7, <1>8, <1>9, <1>10,
         <1>11

(* The caller gives up, or its deadline passes. *)
LEMMA EndContextInv ==
  ASSUME OpenInv, EndContext
  PROVE  OpenInv'
<1> USE DEF OpenInv, Reading, mirror, request, fetching, progress, result
<1>1. TypeOK'
  BY DEF EndContext, Running, TypeOK
<1>2. Unstarted'
  BY DEF EndContext, Running, Unstarted
<1>3. PlanIsRecent'
  BY Positions DEF EndContext, Running, PlanIsRecent, Revisions
<1>4. PlansInOrder'
  BY Positions DEF EndContext, Running, PlansInOrder, Missing, Pockets
<1>5. ReadsInOrder'
  BY Positions DEF EndContext, Running, ReadsInOrder, Fetching, ReadSoFar,
     Missing, LastFile
<1>6. IndexesAreWhole'
  BY DEF EndContext, Running, IndexesAreWhole, Whole, AnswerIsWhole,
     LastFile
<1>7. AnswersOnce'
  BY DEF EndContext, Running, AnswersOnce
<1>8. RefreshIsOnline'
  BY DEF EndContext, Running, RefreshIsOnline, TypeOK
<1>9. RefreshIsHonoured'
  BY DEF EndContext, Running, RefreshIsHonoured, AnswersOnce
<1>10. CountsAreTrue'
  BY DEF EndContext, Running, CountsAreTrue, PlannedIndex
<1>11. ReportIsCurrent'
  BY Positions DEF EndContext, Running, ReportIsCurrent, Fetching
<1> QED BY <1>1, <1>2, <1>3, <1>4, <1>5, <1>6, <1>7, <1>8, <1>9, <1>10,
         <1>11

(* The mirror publishes files before it lists them, or lists them since. *)
LEMMA PublishFilesInv ==
  ASSUME OpenInv, NEW p \in Pockets, PublishFiles(p)
  PROVE  OpenInv'
<1> USE DEF OpenInv, Reading, mirror, request, fetching, progress, result
<1>1. TypeOK'
  <2>1. served' \in [Pockets -> Revisions]
    <3>1. served \in [Pockets -> Revisions]
      BY DEF TypeOK
    <3> QED BY <3>1, Positions DEF PublishFiles
  <2> QED BY <2>1 DEF PublishFiles, TypeOK
<1>2. Unstarted'
  BY DEF PublishFiles, Unstarted
<1>3. PlanIsRecent'
  BY Positions DEF PublishFiles, PlanIsRecent, Revisions
<1>4. PlansInOrder'
  BY Positions DEF PublishFiles, PlansInOrder, Missing, Pockets
<1>5. ReadsInOrder'
  BY Positions DEF PublishFiles, ReadsInOrder, Fetching, ReadSoFar, Missing,
     LastFile
<1>6. IndexesAreWhole'
  BY DEF PublishFiles, IndexesAreWhole, Whole, AnswerIsWhole, LastFile
<1>7. AnswersOnce'
  BY DEF PublishFiles, AnswersOnce
<1>8. RefreshIsOnline'
  BY DEF PublishFiles, RefreshIsOnline, TypeOK
<1>9. RefreshIsHonoured'
  BY DEF PublishFiles, RefreshIsHonoured, AnswersOnce
<1>10. CountsAreTrue'
  BY DEF PublishFiles, CountsAreTrue, PlannedIndex
<1>11. ReportIsCurrent'
  BY Positions DEF PublishFiles, ReportIsCurrent, Fetching
<1> QED BY <1>1, <1>2, <1>3, <1>4, <1>5, <1>6, <1>7, <1>8, <1>9, <1>10,
         <1>11

(* The mirror lists what it publishes. *)
LEMMA PublishListInv ==
  ASSUME OpenInv, NEW p \in Pockets, PublishList(p)
  PROVE  OpenInv'
<1> USE DEF OpenInv, Reading, mirror, request, fetching, progress, result
<1>1. TypeOK'
  <2>1. listed' \in [Pockets -> Revisions]
    <3>1. listed \in [Pockets -> Revisions]
      BY DEF TypeOK
    <3> QED BY <3>1, Positions DEF PublishList
  <2> QED BY <2>1 DEF PublishList, TypeOK
<1>2. Unstarted'
  BY DEF PublishList, Unstarted
<1>3. PlanIsRecent'
  BY Positions DEF PublishList, PlanIsRecent, Revisions
<1>4. PlansInOrder'
  BY Positions DEF PublishList, PlansInOrder, Missing, Pockets
<1>5. ReadsInOrder'
  BY Positions DEF PublishList, ReadsInOrder, Fetching, ReadSoFar, Missing,
     LastFile
<1>6. IndexesAreWhole'
  BY DEF PublishList, IndexesAreWhole, Whole, AnswerIsWhole, LastFile
<1>7. AnswersOnce'
  BY DEF PublishList, AnswersOnce
<1>8. RefreshIsOnline'
  BY DEF PublishList, RefreshIsOnline, TypeOK
<1>9. RefreshIsHonoured'
  BY DEF PublishList, RefreshIsHonoured, AnswersOnce
<1>10. CountsAreTrue'
  BY DEF PublishList, CountsAreTrue, PlannedIndex
<1>11. ReportIsCurrent'
  BY Positions DEF PublishList, ReportIsCurrent, Fetching
<1> QED BY <1>1, <1>2, <1>3, <1>4, <1>5, <1>6, <1>7, <1>8, <1>9, <1>10,
         <1>11

(* Another process writes a whole index into the cache. *)
LEMMA OtherWritesInv ==
  ASSUME OpenInv, OtherWrites
  PROVE  OpenInv'
<1> USE DEF OpenInv, Reading, mirror, request, fetching, progress, result
<1>1. TypeOK'
  <2>1. disk' \in Cached
    BY RecordTypes, IndexType DEF OtherWrites
  <2> QED BY <2>1 DEF OtherWrites, TypeOK
<1>2. Unstarted'
  BY DEF OtherWrites, Running, Unstarted
<1>3. PlanIsRecent'
  BY Positions DEF OtherWrites, Running, PlanIsRecent, Revisions
<1>4. PlansInOrder'
  BY Positions DEF OtherWrites, Running, PlansInOrder, Missing, Pockets
<1>5. ReadsInOrder'
  BY Positions DEF OtherWrites, Running, ReadsInOrder, Fetching, ReadSoFar,
     Missing, LastFile
<1>6. IndexesAreWhole'
  BY RecordTypes, IndexType DEF OtherWrites, Running, IndexesAreWhole,
     Whole, AnswerIsWhole, LastFile
<1>7. AnswersOnce'
  BY DEF OtherWrites, Running, AnswersOnce
<1>8. RefreshIsOnline'
  BY DEF OtherWrites, Running, RefreshIsOnline, TypeOK
<1>9. RefreshIsHonoured'
  BY DEF OtherWrites, Running, RefreshIsHonoured, AnswersOnce
<1>10. CountsAreTrue'
  BY DEF OtherWrites, Running, CountsAreTrue, PlannedIndex
<1>11. ReportIsCurrent'
  BY Positions DEF OtherWrites, Running, ReportIsCurrent, Fetching
<1> QED BY <1>1, <1>2, <1>3, <1>4, <1>5, <1>6, <1>7, <1>8, <1>9, <1>10,
         <1>11

(* The index is opened once more. *)
LEMMA AgainInv ==
  ASSUME OpenInv, Again
  PROVE  OpenInv'
<1> USE DEF OpenInv, Reading, mirror, request, fetching, progress, result
<1>1. TypeOK'
  <2>1. disk' \in Cached \cup {None, Broken}
    BY RecordTypes DEF Again, TypeOK
  <2>2. got' \in Contents /\ plan' \in [Pockets -> 0 .. MaxRevision]
    BY NoBytes, Positions DEF Again
  <2>3. pocket' \in 1 .. (LastPocket + 1) /\ file' \in FileIds
    BY Positions DEF Again
  <2>4. reported' \in Nat \X Nat
    BY DEF Again
  <2> QED BY <2>1, <2>2, <2>3, <2>4 DEF Again, TypeOK
<1>2. Unstarted'
  BY DEF Again, Unstarted
<1>3. PlanIsRecent'
  BY Positions DEF Again, PlanIsRecent, Revisions
<1>4. PlansInOrder'
  BY Positions DEF Again, PlansInOrder, Missing, Pockets
<1>5. ReadsInOrder'
  BY Positions DEF Again, ReadsInOrder, Fetching, ReadSoFar, Missing,
     LastFile
<1>6. IndexesAreWhole'
  <2>1. /\ LastFile' = LastFile /\ frozen' = frozen /\ answer' = None /\ cached' = None
        /\ disk' \in Cached => disk \in Cached /\ disk'.content = disk.content
    BY NoneIsNone DEF Again, LastFile, TypeOK, Cached
  <2> QED
    BY <2>1, NoneIsNone DEF IndexesAreWhole, AnswerIsWhole, Whole
<1>7. AnswersOnce'
  BY DEF Again, AnswersOnce
<1>8. RefreshIsOnline'
  BY DEF Again, RefreshIsOnline, TypeOK
<1>9. RefreshIsHonoured'
  BY DEF Again, RefreshIsHonoured, AnswersOnce
<1>10. CountsAreTrue'
  <2>1. PlannedIndex(plan') = Nothing
    BY DEF Again, PlannedIndex, Nothing
  <2> QED BY <2>1, NoBytes DEF Again, CountsAreTrue
<1>11. ReportIsCurrent'
  BY Positions DEF Again, ReportIsCurrent, Fetching
<1> QED BY <1>1, <1>2, <1>3, <1>4, <1>5, <1>6, <1>7, <1>8, <1>9, <1>10,
         <1>11

(* At first nothing is known but what the cache may hold. *)
LEMMA InitInv == Init => OpenInv
<1> SUFFICES ASSUME Init PROVE OpenInv
  OBVIOUS
<1>1. /\ listed \in [Pockets -> Revisions] /\ plan \in [Pockets -> 0 .. MaxRevision]
      /\ pocket \in 1 .. (LastPocket + 1) /\ file \in FileIds /\ got \in Contents
      /\ LastFile \in FileIds
  BY BoundsType, NoBytes DEF Init, Pockets, FileIds, Revisions, LastFile
<1>2. Index(listed) \in Contents /\ Whole(Index(listed))
  BY <1>1, BoundsType
     DEF Init, Index, Contents, Whole, Pockets, FileIds, Revisions
<1>3. disk \in Cached \cup {None, Broken} /\ (disk \in Cached => Whole(disk.content))
  <2>1. CASE disk \in {None, Broken}
    BY <2>1, NoneIsNone
  <2>2. ASSUME NEW b \in BOOLEAN, disk = [content |-> Index(listed), fresh |-> b]
        PROVE  disk \in Cached /\ disk.content = Index(listed)
    BY <1>2, <2>2 DEF Cached
  <2> QED BY <1>2, <2>1, <2>2 DEF Init
<1>4. TypeOK
  BY <1>1, <1>3 DEF Init, TypeOK, Reading
<1>5. Unstarted /\ AnswersOnce /\ RefreshIsOnline
  BY DEF Init, Unstarted, AnswersOnce, RefreshIsOnline
<1>6. PlanIsRecent /\ PlansInOrder /\ ReadsInOrder /\ ReportIsCurrent
  BY BoundsType
     DEF Init, PlanIsRecent, PlansInOrder, ReadsInOrder, ReportIsCurrent, Fetching,
         Pockets
<1>7. IndexesAreWhole /\ RefreshIsHonoured
  BY <1>3, NoneIsNone DEF Init, IndexesAreWhole, AnswerIsWhole, RefreshIsHonoured
<1>8. CountsAreTrue
  <2>1. PlannedIndex(plan) = Nothing
    BY DEF Init, PlannedIndex, Nothing
  <2> QED BY <2>1, NoBytes DEF Init, CountsAreTrue
<1> QED BY <1>4, <1>5, <1>6, <1>7, <1>8 DEF OpenInv

(* A step in which nothing changes keeps anything. *)
LEMMA StutterInv ==
  ASSUME OpenInv, UNCHANGED vars
  PROVE  OpenInv'
<1> USE DEF OpenInv, vars, mirror, request, fetching, progress, result
<1>1. LastFile' = LastFile
  BY DEF LastFile
<1>2. TypeOK' /\ Unstarted' /\ PlanIsRecent' /\ PlansInOrder' /\ ReportIsCurrent'
  BY DEF TypeOK, Unstarted, PlanIsRecent, PlansInOrder, ReportIsCurrent, Missing,
         Fetching
<1>3. ReadsInOrder'
  BY <1>1 DEF ReadsInOrder, Fetching, ReadSoFar, Missing
<1>4. IndexesAreWhole' /\ AnswersOnce' /\ RefreshIsOnline' /\ RefreshIsHonoured'
  BY <1>1 DEF IndexesAreWhole, AnswerIsWhole, Whole, AnswersOnce, RefreshIsOnline,
              RefreshIsHonoured
<1>5. CountsAreTrue'
  BY DEF CountsAreTrue
<1> QED BY <1>2, <1>3, <1>4, <1>5

(* Every step of the call, of the mirror and of other processes keeps it. *)
LEMMA StepInv == OpenInv /\ [Next]_vars => OpenInv'
<1> SUFFICES ASSUME OpenInv, [Next]_vars
             PROVE  OpenInv'
  OBVIOUS
<1>1. CASE Step
  BY <1>1, BeginInv, ReadCacheInv, NothingCachedInv, CacheIsBrokenInv,
     RemoveCacheInv, PlanInv, PocketNotFoundInv, SkipPocketInv, ReplanInv,
     FileMatchesInv, FileChangedInv, FileTooLongInv, FetchFailsInv, FetchedInv,
     WriteCacheInv DEF Step
<1>2. CASE EndContext \/ OtherWrites \/ Again
  BY <1>2, EndContextInv, OtherWritesInv, AgainInv
<1>3. CASE \E p \in Pockets : PublishFiles(p) \/ PublishList(p)
  BY <1>3, PublishFilesInv, PublishListInv
<1>4. CASE UNCHANGED vars
  BY <1>4, StutterInv
<1> QED BY <1>1, <1>2, <1>3, <1>4 DEF Next

(* Typing, what was planned and read and counted at any point of the call, *)
(* and what may be answered, for every mirror that publishes meanwhile. *)
THEOREM OpenInvariant == Spec => [](TypeOK /\ OpenInv)
<1>1. Init => OpenInv
  BY InitInv
<1>2. OpenInv /\ [Next]_vars => OpenInv'
  BY StepInv
<1>3. OpenInv => TypeOK
  BY DEF OpenInv
<1> QED BY <1>1, <1>2, <1>3, PTL DEF Spec

-----------------------------------------------------------------------------
(* What follows from it.                                                   *)

(* Nothing half published is ever answered or cached, however often the    *)
(* mirror publishes between two requests of the call. *)
THEOREM AnswerIsWholeHolds == Spec => []AnswerIsWhole
<1>1. OpenInv => AnswerIsWhole
  BY DEF OpenInv, IndexesAreWhole
<1> QED BY <1>1, OpenInvariant, PTL

(* What a refresh is answered was published when it was asked or later, or *)
(* is marked missing, whoever else writes the cache. *)
THEOREM RefreshIsHonouredHolds == Spec => []RefreshIsHonoured
<1>1. OpenInv => RefreshIsHonoured
  BY DEF OpenInv
<1> QED BY <1>1, OpenInvariant, PTL

(* The bytes reported last are those of the index that was read, for any   *)
(* sizes, and for Fedora the total is reached exactly. *)
THEOREM ProgressIsTrueHolds == Spec => []ProgressIsTrue
<1>1. OpenInv => ProgressIsTrue
  <2> SUFFICES ASSUME OpenInv, at = "writing"
               PROVE  /\ reported[1] = Bytes(got)
                      /\ kind = "fedora" => reported[2] = Bytes(got)
    BY DEF ProgressIsTrue
  <2> USE DEF OpenInv
  <2>1. pocket > 1 /\ ~again /\ pocket > LastPocket
    BY Positions DEF ReadsInOrder, Fetching
  <2>2. reported = <<done, total>>
    BY <2>1 DEF ReportIsCurrent, Fetching
  <2>3. ASSUME kind = "fedora"
        PROVE  PlannedIndex(plan) = got
    <3>1. LastFile = 1 /\ got \in Contents
      BY <2>3 DEF LastFile, TypeOK
    <3>2. \A p \in Pockets, f \in FileIds : ReadSoFar(p, f) <=> f = 1
      BY <2>1, <3>1, Positions DEF ReadSoFar
    <3>3. \A p \in Pockets, f \in FileIds : got[p][f] = IF f = 1 THEN plan[p] ELSE 0
      BY <3>2 DEF ReadsInOrder, Fetching
    <3> QED BY <3>1, <3>3 DEF PlannedIndex, Contents
  <2> QED BY <2>2, <2>3 DEF CountsAreTrue
<1> QED BY <1>1, OpenInvariant, PTL
=============================================================================
