----------------------------- MODULE FormProofs -----------------------------
(***************************************************************************)
(* Proofs about the form of frostroot init: about its picker and the       *)
(* indexes it asks (Picker, Indexes), for any releases, sources, names and *)
(* bounds, and about writing the recipe (RecipeWrite), for any number of   *)
(* runs in one directory and any certificates, and about the questions and *)
(* the recipe their answers make (Recipes, Answers, RecipeForm), for any   *)
(* recipes, catalogs, patterns and answers.  Six arguments carry it.       *)
(* Every part an opening collects is whole or marked, so that what it      *)
(* merges accounts for each repository asked for.  The list on screen is   *)
(* drawn again by every step that changes what it is drawn from, unless a  *)
(* message or a timer that will draw it is still under way.  Among the     *)
(* runs without --force one at most has claimed the recipe's name, and     *)
(* what is there then is its claim or a forced run's.  And a run knows     *)
(* every certificate it made, so that what it leaves a recipe has named.   *)
(* Every page behind the one shown was accepted, whatever was gone back to *)
(* and changed, since only the first page's answers choose the questions   *)
(* of the rest.  And what an edit starts from, merged again, is what the   *)
(* recipe said: what a merge appends is there already.                     *)
(***************************************************************************)
EXTENDS Picker, RecipeForm, RecipeWrite, FiniteSetTheorems, SequenceTheorems,
        WellFoundedInduction, TLAPS

(* The openings of indexes.                                                *)
RepoPart == [repo : Repos, of : Origins, missing : BOOLEAN]
CallType ==
  [at : {"idle", "asked", "parts", "ended"}, request : Requests \cup {None},
   next : Nat, parts : Seq(RepoPart), unreachable : SUBSET Repos,
   canceled : BOOLEAN, answer : Answer \cup {None}]

IndexesTyped ==
  /\ refresh \in BOOLEAN
  /\ cache \in [Repos -> Origins \cup {"none"}]
  /\ kept \in [Repos -> Part \cup {None}]
  /\ calls \in [Loads -> CallType]
  /\ DOMAIN opened = Keys
  /\ \A q \in Requests : opened[Key(q, FALSE)] \in Answer \cup {None}

(* Where a part may be from when it is not marked as missing.              *)
Sound == IF refresh THEN {"run"} ELSE {"fresh", "run"}
PartIsTrue(repo, p) == repo # PyPI => p.missing \/ p.of \in Sound
AnswerIsTrue(q, answer) ==
  answer # None =>
    \A r \in ReposOf(q) \ {PyPI} :
      r \in answer.missing \/ answer.searched[r] \in Sound

(* What an opening remembers, has collected and was answered.              *)
KeptIsTrue ==
  \A r \in Repos : kept[r] # None => ~kept[r].missing /\ PartIsTrue(r, kept[r])
OpenedIsTrue == \A q \in Requests : AnswerIsTrue(q, opened[Key(q, FALSE)])
Accounted(call) ==
  /\ call.next \in 1..LastRepo(call.request) + 1
  /\ \A n \in 1..call.next - 1 :
       \/ RepoAt(call.request, n) \in call.unreachable
       \/ \E m \in DOMAIN call.parts :
            call.parts[m].repo = RepoAt(call.request, n)
  /\ \A m \in DOMAIN call.parts :
       PartIsTrue(call.parts[m].repo, call.parts[m])
CallIsTrue(call) ==
  /\ call.at # "idle" => call.request \in Requests
  /\ call.at = "asked" => call.parts = <<>>
  /\ call.at = "parts" => Accounted(call)
  /\ call.at = "ended" => AnswerIsTrue(call.request, call.answer)
IndexesInv ==
  /\ IndexesTyped /\ KeptIsTrue /\ OpenedIsTrue
  /\ \A l \in Loads : CallIsTrue(calls[l])

-----------------------------------------------------------------------------
PickerTyped ==
  request \in Requests /\ load \in Loads \cup {None} /\ messages \in Nat

(* The list is drawn, or what will draw it is under way.                   *)
ListIsCurrent ==
  page = "picker" =>
    /\ load \in Loads /\ calls[load].request = request
    /\ ~Loading /\ messages = 0 /\ ~ticking =>
         rows = Rows(IsPython, chosen, query, section, Index)

(* What Enter was held back for is the query, as long as there is one.     *)
WarnedOfQuery == page = "picker" /\ nudged /\ query # "" => warned = query

PickerInv == IndexesInv /\ PickerTyped /\ ListIsCurrent /\ WarnedOfQuery

-----------------------------------------------------------------------------
(* Openings: what they collect.                                            *)

(* A request's repositories are repositories, and there is one at least.   *)
LEMMA RepoAtType ==
  ASSUME NEW q \in Requests
  PROVE  /\ LastRepo(q) \in Nat \ {0}
         /\ \A n \in 1..LastRepo(q) : RepoAt(q, n) \in Repos
BY RequestsAssumption DEF LastRepo, RepoAt, Repos

(* What is true of parts and answers depends on --refresh-index alone.     *)
LEMMA TruthStays ==
  ASSUME refresh' = refresh
  PROVE  /\ \A r, p : PartIsTrue(r, p)' = PartIsTrue(r, p)
         /\ \A q, a : AnswerIsTrue(q, a)' = AnswerIsTrue(q, a)
         /\ \A c : CallIsTrue(c)' = CallIsTrue(c)
<1>1. Sound' = Sound
  BY DEF Sound
<1>2. \A r, p : PartIsTrue(r, p)' = PartIsTrue(r, p)
  BY <1>1 DEF PartIsTrue
<1>3. \A q, a : AnswerIsTrue(q, a)' = AnswerIsTrue(q, a)
  BY <1>1 DEF AnswerIsTrue
<1>4. \A c : Accounted(c)' = Accounted(c)
  BY <1>2 DEF Accounted
<1>5. \A c : CallIsTrue(c)' = CallIsTrue(c)
  BY <1>3, <1>4 DEF CallIsTrue
<1> QED BY <1>2, <1>3, <1>5

(* Union: parts that are true and account for every repository are merged  *)
(* into an answer that is true.                                            *)
LEMMA UnionIsTrue ==
  ASSUME NEW q \in Requests, NEW parts \in Seq(RepoPart),
         NEW unreachable \in SUBSET Repos,
         \A n \in 1..LastRepo(q) :
           \/ RepoAt(q, n) \in unreachable
           \/ \E m \in DOMAIN parts : parts[m].repo = RepoAt(q, n),
         \A m \in DOMAIN parts : PartIsTrue(parts[m].repo, parts[m])
  PROVE  /\ Union(parts, unreachable) \in Answer \cup {None}
         /\ AnswerIsTrue(q, Union(parts, unreachable))
<1> DEFINE P == Range(parts)
           first(r) == CHOOSE n \in P : n.repo = r
           there(r) == \E n \in DOMAIN parts : parts[n].repo = r
           searched == [r \in Repos |-> IF there(r) THEN first(r).of ELSE "none"]
           missing == unreachable \cup {n.repo : n \in {p \in P : p.missing}}
<1>1. /\ P \subseteq RepoPart
      /\ \A p \in P : \E m \in DOMAIN parts : p = parts[m]
      /\ \A m \in DOMAIN parts : parts[m] \in P
  BY DEF Range
<1>2. \A p \in P : PartIsTrue(p.repo, p)
  BY <1>1
<1>3. \A r : there(r) => first(r) \in P /\ first(r).repo = r
  <2> SUFFICES ASSUME NEW r, there(r)
               PROVE  first(r) \in P /\ first(r).repo = r
    OBVIOUS
  <2>1. \E n \in P : n.repo = r
    BY <1>1
  <2> QED BY <2>1, Zenon
<1>4. CASE parts = <<>>
  BY <1>4 DEF Union, AnswerIsTrue
<1>5. CASE parts # <<>>
  <2>1. Union(parts, unreachable) = [searched |-> searched, missing |-> missing]
    BY <1>5, Zenon DEF Union
  <2>2. searched \in [Repos -> Origins \cup {"none"}]
    BY <1>1, <1>3 DEF RepoPart
  <2>3. missing \subseteq Repos
    BY <1>1 DEF RepoPart
  <2>4. ASSUME NEW r \in ReposOf(q) \ {PyPI}
        PROVE  r \in missing \/ searched[r] \in Sound
    <3>1. r \in Repos /\ (r \in unreachable \/ there(r))
      BY RepoAtType DEF ReposOf
    <3>2. CASE there(r)
      <4>1. PartIsTrue(r, first(r)) /\ first(r) \in P /\ first(r).repo = r
        BY <1>2, <1>3, <3>2
      <4>2. first(r).missing => r \in missing
        BY <4>1
      <4>3. searched[r] = first(r).of
        BY <3>1, <3>2
      <4> HIDE DEF searched, first, missing
      <4> QED BY <4>1, <4>2, <4>3 DEF PartIsTrue
    <3> QED BY <3>1, <3>2
  <2> HIDE DEF searched, missing
  <2> QED BY <2>1, <2>2, <2>3, <2>4 DEF AnswerIsTrue, Answer
<1> QED BY <1>4, <1>5

(* An opening that changes takes the place of what it was.                 *)
LEMMA OneCall ==
  ASSUME IndexesInv, NEW l \in Loads, NEW call \in CallType,
         CallIsTrue(call), refresh' = refresh,
         calls' = [calls EXCEPT ![l] = call]
  PROVE  /\ calls' \in [Loads -> CallType]
         /\ \A k \in Loads : CallIsTrue(calls[k])'
<1>1. calls' \in [Loads -> CallType] /\ \A k \in Loads : CallIsTrue(calls'[k])
  BY DEF IndexesInv, IndexesTyped
<1> QED BY <1>1, TruthStays

(* What is remembered for a request answered offline is another matter.    *)
LEMMA OtherwiseStays ==
  ASSUME IndexesInv, UNCHANGED <<refresh, cache, kept, calls>>,
         \/ opened' = opened
         \/ \E q, a : opened' = [opened EXCEPT ![Key(q, TRUE)] = a]
  PROVE  IndexesInv'
<1>1. /\ DOMAIN opened' = Keys
      /\ \A q \in Requests : opened'[Key(q, FALSE)] = opened[Key(q, FALSE)]
  BY DEF IndexesInv, IndexesTyped, Key, Keys
<1>2. IndexesTyped'
  BY <1>1 DEF IndexesInv, IndexesTyped
<1>3. KeptIsTrue' /\ OpenedIsTrue'
  BY <1>1, TruthStays DEF IndexesInv, KeptIsTrue, OpenedIsTrue
<1>4. \A l \in Loads : CallIsTrue(calls[l])'
  BY TruthStays DEF IndexesInv
<1> QED BY <1>2, <1>3, <1>4 DEF IndexesInv

(* A part that is true is one more, and its repository is accounted for.   *)
LEMMA WithIsTrue ==
  ASSUME IndexesInv, NEW l \in Loads, HasNext(l), NEW part \in Part,
         PartIsTrue(Repo(l), part), With(l, part), refresh' = refresh
  PROVE  /\ calls' \in [Loads -> CallType]
         /\ \A k \in Loads : CallIsTrue(calls[k])'
<1> DEFINE c == calls[l]
           p == [repo |-> Repo(l), of |-> part.of, missing |-> part.missing]
           d == [c EXCEPT !.next = @ + 1, !.parts = Append(@, p)]
<1>1. /\ c \in CallType /\ c.at = "parts" /\ c.next <= LastRepo(c.request)
      /\ CallIsTrue(c)
  BY DEF IndexesInv, IndexesTyped, HasNext, CallAt
<1>2. c.request \in Requests /\ Accounted(c)
  BY <1>1 DEF CallIsTrue
<1>3. Repo(l) = RepoAt(c.request, c.next) /\ Repo(l) \in Repos
  BY <1>1, <1>2, RepoAtType DEF Repo, Accounted
<1>4. p \in RepoPart
  BY <1>3 DEF Part, RepoPart
<1>5. d \in CallType /\ d.at = "parts" /\ d.request = c.request
      /\ d.next = c.next + 1 /\ d.parts = Append(c.parts, p)
      /\ d.unreachable = c.unreachable
  <2>1. c \in CallType /\ c.at = "parts" /\ p \in RepoPart
    BY <1>1, <1>4
  <2> HIDE DEF c, p
  <2>2. Append(c.parts, p) \in Seq(RepoPart) /\ c.next + 1 \in Nat
    BY <2>1 DEF CallType
  <2>3. d = [c EXCEPT !.next = c.next + 1, !.parts = Append(c.parts, p)]
    OBVIOUS
  <2> QED BY <2>1, <2>2, <2>3 DEF CallType
<1>6. /\ c.parts \in Seq(RepoPart) /\ c.next \in Nat
      /\ Len(d.parts) = Len(c.parts) + 1 /\ d.parts[Len(c.parts) + 1] = p
      /\ \A m \in DOMAIN c.parts : m \in DOMAIN d.parts /\ d.parts[m] = c.parts[m]
      /\ \A m \in DOMAIN d.parts : m \in DOMAIN c.parts \/ d.parts[m] = p
      /\ Len(c.parts) + 1 \in DOMAIN d.parts
  BY <1>1, <1>4, <1>5 DEF CallType
<1>7. Accounted(d)
  <2>1. d.next \in 1..LastRepo(d.request) + 1
    BY <1>1, <1>2, <1>5, <1>6, RepoAtType DEF Accounted
  <2>2. ASSUME NEW n \in 1..d.next - 1
        PROVE  \/ RepoAt(d.request, n) \in d.unreachable
               \/ \E m \in DOMAIN d.parts : d.parts[m].repo = RepoAt(d.request, n)
    <3>1. CASE n = c.next
      <4>1. p.repo = RepoAt(c.request, n)
        BY <3>1, <1>3
      <4> HIDE DEF c, d, p
      <4> QED BY <4>1, <1>5, <1>6
    <3>2. CASE n # c.next
      <4>1. n \in 1..c.next - 1
        BY <3>2, <1>5, <1>6
      <4>2. \/ RepoAt(c.request, n) \in c.unreachable
            \/ \E m \in DOMAIN c.parts : c.parts[m].repo = RepoAt(c.request, n)
        BY <4>1, <1>2 DEF Accounted
      <4> QED BY <4>2, <1>5, <1>6
    <3> QED BY <3>1, <3>2
  <2>3. \A m \in DOMAIN d.parts : PartIsTrue(d.parts[m].repo, d.parts[m])
    <3>1. PartIsTrue(p.repo, p)
      BY DEF PartIsTrue
    <3>2. \A m \in DOMAIN c.parts : PartIsTrue(c.parts[m].repo, c.parts[m])
      BY <1>2 DEF Accounted
    <3> HIDE DEF p, d, c
    <3> QED BY <3>1, <3>2, <1>6
  <2> HIDE DEF d
  <2> QED BY <2>1, <2>2, <2>3 DEF Accounted
<1>8. CallIsTrue(d)
  <2> HIDE DEF d
  <2> QED BY <1>2, <1>5, <1>7 DEF CallIsTrue
<1>9. calls' = [calls EXCEPT ![l] = d]
  BY DEF With
<1> HIDE DEF d
<1> QED BY <1>5, <1>8, <1>9, OneCall

(* A part that is true is kept unless something is missing from it.        *)
LEMMA WithPartInv ==
  ASSUME IndexesInv, NEW l \in Loads, HasNext(l), NEW part \in Part,
         PartIsTrue(Repo(l), part), WithPart(l, part),
         refresh' = refresh, opened' = opened,
         cache' \in [Repos -> Origins \cup {"none"}]
  PROVE  IndexesInv'
<1>1. calls' \in [Loads -> CallType] /\ \A k \in Loads : CallIsTrue(calls[k])'
  BY WithIsTrue DEF WithPart
<1>2. kept' \in [Repos -> Part \cup {None}]
  BY DEF WithPart, IndexesInv, IndexesTyped
<1>3. \A r \in Repos : kept'[r] = kept[r]
        \/ (r = Repo(l) /\ kept'[r] = part /\ ~part.missing)
  BY DEF WithPart, IndexesInv, IndexesTyped
<1>4. KeptIsTrue' /\ OpenedIsTrue'
  BY <1>3, TruthStays DEF IndexesInv, KeptIsTrue, OpenedIsTrue
<1>5. IndexesTyped'
  BY <1>1, <1>2 DEF IndexesInv, IndexesTyped
<1> QED BY <1>1, <1>4, <1>5 DEF IndexesInv

(* The opening's next repository is one.                                   *)
LEMMA RepoType ==
  ASSUME IndexesInv, NEW l \in Loads, HasNext(l)
  PROVE  Repo(l) \in Repos
<1>1. calls[l].request \in Requests /\ Accounted(calls[l])
  BY DEF IndexesInv, CallIsTrue, HasNext, CallAt
<1>2. calls[l].next \in Nat
  BY DEF IndexesInv, IndexesTyped, CallType
<1>3. calls[l].next \in 1..LastRepo(calls[l].request)
  BY <1>1, <1>2, RepoAtType DEF Accounted, HasNext
<1> QED BY <1>1, <1>3, RepoAtType DEF Repo

(* An opening ends with an answer that is true.                            *)
LEMMA EndsIsTrue ==
  ASSUME IndexesInv, NEW l \in Loads, NEW answer \in Answer \cup {None},
         calls[l].request \in Requests, AnswerIsTrue(calls[l].request, answer),
         Ends(l, answer), refresh' = refresh
  PROVE  /\ calls' \in [Loads -> CallType]
         /\ \A k \in Loads : CallIsTrue(calls[k])'
<1> DEFINE d == [Idle EXCEPT !.at = "ended", !.request = calls[l].request,
                             !.answer = answer]
<1>1. /\ d \in CallType /\ d.at = "ended" /\ d.request = calls[l].request
      /\ d.answer = answer
  <2>1. Idle \in CallType
    <3>1. <<>> \in Seq(RepoPart)
      OBVIOUS
    <3> QED BY <3>1 DEF Idle, CallType
  <2> QED BY <2>1 DEF CallType
<1>2. calls' = [calls EXCEPT ![l] = d]
  BY DEF Ends
<1> HIDE DEF d
<1>3. CallIsTrue(d)
  BY <1>1 DEF CallIsTrue
<1> QED BY <1>1, <1>2, <1>3, OneCall

(* A request answered before is answered again, or begun with nothing.     *)
LEMMA LookUpInv ==
  ASSUME IndexesInv, NEW l \in Loads, LookUp(l)
  PROVE  IndexesInv'
<1> DEFINE q == calls[l].request
           answered == opened[Key(q, FALSE)]
           d == [calls[l] EXCEPT !.at = "parts", !.next = 1]
<1>1. /\ q \in Requests /\ calls[l] \in CallType
      /\ answered \in Answer \cup {None} /\ AnswerIsTrue(q, answered)
  BY DEF LookUp, CallAt, IndexesInv, IndexesTyped, CallIsTrue, OpenedIsTrue
<1>2. calls' \in [Loads -> CallType] /\ \A k \in Loads : CallIsTrue(calls[k])'
  <2>1. CASE answered # None
    BY <1>1, <2>1, EndsIsTrue DEF LookUp
  <2>2. CASE answered = None
    <3>1. /\ d \in CallType /\ d.at = "parts" /\ d.request = q
          /\ d.next = 1 /\ d.parts = calls[l].parts
      BY <1>1 DEF CallType
    <3>2. calls' = [calls EXCEPT ![l] = d]
      BY <2>2 DEF LookUp
    <3>3. d.parts = <<>>
      BY <3>1 DEF LookUp, CallAt, IndexesInv, CallIsTrue
    <3> HIDE DEF d
    <3>4. CallIsTrue(d)
      BY <1>1, <3>1, <3>3, RepoAtType DEF CallIsTrue, Accounted
    <3> QED BY <3>1, <3>2, <3>4, OneCall DEF LookUp
  <2> QED BY <2>1, <2>2
<1>3. IndexesTyped' /\ KeptIsTrue' /\ OpenedIsTrue'
  BY <1>2, TruthStays DEF LookUp, IndexesInv, IndexesTyped, KeptIsTrue,
     OpenedIsTrue
<1> QED BY <1>2, <1>3 DEF IndexesInv

(* The six ways a part of an answer is come by, or is not.                 *)
LEMMA PartKeptInv ==
  ASSUME IndexesInv, NEW l \in Loads, PartKept(l)
  PROVE  IndexesInv'
<1>1. /\ Repo(l) \in Repos /\ kept[Repo(l)] \in Part
      /\ PartIsTrue(Repo(l), kept[Repo(l)])
  BY RepoType DEF PartKept, IndexesInv, IndexesTyped, KeptIsTrue
<1>2. calls' \in [Loads -> CallType] /\ \A k \in Loads : CallIsTrue(calls[k])'
  BY <1>1, WithIsTrue DEF PartKept
<1>3. IndexesTyped' /\ KeptIsTrue' /\ OpenedIsTrue'
  BY <1>2, TruthStays DEF PartKept, IndexesInv, IndexesTyped, KeptIsTrue,
     OpenedIsTrue
<1> QED BY <1>2, <1>3 DEF IndexesInv

LEMMA PartFreshInv ==
  ASSUME IndexesInv, NEW l \in Loads, PartFresh(l)
  PROVE  IndexesInv'
<1> DEFINE part == [of |-> cache[Repo(l)], missing |-> FALSE]
<1>1. /\ Repo(l) \in Repos /\ cache[Repo(l)] \in {"fresh", "run"} /\ ~refresh
  BY RepoType DEF PartFresh, FreshWillDo
<1>2. part \in Part /\ PartIsTrue(Repo(l), part)
  BY <1>1 DEF Part, Origins, PartIsTrue, Sound
<1> HIDE DEF part
<1>3. HasNext(l) /\ UNCHANGED <<refresh, cache, opened>>
  BY DEF PartFresh
<1>4. WithPart(l, part)
  BY DEF PartFresh, part
<1> QED BY <1>2, <1>3, <1>4, WithPartInv DEF IndexesInv, IndexesTyped

LEMMA PartFetchedInv ==
  ASSUME IndexesInv, NEW l \in Loads, PartFetched(l)
  PROVE  IndexesInv'
<1> DEFINE part == [of |-> "run", missing |-> FALSE]
<1>1. part \in Part /\ PartIsTrue(Repo(l), part)
  BY DEF Part, Origins, PartIsTrue, Sound
<1>2. cache' \in [Repos -> Origins \cup {"none"}]
  BY DEF PartFetched, IndexesInv, IndexesTyped, Origins
<1> HIDE DEF part
<1>3. HasNext(l) /\ UNCHANGED <<refresh, opened>>
  BY DEF PartFetched, Fetching
<1>4. WithPart(l, part)
  BY DEF PartFetched, part
<1> QED BY <1>1, <1>2, <1>3, <1>4, WithPartInv

LEMMA PartStaleInv ==
  ASSUME IndexesInv, NEW l \in Loads, PartStale(l)
  PROVE  IndexesInv'
<1> DEFINE part == [of |-> cache[Repo(l)], missing |-> Repo(l) # PyPI]
<1>1. /\ HasNext(l) /\ UNCHANGED <<refresh, cache, opened>>
      /\ cache[Repo(l)] # "none"
  BY DEF PartStale, Fetching
<1>2. cache[Repo(l)] \in Origins
  BY <1>1, RepoType DEF IndexesInv, IndexesTyped
<1>3. part \in Part /\ PartIsTrue(Repo(l), part)
  BY <1>2 DEF Part, PartIsTrue
<1> HIDE DEF part
<1>4. WithPart(l, part)
  BY DEF PartStale, part
<1> QED BY <1>1, <1>3, <1>4, WithPartInv DEF IndexesInv, IndexesTyped

LEMMA PartUnreachableInv ==
  ASSUME IndexesInv, NEW l \in Loads, PartUnreachable(l)
  PROVE  IndexesInv'
<1> DEFINE c == calls[l]
           d == [c EXCEPT !.next = @ + 1, !.unreachable = @ \cup {Repo(l)}]
<1>1. /\ c \in CallType /\ c.at = "parts" /\ c.next <= LastRepo(c.request)
      /\ c.request \in Requests /\ Accounted(c) /\ c.next \in Nat
  BY DEF IndexesInv, IndexesTyped, PartUnreachable, Fetching, HasNext, CallAt,
     CallIsTrue, CallType
<1>2. Repo(l) \in Repos /\ Repo(l) = RepoAt(c.request, c.next)
  BY RepoType DEF PartUnreachable, Fetching, Repo
<1>3. /\ d \in CallType /\ d.at = "parts" /\ d.request = c.request
      /\ d.next = c.next + 1 /\ d.parts = c.parts
      /\ d.unreachable = c.unreachable \cup {Repo(l)}
  <2>1. PICK repo \in Repos : repo = Repo(l)
    BY <1>2
  <2> DEFINE u == c.unreachable \cup {repo}
             n == c.next + 1
  <2>2. c \in CallType /\ c.at = "parts"
    BY <1>1
  <2>3. u \in SUBSET Repos /\ n \in Nat /\ u = c.unreachable \cup {Repo(l)}
    <3> HIDE DEF c
    <3> QED BY <2>1, <2>2 DEF CallType
  <2>4. d = [c EXCEPT !.next = n, !.unreachable = u]
    BY <2>1
  <2>5. n = c.next + 1
    OBVIOUS
  <2> HIDE DEF c, d, u, n
  <2> QED BY <2>2, <2>3, <2>4, <2>5 DEF CallType
<1>4. calls' = [calls EXCEPT ![l] = d]
  BY DEF PartUnreachable
<1> HIDE DEF c, d
<1>5. Accounted(d)
  <2>1. d.next \in 1..LastRepo(d.request) + 1
    BY <1>1, <1>3, RepoAtType
  <2>2. \A n \in 1..d.next - 1 : n \in 1..c.next - 1 \/ n = c.next
    BY <1>1, <1>3
  <2> QED BY <1>1, <1>2, <1>3, <2>1, <2>2 DEF Accounted
<1>6. CallIsTrue(d)
  BY <1>1, <1>3, <1>5 DEF CallIsTrue
<1>7. UNCHANGED <<refresh, cache, opened, kept>>
  BY DEF PartUnreachable
<1>8. calls' \in [Loads -> CallType] /\ \A k \in Loads : CallIsTrue(calls[k])'
  BY <1>3, <1>4, <1>6, <1>7, OneCall
<1>9. IndexesTyped' /\ KeptIsTrue' /\ OpenedIsTrue'
  BY <1>7, <1>8, TruthStays DEF IndexesInv, IndexesTyped, KeptIsTrue,
     OpenedIsTrue
<1> QED BY <1>8, <1>9 DEF IndexesInv

(* What is merged accounts for all that was asked for, and is remembered.  *)
LEMMA MergeInv ==
  ASSUME IndexesInv, NEW l \in Loads, Merge(l)
  PROVE  IndexesInv'
<1> DEFINE c == calls[l]
           answer == Union(c.parts, c.unreachable)
<1>1. /\ c \in CallType /\ c.at = "parts" /\ c.request \in Requests
      /\ Accounted(c) /\ ~(c.next <= LastRepo(c.request))
      /\ c.next \in Nat /\ c.parts \in Seq(RepoPart) /\ c.unreachable \subseteq Repos
  BY DEF IndexesInv, IndexesTyped, Merge, HasNext, CallAt, CallIsTrue, CallType
<1>2. UNCHANGED <<refresh, cache, kept>> /\ Ends(l, answer)
  BY DEF Merge
<1>3. opened' = opened \/ opened' = [opened EXCEPT ![Key(c.request, FALSE)] = answer]
  BY DEF Merge
<1> HIDE DEF c
<1>4. answer \in Answer \cup {None} /\ AnswerIsTrue(c.request, answer)
  <2>1. c.next - 1 = LastRepo(c.request)
    BY <1>1, RepoAtType DEF Accounted
  <2> QED BY <1>1, <2>1, UnionIsTrue DEF Accounted
<1> HIDE DEF answer
<1>5. calls' \in [Loads -> CallType] /\ \A k \in Loads : CallIsTrue(calls[k])'
  BY <1>1, <1>2, <1>4, EndsIsTrue DEF c
<1>6. /\ DOMAIN opened' = Keys
      /\ \A q \in Requests :
           \/ opened'[Key(q, FALSE)] = opened[Key(q, FALSE)]
           \/ q = c.request /\ opened'[Key(q, FALSE)] = answer
  BY <1>1, <1>3 DEF IndexesInv, IndexesTyped, Key, Keys
<1>7. OpenedIsTrue' /\ KeptIsTrue'
  BY <1>2, <1>4, <1>6, TruthStays DEF IndexesInv, OpenedIsTrue, KeptIsTrue
<1>8. IndexesTyped'
  BY <1>2, <1>4, <1>5, <1>6 DEF IndexesInv, IndexesTyped
<1> QED BY <1>5, <1>7, <1>8 DEF IndexesInv

LEMMA CallStepInv ==
  ASSUME IndexesInv, NEW l \in Loads, CallStep(l)
  PROVE  IndexesInv'
BY LookUpInv, PartKeptInv, PartFreshInv, PartFetchedInv, PartStaleInv,
   PartUnreachableInv, MergeInv DEF CallStep

(* A new load, one given up or one canceled is as true as it was.          *)
LEMMA CallsInv ==
  ASSUME IndexesInv, UNCHANGED <<refresh, cache, opened, kept>>,
         calls' \in [Loads -> CallType],
         \A l \in Loads : CallIsTrue(calls'[l])
  PROVE  IndexesInv'
<1>1. \A l \in Loads : CallIsTrue(calls[l])'
  BY TruthStays
<1>2. IndexesTyped' /\ KeptIsTrue' /\ OpenedIsTrue'
  BY TruthStays DEF IndexesInv, IndexesTyped, KeptIsTrue, OpenedIsTrue
<1> QED BY <1>1, <1>2 DEF IndexesInv

LEMMA CallChanges ==
  ASSUME NEW call \in CallType, CallIsTrue(call)
  PROVE  /\ CancelCall(call) \in CallType /\ CallIsTrue(CancelCall(call))
         /\ CancelCall(call).request = call.request
         /\ Superseded(call) \in CallType /\ CallIsTrue(Superseded(call))
<1>1. Idle \in CallType /\ CallIsTrue(Idle)
  <2>1. <<>> \in Seq(RepoPart)
    OBVIOUS
  <2> QED BY <2>1 DEF Idle, CallType, CallIsTrue
<1> DEFINE d == CancelCall(call)
<1>2. /\ d \in CallType /\ d.at = call.at /\ d.request = call.request
      /\ d.next = call.next /\ d.parts = call.parts /\ d.answer = call.answer
      /\ d.unreachable = call.unreachable
  BY DEF CancelCall, CallType
<1> HIDE DEF d
<1>3. CallIsTrue(d)
  BY <1>2 DEF CallIsTrue, Accounted
<1> QED BY <1>1, <1>2, <1>3 DEF Superseded, d

LEMMA AskedCall ==
  ASSUME NEW q \in Requests
  PROVE  LET call == [Idle EXCEPT !.at = "asked", !.request = q]
         IN  /\ call \in CallType /\ CallIsTrue(call)
             /\ call.at = "asked" /\ call.request = q
<1> DEFINE d == [Idle EXCEPT !.at = "asked", !.request = q]
<1>1. Idle \in CallType /\ Idle.parts = <<>>
  <2>1. <<>> \in Seq(RepoPart)
    OBVIOUS
  <2> QED BY <2>1 DEF Idle, CallType
<1>2. d \in CallType /\ d.at = "asked" /\ d.request = q /\ d.parts = <<>>
  BY <1>1 DEF CallType
<1> HIDE DEF d
<1>3. CallIsTrue(d)
  BY <1>2 DEF CallIsTrue
<1> QED BY <1>2, <1>3 DEF d

-----------------------------------------------------------------------------
(* The page: its list and its warning.                                     *)

(* A key that draws the list again, or leaves it and what it is drawn from *)
(* alone, keeps it current.                                                *)
LEMMA DrawnIsCurrent ==
  ASSUME PickerInv, page = "picker", UNCHANGED <<indexVars, request, load, messages, ticking>>,
         \/ rows' = Rows(IsPython, chosen', query', section', Index)
         \/ /\ rows' = rows
            /\ Rows(IsPython, chosen', query', section', Index)
                 = Rows(IsPython, chosen, query, section, Index),
         nudged' /\ query' # "" => warned' = query'
  PROVE  PickerInv'
<1>1. IndexesInv'
  BY OtherwiseStays DEF PickerInv, indexVars
<1>2. PickerTyped'
  BY DEF PickerInv, PickerTyped
<1>3. /\ IsPython' = IsPython /\ Index' = Index /\ Loading' = Loading
  BY DEF IsPython, Index, Loading, indexVars
<1>4. ListIsCurrent'
  BY <1>3 DEF PickerInv, ListIsCurrent, indexVars
<1>5. WarnedOfQuery'
  BY DEF WarnedOfQuery
<1> QED BY <1>1, <1>2, <1>4, <1>5 DEF PickerInv

(* With something typed the list does not depend on the answer.            *)
LEMMA AnswerIsNotListed ==
  query # "" => Rows(IsPython, chosen', query, section, Index)
                  = Rows(IsPython, chosen, query, section, Index)
BY Zenon DEF Rows

LEMMA KeyPressedInv ==
  ASSUME PickerInv, KeyPressed
  PROVE  PickerInv'
<1> USE DEF Press, InList, InSections, Stays, Refresh
<1>0. nudged /\ query # "" /\ page = "picker" => warned = query
  BY DEF PickerInv, WarnedOfQuery
<1>1. CASE Type
  BY <1>1, DrawnIsCurrent DEF Type
<1>2. CASE Clear
  BY <1>2, DrawnIsCurrent DEF Clear
<1>3. CASE Paste
  BY <1>3, DrawnIsCurrent DEF Paste
<1>4. CASE Move
  BY <1>0, <1>4, DrawnIsCurrent DEF Move
<1>5. CASE Toggle
  <2>1. query' = query \/ query' = ""
    BY <1>5 DEF Toggle
  <2>2. UNCHANGED <<nudged, warned, section>> /\ page = "picker"
        /\ UNCHANGED <<indexVars, request, load, messages, ticking>>
    BY <1>5 DEF Toggle
  <2>3. \/ rows' = Rows(IsPython, chosen', query', section', Index)
        \/ query' = query /\ query # "" /\ rows' = rows
    BY <1>5 DEF Toggle
  <2> QED BY <1>0, <2>1, <2>2, <2>3, AnswerIsNotListed, DrawnIsCurrent
<1>6. CASE Enter
  BY <1>0, <1>6, DrawnIsCurrent DEF Enter, Leave
<1>7. CASE Back
  BY <1>0, <1>7, DrawnIsCurrent DEF Back, Leave
<1>8. CASE OpenSections
  BY <1>0, <1>8, DrawnIsCurrent DEF OpenSections
<1>9. CASE MoveSection
  BY <1>0, <1>9, DrawnIsCurrent DEF MoveSection
<1>10. CASE PickSection
  BY <1>0, <1>10, DrawnIsCurrent DEF PickSection
<1>11. CASE CloseSections
  BY <1>0, <1>11, DrawnIsCurrent DEF CloseSections
<1> QED BY <1>1, <1>2, <1>3, <1>4, <1>5, <1>6, <1>7, <1>8, <1>9, <1>10, <1>11
        DEF KeyPressed

(* The page is come to: its load is for the answers as they are.           *)
LEMMA FocusInv ==
  ASSUME PickerInv, Focus
  PROVE  PickerInv'
<1>1. request \in Requests /\ load \in Loads \cup {None} /\ messages \in Nat
  BY DEF PickerInv, PickerTyped
<1>2. \A l \in Loads : calls[l] \in CallType /\ CallIsTrue(calls[l])
  BY DEF PickerInv, IndexesInv, IndexesTyped
<1>3. /\ calls' \in [Loads -> CallType] /\ \A l \in Loads : CallIsTrue(calls'[l])
      /\ load' \in Loads /\ calls'[load'].request = request
  <2>1. CASE MustOpen
    <3>1. PICK l \in Loads :
            /\ load' = l
            /\ calls' = [k \in Loads |->
                 IF k = l THEN [Idle EXCEPT !.at = "asked", !.request = request]
                 ELSE IF k = load THEN Superseded(calls[k]) ELSE calls[k]]
      BY <2>1 DEF Focus
    <3>2. PICK asked \in CallType :
            /\ asked = [Idle EXCEPT !.at = "asked", !.request = request]
            /\ CallIsTrue(asked) /\ asked.request = request
      BY <1>1, AskedCall
    <3>3. \A k \in Loads : Superseded(calls[k]) \in CallType
                           /\ CallIsTrue(Superseded(calls[k]))
      BY <1>2, CallChanges
    <3>4. calls' = [k \in Loads |->
            IF k = l THEN asked
            ELSE IF k = load THEN Superseded(calls[k]) ELSE calls[k]]
      BY <3>1, <3>2
    <3> QED BY <1>2, <3>1, <3>2, <3>3, <3>4
  <2>2. CASE ~MustOpen
    <3>1. UNCHANGED <<calls, load>> /\ load \in Loads /\ calls[load].request = request
      BY <1>1, <2>2 DEF Focus, MustOpen
    <3> QED BY <1>2, <3>1 DEF PickerInv, IndexesInv, IndexesTyped
  <2> QED BY <2>1, <2>2
<1>4. UNCHANGED <<refresh, cache, opened, kept, request, messages, chosen, query, section>>
      /\ nudged' = FALSE
      /\ rows' = Rows(IsPython, chosen, query, section, LoadedIn(load', calls'))
  BY DEF Focus
<1>5. IndexesInv'
  BY <1>3, <1>4, CallsInv DEF PickerInv
<1>6. IsPython' = IsPython /\ Index' = LoadedIn(load', calls')
  BY <1>4 DEF IsPython, Index
<1>7. ListIsCurrent'
  BY <1>3, <1>4, <1>6 DEF ListIsCurrent
<1>8. WarnedOfQuery' /\ PickerTyped'
  BY <1>1, <1>3, <1>4 DEF WarnedOfQuery, PickerTyped
<1> QED BY <1>5, <1>7, <1>8 DEF PickerInv

(* Answers change on the pages before, where no list is shown.             *)
LEMMA ChangeInv == ASSUME PickerInv, Change PROVE PickerInv'
<1>1. IndexesInv'
  BY OtherwiseStays DEF PickerInv, indexVars, Change
<1>2. PickerTyped' /\ ListIsCurrent' /\ WarnedOfQuery'
  BY DEF PickerInv, PickerTyped, ListIsCurrent, WarnedOfQuery, Change
<1> QED BY <1>1, <1>2 DEF PickerInv

(* An opening's step is its own, for the request it was asked.             *)
LEMMA CallStepKeeps ==
  ASSUME IndexesInv, NEW l \in Loads, CallStep(l)
  PROVE  /\ \A k \in Loads : k # l => calls'[k] = calls[k]
         /\ calls'[l].request = calls[l].request /\ calls[l].at # "ended"
<1>1. calls[l] \in CallType /\ calls \in [Loads -> CallType]
  BY DEF IndexesInv, IndexesTyped
<1>2. ASSUME NEW answer, Ends(l, answer)
      PROVE  /\ \A k \in Loads : k # l => calls'[k] = calls[k]
             /\ calls'[l].request = calls[l].request
  BY <1>1, <1>2 DEF Ends, Idle
<1>3. ASSUME NEW part, With(l, part)
      PROVE  /\ \A k \in Loads : k # l => calls'[k] = calls[k]
             /\ calls'[l].request = calls[l].request
  BY <1>1, <1>3 DEF With, CallType
<1>4. CASE LookUp(l)
  <2>1. CASE opened[Key(calls[l].request, FALSE)] # None
    BY <1>2, <1>4, <2>1 DEF LookUp, CallAt
  <2>2. CASE opened[Key(calls[l].request, FALSE)] = None
    <3>1. /\ calls' = [calls EXCEPT ![l] =
                          [calls[l] EXCEPT !.at = "parts", !.next = 1]]
          /\ calls[l].at = "asked"
      BY <1>4, <2>2 DEF LookUp, CallAt
    <3> QED BY <1>1, <3>1 DEF CallType
  <2> QED BY <2>1, <2>2
<1>5. CASE PartUnreachable(l)
  BY <1>1, <1>5 DEF PartUnreachable, Fetching, HasNext, CallAt, CallType
<1>6. CASE PartKept(l) \/ PartFresh(l) \/ PartFetched(l) \/ PartStale(l)
  BY <1>3, <1>6 DEF PartKept, PartFresh, PartFetched, PartStale, WithPart,
     Fetching, HasNext, CallAt
<1>7. CASE Merge(l)
  BY <1>2, <1>7 DEF Merge, CallAt
<1> QED BY <1>4, <1>5, <1>6, <1>7 DEF CallStep

(* An opening goes on: one that ends has sent its message.                 *)
LEMMA IndexStepInv ==
  ASSUME PickerInv, NEW l \in Loads, IndexStep(l)
  PROVE  PickerInv'
<1>1. IndexesInv' /\ \A k \in Loads : calls[k] \in CallType
  BY CallStepInv DEF PickerInv, IndexStep, IndexesInv, IndexesTyped
<1>2. /\ \A k \in Loads : k # l => calls'[k] = calls[k]
      /\ calls'[l].request = calls[l].request /\ calls[l].at # "ended"
  BY CallStepKeeps DEF IndexStep, PickerInv
<1>3. /\ UNCHANGED <<page, fieldVars, ticking, request, load, warned>>
      /\ messages' = IF calls'[l].at = "ended" THEN messages + 1 ELSE messages
  BY DEF IndexStep, Unmoved
<1>4. PickerTyped' /\ WarnedOfQuery' /\ messages \in Nat
  <2>1. messages \in Nat /\ PickerTyped /\ WarnedOfQuery
    BY DEF PickerInv, PickerTyped
  <2>2. messages' \in Nat
    BY <1>3, <2>1
  <2> QED BY <1>3, <2>1, <2>2, Zenon DEF PickerTyped, WarnedOfQuery, fieldVars
<1>5. ListIsCurrent'
  <2> SUFFICES ASSUME page = "picker" PROVE ListIsCurrent'
    BY <1>3 DEF ListIsCurrent
  <2>1. load \in Loads /\ calls[load].request = request
    BY DEF PickerInv, ListIsCurrent
  <2>2. CASE load = l
    <3>1. calls'[load].request = request
      BY <1>2, <2>1, <2>2
    <3>2. Loading' \/ messages' # 0
      BY <1>3, <1>4, <2>1, <2>2, LoadsAssumption DEF Loading
    <3> QED BY <1>3, <2>1, <3>1, <3>2 DEF ListIsCurrent
  <2>3. CASE load # l
    <3>1. calls'[load] = calls[load]
      BY <1>2, <2>1, <2>3
    <3>2. IsPython' = IsPython /\ Index' = Index /\ Loading' = Loading
      BY <1>3, <3>1 DEF IsPython, Index, LoadedIn, Loading
    <3>3. messages' = 0 => messages = 0
      BY <1>3, <1>4
    <3> QED BY <1>3, <2>1, <3>1, <3>2, <3>3
            DEF PickerInv, ListIsCurrent, fieldVars
  <2> QED BY <2>2, <2>3
<1> QED BY <1>1, <1>4, <1>5 DEF PickerInv

(* A message, and a timer once the load has ended, draw the list again.    *)
LEMMA LoadedInv == ASSUME PickerInv, Loaded PROVE PickerInv'
<1>1. /\ UNCHANGED <<refresh, cache, kept, calls, page, ticking, request, load, warned>>
      /\ messages > 0 /\ messages' = messages - 1 /\ messages \in Nat
  BY DEF Loaded, Unmoved, PickerInv, PickerTyped
<1>2. opened' = opened \/ \E q, a : opened' = [opened EXCEPT ![Key(q, TRUE)] = a]
  BY DEF Loaded, Known
<1>3. IndexesInv'
  BY <1>1, <1>2, OtherwiseStays DEF PickerInv
<1>4. IsPython' = IsPython /\ Index' = Index
  BY <1>1 DEF IsPython, Index
<1>5. ListIsCurrent'
  BY <1>1, <1>4 DEF Loaded, Redraws, Refresh, ListIsCurrent, PickerInv
<1>6. PickerTyped'
  BY <1>1 DEF PickerTyped, PickerInv
<1>7. WarnedOfQuery'
  <2>1. UNCHANGED <<query, nudged>>
    BY DEF Loaded, Redraws, fieldVars
  <2> QED BY <1>1, <2>1, Zenon DEF WarnedOfQuery, PickerInv
<1> QED BY <1>3, <1>5, <1>6, <1>7 DEF PickerInv

LEMMA TickInv == ASSUME PickerInv, Tick PROVE PickerInv'
<1>1. UNCHANGED <<indexVars, page, messages, request, load, warned>>
  BY DEF Tick, Unmoved
<1>2. IndexesInv'
  BY <1>1, OtherwiseStays DEF PickerInv, indexVars
<1>3. IsPython' = IsPython /\ Index' = Index /\ Loading' = Loading
  BY <1>1 DEF IsPython, Index, Loading, indexVars
<1>4. ListIsCurrent'
  BY <1>1, <1>3 DEF Tick, Redraws, Refresh, ListIsCurrent, PickerInv, indexVars
<1>5. PickerTyped' /\ WarnedOfQuery'
  BY <1>1 DEF Tick, Redraws, fieldVars, PickerTyped, WarnedOfQuery, PickerInv
<1> QED BY <1>2, <1>4, <1>5 DEF PickerInv

(* The form is left, and what is being fetched canceled.                   *)
LEMMA LeavingInv ==
  ASSUME PickerInv, Finish \/ AnswerQuestion
  PROVE  PickerInv'
<1>1. PickerTyped' /\ ListIsCurrent' /\ WarnedOfQuery'
  BY DEF PickerInv, PickerTyped, ListIsCurrent, WarnedOfQuery, Finish,
     AnswerQuestion, Unmoved
<1>2. CASE Finish
  <2>1. UNCHANGED <<refresh, cache, kept, calls>>
        /\ (opened' = opened \/ \E q, a : opened' = [opened EXCEPT ![Key(q, TRUE)] = a])
    BY <1>2 DEF Finish, Known
  <2> QED BY <1>1, <2>1, OtherwiseStays DEF PickerInv
<1>3. CASE AnswerQuestion
  <2>1. \A l \in Loads : calls[l] \in CallType /\ CallIsTrue(calls[l])
    BY DEF PickerInv, IndexesInv, IndexesTyped
  <2>2. \A l \in Loads : CancelCall(calls[l]) \in CallType
                         /\ CallIsTrue(CancelCall(calls[l]))
    BY <2>1, CallChanges
  <2>3. calls' = [l \in Loads |-> CancelCall(calls[l])]
        /\ UNCHANGED <<refresh, cache, opened, kept>>
    BY <1>3 DEF AnswerQuestion
  <2> QED BY <1>1, <2>2, <2>3, CallsInv DEF PickerInv
<1> QED BY <1>2, <1>3

(* What is looked up beside the list, and a step that changes nothing.     *)
LEMMA AsideInv ==
  ASSUME PickerInv, RestDue \/ LookedUp \/ UNCHANGED vars
  PROVE  PickerInv'
<1>1. UNCHANGED <<indexVars, page, fieldVars, request, load, messages, ticking, warned>>
  BY DEF RestDue, LookedUp, Unmoved, vars, pickerVars
<1>2. IndexesInv'
  BY <1>1, OtherwiseStays DEF PickerInv, indexVars
<1>3. IsPython' = IsPython /\ Index' = Index /\ Loading' = Loading
  BY <1>1 DEF IsPython, Index, Loading, indexVars
<1>4. PickerTyped' /\ ListIsCurrent' /\ WarnedOfQuery'
  BY <1>1, <1>3 DEF PickerInv, PickerTyped, ListIsCurrent, WarnedOfQuery,
     fieldVars, indexVars
<1> QED BY <1>2, <1>4 DEF PickerInv

LEMMA PickerInitInv == ASSUME IndexesInit, PickerInit PROVE PickerInv
<1> USE DEF IndexesInit
<1>1. IndexesTyped
  <2>1. Idle \in CallType
    <3>1. <<>> \in Seq(RepoPart)
      OBVIOUS
    <3> QED BY <3>1 DEF Idle, CallType
  <2>2. cache \in [Repos -> Origins \cup {"none"}]
    BY CachesAssumption DEF Origins
  <2> QED BY <2>1, <2>2 DEF IndexesTyped, Keys, Key
<1>2. KeptIsTrue /\ OpenedIsTrue /\ \A l \in Loads : CallIsTrue(calls[l])
  BY DEF KeptIsTrue, OpenedIsTrue, AnswerIsTrue, CallIsTrue, Idle, Key, Keys
<1>3. PickerTyped /\ ListIsCurrent /\ WarnedOfQuery
  BY DEF PickerInit, PickerTyped, ListIsCurrent, WarnedOfQuery
<1> QED BY <1>1, <1>2, <1>3 DEF PickerInv, IndexesInv

LEMMA PickerStepInv == ASSUME PickerInv, [PickerNext]_vars PROVE PickerInv'
BY FocusInv, ChangeInv, KeyPressedInv, LoadedInv, TickInv, LeavingInv,
   AsideInv, IndexStepInv DEF PickerNext

-----------------------------------------------------------------------------
(* The theorems.                                                           *)

(* In every reachable state the parts an opening has collected, what is    *)
(* kept and what is remembered for the next request are true, and the list *)
(* follows the answers.                                                    *)
THEOREM PickerInvariant == PickerSpec => []PickerInv
<1>1. IndexesInit /\ PickerInit => PickerInv
  BY PickerInitInv
<1>2. PickerInv /\ [PickerNext]_vars => PickerInv'
  BY PickerStepInv
<1> QED BY <1>1, <1>2, PTL DEF PickerSpec

(* While the picker is on screen its load is for the answers as they are,  *)
(* and once the load's end has been told the list is that index's          *)
(* (pickerField.Focus, pickerField.refresh).                               *)
THEOREM ShownIsCurrentHolds == PickerSpec => []ShownIsCurrent
<1>1. PickerInv => ShownIsCurrent
  BY DEF PickerInv, ListIsCurrent, ShownIsCurrent
<1> QED BY <1>1, PickerInvariant, PTL

(* What is answered online accounts for every repository asked for, and    *)
(* with --refresh-index what it does not call missing this run fetched     *)
(* (packageIndexes.get).                                                   *)
THEOREM OpenIsTrueHolds == PickerSpec => []OpenIsTrue
<1>1. PickerInv => OpenIsTrue
  BY DEF PickerInv, IndexesInv, CallIsTrue, AnswerIsTrue, Sound, OpenIsTrue
<1> QED BY <1>1, PickerInvariant, PTL

(* Enter never leaves the page with a name typed and not added that it has *)
(* not warned of (pickerField.handleKey).                                  *)
THEOREM NothingTypedIsDroppedHolds == PickerSpec => NothingTypedIsDropped
<1> DEFINE Dropped == /\ page = "picker" /\ page' = "after"
                      /\ query # ""
                      /\ query \notin Range(chosen) \cup CatalogChosen
<1>1. ASSUME PickerInv, [PickerNext]_vars, Dropped
      PROVE  warned = query
  <2>1. Enter
    BY <1>1 DEF vars, pickerVars, PickerNext, Focus, Change, KeyPressed, Type,
       Clear, Paste, Move, Toggle, Back, OpenSections, MoveSection, PickSection,
       CloseSections, Stays, Leave, Loaded, Tick, RestDue, LookedUp, Finish,
       AnswerQuestion, IndexStep
  <2>2. nudged
    BY <1>1, <2>1 DEF Enter, Unadded, Stays
  <2> QED BY <1>1, <2>2 DEF PickerInv, WarnedOfQuery
<1>2. PickerInv /\ [PickerNext]_vars => [Dropped => warned = query]_vars
  BY <1>1
<1> QED BY <1>2, PickerInvariant, PTL DEF PickerSpec, NothingTypedIsDropped

-----------------------------------------------------------------------------
(* Writing the recipe.                                                     *)
Recipe  == [by : Runs \cup {"person"}, whole : BOOLEAN, names : SUBSET Certs]
RunType ==
  [at : Places, force : BOOLEAN, todo : SUBSET Certs, created : SUBSET Certs,
   names : SUBSET Certs, temporary : BOOLEAN, wrote : BOOLEAN, unnamed : SUBSET Certs,
   exit : {Missing, 0, 1}]
WriteTyped ==
  /\ recipeAt \in Recipe \cup {Missing} /\ named \in SUBSET Certs
  /\ certAt \in [Certs -> Runs \cup {Missing, "person"}] /\ run \in [Runs -> RunType]

(* The claim of a run without --force: between Claim and its rename.       *)
Claimed(r) == run[r].at = "replace" /\ ~run[r].force
ClaimIsThere ==
  \A r \in Runs : Claimed(r) =>
    /\ recipeAt # Missing
    /\ recipeAt.by = r \/ (recipeAt.by \in Runs /\ run[recipeAt.by].force)
OneClaim == \A r, s \in Runs : Claimed(r) /\ Claimed(s) => r = s
ClaimIsOnes ==
  recipeAt # Missing /\ ~recipeAt.whole =>
    /\ recipeAt.by \in Runs /\ run[recipeAt.by].at \in {"replace", "killed"}
    /\ ~run[recipeAt.by].force
NoForcedClaim == \A r \in Runs : run[r].at = "claim" => ~run[r].force

TemporaryIsOnes ==
  \A r \in Runs : run[r].temporary => run[r].at \in {"claim", "replace", "killed"}

(* Certificates: who made them, and what is known of them at the end.      *)
NamedAreNamed == recipeAt # Missing => recipeAt.names \subseteq named
MadeAreKnown  == \A r \in Runs, c \in Certs : certAt[c] = r => c \in run[r].created
NoneAtStart   == \A r \in Runs : run[r].at = "start" => run[r].created = {}
UnnamedAreKnown ==
  \A r \in Runs, c \in Certs :
    run[r].at = "remove" /\ certAt[c] = r => c \in run[r].unnamed \cup named
LeftAreNamed ==
  \A r \in Runs, c \in Certs :
    run[r].at = "ended" /\ run[r].exit = 1 /\ ~run[r].wrote /\ certAt[c] = r => c \in named

(* A run has written its recipe once its keys are fetched, and fails after *)
(* that only on its report.                                                *)
WroteIsKnown ==
  \A r \in Runs :
    /\ run[r].at \in {"keys", "report"} => run[r].names \subseteq named
    /\ run[r].at = "report" => run[r].wrote
    /\ run[r].wrote =>
         /\ run[r].at \in {"report", "ended", "killed"} /\ run[r].names \subseteq named
         /\ run[r].at = "report" \/ run[r].exit = 1 => r \in Captures

ClaimInv == ClaimIsThere /\ OneClaim /\ ClaimIsOnes /\ NoForcedClaim /\ TemporaryIsOnes
CertInv  == NamedAreNamed /\ MadeAreKnown /\ NoneAtStart /\ UnnamedAreKnown /\ LeftAreNamed
WriteInv == WriteTyped /\ ClaimInv /\ CertInv /\ WroteIsKnown

Step(r) ==
  \/ LookForRecipe(r) \/ WriteCertificate(r) \/ CertificateFails(r)
  \/ FormConfirmed(r) \/ FormAbandoned(r) \/ WriteTemporary(r)
  \/ Claim(r) \/ ClaimFails(r)
  \/ RenameIntoPlace(r) \/ RenameFails(r) \/ FetchKeys(r) \/ WriteReport(r)
  \/ ReadNames(r) \/ RemoveUnnamed(r) \/ Kill(r)

(* What a step does to the other runs' states: nothing.                    *)
LEMMA OthersStay ==
  ASSUME WriteTyped, NEW r \in Runs, Step(r), NEW s \in Runs, s # r
  PROVE  run'[s] = run[s]
BY DEF WriteTyped, Step, LookForRecipe, WriteCertificate, CertificateFails, FormConfirmed, FormAbandoned,
       WriteTemporary, Claim, ClaimFails, RenameIntoPlace, RenameFails, FetchKeys, WriteReport, ReadNames,
       RemoveUnnamed, Kill, Fails, Goes

LEMMA InitInv == WriteInit => WriteInv
<1> SUFFICES ASSUME WriteInit PROVE WriteInv
  OBVIOUS
<1>1. PICK force \in [Runs -> BOOLEAN] :
        run = [r \in Runs |-> [NotStarted EXCEPT !.force = force[r], !.todo = CapturedBy[r]]]
  BY DEF WriteInit
<1>2. \A r \in Runs : /\ run[r] \in RunType /\ run[r].at = "start" /\ run[r].created = {}
                      /\ ~run[r].temporary /\ ~run[r].wrote
  BY <1>1, WriteAssumption DEF NotStarted, RunType, Places
<1>3. recipeAt # Missing => recipeAt = [by |-> "person", whole |-> TRUE, names |-> {}]
  BY DEF WriteInit
<1>4. WriteTyped
  <2>1. run \in [Runs -> RunType]
    BY <1>1, <1>2
  <2> DEFINE first == [by |-> "person", whole |-> TRUE, names |-> {}]
  <2>4. first \in Recipe
    BY DEF Recipe
  <2> HIDE DEF first
  <2>2. recipeAt \in Recipe \cup {Missing}
    BY <1>3, <2>4 DEF first
  <2>3. certAt \in [Certs -> Runs \cup {Missing, "person"}] /\ named \in SUBSET Certs
    BY DEF WriteInit
  <2> QED
    BY <2>1, <2>2, <2>3 DEF WriteTyped
<1>5. ClaimInv
  <2>1. recipeAt # Missing => recipeAt.whole
    BY <1>3
  <2>2. ClaimIsThere /\ OneClaim
    BY <1>2 DEF ClaimIsThere, OneClaim, Claimed
  <2> QED
    BY <1>2, <2>1, <2>2 DEF ClaimInv, ClaimIsOnes, NoForcedClaim, TemporaryIsOnes
<1>6. CertInv
  <2>1. recipeAt # Missing => recipeAt.names = {}
    BY <1>3
  <2>2. \A c \in Certs, r \in Runs : certAt[c] # r
    BY WriteAssumption DEF WriteInit
  <2> QED
    BY <1>2, <2>1, <2>2
       DEF CertInv, NamedAreNamed, MadeAreKnown, NoneAtStart, UnnamedAreKnown, LeftAreNamed
<1>7. WroteIsKnown
  BY <1>2 DEF WroteIsKnown
<1> QED
  BY <1>4, <1>5, <1>6, <1>7 DEF WriteInv

(* The steps keep the types.                                               *)
LEMMA Updates ==
  ASSUME NEW x \in RunType, NEW p \in Places, NEW b \in BOOLEAN, NEW S \in SUBSET Certs,
         NEW e \in {Missing, 0, 1}
  PROVE  /\ [x EXCEPT !.at = p, !.names = S] \in RunType
         /\ [x EXCEPT !.at = p, !.temporary = b] \in RunType
         /\ [x EXCEPT !.at = p, !.exit = e] \in RunType
         /\ [x EXCEPT !.at = p, !.wrote = b] \in RunType
         /\ [x EXCEPT !.at = p, !.wrote = b, !.exit = e] \in RunType
         /\ [x EXCEPT !.at = p, !.unnamed = S] \in RunType
BY DEF RunType

LEMMA RunTyped ==
  ASSUME WriteTyped, NEW r \in Runs, Step(r)
  PROVE  run' \in [Runs -> RunType]
<1>1. CASE LookForRecipe(r)
  BY <1>1 DEF LookForRecipe, Goes, WriteTyped, RunType, Places
<1>2. CASE WriteCertificate(r)
  BY <1>2 DEF WriteCertificate, WriteTyped, RunType, Places
<1>3. CASE CertificateFails(r)
  <2>1. run' = [run EXCEPT ![r] = [run[r] EXCEPT !.at = "ended", !.exit = 1]]
    BY <1>3 DEF CertificateFails, WriteTyped
  <2>2. run[r] \in RunType /\ "ended" \in Places
    BY DEF WriteTyped, Places
  <2>3. [run[r] EXCEPT !.at = "ended", !.exit = 1] \in RunType
    BY <2>2, Updates
  <2> QED
    BY <2>1, <2>3 DEF WriteTyped
<1>4. CASE FormConfirmed(r)
  <2>1. PICK names \in SUBSET Certs : run' = [run EXCEPT ![r] = [run[r] EXCEPT !.at = "write", !.names = names]]
    BY <1>4 DEF FormConfirmed, WriteTyped
  <2>2. run[r] \in RunType /\ "write" \in Places
    BY DEF WriteTyped, Places
  <2>3. [run[r] EXCEPT !.at = "write", !.names = names] \in RunType
    BY <2>2, Updates
  <2> QED
    BY <2>1, <2>3 DEF WriteTyped
<1>5. CASE FormAbandoned(r)
  <2>1. run'[r] \in RunType
    BY ZenonT(40), <1>5 DEF FormAbandoned, Fails, WriteTyped, RunType, Places
  <2>2. run' = [run EXCEPT ![r] = run'[r]]
    BY <1>5 DEF FormAbandoned, Fails, WriteTyped
  <2> QED
    BY <2>1, <2>2 DEF WriteTyped
<1>6. CASE WriteTemporary(r)
  <2>1. \/ \E p \in {"replace", "claim"} : run' = [run EXCEPT ![r] = [run[r] EXCEPT !.at = p, !.temporary = TRUE]]
        \/ run' = [run EXCEPT ![r] = [run[r] EXCEPT !.at = "cleanup", !.exit = 1]]
    BY <1>6 DEF WriteTemporary, Fails, WriteTyped
  <2>2. run[r] \in RunType /\ {"replace", "claim", "cleanup"} \subseteq Places
    BY DEF WriteTyped, Places
  <2>3. /\ \A p \in {"replace", "claim"} : [run[r] EXCEPT !.at = p, !.temporary = TRUE] \in RunType
        /\ [run[r] EXCEPT !.at = "cleanup", !.exit = 1] \in RunType
    BY <2>2, Updates
  <2> QED
    BY <2>1, <2>3 DEF WriteTyped
<1>7. CASE Claim(r)
  BY <1>7 DEF Claim, Goes, Empty, WriteTyped, RunType, Places
<1>8. CASE ClaimFails(r)
  <2>1. run'[r] \in RunType
    BY ZenonT(40), <1>8 DEF ClaimFails, Fails, WriteTyped, RunType, Places
  <2>2. run' = [run EXCEPT ![r] = run'[r]]
    BY <1>8 DEF ClaimFails, Fails, WriteTyped
  <2> QED
    BY <2>1, <2>2 DEF WriteTyped
<1>9. CASE RenameIntoPlace(r)
  <2>1. run' = [run EXCEPT ![r] = [run[r] EXCEPT !.at = "keys", !.temporary = FALSE]]
    BY <1>9 DEF RenameIntoPlace, WriteTyped
  <2>2. run[r] \in RunType /\ "keys" \in Places
    BY DEF WriteTyped, Places
  <2>3. [run[r] EXCEPT !.at = "keys", !.temporary = FALSE] \in RunType
    BY <2>2, Updates
  <2> QED
    BY <2>1, <2>3 DEF WriteTyped
<1>10. CASE RenameFails(r)
  <2>1. run'[r] \in RunType
    BY ZenonT(40), <1>10 DEF RenameFails, Fails, WriteTyped, RunType, Places
  <2>2. run' = [run EXCEPT ![r] = run'[r]]
    BY <1>10 DEF RenameFails, Fails, WriteTyped
  <2> QED
    BY <2>1, <2>2 DEF WriteTyped
<1>11. CASE FetchKeys(r)
  <2>1. \/ run' = [run EXCEPT ![r] = [run[r] EXCEPT !.at = "report", !.wrote = TRUE]]
        \/ run' = [run EXCEPT ![r] = [run[r] EXCEPT !.at = "ended", !.wrote = TRUE, !.exit = 0]]
        \/ run' = [run EXCEPT ![r] = [run[r] EXCEPT !.at = "cleanup", !.exit = 1]]
    BY <1>11 DEF FetchKeys, Fails, WriteTyped
  <2>2. run[r] \in RunType /\ {"report", "ended", "cleanup"} \subseteq Places
    BY DEF WriteTyped, Places
  <2>3. /\ [run[r] EXCEPT !.at = "report", !.wrote = TRUE] \in RunType
        /\ [run[r] EXCEPT !.at = "ended", !.wrote = TRUE, !.exit = 0] \in RunType
        /\ [run[r] EXCEPT !.at = "cleanup", !.exit = 1] \in RunType
    BY <2>2, Updates
  <2> QED
    BY <2>1, <2>3 DEF WriteTyped
<1>12. CASE ReadNames(r)
  <2> DEFINE stay == IF recipeAt # Missing /\ recipeAt.whole THEN recipeAt.names ELSE {}
             unnamed == run[r].created \ stay
  <2>1. run' = [run EXCEPT ![r] = [run[r] EXCEPT !.at = "remove", !.unnamed = unnamed]]
    BY <1>12 DEF ReadNames, WriteTyped
  <2>2. run[r] \in RunType /\ "remove" \in Places /\ run[r].created \in SUBSET Certs
    BY DEF WriteTyped, Places, RunType
  <2>3. unnamed \in SUBSET Certs
    BY <2>2
  <2> HIDE DEF unnamed
  <2>4. [run[r] EXCEPT !.at = "remove", !.unnamed = unnamed] \in RunType
    BY <2>2, <2>3, Updates
  <2> QED
    BY <2>1, <2>4 DEF WriteTyped
<1>13. CASE RemoveUnnamed(r)
  BY <1>13 DEF RemoveUnnamed, Goes, WriteTyped, RunType, Places
<1>14. CASE Kill(r)
  <2>1. run'[r] \in RunType
    BY ZenonT(40), <1>14 DEF Kill, Goes, WriteTyped, RunType, Places
  <2>2. run' = [run EXCEPT ![r] = run'[r]]
    BY <1>14 DEF Kill, Goes, WriteTyped
  <2> QED
    BY <2>1, <2>2 DEF WriteTyped
<1>15. CASE WriteReport(r)
  <2>1. PICK code \in {0, 1} : run' = [run EXCEPT ![r] = [run[r] EXCEPT !.at = "ended", !.exit = code]]
    BY <1>15 DEF WriteReport, WriteTyped
  <2>2. run[r] \in RunType /\ "ended" \in Places
    BY DEF WriteTyped, Places
  <2>3. [run[r] EXCEPT !.at = "ended", !.exit = code] \in RunType
    BY <2>2, Updates
  <2> QED
    BY <2>1, <2>3 DEF WriteTyped
<1> QED
  BY <1>1, <1>2, <1>3, <1>4, <1>5, <1>6, <1>7, <1>8, <1>9, <1>10, <1>11, <1>12, <1>13, <1>14,
     <1>15 DEF Step

LEMMA RestTyped ==
  ASSUME WriteTyped, NEW r \in Runs, Step(r)
  PROVE  /\ recipeAt' \in Recipe \cup {Missing} /\ named' \in SUBSET Certs
         /\ certAt' \in [Certs -> Runs \cup {Missing, "person"}]
<1>1. CASE LookForRecipe(r)
  BY <1>1 DEF LookForRecipe, Goes, WriteTyped, RunType, Recipe
<1>2. CASE WriteCertificate(r)
  BY <1>2 DEF WriteCertificate, WriteTyped, RunType, Recipe
<1>3. CASE CertificateFails(r)
  BY <1>3 DEF CertificateFails, WriteTyped, RunType, Recipe
<1>4. CASE FormConfirmed(r)
  BY <1>4 DEF FormConfirmed, WriteTyped, RunType, Recipe
<1>5. CASE FormAbandoned(r)
  BY <1>5 DEF FormAbandoned, Fails, WriteTyped, RunType, Recipe
<1>6. CASE WriteTemporary(r)
  BY <1>6 DEF WriteTemporary, Fails, WriteTyped, RunType, Recipe
<1>7. CASE Claim(r)
  BY <1>7 DEF Claim, Goes, Empty, WriteTyped, RunType, Recipe
<1>8. CASE ClaimFails(r)
  BY <1>8 DEF ClaimFails, Fails, WriteTyped, RunType, Recipe
<1>9. CASE RenameIntoPlace(r)
  BY <1>9 DEF RenameIntoPlace, WholeRecipe, WriteTyped, RunType, Recipe
<1>10. CASE RenameFails(r)
  BY <1>10 DEF RenameFails, Fails, WriteTyped, RunType, Recipe
<1>11. CASE FetchKeys(r)
  BY <1>11 DEF FetchKeys, Fails, WriteTyped, RunType, Recipe
<1>12. CASE ReadNames(r)
  BY <1>12 DEF ReadNames, WriteTyped, RunType, Recipe
<1>13. CASE RemoveUnnamed(r)
  BY <1>13 DEF RemoveUnnamed, Goes, WriteTyped, RunType, Recipe
<1>14. CASE Kill(r)
  BY <1>14 DEF Kill, Goes, WriteTyped, RunType, Recipe
<1>15. CASE WriteReport(r)
  BY <1>15 DEF WriteReport, WriteTyped, RunType, Recipe
<1> QED
  BY <1>1, <1>2, <1>3, <1>4, <1>5, <1>6, <1>7, <1>8, <1>9, <1>10, <1>11, <1>12, <1>13, <1>14,
     <1>15 DEF Step

(* What the two steps that may fail do to their run's state.               *)
LEMMA WriteTemporaryDoes ==
  ASSUME WriteTyped, NEW r \in Runs, WriteTemporary(r)
  PROVE  /\ run[r].at = "write" /\ UNCHANGED <<recipeAt, certAt, named>>
         /\ run'[r].force = run[r].force /\ run'[r].created = run[r].created
         /\ \/ run'[r].at = "replace" /\ run[r].force
            \/ run'[r].at = "claim" /\ ~run[r].force
            \/ run'[r].at = "cleanup" /\ run'[r].temporary = run[r].temporary
<1>1. \/ run' = [run EXCEPT ![r] = [run[r] EXCEPT !.at = IF run[r].force THEN "replace" ELSE "claim",
                                                !.temporary = TRUE]]
      \/ run' = [run EXCEPT ![r] = [run[r] EXCEPT !.at = "cleanup", !.exit = 1]]
  BY DEF WriteTemporary, Fails, WriteTyped
<1>2. run[r] \in RunType /\ r \in DOMAIN run
  BY DEF WriteTyped
<1>3. CASE run' = [run EXCEPT ![r] = [run[r] EXCEPT !.at = IF run[r].force THEN "replace" ELSE "claim", !.temporary = TRUE]]
  <2> DEFINE x == [run[r] EXCEPT !.at = IF run[r].force THEN "replace" ELSE "claim", !.temporary = TRUE]
  <2>1. run'[r] = x
    BY <1>3, <1>2
  <2>2. /\ x.force = run[r].force /\ x.created = run[r].created
        /\ x.at = IF run[r].force THEN "replace" ELSE "claim"
    BY <1>2 DEF RunType
  <2> QED
    BY <2>1, <2>2 DEF WriteTemporary
<1>4. CASE run' = [run EXCEPT ![r] = [run[r] EXCEPT !.at = "cleanup", !.exit = 1]]
  <2> DEFINE x == [run[r] EXCEPT !.at = "cleanup", !.exit = 1]
  <2>1. run'[r] = x
    BY <1>4, <1>2
  <2>2. /\ x.force = run[r].force /\ x.created = run[r].created
        /\ x.at = "cleanup" /\ x.temporary = run[r].temporary
    BY <1>2 DEF RunType
  <2> QED
    BY <2>1, <2>2 DEF WriteTemporary
<1> QED
  BY <1>1, <1>3, <1>4

LEMMA FetchKeysDoes ==
  ASSUME WriteTyped, NEW r \in Runs, FetchKeys(r)
  PROVE  /\ run[r].at = "keys" /\ UNCHANGED <<recipeAt, certAt, named>>
         /\ run'[r].force = run[r].force /\ run'[r].created = run[r].created
         /\ run'[r].temporary = run[r].temporary /\ run'[r].names = run[r].names
         /\ \/ run'[r].at = "report" /\ run'[r].wrote /\ r \in Captures
            \/ run'[r].at = "ended" /\ run'[r].exit = 0
            \/ run'[r].at = "cleanup" /\ run'[r].wrote = run[r].wrote
<1>1. \/ run' = [run EXCEPT ![r] = [run[r] EXCEPT !.at = "report", !.wrote = TRUE]] /\ r \in Captures
      \/ run' = [run EXCEPT ![r] = [run[r] EXCEPT !.at = "ended", !.wrote = TRUE, !.exit = 0]]
      \/ run' = [run EXCEPT ![r] = [run[r] EXCEPT !.at = "cleanup", !.exit = 1]]
  BY DEF FetchKeys, Fails, WriteTyped
<1>2. run[r] \in RunType /\ r \in DOMAIN run
  BY DEF WriteTyped
<1>3. CASE run' = [run EXCEPT ![r] = [run[r] EXCEPT !.at = "ended", !.wrote = TRUE, !.exit = 0]]
  <2> DEFINE x == [run[r] EXCEPT !.at = "ended", !.wrote = TRUE, !.exit = 0]
  <2>1. run'[r] = x
    BY <1>3, <1>2
  <2>2. /\ x.force = run[r].force /\ x.created = run[r].created /\ x.names = run[r].names
        /\ x.at = "ended" /\ x.exit = 0 /\ x.temporary = run[r].temporary
    BY <1>2 DEF RunType
  <2> QED
    BY <2>1, <2>2 DEF FetchKeys
<1>4. CASE run' = [run EXCEPT ![r] = [run[r] EXCEPT !.at = "cleanup", !.exit = 1]]
  <2> DEFINE x == [run[r] EXCEPT !.at = "cleanup", !.exit = 1]
  <2>1. run'[r] = x
    BY <1>4, <1>2
  <2>2. /\ x.force = run[r].force /\ x.created = run[r].created /\ x.names = run[r].names
        /\ x.at = "cleanup" /\ x.temporary = run[r].temporary /\ x.wrote = run[r].wrote
    BY <1>2 DEF RunType
  <2> QED
    BY <2>1, <2>2 DEF FetchKeys
<1>5. CASE run' = [run EXCEPT ![r] = [run[r] EXCEPT !.at = "report", !.wrote = TRUE]] /\ r \in Captures
  <2> DEFINE x == [run[r] EXCEPT !.at = "report", !.wrote = TRUE]
  <2>1. run'[r] = x
    BY <1>5, <1>2
  <2>2. /\ x.force = run[r].force /\ x.created = run[r].created /\ x.names = run[r].names
        /\ x.at = "report" /\ x.wrote /\ x.temporary = run[r].temporary
    BY <1>2 DEF RunType
  <2> QED
    BY <1>5, <2>1, <2>2 DEF FetchKeys
<1> QED
  BY <1>1, <1>3, <1>4, <1>5

(* The report changes how the run ends, and nothing else.                  *)
LEMMA WriteReportDoes ==
  ASSUME WriteTyped, NEW r \in Runs, WriteReport(r)
  PROVE  /\ run[r].at = "report" /\ UNCHANGED <<recipeAt, certAt, named>>
         /\ run'[r].force = run[r].force /\ run'[r].created = run[r].created
         /\ run'[r].temporary = run[r].temporary /\ run'[r].names = run[r].names
         /\ run'[r].wrote = run[r].wrote /\ run'[r].at = "ended"
<1>1. PICK code \in {0, 1} : run' = [run EXCEPT ![r] = [run[r] EXCEPT !.at = "ended", !.exit = code]]
  BY DEF WriteReport, WriteTyped
<1>2. run[r] \in RunType /\ r \in DOMAIN run
  BY DEF WriteTyped
<1> DEFINE x == [run[r] EXCEPT !.at = "ended", !.exit = code]
<1>3. run'[r] = x
  BY <1>1, <1>2
<1>4. /\ x.force = run[r].force /\ x.created = run[r].created /\ x.names = run[r].names
      /\ x.at = "ended" /\ x.wrote = run[r].wrote /\ x.temporary = run[r].temporary
  BY <1>2 DEF RunType
<1> QED
  BY <1>3, <1>4 DEF WriteReport

(* No step changes whether a run was given --force.                        *)
LEMMA ForceStays ==
  ASSUME WriteTyped, NEW r \in Runs, Step(r), NEW s \in Runs
  PROVE  run'[s].force = run[s].force
<1>1. CASE s # r
  BY <1>1, OthersStay
<1>2. CASE s = r
  <2>1. CASE LookForRecipe(r)
    BY <1>2, <2>1 DEF LookForRecipe, Goes, WriteTyped, RunType
  <2>2. CASE WriteCertificate(r)
    BY <1>2, <2>2 DEF WriteCertificate, WriteTyped, RunType
  <2>3. CASE CertificateFails(r)
    BY <1>2, <2>3 DEF CertificateFails, WriteTyped, RunType
  <2>4. CASE FormConfirmed(r)
    BY <1>2, <2>4 DEF FormConfirmed, WriteTyped, RunType
  <2>5. CASE FormAbandoned(r)
    BY <1>2, <2>5 DEF FormAbandoned, Fails, WriteTyped, RunType
  <2>6. CASE WriteTemporary(r)
    BY <1>2, <2>6, WriteTemporaryDoes
  <2>7. CASE Claim(r)
    BY <1>2, <2>7 DEF Claim, Goes, Empty, WriteTyped, RunType
  <2>8. CASE ClaimFails(r)
    BY <1>2, <2>8 DEF ClaimFails, Fails, WriteTyped, RunType
  <2>9. CASE RenameIntoPlace(r)
    BY <1>2, <2>9 DEF RenameIntoPlace, WholeRecipe, WriteTyped, RunType
  <2>10. CASE RenameFails(r)
    BY <1>2, <2>10 DEF RenameFails, Fails, WriteTyped, RunType
  <2>11. CASE FetchKeys(r)
    BY <1>2, <2>11, FetchKeysDoes
  <2>12. CASE ReadNames(r)
    BY <1>2, <2>12 DEF ReadNames, WriteTyped, RunType
  <2>13. CASE RemoveUnnamed(r)
    BY <1>2, <2>13 DEF RemoveUnnamed, Goes, WriteTyped, RunType
  <2>14. CASE Kill(r)
    BY <1>2, <2>14 DEF Kill, Goes, WriteTyped, RunType
  <2>15. CASE WriteReport(r)
    BY <1>2, <2>15, WriteReportDoes
  <2> QED
    BY <1>2, <2>1, <2>2, <2>3, <2>4, <2>5, <2>6, <2>7, <2>8, <2>9, <2>10, <2>11, <2>12, <2>13, <2>14,
       <2>15
       DEF Step
<1> QED
  BY <1>1, <1>2

(* The claim stays one run's.                                              *)
LEMMA ClaimStep ==
  ASSUME WriteTyped, ClaimInv, NEW r \in Runs, Step(r)
  PROVE  ClaimInv'
<1>0. /\ \A s \in Runs : run'[s].force = run[s].force /\ (s # r => run'[s] = run[s])
      /\ run[r] \in RunType
  BY OthersStay, ForceStays DEF WriteTyped
<1>1. CASE LookForRecipe(r)
  <2>1. ClaimIsThere'
    BY <1>0, <1>1, WriteAssumption DEF LookForRecipe, Goes, WriteTyped, RunType, ClaimInv,
       ClaimIsThere, OneClaim, ClaimIsOnes, NoForcedClaim, Claimed, Recipe
  <2>2. OneClaim'
    BY <1>0, <1>1, WriteAssumption DEF LookForRecipe, Goes, WriteTyped, RunType, ClaimInv,
       ClaimIsThere, OneClaim, ClaimIsOnes, NoForcedClaim, Claimed, Recipe
  <2>3. ClaimIsOnes'
    BY <1>0, <1>1, WriteAssumption DEF LookForRecipe, Goes, WriteTyped, RunType, ClaimInv,
       ClaimIsThere, OneClaim, ClaimIsOnes, NoForcedClaim, Claimed, Recipe
  <2>4. NoForcedClaim'
    BY <1>0, <1>1, WriteAssumption DEF LookForRecipe, Goes, WriteTyped, RunType, ClaimInv, NoForcedClaim
  <2>5. TemporaryIsOnes'
    BY <1>0, <1>1, WriteAssumption
       DEF LookForRecipe, Goes, WriteTyped, RunType, ClaimInv, TemporaryIsOnes
  <2> QED
    BY <2>1, <2>2, <2>3, <2>4, <2>5 DEF ClaimInv
<1>2. CASE WriteCertificate(r)
  <2>1. ClaimIsThere'
    BY <1>0, <1>2, WriteAssumption DEF WriteCertificate, WriteTyped, RunType, ClaimInv, ClaimIsThere,
       OneClaim, ClaimIsOnes, NoForcedClaim, Claimed, Recipe
  <2>2. OneClaim'
    BY <1>0, <1>2, WriteAssumption DEF WriteCertificate, WriteTyped, RunType, ClaimInv, ClaimIsThere,
       OneClaim, ClaimIsOnes, NoForcedClaim, Claimed, Recipe
  <2>3. ClaimIsOnes'
    BY <1>0, <1>2, WriteAssumption DEF WriteCertificate, WriteTyped, RunType, ClaimInv, ClaimIsThere,
       OneClaim, ClaimIsOnes, NoForcedClaim, Claimed, Recipe
  <2>4. NoForcedClaim'
    BY <1>0, <1>2, WriteAssumption DEF WriteCertificate, WriteTyped, RunType, ClaimInv, NoForcedClaim
  <2>5. TemporaryIsOnes'
    BY <1>0, <1>2, WriteAssumption DEF WriteCertificate, WriteTyped, RunType, ClaimInv, TemporaryIsOnes
  <2> QED
    BY <2>1, <2>2, <2>3, <2>4, <2>5 DEF ClaimInv
<1>3. CASE CertificateFails(r)
  <2>1. ClaimIsThere'
    BY <1>0, <1>3, WriteAssumption DEF CertificateFails, WriteTyped, RunType, ClaimInv, ClaimIsThere,
       OneClaim, ClaimIsOnes, NoForcedClaim, Claimed, Recipe
  <2>2. OneClaim'
    BY <1>0, <1>3, WriteAssumption DEF CertificateFails, WriteTyped, RunType, ClaimInv, ClaimIsThere,
       OneClaim, ClaimIsOnes, NoForcedClaim, Claimed, Recipe
  <2>3. ClaimIsOnes'
    BY <1>0, <1>3, WriteAssumption DEF CertificateFails, WriteTyped, RunType, ClaimInv, ClaimIsThere,
       OneClaim, ClaimIsOnes, NoForcedClaim, Claimed, Recipe
  <2>4. NoForcedClaim'
    BY <1>0, <1>3, WriteAssumption DEF CertificateFails, WriteTyped, RunType, ClaimInv, NoForcedClaim
  <2>5. TemporaryIsOnes'
    BY <1>0, <1>3, WriteAssumption DEF CertificateFails, WriteTyped, RunType, ClaimInv, TemporaryIsOnes
  <2> QED
    BY <2>1, <2>2, <2>3, <2>4, <2>5 DEF ClaimInv
<1>4. CASE FormConfirmed(r)
  <2>1. ClaimIsThere'
    BY <1>0, <1>4, WriteAssumption DEF FormConfirmed, WriteTyped, RunType, ClaimInv, ClaimIsThere,
       OneClaim, ClaimIsOnes, NoForcedClaim, Claimed, Recipe
  <2>2. OneClaim'
    BY <1>0, <1>4, WriteAssumption DEF FormConfirmed, WriteTyped, RunType, ClaimInv, ClaimIsThere,
       OneClaim, ClaimIsOnes, NoForcedClaim, Claimed, Recipe
  <2>3. ClaimIsOnes'
    BY <1>0, <1>4, WriteAssumption DEF FormConfirmed, WriteTyped, RunType, ClaimInv, ClaimIsThere,
       OneClaim, ClaimIsOnes, NoForcedClaim, Claimed, Recipe
  <2>4. NoForcedClaim'
    BY <1>0, <1>4, WriteAssumption DEF FormConfirmed, WriteTyped, RunType, ClaimInv, NoForcedClaim
  <2>5. TemporaryIsOnes'
    BY <1>0, <1>4, WriteAssumption DEF FormConfirmed, WriteTyped, RunType, ClaimInv, TemporaryIsOnes
  <2> QED
    BY <2>1, <2>2, <2>3, <2>4, <2>5 DEF ClaimInv
<1>5. CASE FormAbandoned(r)
  <2>1. ClaimIsThere'
    BY <1>0, <1>5, WriteAssumption DEF FormAbandoned, Fails, WriteTyped, RunType, ClaimInv,
       ClaimIsThere, OneClaim, ClaimIsOnes, NoForcedClaim, Claimed, Recipe
  <2>2. OneClaim'
    BY <1>0, <1>5, WriteAssumption DEF FormAbandoned, Fails, WriteTyped, RunType, ClaimInv,
       ClaimIsThere, OneClaim, ClaimIsOnes, NoForcedClaim, Claimed, Recipe
  <2>3. ClaimIsOnes'
    BY <1>0, <1>5, WriteAssumption DEF FormAbandoned, Fails, WriteTyped, RunType, ClaimInv,
       ClaimIsThere, OneClaim, ClaimIsOnes, NoForcedClaim, Claimed, Recipe
  <2>4. NoForcedClaim'
    BY <1>0, <1>5, WriteAssumption DEF FormAbandoned, Fails, WriteTyped, RunType, ClaimInv, NoForcedClaim
  <2>5. TemporaryIsOnes'
    BY <1>0, <1>5, WriteAssumption
       DEF FormAbandoned, Fails, WriteTyped, RunType, ClaimInv, TemporaryIsOnes
  <2> QED
    BY <2>1, <2>2, <2>3, <2>4, <2>5 DEF ClaimInv
<1>6. CASE WriteTemporary(r)
  <2>1. ClaimIsThere'
    BY <1>0, <1>6, WriteTemporaryDoes, WriteAssumption
       DEF WriteTyped, ClaimInv, ClaimIsThere, OneClaim, ClaimIsOnes, NoForcedClaim, Claimed, Recipe
  <2>2. OneClaim'
    BY <1>0, <1>6, WriteTemporaryDoes, WriteAssumption
       DEF WriteTyped, ClaimInv, ClaimIsThere, OneClaim, ClaimIsOnes, NoForcedClaim, Claimed, Recipe
  <2>3. ClaimIsOnes'
    BY <1>0, <1>6, WriteTemporaryDoes, WriteAssumption
       DEF WriteTyped, ClaimInv, ClaimIsThere, OneClaim, ClaimIsOnes, NoForcedClaim, Claimed, Recipe
  <2>4. NoForcedClaim'
    BY <1>0, <1>6, WriteTemporaryDoes, WriteAssumption DEF WriteTyped, ClaimInv, NoForcedClaim
  <2>5. TemporaryIsOnes'
    BY <1>0, <1>6, WriteTemporaryDoes, WriteAssumption DEF WriteTyped, ClaimInv, TemporaryIsOnes
  <2> QED
    BY <2>1, <2>2, <2>3, <2>4, <2>5 DEF ClaimInv
<1>7. CASE Claim(r)
  <2>0. Empty(r) # Missing
    <3>1. run[r].names \in SUBSET Certs
      BY <1>0 DEF RunType
    <3>2. Empty(r) \in Recipe
      BY <3>1 DEF Empty, Recipe
    <3> QED
      BY <3>2, WriteAssumption DEF Recipe
  <2>1. ClaimIsThere'
    BY <1>0, <1>7, <2>0, WriteAssumption DEF Claim, Goes, Empty, WriteTyped, RunType, ClaimInv,
       ClaimIsThere, OneClaim, ClaimIsOnes, NoForcedClaim, Claimed, Recipe
  <2>2. OneClaim'
    BY <1>0, <1>7, <2>0, WriteAssumption DEF Claim, Goes, Empty, WriteTyped, RunType, ClaimInv,
       ClaimIsThere, OneClaim, ClaimIsOnes, NoForcedClaim, Claimed, Recipe
  <2>3. ClaimIsOnes'
    BY <1>0, <1>7, <2>0, WriteAssumption DEF Claim, Goes, Empty, WriteTyped, RunType, ClaimInv,
       ClaimIsThere, OneClaim, ClaimIsOnes, NoForcedClaim, Claimed, Recipe
  <2>4. NoForcedClaim'
    BY <1>0, <1>7, <2>0, WriteAssumption
       DEF Claim, Goes, Empty, WriteTyped, RunType, ClaimInv, NoForcedClaim
  <2>5. TemporaryIsOnes'
    BY <1>0, <1>7, <2>0, WriteAssumption
       DEF Claim, Goes, Empty, WriteTyped, RunType, ClaimInv, TemporaryIsOnes
  <2> QED
    BY <2>1, <2>2, <2>3, <2>4, <2>5 DEF ClaimInv
<1>8. CASE ClaimFails(r)
  <2>1. ClaimIsThere'
    BY <1>0, <1>8, WriteAssumption DEF ClaimFails, Fails, WriteTyped, RunType, ClaimInv, ClaimIsThere,
       OneClaim, ClaimIsOnes, NoForcedClaim, Claimed, Recipe
  <2>2. OneClaim'
    BY <1>0, <1>8, WriteAssumption DEF ClaimFails, Fails, WriteTyped, RunType, ClaimInv, ClaimIsThere,
       OneClaim, ClaimIsOnes, NoForcedClaim, Claimed, Recipe
  <2>3. ClaimIsOnes'
    BY <1>0, <1>8, WriteAssumption DEF ClaimFails, Fails, WriteTyped, RunType, ClaimInv, ClaimIsThere,
       OneClaim, ClaimIsOnes, NoForcedClaim, Claimed, Recipe
  <2>4. NoForcedClaim'
    BY <1>0, <1>8, WriteAssumption DEF ClaimFails, Fails, WriteTyped, RunType, ClaimInv, NoForcedClaim
  <2>5. TemporaryIsOnes'
    BY <1>0, <1>8, WriteAssumption DEF ClaimFails, Fails, WriteTyped, RunType, ClaimInv, TemporaryIsOnes
  <2> QED
    BY <2>1, <2>2, <2>3, <2>4, <2>5 DEF ClaimInv
<1>9. CASE RenameIntoPlace(r)
  <2>0. WholeRecipe(r) # Missing
    <3>1. run[r].names \in SUBSET Certs
      BY <1>0 DEF RunType
    <3>2. WholeRecipe(r) \in Recipe
      BY <3>1 DEF WholeRecipe, Recipe
    <3> QED
      BY <3>2, WriteAssumption DEF Recipe
  <2>1. ClaimIsThere'
    BY <1>0, <1>9, <2>0, WriteAssumption DEF RenameIntoPlace, WholeRecipe, WriteTyped, RunType,
       ClaimInv, ClaimIsThere, OneClaim, ClaimIsOnes, NoForcedClaim, Claimed, Recipe
  <2>2. OneClaim'
    BY <1>0, <1>9, <2>0, WriteAssumption DEF RenameIntoPlace, WholeRecipe, WriteTyped, RunType,
       ClaimInv, ClaimIsThere, OneClaim, ClaimIsOnes, NoForcedClaim, Claimed, Recipe
  <2>3. ClaimIsOnes'
    BY <1>0, <1>9, <2>0, WriteAssumption DEF RenameIntoPlace, WholeRecipe, WriteTyped, RunType,
       ClaimInv, ClaimIsThere, OneClaim, ClaimIsOnes, NoForcedClaim, Claimed, Recipe
  <2>4. NoForcedClaim'
    BY <1>0, <1>9, <2>0, WriteAssumption
       DEF RenameIntoPlace, WholeRecipe, WriteTyped, RunType, ClaimInv, NoForcedClaim
  <2>5. TemporaryIsOnes'
    BY <1>0, <1>9, <2>0, WriteAssumption
       DEF RenameIntoPlace, WholeRecipe, WriteTyped, RunType, ClaimInv, TemporaryIsOnes
  <2> QED
    BY <2>1, <2>2, <2>3, <2>4, <2>5 DEF ClaimInv
<1>10. CASE RenameFails(r)
  <2>1. ClaimIsThere'
    BY <1>0, <1>10, WriteAssumption DEF RenameFails, Fails, WriteTyped, RunType, ClaimInv,
       ClaimIsThere, OneClaim, ClaimIsOnes, NoForcedClaim, Claimed, Recipe
  <2>2. OneClaim'
    BY <1>0, <1>10, WriteAssumption DEF RenameFails, Fails, WriteTyped, RunType, ClaimInv,
       ClaimIsThere, OneClaim, ClaimIsOnes, NoForcedClaim, Claimed, Recipe
  <2>3. ClaimIsOnes'
    BY <1>0, <1>10, WriteAssumption DEF RenameFails, Fails, WriteTyped, RunType, ClaimInv,
       ClaimIsThere, OneClaim, ClaimIsOnes, NoForcedClaim, Claimed, Recipe
  <2>4. NoForcedClaim'
    BY <1>0, <1>10, WriteAssumption DEF RenameFails, Fails, WriteTyped, RunType, ClaimInv, NoForcedClaim
  <2>5. TemporaryIsOnes'
    BY <1>0, <1>10, WriteAssumption
       DEF RenameFails, Fails, WriteTyped, RunType, ClaimInv, TemporaryIsOnes
  <2> QED
    BY <2>1, <2>2, <2>3, <2>4, <2>5 DEF ClaimInv
<1>11. CASE FetchKeys(r)
  <2>1. ClaimIsThere'
    BY <1>0, <1>11, FetchKeysDoes, WriteAssumption
       DEF WriteTyped, ClaimInv, ClaimIsThere, OneClaim, ClaimIsOnes, NoForcedClaim, Claimed, Recipe
  <2>2. OneClaim'
    BY <1>0, <1>11, FetchKeysDoes, WriteAssumption
       DEF WriteTyped, ClaimInv, ClaimIsThere, OneClaim, ClaimIsOnes, NoForcedClaim, Claimed, Recipe
  <2>3. ClaimIsOnes'
    BY <1>0, <1>11, FetchKeysDoes, WriteAssumption
       DEF WriteTyped, ClaimInv, ClaimIsThere, OneClaim, ClaimIsOnes, NoForcedClaim, Claimed, Recipe
  <2>4. NoForcedClaim'
    BY <1>0, <1>11, FetchKeysDoes, WriteAssumption DEF WriteTyped, ClaimInv, NoForcedClaim
  <2>5. TemporaryIsOnes'
    BY <1>0, <1>11, FetchKeysDoes, WriteAssumption DEF WriteTyped, ClaimInv, TemporaryIsOnes
  <2> QED
    BY <2>1, <2>2, <2>3, <2>4, <2>5 DEF ClaimInv
<1>12. CASE ReadNames(r)
  <2>1. ClaimIsThere'
    BY <1>0, <1>12, WriteAssumption DEF ReadNames, WriteTyped, RunType, ClaimInv, ClaimIsThere,
       OneClaim, ClaimIsOnes, NoForcedClaim, Claimed, Recipe
  <2>2. OneClaim'
    BY <1>0, <1>12, WriteAssumption DEF ReadNames, WriteTyped, RunType, ClaimInv, ClaimIsThere,
       OneClaim, ClaimIsOnes, NoForcedClaim, Claimed, Recipe
  <2>3. ClaimIsOnes'
    BY <1>0, <1>12, WriteAssumption DEF ReadNames, WriteTyped, RunType, ClaimInv, ClaimIsThere,
       OneClaim, ClaimIsOnes, NoForcedClaim, Claimed, Recipe
  <2>4. NoForcedClaim'
    BY <1>0, <1>12, WriteAssumption DEF ReadNames, WriteTyped, RunType, ClaimInv, NoForcedClaim
  <2>5. TemporaryIsOnes'
    BY <1>0, <1>12, WriteAssumption DEF ReadNames, WriteTyped, RunType, ClaimInv, TemporaryIsOnes
  <2> QED
    BY <2>1, <2>2, <2>3, <2>4, <2>5 DEF ClaimInv
<1>13. CASE RemoveUnnamed(r)
  <2>1. ClaimIsThere'
    BY <1>0, <1>13, WriteAssumption DEF RemoveUnnamed, Goes, WriteTyped, RunType, ClaimInv,
       ClaimIsThere, OneClaim, ClaimIsOnes, NoForcedClaim, Claimed, Recipe
  <2>2. OneClaim'
    BY <1>0, <1>13, WriteAssumption DEF RemoveUnnamed, Goes, WriteTyped, RunType, ClaimInv,
       ClaimIsThere, OneClaim, ClaimIsOnes, NoForcedClaim, Claimed, Recipe
  <2>3. ClaimIsOnes'
    BY <1>0, <1>13, WriteAssumption DEF RemoveUnnamed, Goes, WriteTyped, RunType, ClaimInv,
       ClaimIsThere, OneClaim, ClaimIsOnes, NoForcedClaim, Claimed, Recipe
  <2>4. NoForcedClaim'
    BY <1>0, <1>13, WriteAssumption DEF RemoveUnnamed, Goes, WriteTyped, RunType, ClaimInv, NoForcedClaim
  <2>5. TemporaryIsOnes'
    BY <1>0, <1>13, WriteAssumption
       DEF RemoveUnnamed, Goes, WriteTyped, RunType, ClaimInv, TemporaryIsOnes
  <2> QED
    BY <2>1, <2>2, <2>3, <2>4, <2>5 DEF ClaimInv
<1>14. CASE Kill(r)
  <2>1. ClaimIsThere'
    BY <1>0, <1>14, WriteAssumption DEF Kill, Goes, WriteTyped, RunType, ClaimInv, ClaimIsThere,
       OneClaim, ClaimIsOnes, NoForcedClaim, Claimed, Recipe
  <2>2. OneClaim'
    BY <1>0, <1>14, WriteAssumption DEF Kill, Goes, WriteTyped, RunType, ClaimInv, ClaimIsThere,
       OneClaim, ClaimIsOnes, NoForcedClaim, Claimed, Recipe
  <2>3. ClaimIsOnes'
    BY <1>0, <1>14, WriteAssumption DEF Kill, Goes, WriteTyped, RunType, ClaimInv, ClaimIsThere,
       OneClaim, ClaimIsOnes, NoForcedClaim, Claimed, Recipe
  <2>4. NoForcedClaim'
    BY <1>0, <1>14, WriteAssumption DEF Kill, Goes, WriteTyped, RunType, ClaimInv, NoForcedClaim
  <2>5. TemporaryIsOnes'
    BY <1>0, <1>14, WriteAssumption DEF Kill, Goes, WriteTyped, RunType, ClaimInv, TemporaryIsOnes
  <2> QED
    BY <2>1, <2>2, <2>3, <2>4, <2>5 DEF ClaimInv
<1>15. CASE WriteReport(r)
  <2>1. ClaimIsThere'
    BY <1>0, <1>15, WriteReportDoes, WriteAssumption
       DEF WriteTyped, ClaimInv, ClaimIsThere, OneClaim, ClaimIsOnes, NoForcedClaim, Claimed, Recipe
  <2>2. OneClaim'
    BY <1>0, <1>15, WriteReportDoes, WriteAssumption
       DEF WriteTyped, ClaimInv, ClaimIsThere, OneClaim, ClaimIsOnes, NoForcedClaim, Claimed, Recipe
  <2>3. ClaimIsOnes'
    BY <1>0, <1>15, WriteReportDoes, WriteAssumption
       DEF WriteTyped, ClaimInv, ClaimIsThere, OneClaim, ClaimIsOnes, NoForcedClaim, Claimed, Recipe
  <2>4. NoForcedClaim'
    BY <1>0, <1>15, WriteReportDoes, WriteAssumption DEF WriteTyped, ClaimInv, NoForcedClaim
  <2>5. TemporaryIsOnes'
    BY <1>0, <1>15, WriteReportDoes, WriteAssumption DEF WriteTyped, ClaimInv, TemporaryIsOnes
  <2> QED
    BY <2>1, <2>2, <2>3, <2>4, <2>5 DEF ClaimInv
<1> QED
  BY <1>1, <1>2, <1>3, <1>4, <1>5, <1>6, <1>7, <1>8, <1>9, <1>10, <1>11, <1>12, <1>13, <1>14,
     <1>15 DEF Step

(* What a run leaves, a recipe has named.                                  *)
LEMMA CertStep ==
  ASSUME WriteTyped, CertInv, WroteIsKnown, NEW r \in Runs, Step(r)
  PROVE  CertInv'
<1>0. /\ \A s \in Runs : run'[s].force = run[s].force /\ (s # r => run'[s] = run[s])
      /\ run[r] \in RunType
  BY OthersStay, ForceStays DEF WriteTyped
<1>1. CASE LookForRecipe(r)
  <2>1. NamedAreNamed'
    BY <1>0, <1>1, WriteAssumption DEF LookForRecipe, Goes, WriteTyped, RunType, CertInv, NamedAreNamed
  <2>2. MadeAreKnown'
    BY <1>0, <1>1, WriteAssumption DEF LookForRecipe, Goes, WriteTyped, RunType, CertInv, MadeAreKnown
  <2>3. NoneAtStart'
    BY <1>0, <1>1, WriteAssumption DEF LookForRecipe, Goes, WriteTyped, RunType, CertInv, NoneAtStart
  <2>4. UnnamedAreKnown'
    BY <1>0, <1>1, WriteAssumption DEF LookForRecipe, Goes, WriteTyped, RunType, CertInv,
       NamedAreNamed, MadeAreKnown, UnnamedAreKnown
  <2>5. LeftAreNamed'
    BY <1>0, <1>1, WriteAssumption DEF LookForRecipe, Goes, WriteTyped, RunType, CertInv,
       MadeAreKnown, NoneAtStart, UnnamedAreKnown, LeftAreNamed
  <2> QED
    BY <2>1, <2>2, <2>3, <2>4, <2>5 DEF CertInv
<1>2. CASE WriteCertificate(r)
  <2>1. NamedAreNamed'
    BY <1>0, <1>2, WriteAssumption DEF WriteCertificate, WriteTyped, RunType, CertInv, NamedAreNamed
  <2>2. MadeAreKnown'
    BY <1>0, <1>2, WriteAssumption DEF WriteCertificate, WriteTyped, RunType, CertInv, MadeAreKnown
  <2>3. NoneAtStart'
    BY <1>0, <1>2, WriteAssumption DEF WriteCertificate, WriteTyped, RunType, CertInv, NoneAtStart
  <2>4. UnnamedAreKnown'
    BY <1>0, <1>2, WriteAssumption
       DEF WriteCertificate, WriteTyped, RunType, CertInv, NamedAreNamed, MadeAreKnown, UnnamedAreKnown
  <2>5. LeftAreNamed'
    BY <1>0, <1>2, WriteAssumption DEF WriteCertificate, WriteTyped, RunType, CertInv, MadeAreKnown,
       NoneAtStart, UnnamedAreKnown, LeftAreNamed
  <2> QED
    BY <2>1, <2>2, <2>3, <2>4, <2>5 DEF CertInv
<1>3. CASE CertificateFails(r)
  <2>1. NamedAreNamed'
    BY <1>0, <1>3, WriteAssumption DEF CertificateFails, WriteTyped, RunType, CertInv, NamedAreNamed
  <2>2. MadeAreKnown'
    BY <1>0, <1>3, WriteAssumption DEF CertificateFails, WriteTyped, RunType, CertInv, MadeAreKnown
  <2>3. NoneAtStart'
    BY <1>0, <1>3, WriteAssumption DEF CertificateFails, WriteTyped, RunType, CertInv, NoneAtStart
  <2>4. UnnamedAreKnown'
    BY <1>0, <1>3, WriteAssumption
       DEF CertificateFails, WriteTyped, RunType, CertInv, NamedAreNamed, MadeAreKnown, UnnamedAreKnown
  <2>5. LeftAreNamed'
    BY <1>0, <1>3, WriteAssumption DEF CertificateFails, WriteTyped, RunType, CertInv, MadeAreKnown,
       NoneAtStart, UnnamedAreKnown, LeftAreNamed
  <2> QED
    BY <2>1, <2>2, <2>3, <2>4, <2>5 DEF CertInv
<1>4. CASE FormConfirmed(r)
  <2>1. NamedAreNamed'
    BY <1>0, <1>4, WriteAssumption DEF FormConfirmed, WriteTyped, RunType, CertInv, NamedAreNamed
  <2>2. MadeAreKnown'
    BY <1>0, <1>4, WriteAssumption DEF FormConfirmed, WriteTyped, RunType, CertInv, MadeAreKnown
  <2>3. NoneAtStart'
    BY <1>0, <1>4, WriteAssumption DEF FormConfirmed, WriteTyped, RunType, CertInv, NoneAtStart
  <2>4. UnnamedAreKnown'
    BY <1>0, <1>4, WriteAssumption
       DEF FormConfirmed, WriteTyped, RunType, CertInv, NamedAreNamed, MadeAreKnown, UnnamedAreKnown
  <2>5. LeftAreNamed'
    BY <1>0, <1>4, WriteAssumption DEF FormConfirmed, WriteTyped, RunType, CertInv, MadeAreKnown,
       NoneAtStart, UnnamedAreKnown, LeftAreNamed
  <2> QED
    BY <2>1, <2>2, <2>3, <2>4, <2>5 DEF CertInv
<1>5. CASE FormAbandoned(r)
  <2>1. NamedAreNamed'
    BY <1>0, <1>5, WriteAssumption DEF FormAbandoned, Fails, WriteTyped, RunType, CertInv, NamedAreNamed
  <2>2. MadeAreKnown'
    BY <1>0, <1>5, WriteAssumption DEF FormAbandoned, Fails, WriteTyped, RunType, CertInv, MadeAreKnown
  <2>3. NoneAtStart'
    BY <1>0, <1>5, WriteAssumption DEF FormAbandoned, Fails, WriteTyped, RunType, CertInv, NoneAtStart
  <2>4. UnnamedAreKnown'
    BY <1>0, <1>5, WriteAssumption DEF FormAbandoned, Fails, WriteTyped, RunType, CertInv,
       NamedAreNamed, MadeAreKnown, UnnamedAreKnown
  <2>5. LeftAreNamed'
    BY <1>0, <1>5, WriteAssumption DEF FormAbandoned, Fails, WriteTyped, RunType, CertInv,
       MadeAreKnown, NoneAtStart, UnnamedAreKnown, LeftAreNamed
  <2> QED
    BY <2>1, <2>2, <2>3, <2>4, <2>5 DEF CertInv
<1>6. CASE WriteTemporary(r)
  <2>1. NamedAreNamed'
    BY <1>0, <1>6, WriteTemporaryDoes, WriteAssumption DEF WriteTyped, CertInv, NamedAreNamed
  <2>2. MadeAreKnown'
    BY <1>0, <1>6, WriteTemporaryDoes, WriteAssumption DEF WriteTyped, CertInv, MadeAreKnown
  <2>3. NoneAtStart'
    BY <1>0, <1>6, WriteTemporaryDoes, WriteAssumption DEF WriteTyped, CertInv, NoneAtStart
  <2>4. UnnamedAreKnown'
    BY <1>0, <1>6, WriteTemporaryDoes, WriteAssumption
       DEF WriteTyped, CertInv, NamedAreNamed, MadeAreKnown, UnnamedAreKnown
  <2>5. LeftAreNamed'
    BY <1>0, <1>6, WriteTemporaryDoes, WriteAssumption
       DEF WriteTyped, CertInv, MadeAreKnown, NoneAtStart, UnnamedAreKnown, LeftAreNamed
  <2> QED
    BY <2>1, <2>2, <2>3, <2>4, <2>5 DEF CertInv
<1>7. CASE Claim(r)
  <2>1. NamedAreNamed'
    BY <1>0, <1>7, WriteAssumption DEF Claim, Goes, Empty, WriteTyped, RunType, CertInv, NamedAreNamed
  <2>2. MadeAreKnown'
    BY <1>0, <1>7, WriteAssumption DEF Claim, Goes, Empty, WriteTyped, RunType, CertInv, MadeAreKnown
  <2>3. NoneAtStart'
    BY <1>0, <1>7, WriteAssumption DEF Claim, Goes, Empty, WriteTyped, RunType, CertInv, NoneAtStart
  <2>4. UnnamedAreKnown'
    BY <1>0, <1>7, WriteAssumption
       DEF Claim, Goes, Empty, WriteTyped, RunType, CertInv, NamedAreNamed, MadeAreKnown, UnnamedAreKnown
  <2>5. LeftAreNamed'
    BY <1>0, <1>7, WriteAssumption DEF Claim, Goes, Empty, WriteTyped, RunType, CertInv, MadeAreKnown,
       NoneAtStart, UnnamedAreKnown, LeftAreNamed
  <2> QED
    BY <2>1, <2>2, <2>3, <2>4, <2>5 DEF CertInv
<1>8. CASE ClaimFails(r)
  <2>1. NamedAreNamed'
    BY <1>0, <1>8, WriteAssumption DEF ClaimFails, Fails, WriteTyped, RunType, CertInv, NamedAreNamed
  <2>2. MadeAreKnown'
    BY <1>0, <1>8, WriteAssumption DEF ClaimFails, Fails, WriteTyped, RunType, CertInv, MadeAreKnown
  <2>3. NoneAtStart'
    BY <1>0, <1>8, WriteAssumption DEF ClaimFails, Fails, WriteTyped, RunType, CertInv, NoneAtStart
  <2>4. UnnamedAreKnown'
    BY <1>0, <1>8, WriteAssumption
       DEF ClaimFails, Fails, WriteTyped, RunType, CertInv, NamedAreNamed, MadeAreKnown, UnnamedAreKnown
  <2>5. LeftAreNamed'
    BY <1>0, <1>8, WriteAssumption DEF ClaimFails, Fails, WriteTyped, RunType, CertInv, MadeAreKnown,
       NoneAtStart, UnnamedAreKnown, LeftAreNamed
  <2> QED
    BY <2>1, <2>2, <2>3, <2>4, <2>5 DEF CertInv
<1>9. CASE RenameIntoPlace(r)
  <2>1. NamedAreNamed'
    BY <1>0, <1>9, WriteAssumption
       DEF RenameIntoPlace, WholeRecipe, WriteTyped, RunType, CertInv, NamedAreNamed
  <2>2. MadeAreKnown'
    BY <1>0, <1>9, WriteAssumption
       DEF RenameIntoPlace, WholeRecipe, WriteTyped, RunType, CertInv, MadeAreKnown
  <2>3. NoneAtStart'
    BY <1>0, <1>9, WriteAssumption
       DEF RenameIntoPlace, WholeRecipe, WriteTyped, RunType, CertInv, NoneAtStart
  <2>4. UnnamedAreKnown'
    BY <1>0, <1>9, WriteAssumption DEF RenameIntoPlace, WholeRecipe, WriteTyped, RunType, CertInv,
       NamedAreNamed, MadeAreKnown, UnnamedAreKnown
  <2>5. LeftAreNamed'
    BY <1>0, <1>9, WriteAssumption DEF RenameIntoPlace, WholeRecipe, WriteTyped, RunType, CertInv,
       MadeAreKnown, NoneAtStart, UnnamedAreKnown, LeftAreNamed
  <2> QED
    BY <2>1, <2>2, <2>3, <2>4, <2>5 DEF CertInv
<1>10. CASE RenameFails(r)
  <2>1. NamedAreNamed'
    BY <1>0, <1>10, WriteAssumption DEF RenameFails, Fails, WriteTyped, RunType, CertInv, NamedAreNamed
  <2>2. MadeAreKnown'
    BY <1>0, <1>10, WriteAssumption DEF RenameFails, Fails, WriteTyped, RunType, CertInv, MadeAreKnown
  <2>3. NoneAtStart'
    BY <1>0, <1>10, WriteAssumption DEF RenameFails, Fails, WriteTyped, RunType, CertInv, NoneAtStart
  <2>4. UnnamedAreKnown'
    BY <1>0, <1>10, WriteAssumption
       DEF RenameFails, Fails, WriteTyped, RunType, CertInv, NamedAreNamed, MadeAreKnown, UnnamedAreKnown
  <2>5. LeftAreNamed'
    BY <1>0, <1>10, WriteAssumption DEF RenameFails, Fails, WriteTyped, RunType, CertInv,
       MadeAreKnown, NoneAtStart, UnnamedAreKnown, LeftAreNamed
  <2> QED
    BY <2>1, <2>2, <2>3, <2>4, <2>5 DEF CertInv
<1>11. CASE FetchKeys(r)
  <2>1. NamedAreNamed'
    BY <1>0, <1>11, FetchKeysDoes, WriteAssumption DEF WriteTyped, CertInv, NamedAreNamed
  <2>2. MadeAreKnown'
    BY <1>0, <1>11, FetchKeysDoes, WriteAssumption DEF WriteTyped, CertInv, MadeAreKnown
  <2>3. NoneAtStart'
    BY <1>0, <1>11, FetchKeysDoes, WriteAssumption DEF WriteTyped, CertInv, NoneAtStart
  <2>4. UnnamedAreKnown'
    BY <1>0, <1>11, FetchKeysDoes, WriteAssumption
       DEF WriteTyped, CertInv, NamedAreNamed, MadeAreKnown, UnnamedAreKnown
  <2>5. LeftAreNamed'
    BY <1>0, <1>11, FetchKeysDoes, WriteAssumption
       DEF WriteTyped, CertInv, MadeAreKnown, NoneAtStart, UnnamedAreKnown, LeftAreNamed
  <2> QED
    BY <2>1, <2>2, <2>3, <2>4, <2>5 DEF CertInv
<1>12. CASE ReadNames(r)
  <2>1. NamedAreNamed'
    BY <1>0, <1>12, WriteAssumption DEF ReadNames, WriteTyped, RunType, CertInv, NamedAreNamed
  <2>2. MadeAreKnown'
    BY <1>0, <1>12, WriteAssumption DEF ReadNames, WriteTyped, RunType, CertInv, MadeAreKnown
  <2>3. NoneAtStart'
    BY <1>0, <1>12, WriteAssumption DEF ReadNames, WriteTyped, RunType, CertInv, NoneAtStart
  <2>4. UnnamedAreKnown'
    BY <1>0, <1>12, WriteAssumption
       DEF ReadNames, WriteTyped, RunType, CertInv, NamedAreNamed, MadeAreKnown, UnnamedAreKnown
  <2>5. LeftAreNamed'
    BY <1>0, <1>12, WriteAssumption DEF ReadNames, WriteTyped, RunType, CertInv, MadeAreKnown,
       NoneAtStart, UnnamedAreKnown, LeftAreNamed
  <2> QED
    BY <2>1, <2>2, <2>3, <2>4, <2>5 DEF CertInv
<1>13. CASE RemoveUnnamed(r)
  <2>1. NamedAreNamed'
    BY <1>0, <1>13, WriteAssumption DEF RemoveUnnamed, Goes, WriteTyped, RunType, CertInv, NamedAreNamed
  <2>2. MadeAreKnown'
    BY <1>0, <1>13, WriteAssumption DEF RemoveUnnamed, Goes, WriteTyped, RunType, CertInv, MadeAreKnown
  <2>3. NoneAtStart'
    BY <1>0, <1>13, WriteAssumption DEF RemoveUnnamed, Goes, WriteTyped, RunType, CertInv, NoneAtStart
  <2>4. UnnamedAreKnown'
    BY <1>0, <1>13, WriteAssumption DEF RemoveUnnamed, Goes, WriteTyped, RunType, CertInv,
       NamedAreNamed, MadeAreKnown, UnnamedAreKnown
  <2>5. LeftAreNamed'
    BY <1>0, <1>13, WriteAssumption DEF RemoveUnnamed, Goes, WriteTyped, RunType, CertInv,
       MadeAreKnown, NoneAtStart, UnnamedAreKnown, LeftAreNamed
  <2> QED
    BY <2>1, <2>2, <2>3, <2>4, <2>5 DEF CertInv
<1>14. CASE Kill(r)
  <2>1. NamedAreNamed'
    BY <1>0, <1>14, WriteAssumption DEF Kill, Goes, WriteTyped, RunType, CertInv, NamedAreNamed
  <2>2. MadeAreKnown'
    BY <1>0, <1>14, WriteAssumption DEF Kill, Goes, WriteTyped, RunType, CertInv, MadeAreKnown
  <2>3. NoneAtStart'
    BY <1>0, <1>14, WriteAssumption DEF Kill, Goes, WriteTyped, RunType, CertInv, NoneAtStart
  <2>4. UnnamedAreKnown'
    BY <1>0, <1>14, WriteAssumption
       DEF Kill, Goes, WriteTyped, RunType, CertInv, NamedAreNamed, MadeAreKnown, UnnamedAreKnown
  <2>5. LeftAreNamed'
    BY <1>0, <1>14, WriteAssumption DEF Kill, Goes, WriteTyped, RunType, CertInv, MadeAreKnown,
       NoneAtStart, UnnamedAreKnown, LeftAreNamed
  <2> QED
    BY <2>1, <2>2, <2>3, <2>4, <2>5 DEF CertInv
<1>15. CASE WriteReport(r)
  <2>1. NamedAreNamed'
    BY <1>0, <1>15, WriteReportDoes, WriteAssumption DEF WriteTyped, CertInv, NamedAreNamed
  <2>2. MadeAreKnown'
    BY <1>0, <1>15, WriteReportDoes, WriteAssumption DEF WriteTyped, CertInv, MadeAreKnown
  <2>3. NoneAtStart'
    BY <1>0, <1>15, WriteReportDoes, WriteAssumption DEF WriteTyped, CertInv, NoneAtStart
  <2>4. UnnamedAreKnown'
    BY <1>0, <1>15, WriteReportDoes, WriteAssumption
       DEF WriteTyped, CertInv, NamedAreNamed, MadeAreKnown, UnnamedAreKnown
  <2>5. LeftAreNamed'
    BY <1>0, <1>15, WriteReportDoes, WriteAssumption
       DEF WriteTyped, CertInv, MadeAreKnown, LeftAreNamed, WroteIsKnown
  <2> QED
    BY <2>1, <2>2, <2>3, <2>4, <2>5 DEF CertInv
<1> QED
  BY <1>1, <1>2, <1>3, <1>4, <1>5, <1>6, <1>7, <1>8, <1>9, <1>10, <1>11, <1>12, <1>13, <1>14,
     <1>15 DEF Step

(* Until its keys a run has written nothing, and then what it names.       *)
LEMMA MarksStay ==
  ASSUME WriteTyped, NEW r \in Runs, Step(r), run[r].at \notin {"keys", "report"}
  PROVE  /\ run'[r].wrote = run[r].wrote
         /\ run'[r].at # "report"
         /\ run'[r].at = "keys" => run'[r].names \subseteq named'
<1> DEFINE Kept == run'[r].wrote = run[r].wrote /\ run'[r].names = run[r].names
<1>1. run \in [Runs -> RunType] /\ run[r] \in RunType
  BY DEF WriteTyped
<1>2. ASSUME Fails(r, run[r]) PROVE Kept /\ run'[r].at = "cleanup"
  <2>1. run'[r] = [run[r] EXCEPT !.at = "cleanup", !.exit = 1]
    BY <1>1, <1>2 DEF Fails
  <2> QED BY <1>1, <2>1 DEF RunType
<1>3. CASE LookForRecipe(r)
  <2>1. Kept /\ run'[r].at \in {"ended", "certificates"}
    BY <1>1, <1>3 DEF LookForRecipe, Goes, RunType
  <2> QED BY <1>3, <2>1 DEF LookForRecipe
<1>4. CASE WriteCertificate(r)
  <2>1. Kept /\ run'[r].at = "certificates"
    BY <1>1, <1>4 DEF WriteCertificate, RunType
  <2> QED BY <1>4, <2>1 DEF WriteCertificate
<1>5. CASE CertificateFails(r)
  <2>1. Kept /\ run'[r].at = "ended"
    BY <1>1, <1>5 DEF CertificateFails, RunType
  <2> QED BY <1>5, <2>1 DEF CertificateFails
<1>6. CASE FormConfirmed(r)
  <2>1. PICK names : run' = [run EXCEPT ![r] = [run[r] EXCEPT !.at = "write", !.names = names]]
    BY <1>1, <1>6 DEF FormConfirmed
  <2>2. run'[r] = [run[r] EXCEPT !.at = "write", !.names = names]
    BY <1>1, <2>1
  <2>3. run'[r].wrote = run[r].wrote /\ run'[r].at = "write"
    BY <1>1, <2>2 DEF RunType
  <2> QED BY <1>6, <2>3 DEF FormConfirmed
<1>7. CASE FormAbandoned(r)
  BY <1>2, <1>7 DEF FormAbandoned
<1>8. CASE WriteTemporary(r)
  <2>1. CASE Fails(r, run[r])
    BY <1>2, <1>8, <2>1 DEF WriteTemporary
  <2>2. CASE ~Fails(r, run[r])
    <3> DEFINE p == IF run[r].force THEN "replace" ELSE "claim"
    <3>1. run' = [run EXCEPT ![r] = [run[r] EXCEPT !.at = p, !.temporary = TRUE]]
      BY <1>1, <1>8, <2>2 DEF WriteTemporary
    <3>2. p \in {"replace", "claim"}
      OBVIOUS
    <3> HIDE DEF p
    <3>3. run'[r] = [run[r] EXCEPT !.at = p, !.temporary = TRUE]
      BY <1>1, <3>1
    <3>4. Kept /\ run'[r].at = p
      BY <1>1, <3>3 DEF RunType
    <3> QED BY <1>8, <3>2, <3>4 DEF WriteTemporary
  <2> QED BY <2>1, <2>2
<1>9. CASE Claim(r)
  <2>1. Kept /\ run'[r].at = "replace"
    BY <1>1, <1>9 DEF Claim, Goes, RunType
  <2> QED BY <1>9, <2>1 DEF Claim
<1>10. CASE ClaimFails(r) \/ RenameFails(r)
  <2>1. run' = [run EXCEPT ![r] =
                  [[run[r] EXCEPT !.temporary = FALSE] EXCEPT !.at = "cleanup", !.exit = 1]]
    BY <1>1, <1>10 DEF ClaimFails, RenameFails, Fails
  <2>2. run'[r] = [[run[r] EXCEPT !.temporary = FALSE] EXCEPT !.at = "cleanup", !.exit = 1]
    BY <1>1, <2>1
  <2>3. Kept /\ run'[r].at = "cleanup"
    BY <1>1, <2>2 DEF RunType
  <2> QED BY <1>10, <2>3 DEF ClaimFails, RenameFails
<1>11. CASE RenameIntoPlace(r)
  <2>1. run' = [run EXCEPT ![r] = [run[r] EXCEPT !.at = "keys", !.temporary = FALSE]]
    BY <1>1, <1>11 DEF RenameIntoPlace
  <2>2. run'[r] = [run[r] EXCEPT !.at = "keys", !.temporary = FALSE]
    BY <1>1, <2>1
  <2>3. Kept /\ run'[r].at = "keys"
    BY <1>1, <2>2 DEF RunType
  <2> QED BY <1>11, <2>3 DEF RenameIntoPlace
<1>12. CASE ReadNames(r)
  <2>1. PICK unnamed : run' = [run EXCEPT ![r] = [run[r] EXCEPT !.at = "remove", !.unnamed = unnamed]]
    BY <1>1, <1>12 DEF ReadNames
  <2>2. run'[r] = [run[r] EXCEPT !.at = "remove", !.unnamed = unnamed]
    BY <1>1, <2>1
  <2>3. Kept /\ run'[r].at = "remove"
    BY <1>1, <2>2 DEF RunType
  <2> QED BY <1>12, <2>3 DEF ReadNames
<1>13. CASE RemoveUnnamed(r)
  <2>1. Kept /\ run'[r].at = "ended"
    BY <1>1, <1>13 DEF RemoveUnnamed, Goes, RunType
  <2> QED BY <1>13, <2>1 DEF RemoveUnnamed
<1>14. CASE Kill(r)
  <2>1. Kept /\ run'[r].at = "killed"
    BY <1>1, <1>14 DEF Kill, Goes, RunType
  <2> QED BY <1>14, <2>1 DEF Kill
<1>15. ~FetchKeys(r) /\ ~WriteReport(r)
  BY DEF FetchKeys, WriteReport
<1> QED
  BY <1>3, <1>4, <1>5, <1>6, <1>7, <1>8, <1>9, <1>10, <1>11, <1>12, <1>13, <1>14, <1>15 DEF Step

(* What a run has written stays named.                                     *)
LEMMA WroteStep ==
  ASSUME WriteTyped, WroteIsKnown, NEW r \in Runs, Step(r)
  PROVE  WroteIsKnown'
<1>1. \A s \in Runs \ {r} : run'[s] = run[s]
  BY OthersStay
<1>2. named \subseteq named'
  BY DEF Step, LookForRecipe, WriteCertificate, CertificateFails, FormConfirmed, FormAbandoned,
         WriteTemporary, Claim, ClaimFails, RenameIntoPlace, RenameFails, FetchKeys, WriteReport,
         ReadNames, RemoveUnnamed, Kill
<1> DEFINE Marked(state, captures, all) ==
             /\ state.at \in {"keys", "report"} => state.names \subseteq all
             /\ state.at = "report" => state.wrote
             /\ state.wrote =>
                  /\ state.at \in {"report", "ended", "killed"} /\ state.names \subseteq all
                  /\ state.at = "report" \/ state.exit = 1 => captures
<1>3. \A s \in Runs : Marked(run[s], s \in Captures, named)
  BY DEF WroteIsKnown
<1>4. \A s \in Runs \ {r} : Marked(run'[s], s \in Captures, named')
  BY <1>1, <1>2, <1>3
<1>5. Marked(run'[r], r \in Captures, named')
  <2>1. CASE run[r].at = "keys" /\ FetchKeys(r)
    BY <1>2, <1>3, <2>1, FetchKeysDoes
  <2>2. CASE run[r].at = "report" /\ WriteReport(r)
    BY <1>2, <1>3, <2>2, WriteReportDoes
  <2>3. CASE Kill(r)
    <3>1. run \in [Runs -> RunType] /\ run[r] \in RunType
      BY DEF WriteTyped
    <3>2. /\ run'[r].wrote = run[r].wrote /\ run'[r].names = run[r].names
          /\ run'[r].exit = run[r].exit /\ run'[r].at = "killed"
      BY <2>3, <3>1 DEF Kill, Goes, RunType
    <3> QED BY <1>2, <1>3, <3>2
  <2>4. CASE run[r].at \notin {"keys", "report"} /\ ~Kill(r)
    <3>1. run[r].at \notin {"ended", "killed"}
      BY <2>4 DEF Step, LookForRecipe, WriteCertificate, CertificateFails, FormConfirmed,
                  FormAbandoned, WriteTemporary, Claim, ClaimFails, RenameIntoPlace, RenameFails,
                  FetchKeys, WriteReport, ReadNames, RemoveUnnamed
    <3>2. ~run[r].wrote
      BY <1>3, <2>4, <3>1
    <3>3. ~run'[r].wrote
      BY <2>4, <3>2, MarksStay
    <3> QED BY <2>4, <3>3, MarksStay
  <2>5. run[r].at \in {"keys", "report"} =>
          Kill(r) \/ (run[r].at = "keys" /\ FetchKeys(r)) \/ (run[r].at = "report" /\ WriteReport(r))
    BY DEF Step, LookForRecipe, WriteCertificate, CertificateFails, FormConfirmed, FormAbandoned,
           WriteTemporary, Claim, ClaimFails, RenameIntoPlace, RenameFails, FetchKeys, WriteReport,
           ReadNames, RemoveUnnamed
  <2> QED BY <2>1, <2>2, <2>3, <2>4, <2>5
<1> QED
  BY <1>4, <1>5 DEF WroteIsKnown

-----------------------------------------------------------------------------
(* The inductive invariant of any runs in one directory.                   *)
LEMMA StepInv == WriteInv /\ [WriteNext]_writeVars => WriteInv'
<1> SUFFICES ASSUME WriteInv, [WriteNext]_writeVars PROVE WriteInv'
  OBVIOUS
<1>1. CASE WriteNext
  <2>1. PICK r \in Runs : Step(r)
    BY <1>1 DEF WriteNext, Step
  <2>2. WriteTyped'
    BY <2>1, RunTyped, RestTyped DEF WriteInv, WriteTyped
  <2>3. ClaimInv'
    BY <2>1, ClaimStep DEF WriteInv
  <2>4. CertInv'
    BY <2>1, CertStep DEF WriteInv
  <2>5. WroteIsKnown'
    BY <2>1, WroteStep DEF WriteInv
  <2> QED
    BY <2>2, <2>3, <2>4, <2>5 DEF WriteInv
<1>2. CASE UNCHANGED writeVars
  BY <1>2
     DEF writeVars, WriteInv, WriteTyped, ClaimInv, ClaimIsThere, OneClaim, ClaimIsOnes, NoForcedClaim,
       TemporaryIsOnes, Claimed, CertInv, NamedAreNamed, MadeAreKnown, NoneAtStart,
       UnnamedAreKnown, LeftAreNamed, WroteIsKnown
<1> QED
  BY <1>1, <1>2

(* Who has claimed the recipe's name, and which certificates are whose, at *)
(* every step of any runs of init, edit and capture (writeRecipe,          *)
(* runCapture).                                                            *)
THEOREM WriteInvariant == WriteSpec => []WriteInv
BY InitInv, StepInv, PTL DEF WriteSpec

(* A run without --force never puts its recipe in the place of one that    *)
(* appeared while its form was open (writeRecipe).                         *)
THEOREM UnforcedReplacesNothingHolds == WriteSpec => UnforcedReplacesNothing
<1>1. WriteInv =>
        \A r \in Runs :
          /\ run[r].at = "replace" /\ recipeAt' # recipeAt /\ recipeAt' # Missing
          /\ recipeAt'.by = r /\ ~run[r].force
          => \/ recipeAt = Missing \/ recipeAt.by = r
             \/ recipeAt.by \in Runs /\ run[recipeAt.by].force
  BY DEF WriteInv, ClaimInv, ClaimIsThere, Claimed
<1> QED
  BY <1>1, WriteInvariant, PTL DEF UnforcedReplacesNothing

(* A run that failed leaves no temporary file, no claim and no certificate *)
(* but those a recipe has named; one whose report alone failed has written *)
(* its recipe (writeRecipe, certificatesNotNamedBy, runCapture).           *)
THEOREM FailedRunLeavesNothingHolds == WriteSpec => []FailedRunLeavesNothing
<1>1. WriteInv => FailedRunLeavesNothing
  <2> SUFFICES ASSUME WriteInv, NEW r \in Runs, run[r].at = "ended", run[r].exit = 1
               PROVE  /\ ~run[r].temporary
                      /\ recipeAt # Missing /\ recipeAt.by = r => recipeAt.whole
                      /\ IF run[r].wrote THEN r \in Captures /\ run[r].names \subseteq named
                         ELSE \A c \in Certs : certAt[c] = r => c \in named
    BY DEF FailedRunLeavesNothing
  <2>1. ~run[r].temporary
    BY DEF WriteInv, ClaimInv, TemporaryIsOnes
  <2>2. recipeAt # Missing /\ recipeAt.by = r => recipeAt.whole
    BY DEF WriteInv, ClaimInv, ClaimIsOnes
  <2>3. ~run[r].wrote => \A c \in Certs : certAt[c] = r => c \in named
    BY DEF WriteInv, CertInv, LeftAreNamed
  <2>4. run[r].wrote => r \in Captures /\ run[r].names \subseteq named
    BY DEF WriteInv, WroteIsKnown
  <2> QED
    BY <2>1, <2>2, <2>3, <2>4
<1> QED
  BY <1>1, WriteInvariant, PTL

(* What a run may have made and may take away: certificates it read off    *)
(* the machine.                                                            *)
OwnOnly(x, own) == x.todo \subseteq own /\ x.created \subseteq own /\ x.unnamed \subseteq x.created
OwnInv == \A r \in Runs : OwnOnly(run[r], CapturedBy[r])

(* Nothing else is taken in on the way.                                    *)
LEMMA OwnStays ==
  ASSUME WriteTyped, NEW r \in Runs, Step(r), OwnOnly(run[r], CapturedBy[r])
  PROVE  OwnOnly(run'[r], CapturedBy[r])
<1>1. run \in [Runs -> RunType] /\ run[r] \in RunType
  BY DEF WriteTyped
<1>2. CASE WriteCertificate(r)
  <2>1. PICK c \in run[r].todo :
          \/ run' = [run EXCEPT ![r] = [run[r] EXCEPT !.todo = run[r].todo \ {c}]]
          \/ run' = [run EXCEPT ![r] = [run[r] EXCEPT !.todo = run[r].todo \ {c},
                                                      !.created = run[r].created \cup {c}]]
    BY <1>1, <1>2 DEF WriteCertificate
  <2>2. /\ run'[r].todo = run[r].todo \ {c} /\ run'[r].unnamed = run[r].unnamed
        /\ run'[r].created \in {run[r].created, run[r].created \cup {c}}
    BY <1>1, <2>1 DEF RunType
  <2> QED BY <2>2 DEF OwnOnly
<1>3. CASE ReadNames(r)
  <2>1. PICK stay : run' = [run EXCEPT ![r] = [run[r] EXCEPT !.at = "remove", !.unnamed = run[r].created \ stay]]
    BY <1>1, <1>3 DEF ReadNames
  <2>2. /\ run'[r].todo = run[r].todo /\ run'[r].created = run[r].created
        /\ run'[r].unnamed = run[r].created \ stay
    BY <1>1, <2>1 DEF RunType
  <2> QED BY <2>2 DEF OwnOnly
<1>4. CASE ~WriteCertificate(r) /\ ~ReadNames(r)
  <2>1. /\ run'[r].todo = run[r].todo /\ run'[r].created = run[r].created
        /\ run'[r].unnamed = run[r].unnamed
    <3>2. CASE LookForRecipe(r) \/ CertificateFails(r)
      BY <1>1, <3>2 DEF LookForRecipe, CertificateFails, Goes, RunType
    <3>1. ASSUME Fails(r, run[r])
          PROVE  /\ run'[r].todo = run[r].todo /\ run'[r].created = run[r].created
                 /\ run'[r].unnamed = run[r].unnamed
      <4>1. run'[r] = [run[r] EXCEPT !.at = "cleanup", !.exit = 1]
        BY <1>1, <3>1 DEF Fails
      <4> QED BY <1>1, <4>1 DEF RunType
    <3>3. CASE FormConfirmed(r)
      <4>1. PICK names : run' = [run EXCEPT ![r] = [run[r] EXCEPT !.at = "write", !.names = names]]
        BY <1>1, <3>3 DEF FormConfirmed
      <4>2. run'[r] = [run[r] EXCEPT !.at = "write", !.names = names]
        BY <1>1, <4>1
      <4> QED BY <1>1, <4>2 DEF RunType
    <3>4. CASE FormAbandoned(r)
      BY <3>1, <3>4 DEF FormAbandoned
    <3>5. CASE WriteTemporary(r) /\ ~Fails(r, run[r])
      <4> DEFINE p == IF run[r].force THEN "replace" ELSE "claim"
      <4>1. run' = [run EXCEPT ![r] = [run[r] EXCEPT !.at = p, !.temporary = TRUE]]
        BY <1>1, <3>5 DEF WriteTemporary
      <4> HIDE DEF p
      <4>2. run'[r] = [run[r] EXCEPT !.at = p, !.temporary = TRUE]
        BY <1>1, <4>1
      <4> QED BY <1>1, <4>2 DEF RunType
    <3>6. CASE Claim(r)
      BY <1>1, <3>6 DEF Claim, Goes, RunType
    <3>7. CASE ClaimFails(r) \/ RenameFails(r)
      <4>1. run' = [run EXCEPT ![r] =
                      [[run[r] EXCEPT !.temporary = FALSE] EXCEPT !.at = "cleanup", !.exit = 1]]
        BY <1>1, <3>7 DEF ClaimFails, RenameFails, Fails
      <4>2. run'[r] = [[run[r] EXCEPT !.temporary = FALSE] EXCEPT !.at = "cleanup", !.exit = 1]
        BY <1>1, <4>1
      <4> QED BY <1>1, <4>2 DEF RunType
    <3>8. CASE RenameIntoPlace(r)
      <4>1. run' = [run EXCEPT ![r] = [run[r] EXCEPT !.at = "keys", !.temporary = FALSE]]
        BY <1>1, <3>8 DEF RenameIntoPlace
      <4>2. run'[r] = [run[r] EXCEPT !.at = "keys", !.temporary = FALSE]
        BY <1>1, <4>1
      <4> QED BY <1>1, <4>2 DEF RunType
    <3>9. CASE FetchKeys(r) /\ ~Fails(r, run[r])
      <4>1. \/ run' = [run EXCEPT ![r] = [run[r] EXCEPT !.at = "report", !.wrote = TRUE]]
            \/ run' = [run EXCEPT ![r] = [run[r] EXCEPT !.at = "ended", !.wrote = TRUE, !.exit = 0]]
        BY <1>1, <3>9 DEF FetchKeys
      <4>2. \/ run'[r] = [run[r] EXCEPT !.at = "report", !.wrote = TRUE]
            \/ run'[r] = [run[r] EXCEPT !.at = "ended", !.wrote = TRUE, !.exit = 0]
        BY <1>1, <4>1
      <4> QED BY <1>1, <4>2 DEF RunType
    <3>11. CASE WriteReport(r)
      <4>1. PICK code : run' = [run EXCEPT ![r] = [run[r] EXCEPT !.at = "ended", !.exit = code]]
        BY <1>1, <3>11 DEF WriteReport
      <4>2. run'[r] = [run[r] EXCEPT !.at = "ended", !.exit = code]
        BY <1>1, <4>1
      <4> QED BY <1>1, <4>2 DEF RunType
    <3>10. CASE RemoveUnnamed(r) \/ Kill(r)
      BY <1>1, <3>10 DEF RemoveUnnamed, Kill, Goes, RunType
    <3> QED BY <1>4, <3>1, <3>2, <3>3, <3>4, <3>5, <3>6, <3>7, <3>8, <3>9, <3>10, <3>11
         DEF Step
  <2> QED BY <2>1 DEF OwnOnly
<1> QED BY <1>2, <1>3, <1>4

LEMMA OwnInit == WriteInit => OwnInv
<1> SUFFICES ASSUME WriteInit, NEW r \in Runs PROVE OwnOnly(run[r], CapturedBy[r])
  BY DEF OwnInv
<1>1. PICK force \in [Runs -> BOOLEAN] :
        run = [s \in Runs |-> [NotStarted EXCEPT !.force = force[s], !.todo = CapturedBy[s]]]
  BY DEF WriteInit
<1>2. run[r].todo = CapturedBy[r] /\ run[r].created = {} /\ run[r].unnamed = {}
  BY <1>1 DEF NotStarted
<1> QED BY <1>2 DEF OwnOnly

LEMMA OwnStep ==
  ASSUME WriteTyped, OwnInv, [WriteNext]_writeVars
  PROVE  OwnInv'
<1>1. CASE UNCHANGED writeVars
  BY <1>1 DEF writeVars, OwnInv
<1>2. CASE WriteNext
  <2>1. PICK r \in Runs : Step(r)
    BY <1>2 DEF WriteNext, Step
  <2> SUFFICES ASSUME NEW s \in Runs PROVE OwnOnly(run'[s], CapturedBy[s])
    BY DEF OwnInv
  <2>2. CASE s = r
    BY <2>1, <2>2, OwnStays DEF OwnInv
  <2>3. CASE s # r
    BY <2>1, <2>3, OthersStay DEF OwnInv
  <2> QED BY <2>2, <2>3
<1> QED BY <1>1, <1>2

(* A run makes, and at its end takes away, only certificates it read off   *)
(* the machine (runCapture): none another run or a person put there.       *)
THEOREM WriteTypeOKHolds == WriteSpec => []WriteTypeOK
<1>1. WriteInv /\ OwnInv => WriteTypeOK
  <2> SUFFICES ASSUME WriteTyped, OwnInv PROVE WriteTypeOK
    BY DEF WriteInv
  <2>1. recipeAt # Missing => recipeAt.by \in Runs \cup {"person"}
    BY DEF WriteTyped, Recipe
  <2>2. \A r \in Runs : /\ run[r].at \in Places /\ run[r].exit \in {Missing, 0, 1}
                        /\ run[r].created \subseteq CapturedBy[r] /\ run[r].unnamed \subseteq run[r].created
    BY DEF WriteTyped, RunType, OwnInv, OwnOnly
  <2> QED BY <2>1, <2>2 DEF WriteTyped, WriteTypeOK
<1>2. WriteInit => OwnInv
  BY OwnInit
<1>3. WriteInv /\ OwnInv /\ [WriteNext]_writeVars => OwnInv'
  BY OwnStep DEF WriteInv
<1> QED BY <1>1, <1>2, <1>3, WriteInvariant, PTL DEF WriteSpec

-----------------------------------------------------------------------------
(* The place of each rank: the places in order, none left out.             *)
LEMMA RankedPlaces ==
  ASSUME NEW N \in Nat, NEW places \in SUBSET (1..N)
  PROVE  /\ Cardinality(places) \in 0..N
         /\ \A n \in 1..Cardinality(places) : Ranked(places, n) \in places
         /\ \A m, n \in 1..Cardinality(places) :
              m < n => Ranked(places, m) < Ranked(places, n)
         /\ \A p \in places : \E n \in 1..Cardinality(places) : Ranked(places, n) = p
<1> DEFINE upTo(p) == {q \in places : q <= p}
           rank == [p \in places |-> Cardinality(upTo(p))]
           count == Cardinality(places)
<1>1. IsFiniteSet(places) /\ count \in 0..N
  <2>1. IsFiniteSet(1..N) /\ Cardinality(1..N) = N
    BY FS_Interval
  <2>2. IsFiniteSet(places) /\ Cardinality(places) <= Cardinality(1..N)
    BY <2>1, FS_Subset
  <2>3. Cardinality(places) \in Nat
    BY <2>2, FS_CardinalityType
  <2> QED BY <2>1, <2>2, <2>3
<1>2. \A p \in places : /\ IsFiniteSet(upTo(p)) /\ p \in upTo(p)
                        /\ Cardinality(upTo(p)) \in 1..count
  <2> SUFFICES ASSUME NEW p \in places
               PROVE  /\ IsFiniteSet(upTo(p)) /\ p \in upTo(p)
                      /\ Cardinality(upTo(p)) \in 1..count
    OBVIOUS
  <2>1. upTo(p) \subseteq places /\ p \in upTo(p)
    OBVIOUS
  <2>2. IsFiniteSet(upTo(p)) /\ Cardinality(upTo(p)) <= count
    BY <1>1, <2>1, FS_Subset
  <2>3. Cardinality(upTo(p)) \in Nat /\ Cardinality(upTo(p)) # 0
    BY <2>1, <2>2, FS_CardinalityType, FS_EmptySet
  <2> QED BY <1>1, <2>1, <2>2, <2>3
<1>3. \A p, q \in places : p < q => rank[p] < rank[q]
  <2> SUFFICES ASSUME NEW p \in places, NEW q \in places, p < q PROVE rank[p] < rank[q]
    OBVIOUS
  <2>1. upTo(p) \subseteq upTo(q) /\ upTo(p) # upTo(q)
    <3>1. p \in 1..N /\ q \in 1..N
      OBVIOUS
    <3>2. q \in upTo(q) /\ q \notin upTo(p)
      BY <3>1
    <3>3. \A x \in 1..N : x <= p => x <= q
      BY <3>1
    <3>4. upTo(p) \subseteq upTo(q)
      BY <3>3
    <3> QED BY <3>2, <3>4
  <2>2. IsFiniteSet(upTo(q)) /\ IsFiniteSet(upTo(p))
        /\ Cardinality(upTo(p)) \in Int /\ Cardinality(upTo(q)) \in Int
    BY <1>2
  <2>3. Cardinality(upTo(p)) <= Cardinality(upTo(q))
        /\ (Cardinality(upTo(p)) = Cardinality(upTo(q)) => upTo(p) = upTo(q))
    <3> HIDE DEF upTo
    <3> QED BY <2>1, <2>2, FS_Subset
  <2> QED BY <2>1, <2>2, <2>3
<1>4. rank \in Injection(places, 1..count)
  <2>1. rank \in [places -> 1..count]
    BY <1>2
  <2>2. \A p, q \in places : rank[p] = rank[q] => p = q
    <3>1. \A p \in places : p \in Int /\ rank[p] \in Int
      BY <1>1, <2>1
    <3> HIDE DEF rank
    <3> QED BY <1>3, <3>1
  <2> HIDE DEF rank
  <2> QED BY <2>1, <2>2 DEF Injection, IsInjective
<1>5. rank \in Surjection(places, 1..count)
  <2>1. IsFiniteSet(1..count) /\ Cardinality(1..count) = count
    BY <1>1, FS_Interval
  <2> HIDE DEF rank
  <2> QED BY <1>4, <2>1, FS_Injection
<1>6. \A n \in 1..count : \E p \in places : rank[p] = n
  <2> HIDE DEF rank
  <2> QED BY <1>5 DEF Surjection
<1>7. \A n \in 1..count : Ranked(places, n) \in places /\ rank[Ranked(places, n)] = n
  <2> SUFFICES ASSUME NEW n \in 1..count
               PROVE  Ranked(places, n) \in places /\ rank[Ranked(places, n)] = n
    OBVIOUS
  <2>1. PICK p \in places : Cardinality(upTo(p)) = n
    BY <1>6
  <2>2. Ranked(places, n) \in places /\ Cardinality(upTo(Ranked(places, n))) = n
    BY <2>1 DEF Ranked
  <2> QED BY <2>2
<1>8. \A p \in places : \E n \in 1..count : Ranked(places, n) = p
  <2> SUFFICES ASSUME NEW p \in places PROVE Ranked(places, rank[p]) = p /\ rank[p] \in 1..count
    OBVIOUS
  <2>1. rank[p] \in 1..count
    BY <1>2
  <2>2. Ranked(places, rank[p]) \in places /\ rank[Ranked(places, rank[p])] = rank[p]
    BY <1>7, <2>1
  <2> HIDE DEF rank
  <2> QED BY <1>4, <2>1, <2>2 DEF Injection, IsInjective
<1>9. \A m, n \in 1..count : m < n => Ranked(places, m) < Ranked(places, n)
  <2> SUFFICES ASSUME NEW m \in 1..count, NEW n \in 1..count, m < n
               PROVE  Ranked(places, m) < Ranked(places, n)
    OBVIOUS
  <2> DEFINE a == Ranked(places, m)
             b == Ranked(places, n)
  <2>1. a \in places /\ b \in places /\ rank[a] = m /\ rank[b] = n
    BY <1>7
  <2>2. a \in Int /\ b \in Int /\ m \in Int /\ n \in Int
    <3>1. \A p \in places : p \in Int
      OBVIOUS
    <3>2. m \in Int /\ n \in Int
      BY <1>1
    <3> HIDE DEF a, b, rank
    <3> QED BY <2>1, <3>1, <3>2
  <2>3. b < a => rank[b] < rank[a]
    BY <1>3, <2>1
  <2> HIDE DEF rank, a, b
  <2>4. a < b
    BY <2>1, <2>2, <2>3
  <2> QED BY <2>4 DEF a, b
<1> HIDE DEF rank
<1> QED BY <1>1, <1>7, <1>8, <1>9

(* A list is the function of its places to its entries.                    *)
LEMMA ListLen == ASSUME NEW list, IsList(list)
                 PROVE  /\ Len(list) \in Nat /\ DOMAIN list = 1..Len(list)
                        /\ list = [n \in 1..Len(list) |-> list[n]]
                        /\ ToSet(list) = {list[n] : n \in 1..Len(list)}
BY DEF IsList, ToSet

(* A function on the places 1..k is a list of k entries.                   *)
LEMMA IsAList ==
  ASSUME NEW list, NEW k \in Nat, list = [n \in 1..k |-> list[n]]
  PROVE  IsList(list) /\ Len(list) = k
<1>1. list \in [1..k -> ToSet(list)]
  BY DEF ToSet
<1>2. list \in Seq(ToSet(list))
  BY <1>1
<1> QED BY <1>1, <1>2 DEF IsList

(* What is picked is a list, of the entries at the places picked.          *)
LEMMA PickedList ==
  ASSUME NEW list, IsList(list), NEW places, places \subseteq DOMAIN list
  PROVE  /\ IsList(Picked(list, places))
         /\ Len(Picked(list, places)) = Cardinality(places)
         /\ Cardinality(places) \in 0..Len(list)
         /\ \A n \in 1..Cardinality(places) :
              /\ Ranked(places, n) \in places
              /\ Picked(list, places)[n] = list[Ranked(places, n)]
         /\ ToSet(Picked(list, places)) = {list[p] : p \in places}
<1> DEFINE picked == Picked(list, places)
           count == Cardinality(places)
<1>1. Len(list) \in Nat /\ DOMAIN list = 1..Len(list)
  BY ListLen
<1>2. /\ count \in 0..Len(list)
      /\ \A n \in 1..count : Ranked(places, n) \in places
      /\ \A p \in places : \E n \in 1..count : Ranked(places, n) = p
  BY <1>1, RankedPlaces
<1>3. /\ picked = [n \in 1..count |-> picked[n]]
      /\ \A n \in 1..count : picked[n] = list[Ranked(places, n)]
      /\ DOMAIN picked = 1..count
  BY DEF Picked
<1>4. IsList(picked) /\ Len(picked) = count
  <2> HIDE DEF picked, count
  <2> QED BY <1>1, <1>2, <1>3, IsAList
<1>5. ToSet(picked) = {list[p] : p \in places}
  <2>1. ToSet(picked) = {picked[n] : n \in 1..count}
    BY <1>3 DEF ToSet
  <2> HIDE DEF picked, count
  <2> QED BY <1>2, <1>3, <2>1
<1> QED BY <1>2, <1>3, <1>4, <1>5

(* All of a list is the list.                                              *)
LEMMA PickedAll == ASSUME NEW list, IsList(list) PROVE Picked(list, DOMAIN list) = list
<1> DEFINE k == Len(list)
<1>1. k \in Nat /\ DOMAIN list = 1..k /\ list = [n \in 1..k |-> list[n]]
  BY ListLen
<1>2. Cardinality(1..k) = k
  BY <1>1, FS_Interval
<1>3. ASSUME NEW n \in 1..k PROVE Ranked(1..k, n) = n
  <2>1. \A p \in 1..k : {q \in 1..k : q <= p} = 1..p /\ Cardinality(1..p) = p
    <3> SUFFICES ASSUME NEW p \in 1..k
                 PROVE  {q \in 1..k : q <= p} = 1..p /\ Cardinality(1..p) = p
      OBVIOUS
    <3>1. Cardinality(1..p) = p
      <4>1. p \in Int /\ 1 \in Int /\ ~(1 > p) /\ p - 1 + 1 = p
        BY <1>1
      <4> QED BY <4>1, FS_Interval
    <3>2. {q \in 1..k : q <= p} = 1..p
      BY <1>1
    <3> QED BY <3>1, <3>2
  <2>2. \A p \in 1..k : Cardinality({q \in 1..k : q <= p}) = n <=> p = n
    BY <2>1
  <2> QED BY <2>2 DEF Ranked
<1>4. Picked(list, 1..k) = [n \in 1..k |-> list[n]]
  BY <1>2, <1>3 DEF Picked
<1> QED BY <1>1, <1>4

(* Two lists alike at the places picked give the same.                     *)
LEMMA PickedAlike ==
  ASSUME NEW N \in Nat, NEW places \in SUBSET (1..N), NEW one, NEW other,
         \A p \in places : one[p] = other[p]
  PROVE  Picked(one, places) = Picked(other, places)
BY RankedPlaces DEF Picked

(* Two lists one after the other: the places and the entries of each.      *)
LEMMA Joined ==
  ASSUME NEW one, IsList(one), NEW other, IsList(other)
  PROVE  /\ IsList(one \o other) /\ Len(one \o other) = Len(one) + Len(other)
         /\ \A n \in 1..Len(one) : (one \o other)[n] = one[n]
         /\ \A n \in 1..Len(other) : (one \o other)[Len(one) + n] = other[n]
         /\ ToSet(one \o other) = ToSet(one) \cup ToSet(other)
<1> DEFINE S == ToSet(one) \cup ToSet(other)
<1>1. one \in Seq(S) /\ other \in Seq(S)
  BY DEF IsList
<1>2. /\ one \o other \in Seq(S) /\ Len(one \o other) = Len(one) + Len(other)
      /\ \A n \in 1..Len(one) : (one \o other)[n] = one[n]
      /\ \A n \in 1..Len(other) : (one \o other)[Len(one) + n] = other[n]
  <2> HIDE DEF S
  <2> QED BY <1>1
<1>3. one \o other = [n \in 1..Len(one \o other) |-> (one \o other)[n]]
      /\ DOMAIN (one \o other) = 1..Len(one \o other) /\ Len(one \o other) \in Nat
  <2> DEFINE both == one \o other
  <2>1. both \in Seq(S)
    BY <1>2
  <2> HIDE DEF S, both
  <2>2. both = [n \in 1..Len(both) |-> both[n]] /\ DOMAIN both = 1..Len(both)
        /\ Len(both) \in Nat
    BY <2>1
  <2> QED BY <2>2 DEF both
<1>4. IsList(one \o other)
  BY <1>3, IsAList
<1>5. ToSet(one \o other) = S
  <2>1. Len(one) \in Nat /\ Len(other) \in Nat /\ DOMAIN one = 1..Len(one)
        /\ DOMAIN other = 1..Len(other)
    BY ListLen
  <2>2. \A n \in 1..Len(one \o other) : (one \o other)[n] \in S
    <3> SUFFICES ASSUME NEW n \in 1..Len(one \o other) PROVE (one \o other)[n] \in S
      OBVIOUS
    <3>1. CASE n \in 1..Len(one)
      BY <1>2, <2>1, <3>1 DEF ToSet
    <3>2. CASE n \notin 1..Len(one)
      <4>1. n - Len(one) \in 1..Len(other) /\ Len(one) + (n - Len(one)) = n
        BY <1>2, <2>1, <3>2
      <4>2. (one \o other)[Len(one) + (n - Len(one))] = other[n - Len(one)]
        BY <1>2, <4>1
      <4> QED BY <2>1, <4>1, <4>2 DEF ToSet
    <3> QED BY <3>1, <3>2
  <2>3. \A n \in 1..Len(one) : n \in 1..Len(one \o other)
    BY <1>2, <2>1
  <2>4. \A n \in 1..Len(other) : Len(one) + n \in 1..Len(one \o other)
    BY <1>2, <2>1
  <2>5. ToSet(one \o other) = {(one \o other)[n] : n \in 1..Len(one \o other)}
    BY <1>3 DEF ToSet
  <2>6. ToSet(one) = {one[n] : n \in 1..Len(one)}
    BY <2>1 DEF ToSet
  <2>7. ToSet(other) = {other[n] : n \in 1..Len(other)}
    BY <2>1 DEF ToSet
  <2>8. ToSet(one \o other) \subseteq S
    BY <2>2, <2>5
  <2>9. ToSet(one) \subseteq ToSet(one \o other)
    BY <1>2, <2>3, <2>5, <2>6
  <2>10. ToSet(other) \subseteq ToSet(one \o other)
    BY <1>2, <2>4, <2>5, <2>7
  <2> QED BY <2>8, <2>9, <2>10
<1> QED BY <1>2, <1>4, <1>5

(* Names of the entries of a list.                                         *)
LEMMA NamesList ==
  ASSUME NEW list, IsList(list), NEW nameOf
  PROVE  /\ IsList(SourceNames(list)) /\ DOMAIN SourceNames(list) = 1..Len(list)
         /\ IsList(NamedBy(nameOf, list)) /\ DOMAIN NamedBy(nameOf, list) = 1..Len(list)
         /\ Len(SourceNames(list)) = Len(list)
<1>1. Len(list) \in Nat /\ DOMAIN list = 1..Len(list)
  BY ListLen
<1>2. SourceNames(list) = [n \in 1..Len(list) |-> list[n].name]
      /\ NamedBy(nameOf, list) = [n \in 1..Len(list) |-> nameOf[list[n]]]
  BY <1>1 DEF SourceNames, NamedBy
<1>3. SourceNames(list) = [n \in 1..Len(list) |-> SourceNames(list)[n]]
      /\ NamedBy(nameOf, list) = [n \in 1..Len(list) |-> NamedBy(nameOf, list)[n]]
  BY <1>2
<1> QED BY <1>1, <1>2, <1>3, IsAList

(* Of the first of each name no name is there twice.                       *)
LEMMA FirstOfEachList ==
  ASSUME NEW list, IsList(list), NEW names, DOMAIN names = DOMAIN list
  PROVE  LET first  == FirstOfEach(list, names)
             places == DOMAIN list \ Repeats(names)
         IN  /\ IsList(first) /\ ToSet(first) \subseteq ToSet(list)
             /\ DOMAIN first = 1..Cardinality(places)
             /\ \A n \in DOMAIN first : /\ Ranked(places, n) \in DOMAIN list
                                        /\ first[n] = list[Ranked(places, n)]
             /\ \A m, n \in DOMAIN first :
                  m < n => names[Ranked(places, m)] # names[Ranked(places, n)]
<1> DEFINE places == DOMAIN list \ Repeats(names)
           first == Picked(list, places)
<1>1. Len(list) \in Nat /\ DOMAIN list = 1..Len(list) /\ places \subseteq 1..Len(list)
      /\ ToSet(list) = {list[n] : n \in 1..Len(list)}
  BY ListLen
<1>2. /\ IsList(first) /\ Len(first) = Cardinality(places)
      /\ \A n \in 1..Cardinality(places) :
           Ranked(places, n) \in places /\ first[n] = list[Ranked(places, n)]
      /\ ToSet(first) = {list[p] : p \in places}
  BY <1>1, PickedList
<1>3. DOMAIN first = 1..Cardinality(places)
  BY DEF Picked
<1>4. \A m, n \in 1..Cardinality(places) : m < n => Ranked(places, m) < Ranked(places, n)
  BY <1>1, RankedPlaces
<1>5. ASSUME NEW m \in DOMAIN first, NEW n \in DOMAIN first, m < n
      PROVE  names[Ranked(places, m)] # names[Ranked(places, n)]
  <2> DEFINE a == Ranked(places, m)
             b == Ranked(places, n)
  <2>1. a \in 1..Len(list) /\ b \in 1..Len(list) /\ a < b /\ b \notin Repeats(names)
    BY <1>1, <1>2, <1>3, <1>4, <1>5
  <2> HIDE DEF a, b, places, first
  <2>2. a \in 1..(b - 1) /\ b \in DOMAIN names
    BY <1>1, <2>1
  <2>3. names[a] # names[b]
    BY <2>1, <2>2 DEF Repeats
  <2> QED BY <2>3 DEF a, b
<1>6. ToSet(first) \subseteq ToSet(list)
  BY <1>1, <1>2
<1>7. FirstOfEach(list, names) = first
  BY DEF FirstOfEach
<1> HIDE DEF first
<1>8. \A n \in DOMAIN first : Ranked(places, n) \in DOMAIN list
  BY <1>2, <1>3
<1> QED BY <1>2, <1>3, <1>5, <1>6, <1>7, <1>8

(* Where no name is there twice, nor is it among the well-formed.          *)
LEMMA WellFormedList ==
  ASSUME NEW list, IsList(list), NEW kind, NEW nameOf
  PROVE  LET checked == WellFormed(kind, list)
             places  == {n \in DOMAIN list : list[n] \in Accepted[kind]}
         IN  /\ IsList(checked) /\ Len(checked) = Cardinality(places)
             /\ DOMAIN NamedBy(nameOf, checked) = 1..Cardinality(places)
             /\ \A n \in 1..Cardinality(places) :
                  /\ Ranked(places, n) \in places
                  /\ checked[n] = list[Ranked(places, n)]
                  /\ NamedBy(nameOf, checked)[n] = nameOf[list[Ranked(places, n)]]
             /\ \A n \in Repeats(NamedBy(nameOf, checked)) :
                  /\ n \in 1..Cardinality(places)
                  /\ Ranked(places, n) \in Repeats(NamedBy(nameOf, list))
<1> DEFINE places == {n \in DOMAIN list : list[n] \in Accepted[kind]}
           checked == WellFormed(kind, list)
           count == Cardinality(places)
           names == NamedBy(nameOf, checked)
           all == NamedBy(nameOf, list)
<1>1. Len(list) \in Nat /\ DOMAIN list = 1..Len(list) /\ places \subseteq 1..Len(list)
  BY ListLen
<1>2. /\ IsList(checked) /\ Len(checked) = count /\ count \in 0..Len(list)
      /\ \A n \in 1..count :
           Ranked(places, n) \in places /\ checked[n] = list[Ranked(places, n)]
  BY <1>1, PickedList DEF WellFormed
<1>3. \A m, n \in 1..count : m < n => Ranked(places, m) < Ranked(places, n)
  BY <1>1, RankedPlaces
<1>4. DOMAIN checked = 1..count
  BY DEF WellFormed, Picked
<1>5. DOMAIN names = 1..count
      /\ \A n \in 1..count : names[n] = nameOf[list[Ranked(places, n)]]
  BY <1>2, <1>4 DEF NamedBy
<1>6. DOMAIN all = DOMAIN list /\ \A p \in DOMAIN list : all[p] = nameOf[list[p]]
  BY DEF NamedBy
<1>7. ASSUME NEW n \in Repeats(names)
      PROVE  n \in 1..count /\ Ranked(places, n) \in Repeats(all)
  <2>1. n \in 1..count /\ \E m \in 1..(n - 1) : names[m] = names[n]
    BY <1>5 DEF Repeats
  <2>2. PICK m \in 1..(n - 1) : names[m] = names[n]
    BY <2>1
  <2> DEFINE a == Ranked(places, m)
             b == Ranked(places, n)
  <2>3. m \in 1..count /\ m < n
    BY <1>2, <2>1
  <2>4. a \in places /\ b \in places /\ a < b /\ names[m] = nameOf[list[a]]
        /\ names[n] = nameOf[list[b]]
    BY <1>2, <1>3, <1>5, <2>1, <2>3
  <2>5. a \in 1..Len(list) /\ b \in 1..Len(list)
    BY <1>1, <2>4
  <2> HIDE DEF a, b, places, checked, names, all, count
  <2>6. a \in 1..(b - 1)
    BY <1>1, <2>4, <2>5
  <2>8. all[a] = all[b] /\ b \in DOMAIN all
    BY <1>1, <1>6, <2>2, <2>4, <2>5
  <2>7. b \in Repeats(all)
    BY <2>6, <2>8 DEF Repeats
  <2> QED BY <2>1, <2>7 DEF b
<1>8. \A n \in 1..count :
        /\ Ranked(places, n) \in places
        /\ checked[n] = list[Ranked(places, n)]
        /\ names[n] = nameOf[list[Ranked(places, n)]]
  BY <1>2, <1>5
<1>9. \A n \in Repeats(names) : n \in 1..count /\ Ranked(places, n) \in Repeats(all)
  BY <1>7
<1>10. IsList(checked) /\ Len(checked) = count /\ DOMAIN names = 1..count
  BY <1>2, <1>5
<1> QED BY ONLY <1>8, <1>9, <1>10

(* A list whose entries a pattern accepts, each name once, has no problem. *)
LEMMA NoTwice ==
  ASSUME NEW list, IsList(list), NEW kind, NEW nameOf, NEW what,
         Repeats(NamedBy(nameOf, list)) = {}
  PROVE  Twice(what, NamedBy(nameOf, WellFormed(kind, list))) = {}
<1> DEFINE places == {n \in DOMAIN list : list[n] \in Accepted[kind]}
<1>1. \A n \in Repeats(NamedBy(nameOf, WellFormed(kind, list))) :
        Ranked(places, n) \in Repeats(NamedBy(nameOf, list))
  BY WellFormedList
<1>2. Repeats(NamedBy(nameOf, WellFormed(kind, list))) = {}
  BY <1>1
<1> QED BY <1>2 DEF Twice

(* A list of accepted values has no problem.                               *)
LEMMA AllAccepted ==
  ASSUME NEW list, NEW kind, ToSet(list) \subseteq Accepted[kind]
  PROVE  CheckAll(kind, list) = {}
BY DEF CheckAll, Check

(* And a list without a problem has only accepted values.                  *)
LEMMA WereAccepted ==
  ASSUME NEW list, NEW kind, CheckAll(kind, list) = {}
  PROVE  ToSet(list) \subseteq Accepted[kind]
<1> SUFFICES ASSUME NEW value \in ToSet(list), value \notin Accepted[kind]
             PROVE  <<kind, value>> \in CheckAll(kind, list)
  OBVIOUS
<1> QED BY DEF CheckAll, Check

(* What is merged of the packages was selected or typed.                   *)
LEMMA MergedPackages ==
  ASSUME NEW selected, IsList(selected), NEW others, IsList(others),
         NEW originals, IsList(originals)
  PROVE  ToSet(MergePackages(selected, others, originals))
           \subseteq ToSet(selected) \cup ToSet(others)
<1> DEFINE wanted == ToSet(selected \o others)
           places == {n \in DOMAIN originals : originals[n] \in wanted}
           stayed   == Picked(originals, places)
           merged == stayed \o selected \o others
<1>1. IsList(stayed) /\ ToSet(stayed) = {originals[p] : p \in places}
  BY PickedList
<1>2. IsList(stayed \o selected) /\ ToSet(stayed \o selected) = ToSet(stayed) \cup ToSet(selected)
  <2> HIDE DEF stayed
  <2> QED BY <1>1, Joined
<1>3. IsList(merged) /\ ToSet(merged) = ToSet(stayed \o selected) \cup ToSet(others)
  <2> HIDE DEF stayed
  <2> QED BY <1>2, Joined
<1>4. wanted = ToSet(selected) \cup ToSet(others)
  BY Joined
<1>5. ToSet(FirstOfEach(merged, merged)) \subseteq ToSet(merged)
  <2> HIDE DEF merged
  <2> QED BY <1>3, FirstOfEachList
<1>6. ToSet(stayed) \subseteq wanted
  BY <1>1
<1>7. MergePackages(selected, others, originals) = FirstOfEach(merged, merged)
  BY DEF MergePackages
<1> HIDE DEF merged, stayed, wanted
<1> QED BY <1>2, <1>3, <1>4, <1>5, <1>6, <1>7

(* Rows of the catalog, of PPAs and of the recipe opened are accepted, and *)
(* are merged a name once.                                                 *)
RowAccepted(s) == [name |-> s.name, own |-> s.own] \in Accepted["source"]

(* Rows a pattern accepts, each name once, have no problem.                *)
LEMMA NoSourceProblems ==
  ASSUME NEW recipe, IsList(recipe.sources),
         \A s \in ToSet(recipe.sources) : RowAccepted(s),
         Repeats(SourceNames(recipe.sources)) = {}
  PROVE  SourceProblems(recipe) = {}
<1>1. \A s \in ToSet(recipe.sources) :
        Check("source", [name |-> s.name, own |-> s.own]) = {}
  BY DEF RowAccepted, Check
<1>2. Twice("source", SourceNames(recipe.sources)) = {}
  BY DEF Twice
<1> QED BY <1>1, <1>2 DEF SourceProblems

LEMMA MergedSources ==
  ASSUME NEW selected, IsList(selected), NEW ppas, IsList(ppas), ToSet(ppas) \subseteq Ppas,
         NEW originals, IsList(originals), \A s \in ToSet(originals) : RowAccepted(s),
         NEW originalSuite, NEW suite
  PROVE  LET merged == MergeSources(selected, ppas, originals, originalSuite, suite)
         IN  /\ IsList(merged) /\ \A s \in ToSet(merged) : RowAccepted(s)
             /\ Repeats(SourceNames(merged)) = {}
<1> DEFINE entries == Picked(selected, {n \in DOMAIN selected : selected[n] \in SourceCatalog})
           fromEntries == [n \in DOMAIN entries |-> EntrySource(entries[n], suite)]
           fromPpas == [n \in DOMAIN ppas |-> PPA(ppas[n])]
           wanted  == fromEntries \o fromPpas
           isWanted(s) == \E w \in ToSet(wanted) : w.name = s.name
           stays(s)    == (IsEntry(s) \/ IsPPA(s)) => isWanted(s)
           stayed        == Picked(originals, {n \in DOMAIN originals : stays(originals[n])})
           unedited(s) == /\ IsEntry(s) /\ originalSuite # ""
                          /\ s = EntrySource(s.name, originalSuite)
           resolved    == [n \in DOMAIN stayed |->
                             IF unedited(stayed[n]) THEN EntrySource(stayed[n].name, suite) ELSE stayed[n]]
           all == resolved \o wanted
           places == DOMAIN all \ Repeats(SourceNames(all))
           merged == FirstOfEach(all, SourceNames(all))
<1>1. MergeSources(selected, ppas, originals, originalSuite, suite) = merged
  BY DEF MergeSources
<1>2. /\ IsList(entries)
      /\ \A n \in DOMAIN entries : entries[n] \in SourceCatalog
  <2> DEFINE those == {n \in DOMAIN selected : selected[n] \in SourceCatalog}
  <2>1. /\ IsList(Picked(selected, those))
        /\ \A n \in 1..Cardinality(those) : /\ Ranked(those, n) \in those
                                            /\ Picked(selected, those)[n] = selected[Ranked(those, n)]
    BY PickedList
  <2>2. DOMAIN Picked(selected, those) = 1..Cardinality(those)
    BY DEF Picked
  <2> QED BY <2>1, <2>2
<1>3. /\ \A n \in SourceCatalog : \A s : RowAccepted([name |-> n, suite |-> s, own |-> Absent])
      /\ \A p \in Ppas : RowAccepted(PPA(p))
  BY OffersAssumption DEF RowAccepted, PPA
<1>4. IsList(fromEntries) /\ \A n \in DOMAIN fromEntries : RowAccepted(fromEntries[n])
  <2>1. Len(entries) \in Nat /\ DOMAIN entries = 1..Len(entries)
    BY <1>2, ListLen
  <2>2. \A n \in DOMAIN fromEntries : RowAccepted(fromEntries[n])
    <3> HIDE DEF entries
    <3> QED BY <1>2, <1>3 DEF EntrySource
  <2>3. fromEntries = [n \in 1..Len(entries) |-> fromEntries[n]]
    <3> HIDE DEF entries
    <3> QED BY <2>1
  <2> HIDE DEF fromEntries
  <2> QED BY <2>1, <2>2, <2>3, IsAList
<1>5. IsList(fromPpas) /\ \A n \in DOMAIN fromPpas : RowAccepted(fromPpas[n])
  <2>1. Len(ppas) \in Nat /\ DOMAIN ppas = 1..Len(ppas)
    BY ListLen
  <2>2. \A n \in DOMAIN fromPpas : RowAccepted(fromPpas[n])
    BY <1>3 DEF ToSet
  <2>3. fromPpas = [n \in 1..Len(ppas) |-> fromPpas[n]]
    BY <2>1
  <2> HIDE DEF fromPpas
  <2> QED BY <2>1, <2>2, <2>3, IsAList
<1>6. IsList(wanted) /\ \A s \in ToSet(wanted) : RowAccepted(s)
  <2> HIDE DEF fromEntries, fromPpas
  <2>1. IsList(wanted) /\ ToSet(wanted) = ToSet(fromEntries) \cup ToSet(fromPpas)
    BY <1>4, <1>5, Joined
  <2> QED BY <1>4, <1>5, <2>1 DEF ToSet
<1>7. /\ IsList(stayed) /\ Len(stayed) \in Nat /\ DOMAIN stayed = 1..Len(stayed)
      /\ \A n \in DOMAIN stayed : RowAccepted(stayed[n])
  <2> DEFINE those == {n \in DOMAIN originals : stays(originals[n])}
  <2> HIDE DEF stays
  <2>1. /\ IsList(Picked(originals, those))
        /\ \A n \in 1..Cardinality(those) : /\ Ranked(those, n) \in those
                                            /\ Picked(originals, those)[n] = originals[Ranked(those, n)]
    BY PickedList
  <2>2. DOMAIN Picked(originals, those) = 1..Cardinality(those)
    BY DEF Picked
  <2>3. \A n \in DOMAIN stayed : RowAccepted(stayed[n])
    BY <2>1, <2>2 DEF ToSet
  <2> HIDE DEF stayed
  <2> QED BY <2>1, <2>3, ListLen DEF stayed
<1>8. IsList(resolved) /\ \A n \in DOMAIN resolved : RowAccepted(resolved[n])
  <2> HIDE DEF stayed
  <2>1. \A n \in DOMAIN resolved : RowAccepted(resolved[n])
    BY <1>3, <1>7 DEF EntrySource, IsEntry
  <2>2. resolved = [n \in 1..Len(stayed) |-> resolved[n]]
    BY <1>7
  <2> HIDE DEF resolved
  <2> QED BY <1>7, <2>1, <2>2, IsAList
<1>9. IsList(all) /\ \A s \in ToSet(all) : RowAccepted(s)
  <2> HIDE DEF resolved, wanted
  <2>1. IsList(all) /\ ToSet(all) = ToSet(resolved) \cup ToSet(wanted)
    BY <1>6, <1>8, Joined
  <2> QED BY <1>6, <1>8, <2>1 DEF ToSet
<1> HIDE DEF all
<1>10. DOMAIN SourceNames(all) = DOMAIN all
       /\ \A n \in DOMAIN all : SourceNames(all)[n] = all[n].name
  BY DEF SourceNames
<1>11. /\ IsList(merged) /\ ToSet(merged) \subseteq ToSet(all)
       /\ \A n \in DOMAIN merged : /\ Ranked(places, n) \in DOMAIN all
                                   /\ merged[n] = all[Ranked(places, n)]
       /\ \A m, n \in DOMAIN merged :
            m < n => SourceNames(all)[Ranked(places, m)] # SourceNames(all)[Ranked(places, n)]
  BY <1>9, <1>10, FirstOfEachList
<1> HIDE DEF places, merged
<1>12. Len(merged) \in Nat /\ DOMAIN merged = 1..Len(merged)
  BY <1>11, ListLen
<1>13. ASSUME NEW n \in Repeats(SourceNames(merged)) PROVE FALSE
  <2>1. /\ n \in DOMAIN merged
        /\ \E m \in 1..(n - 1) : SourceNames(merged)[m] = SourceNames(merged)[n]
    BY DEF Repeats, SourceNames
  <2>2. PICK m \in 1..(n - 1) : SourceNames(merged)[m] = SourceNames(merged)[n]
    BY <2>1
  <2>3. m \in DOMAIN merged /\ m < n
    BY <1>12, <2>1
  <2>4. merged[m].name = merged[n].name
    BY <2>1, <2>2, <2>3 DEF SourceNames
  <2> QED BY <1>10, <1>11, <2>1, <2>3, <2>4
<1>14. Repeats(SourceNames(merged)) = {}
  BY <1>13
<1> QED BY <1>1, <1>9, <1>11, <1>14

(* A list of certificates the field accepts installs each under a name of  *)
(* its own.                                                                *)
LEMMA CertificatesOnce ==
  ASSUME NEW paths, IsList(paths), ToSet(paths) \subseteq Accepted["certificate"],
         CertificateFileProblems(Certificates, Spelled, paths) = {}
  PROVE  Repeats(NamedBy(CertificateName, paths)) = {}
<1> DEFINE names(k) == {Spelled[InstallName(paths[k], n)] : n \in 1..Certificates[paths[k]]}
<1>1. Len(paths) \in Nat /\ DOMAIN paths = 1..Len(paths)
  BY ListLen
<1>2. WellFormed("certificate", paths) = paths
  <2>1. {n \in DOMAIN paths : paths[n] \in Accepted["certificate"]} = DOMAIN paths
    BY DEF ToSet
  <2> QED BY <2>1, PickedAll DEF WellFormed
<1>3. \A k \in DOMAIN paths : /\ Certificates[paths[k]] # 0
                              /\ \A j \in 1..(k - 1) : names(j) \cap names(k) = {}
  <2>1. CertificateFileProblems(Certificates, Spelled, paths) =
          {<<"certificate", paths[k]>> : k \in
             {k \in DOMAIN paths :
                \/ Certificates[paths[k]] = 0
                \/ \E j \in 1..(k - 1) : names(j) \cap names(k) # {}}}
    BY <1>2 DEF CertificateFileProblems
  <2> HIDE DEF names
  <2> QED BY <2>1
<1>4. \A k \in DOMAIN paths : Certificates[paths[k]] \in Nat
  BY CertificatesAssumption DEF ToSet
<1> SUFFICES ASSUME NEW b \in Repeats(NamedBy(CertificateName, paths)) PROVE FALSE
  OBVIOUS
<1>5. b \in DOMAIN paths
      /\ \E a \in 1..(b - 1) :
           NamedBy(CertificateName, paths)[a] = NamedBy(CertificateName, paths)[b]
  BY DEF Repeats, NamedBy
<1>6. PICK a \in 1..(b - 1) :
        NamedBy(CertificateName, paths)[a] = NamedBy(CertificateName, paths)[b]
  BY <1>5
<1>7. a \in DOMAIN paths
  BY <1>1, <1>5
<1>8. CertificateName[paths[a]] = CertificateName[paths[b]]
  BY <1>5, <1>6, <1>7 DEF NamedBy
<1>9. 1 \in 1..Certificates[paths[a]] /\ 1 \in 1..Certificates[paths[b]]
  BY <1>3, <1>4, <1>5, <1>7
<1>10. Spelled[InstallName(paths[a], 1)] \in names(a)
       /\ Spelled[InstallName(paths[b], 1)] \in names(b)
  BY <1>9
<1>11. InstallName(paths[a], 1) = InstallName(paths[b], 1)
  BY <1>8 DEF InstallName
<1>12. names(a) \cap names(b) # {}
  BY <1>10, <1>11
<1> QED BY <1>3, <1>5, <1>12

(* Answers every question asked has accepted.                              *)
FitLists(v) ==
  /\ IsList(v.sources) /\ IsList(v.ppas) /\ ToSet(v.ppas) \subseteq Ppas
  /\ IsList(v.originalSources) /\ \A s \in ToSet(v.originalSources) : RowAccepted(s)
  /\ IsList(v.python) /\ ToSet(v.python) \subseteq Accepted["python"]
  /\ OneProjectEach(v.python) /\ v.indexURL \in {""} \cup Accepted["index"]
  /\ IsList(v.certificates) /\ ToSet(v.certificates) \subseteq Accepted["certificate"]
  /\ CertificateFileProblems(Certificates, Spelled, v.certificates) = {}
  /\ IsList(v.originalCertificates)
  /\ ToSet(v.originalCertificates) \subseteq Accepted["certificate"]
FitValues(v) ==
  /\ v.distro \in Families /\ v.target \in Targets
  /\ v.name \in Accepted["image"] /\ v.user \in Accepted["user"]
  /\ Builds(v.distro, v.release)
  /\ v.timezone \in Accepted["timezone"] /\ v.locale \in Accepted["lang"]
  /\ v.target = "disk" => v.size \in {""} \cup Accepted["size"]
  /\ IsList(v.packages) /\ IsList(v.others) /\ IsList(v.originalInclude)
  /\ ToSet(v.others) \subseteq Accepted[IF v.distro = "fedora" THEN "rpm" ELSE "apt"]
  /\ v.distro = "ubuntu" => FitLists(v)

(* A family's name is its own, and no name is Ubuntu's.                    *)
LEMMA FamilyIs ==
  /\ \A name \in Families : FamilyOf(name) = name /\ name # Absent
  /\ FamilyOf("") = "ubuntu"
BY AbsentAssumption DEF FamilyOf, Families

(* The parts of the recipe the answers make.                               *)
LEMMA RecipeParts ==
  ASSUME NEW v, v.distro \in Families, v.target \in Targets
  PROVE  LET r == ToRecipe(v)
         IN  /\ FamilyOf(r.distro) = v.distro /\ TargetOf(r) = v.target
             /\ r.name = v.name /\ r.user = v.user /\ r.release = v.release
             /\ r.lang = v.locale /\ r.timezone = v.timezone
             /\ r.wsl = IF v.target = "disk" THEN NoWSL
                        ELSE [systemd |-> v.systemd, defaultUser |-> v.user]
             /\ r.disk = IF v.target = "disk" THEN DiskTable(v) ELSE Absent
             /\ r.include = MergePackages(CatalogSelections(v.distro, v), v.others, v.originalInclude)
             /\ r.sources = IF v.distro = "fedora" THEN <<>>
                            ELSE MergeSources(v.sources, v.ppas, v.originalSources,
                                              ReleaseSuite(v.originalRelease), ReleaseSuite(v.release))
             /\ r.python = IF v.distro = "fedora" THEN Absent ELSE PythonTable(v)
             /\ r.certificates = IF v.distro = "fedora" THEN Absent ELSE CertificatesTable(v)
             /\ r.distro = RecipeDistro(v) /\ r.target = RecipeTarget(v)
             /\ DOMAIN r = DOMAIN AnsweredBy
<1>1. Family(v) = v.distro /\ Target(v) = v.target
  BY FamilyIs DEF Family, Target, Targets
<1>2. FamilyOf(RecipeDistro(v)) = v.distro
  BY FamilyIs DEF RecipeDistro, Named, Families
<1>3. (IF RecipeTarget(v) = "" THEN "wsl" ELSE RecipeTarget(v)) = v.target
  BY DEF RecipeTarget, Named, Targets
<1>4. DOMAIN ToRecipe(v) = DOMAIN AnsweredBy
  BY DEF ToRecipe, AnsweredBy
<1> QED BY <1>1, <1>2, <1>3, <1>4 DEF ToRecipe, TargetOf

(* The empty list holds nothing.                                           *)
LEMMA NothingHeld ==
  /\ IsList(<<>>) /\ ToSet(<<>>) = {} /\ Repeats(<<>>) = {} /\ DOMAIN <<>> = {}
BY DEF IsList, ToSet, Repeats

(* What an answer selects of a family's catalog that family's package      *)
(* pattern accepts.                                                        *)
LEMMA CatalogIsAccepted ==
  ASSUME NEW v, IsList(v.packages), NEW family \in Families
  PROVE  /\ IsList(CatalogSelections(family, v))
         /\ ToSet(CatalogSelections(family, v)) \subseteq CatalogOf[family]
         /\ ToSet(CatalogSelections(family, v))
              \subseteq Accepted[IF family = "fedora" THEN "rpm" ELSE "apt"]
<1> DEFINE taken == {n \in DOMAIN v.packages : InCatalog(family, v.packages[n])}
<1>1. CatalogSelections(family, v) = Picked(v.packages, taken)
  BY DEF CatalogSelections, SplitPackages
<1>2. IsList(Picked(v.packages, taken))
      /\ ToSet(Picked(v.packages, taken)) = {v.packages[p] : p \in taken}
  BY PickedList
<1>3. ToSet(Picked(v.packages, taken)) \subseteq CatalogOf[family]
  BY <1>2 DEF InCatalog
<1> HIDE DEF taken
<1> QED BY <1>1, <1>2, <1>3, OffersAssumption DEF Families

(* Answers accepted one by one make a recipe with nothing wrong but two    *)
(* combinations.                                                           *)
LEMMA FitIsValid ==
  ASSUME NEW v, FitValues(v)
  PROVE  Validate(ToRecipe(v)) \subseteq
           {<<"no disk of this release">>}
           \cup {<<"certificate", "twice", CertificateName[c]>> : c \in ToSet(v.originalCertificates)}
<1> DEFINE r == ToRecipe(v)
           twice == {<<"certificate", "twice", CertificateName[c]>> : c \in ToSet(v.originalCertificates)}
<1>1. v.distro \in Families /\ v.target \in Targets
  BY DEF FitValues
<1>2. /\ FamilyOf(r.distro) = v.distro /\ TargetOf(r) = v.target
      /\ r.name = v.name /\ r.user = v.user /\ r.release = v.release
      /\ r.lang = v.locale /\ r.timezone = v.timezone
      /\ r.wsl = IF v.target = "disk" THEN NoWSL
                 ELSE [systemd |-> v.systemd, defaultUser |-> v.user]
      /\ r.disk = IF v.target = "disk" THEN DiskTable(v) ELSE Absent
  BY <1>1, RecipeParts
<1>3. r.include = MergePackages(CatalogSelections(v.distro, v), v.others, v.originalInclude)
  BY <1>1, RecipeParts
<1>4. r.sources = IF v.distro = "fedora" THEN <<>>
                  ELSE MergeSources(v.sources, v.ppas, v.originalSources,
                                    ReleaseSuite(v.originalRelease), ReleaseSuite(v.release))
  BY <1>1, RecipeParts
<1>5. /\ r.python = IF v.distro = "fedora" THEN Absent ELSE PythonTable(v)
      /\ r.certificates = IF v.distro = "fedora" THEN Absent ELSE CertificatesTable(v)
  BY <1>1, RecipeParts
<1>6. v.distro # "fedora" => FitLists(v)
  BY <1>1 DEF FitValues, Families
<1> HIDE DEF r
<1>10. ImageProblems(r) = {}
  BY <1>1, <1>2, FamilyIs DEF ImageProblems, Check, FitValues
<1>11. FamilyOf(r.distro) = "fedora" => FedoraUnsupported(r) = {}
  BY <1>2, <1>4, <1>5 DEF FedoraUnsupported
<1>12. TargetProblems(r) \subseteq {<<"no disk of this release">>}
  <2>1. CASE v.target = "wsl"
    BY <1>2, <2>1 DEF TargetProblems
  <2>2. CASE v.target = "disk"
    <3>1. r.wsl = NoWSL /\ r.disk = DiskTable(v)
      BY <1>2, <2>2
    <3>2. DiskSize(r) \in {"", v.size}
      BY <3>1 DEF DiskSize, DiskTable
    <3>3. DiskFormats(r) \in {<<>>, <<"qcow2">>}
      BY <3>1 DEF DiskFormats, DiskTable
    <3>4. CheckGiven("size", DiskSize(r)) = {}
      BY <2>2, <3>2 DEF CheckGiven, Check, FitValues
    <3>5. IsList(DiskFormats(r)) /\ ToSet(DiskFormats(r)) \subseteq Accepted["format"]
          /\ Len(DiskFormats(r)) \in {0, 1}
      <4>1. IsList(<<>>) /\ ToSet(<<>>) = {} /\ Len(<<>>) = 0
        BY NothingHeld
      <4>2. <<"qcow2">> = [n \in 1..1 |-> <<"qcow2">>[n]] /\ ToSet(<<"qcow2">>) = {"qcow2"}
        BY DEF ToSet
      <4>3. IsList(<<"qcow2">>) /\ Len(<<"qcow2">>) = 1
        BY <4>2, IsAList
      <4> QED BY <3>3, <4>1, <4>2, <4>3, FormatsAssumption
    <3>6. CheckAll("format", DiskFormats(r)) = {}
      BY <3>5, AllAccepted
    <3>7. Repeats(WellFormed("format", DiskFormats(r))) = {}
      <4> DEFINE places == {n \in DOMAIN DiskFormats(r) : DiskFormats(r)[n] \in Accepted["format"]}
      <4>1. DOMAIN WellFormed("format", DiskFormats(r)) = 1..Cardinality(places)
        BY DEF WellFormed, Picked
      <4>2. Cardinality(places) \in 0..Len(DiskFormats(r))
        <5> HIDE DEF places
        <5>1. places \subseteq DOMAIN DiskFormats(r)
          BY DEF places
        <5> QED BY <3>5, <5>1, PickedList
      <4>3. DOMAIN WellFormed("format", DiskFormats(r)) \subseteq {1}
        <5> DEFINE c == Cardinality(places)
        <5> HIDE DEF c
        <5>3. c \in 0..Len(DiskFormats(r))
          BY <4>2 DEF c
        <5>1. c \in {0, 1}
          <6>1. CASE Len(DiskFormats(r)) = 0
            BY <5>3, <6>1
          <6>2. CASE Len(DiskFormats(r)) = 1
            BY <5>3, <6>2
          <6> QED BY <3>5, <6>1, <6>2
        <5>2. 1..c \subseteq {1}
          BY <5>1
        <5> QED BY <4>1, <5>2 DEF c
      <4> QED BY <4>3 DEF Repeats
    <3>8. Twice("format", WellFormed("format", DiskFormats(r))) = {}
      BY <3>7 DEF Twice
    <3>9. TargetProblems(r) = DiskProblems(r)
      BY <1>2, <2>2 DEF TargetProblems
    <3> QED BY <3>1, <3>4, <3>6, <3>8, <3>9 DEF DiskProblems
  <2> QED BY <1>1, <2>1, <2>2 DEF Targets
<1>13. UserProblems(r) = {}
  <2>1. r.wsl.defaultUser \in {"", r.user}
    <3>1. CASE v.target = "disk"
      <4>1. r.wsl = NoWSL
        BY <1>2, <3>1
      <4>2. NoWSL.defaultUser = ""
        BY DEF NoWSL
      <4> QED BY <4>1, <4>2
    <3>2. CASE v.target # "disk"
      <4>1. r.wsl = [systemd |-> v.systemd, defaultUser |-> v.user]
        BY <1>2, <3>2
      <4>2. r.wsl.defaultUser = v.user /\ r.user = v.user
        BY ONLY <1>2, <4>1
      <4> QED BY <4>2
    <3> QED BY <3>1, <3>2
  <2>2. r.user \in Accepted["user"] /\ r.lang \in Accepted["lang"]
        /\ r.timezone \in Accepted["timezone"]
    BY <1>2 DEF FitValues
  <2>3. Check("user", r.user) = {} /\ CheckGiven("lang", r.lang) = {}
        /\ CheckGiven("timezone", r.timezone) = {}
    BY <2>2 DEF Check, CheckGiven
  <2> QED BY <2>1, <2>3 DEF UserProblems
<1>14. PackageProblems(r) = {}
  <2> DEFINE kind == IF v.distro = "fedora" THEN "rpm" ELSE "apt"
  <2>1. IsList(v.packages) /\ IsList(v.others) /\ IsList(v.originalInclude)
        /\ ToSet(v.others) \subseteq Accepted[kind]
    BY DEF FitValues
  <2>2. IsList(CatalogSelections(v.distro, v))
        /\ ToSet(CatalogSelections(v.distro, v)) \subseteq Accepted[kind]
    BY <1>1, <2>1, CatalogIsAccepted
  <2> HIDE DEF kind
  <2>3. ToSet(r.include) \subseteq Accepted[kind]
    BY <1>3, <2>1, <2>2, MergedPackages
  <2>4. CheckAll(kind, r.include) = {}
    BY <2>3, AllAccepted
  <2> QED BY <1>2, <2>4 DEF PackageProblems, kind
<1>15. PythonProblems(r) = {}
  <2>1. CASE PythonPackages(r) = <<>> /\ PythonIndexURL(r) = ""
    <3>1. CheckAll("python", <<>>) = {}
      BY NothingHeld, AllAccepted
    <3>2. Repeats(NamedBy(ProjectOf, <<>>)) = {}
      BY NothingHeld DEF Repeats, NamedBy
    <3>3. Twice("python", NamedBy(ProjectOf, WellFormed("python", <<>>))) = {}
      BY <3>2, NothingHeld, NoTwice
    <3> QED BY <2>1, <3>1, <3>3 DEF PythonProblems, CheckGiven
  <2>2. CASE ~(PythonPackages(r) = <<>> /\ PythonIndexURL(r) = "")
    <3>1. r.python # Absent
      BY <2>2 DEF PythonPackages, PythonIndexURL, IncludeOf
    <3>2. v.distro # "fedora" /\ r.python = PythonTable(v) /\ v.python # <<>>
          /\ r.python = [include |-> v.python, index |-> v.indexURL]
      BY <1>5, <3>1 DEF PythonTable
    <3>3. PythonPackages(r) = v.python /\ PythonIndexURL(r) = v.indexURL
      <4>1. r.python.include = v.python /\ r.python.index = v.indexURL
        BY <3>2
      <4> QED BY <3>1, <4>1 DEF PythonPackages, PythonIndexURL, IncludeOf
    <3>4. IsList(v.python) /\ ToSet(v.python) \subseteq Accepted["python"]
          /\ Repeats(NamedBy(ProjectOf, v.python)) = {}
          /\ v.indexURL \in {""} \cup Accepted["index"]
      BY <1>6, <3>2 DEF FitLists, OneProjectEach
    <3>7. CheckAll("python", v.python) = {}
      BY <3>4, AllAccepted
    <3>5. Twice("python", NamedBy(ProjectOf, WellFormed("python", v.python))) = {}
      BY <3>4, NoTwice
    <3>6. CheckGiven("index", v.indexURL) = {}
      BY <3>4 DEF CheckGiven, Check
    <3> QED BY <3>2, <3>3, <3>5, <3>6, <3>7 DEF PythonProblems
  <2> QED BY <2>1, <2>2
<1>16. CertificateProblems(r) \subseteq twice
  <2>1. CASE CertificatePaths(r) = <<>>
    <3>1. CheckAll("certificate", <<>>) = {}
      BY NothingHeld, AllAccepted
    <3>2. Repeats(NamedBy(CertificateName, <<>>)) = {}
      BY NothingHeld DEF Repeats, NamedBy
    <3>3. Twice("certificate", NamedBy(CertificateName, WellFormed("certificate", <<>>))) = {}
      BY <3>2, NothingHeld, NoTwice
    <3> QED BY <2>1, <3>1, <3>3 DEF CertificateProblems
  <2>2. CASE CertificatePaths(r) # <<>>
    <3> DEFINE own == v.originalCertificates
               typed == v.certificates
               paths == own \o typed
               places == {n \in DOMAIN paths : paths[n] \in Accepted["certificate"]}
               names == NamedBy(CertificateName, WellFormed("certificate", paths))
    <3>1. r.certificates # Absent
      BY <2>2 DEF CertificatePaths, IncludeOf
    <3>2. v.distro # "fedora" /\ r.certificates = [include |-> paths]
      BY <1>5, <3>1 DEF CertificatesTable
    <3>3. CertificatePaths(r) = paths
      <4>1. [include |-> paths].include = paths
        OBVIOUS
      <4>2. r.certificates.include = paths
        BY ONLY <3>2, <4>1
      <4> QED BY <3>1, <4>2 DEF CertificatePaths, IncludeOf
    <3>4. /\ IsList(own) /\ IsList(typed) /\ ToSet(own) \subseteq Accepted["certificate"]
          /\ ToSet(typed) \subseteq Accepted["certificate"]
          /\ CertificateFileProblems(Certificates, Spelled, typed) = {}
      BY <1>6, <3>2 DEF FitLists
    <3>5. Repeats(NamedBy(CertificateName, typed)) = {}
      BY <3>4, CertificatesOnce
    <3> HIDE DEF own, typed
    <3>6. /\ IsList(paths) /\ Len(paths) = Len(own) + Len(typed)
          /\ \A n \in 1..Len(own) : paths[n] = own[n]
          /\ \A n \in 1..Len(typed) : paths[Len(own) + n] = typed[n]
          /\ ToSet(paths) = ToSet(own) \cup ToSet(typed)
      BY <3>4, Joined
    <3>7. CheckAll("certificate", paths) = {}
      BY <3>4, <3>6, AllAccepted
    <3>8. Len(own) \in Nat /\ Len(typed) \in Nat /\ DOMAIN paths = 1..(Len(own) + Len(typed))
          /\ DOMAIN typed = 1..Len(typed) /\ DOMAIN own = 1..Len(own)
      BY <3>4, <3>6, ListLen
    <3>9. \A n \in Repeats(names) :
            /\ n \in DOMAIN names
            /\ Ranked(places, n) \in Repeats(NamedBy(CertificateName, paths))
            /\ names[n] = CertificateName[paths[Ranked(places, n)]]
      <4> HIDE DEF paths
      <4>1. /\ DOMAIN names = 1..Cardinality(places)
            /\ \A n \in 1..Cardinality(places) :
                 names[n] = CertificateName[paths[Ranked(places, n)]]
            /\ \A n \in Repeats(names) :
                 /\ n \in 1..Cardinality(places)
                 /\ Ranked(places, n) \in Repeats(NamedBy(CertificateName, paths))
        <5>1. IsList(paths)
          BY <3>6
        <5> QED BY ONLY <5>1, WellFormedList
      <4> HIDE DEF names, places
      <4> QED BY <4>1
    <3> HIDE DEF paths, places, names
    <3>10. \A p \in Repeats(NamedBy(CertificateName, paths)) :
             \E c \in ToSet(own) : CertificateName[paths[p]] = CertificateName[c]
      <4> SUFFICES ASSUME NEW p \in Repeats(NamedBy(CertificateName, paths))
                   PROVE  \E c \in ToSet(own) : CertificateName[paths[p]] = CertificateName[c]
        OBVIOUS
      <4>1. p \in 1..(Len(own) + Len(typed))
            /\ \E m \in 1..(p - 1) :
                 NamedBy(CertificateName, paths)[m] = NamedBy(CertificateName, paths)[p]
        BY <3>8 DEF Repeats, NamedBy
      <4>2. PICK m \in 1..(p - 1) :
              NamedBy(CertificateName, paths)[m] = NamedBy(CertificateName, paths)[p]
        BY <4>1
      <4>3. m \in 1..(Len(own) + Len(typed)) /\ m < p /\ m \in Int /\ p \in Int
        BY <3>8, <4>1
      <4>4. CertificateName[paths[m]] = CertificateName[paths[p]]
        BY <3>8, <4>1, <4>2, <4>3 DEF NamedBy
      <4>5. CASE m \in 1..Len(own)
        BY <3>6, <3>8, <4>4, <4>5 DEF ToSet
      <4>6. CASE m \notin 1..Len(own)
        <5> DEFINE a == m - Len(own)
                   b == p - Len(own)
        <5>4. Len(own) + a = m /\ Len(own) + b = p /\ a < b /\ a \in Int /\ b \in Int
          BY <3>8, <4>3
        <5>5. 1 <= a /\ b <= Len(typed)
          BY <3>8, <4>1, <4>3, <4>6
        <5>1. a \in 1..Len(typed) /\ b \in 1..Len(typed) /\ a < b /\ a \in 1..(b - 1)
              /\ Len(own) + a = m /\ Len(own) + b = p
          <6> HIDE DEF a, b
          <6> QED BY <3>8, <5>4, <5>5
        <5> HIDE DEF a, b
        <5>2. paths[m] = typed[a] /\ paths[p] = typed[b]
          BY <3>6, <5>1
        <5>3. b \in Repeats(NamedBy(CertificateName, typed))
          BY <3>8, <4>4, <5>1, <5>2 DEF Repeats, NamedBy
        <5> QED BY <3>5, <5>3
      <4> QED BY <4>5, <4>6
    <3>11. \A n \in Repeats(names) : \E c \in ToSet(own) : names[n] = CertificateName[c]
      BY <3>9, <3>10
    <3>12. Twice("certificate", names) \subseteq
             {<<"certificate", "twice", CertificateName[c]>> : c \in ToSet(own)}
      BY <3>11 DEF Twice
    <3> QED BY <3>3, <3>7, <3>12 DEF CertificateProblems, names, paths, own
  <2> QED BY <2>1, <2>2
<1>17. SourceProblems(r) = {}
  <2>1. CASE v.distro = "fedora"
    <3>1. r.sources = <<>>
      BY <1>4, <2>1
    <3>2. Repeats(SourceNames(<<>>)) = {}
      BY NothingHeld DEF SourceNames, Repeats
    <3> QED BY <3>1, <3>2, NothingHeld, NoSourceProblems
  <2>2. CASE v.distro # "fedora"
    <3> DEFINE merged == MergeSources(v.sources, v.ppas, v.originalSources,
                                      ReleaseSuite(v.originalRelease), ReleaseSuite(v.release))
    <3>1. /\ IsList(v.sources) /\ IsList(v.ppas) /\ ToSet(v.ppas) \subseteq Ppas
          /\ IsList(v.originalSources) /\ \A s \in ToSet(v.originalSources) : RowAccepted(s)
      BY <1>6, <2>2 DEF FitLists
    <3>2. /\ IsList(merged) /\ \A s \in ToSet(merged) : RowAccepted(s)
          /\ Repeats(SourceNames(merged)) = {}
      BY <3>1, MergedSources
    <3>3. r.sources = merged
      BY <1>4, <2>2
    <3> HIDE DEF merged
    <3> QED BY <3>2, <3>3, NoSourceProblems
  <2> QED BY <2>1, <2>2
<1> HIDE DEF twice
<1>18. Validate(r) \subseteq {<<"no disk of this release">>} \cup twice
  BY <1>10, <1>11, <1>12, <1>13, <1>14, <1>15, <1>16, <1>17 DEF Validate
<1> QED BY <1>18 DEF r, twice

(* The questions, one by one.                                              *)
LEMMA FieldList ==
  /\ Len(Fields) = 21 /\ DOMAIN Fields = 1..21 /\ IsList(Fields)
  /\ ToSet(Fields) =
       {Fields[1], Fields[2], Fields[3], Fields[4], Fields[5], Fields[6], Fields[7],
        Fields[8], Fields[9], Fields[10], Fields[11], Fields[12], Fields[13], Fields[14],
        Fields[15], Fields[16], Fields[17], Fields[18], Fields[19], Fields[20], Fields[21]}
<1>1. Len(Fields) = 21 /\ DOMAIN Fields = 1..21
  BY DEF Fields
<1>2. Fields = [n \in 1..21 |-> Fields[n]]
  BY DEF Fields
<1>3. IsList(Fields)
  <2> HIDE DEF Fields
  <2> QED BY <1>2, IsAList
<1>4. 1..21 = {1, 2, 3, 4, 5, 6, 7, 8, 9, 10, 11, 12, 13, 14, 15, 16, 17, 18, 19, 20, 21}
  OBVIOUS
<1>5. ToSet(Fields) = {Fields[n] : n \in {1, 2, 3, 4, 5, 6, 7, 8, 9, 10, 11, 12, 13, 14, 15, 16, 17, 18, 19, 20, 21}}
  BY <1>1, <1>4 DEF ToSet
<1> QED BY <1>1, <1>3, <1>5

(* What each question asks, where, and whom.                               *)
Asks(n, of, key, families, targets) ==
  /\ Fields[n].page = of /\ Fields[n].key = key
  /\ Fields[n].families = families /\ Fields[n].targets = targets

(* The table of the questions, as RecipeForm's Fields lists them.          *)
LEMMA FieldTable ==
  /\ Asks(1, "Image", "name", Families, {"wsl"})
  /\ Asks(2, "Image", "name", Families, {"disk"})
  /\ Asks(3, "Image", "distro", Families, Targets)
  /\ Asks(4, "Image", "release", Ubuntu, Targets)
  /\ Asks(5, "Image", "release", Fedora, Targets)
  /\ Asks(6, "Image", "target", Families, Targets)
  /\ Asks(7, "User", "user", Families, {"wsl"})
  /\ Asks(8, "User", "user", Families, {"disk"})
  /\ Asks(9, "System", "timezone", Families, Targets)
  /\ Asks(10, "System", "locale", Families, Targets)
  /\ Asks(11, "System", "systemd", Families, {"wsl"})
  /\ Asks(12, "Disk", "size", Families, {"disk"})
  /\ Asks(13, "Disk", "qcow2", Families, {"disk"})
  /\ Asks(14, "Sources", "sources", Ubuntu, Targets)
  /\ Asks(15, "Sources", "ppas", Ubuntu, Targets)
  /\ Asks(16, "Packages", "packages", Ubuntu, Targets)
  /\ Asks(17, "Packages", "others", Ubuntu, Targets)
  /\ Asks(18, "Packages", "python", Ubuntu, Targets)
  /\ Asks(19, "Packages", "packages", Fedora, Targets)
  /\ Asks(20, "Packages", "others", Fedora, Targets)
  /\ Asks(21, "Trust", "certificates", Ubuntu, Targets)
<1>1. \A n \in 1..21 : \A of, key, families, targets :
        Fields[n] = Question(of, key, families, targets) => Asks(n, of, key, families, targets)
  BY DEF Asks, Question
<1>2. /\ Fields[1] = Question("Image", "name", Families, {"wsl"})
      /\ Fields[2] = Question("Image", "name", Families, {"disk"})
      /\ Fields[3] = Question("Image", "distro", Families, Targets)
      /\ Fields[4] = Question("Image", "release", Ubuntu, Targets)
      /\ Fields[5] = Question("Image", "release", Fedora, Targets)
      /\ Fields[6] = Question("Image", "target", Families, Targets)
      /\ Fields[7] = Question("User", "user", Families, {"wsl"})
      /\ Fields[8] = Question("User", "user", Families, {"disk"})
      /\ Fields[9] = Question("System", "timezone", Families, Targets)
      /\ Fields[10] = Question("System", "locale", Families, Targets)
      /\ Fields[11] = Question("System", "systemd", Families, {"wsl"})
      /\ Fields[12] = Question("Disk", "size", Families, {"disk"})
      /\ Fields[13] = Question("Disk", "qcow2", Families, {"disk"})
      /\ Fields[14] = Question("Sources", "sources", Ubuntu, Targets)
      /\ Fields[15] = Question("Sources", "ppas", Ubuntu, Targets)
      /\ Fields[16] = Question("Packages", "packages", Ubuntu, Targets)
      /\ Fields[17] = Question("Packages", "others", Ubuntu, Targets)
      /\ Fields[18] = Question("Packages", "python", Ubuntu, Targets)
      /\ Fields[19] = Question("Packages", "packages", Fedora, Targets)
      /\ Fields[20] = Question("Packages", "others", Fedora, Targets)
      /\ Fields[21] = Question("Trust", "certificates", Ubuntu, Targets)
  BY DEF Fields
<1>3. \A n \in {1, 2, 3, 4, 5, 6, 7, 8, 9, 10, 11, 12, 13, 14, 15, 16, 17, 18, 19, 20, 21} : n \in 1..21
  OBVIOUS
<1> HIDE DEF Fields
<1> QED BY <1>1, <1>2, <1>3

(* Every question is about an answer the form has, on one of its pages;    *)
(* the choices every family makes alike are its own page's.                *)
LEMMA FieldKeys ==
  ASSUME NEW q \in ToSet(Fields)
  PROVE  /\ q.key \in {"name", "distro", "release", "target", "user", "timezone", "locale",
                       "systemd", "size", "qcow2", "sources", "ppas", "packages", "others",
                       "python", "certificates"}
         /\ q.families \in {Families, Ubuntu, Fedora}
         /\ \E p \in 1..7 : q.page = Pages[p]
         /\ q.key \in {"distro", "target", "timezone", "locale"} => q.families = Families
         /\ q.key \in {"distro", "target"} => q.page = "Image"
BY FieldList, FieldTable DEF Asks, Pages

(* A variant is asked one question about each answer.                      *)
LEMMA OneQuestion ==
  ASSUME NEW q \in ToSet(Fields), NEW p \in ToSet(Fields), q.key = p.key, NEW variant,
         AskedFor(q, variant), AskedFor(p, variant)
  PROVE  q = p
BY FieldList, FieldTable DEF Asks, AskedFor, Families, Targets, Ubuntu, Fedora

(* A variant is asked about every answer its recipe has to hold.           *)
LEMMA SomethingAsks ==
  ASSUME NEW variant, variant.family \in Families, variant.target \in Targets
  PROVE  LET asks(key) == \E q \in ToSet(Fields) : q.key = key /\ AskedFor(q, variant)
         IN  /\ asks("name") /\ asks("user") /\ asks("release")
             /\ asks("timezone") /\ asks("locale") /\ asks("packages") /\ asks("others")
             /\ variant.target = "disk" => asks("size")
             /\ variant.family = "ubuntu" => /\ asks("sources") /\ asks("ppas")
                                             /\ asks("python") /\ asks("certificates")
<1> DEFINE asks(key) == \E q \in ToSet(Fields) : q.key = key /\ AskedFor(q, variant)
<1>1. \A n \in {1, 2, 4, 5, 7, 8, 9, 10, 12, 14, 15, 16, 17, 18, 19, 20, 21} : Fields[n] \in ToSet(Fields)
  BY FieldList
<1>2. asks("name") /\ asks("user")
  BY <1>1, FieldTable DEF Asks, AskedFor, Targets
<1>3. asks("timezone") /\ asks("locale")
  BY <1>1, FieldTable DEF Asks, AskedFor
<1>4. asks("release")
  BY <1>1, FieldTable DEF Asks, AskedFor, Families, Ubuntu, Fedora
<1>5. asks("packages")
  BY <1>1, FieldTable DEF Asks, AskedFor, Families, Ubuntu, Fedora
<1>6. asks("others")
  BY <1>1, FieldTable DEF Asks, AskedFor, Families, Ubuntu, Fedora
<1>7. variant.target = "disk" => asks("size")
  BY <1>1, FieldTable DEF Asks, AskedFor
<1>8. variant.family = "ubuntu" => asks("sources") /\ asks("ppas")
  BY <1>1, FieldTable DEF Asks, AskedFor, Ubuntu
<1>9. variant.family = "ubuntu" => asks("python") /\ asks("certificates")
  BY <1>1, FieldTable DEF Asks, AskedFor, Ubuntu
<1> QED BY <1>2, <1>3, <1>4, <1>5, <1>6, <1>7, <1>8, <1>9

(* What the form may start from.                                           *)
ValueKeys ==
  {"name", "distro", "release", "user", "timezone", "locale", "systemd", "packages", "others",
   "python", "certificates", "sources", "ppas", "target", "size", "qcow2", "originalInclude",
   "originalSources", "originalRelease", "originalCertificates", "indexURL",
   "originalDistro", "originalTarget"}
StartsFit(v) ==
  /\ DOMAIN v = ValueKeys
  /\ v.distro \in Families /\ v.target \in Targets
  /\ \A key \in ListKeys : IsList(v[key])
  /\ IsList(v.originalInclude)
  /\ IsList(v.originalSources) /\ \A s \in ToSet(v.originalSources) : RowAccepted(s)
  /\ v.indexURL \in {""} \cup Accepted["index"]
  /\ IsList(v.originalCertificates)
  /\ ToSet(v.originalCertificates) \subseteq Accepted["certificate"]

(* What a widget may hold, whether it was accepted or not.                 *)
Holdable(key, answer) ==
  /\ key = "distro" => answer \in Families
  /\ key = "target" => answer \in Targets
  /\ key \in ListKeys => IsList(answer)

FormTyped ==
  /\ stage \in FormStages /\ plain \in BOOLEAN /\ fixed \in FixedChoices
  /\ problems \in BOOLEAN /\ given \in 0..MaxAnswers
  /\ original \in Originals \cup {Absent}
  /\ original # Absent => initial = FromRecipe(original)
  /\ StartsFit(initial)
  /\ DOMAIN answers = Asked
  /\ \A q \in Asked : Holdable(q.key, answers[q])
  /\ at \in 1..22 /\ (~plain => at \in 1..7)
  /\ stage = "pages" => result = Absent
  /\ stage \in {"summary", "written", "refused"} => result = ToRecipe(Values)

(* What was passed on the way was accepted, whatever was gone back to.     *)
Passed(p) == /\ ~plain /\ p \in 1..7
             /\ \/ stage = "pages" /\ p < at
                \/ stage \in {"summary", "written", "refused"}
PassedIsAccepted ==
  \A p \in 1..7 : Passed(p) => \A q \in Shown(Pages[p]) : Accepts(q, answers[q])

FormInv == FormTyped /\ PassedIsAccepted

(* The questions asked are the form's.                                     *)
LEMMA AskedAreFields == Asked \subseteq ToSet(Fields)
BY DEF Asked, FieldsFor

(* The variant answered is one the form can be answered for.               *)
LEMMA AnsweredFits ==
  ASSUME FormTyped
  PROVE  /\ Answered.family \in Families /\ Answered.target \in Targets
         /\ Answered \in Variants
         /\ fixed.family => Answered.family = Family(initial)
         /\ fixed.target => Answered.target = Target(initial)
         /\ Family(initial) = initial.distro /\ Target(initial) = initial.target
         /\ initial.distro \in Families /\ initial.target \in Targets
<1>1. initial.distro \in Families /\ initial.target \in Targets
  BY DEF FormTyped, StartsFit
<1>2. Family(initial) = initial.distro /\ Target(initial) = initial.target
  BY <1>1, FamilyIs DEF Family, Target, Targets
<1>3. \A q \in Asked : /\ fixed.family => q.key # "distro"
                       /\ fixed.target => q.key # "target"
  BY DEF Asked, FieldsFor
<1>4. AnswerTo("distro", Family(initial)) \in Families
      /\ (fixed.family => AnswerTo("distro", Family(initial)) = Family(initial))
  <2>1. CASE \E q \in DOMAIN answers : q.key = "distro"
    <3> DEFINE p == CHOOSE q \in DOMAIN answers : q.key = "distro"
    <3>1. p \in Asked /\ p.key = "distro"
      BY <2>1 DEF FormTyped
    <3>2. AnswerTo("distro", Family(initial)) = answers[p]
      BY <2>1 DEF AnswerTo
    <3> HIDE DEF p
    <3> QED BY <1>3, <3>1, <3>2 DEF FormTyped, Holdable
  <2>2. CASE ~\E q \in DOMAIN answers : q.key = "distro"
    BY <1>1, <1>2, <2>2 DEF AnswerTo
  <2> QED BY <2>1, <2>2
<1>5. AnswerTo("target", Target(initial)) \in Targets
      /\ (fixed.target => AnswerTo("target", Target(initial)) = Target(initial))
  <2>1. CASE \E q \in DOMAIN answers : q.key = "target"
    <3> DEFINE p == CHOOSE q \in DOMAIN answers : q.key = "target"
    <3>1. p \in Asked /\ p.key = "target"
      BY <2>1 DEF FormTyped
    <3>2. AnswerTo("target", Target(initial)) = answers[p]
      BY <2>1 DEF AnswerTo
    <3> HIDE DEF p
    <3> QED BY <1>3, <3>1, <3>2 DEF FormTyped, Holdable
  <2>2. CASE ~\E q \in DOMAIN answers : q.key = "target"
    BY <1>1, <1>2, <2>2 DEF AnswerTo
  <2> QED BY <2>1, <2>2
<1>6. Answered = [family |-> AnswerTo("distro", Family(initial)),
                  target |-> AnswerTo("target", Target(initial))]
  BY DEF Answered
<1>7. Answered.family = AnswerTo("distro", Family(initial))
      /\ Answered.target = AnswerTo("target", Target(initial))
  BY <1>6
<1>8. Answered \in Variants
  <2> DEFINE families == IF fixed.family THEN {Family(initial)} ELSE Families
             targets == IF fixed.target THEN {Target(initial)} ELSE Targets
  <2>1. AnswerTo("distro", Family(initial)) \in families
        /\ AnswerTo("target", Target(initial)) \in targets
    BY <1>4, <1>5
  <2>2. Variants = [family : families, target : targets]
    BY DEF Variants
  <2> HIDE DEF families, targets
  <2> QED BY <1>6, <2>1, <2>2
<1> QED BY <1>1, <1>2, <1>4, <1>5, <1>7, <1>8

(* A question the answered variant asks is one of the form's, on its page. *)
LEMMA AskedThere ==
  ASSUME FormTyped, NEW q \in ToSet(Fields), AskedFor(q, Answered),
         q.key \notin {"distro", "target"}
  PROVE  q \in Asked
<1>1. /\ fixed.family => Answered.family = Family(initial)
      /\ fixed.target => Answered.target = Target(initial)
  BY AnsweredFits
<1>2. VariantOf(initial).family = Family(initial) /\ VariantOf(initial).target = Target(initial)
  BY DEF VariantOf
<1>3. Answered.family \in q.families /\ Answered.target \in q.targets
  BY DEF AskedFor
<1> QED BY <1>1, <1>2, <1>3 DEF Asked, FieldsFor

(* A question of the answered variant is shown on its page, however the    *)
(* page's questions are grouped.                                           *)
LEMMA AllAreShown ==
  ASSUME FormTyped, NEW q \in Asked, AskedFor(q, Answered)
  PROVE  q \in Shown(q.page)
<1> DEFINE whole == OnPage(q.page)
           asked == [v \in Variants |-> QuestionsFor(whole, v)]
<1>1. Answered \in Variants
  BY AnsweredFits
<1>2. q \in whole /\ q \in asked[Answered]
  BY <1>1 DEF OnPage, QuestionsFor
<1>3. \E g \in Groups(q.page) : Answered \in g.variants /\ q \in g.questions
  <2>1. CASE IsShared(whole)
    <3>1. Groups(q.page) = {[questions |-> whole, variants |-> Variants]}
      BY <2>1 DEF Groups
    <3> HIDE DEF whole
    <3> QED BY <1>1, <1>2, <3>1
  <2>2. CASE ~IsShared(whole)
    <3> DEFINE group(v) == [questions |-> asked[v], variants |-> {w \in Variants : asked[w] = asked[v]}]
    <3>1. Groups(q.page) = {group(v) : v \in {w \in Variants : asked[w] # {}}}
      BY <2>2 DEF Groups
    <3>2. group(Answered).questions = asked[Answered]
          /\ group(Answered).variants = {w \in Variants : asked[w] = asked[Answered]}
      BY DEF group
    <3> HIDE DEF asked, group
    <3>3. group(Answered) \in Groups(q.page)
      BY <1>1, <1>2, <3>1
    <3> QED BY <1>1, <1>2, <3>2, <3>3
  <2> QED BY <2>1, <2>2
<1> QED BY <1>3 DEF Shown

(* And what a page shows is a question of the answered variant on it.      *)
LEMMA ShownAreAsked ==
  ASSUME NEW p, NEW q \in Shown(p)
  PROVE  q \in Asked /\ q.page = p /\ AskedFor(q, Answered)
<1> DEFINE whole == OnPage(p)
           asked == [v \in Variants |-> QuestionsFor(whole, v)]
<1>1. PICK g \in Groups(p) : q \in g.questions
  BY DEF Shown
<1>2. g.questions \subseteq whole
  <2>1. CASE IsShared(whole)
    <3>1. g = [questions |-> whole, variants |-> Variants]
      BY <2>1 DEF Groups
    <3> HIDE DEF whole
    <3> QED BY <3>1
  <2>2. CASE ~IsShared(whole)
    <3>1. PICK v \in Variants :
            g = [questions |-> asked[v], variants |-> {w \in Variants : asked[w] = asked[v]}]
      BY <2>2 DEF Groups
    <3>2. asked[v] \subseteq whole
      BY DEF QuestionsFor
    <3> HIDE DEF asked, whole
    <3>3. g.questions = asked[v]
      BY <3>1
    <3> QED BY <3>2, <3>3
  <2> QED BY <2>1, <2>2
<1>3. q \in Asked /\ q.page = p
  BY <1>1, <1>2 DEF OnPage
<1>4. AskedFor(q, Answered)
  BY DEF Shown
<1> QED BY <1>3, <1>4

(* The answers as the recipe takes them.                                   *)
LEMMA ValueAnswered ==
  ASSUME FormTyped, NEW q \in Asked, AskedFor(q, Answered)
  PROVE  Values[q.key] = answers[q]
<1> DEFINE asked(key) == {p \in DOMAIN answers : p.key = key /\ AskedFor(p, Answered)}
<1>1. DOMAIN answers = Asked /\ DOMAIN initial = ValueKeys
  BY DEF FormTyped, StartsFit
<1>2. q \in ToSet(Fields) /\ q.key \in ValueKeys
  BY AskedAreFields, FieldKeys DEF ValueKeys
<1>3. asked(q.key) = {q}
  <2>1. \A p \in asked(q.key) : p = q
    BY <1>1, <1>2, AskedAreFields, OneQuestion
  <2> QED BY <1>1, <2>1
<1>4. Values = [key \in DOMAIN initial |->
                  IF asked(key) = {} THEN initial[key]
                  ELSE answers[CHOOSE p \in asked(key) : TRUE]]
  BY DEF Values, ValuesOf
<1> HIDE DEF asked
<1>5. Values[q.key] = answers[CHOOSE p \in asked(q.key) : TRUE]
  BY <1>1, <1>2, <1>3, <1>4
<1> QED BY <1>3, <1>5

(* An answer the variant is not asked for is the one it started from.      *)
LEMMA ValueStarted ==
  ASSUME FormTyped, NEW key \in ValueKeys,
         \A q \in Asked : q.key = key => ~AskedFor(q, Answered)
  PROVE  Values[key] = initial[key]
<1> DEFINE asked(k) == {p \in DOMAIN answers : p.key = k /\ AskedFor(p, Answered)}
<1>1. DOMAIN answers = Asked /\ DOMAIN initial = ValueKeys
  BY DEF FormTyped, StartsFit
<1>2. asked(key) = {}
  BY <1>1
<1>3. Values = [k \in DOMAIN initial |->
                  IF asked(k) = {} THEN initial[k]
                  ELSE answers[CHOOSE p \in asked(k) : TRUE]]
  BY DEF Values, ValuesOf
<1> HIDE DEF asked
<1> QED BY <1>1, <1>2, <1>3

(* The values are the answers of the variant they name.                    *)
LEMMA ValuesHold ==
  ASSUME FormTyped
  PROVE  /\ DOMAIN Values = ValueKeys
         /\ Values.distro = Answered.family /\ Values.target = Answered.target
         /\ \A key \in ValueKeys : Holdable(key, Values[key])
         /\ \A key \in {"originalInclude", "originalSources", "originalRelease",
                        "originalCertificates", "indexURL", "originalDistro", "originalTarget"} :
              Values[key] = initial[key]
<1>1. DOMAIN answers = Asked /\ DOMAIN initial = ValueKeys /\ StartsFit(initial)
      /\ \A q \in Asked : Holdable(q.key, answers[q])
  BY DEF FormTyped, StartsFit
<1>2. DOMAIN Values = ValueKeys
  BY <1>1 DEF Values, ValuesOf
<1>3. \A key \in ValueKeys : Holdable(key, initial[key])
  BY <1>1 DEF Holdable, StartsFit, ValueKeys
<1>4. \A key \in ValueKeys : Holdable(key, Values[key])
  <2> SUFFICES ASSUME NEW key \in ValueKeys PROVE Holdable(key, Values[key])
    OBVIOUS
  <2>1. CASE \E q \in Asked : q.key = key /\ AskedFor(q, Answered)
    BY <1>1, <2>1, ValueAnswered
  <2>2. CASE ~\E q \in Asked : q.key = key /\ AskedFor(q, Answered)
    BY <1>3, <2>2, ValueStarted
  <2> QED BY <2>1, <2>2
<1>5. \A q \in Asked : q.key \in {"distro", "target"} => AskedFor(q, Answered)
  <2>1. Answered.family \in Families /\ Answered.target \in Targets
    BY AnsweredFits
  <2>2. \A n \in 1..21 : Fields[n].key \in {"distro", "target"} =>
          Fields[n].families = Families /\ Fields[n].targets = Targets
    <3>1. 1..21 = {1, 2, 3, 4, 5, 6, 7, 8, 9, 10, 11, 12, 13, 14, 15, 16, 17, 18, 19, 20, 21}
      OBVIOUS
    <3> QED BY <3>1, FieldTable DEF Asks
  <2>3. \A q \in Asked : \E n \in 1..21 : q = Fields[n]
    BY AskedAreFields, FieldList DEF ToSet
  <2> QED BY <2>1, <2>2, <2>3 DEF AskedFor
<1>6. /\ Family(initial) = initial.distro /\ Target(initial) = initial.target
      /\ Answered.family = AnswerTo("distro", Family(initial))
      /\ Answered.target = AnswerTo("target", Target(initial))
  BY AnsweredFits DEF Answered
<1>7. Values.distro = Answered.family
  <2>1. CASE \E q \in Asked : q.key = "distro"
    <3> DEFINE p == CHOOSE q \in DOMAIN answers : q.key = "distro"
    <3>1. p \in Asked /\ p.key = "distro"
      BY <1>1, <2>1
    <3>2. AnswerTo("distro", Family(initial)) = answers[p]
      BY <1>1, <2>1 DEF AnswerTo
    <3> HIDE DEF p
    <3>3. Values["distro"] = answers[p]
      BY <1>5, <3>1, ValueAnswered
    <3> QED BY <1>6, <3>2, <3>3
  <2>2. CASE ~\E q \in Asked : q.key = "distro"
    <3>1. Values["distro"] = initial["distro"]
      BY <2>2, ValueStarted DEF ValueKeys
    <3>2. AnswerTo("distro", Family(initial)) = Family(initial)
      BY <1>1, <2>2 DEF AnswerTo
    <3> QED BY <1>6, <3>1, <3>2
  <2> QED BY <2>1, <2>2
<1>8. Values.target = Answered.target
  <2>1. CASE \E q \in Asked : q.key = "target"
    <3> DEFINE p == CHOOSE q \in DOMAIN answers : q.key = "target"
    <3>1. p \in Asked /\ p.key = "target"
      BY <1>1, <2>1
    <3>2. AnswerTo("target", Target(initial)) = answers[p]
      BY <1>1, <2>1 DEF AnswerTo
    <3> HIDE DEF p
    <3>3. Values["target"] = answers[p]
      BY <1>5, <3>1, ValueAnswered
    <3> QED BY <1>6, <3>2, <3>3
  <2>2. CASE ~\E q \in Asked : q.key = "target"
    <3>1. Values["target"] = initial["target"]
      BY <2>2, ValueStarted DEF ValueKeys
    <3>2. AnswerTo("target", Target(initial)) = Target(initial)
      BY <1>1, <2>2 DEF AnswerTo
    <3> QED BY <1>6, <3>1, <3>2
  <2> QED BY <2>1, <2>2
<1>9. \A key \in {"originalInclude", "originalSources", "originalRelease",
                  "originalCertificates", "indexURL", "originalDistro", "originalTarget"} :
        Values[key] = initial[key]
  <2> SUFFICES ASSUME NEW key \in {"originalInclude", "originalSources", "originalRelease",
                  "originalCertificates", "indexURL", "originalDistro", "originalTarget"}
               PROVE  Values[key] = initial[key]
    OBVIOUS
  <2>1. \A q \in Asked : q.key # key
    BY AskedAreFields, FieldKeys
  <2> QED BY <2>1, ValueStarted DEF ValueKeys
<1> QED BY <1>2, <1>4, <1>7, <1>8, <1>9

(* Answers each accepted where it was asked fit the recipe.                *)
LEMMA AcceptedFit ==
  ASSUME FormTyped, \A q \in Asked : AskedFor(q, Answered) => Accepts(q, answers[q])
  PROVE  FitValues(Values)
<1> DEFINE v == Values
           asks(key) == \E q \in ToSet(Fields) : q.key = key /\ AskedFor(q, Answered)
<1>1. /\ v.distro = Answered.family /\ v.target = Answered.target
      /\ \A key \in ValueKeys : Holdable(key, v[key])
      /\ \A key \in {"originalInclude", "originalSources", "originalRelease",
                     "originalCertificates", "indexURL", "originalDistro", "originalTarget"} :
           v[key] = initial[key]
  BY ValuesHold
<1>2. Answered.family \in Families /\ Answered.target \in Targets
  BY AnsweredFits
<1>3. \A key : asks(key) /\ key \notin {"distro", "target"} =>
        \E q \in Asked : /\ q \in ToSet(Fields) /\ q.key = key /\ AskedFor(q, Answered)
                         /\ Accepts(q, v[key])
  BY AskedThere, ValueAnswered
<1> HIDE DEF v
<1>4. \A q \in ToSet(Fields) : q.families \in {Families, Ubuntu, Fedora}
  BY FieldKeys
<1>5. /\ asks("name") /\ asks("user") /\ asks("release")
      /\ asks("timezone") /\ asks("locale") /\ asks("packages") /\ asks("others")
      /\ Answered.target = "disk" => asks("size")
      /\ Answered.family = "ubuntu" => /\ asks("sources") /\ asks("ppas")
                                       /\ asks("python") /\ asks("certificates")
  BY <1>2, SomethingAsks
<1> HIDE DEF asks
<1>6. DOMAIN Offered = {"locale", "timezone"}
  BY OffersAssumption
<1>7. v.name \in Accepted["image"]
  BY <1>3, <1>5, <1>6 DEF Accepts
<1>8. v.user \in Accepted["user"]
  BY <1>3, <1>5, <1>6 DEF Accepts
<1>9. Builds(v.distro, v.release)
  <2>1. PICK q \in Asked : /\ q \in ToSet(Fields) /\ q.key = "release" /\ AskedFor(q, Answered)
                           /\ Accepts(q, v.release)
    BY <1>3, <1>5
  <2>2. \E f \in q.families : Builds(f, v.release)
    BY <1>6, <2>1 DEF Accepts
  <2>3. q.families \in {Ubuntu, Fedora}
    <3>1. 1..21 = {1, 2, 3, 4, 5, 6, 7, 8, 9, 10, 11, 12, 13, 14, 15, 16, 17, 18, 19, 20, 21}
      OBVIOUS
    <3>2. \A n \in 1..21 : Fields[n].key = "release" => Fields[n].families \in {Ubuntu, Fedora}
      BY <3>1, FieldTable DEF Asks
    <3>3. \E n \in 1..21 : q = Fields[n]
      BY <2>1, FieldList DEF ToSet
    <3> QED BY <2>1, <3>2, <3>3
  <2>4. v.distro \in q.families
    BY <1>1, <2>1 DEF AskedFor
  <2> QED BY <2>2, <2>3, <2>4 DEF Ubuntu, Fedora
<1>10. v.timezone \in Accepted["timezone"] /\ v.locale \in Accepted["lang"]
  <2>1. PICK q \in Asked : q.key = "timezone" /\ Accepts(q, v.timezone)
    BY <1>3, <1>5
  <2>2. PICK p \in Asked : p.key = "locale" /\ Accepts(p, v.locale)
    BY <1>3, <1>5
  <2>3. v.timezone \in ToSet(Offered["timezone"]) /\ v.locale \in ToSet(Offered["locale"])
    BY <1>6, <2>1, <2>2 DEF Accepts
  <2> QED BY <2>3, OffersAssumption
<1>11. v.target = "disk" => v.size \in {""} \cup Accepted["size"]
  BY <1>1, <1>3, <1>5, <1>6 DEF Accepts
<1>12. \A key \in ListKeys : IsList(v[key])
  BY <1>1 DEF Holdable, ValueKeys, ListKeys
<1>13. IsList(v.originalInclude)
  BY <1>1 DEF FormTyped, StartsFit
<1>14. ToSet(v.others) \subseteq Accepted[IF v.distro = "fedora" THEN "rpm" ELSE "apt"]
  <2>1. PICK q \in Asked : /\ q \in ToSet(Fields) /\ q.key = "others" /\ AskedFor(q, Answered)
                           /\ Accepts(q, v.others)
    BY <1>3, <1>5
  <2>2. ToSet(v.others) \subseteq Accepted[IF q.families = Fedora THEN "rpm" ELSE "apt"]
    BY <1>6, <2>1 DEF Accepts
  <2>3. q.families \in {Ubuntu, Fedora}
    <3>1. 1..21 = {1, 2, 3, 4, 5, 6, 7, 8, 9, 10, 11, 12, 13, 14, 15, 16, 17, 18, 19, 20, 21}
      OBVIOUS
    <3>2. \A n \in 1..21 : Fields[n].key = "others" => Fields[n].families \in {Ubuntu, Fedora}
      BY <3>1, FieldTable DEF Asks
    <3>3. \E n \in 1..21 : q = Fields[n]
      BY <2>1, FieldList DEF ToSet
    <3> QED BY <2>1, <3>2, <3>3
  <2>4. v.distro \in q.families
    BY <1>1, <2>1 DEF AskedFor
  <2>5. v.distro = "fedora" <=> q.families = Fedora
    BY <2>3, <2>4 DEF Ubuntu, Fedora
  <2> QED BY <2>2, <2>5
<1>15. ASSUME v.distro = "ubuntu" PROVE FitLists(v)
  <2>1. ToSet(v.ppas) \subseteq Ppas
    <3>1. PICK q \in Asked : q.key = "ppas" /\ Accepts(q, v.ppas)
      BY <1>1, <1>3, <1>5, <1>15
    <3> QED BY <1>6, <3>1 DEF Accepts
  <2>2. ToSet(v.python) \subseteq Accepted["python"] /\ OneProjectEach(v.python)
    <3>1. PICK q \in Asked : q.key = "python" /\ Accepts(q, v.python)
      BY <1>1, <1>3, <1>5, <1>15
    <3> QED BY <1>6, <3>1 DEF Accepts
  <2>3. ToSet(v.certificates) \subseteq Accepted["certificate"]
        /\ CertificateFileProblems(Certificates, Spelled, v.certificates) = {}
    <3>1. PICK q \in Asked : q.key = "certificates" /\ Accepts(q, v.certificates)
      BY <1>1, <1>3, <1>5, <1>15
    <3> QED BY <1>6, <3>1 DEF Accepts
  <2>4. /\ IsList(v.originalSources) /\ \A s \in ToSet(v.originalSources) : RowAccepted(s)
        /\ v.indexURL \in {""} \cup Accepted["index"]
        /\ IsList(v.originalCertificates)
        /\ ToSet(v.originalCertificates) \subseteq Accepted["certificate"]
    BY <1>1 DEF FormTyped, StartsFit
  <2> QED BY <1>12, <2>1, <2>2, <2>3, <2>4 DEF FitLists, ListKeys
<1>16. v.distro \in Families /\ v.target \in Targets
  BY <1>1, <1>2
<1>17. FitValues(v)
  BY <1>7, <1>8, <1>9, <1>10, <1>11, <1>12, <1>13, <1>14, <1>15, <1>16 DEF FitValues, ListKeys
<1> QED BY <1>17 DEF v

(* What a recipe that validates says.                                      *)
LEMMA OriginalSays ==
  ASSUME NEW r \in Originals
  PROVE  /\ IsRecipe(r)
         /\ FamilyOf(r.distro) \in Families /\ TargetOf(r) \in Targets
         /\ r.lang \in {""} \cup Accepted["lang"]
         /\ r.timezone \in {""} \cup Accepted["timezone"]
         /\ \A s \in ToSet(r.sources) : RowAccepted(s)
         /\ Repeats(SourceNames(r.sources)) = {}
         /\ PythonIndexURL(r) \in {""} \cup Accepted["index"]
         /\ ToSet(CertificatePaths(r)) \subseteq Accepted["certificate"]
         /\ TargetOf(r) = "wsl" => r.disk = Absent
         /\ TargetOf(r) = "disk" => r.wsl = NoWSL /\ DiskFormats(r) \in {<<>>, <<"qcow2">>}
         /\ FamilyOf(r.distro) = "fedora" =>
              r.sources = <<>> /\ r.python = Absent /\ r.certificates = Absent
         /\ IsList(PythonPackages(r)) /\ IsList(CertificatePaths(r))
<1>1. IsRecipe(r) /\ Validate(r) = {}
  BY OriginalsAssumption
<1>2. /\ ImageProblems(r) = {} /\ TargetProblems(r) = {} /\ UserProblems(r) = {}
      /\ PythonProblems(r) = {} /\ CertificateProblems(r) = {} /\ SourceProblems(r) = {}
      /\ FamilyOf(r.distro) = "fedora" => FedoraUnsupported(r) = {}
  BY <1>1 DEF Validate
<1>3. FamilyOf(r.distro) \in Families
  <2>1. FamilyOf(r.distro) # Absent
    BY <1>2 DEF ImageProblems
  <2> QED BY <2>1 DEF FamilyOf, Families
<1>4. TargetOf(r) \in Targets
  <2>1. TargetOf(r) \notin Targets => TargetProblems(r) = {<<"target", r.target>>}
    BY DEF TargetProblems, Targets
  <2> QED BY <1>2, <2>1
<1>5. r.lang \in {""} \cup Accepted["lang"] /\ r.timezone \in {""} \cup Accepted["timezone"]
  <2>1. CheckGiven("lang", r.lang) = {} /\ CheckGiven("timezone", r.timezone) = {}
    BY <1>2 DEF UserProblems
  <2> QED BY <2>1 DEF CheckGiven, Check
<1>6. \A s \in ToSet(r.sources) : RowAccepted(s)
  <2>1. \A s \in ToSet(r.sources) : Check("source", [name |-> s.name, own |-> s.own]) = {}
    BY <1>2 DEF SourceProblems
  <2> QED BY <2>1 DEF Check, RowAccepted
<1>7. Repeats(SourceNames(r.sources)) = {}
  <2>1. Twice("source", SourceNames(r.sources)) = {}
    BY <1>2 DEF SourceProblems
  <2> QED BY <2>1 DEF Twice
<1>8. PythonIndexURL(r) \in {""} \cup Accepted["index"]
  <2>1. CheckGiven("index", PythonIndexURL(r)) = {}
    BY <1>2 DEF PythonProblems
  <2> QED BY <2>1 DEF CheckGiven, Check
<1>9. ToSet(CertificatePaths(r)) \subseteq Accepted["certificate"]
  <2>1. CheckAll("certificate", CertificatePaths(r)) = {}
    BY <1>2 DEF CertificateProblems
  <2> QED BY <2>1, WereAccepted
<1>10. TargetOf(r) = "wsl" => r.disk = Absent
  BY <1>2 DEF TargetProblems
<1>11. ASSUME TargetOf(r) = "disk" PROVE r.wsl = NoWSL /\ DiskFormats(r) \in {<<>>, <<"qcow2">>}
  <2>1. DiskProblems(r) = {}
    BY <1>2, <1>11 DEF TargetProblems
  <2>2. /\ r.wsl = NoWSL /\ CheckAll("format", DiskFormats(r)) = {}
        /\ Twice("format", WellFormed("format", DiskFormats(r))) = {}
    BY <2>1 DEF DiskProblems
  <2> DEFINE formats == DiskFormats(r)
  <2>3. IsList(formats)
    BY <1>1, NothingHeld DEF IsRecipe, DiskFormats
  <2>4. ToSet(formats) \subseteq {"qcow2"}
    BY <2>2, WereAccepted, FormatsAssumption
  <2>5. Len(formats) \in Nat /\ formats = [n \in 1..Len(formats) |-> formats[n]]
        /\ DOMAIN formats = 1..Len(formats)
    BY <2>3, ListLen
  <2>6. \A n \in 1..Len(formats) : formats[n] = "qcow2"
    BY <2>4, <2>5 DEF ToSet
  <2>7. WellFormed("format", formats) = formats
    <3>1. {n \in DOMAIN formats : formats[n] \in Accepted["format"]} = DOMAIN formats
      BY <2>5, <2>6, FormatsAssumption
    <3> HIDE DEF formats
    <3> QED BY <2>3, <3>1, PickedAll DEF WellFormed
  <2>8. Repeats(formats) = {}
    BY <2>2, <2>7 DEF Twice
  <2> HIDE DEF formats
  <2>9. Len(formats) \in {0, 1}
    <3>1. ASSUME Len(formats) >= 2 PROVE FALSE
      <4>1. 2 \in DOMAIN formats /\ 1 \in 1..(2 - 1) /\ 1 \in 1..Len(formats) /\ 2 \in 1..Len(formats)
        BY <2>5, <3>1
      <4>2. formats[1] = formats[2]
        BY <2>6, <4>1
      <4>3. 2 \in Repeats(formats)
        BY <4>1, <4>2 DEF Repeats
      <4> QED BY <2>8, <4>3
    <3> QED BY <2>5, <3>1
  <2>10. CASE Len(formats) = 0
    <3>1. formats = <<>>
      BY <2>3, <2>10, EmptySeq DEF IsList
    <3> QED BY <2>2, <3>1 DEF formats
  <2>11. CASE Len(formats) = 1
    <3>1. 1..1 = {1}
      OBVIOUS
    <3>2. formats = [n \in 1..1 |-> "qcow2"]
      BY <2>5, <2>6, <2>11
    <3>3. <<"qcow2">> = [n \in 1..1 |-> "qcow2"]
      BY <3>1
    <3> QED BY <2>2, <3>2, <3>3 DEF formats
  <2> QED BY <2>9, <2>10, <2>11
<1>12. FamilyOf(r.distro) = "fedora" =>
         r.sources = <<>> /\ r.python = Absent /\ r.certificates = Absent
  BY <1>2 DEF FedoraUnsupported
<1>13. IsList(PythonPackages(r)) /\ IsList(CertificatePaths(r))
  BY <1>1, NothingHeld DEF IsRecipe, PythonPackages, CertificatePaths, IncludeOf
<1> QED BY <1>1, <1>3, <1>4, <1>5, <1>6, <1>7, <1>8, <1>9, <1>10, <1>11, <1>12, <1>13

(* The PPAs of a list of sources, one each.                                *)
LEMMA PpasList ==
  ASSUME NEW list, IsList(list)
  PROVE  /\ IsList(PpasIn(list)) /\ Len(PpasIn(list)) = Len(list)
         /\ \A n \in 1..Len(list) : PpasIn(list)[n] = PpaOf[list[n].own]
<1>1. Len(list) \in Nat /\ DOMAIN list = 1..Len(list)
  BY ListLen
<1>2. PpasIn(list) = [n \in 1..Len(list) |-> PpaOf[list[n].own]]
  BY <1>1 DEF PpasIn
<1>3. PpasIn(list) = [n \in 1..Len(list) |-> PpasIn(list)[n]]
  BY <1>2
<1> QED BY <1>1, <1>2, <1>3, IsAList

(* What a recipe's sources are split into are lists.                       *)
LEMMA SplitSourcesList ==
  ASSUME NEW list, IsList(list)
  PROVE  IsList(SplitSources(list)[1]) /\ IsList(SplitSources(list)[2])
<1> DEFINE entries == {n \in DOMAIN list : IsEntry(list[n])}
           ppas == {n \in DOMAIN list : IsPPA(list[n])} \ entries
<1>1. SplitSources(list)[1] = SourceNames(Picked(list, entries))
      /\ SplitSources(list)[2] = PpasIn(Picked(list, ppas))
  BY DEF SplitSources
<1>2. entries \subseteq DOMAIN list /\ ppas \subseteq DOMAIN list
  OBVIOUS
<1> HIDE DEF entries, ppas
<1>3. IsList(Picked(list, entries)) /\ IsList(Picked(list, ppas))
  BY <1>2, PickedList
<1>4. IsList(PpasIn(Picked(list, ppas)))
  BY <1>3, PpasList
<1> QED BY <1>1, <1>3, <1>4, NamesList

(* What a recipe's packages are split into: the catalog's and the rest,    *)
(* all of them and no others.                                              *)
LEMMA SplitPackagesList ==
  ASSUME NEW family, NEW list, IsList(list)
  PROVE  /\ IsList(SplitPackages(family, list)[1]) /\ IsList(SplitPackages(family, list)[2])
         /\ ToSet(SplitPackages(family, list)[1]) \cup ToSet(SplitPackages(family, list)[2])
              = ToSet(list)
         /\ ToSet(SplitPackages(family, list)[1]) = {n \in ToSet(list) : InCatalog(family, n)}
<1> DEFINE taken == {n \in DOMAIN list : InCatalog(family, list[n])}
           others == DOMAIN list \ taken
<1>1. SplitPackages(family, list)[1] = Picked(list, taken)
      /\ SplitPackages(family, list)[2] = Picked(list, others)
  BY DEF SplitPackages
<1>2. taken \subseteq DOMAIN list /\ others \subseteq DOMAIN list
      /\ taken \cup others = DOMAIN list
  OBVIOUS
<1>3. /\ IsList(Picked(list, taken)) /\ IsList(Picked(list, others))
      /\ ToSet(Picked(list, taken)) = {list[p] : p \in taken}
      /\ ToSet(Picked(list, others)) = {list[p] : p \in others}
  <2> HIDE DEF taken, others
  <2> QED BY <1>2, PickedList
<1>4. {list[p] : p \in taken} = {n \in ToSet(list) : InCatalog(family, n)}
  BY DEF ToSet
<1>5. {list[p] : p \in taken} \cup {list[p] : p \in others} = ToSet(list)
  BY DEF ToSet
<1> HIDE DEF taken, others
<1> QED BY <1>1, <1>3, <1>4, <1>5

(* What a recipe's certificates are split into.                            *)
LEMMA SplitCertificatesList ==
  ASSUME NEW list, IsList(list)
  PROVE  /\ IsList(SplitCertificates(list)[1]) /\ IsList(SplitCertificates(list)[2])
         /\ ToSet(SplitCertificates(list)[2]) \subseteq ToSet(list)
<1> DEFINE exotic == {n \in DOMAIN list : list[n] \in Exotic}
           simple == DOMAIN list \ exotic
<1>1. SplitCertificates(list)[1] = Picked(list, simple)
      /\ SplitCertificates(list)[2] = Picked(list, exotic)
  BY DEF SplitCertificates
<1>2. simple \subseteq DOMAIN list /\ exotic \subseteq DOMAIN list
  OBVIOUS
<1> HIDE DEF exotic, simple
<1>3. /\ IsList(Picked(list, simple)) /\ IsList(Picked(list, exotic))
      /\ ToSet(Picked(list, exotic)) = {list[p] : p \in exotic}
  BY <1>2, PickedList
<1>4. {list[p] : p \in exotic} \subseteq ToSet(list)
  BY <1>2 DEF ToSet
<1> QED BY <1>1, <1>3, <1>4

(* An edit starts from answers its questions can hold.                     *)
LEMMA StartsFromRecipe ==
  ASSUME NEW r \in Originals
  PROVE  StartsFit(FromRecipe(r))
<1> DEFINE family   == FamilyOf(r.distro)
           packages == SplitPackages(family, r.include)
           sources  == SplitSources(r.sources)
           paths    == SplitCertificates(CertificatePaths(r))
           v == FromRecipe(r)
<1>1. /\ DOMAIN v = ValueKeys
      /\ v.distro = family /\ v.target = TargetOf(r)
      /\ v.packages = packages[1] /\ v.others = packages[2] /\ v.python = PythonPackages(r)
      /\ v.sources = sources[1] /\ v.ppas = sources[2] /\ v.certificates = paths[1]
      /\ v.originalInclude = r.include /\ v.originalSources = r.sources
      /\ v.indexURL = PythonIndexURL(r) /\ v.originalCertificates = paths[2]
  BY DEF FromRecipe, ValueKeys
<1>2. /\ IsRecipe(r) /\ family \in Families /\ TargetOf(r) \in Targets
      /\ \A s \in ToSet(r.sources) : RowAccepted(s)
      /\ PythonIndexURL(r) \in {""} \cup Accepted["index"]
      /\ ToSet(CertificatePaths(r)) \subseteq Accepted["certificate"]
      /\ IsList(PythonPackages(r)) /\ IsList(CertificatePaths(r))
  BY OriginalSays
<1>3. IsList(r.include) /\ IsList(r.sources)
  BY <1>2 DEF IsRecipe
<1>4. IsList(packages[1]) /\ IsList(packages[2])
  BY <1>3, SplitPackagesList
<1>5. IsList(sources[1]) /\ IsList(sources[2])
  BY <1>3, SplitSourcesList
<1>6. IsList(paths[1]) /\ IsList(paths[2]) /\ ToSet(paths[2]) \subseteq Accepted["certificate"]
  BY <1>2, SplitCertificatesList
<1> HIDE DEF v, family, packages, sources, paths
<1>7. \A key \in ListKeys : IsList(v[key])
  BY <1>1, <1>2, <1>4, <1>5, <1>6 DEF ListKeys
<1>8. StartsFit(v)
  BY <1>1, <1>2, <1>3, <1>6, <1>7 DEF StartsFit
<1> QED BY <1>8 DEF v

(* And so does init, whatever its flags choose.                            *)
LEMMA StartsFromDefaults ==
  ASSUME NEW fix \in FixedChoices, NEW family \in Families, NEW target \in Targets
  PROVE  StartsFit(InitValues(fix, family, target))
<1>1. /\ DOMAIN Defaults = ValueKeys
      /\ Defaults.distro \in Families /\ Defaults.target \in Targets
      /\ \A key \in ListKeys : Defaults[key] = <<>>
      /\ Defaults.originalInclude = <<>> /\ Defaults.originalSources = <<>>
      /\ Defaults.indexURL = "" /\ Defaults.originalCertificates = <<>>
  BY DEF Defaults, ValueKeys, Families, Targets, ListKeys
<1>2. StartsFit(Defaults)
  <2>1. \A key \in ListKeys : IsList(Defaults[key])
    BY <1>1, NothingHeld
  <2> HIDE DEF Defaults
  <2> QED BY <1>1, <2>1, NothingHeld DEF StartsFit
<1> DEFINE taken == IF fix.family THEN ForFamily(Defaults, family) ELSE Defaults
           v == IF fix.target THEN [taken EXCEPT !.target = target] ELSE taken
<1>3. StartsFit(ForFamily(Defaults, family))
  <2> DEFINE f == ForFamily(Defaults, family)
             switched == CatalogSelections(family, Defaults)
  <2>1. IsList(switched)
    <3>1. IsList(Defaults.packages)
      BY <1>1, NothingHeld DEF ListKeys
    <3> QED BY <3>1, CatalogIsAccepted
  <2>2. /\ DOMAIN f = DOMAIN Defaults /\ f.distro = family /\ f.packages = switched
        /\ \A key \in ValueKeys \ {"distro", "release", "packages"} : f[key] = Defaults[key]
    <3> HIDE DEF Defaults
    <3> QED BY <1>1 DEF ForFamily, ValueKeys
  <2> HIDE DEF f, switched, Defaults
  <2>3. \A key \in ListKeys : IsList(f[key])
    BY <1>2, <2>1, <2>2 DEF StartsFit, ListKeys, ValueKeys
  <2>4. StartsFit(f)
    BY <1>2, <2>2, <2>3 DEF StartsFit, ValueKeys
  <2> QED BY <2>4 DEF f
<1>4. StartsFit(taken)
  BY <1>2, <1>3
<1> HIDE DEF taken
<1>5. StartsFit(v)
  <2>1. CASE fix.target
    <3>1. /\ DOMAIN v = DOMAIN taken /\ v.target = target
          /\ \A key \in ValueKeys \ {"target"} : v[key] = taken[key]
      BY <1>4, <2>1 DEF StartsFit, ValueKeys
    <3> HIDE DEF v
    <3>2. \A key \in ListKeys : IsList(v[key])
      BY <1>4, <3>1 DEF StartsFit, ListKeys, ValueKeys
    <3> QED BY <1>4, <3>1, <3>2 DEF StartsFit, ValueKeys
  <2>2. CASE ~fix.target
    BY <1>4, <2>2
  <2> QED BY <2>1, <2>2
<1>6. InitValues(fix, family, target) = v
  BY DEF InitValues, taken
<1> QED BY <1>5, <1>6

(* Each question starts from an answer its widget can hold, the ones of    *)
(* the other family included.                                              *)
LEMMA StartIsHoldable ==
  ASSUME NEW values, StartsFit(values), NEW q \in ToSet(Fields)
  PROVE  Holdable(q.key, Start(q, values))
<1>1. Family(values) = values.distro /\ values.distro \in Families
  BY FamilyIs DEF StartsFit, Family
<1>2. q.key \in ValueKeys
  BY FieldKeys DEF ValueKeys
<1>3. \A key \in ValueKeys : Holdable(key, values[key])
  BY DEF StartsFit, Holdable, ValueKeys
<1>4. CASE q.key \in DOMAIN Offered
  BY <1>4, OffersAssumption DEF Holdable, ListKeys
<1>5. CASE q.key \notin DOMAIN Offered /\ Family(values) \in q.families
  <2>1. Start(q, values) = values[q.key]
    BY <1>5 DEF Start
  <2> QED BY <1>2, <1>3, <2>1
<1>6. CASE q.key \notin DOMAIN Offered /\ Family(values) \notin q.families
  <2> DEFINE family == CHOOSE f \in q.families : TRUE
             switched == ForFamily(values, family)
  <2>1. q.key \notin {"distro", "target"}
    BY <1>1, <1>6, FieldKeys
  <2>2. family \in Families
    <3>1. q.families \in {Families, Ubuntu, Fedora}
      BY FieldKeys
    <3> QED BY <3>1 DEF Families, Ubuntu, Fedora
  <2>3. IsList(values.packages) /\ DOMAIN values = ValueKeys
    BY DEF StartsFit, ListKeys
  <2>4. IsList(CatalogSelections(family, values))
    <3> HIDE DEF family
    <3> QED BY <2>2, <2>3, CatalogIsAccepted
  <2>5. Start(q, values) = switched[q.key]
    BY <1>6 DEF Start
  <2> HIDE DEF family
  <2>6. /\ switched.packages = CatalogSelections(family, values)
        /\ \A key \in ValueKeys \ {"distro", "release", "packages"} : switched[key] = values[key]
    BY <2>3 DEF ForFamily, ValueKeys
  <2> HIDE DEF switched
  <2>7. CASE q.key \in ListKeys
    <3>1. IsList(switched[q.key])
      BY <2>4, <2>6, <2>7 DEF StartsFit, ListKeys, ValueKeys
    <3> QED BY <2>1, <2>5, <3>1 DEF Holdable
  <2>8. CASE q.key \notin ListKeys
    BY <2>1, <2>8 DEF Holdable
  <2> QED BY <2>7, <2>8
<1> QED BY <1>4, <1>5, <1>6

(* A set of natural numbers has a least one.                               *)
LEMMA LeastExists ==
  ASSUME NEW T \in SUBSET Nat, T # {}
  PROVE  \E m \in T : \A k \in T : m <= k
<1>1. PICK m \in T : \A k \in T : ~(<<k, m>> \in OpToRel(<, Nat))
  <2>1. IsWellFoundedOn(OpToRel(<, Nat), Nat)
    BY NatLessThanWellFounded
  <2> QED BY <2>1, WFMin
<1>2. \A k \in T : <<k, m>> \in Nat \X Nat /\ (k < m => <<k, m>> \in OpToRel(<, Nat))
  BY DEF OpToRel
<1>3. \A k \in T : ~(k < m)
  BY <1>1, <1>2, Zenon
<1> QED BY <1>3

(* The form's invariant holds at first.                                    *)
LEMMA FormStarts == ASSUME FormInit PROVE FormInv
<1>1. /\ stage = "pages" /\ at = 1 /\ problems = FALSE /\ result = Absent
      /\ given = 0 /\ plain \in BOOLEAN
      /\ answers = [q \in FieldsFor(VariantOf(initial), fixed) |-> Start(q, initial)]
  BY DEF FormInit
<1>2. PICK c \in Commands :
        /\ original = c.original
        /\ fixed = IF plain THEN [family |-> TRUE, target |-> TRUE] ELSE c.fixed
        /\ IF c.original # Absent THEN initial = FromRecipe(c.original)
           ELSE \E f \in Families, t \in Targets : initial = InitValues(c.fixed, f, t)
  BY DEF FormInit
<1>3. c.original \in Originals \cup {Absent} /\ c.fixed \in FixedChoices
  <2>1. CASE \E r \in Originals, f \in {[family |-> FALSE, target |-> FALSE]} :
               c = [original |-> r, fixed |-> f]
    <3>1. PICK r \in Originals, f \in {[family |-> FALSE, target |-> FALSE]} :
            c = [original |-> r, fixed |-> f]
      BY <2>1
    <3>2. f = [family |-> FALSE, target |-> FALSE]
      OBVIOUS
    <3>3. f \in FixedChoices
      BY <3>2 DEF FixedChoices
    <3> QED BY <3>1, <3>3
  <2>2. CASE c \in {[original |-> Absent, fixed |-> f] : f \in FixedChoices}
    <3>1. PICK f \in FixedChoices : c = [original |-> Absent, fixed |-> f]
      BY <2>2
    <3> QED BY <3>1
  <2> QED BY <2>1, <2>2 DEF Commands
<1>4. fixed \in FixedChoices
  BY <1>2, <1>3 DEF FixedChoices
<1>5. StartsFit(initial)
  <2>1. CASE c.original # Absent
    BY <1>2, <1>3, <2>1, StartsFromRecipe
  <2>2. CASE c.original = Absent
    BY <1>2, <1>3, <2>2, StartsFromDefaults
  <2> QED BY <2>1, <2>2
<1>6. original \in Originals \cup {Absent} /\ (original # Absent => initial = FromRecipe(original))
  BY <1>2, <1>3
<1>7. DOMAIN answers = Asked
  BY <1>1 DEF Asked
<1>8. \A q \in Asked : Holdable(q.key, answers[q])
  <2>1. \A q \in Asked : answers[q] = Start(q, initial) /\ q \in ToSet(Fields)
    BY <1>1, AskedAreFields DEF Asked
  <2> QED BY <1>5, <2>1, StartIsHoldable
<1>9. 0 \in 0..MaxAnswers
  BY CertificatesAssumption
<1>10. FormTyped
  <2>1. /\ stage \in FormStages /\ plain \in BOOLEAN /\ problems \in BOOLEAN
        /\ stage = "pages" /\ stage \notin {"summary", "written", "refused"}
    BY <1>1 DEF FormStages
  <2>2. given \in 0..MaxAnswers /\ at \in 1..22 /\ at \in 1..7
    BY <1>1, <1>9
  <2>3. result = Absent
    BY <1>1
  <2> QED BY <1>4, <1>5, <1>6, <1>7, <1>8, <2>1, <2>2, <2>3, Zenon DEF FormTyped
<1>11. PassedIsAccepted
  BY <1>1 DEF PassedIsAccepted, Passed
<1> QED BY <1>10, <1>11 DEF FormInv

(* The pages before this one are as they were when another answer is given *)
(* on it: only the first page's choose the variant.                        *)
LEMMA AnswerElsewhere ==
  ASSUME FormTyped, NEW q \in Asked, NEW a, Give(q, a), UNCHANGED <<initial, fixed>>,
         q.key \notin {"distro", "target"}
  PROVE  /\ Answered' = Answered
         /\ \A p : Shown(p)' = Shown(p)
<1>1. DOMAIN answers = Asked /\ answers' = [answers EXCEPT ![q] = a]
  BY DEF FormTyped, Give
<1>2. DOMAIN answers' = DOMAIN answers /\ \A p \in DOMAIN answers : p # q => answers'[p] = answers[p]
  BY <1>1
<1>3. ASSUME NEW key \in {"distro", "target"}, NEW default
      PROVE  AnswerTo(key, default)' = AnswerTo(key, default)
  <2>1. CASE \E p \in DOMAIN answers : p.key = key
    <3> DEFINE p == CHOOSE x \in DOMAIN answers : x.key = key
    <3>1. p \in DOMAIN answers /\ p.key = key
      BY <2>1
    <3>2. AnswerTo(key, default) = answers[p] /\ AnswerTo(key, default)' = answers'[p]
      BY <1>2, <2>1 DEF AnswerTo
    <3> HIDE DEF p
    <3> QED BY <1>2, <3>1, <3>2
  <2>2. CASE ~\E p \in DOMAIN answers : p.key = key
    BY <1>2, <2>2 DEF AnswerTo
  <2> QED BY <2>1, <2>2
<1>4. Answered' = Answered
  BY <1>3 DEF Answered
<1>5. Asked' = Asked /\ Variants' = Variants
  BY DEF Asked, Variants
<1>6. \A p : Groups(p)' = Groups(p)
  BY <1>5 DEF Groups, OnPage, IsShared
<1>7. \A p : Shown(p)' = Shown(p)
  BY <1>4, <1>6 DEF Shown
<1> QED BY <1>4, <1>7

(* What is tried as an answer the widget can hold.                         *)
LEMMA TriedIsHoldable ==
  ASSUME NEW q, NEW a \in Tries[q.key] PROVE Holdable(q.key, a)
BY TriesAssumption DEF Holdable

(* An answer given keeps the types.                                        *)
LEMMA GiveTyped ==
  ASSUME FormTyped, NEW q \in Asked, NEW a \in Tries[q.key], Give(q, a),
         UNCHANGED <<stage, plain, fixed, initial, original, result>>,
         stage = "pages", problems' \in BOOLEAN, at' \in 1..22, ~plain => at' \in 1..7
  PROVE  FormTyped'
<1>1. given' \in 0..MaxAnswers
  BY CertificatesAssumption DEF Give, FormTyped
<1>2. Asked' = Asked
  BY DEF Asked
<1>3. DOMAIN answers' = Asked
  BY DEF FormTyped, Give
<1>4. \A p \in Asked : Holdable(p.key, answers'[p])
  <2>1. \A p \in Asked : answers'[p] = IF p = q THEN a ELSE answers[p]
    BY DEF FormTyped, Give
  <2> QED BY <2>1, TriedIsHoldable DEF FormTyped
<1>5. StartsFit(initial)' /\ stage' = "pages"
  BY DEF FormTyped
<1> QED BY <1>1, <1>2, <1>3, <1>4, <1>5 DEF FormTyped

(* An answer given on a page leaves those passed as accepted.              *)
LEMMA GiveAnswerInv == ASSUME FormInv, GiveAnswer PROVE FormInv'
<1>1. PICK q \in Shown(Pages[at]) : \E a \in Tries[q.key] \ {answers[q]} :
        Accepts(q, a) /\ Give(q, a)
  BY DEF GiveAnswer
<1>2. PICK a \in Tries[q.key] : Give(q, a)
  BY <1>1
<1>3. q \in Asked /\ q.page = Pages[at]
  BY ShownAreAsked
<1>4. /\ stage = "pages" /\ ~plain /\ FormTyped
      /\ UNCHANGED <<stage, plain, fixed, initial, original, at, problems, result>>
  BY DEF GiveAnswer, FormInv
<1>5. at \in 1..7 /\ at \in 1..22 /\ problems \in BOOLEAN
  BY <1>4 DEF FormTyped
<1>6. FormTyped'
  BY <1>2, <1>3, <1>4, <1>5, GiveTyped
<1>7. PassedIsAccepted'
  <2> SUFFICES ASSUME NEW p \in 1..7, Passed(p)', NEW x \in Shown(Pages[p])'
               PROVE  Accepts(x, answers'[x])
    BY DEF PassedIsAccepted
  <2>1. p < at /\ Passed(p)
    BY <1>4 DEF Passed
  <2>2. Pages[p] # Pages[at] /\ at # 1
    BY <1>5, <2>1 DEF Pages
  <2>3. Pages[at] # "Image"
    BY <1>5, <2>2 DEF Pages
  <2>4. q.key \notin {"distro", "target"}
    BY <1>3, <2>3, AskedAreFields, FieldKeys
  <2>5. x \in Shown(Pages[p])
    BY <1>2, <1>3, <1>4, <2>4, AnswerElsewhere
  <2>6. x \in Asked /\ x.page = Pages[p]
    BY <2>5, ShownAreAsked
  <2>7. answers'[x] = answers[x]
    BY <1>2, <1>3, <1>4, <2>2, <2>6 DEF Give, FormTyped
  <2>8. Accepts(x, answers[x])
    BY <2>1, <2>5 DEF FormInv, PassedIsAccepted
  <2> QED BY <2>7, <2>8
<1> QED BY <1>6, <1>7 DEF FormInv

(* Nothing the questions are chosen by changes.                            *)
LEMMA SameQuestions ==
  ASSUME UNCHANGED <<fixed, initial, answers>>
  PROVE  /\ Asked' = Asked /\ Answered' = Answered /\ Values' = Values
         /\ \A p : Shown(p)' = Shown(p)
         /\ \A q, a : Accepts(q, a)' = Accepts(q, a)
BY DEF Asked, Answered, AnswerTo, Values, ValuesOf, Shown, Groups, OnPage, IsShared, Variants

(* A page is passed when all it shows is accepted, and a page skipped      *)
(* shows nothing.                                                          *)
LEMMA NextPageInv == ASSUME FormInv, NextPage PROVE FormInv'
<1> DEFINE later == PagesFrom(at + 1, Len(Pages))
<1>1. /\ stage = "pages" /\ ~plain /\ FormTyped /\ PassedIsAccepted
      /\ \A q \in Shown(Pages[at]) : Accepts(q, answers[q])
      /\ UNCHANGED <<plain, fixed, initial, original, answers, problems, given, lastName>>
      /\ IF later = {} THEN stage' = "summary" /\ at' = at /\ result' = ToRecipe(Values)
         ELSE at' = Min(later) /\ UNCHANGED <<stage, result>>
  BY DEF NextPage, FormInv
<1>2. /\ Asked' = Asked /\ Values' = Values
      /\ \A p : Shown(p)' = Shown(p)
  BY <1>1, SameQuestions
<1>3. at \in 1..7 /\ Len(Pages) = 7
  BY <1>1 DEF FormTyped, Pages
<1>4. later = {p \in (at + 1)..7 : Shown(Pages[p]) # {}}
  BY <1>3 DEF PagesFrom
<1>5. later # {} => Min(later) \in later /\ \A p \in later : Min(later) <= p
  <2>1. later \in SUBSET Nat
    BY <1>3, <1>4
  <2> HIDE DEF later
  <2> SUFFICES ASSUME later # {} PROVE Min(later) \in later /\ \A p \in later : Min(later) <= p
    OBVIOUS
  <2>2. PICK m \in later : \A k \in later : m <= k
    BY <2>1, LeastExists
  <2> QED BY <2>2 DEF Min
<1> HIDE DEF later
<1>6. FormTyped'
  <2>1. CASE later = {}
    BY <1>1, <1>2, <1>3, <2>1 DEF FormTyped, FormStages
  <2>2. CASE later # {}
    <3>1. at' \in 1..7
      <4>1. at' = Min(later) /\ Min(later) \in later
        BY <1>1, <1>5, <2>2
      <4>2. \A p \in later : p \in (at + 1)..7
        BY <1>4
      <4>3. Min(later) \in (at + 1)..7
        BY <4>1, <4>2
      <4> QED BY <1>3, <4>1, <4>3
    <3> QED BY <1>1, <1>2, <2>2, <3>1 DEF FormTyped
  <2> QED BY <2>1, <2>2
<1>7. PassedIsAccepted'
  <2> SUFFICES ASSUME NEW p \in 1..7, Passed(p)', NEW q \in Shown(Pages[p])
               PROVE  Accepts(q, answers[q])
    BY <1>1, <1>2 DEF PassedIsAccepted
  <2>1. CASE p < at
    BY <1>1, <2>1 DEF PassedIsAccepted, Passed
  <2>2. CASE p = at
    BY <1>1, <2>2
  <2>3. CASE p > at
    <3>1. p \in later
      BY <1>3, <1>4, <2>3
    <3>2. stage' = "pages" /\ p < at' /\ at' = Min(later)
      BY <1>1, <3>1 DEF Passed
    <3>3. p \in Int /\ Min(later) \in Int /\ Min(later) <= p
      <4>1. Min(later) \in later /\ Min(later) <= p
        BY <1>5, <3>1
      <4>2. \A x \in later : x \in (at + 1)..7
        BY <1>4
      <4>3. Min(later) \in (at + 1)..7
        BY <4>1, <4>2
      <4> QED BY <1>3, <4>1, <4>3
    <3> QED BY <3>2, <3>3
  <2> QED BY <1>3, <2>1, <2>2, <2>3
<1> QED BY <1>6, <1>7 DEF FormInv

(* Going back takes nothing of what was passed away.                       *)
LEMMA PreviousPageInv == ASSUME FormInv, PreviousPage PROVE FormInv'
<1> DEFINE earlier == PagesFrom(1, at - 1)
<1>1. /\ stage = "pages" /\ ~plain /\ FormTyped /\ PassedIsAccepted
      /\ UNCHANGED <<stage, plain, fixed, initial, original, answers, problems, result,
                     given, lastName>>
      /\ earlier # {} /\ at' = Max(earlier)
  BY DEF PreviousPage, FormInv
<1>2. /\ Asked' = Asked /\ Values' = Values
      /\ \A p : Shown(p)' = Shown(p)
  BY <1>1, SameQuestions
<1>3. at \in 1..7
  BY <1>1 DEF FormTyped
<1>4. earlier \subseteq 1..(at - 1)
  BY DEF PagesFrom
<1>5. Max(earlier) \in earlier
  <2>1. {7 - p : p \in earlier} \in SUBSET Nat /\ {7 - p : p \in earlier} # {}
    BY <1>1, <1>3, <1>4
  <2>2. PICK m \in {7 - p : p \in earlier} : \A k \in {7 - p : p \in earlier} : m <= k
    BY <2>1, LeastExists
  <2>3. PICK p \in earlier : m = 7 - p
    BY <2>2
  <2>4. \A x \in earlier : p >= x
    BY <1>3, <1>4, <2>2, <2>3
  <2> HIDE DEF earlier
  <2> QED BY <2>4 DEF Max
<1>6. at' \in 1..7 /\ at' < at
  BY <1>1, <1>3, <1>4, <1>5
<1>7. FormTyped'
  BY <1>1, <1>2, <1>6 DEF FormTyped
<1>8. PassedIsAccepted'
  <2> SUFFICES ASSUME NEW p \in 1..7, Passed(p)', NEW q \in Shown(Pages[p])
               PROVE  Accepts(q, answers[q])
    BY <1>1, <1>2 DEF PassedIsAccepted
  <2>1. p < at
    BY <1>1, <1>3, <1>6 DEF Passed
  <2> QED BY <1>1, <2>1 DEF PassedIsAccepted, Passed
<1> QED BY <1>7, <1>8 DEF FormInv

(* A line answers a question there is.                                     *)
LEMMA AnswerLineInv == ASSUME FormInv, AnswerLine PROVE FormInv'
<1> DEFINE places == {n \in DOMAIN Fields : Fields[n] \in Asked /\ AskedFor(Fields[n], Answered)}
           q == PlainQuestions[at]
<1>1. /\ stage = "pages" /\ plain /\ FormTyped /\ at <= Len(PlainQuestions) /\ at' = at + 1
      /\ UNCHANGED <<stage, plain, fixed, initial, original, result>>
      /\ \/ /\ UNCHANGED <<answers, given, lastName>>
            /\ problems' = (problems \/ ~Accepts(q, answers[q]))
         \/ \E a \in Tries[q.key] \ {answers[q]} :
              Give(q, a) /\ problems' = (problems \/ ~Accepts(q, a))
  BY DEF AnswerLine, FormInv
<1>2. /\ Len(PlainQuestions) \in 0..21 /\ \A n \in 1..Len(PlainQuestions) : PlainQuestions[n] \in Asked
  <2>1. places \subseteq DOMAIN Fields /\ \A n \in places : Fields[n] \in Asked
    OBVIOUS
  <2>9. IsList(Fields)
    BY FieldList
  <2> HIDE DEF places, q
  <2>2. /\ Len(Picked(Fields, places)) = Cardinality(places)
        /\ Cardinality(places) \in 0..Len(Fields)
        /\ \A n \in 1..Cardinality(places) :
             /\ Ranked(places, n) \in places
             /\ Picked(Fields, places)[n] = Fields[Ranked(places, n)]
    <3>1. ASSUME NEW taken, taken \subseteq DOMAIN Fields
          PROVE  /\ Len(Picked(Fields, taken)) = Cardinality(taken)
                 /\ Cardinality(taken) \in 0..Len(Fields)
                 /\ \A n \in 1..Cardinality(taken) :
                      /\ Ranked(taken, n) \in taken
                      /\ Picked(Fields, taken)[n] = Fields[Ranked(taken, n)]
      BY <2>9, <3>1, PickedList
    <3> QED BY <2>1, <3>1
  <2>3. PlainQuestions = Picked(Fields, places)
    BY DEF PlainQuestions, places
  <2> QED BY <2>1, <2>2, <2>3, FieldList
<1>3. at \in 1..22 /\ at \in 1..Len(PlainQuestions) /\ at' \in 1..22
  <2> DEFINE size == Len(PlainQuestions)
  <2>1. at \in 1..22 /\ size \in 0..21 /\ at <= size /\ at' = at + 1
    BY <1>1, <1>2 DEF FormTyped
  <2> HIDE DEF size
  <2>2. at \in 1..size /\ at' \in 1..22
    BY <2>1
  <2> QED BY <2>1, <2>2 DEF size
<1>4. q \in Asked
  BY <1>2, <1>3
<1> HIDE DEF q, places
<1>5. problems' \in BOOLEAN
  BY <1>1, Zenon DEF FormTyped
<1>6. FormTyped'
  <2>1. CASE UNCHANGED <<answers, given, lastName>>
    <3>1. Asked' = Asked
      BY <1>1, <2>1, SameQuestions
    <3> QED BY <1>1, <1>3, <1>5, <2>1, <3>1 DEF FormTyped
  <2>2. CASE \E a \in Tries[q.key] \ {answers[q]} : Give(q, a)
    <3>1. PICK a \in Tries[q.key] : Give(q, a)
      BY <2>2
    <3> QED BY <1>1, <1>3, <1>4, <1>5, <3>1, GiveTyped
  <2> QED BY <1>1, <2>1, <2>2
<1>7. PassedIsAccepted'
  BY <1>1 DEF PassedIsAccepted, Passed
<1> QED BY <1>6, <1>7 DEF FormInv

(* The ends of the form keep the answers and the recipe.                   *)
LEMMA EndsInv ==
  ASSUME FormInv, LinesEnd \/ Confirm \/ Decline \/ Abort PROVE FormInv'
<1>1. FormTyped /\ PassedIsAccepted
      /\ UNCHANGED <<plain, fixed, initial, original, answers, at, problems, given, lastName>>
  BY DEF FormInv, LinesEnd, Confirm, Decline, Abort
<1>2. /\ Asked' = Asked /\ Values' = Values
      /\ \A p : Shown(p)' = Shown(p)
  BY <1>1, SameQuestions
<1>3. /\ stage' \in FormStages
      /\ stage' # "pages"
      /\ stage' \in {"summary", "written", "refused"} => result' = ToRecipe(Values)
  BY <1>1 DEF FormTyped, FormStages, LinesEnd, Confirm, Decline, Abort
<1>4. FormTyped'
  BY <1>1, <1>2, <1>3 DEF FormTyped
<1>5. PassedIsAccepted'
  <2> SUFFICES ASSUME NEW p \in 1..7, Passed(p)', NEW q \in Shown(Pages[p])
               PROVE  Accepts(q, answers[q])
    BY <1>1, <1>2 DEF PassedIsAccepted
  <2>1. Passed(p)
    BY <1>1, <1>3 DEF Passed, LinesEnd, Confirm, Decline, Abort
  <2> QED BY <1>1, <2>1 DEF PassedIsAccepted
<1> QED BY <1>4, <1>5 DEF FormInv

(* Every step of the form keeps its invariant.                             *)
LEMMA FormStepInv == ASSUME FormInv, [FormNext]_formVars PROVE FormInv'
<1>1. CASE UNCHANGED formVars
  <2>1. /\ UNCHANGED <<fixed, initial, answers>>
        /\ UNCHANGED <<stage, plain, original, at, problems, result, given, lastName>>
    BY <1>1 DEF formVars
  <2>2. /\ Asked' = Asked /\ Values' = Values
        /\ \A p : Shown(p)' = Shown(p)
    BY <2>1, SameQuestions
  <2>3. FormTyped'
    BY <2>1, <2>2 DEF FormInv, FormTyped
  <2>4. PassedIsAccepted'
    BY <2>1, <2>2 DEF FormInv, PassedIsAccepted, Passed
  <2> QED BY <2>3, <2>4 DEF FormInv
<1>2. CASE FormNext
  BY <1>2, GiveAnswerInv, NextPageInv, PreviousPageInv, AnswerLineInv, EndsInv DEF FormNext
<1> QED BY <1>1, <1>2

(* The questions keep their types, what was passed was accepted, and the   *)
(* recipe is the answers'.                                                 *)
THEOREM FormInvariant == FormSpec => []FormInv
<1>1. FormInit => FormInv
  BY FormStarts
<1>2. FormInv /\ [FormNext]_formVars => FormInv'
  BY FormStepInv
<1> QED BY <1>1, <1>2, PTL DEF FormSpec

(* The form's variables have their types, and the recipe its parts         *)
(* (form.go, values.go).                                                   *)
THEOREM FormTypeOKHolds == FormSpec => []FormTypeOK
<1>1. FormInv => FormTypeOK
  <2> SUFFICES ASSUME FormInv PROVE FormTypeOK
    OBVIOUS
  <2>1. stage \in {"summary", "written", "refused"} => DOMAIN result = DOMAIN AnsweredBy
    BY ValuesHold, AnsweredFits, RecipeParts DEF FormInv, FormTyped
  <2> QED BY <2>1, FieldList DEF FormInv, FormTyped, FormTypeOK
<1> QED BY <1>1, FormInvariant, PTL

(* What the whole form accepted fits its recipe.                           *)
LEMMA PassedFits ==
  ASSUME FormInv, ~plain, stage \in {"summary", "written", "refused"}
  PROVE  FitValues(Values)
<1>1. FormTyped /\ \A p \in 1..7 : \A q \in Shown(Pages[p]) : Accepts(q, answers[q])
  BY DEF FormInv, PassedIsAccepted, Passed
<1>2. ASSUME NEW q \in Asked, AskedFor(q, Answered) PROVE Accepts(q, answers[q])
  <2>1. q \in Shown(q.page)
    BY <1>1, <1>2, AllAreShown
  <2>2. \E p \in 1..7 : q.page = Pages[p]
    BY AskedAreFields, FieldKeys
  <2> QED BY <1>1, <2>1, <2>2
<1> QED BY <1>1, <1>2, AcceptedFit

(* What the full-screen form refuses after its confirmation is a           *)
(* combination no question could have refused: each answer's own check     *)
(* lets no other problem into the recipe (internal/form/values.go and      *)
(* internal/recipe/validate.go).                                           *)
THEOREM RefusedForACombinationHolds == FormSpec => []RefusedForACombination
<1>1. FormInv => RefusedForACombination
  <2> SUFFICES ASSUME FormInv, stage = "refused", ~plain
               PROVE  Validate(result) \subseteq
                        {<<"no disk of this release">>}
                        \cup {<<"certificate", "twice", CertificateName[c]>> :
                                c \in ToSet(initial.originalCertificates)}
    BY DEF RefusedForACombination
  <2>1. result = ToRecipe(Values) /\ FormTyped
    BY DEF FormInv, FormTyped
  <2>2. FitValues(Values)
    BY PassedFits
  <2>3. Values.originalCertificates = initial.originalCertificates
    BY <2>1, ValuesHold
  <2> QED BY <2>1, <2>2, <2>3, FitIsValid
<1> QED BY <1>1, FormInvariant, PTL

(* Of a list whose later names are all among the earlier, the first of     *)
(* each name are the earlier ones'.                                        *)
AddsNoName(list, more, one, names) ==
  /\ DOMAIN one = DOMAIN list /\ DOMAIN names = DOMAIN (list \o more)
  /\ \A n \in DOMAIN list : names[n] = one[n]
  /\ \A n \in 1..Len(more) : \E m \in DOMAIN list : names[Len(list) + n] = names[m]
LEMMA FirstAreEarlier ==
  ASSUME NEW list, IsList(list), NEW more, IsList(more), NEW one, NEW names,
         AddsNoName(list, more, one, names)
  PROVE  FirstOfEach(list \o more, names) = FirstOfEach(list, one)
<1> DEFINE K == Len(list)
           L == Len(more)
           places == DOMAIN list \ Repeats(one)
<1>1. K \in Nat /\ L \in Nat /\ DOMAIN list = 1..K
  BY ListLen
<1>2. DOMAIN (list \o more) = 1..(K + L) /\ \A n \in 1..K : (list \o more)[n] = list[n]
  BY Joined, ListLen
<1>3. /\ DOMAIN one = DOMAIN list /\ DOMAIN names = DOMAIN (list \o more)
      /\ \A n \in DOMAIN list : names[n] = one[n]
      /\ \A n \in 1..L : \E m \in DOMAIN list : names[K + n] = names[m]
  BY DEF AddsNoName
<1> HIDE DEF K, L
<1>4. ASSUME NEW n \in 1..K PROVE n \in Repeats(names) <=> n \in Repeats(one)
  <2>1. n \in DOMAIN names /\ n \in DOMAIN one /\ \A m \in 1..(n - 1) : m \in 1..K
    BY <1>1, <1>2, <1>3
  <2>2. names[n] = one[n] /\ \A m \in 1..(n - 1) : names[m] = one[m]
    BY <1>1, <1>3, <2>1
  <2> QED BY <2>1, <2>2 DEF Repeats
<1>5. ASSUME NEW n \in (K + 1)..(K + L) PROVE n \in Repeats(names)
  <2>1. n \in 1..(K + L) /\ n - K \in 1..L /\ K + (n - K) = n
    BY <1>1
  <2>2. PICK m \in DOMAIN list : names[K + (n - K)] = names[m]
    BY <1>3, <2>1
  <2>3. m \in 1..(n - 1)
    BY <1>1
  <2> QED BY <1>2, <1>3, <2>1, <2>2, <2>3 DEF Repeats
<1>6. DOMAIN (list \o more) \ Repeats(names) = places
  <2>1. \A n \in 1..(K + L) : n \in 1..K \/ n \in (K + 1)..(K + L)
    BY <1>1
  <2>2. 1..K \subseteq 1..(K + L)
    BY <1>1
  <2> QED BY <1>1, <1>2, <1>4, <1>5, <2>1, <2>2
<1>7. Picked(list \o more, places) = Picked(list, places)
  <2>1. places \in SUBSET (1..K) /\ \A p \in places : (list \o more)[p] = list[p]
    BY <1>1, <1>2
  <2> HIDE DEF places
  <2> QED BY <1>1, <2>1, PickedAlike
<1> QED BY <1>6, <1>7 DEF FirstOfEach

(* An edit that leaves the packages alone gives them back, each once.      *)
LEMMA PackagesStay ==
  ASSUME NEW family, NEW list, IsList(list), NEW v, v.packages = SplitPackages(family, list)[1]
  PROVE  MergePackages(CatalogSelections(family, v), SplitPackages(family, list)[2], list)
           = FirstOfEach(list, list)
<1> DEFINE selected == SplitPackages(family, list)[1]
           others   == SplitPackages(family, list)[2]
<1>1. /\ IsList(selected) /\ IsList(others)
      /\ ToSet(selected) \cup ToSet(others) = ToSet(list)
      /\ ToSet(selected) = {n \in ToSet(list) : InCatalog(family, n)}
  BY SplitPackagesList
<1>2. CatalogSelections(family, v) = selected
  <2>1. {n \in DOMAIN selected : InCatalog(family, selected[n])} = DOMAIN selected
    BY <1>1 DEF ToSet
  <2>2. CatalogSelections(family, v)
          = Picked(selected, {n \in DOMAIN selected : InCatalog(family, selected[n])})
    BY DEF CatalogSelections, SplitPackages
  <2> HIDE DEF selected
  <2> QED BY <1>1, <2>1, <2>2, PickedAll
<1> HIDE DEF selected, others
<1> DEFINE wanted == ToSet(selected \o others)
           stayed   == Picked(list, {n \in DOMAIN list : list[n] \in wanted})
<1>3. stayed = list
  <2>1. wanted = ToSet(list)
    BY <1>1, Joined
  <2>2. {n \in DOMAIN list : list[n] \in wanted} = DOMAIN list
    BY <2>1 DEF ToSet
  <2> QED BY <2>2, PickedAll
<1>4. MergePackages(selected, others, list)
        = FirstOfEach(list \o selected \o others, list \o selected \o others)
  BY <1>3 DEF MergePackages
<1> DEFINE first == list \o selected
<1>5. /\ IsList(first) /\ Len(first) = Len(list) + Len(selected)
      /\ ToSet(first) = ToSet(list) \cup ToSet(selected)
      /\ \A n \in 1..Len(list) : first[n] = list[n]
      /\ \A n \in 1..Len(selected) : first[Len(list) + n] = selected[n]
  BY <1>1, Joined
<1>6. /\ Len(list) \in Nat /\ DOMAIN list = 1..Len(list)
      /\ ToSet(list) = {list[n] : n \in 1..Len(list)}
      /\ ToSet(selected) = {selected[n] : n \in 1..Len(selected)}
      /\ ToSet(others) = {others[n] : n \in 1..Len(others)}
  BY <1>1, ListLen
<1>7. FirstOfEach(first, first) = FirstOfEach(list, list)
  <2>1. \A n \in 1..Len(selected) : \E m \in DOMAIN list : first[Len(list) + n] = first[m]
    <3> SUFFICES ASSUME NEW n \in 1..Len(selected)
                 PROVE  \E m \in DOMAIN list : first[Len(list) + n] = first[m]
      OBVIOUS
    <3>1. selected[n] \in ToSet(list)
      BY <1>1, <1>6
    <3>2. PICK m \in 1..Len(list) : list[m] = selected[n]
      BY <1>6, <3>1
    <3> HIDE DEF first
    <3>3. first[Len(list) + n] = selected[n] /\ first[m] = list[m]
      BY <1>5
    <3> QED BY <1>6, <3>2, <3>3
  <2>2. \A n \in DOMAIN list : first[n] = list[n]
    BY <1>5, <1>6
  <2>3. AddsNoName(list, selected, list, first)
    BY <2>1, <2>2 DEF AddsNoName
  <2> QED BY <1>1, <2>3, FirstAreEarlier
<1>8. FirstOfEach(first \o others, first \o others) = FirstOfEach(first, first)
  <2> HIDE DEF first
  <2> DEFINE all == first \o others
  <2>1. /\ \A n \in 1..Len(first) : all[n] = first[n]
        /\ \A n \in 1..Len(others) : all[Len(first) + n] = others[n]
    <3>1. IsList(first) /\ IsList(others)
      BY <1>1, <1>5
    <3> QED BY <3>1, Joined
  <2>2. DOMAIN first = 1..Len(first) /\ ToSet(first) = {first[n] : n \in 1..Len(first)}
    BY <1>5, ListLen
  <2>3. \A n \in 1..Len(others) : \E m \in DOMAIN first : all[Len(first) + n] = all[m]
    <3> SUFFICES ASSUME NEW n \in 1..Len(others)
                 PROVE  \E m \in DOMAIN first : all[Len(first) + n] = all[m]
      OBVIOUS
    <3>1. others[n] \in ToSet(first)
      BY <1>1, <1>5, <1>6
    <3>2. PICK m \in 1..Len(first) : first[m] = others[n]
      BY <2>2, <3>1
    <3> HIDE DEF all
    <3>3. all[Len(first) + n] = others[n] /\ all[m] = first[m]
      BY <2>1
    <3> QED BY <2>2, <3>2, <3>3
  <2>4. \A n \in DOMAIN first : all[n] = first[n]
    BY <2>1, <2>2
  <2>5. AddsNoName(first, others, first, all)
    BY <2>3, <2>4 DEF AddsNoName
  <2>6. IsList(first) /\ IsList(others)
    BY <1>1, <1>5
  <2> QED BY <2>5, <2>6, FirstAreEarlier
<1> QED BY <1>2, <1>4, <1>7, <1>8 DEF others

(* An edit that leaves the sources and the release alone gives the rows    *)
(* back as they were.                                                      *)
LEMMA SourcesStay ==
  ASSUME NEW list, IsList(list), Repeats(SourceNames(list)) = {}, NEW suite
  PROVE  MergeSources(SplitSources(list)[1], SplitSources(list)[2], list, suite, suite) = list
<1> DEFINE entryPlaces == {n \in DOMAIN list : IsEntry(list[n])}
           ppaPlaces   == {n \in DOMAIN list : IsPPA(list[n])} \ entryPlaces
           selected    == SplitSources(list)[1]
           ppas        == SplitSources(list)[2]
           ppaNames    == {PpaName[p] : p \in ToSet(ppas)}
           entries == Picked(selected, {n \in DOMAIN selected : selected[n] \in SourceCatalog})
           fromEntries == [n \in DOMAIN entries |-> EntrySource(entries[n], suite)]
           fromPpas    == [n \in DOMAIN ppas |-> PPA(ppas[n])]
           wanted  == fromEntries \o fromPpas
           isWanted(s) == \E w \in ToSet(wanted) : w.name = s.name
           stays(s)    == (IsEntry(s) \/ IsPPA(s)) => isWanted(s)
           stayed        == Picked(list, {n \in DOMAIN list : stays(list[n])})
           unedited(s) == IsEntry(s) /\ suite # "" /\ s = EntrySource(s.name, suite)
           resolved    == [n \in DOMAIN stayed |->
                             IF unedited(stayed[n]) THEN EntrySource(stayed[n].name, suite) ELSE stayed[n]]
<1>1. MergeSources(selected, ppas, list, suite, suite)
        = FirstOfEach(resolved \o wanted, SourceNames(resolved \o wanted))
  BY DEF MergeSources
<1>2. /\ Len(list) \in Nat /\ DOMAIN list = 1..Len(list) /\ list = [n \in 1..Len(list) |-> list[n]]
      /\ ToSet(list) = {list[n] : n \in 1..Len(list)}
  BY ListLen
<1>3. /\ IsList(selected) /\ IsList(ppas)
      /\ ToSet(selected) = {list[n].name : n \in entryPlaces}
      /\ ppaNames = {list[n].name : n \in ppaPlaces}
  <2>1. selected = SourceNames(Picked(list, entryPlaces)) /\ ppas = PpasIn(Picked(list, ppaPlaces))
    BY DEF SplitSources
  <2>2. ASSUME NEW places, places \subseteq DOMAIN list
        PROVE  ToSet(SourceNames(Picked(list, places))) = {list[n].name : n \in places}
    <3> DEFINE picked == Picked(list, places)
    <3>1. IsList(picked) /\ ToSet(picked) = {list[p] : p \in places}
      BY <2>2, PickedList
    <3> HIDE DEF picked
    <3>2. ToSet(SourceNames(picked)) = {s.name : s \in ToSet(picked)}
      BY DEF SourceNames, ToSet
    <3>3. {s.name : s \in {list[p] : p \in places}} = {list[n].name : n \in places}
      OBVIOUS
    <3> QED BY <3>1, <3>2, <3>3 DEF picked
  <2>3. entryPlaces \subseteq DOMAIN list /\ ppaPlaces \subseteq DOMAIN list
    OBVIOUS
  <2>4. IsList(selected) /\ IsList(ppas)
    BY SplitSourcesList
  <2>5. \A n \in ppaPlaces : list[n].name = PpaName[PpaOf[list[n].own]]
    BY DEF IsPPA
  <2> HIDE DEF entryPlaces, ppaPlaces, selected, ppas
  <2>6. ToSet(ppas) = {PpaOf[list[n].own] : n \in ppaPlaces}
    <3> DEFINE picked == Picked(list, ppaPlaces)
    <3>1. IsList(picked) /\ ToSet(picked) = {list[p] : p \in ppaPlaces}
      BY <2>3, PickedList
    <3> HIDE DEF picked
    <3>2. ToSet(PpasIn(picked)) = {PpaOf[s.own] : s \in ToSet(picked)}
      BY DEF PpasIn, ToSet
    <3>3. {PpaOf[s.own] : s \in {list[p] : p \in ppaPlaces}} = {PpaOf[list[n].own] : n \in ppaPlaces}
      OBVIOUS
    <3> QED BY <2>1, <3>1, <3>2, <3>3 DEF picked
  <2>7. ppaNames = {list[n].name : n \in ppaPlaces}
    BY <2>5, <2>6
  <2> QED BY <2>1, <2>2, <2>3, <2>4, <2>7
<1>4. entries = selected
  <2>1. \A n \in DOMAIN selected : selected[n] \in SourceCatalog
    <3>1. \A x \in ToSet(selected) : x \in SourceCatalog
      BY <1>3 DEF IsEntry
    <3> HIDE DEF selected
    <3> QED BY <3>1 DEF ToSet
  <2>2. {n \in DOMAIN selected : selected[n] \in SourceCatalog} = DOMAIN selected
    BY <2>1
  <2> HIDE DEF selected
  <2> QED BY <1>3, <2>2, PickedAll
<1> HIDE DEF selected, ppas, entries
<1>5. /\ Len(selected) \in Nat /\ DOMAIN selected = 1..Len(selected)
      /\ ToSet(selected) = {selected[n] : n \in 1..Len(selected)}
      /\ Len(ppas) \in Nat /\ DOMAIN ppas = 1..Len(ppas)
      /\ ToSet(ppas) = {ppas[n] : n \in 1..Len(ppas)}
  BY <1>3, ListLen
<1>6. /\ IsList(fromEntries) /\ IsList(fromPpas)
      /\ {w.name : w \in ToSet(fromEntries)} = ToSet(selected)
      /\ {w.name : w \in ToSet(fromPpas)} = ppaNames
  <2>1. fromEntries = [n \in 1..Len(selected) |-> EntrySource(selected[n], suite)]
        /\ fromPpas = [n \in 1..Len(ppas) |-> PPA(ppas[n])]
    BY <1>4, <1>5
  <2>2. fromEntries = [n \in 1..Len(selected) |-> fromEntries[n]]
        /\ fromPpas = [n \in 1..Len(ppas) |-> fromPpas[n]]
    BY <2>1
  <2>3. /\ \A n \in 1..Len(selected) : fromEntries[n].name = selected[n]
        /\ \A n \in 1..Len(ppas) : fromPpas[n].name = PpaName[ppas[n]]
    BY <2>1 DEF EntrySource, PPA
  <2> HIDE DEF fromEntries, fromPpas
  <2>4. IsList(fromEntries) /\ IsList(fromPpas)
    BY <1>5, <2>2, IsAList
  <2>5. ToSet(fromEntries) = {fromEntries[n] : n \in 1..Len(selected)}
        /\ ToSet(fromPpas) = {fromPpas[n] : n \in 1..Len(ppas)}
    BY <2>2 DEF ToSet
  <2> QED BY <1>5, <2>3, <2>4, <2>5
<1> HIDE DEF fromEntries, fromPpas
<1>7. /\ IsList(wanted) /\ ToSet(wanted) = ToSet(fromEntries) \cup ToSet(fromPpas)
  BY <1>6, Joined
<1> HIDE DEF wanted, ppaNames
<1>8. {w.name : w \in ToSet(wanted)} = ToSet(selected) \cup ppaNames
  BY <1>6, <1>7
<1>9. stayed = list
  <2>1. ASSUME NEW n \in DOMAIN list, IsEntry(list[n]) \/ IsPPA(list[n]) PROVE isWanted(list[n])
    <3>1. n \in entryPlaces \/ n \in ppaPlaces
      BY <2>1
    <3>2. list[n].name \in ToSet(selected) \cup ppaNames
      BY <1>3, <3>1
    <3> QED BY <1>8, <3>2
  <2>2. {n \in DOMAIN list : stays(list[n])} = DOMAIN list
    BY <2>1
  <2> QED BY <2>2, PickedAll
<1>10. resolved = list
  <2>1. \A s : (IF unedited(s) THEN EntrySource(s.name, suite) ELSE s) = s
    OBVIOUS
  <2>2. resolved = [n \in DOMAIN list |-> IF unedited(list[n])
                                           THEN EntrySource(list[n].name, suite) ELSE list[n]]
    BY <1>9
  <2> HIDE DEF unedited, resolved
  <2>3. [n \in DOMAIN list |-> IF unedited(list[n]) THEN EntrySource(list[n].name, suite) ELSE list[n]]
          = [n \in 1..Len(list) |-> list[n]]
    BY <1>2, <2>1
  <2> QED BY <1>2, <2>2, <2>3
<1> HIDE DEF resolved
<1>11. FirstOfEach(list \o wanted, SourceNames(list \o wanted)) = FirstOfEach(list, SourceNames(list))
  <2> DEFINE all == list \o wanted
  <2>1. /\ IsList(all) /\ Len(all) = Len(list) + Len(wanted)
        /\ \A n \in 1..Len(list) : all[n] = list[n]
        /\ \A n \in 1..Len(wanted) : all[Len(list) + n] = wanted[n]
    BY <1>7, Joined
  <2>2. Len(wanted) \in Nat /\ DOMAIN wanted = 1..Len(wanted)
        /\ ToSet(wanted) = {wanted[n] : n \in 1..Len(wanted)} /\ DOMAIN all = 1..Len(all)
    BY <1>7, <2>1, ListLen
  <2> HIDE DEF all
  <2>3. /\ DOMAIN SourceNames(list) = DOMAIN list /\ DOMAIN SourceNames(all) = DOMAIN all
        /\ \A n \in DOMAIN list : SourceNames(list)[n] = list[n].name
        /\ \A n \in DOMAIN all : SourceNames(all)[n] = all[n].name
    BY DEF SourceNames
  <2>4. /\ \A n \in 1..Len(list) : n \in DOMAIN all
        /\ \A n \in 1..Len(wanted) : Len(list) + n \in DOMAIN all
    BY <1>2, <2>1, <2>2
  <2>5. \A n \in DOMAIN list : SourceNames(all)[n] = SourceNames(list)[n]
    BY <1>2, <2>1, <2>3, <2>4
  <2>6. \A n \in 1..Len(wanted) : \E m \in DOMAIN list :
          SourceNames(all)[Len(list) + n] = SourceNames(all)[m]
    <3> SUFFICES ASSUME NEW n \in 1..Len(wanted)
                 PROVE  \E m \in DOMAIN list :
                          SourceNames(all)[Len(list) + n] = SourceNames(all)[m]
      OBVIOUS
    <3>1. wanted[n].name \in ToSet(selected) \cup ppaNames
      BY <1>8, <2>2
    <3>2. PICK m \in DOMAIN list : wanted[n].name = list[m].name
      BY <1>3, <3>1
    <3>3. SourceNames(all)[Len(list) + n] = wanted[n].name
      BY <2>1, <2>3, <2>4
    <3>4. SourceNames(all)[m] = list[m].name
      BY <2>3, <2>5
    <3> QED BY <3>2, <3>3, <3>4
  <2>7. FirstOfEach(list \o wanted, SourceNames(all)) = FirstOfEach(list, SourceNames(list))
    <3>1. AddsNoName(list, wanted, SourceNames(list), SourceNames(all))
      BY <2>3, <2>5, <2>6 DEF AddsNoName, all
    <3> QED BY <1>7, <3>1, FirstAreEarlier
  <2> QED BY <2>7 DEF all
<1>12. FirstOfEach(list, SourceNames(list)) = list
  BY PickedAll DEF FirstOfEach
<1> QED BY <1>1, <1>10, <1>11, <1>12 DEF selected, ppas

(* What an answer that was not changed says is what the recipe said, but   *)
(* for a choice that starts on something its list has.                     *)
LEMMA UnchangedAnswer ==
  ASSUME FormTyped, Answered = VariantOf(initial), NEW key \in ValueKeys,
         \A q \in DOMAIN answers :
           q.key = key /\ AskedFor(q, Answered) => answers[q] = Start(q, initial)
  PROVE  Values[key] = IF key \in DOMAIN Offered /\ ~plain
                       THEN AsOffered(key, initial[key]) ELSE initial[key]
<1>1. DOMAIN answers = Asked
  BY DEF FormTyped
<1>2. CASE \E q \in Asked : q.key = key /\ AskedFor(q, Answered)
  <2>1. PICK q \in Asked : q.key = key /\ AskedFor(q, Answered)
    BY <1>2
  <2>2. Values[key] = answers[q] /\ answers[q] = Start(q, initial)
    BY <1>1, <2>1, ValueAnswered
  <2>3. Family(initial) \in q.families
    BY <2>1 DEF AskedFor, VariantOf
  <2> QED BY <2>1, <2>2, <2>3 DEF Start
<1>3. CASE ~\E q \in Asked : q.key = key /\ AskedFor(q, Answered)
  <2>1. key \notin DOMAIN Offered
    <3>1. \A k \in {"timezone", "locale"} :
            \E q \in ToSet(Fields) : q.key = k /\ AskedFor(q, Answered)
      BY AnsweredFits, SomethingAsks
    <3>2. \A k \in {"timezone", "locale"} :
            \E q \in Asked : q.key = k /\ AskedFor(q, Answered)
      BY <3>1, AskedThere
    <3>3. DOMAIN Offered = {"timezone", "locale"}
      BY OffersAssumption
    <3> QED BY <1>3, <3>2, <3>3
  <2> QED BY <1>3, <2>1, ValueStarted
<1> QED BY <1>2, <1>3

(* What each part of the recipe's reading is.                              *)
LEMMA ReadingParts ==
  ASSUME NEW r, IsRecipe(r)
  PROVE  LET g == Reading(r)
             paths == SplitCertificates(CertificatePaths(r))
         IN  /\ g.name = r.name /\ g.distro = r.distro /\ g.release = r.release
             /\ g.target = r.target /\ g.user = r.user /\ g.sources = r.sources
             /\ g.lang = OrDefault(r.lang, "en_US.UTF-8")
             /\ g.timezone = OrDefault(r.timezone, "UTC")
             /\ g.wsl = IF TargetOf(r) = "disk" THEN r.wsl
                        ELSE [r.wsl EXCEPT !.defaultUser = r.user]
             /\ g.disk = IF TargetOf(r) = "disk"
                         THEN [size |-> DiskSize(r), formats |-> DiskFormats(r)] ELSE r.disk
             /\ g.include = FirstOfEach(r.include, r.include)
             /\ g.python = IF PythonPackages(r) = <<>> THEN Absent ELSE r.python
             /\ g.certificates = IF paths[2] \o paths[1] = <<>> THEN Absent
                                 ELSE [include |-> paths[2] \o paths[1]]
<1>1. DOMAIN r = {"name", "distro", "release", "target", "user", "wsl", "disk", "lang",
                  "timezone", "include", "sources", "python", "certificates"}
  BY DEF IsRecipe
<1> QED BY <1>1 DEF Reading

(* The recipe an edit makes of what its form started from.                 *)
LEMMA StartedFrom ==
  ASSUME NEW r \in Originals
  PROVE  LET i == FromRecipe(r)
             paths == SplitCertificates(CertificatePaths(r))
         IN  /\ i.name = r.name /\ i.release = r.release /\ i.user = r.user
             /\ i.timezone = OrDefault(r.timezone, "UTC")
             /\ i.locale = OrDefault(r.lang, "en_US.UTF-8")
             /\ i.systemd = r.wsl.systemd
             /\ i.packages = SplitPackages(FamilyOf(r.distro), r.include)[1]
             /\ i.others = SplitPackages(FamilyOf(r.distro), r.include)[2]
             /\ i.python = PythonPackages(r) /\ i.indexURL = PythonIndexURL(r)
             /\ i.sources = SplitSources(r.sources)[1] /\ i.ppas = SplitSources(r.sources)[2]
             /\ i.certificates = paths[1] /\ i.originalCertificates = paths[2]
             /\ i.size = DiskSize(r) /\ i.qcow2 = ("qcow2" \in ToSet(DiskFormats(r)))
             /\ i.originalInclude = r.include /\ i.originalSources = r.sources
             /\ i.originalRelease = r.release
             /\ i.originalDistro = r.distro /\ i.originalTarget = r.target
             /\ i.distro = FamilyOf(r.distro) /\ i.target = TargetOf(r)
BY DEF FromRecipe

(* The names the recipe has for its distribution and its target stay.      *)
LEMMA NamesStay ==
  ASSUME NEW r \in Originals
  PROVE  /\ Named(FamilyOf(r.distro), "ubuntu", r.distro) = r.distro
         /\ Named(TargetOf(r), "wsl", r.target) = r.target
<1>1. FamilyOf(r.distro) \in Families
  BY OriginalSays
<1>2. CASE r.distro = ""
  BY <1>2, FamilyIs DEF Named, TargetOf
<1>3. CASE r.distro # ""
  <2>1. r.distro \in Families
    BY <1>1, <1>3, AbsentAssumption DEF FamilyOf
  <2> QED BY <1>3, <2>1, FamilyIs DEF Named, TargetOf
<1> QED BY <1>2, <1>3

(* An edited recipe, a part at a time, but the two of a list of values:    *)
(* what answers that say what the recipe said make of it.                  *)
LEMMA PartsStay ==
  ASSUME NEW r \in Originals, NEW v,
         v.distro = FamilyOf(r.distro), v.target = TargetOf(r),
         \A key \in {"originalInclude", "originalSources", "originalRelease",
                     "originalCertificates", "indexURL", "originalDistro", "originalTarget"} :
           v[key] = FromRecipe(r)[key],
         NEW part \in DOMAIN AnsweredBy \ {"lang", "timezone"},
         \A key \in AnsweredBy[part] : v[key] = FromRecipe(r)[key]
  PROVE  ToRecipe(v)[part] = Reading(r)[part]
<1> DEFINE t == ToRecipe(v)
           g == Reading(r)
           i == FromRecipe(r)
           paths == SplitCertificates(CertificatePaths(r))
           same(key) == v[key] = i[key]
<1>1. v.distro \in Families /\ v.target \in Targets
  BY OriginalSays
<1>2. /\ t.name = v.name /\ t.user = v.user /\ t.release = v.release
      /\ t.distro = RecipeDistro(v) /\ t.target = RecipeTarget(v)
  BY <1>1, RecipeParts
<1>3. /\ t.wsl = IF v.target = "disk" THEN NoWSL
                 ELSE [systemd |-> v.systemd, defaultUser |-> v.user]
      /\ t.disk = IF v.target = "disk" THEN DiskTable(v) ELSE Absent
  BY <1>1, RecipeParts
<1>4. t.include = MergePackages(CatalogSelections(v.distro, v), v.others, v.originalInclude)
  BY <1>1, RecipeParts
<1>5. t.sources = IF v.distro = "fedora" THEN <<>>
                  ELSE MergeSources(v.sources, v.ppas, v.originalSources,
                                    ReleaseSuite(v.originalRelease), ReleaseSuite(v.release))
  BY <1>1, RecipeParts
<1>6. /\ t.python = IF v.distro = "fedora" THEN Absent ELSE PythonTable(v)
      /\ t.certificates = IF v.distro = "fedora" THEN Absent ELSE CertificatesTable(v)
  BY <1>1, RecipeParts
<1>7. IsRecipe(r)
  BY OriginalSays
<1>8. /\ g.name = r.name /\ g.distro = r.distro /\ g.release = r.release
      /\ g.target = r.target /\ g.user = r.user /\ g.sources = r.sources
      /\ g.wsl = IF TargetOf(r) = "disk" THEN r.wsl
                 ELSE [r.wsl EXCEPT !.defaultUser = r.user]
      /\ g.disk = IF TargetOf(r) = "disk"
                  THEN [size |-> DiskSize(r), formats |-> DiskFormats(r)] ELSE r.disk
      /\ g.include = FirstOfEach(r.include, r.include)
      /\ g.python = IF PythonPackages(r) = <<>> THEN Absent ELSE r.python
      /\ g.certificates = IF paths[2] \o paths[1] = <<>> THEN Absent
                          ELSE [include |-> paths[2] \o paths[1]]
  BY <1>7, ReadingParts
<1>9. /\ i.name = r.name /\ i.release = r.release /\ i.user = r.user
      /\ i.systemd = r.wsl.systemd
      /\ i.packages = SplitPackages(FamilyOf(r.distro), r.include)[1]
      /\ i.others = SplitPackages(FamilyOf(r.distro), r.include)[2]
      /\ i.python = PythonPackages(r)
      /\ i.sources = SplitSources(r.sources)[1] /\ i.ppas = SplitSources(r.sources)[2]
      /\ i.certificates = paths[1]
      /\ i.size = DiskSize(r) /\ i.qcow2 = ("qcow2" \in ToSet(DiskFormats(r)))
  BY StartedFrom
<1>10. /\ v.originalInclude = r.include /\ v.originalSources = r.sources
       /\ v.originalRelease = r.release /\ v.indexURL = PythonIndexURL(r)
       /\ v.originalCertificates = paths[2]
       /\ v.originalDistro = r.distro /\ v.originalTarget = r.target
  <2>1. /\ v.originalInclude = i.originalInclude /\ v.originalSources = i.originalSources
        /\ v.originalRelease = i.originalRelease /\ v.indexURL = i.indexURL
        /\ v.originalCertificates = i.originalCertificates
        /\ v.originalDistro = i.originalDistro /\ v.originalTarget = i.originalTarget
    OBVIOUS
  <2> QED BY <2>1, StartedFrom
<1> HIDE DEF t, g, i, paths
<1>11. CASE part = "name"
  <2>1. same("name")
    BY <1>11 DEF AnsweredBy, i
  <2> QED BY <1>2, <1>8, <1>9, <1>11, <2>1 DEF t, g
<1>12. CASE part = "distro"
  BY <1>2, <1>8, <1>10, <1>12, NamesStay DEF RecipeDistro, t, g
<1>13. CASE part = "target"
  BY <1>2, <1>8, <1>10, <1>13, NamesStay DEF RecipeTarget, t, g
<1>14. CASE part = "release"
  <2>1. same("release")
    BY <1>14 DEF AnsweredBy, i
  <2> QED BY <1>2, <1>8, <1>9, <1>14, <2>1 DEF t, g
<1>15. CASE part = "user"
  <2>1. same("user")
    BY <1>15 DEF AnsweredBy, i
  <2> QED BY <1>2, <1>8, <1>9, <1>15, <2>1 DEF t, g
<1>16. CASE part = "wsl"
  <2>1. same("systemd") /\ same("user")
    BY <1>16 DEF AnsweredBy, i
  <2>2. CASE v.target = "disk"
    <3>1. r.wsl = NoWSL
      BY <2>2, OriginalSays
    <3> QED BY <1>3, <1>8, <1>16, <2>2, <3>1 DEF t, g
  <2>3. CASE v.target # "disk"
    <3>1. r.wsl = [systemd |-> r.wsl.systemd, defaultUser |-> r.wsl.defaultUser]
      BY <1>7 DEF IsRecipe
    <3>2. [r.wsl EXCEPT !.defaultUser = r.user]
            = [systemd |-> r.wsl.systemd, defaultUser |-> r.user]
      BY <3>1
    <3> QED BY <1>3, <1>8, <1>9, <1>16, <2>1, <2>3, <3>2 DEF t, g
  <2> QED BY <2>2, <2>3
<1>17. CASE part = "disk"
  <2>1. same("size") /\ same("qcow2")
    BY <1>17 DEF AnsweredBy, i
  <2>2. CASE v.target = "disk"
    <3>1. DiskFormats(r) \in {<<>>, <<"qcow2">>}
      BY <2>2, OriginalSays
    <3>2. (IF v.qcow2 THEN <<"qcow2">> ELSE <<>>) = DiskFormats(r)
      <4>1. ToSet(<<>>) = {} /\ "qcow2" \in ToSet(<<"qcow2">>)
        BY DEF ToSet
      <4> QED BY <1>9, <2>1, <3>1, <4>1
    <3>3. DiskTable(v) = [size |-> DiskSize(r), formats |-> DiskFormats(r)]
      BY <1>9, <2>1, <3>2 DEF DiskTable
    <3> QED BY <1>3, <1>8, <1>17, <2>2, <3>3 DEF t, g
  <2>3. CASE v.target # "disk"
    <3>1. r.disk = Absent
      BY <1>1, <2>3, OriginalSays DEF Targets
    <3> QED BY <1>3, <1>8, <1>17, <2>3, <3>1 DEF t, g
  <2> QED BY <2>2, <2>3
<1>18. CASE part = "include"
  <2>1. same("packages") /\ same("others")
    BY <1>18 DEF AnsweredBy, i
  <2>2. IsList(r.include)
    BY <1>7 DEF IsRecipe
  <2>3. MergePackages(CatalogSelections(v.distro, v), v.others, r.include)
          = FirstOfEach(r.include, r.include)
    BY <1>9, <2>1, <2>2, PackagesStay
  <2> QED BY <1>4, <1>8, <1>10, <1>18, <2>3 DEF t, g
<1>19. CASE part = "sources"
  <2>1. same("sources") /\ same("ppas") /\ same("release")
    BY <1>19 DEF AnsweredBy, i
  <2>2. CASE v.distro = "fedora"
    <3>1. r.sources = <<>>
      BY <2>2, OriginalSays
    <3> QED BY <1>5, <1>8, <1>19, <2>2, <3>1 DEF t, g
  <2>3. CASE v.distro # "fedora"
    <3>1. IsList(r.sources) /\ Repeats(SourceNames(r.sources)) = {}
      BY <1>7, OriginalSays DEF IsRecipe
    <3>2. MergeSources(v.sources, v.ppas, r.sources, ReleaseSuite(r.release), ReleaseSuite(r.release))
            = r.sources
      BY <1>9, <2>1, <3>1, SourcesStay
    <3> QED BY <1>5, <1>8, <1>9, <1>10, <1>19, <2>1, <2>3, <3>2 DEF t, g
  <2> QED BY <2>2, <2>3
<1>20. CASE part = "python"
  <2>1. same("python")
    BY <1>20 DEF AnsweredBy, i
  <2>2. CASE v.distro = "fedora"
    <3>1. PythonPackages(r) = <<>>
      BY <2>2, OriginalSays DEF PythonPackages, IncludeOf
    <3> QED BY <1>6, <1>8, <1>20, <2>2, <3>1 DEF t, g
  <2>3. CASE v.distro # "fedora"
    <3>1. PythonPackages(r) # <<>> =>
            r.python = [include |-> PythonPackages(r), index |-> PythonIndexURL(r)]
      BY <1>7 DEF IsRecipe, PythonPackages, PythonIndexURL, IncludeOf
    <3>2. v.python = PythonPackages(r) /\ v.indexURL = PythonIndexURL(r)
      BY <1>9, <1>10, <2>1
    <3>3. PythonTable(v) = IF PythonPackages(r) = <<>> THEN Absent ELSE r.python
      BY <3>1, <3>2 DEF PythonTable
    <3> QED BY <1>6, <1>8, <1>20, <2>3, <3>3 DEF t, g
  <2> QED BY <2>2, <2>3
<1>21. CASE part = "certificates"
  <2>1. same("certificates")
    BY <1>21 DEF AnsweredBy, i
  <2>2. CASE v.distro = "fedora"
    <3>1. CertificatePaths(r) = <<>>
      BY <2>2, OriginalSays DEF CertificatePaths, IncludeOf
    <3>2. paths[2] \o paths[1] = <<>>
      <4>1. IsList(<<>>) /\ DOMAIN <<>> = {}
        BY NothingHeld
      <4>2. Picked(<<>>, {}) = <<>>
        BY <4>1, PickedAll
      <4>3. paths[1] = Picked(<<>>, {}) /\ paths[2] = Picked(<<>>, {})
        BY <3>1, <4>1 DEF paths, SplitCertificates
      <4>4. <<>> \o <<>> = <<>>
        OBVIOUS
      <4> QED BY <4>2, <4>3, <4>4
    <3> QED BY <1>6, <1>8, <1>21, <2>2, <3>2 DEF t, g
  <2>3. CASE v.distro # "fedora"
    <3>1. v.originalCertificates \o v.certificates = paths[2] \o paths[1]
      BY <1>9, <1>10, <2>1
    <3>2. CertificatesTable(v) = IF paths[2] \o paths[1] = <<>> THEN Absent
                                 ELSE [include |-> paths[2] \o paths[1]]
      BY <3>1 DEF CertificatesTable
    <3> QED BY <1>6, <1>8, <1>21, <2>3, <3>2 DEF t, g
  <2> QED BY <2>2, <2>3
<1>22. part \in {"name", "distro", "release", "target", "user", "wsl", "disk", "include",
                 "sources", "python", "certificates"}
  BY DEF AnsweredBy
<1> QED
  BY <1>11, <1>12, <1>13, <1>14, <1>15, <1>16, <1>17, <1>18, <1>19, <1>20, <1>21, <1>22

(* An edit written keeps every part of the recipe whose answers were not   *)
(* changed, for any recipe that validates and any way through the pages    *)
(* (FromRecipe, ToRecipe and the merges of internal/form/values.go): the   *)
(* locale and the time zone too, where the form's own lists have them, and *)
(* always in the plain form.                                               *)
THEOREM EditKeepsTheRestHolds == FormSpec => []EditKeepsTheRest
<1>1. FormInv => EditKeepsTheRest
  <2> DEFINE changed(key) == \E q \in DOMAIN answers : /\ q.key = key /\ AskedFor(q, Answered)
                                                        /\ answers[q] # Start(q, initial)
  <2> SUFFICES ASSUME FormInv, stage = "written", original # Absent,
                      Answered = VariantOf(initial), NEW part \in DOMAIN AnsweredBy,
                      \A key \in AnsweredBy[part] : ~changed(key)
               PROVE  result[part] = GivenBack[part]
    BY DEF EditKeepsTheRest
  <2>1. /\ FormTyped /\ result = ToRecipe(Values) /\ original \in Originals
        /\ initial = FromRecipe(original)
    BY DEF FormInv, FormTyped
  <2>2. /\ Values.distro = Answered.family /\ Values.target = Answered.target
        /\ \A key \in {"originalInclude", "originalSources", "originalRelease",
                       "originalCertificates", "indexURL", "originalDistro", "originalTarget"} :
             Values[key] = initial[key]
    BY <2>1, ValuesHold
  <2>3. Values.distro = FamilyOf(original.distro) /\ Values.target = TargetOf(original)
    <3>1. Answered.family = Family(initial) /\ Answered.target = Target(initial)
      BY DEF VariantOf
    <3>2. Family(initial) = initial.distro /\ Target(initial) = initial.target
      BY <2>1, AnsweredFits
    <3> QED BY <2>1, <2>2, <3>1, <3>2, StartedFrom
  <2>4. \A key \in AnsweredBy[part] :
          Values[key] = IF key \in DOMAIN Offered /\ ~plain
                        THEN AsOffered(key, initial[key]) ELSE initial[key]
    <3>1. AnsweredBy[part] \subseteq ValueKeys
      BY DEF AnsweredBy, ValueKeys
    <3> QED BY <2>1, <3>1, UnchangedAnswer
  <2>5. /\ DOMAIN Offered = {"locale", "timezone"}
        /\ DOMAIN Reading(original) = DOMAIN AnsweredBy
    <3>1. IsRecipe(original)
      BY <2>1, OriginalSays
    <3> QED BY <3>1, OffersAssumption DEF IsRecipe, Reading, AnsweredBy
  <2> HIDE DEF changed
  <2>6. CASE part \notin {"lang", "timezone"}
    <3>1. \A key \in AnsweredBy[part] : key \notin DOMAIN Offered
      BY <2>5, <2>6 DEF AnsweredBy
    <3>2. \A key \in AnsweredBy[part] : Values[key] = initial[key]
      BY <2>4, <3>1
    <3>3. result[part] = Reading(original)[part]
      BY <2>1, <2>2, <2>3, <2>6, <3>2, PartsStay
    <3>4. GivenBack[part] = Reading(original)[part]
      BY <2>5, <2>6 DEF GivenBack
    <3> QED BY <3>3, <3>4
  <2>7. /\ result.lang = Values.locale /\ result.timezone = Values.timezone
        /\ Reading(original).lang = initial.locale /\ Reading(original).timezone = initial.timezone
    <3>1. Values.distro \in Families /\ Values.target \in Targets /\ IsRecipe(original)
      BY <2>1, <2>3, OriginalSays
    <3>2. result.lang = Values.locale /\ result.timezone = Values.timezone
      BY <2>1, <3>1, RecipeParts
    <3> QED BY <2>1, <3>1, <3>2, ReadingParts, StartedFrom
  <2>8. CASE part = "lang"
    <3>1. Values["locale"] = IF plain THEN initial["locale"] ELSE AsOffered("locale", initial["locale"])
      BY <2>4, <2>5, <2>8 DEF AnsweredBy
    <3>2. GivenBack.lang = IF plain THEN Reading(original).lang
                           ELSE AsOffered("locale", Reading(original).lang)
      BY <2>5 DEF GivenBack, AnsweredBy
    <3> QED BY <2>7, <2>8, <3>1, <3>2
  <2>9. CASE part = "timezone"
    <3>1. Values["timezone"] = IF plain THEN initial["timezone"]
                               ELSE AsOffered("timezone", initial["timezone"])
      BY <2>4, <2>5, <2>9 DEF AnsweredBy
    <3>2. GivenBack.timezone = IF plain THEN Reading(original).timezone
                               ELSE AsOffered("timezone", Reading(original).timezone)
      BY <2>5 DEF GivenBack, AnsweredBy
    <3> QED BY <2>7, <2>9, <3>1, <3>2
  <2> QED BY <2>6, <2>8, <2>9
<1> QED BY <1>1, FormInvariant, PTL
=============================================================================
