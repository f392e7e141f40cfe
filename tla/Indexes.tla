------------------------------ MODULE Indexes -------------------------------
(***************************************************************************)
(* packageIndexes: the package indexes of one run of the recipe form.  A   *)
(* request names a release's archive and the sources beside it; each is    *)
(* opened in turn, what a fetch read whole is kept for the next request,   *)
(* and the parts are merged into the one index the form searches.          *)
(*                                                                         *)
(* OpenIndex models the opening of one repository.  Here it is one step    *)
(* that ends as OpenIndex allows, and an index is where it came from: the  *)
(* cache an earlier run left, old or fresh, or this run's own fetch.       *)
(***************************************************************************)
EXTENDS Naturals, Sequences, SequencesExt, FiniteSets

CONSTANTS
  Archives,     \* releases' archives, and Fedora releases' repositories
  PyPI,         \* PyPI's project names, one index whatever is asked
  ThirdParty,   \* the apt sources a recipe may add, resolved for a release
  Requests,     \* records of a release, an archive and a sequence of sources
  Caches,       \* bound: the cache files an earlier run may have left
  Loads,        \* the picker's openings that may be under way at once
  None

Repos == Archives \cup ThirdParty \cup {PyPI}

ASSUME CachesAssumption == Caches \subseteq [Repos -> {"none", "old", "fresh"}]
ASSUME LoadsAssumption == None \notin Loads
ASSUME RequestsAssumption ==
  /\ Archives \cap ThirdParty = {} /\ PyPI \notin Archives \cup ThirdParty
  /\ \A r \in Requests :
       /\ r.archive \in Archives \cup {PyPI} /\ r.sources \in Seq(ThirdParty)
       /\ r.archive = PyPI => r.sources = <<>>

VARIABLES
  refresh,      \* --refresh-index
  cache,        \* a repository's cache file: "none", "old", "fresh", or
                \* "run", written by a fetch of this run
  opened,       \* the answers remembered, those of a fetch and those given
                \* offline apart
  kept,         \* the parts an opening of this run read whole, and PyPI's
  calls         \* the openings under way, and what each was answered

indexVars == <<refresh, cache, opened, kept, calls>>

Origins == {"old", "fresh", "run"}
Part    == [of : Origins, missing : BOOLEAN]
Answer  == [searched : [Repos -> Origins \cup {"none"}], missing : SUBSET Repos]
Keys    == Requests \X BOOLEAN       \* the second says offline

Idle == [at |-> "idle", request |-> None, next |-> 0, parts |-> <<>>,
         unreachable |-> {}, canceled |-> FALSE, answer |-> None]

IndexesTypeOK ==
  /\ refresh \in BOOLEAN
  /\ cache \in [Repos -> Origins \cup {"none"}]
  /\ opened \in [Keys -> Answer \cup {None}]
  /\ kept \in [Repos -> Part \cup {None}]
  /\ \A l \in Loads :
       /\ calls[l].at \in {"idle", "asked", "parts", "ended"}
       /\ calls[l].request \in Requests \cup {None}
       /\ calls[l].unreachable \subseteq Repos
       /\ calls[l].answer \in Answer \cup {None}
       /\ calls[l].at \in {"idle", "ended"} \/ calls[l].request # None

IndexesInit ==
  /\ refresh \in BOOLEAN
  /\ cache \in Caches
  /\ opened = [k \in Keys |-> None]
  /\ kept = [r \in Repos |-> None]
  /\ calls = [l \in Loads |-> Idle]

-----------------------------------------------------------------------------
(* Merging.                                                                *)

RepoAt(request, n) == IF n = 1 THEN request.archive ELSE request.sources[n - 1]
LastRepo(request)  == 1 + Len(request.sources)
ReposOf(request)   == {RepoAt(request, n) : n \in 1..LastRepo(request)}

(* parts is a sequence of repositories and their parts.  One part alone is *)
(* answered as it is; of several, every one is searched, and those read    *)
(* from a cache because they could not be reached are missing as well.     *)
Union(parts, unreachable) ==
  IF parts = <<>> THEN None
  ELSE [searched |-> [r \in Repos |->
          IF \E n \in DOMAIN parts : parts[n].repo = r
          THEN (CHOOSE n \in Range(parts) : n.repo = r).of ELSE "none"],
        missing |-> unreachable
                      \cup {n.repo : n \in {p \in Range(parts) : p.missing}}]

IsWhole(answer) == answer.missing = {}

(* An answer is remembered when nothing is missing from it, and offline    *)
(* whatever is missing.                                                    *)
KeyShared(request, offline) == <<request, FALSE>>
Key(request, offline) == <<request, offline>>
Remembers(answer, offline) == offline \/ IsWhole(answer)

-----------------------------------------------------------------------------
(* Known: the answer for the last page, without fetching.  It reads the    *)
(* memory and the cache files only and is one step.                        *)

Found(repo) ==
  IF kept[repo] # None THEN kept[repo]
  ELSE [of |-> cache[repo], missing |-> FALSE]

CanFind(repo) == kept[repo] # None \/ cache[repo] # "none"

Offline(request) ==
  LET repos == [n \in 1..LastRepo(request) |-> RepoAt(request, n)]
      there == SelectSeq(repos, CanFind)
  IN  Union([n \in DOMAIN there |->
               [repo |-> there[n], of |-> Found(there[n]).of,
                missing |-> Found(there[n]).missing]],
            {r \in Range(repos) : ~CanFind(r)})

(* What was answered offline before is answered again, except that PyPI's  *)
(* own load comes first.                                                   *)
KnownFor(request) ==
  IF opened[Key(request, TRUE)] # None
     /\ ~(request.archive = PyPI /\ kept[PyPI] # None)
  THEN opened[Key(request, TRUE)] ELSE Offline(request)

Known(request) ==
  opened' = IF KnownFor(request) = None THEN opened
            ELSE [opened EXCEPT ![Key(request, TRUE)] = KnownFor(request)]

-----------------------------------------------------------------------------
(* Open: a load of the picker, one repository after the other.             *)

CallAt(l, at) == calls[l].at = at

CancelCall(call) == [call EXCEPT !.canceled = TRUE]

Ends(l, answer) ==
  calls' = [calls EXCEPT ![l] =
    [Idle EXCEPT !.at = "ended", !.request = calls[l].request, !.answer = answer]]

(* The request has been answered before, or its archive comes first.       *)
LookUp(l) ==
  /\ CallAt(l, "asked")
  /\ LET answered == opened[Key(calls[l].request, FALSE)]
     IN  IF answered # None THEN Ends(l, answered)
         ELSE calls' = [calls EXCEPT ![l] = [calls[l] EXCEPT !.at = "parts", !.next = 1]]
  /\ UNCHANGED <<refresh, cache, opened, kept>>

Repo(l) == RepoAt(calls[l].request, calls[l].next)
HasNext(l) == CallAt(l, "parts") /\ calls[l].next <= LastRepo(calls[l].request)

With(l, part) ==
  calls' = [calls EXCEPT ![l] = [calls[l] EXCEPT !.next = @ + 1,
     !.parts = Append(@, [repo |-> Repo(l), of |-> part.of, missing |-> part.missing])]]

(* A part this run fetched whole answers at once.                          *)
PartKept(l) ==
  /\ HasNext(l) /\ kept[Repo(l)] # None
  /\ With(l, kept[Repo(l)])
  /\ UNCHANGED <<refresh, cache, opened, kept>>

WithPart(l, part) ==
  /\ With(l, part)
  /\ kept' = IF part.missing THEN kept ELSE [kept EXCEPT ![Repo(l)] = part]

(* A cache that is fresh is as good as a fetch, unless --refresh-index     *)
(* asks for one.                                                           *)
FreshWillDo(repo) == cache[repo] \in {"fresh", "run"} /\ ~refresh
PartFresh(l) ==
  /\ HasNext(l) /\ kept[Repo(l)] = None /\ FreshWillDo(Repo(l))
  /\ WithPart(l, [of |-> cache[Repo(l)], missing |-> FALSE])
  /\ UNCHANGED <<refresh, cache, opened>>

Fetching(l) == HasNext(l) /\ kept[Repo(l)] = None /\ ~FreshWillDo(Repo(l))

PartFetched(l) ==
  /\ Fetching(l) /\ ~calls[l].canceled
  /\ cache' = [cache EXCEPT ![Repo(l)] = "run"]
  /\ WithPart(l, [of |-> "run", missing |-> FALSE])
  /\ UNCHANGED <<refresh, opened>>

(* It cannot be reached, a source not within its twenty seconds.  An old   *)
(* cache is served and marked; PyPI's says so in its description only.     *)
PartStale(l) ==
  /\ Fetching(l) /\ ~calls[l].canceled /\ cache[Repo(l)] # "none"
  /\ WithPart(l, [of |-> cache[Repo(l)], missing |-> Repo(l) # PyPI])
  /\ UNCHANGED <<refresh, cache, opened>>

(* It is left out and named.  Fedora's repositories, and PyPI, are the     *)
(* whole answer, so their failure is the call's.                           *)
PartUnreachable(l) ==
  /\ Fetching(l) /\ (calls[l].canceled \/ cache[Repo(l)] = "none")
  /\ calls' = [calls EXCEPT ![l] =
       [calls[l] EXCEPT !.next = @ + 1, !.unreachable = @ \cup {Repo(l)}]]
  /\ UNCHANGED <<refresh, cache, opened, kept>>

Merge(l) ==
  /\ CallAt(l, "parts") /\ ~HasNext(l)
  /\ LET answer == Union(calls[l].parts, calls[l].unreachable)
     IN  /\ Ends(l, answer)
         /\ opened' = IF answer # None /\ Remembers(answer, FALSE)
                      THEN [opened EXCEPT ![Key(calls[l].request, FALSE)] = answer]
                      ELSE opened
  /\ UNCHANGED <<refresh, cache, kept>>

CallStep(l) ==
  \/ LookUp(l) \/ PartKept(l) \/ PartFresh(l) \/ PartFetched(l)
  \/ PartStale(l) \/ PartUnreachable(l) \/ Merge(l)
=============================================================================
