----------------------------- MODULE OpenIndex ------------------------------
(***************************************************************************)
(* index.Open, OpenSource and OpenFedora: one opening of a repository's    *)
(* package index, from the cache file when it will do and from the network *)
(* otherwise, while the mirror goes on publishing and other processes use  *)
(* the same cache.                                                         *)
(*                                                                         *)
(* A repository is an apt archive of some pockets, each a Release file and *)
(* the index files it lists, or Fedora's repositories, each a repomd.xml   *)
(* and the one file it names.  What a file holds is the revision it was    *)
(* published at, which decides its size too.  Parsing is left out: a file  *)
(* is the listed one, or it is not and may be shorter or longer.           *)
(***************************************************************************)
EXTENDS Integers, FiniteSets

CONSTANTS
  LastPocket,   \* how many pockets, the release's own the first, or
                \* Fedora repositories
  Files,        \* how many files an apt pocket lists, one per component
  MaxRevision,  \* bound: revisions the mirror publishes
  Size(_),      \* bytes of a file at a revision
  None, Broken

ASSUME BoundsAssumption == {LastPocket, Files, MaxRevision} \subseteq Nat \ {0}
ASSUME SizeAssumption == \A r \in 1..MaxRevision : Size(r) \in Nat \ {0}

VARIABLES
  kind,         \* "apt" or "fedora"
  frozen,       \* the mirror has the first pocket only
  listed,       \* revision the Release file or repomd.xml of a pocket lists
  served,       \* revision of the files it serves
  disk,         \* the cache file: None (or another source's), Broken, or an
                \* index and its age
  at,
  offline, refresh,
  ctx,          \* of the caller: "live", "canceled", or past its deadline
  cached,       \* the index readCache returned
  plan,         \* revision the plan of a pocket lists, 0 while there is none
  pocket, file, \* what is read next
  again,        \* the pocket is being read for the second time
  got,          \* the revision each file was read at
  done, total,  \* the fetcher's doneBytes and totalBytes
  pocketBytes,
  reported,     \* what Progress was told last
  answer,       \* the index the call returned
  error,        \* or why it returned none: "unavailable" of whatever cause,
                \* with errTooLarge told apart, or "ended" as the context did
  begun         \* history: what was listed when the call began

mirror   == <<kind, frozen, listed, served>>
request  == <<offline, refresh, begun>>
fetching == <<plan, pocket, file, again, got>>
progress == <<done, total, pocketBytes, reported>>
result   == <<answer, error>>
vars == <<mirror, disk, at, request, ctx, cached, fetching, progress, result>>

Pockets   == 1..LastPocket
FileIds   == 1..Files
Revisions == 1..MaxRevision
Contents  == [Pockets -> [FileIds -> 0..MaxRevision]]
Nothing   == [p \in Pockets |-> [f \in FileIds |-> 0]]
Cached    == [content : Contents, fresh : BOOLEAN]
Served    == [content : Contents, missing : BOOLEAN]
ASSUME NoneAssumption ==
  None \notin Contents \cup Cached \cup Served /\ Broken \notin Cached

LastFile  == IF kind = "fedora" THEN 1 ELSE Files
Reading   == {"planning", "files", "replan"}

(* An index as the repository publishes it at these revisions.             *)
Index(revision) ==
  [p \in Pockets |-> [f \in FileIds |->
     IF f > LastFile \/ (frozen /\ p > 1) THEN 0 ELSE revision[p]]]

(* Its bytes, one by one: byte i of file f of pocket p.                    *)
SizeAt(r) == IF r = 0 THEN 0 ELSE Size(r)
Places == Pockets \X FileIds
BytesOf(content) ==
  UNION {{pf} \X (1 .. SizeAt(content[pf[1]][pf[2]])) : pf \in Places}
Bytes(content) == Cardinality(BytesOf(content))

TypeOK ==
  /\ kind \in {"apt", "fedora"} /\ frozen \in BOOLEAN
  /\ listed \in [Pockets -> Revisions] /\ served \in [Pockets -> Revisions]
  /\ disk \in Cached \cup {None, Broken}
  /\ at \in {"idle", "looking", "removing", "writing", "done"} \cup Reading
  /\ offline \in BOOLEAN /\ refresh \in BOOLEAN /\ again \in BOOLEAN
  /\ ctx \in {"live", "canceled", "expired"}
  /\ cached \in Contents \cup {None}
  /\ plan \in [Pockets -> 0..MaxRevision]
  /\ pocket \in 1..(LastPocket + 1) /\ file \in FileIds
  /\ got \in Contents
  /\ done \in Nat /\ total \in Nat /\ pocketBytes \in Nat
  /\ reported \in Nat \X Nat
  /\ answer \in Served \cup {None}
  /\ error \in {"none", "unavailable", "toolong", "ended"}
  /\ begun \in [Pockets -> Revisions]

Init ==
  /\ kind \in {"apt", "fedora"} /\ frozen \in BOOLEAN
  /\ kind = "fedora" => ~frozen
  /\ listed = [p \in Pockets |-> 1] /\ served = listed
  /\ disk \in {None, Broken}
       \cup {[content |-> Index(listed), fresh |-> b] : b \in BOOLEAN}
  /\ at = "idle" /\ offline = FALSE /\ refresh = FALSE /\ begun = listed
  /\ ctx = "live" /\ cached = None
  /\ answer = None /\ error = "none"
  /\ plan = [p \in Pockets |-> 0] /\ got = Nothing
  /\ pocket = 1 /\ file = 1 /\ again = FALSE
  /\ done = 0 /\ total = 0 /\ pocketBytes = 0 /\ reported = <<0, 0>>

-----------------------------------------------------------------------------
(* The call.                                                               *)

Begin ==
  /\ at = "idle" /\ at' = "looking"
  /\ offline' \in BOOLEAN /\ refresh' \in BOOLEAN
  /\ offline' => ~refresh'
  /\ begun' = listed
  /\ UNCHANGED <<mirror, disk, ctx, cached, fetching, progress, result>>

Answers(content, missing) ==
  /\ answer' = [content |-> content, missing |-> missing]
  /\ at' = "done" /\ error' = error
Errs(cause) == error' = cause /\ at' = "done" /\ answer' = answer
Fetches == at' = "planning" /\ UNCHANGED result

(* readCache finds an index: it will do, or it is kept for a failure.      *)
SufficesWhenFresh == offline \/ disk.fresh
Suffices == offline \/ (disk.fresh /\ ~refresh)
ReadCache ==
  /\ at = "looking" /\ disk \in Cached
  /\ cached' = disk.content
  /\ IF Suffices THEN Answers(disk.content, FALSE) ELSE Fetches
  /\ UNCHANGED <<mirror, disk, request, ctx, fetching, progress>>

NoCache == IF offline THEN Errs("unavailable") ELSE Fetches

NothingCached ==
  /\ at = "looking" /\ disk = None
  /\ NoCache
  /\ UNCHANGED <<mirror, disk, request, ctx, cached, fetching, progress>>

(* A file that does not parse is deleted, by its name: whatever is there   *)
(* by then.                                                                *)
CacheIsBroken ==
  /\ at = "looking" /\ disk = Broken /\ at' = "removing"
  /\ UNCHANGED <<mirror, disk, request, ctx, cached, fetching, progress, result>>
RemoveCache ==
  /\ at = "removing" /\ disk' = None
  /\ NoCache
  /\ UNCHANGED <<mirror, request, ctx, cached, fetching, progress>>

-----------------------------------------------------------------------------
(* fetch: first the plan of every pocket, then their files.                *)

Planned(p, r) ==
  /\ plan' = [plan EXCEPT ![p] = r]
  /\ IF p = LastPocket THEN at' = "files" /\ pocket' = 1
                       ELSE at' = at /\ pocket' = p + 1

Plan ==
  /\ at = "planning" /\ ~(frozen /\ pocket > 1)
  /\ Planned(pocket, listed[pocket])
  /\ total' = total + LastFile * Size(listed[pocket])
  /\ UNCHANGED <<mirror, disk, request, ctx, cached, file, again, got, done,
                 pocketBytes, reported, result>>

(* A frozen mirror has no -updates; that is not an error.                  *)
PocketNotFound ==
  /\ at = "planning" /\ frozen /\ pocket > 1
  /\ Planned(pocket, 0)
  /\ UNCHANGED <<mirror, disk, request, ctx, cached, file, again, got, progress,
                 result>>

(* A pocket without a plan has no files.                                   *)
SkipPocket ==
  /\ at = "files" /\ pocket <= LastPocket /\ plan[pocket] = 0
  /\ pocket' = pocket + 1
  /\ UNCHANGED <<mirror, disk, at, request, ctx, cached, plan, file, again, got,
                 progress, result>>

HasFile == at = "files" /\ pocket <= LastPocket /\ plan[pocket] # 0

(* The body is counted and reported as it is read.                         *)
Read(bytes) == reported' = IF bytes = 0 THEN reported ELSE <<done + bytes, total>>

(* Size and digest are what the plan says.  Fedora's file is named by its  *)
(* digest, and may stay there under its name when a newer one is listed.   *)
Matches ==
  \/ served[pocket] = plan[pocket]
  \/ kind = "fedora" /\ served[pocket] > plan[pocket]
FileMatches ==
  /\ HasFile /\ Matches
  /\ Read(Size(plan[pocket]))
  /\ done' = done + Size(plan[pocket])
  /\ got' = [got EXCEPT ![pocket][file] = plan[pocket]]
  /\ IF file = LastFile
       THEN /\ pocket' = pocket + 1 /\ file' = 1
            /\ pocketBytes' = 0 /\ again' = FALSE
       ELSE /\ pocket' = pocket /\ file' = file + 1
            /\ pocketBytes' = pocketBytes + Size(plan[pocket])
            /\ again' = again
  /\ UNCHANGED <<mirror, disk, at, request, ctx, cached, plan, total, result>>

(* errChanged: the body is cut, or is that of another revision, or for     *)
(* Fedora gone under the name it had (errNotFound).                        *)
ChangedAfter ==
  0..(Size(plan[pocket]) - 1)
    \cup IF Matches THEN {} ELSE {Size(served[pocket])} \cap {Size(plan[pocket])}

(* Once more, from the pocket's Release on; its bytes are taken back.      *)
OnceMoreForEver == TRUE
OnceMore == ~again
SameFile == got' = got /\ file' = file
WholePocket == got' = [got EXCEPT ![pocket] = Nothing[pocket]] /\ file' = 1
NotTakenBack == done
TakenBackAsListed == done - LastFile * Size(plan[pocket])
TakenBack == done - pocketBytes
FileChanged ==
  /\ HasFile /\ OnceMore
  /\ \E bytes \in ChangedAfter : Read(bytes)
  /\ done' = TakenBack /\ pocketBytes' = 0
  /\ WholePocket
  /\ again' = TRUE /\ at' = "replan"
  /\ UNCHANGED <<mirror, disk, request, ctx, cached, plan, pocket, total, result>>

(* Only Fedora's total follows what the second plan lists.                 *)
NewTotal ==
  IF kind = "fedora" THEN total + Size(listed[pocket]) - Size(plan[pocket])
                     ELSE total
Replan ==
  /\ at = "replan" /\ at' = "files"
  /\ plan' = [plan EXCEPT ![pocket] = listed[pocket]]
  /\ total' = NewTotal
  /\ UNCHANGED <<mirror, disk, request, ctx, cached, pocket, file, again, got,
                 done, pocketBytes, reported, result>>

(* The fetch fails: a stale cache is served and says so, unless the caller *)
(* gave up, which a deadline of its own does not mean.                     *)
FailsWith(cause) ==
  IF ctx # "canceled" /\ cached # None
  THEN Answers(cached, TRUE)
  ELSE Errs(IF ctx = "live" THEN cause ELSE "ended")

(* A request that fails, a second mismatch, or the context's end.          *)
FetchFails ==
  /\ at \in Reading
  /\ FailsWith("unavailable")
  /\ UNCHANGED <<mirror, disk, request, ctx, cached, fetching, progress>>

(* errTooLarge: apt's file keeps its name, and one longer than listed is   *)
(* read one byte past its listed size, and not a second time.              *)
FileTooLong ==
  /\ HasFile /\ kind = "apt" /\ Size(served[pocket]) > Size(plan[pocket])
  /\ Read(Size(plan[pocket]) + 1)
  /\ FailsWith("toolong")
  /\ UNCHANGED <<mirror, disk, request, ctx, cached, fetching, done, total,
                 pocketBytes>>

Fetched ==
  /\ at = "files" /\ pocket > LastPocket /\ at' = "writing"
  /\ UNCHANGED <<mirror, disk, request, ctx, cached, fetching, progress, result>>

(* writeCache: a temporary file renamed over the old one, or nothing.      *)
WriteCache ==
  /\ at = "writing"
  /\ \/ disk' = [content |-> got, fresh |-> TRUE]
     \/ disk' = disk
  /\ Answers(got, FALSE)
  /\ UNCHANGED <<mirror, request, ctx, cached, fetching, progress>>

-----------------------------------------------------------------------------
(* The world around the call.                                              *)

Running == at \notin {"idle", "done"}

(* The caller cancels, or the 20 seconds of a source are over.             *)
EndContext ==
  /\ Running /\ ctx = "live" /\ ctx' \in {"canceled", "expired"}
  /\ UNCHANGED <<mirror, disk, at, request, cached, fetching, progress, result>>

(* A mirror publishes files and lists one after the other, in any order.   *)
PublishFiles(p) ==
  /\ served[p] <= listed[p] /\ served[p] < MaxRevision
  /\ served' = [served EXCEPT ![p] = @ + 1]
  /\ UNCHANGED <<kind, frozen, listed, disk, at, request, ctx, cached, fetching,
                 progress, result>>
PublishList(p) ==
  /\ listed[p] <= served[p] /\ listed[p] < MaxRevision
  /\ listed' = [listed EXCEPT ![p] = @ + 1]
  /\ UNCHANGED <<kind, frozen, served, disk, at, request, ctx, cached, fetching,
                 progress, result>>

(* Another frostroot fetches the index and writes the cache.               *)
OtherWrites ==
  /\ Running /\ served = listed
  /\ disk' = [content |-> Index(listed), fresh |-> TRUE]
  /\ UNCHANGED <<mirror, at, request, ctx, cached, fetching, progress, result>>

(* A week passes, or for a source a day, and the index is opened again.    *)
Again ==
  /\ at = "done" /\ at' = "idle"
  /\ disk' \in {disk} \cup {[d EXCEPT !.fresh = FALSE] : d \in {disk} \cap Cached}
  /\ offline' = FALSE /\ refresh' = FALSE
  /\ ctx' = "live" /\ cached' = None
  /\ answer' = None /\ error' = "none"
  /\ plan' = [p \in Pockets |-> 0] /\ got' = Nothing
  /\ pocket' = 1 /\ file' = 1 /\ again' = FALSE
  /\ done' = 0 /\ total' = 0 /\ pocketBytes' = 0 /\ reported' = <<0, 0>>
  /\ UNCHANGED <<mirror, begun>>

Step ==
  \/ Begin \/ ReadCache \/ NothingCached \/ CacheIsBroken \/ RemoveCache
  \/ Plan \/ PocketNotFound \/ SkipPocket \/ Replan
  \/ FileMatches \/ FileChanged \/ FileTooLong \/ FetchFails
  \/ Fetched \/ WriteCache

Next ==
  \/ Step \/ EndContext \/ OtherWrites \/ Again
  \/ \E p \in Pockets : PublishFiles(p) \/ PublishList(p)

(* The call's own code runs on, and every request it makes is answered or  *)
(* fails: a header has a timeout, a body may stall only for ever.          *)
Spec == Init /\ [][Next]_vars /\ WF_vars(Step)

-----------------------------------------------------------------------------
(* Properties.                                                             *)

(* Nothing half published is searched or cached: whatever is answered, or  *)
(* lies in the cache, is of each pocket all files of one revision, though  *)
(* the mirror publishes between any two requests and a pocket is read      *)
(* twice (the package comment: "guards against a truncated or              *)
(* half-published download").                                              *)
Whole(content) ==
  /\ \A p \in Pockets : \A f, g \in 1..LastFile : content[p][f] = content[p][g]
  /\ \A p \in Pockets : content[p][1] = 0 <=> frozen /\ p > 1
AnswerIsWhole ==
  /\ answer \in Served => Whole(answer.content)
  /\ disk \in Cached => Whole(disk.content)

(* What --refresh-index is answered is as new as the repository was when   *)
(* asked, or marked missing: a cache another process writes meanwhile, or  *)
(* the old one after a failure, never passes for the fetch.                *)
RefreshIsHonoured ==
  answer \in Served /\ refresh /\ ~answer.missing =>
    \A p \in Pockets : answer.content[p][1] = 0 \/ answer.content[p][1] >= begun[p]

(* A download that is told in full is told once: however a pocket had to   *)
(* be read twice, the bytes reported last are those of the index that was  *)
(* read, and for Fedora all of the total ("progress ended at %d of %d,     *)
(* want all of a known total").  For apt a total follows no second plan.   *)
ProgressIsTrue ==
  at = "writing" =>
    /\ reported[1] = Bytes(got)
    /\ kind = "fedora" => reported[2] = Bytes(got)

(* A repository that keeps changing, or cutting its answers short, is      *)
(* asked a bounded number of times: as long as requests end, so does the   *)
(* call.                                                                   *)
EndsIfAnswered == at = "looking" ~> at = "done"
=============================================================================
