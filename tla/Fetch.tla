------------------------------- MODULE Fetch --------------------------------
(***************************************************************************)
(* pool.Fetch: the verified, concurrent download that fills one pool       *)
(* directory.  A dispatcher hands the needed files one by one, over an     *)
(* unbuffered channel, to a fixed number of workers; each downloads into a *)
(* temporary file of its own, checks it against the lock, and renames it   *)
(* to its final name.  The first failure is recorded and then cancels the  *)
(* others, as Ctrl-C cancels them all.                                     *)
(*                                                                         *)
(* The file contents are abstracted to what the checks tell apart (see     *)
(* VerifiedPool), a server to the answers the code distinguishes, and an   *)
(* error to its kind.  Removing the run's own temporary file, best effort  *)
(* in the code, is taken to succeed.                                       *)
(***************************************************************************)
EXTENDS Naturals, FiniteSets

CONSTANTS
  Entries,       (* the files the lock names: []Entry, one per file name   *)
  Sized,         (* those whose size the lock records (Entry.Size > 0)     *)
  HasFallback,   (* those FetchOptions.Fallback has another URL for        *)
  Workers,       (* the worker goroutines                                  *)
  MaxRuns,       (* bound on how often the command is run                  *)
  NoEntry        (* a worker's job while it has none                       *)

ASSUME FetchAssumption ==
  /\ Sized \subseteq Entries
  /\ HasFallback \subseteq Entries
  /\ Workers # {}
  /\ MaxRuns \in Nat \ {0}
  /\ NoEntry \notin Entries

VARIABLES
  file,          (* what the pool directory holds under each final name    *)
  runs,          (* how many times the command has been started            *)
  phase,         (* where Fetch itself is                                  *)
  pending,       (* needed entries the dispatcher has not handed out       *)
  present,       (* Summary.Present: what Verify found in place            *)
  fetched,       (* fetcher.fetched: what this run put in place            *)
  interrupted,   (* the caller's context is canceled (Ctrl-C, a signal)    *)
  cancelCalled,  (* a worker called the derived context's cancel           *)
  firstErr,      (* the kind of fetcher.firstErr, or "none"                *)
  outcome,       (* what Fetch returned, "none" until then                 *)
  at,            (* where each worker is                                   *)
  job,           (* the entry each worker has received                     *)
  source,        (* whether its URL is the mirror's or the fallback's      *)
  attempt,       (* downloadWithRetry's first or second try                *)
  err,           (* the error fetchOne is about to return                  *)
  temp,          (* its temporary file                                     *)
  said404        (* history: the sources of each entry that answered 404   *)

workerVars == <<at, job, source, attempt, err, temp>>
runVars    == <<pending, present, fetched, firstErr, outcome>>
vars == <<file, runs, phase, pending, present, fetched, interrupted,
          cancelCalled, firstErr, outcome, at, job, source, attempt, err,
          temp, said404>>

Pool == INSTANCE VerifiedPool

Sources == {"mirror", "fallback"}
WorkerStates == {"idle", "received", "request", "body", "check", "land",
                 "landed", "sleep", "failed", "recorded", "exited"}
Phases == {"idle", "dispatch", "wait", "returned", "unread", "killed"}

TypeOK ==
  /\ file \in [Entries -> Pool!Contents]
  /\ runs \in 1..MaxRuns
  /\ phase \in Phases
  /\ pending \subseteq Entries
  /\ present \subseteq Entries
  /\ fetched \subseteq Entries
  /\ interrupted \in BOOLEAN
  /\ cancelCalled \in BOOLEAN
  /\ firstErr \in Pool!ErrorKinds \cup {"none"}
  /\ outcome \in Pool!Outcomes \cup {"none"}
  /\ at \in [Workers -> WorkerStates]
  /\ job \in [Workers -> Entries \cup {NoEntry}]
  /\ source \in [Workers -> Sources]
  /\ attempt \in [Workers -> 1..2]
  /\ err \in [Workers -> Pool!ErrorKinds \cup {"none"}]
  /\ temp \in [Workers -> {"none", "partial", "good", "bad"}]
  /\ said404 \in [Entries -> SUBSET Sources]

(* ctx.Err() # nil of the derived context the workers and downloads use.   *)
Canceled == interrupted \/ cancelCalled

Running == phase \in {"dispatch", "wait"}
Ended   == phase \in {"returned", "unread", "killed"}

-----------------------------------------------------------------------------
(* The run: Verify, dispatch, wait, return.                                *)

Init ==
  /\ file \in [Entries -> Pool!Contents]
  /\ runs = 1
  /\ phase = "idle"
  /\ pending = {} /\ present = {} /\ fetched = {}
  /\ interrupted = FALSE /\ cancelCalled = FALSE
  /\ firstErr = "none" /\ outcome = "none"
  /\ at = [w \in Workers |-> "exited"]
  /\ job = [w \in Workers |-> NoEntry]
  /\ source = [w \in Workers |-> "mirror"]
  /\ attempt = [w \in Workers |-> 1]
  /\ err = [w \in Workers |-> "none"]
  /\ temp = [w \in Workers |-> "none"]
  /\ said404 = [e \in Entries |-> {}]

(* What Verify returns as Present; Missing and Corrupt are the others.     *)
PresentWithoutHash == {e \in Entries : file[e] # "absent"}
Present == {e \in Entries : file[e] = "good"}

(* Verify, then the workers are started on what is missing or corrupt.     *)
Start ==
  /\ phase = "idle"
  /\ Present # Entries
  /\ phase' = "dispatch"
  /\ present' = Present
  /\ pending' = Entries \ Present
  /\ at' = [w \in Workers |-> "idle"]
  /\ UNCHANGED <<file, runs, fetched, interrupted, cancelCalled,
                 firstErr, outcome, job, source, attempt, err, temp, said404>>

(* Verify found everything in place: no download, only ctx.Err() decides.  *)
NothingNeeded ==
  /\ phase = "idle"
  /\ Present = Entries
  /\ phase' = "returned"
  /\ present' = Present
  /\ outcome' = IF interrupted THEN "canceled" ELSE "ok"
  /\ UNCHANGED <<file, runs, pending, fetched, interrupted,
                 cancelCalled, firstErr, workerVars, said404>>

(* MkdirAll or Verify cannot read the directory: nothing was started.      *)
CannotVerify ==
  /\ phase = "idle"
  /\ phase' = "unread"
  /\ outcome' = "other"
  /\ UNCHANGED <<file, runs, pending, present, fetched, interrupted,
                 cancelCalled, firstErr, workerVars, said404>>

(* jobs <- entry meets a worker's receive.                                 *)
Dispatch(w, e) ==
  /\ phase = "dispatch" /\ e \in pending /\ at[w] = "idle"
  /\ pending' = pending \ {e}
  /\ at' = [at EXCEPT ![w] = "received"]
  /\ job' = [job EXCEPT ![w] = e]
  /\ UNCHANGED <<file, runs, phase, present, fetched, interrupted,
                 cancelCalled, firstErr, outcome, source, attempt, err, temp,
                 said404>>

(* The other arm of the dispatcher's select: the entry is not handed out.  *)
Skip(e) ==
  /\ phase = "dispatch" /\ e \in pending
  /\ Canceled
  /\ pending' = pending \ {e}
  /\ UNCHANGED <<file, runs, phase, present, fetched, interrupted,
                 cancelCalled, firstErr, outcome, workerVars, said404>>

(* close(jobs).                                                            *)
CloseJobs ==
  /\ phase = "dispatch" /\ pending = {}
  /\ phase' = "wait"
  /\ UNCHANGED <<file, runs, runVars, interrupted, cancelCalled,
                 workerVars, said404>>

JobsClosedNever == FALSE
JobsClosed == phase = "wait"

(* What Fetch returns: the first error, or else what the context says.     *)
Verdict ==
  IF firstErr # "none" THEN firstErr
  ELSE IF Canceled THEN "canceled" ELSE "ok"

(* workers.Wait() returns, and Fetch with it.                              *)
Return ==
  /\ phase = "wait" /\ \A w \in Workers : at[w] = "exited"
  /\ phase' = "returned"
  /\ outcome' = Verdict
  /\ UNCHANGED <<file, runs, pending, present, fetched, interrupted,
                 cancelCalled, firstErr, workerVars, said404>>

-----------------------------------------------------------------------------
(* A worker: fetchOne, downloadWithRetry and download of one entry.        *)

Goes(w, from, to) == at[w] = from /\ at' = [at EXCEPT ![w] = to]

(* The variables only the run itself changes, not a worker.                *)
runOwned == <<runs, phase, pending, present, interrupted, outcome>>

(* The worker is done with its entry: fetchOne's variables are gone.       *)
Released(w) ==
  /\ job' = [job EXCEPT ![w] = NoEntry]
  /\ source' = [source EXCEPT ![w] = "mirror"]
  /\ attempt' = [attempt EXCEPT ![w] = 1]
  /\ err' = [err EXCEPT ![w] = "none"]

(* A worker looks at the context before it takes up the entry it received. *)
Drain(w) ==
  /\ Canceled
  /\ Goes(w, "received", "idle")
  /\ Released(w)
  /\ UNCHANGED <<file, runOwned, fetched, cancelCalled, firstErr, temp,
                 said404>>

TakeUp(w) ==
  /\ ~Canceled
  /\ Goes(w, "received", "request")
  /\ UNCHANGED <<file, runOwned, fetched, cancelCalled, firstErr, job,
                 source, attempt, err, temp, said404>>

(* downloadWithRetry: what deserves a second try.                          *)
Retries(w, kind) ==
  /\ kind \notin {"notfound", "mismatch"}
  /\ attempt[w] = 1
  /\ ~Canceled

(* fetchOne: what sends an entry to its fallback URL.                      *)
FallsBackOnlyAtFirst(w, kind) ==
  kind = "notfound" /\ source[w] = "mirror" /\ attempt[w] = 1
                    /\ job[w] \in HasFallback
FallsBack(w, kind) ==
  kind = "notfound" /\ source[w] = "mirror" /\ job[w] \in HasFallback

(* download's deferred cleanup.                                            *)
TempKept(w) == temp
TempRemoved(w) == [temp EXCEPT ![w] = "none"]

(* One download has failed with an error of this kind: its temporary file  *)
(* is gone, and the worker sleeps before the second try, turns to the      *)
(* fallback, or gives the entry up.                                        *)
Fails(w, kind) ==
  /\ temp' = TempRemoved(w)
  /\ \/ /\ Retries(w, kind)
        /\ at' = [at EXCEPT ![w] = "sleep"]
        /\ err' = [err EXCEPT ![w] = kind]
        /\ UNCHANGED <<source, attempt>>
     \/ /\ ~Retries(w, kind) /\ FallsBack(w, kind)
        /\ at' = [at EXCEPT ![w] = "request"]
        /\ source' = [source EXCEPT ![w] = "fallback"]
        /\ attempt' = [attempt EXCEPT ![w] = 1]
        /\ UNCHANGED err
     \/ /\ ~Retries(w, kind) /\ ~FallsBack(w, kind)
        /\ at' = [at EXCEPT ![w] = "failed"]
        /\ err' = [err EXCEPT ![w] = kind]
        /\ UNCHANGED <<source, attempt>>
  /\ UNCHANGED <<file, runOwned, fetched, cancelCalled, firstErr, job>>

(* The server answers 404.                                                 *)
NotFound(w) ==
  /\ at[w] = "request"
  /\ said404' = [said404 EXCEPT ![job[w]] = @ \cup {source[w]}]
  /\ Fails(w, "notfound")

(* Content-Length differs from the size the lock records.                  *)
WrongLength(w) ==
  /\ at[w] = "request" /\ job[w] \in Sized
  /\ Fails(w, "mismatch")
  /\ UNCHANGED said404

(* The request or the body breaks: a network error, a status that is       *)
(* neither 200 nor 404, a timeout, a temporary file that cannot be made or *)
(* written.                                                                *)
Break(w) ==
  /\ at[w] \in {"request", "body"}
  /\ Fails(w, "other")
  /\ UNCHANGED said404

(* The canceled context aborts the request or the body being read.         *)
AbortsOnlyRequests(w) == Canceled /\ at[w] = "request"
Aborts(w) == Canceled /\ at[w] \in {"request", "body"}

Abort(w) ==
  /\ Aborts(w)
  /\ Fails(w, "canceled")
  /\ UNCHANGED said404

(* 200: the temporary file is created.                                     *)
OpenBody(w) ==
  /\ Goes(w, "request", "body")
  /\ temp' = [temp EXCEPT ![w] = "partial"]
  /\ UNCHANGED <<file, runOwned, fetched, cancelCalled, firstErr, job,
                 source, attempt, err, said404>>

(* The body ends.  What was served is the locked file, or it is not.       *)
EndBody(w, content) ==
  /\ Goes(w, "body", "check")
  /\ temp' = [temp EXCEPT ![w] = content]
  /\ UNCHANGED <<file, runOwned, fetched, cancelCalled, firstErr, job,
                 source, attempt, err, said404>>

(* The size received and the SHA-256 are compared with the lock's.         *)
MatchesUnsized(w) == job[w] \notin Sized \/ temp[w] = "good"
Matches(w) == temp[w] = "good"

Accept(w) ==
  /\ Matches(w)
  /\ Goes(w, "check", "land")
  /\ UNCHANGED <<file, runOwned, fetched, cancelCalled, firstErr, job,
                 source, attempt, err, temp, said404>>

Reject(w) ==
  /\ at[w] = "check" /\ ~Matches(w)
  /\ Fails(w, "mismatch")
  /\ UNCHANGED said404

(* Sync, Close and Rename: all three succeed, or the download fails.       *)
Land(w) ==
  /\ Goes(w, "land", "landed")
  /\ file' = [file EXCEPT ![job[w]] = temp[w]]
  /\ temp' = [temp EXCEPT ![w] = "none"]
  /\ UNCHANGED <<runOwned, fetched, cancelCalled, firstErr, job, source,
                 attempt, err, said404>>

CannotLand(w) ==
  /\ at[w] = "land"
  /\ Fails(w, "other")
  /\ UNCHANGED said404

(* fetched++ under the mutex; the worker is ready for the next entry.      *)
Count(w) ==
  /\ Goes(w, "landed", "idle")
  /\ fetched' = fetched \cup {job[w]}
  /\ Released(w)
  /\ UNCHANGED <<file, runOwned, cancelCalled, firstErr, temp, said404>>

(* Sleep before the second try, cut short by the context.                  *)
Wake(w) ==
  /\ Goes(w, "sleep", "request")
  /\ attempt' = [attempt EXCEPT ![w] = @ + 1]
  /\ err' = [err EXCEPT ![w] = "none"]
  /\ UNCHANGED <<file, runOwned, fetched, cancelCalled, firstErr, job,
                 source, temp, said404>>

StopSleeping(w) ==
  /\ Canceled
  /\ Goes(w, "sleep", "failed")
  /\ UNCHANGED <<file, runOwned, fetched, cancelCalled, firstErr, job,
                 source, attempt, err, temp, said404>>

(* fail(err), then cancel(): two steps, in this order, with other workers  *)
(* free to run between them.                                               *)
KeepFirst(kind) == IF firstErr = "none" THEN kind ELSE firstErr

GiveUpCancelFirst(w) ==
  \/ /\ Goes(w, "failed", "recorded")
     /\ cancelCalled' = TRUE
     /\ UNCHANGED <<firstErr, job, source, attempt, err>>
  \/ /\ Goes(w, "recorded", "idle")
     /\ firstErr' = KeepFirst(err[w])
     /\ Released(w)
     /\ UNCHANGED cancelCalled
GiveUp(w) ==
  \/ /\ Goes(w, "failed", "recorded")
     /\ firstErr' = KeepFirst(err[w])
     /\ UNCHANGED <<cancelCalled, job, source, attempt, err>>
  \/ /\ Goes(w, "recorded", "idle")
     /\ cancelCalled' = TRUE
     /\ Released(w)
     /\ UNCHANGED firstErr

StopOnError(w) ==
  /\ GiveUp(w)
  /\ UNCHANGED <<file, runOwned, fetched, temp, said404>>

(* The range over the closed channel ends.                                 *)
Exit(w) ==
  /\ JobsClosed
  /\ Goes(w, "idle", "exited")
  /\ UNCHANGED <<file, runOwned, fetched, cancelCalled, firstErr, job,
                 source, attempt, err, temp, said404>>

-----------------------------------------------------------------------------
(* The world around the run.                                               *)

(* Ctrl-C or a signal cancels the caller's context.                        *)
Interrupt ==
  /\ phase \in {"idle", "dispatch", "wait"} /\ ~interrupted
  /\ interrupted' = TRUE
  /\ UNCHANGED <<file, runs, phase, runVars, cancelCalled, workerVars,
                 said404>>

NoWorkers ==
  /\ at' = [w \in Workers |-> "exited"]
  /\ job' = [w \in Workers |-> NoEntry]
  /\ source' = [w \in Workers |-> "mirror"]
  /\ attempt' = [w \in Workers |-> 1]
  /\ err' = [w \in Workers |-> "none"]
  /\ temp' = [w \in Workers |-> "none"]

(* The process ends at once: a second Ctrl-C, or a kill.  No deferred      *)
(* cleanup runs: the temporary files stay, under names no later run takes  *)
(* (export.CreateTemp), for vendor --prune to remove; see module Vendor.   *)
Kill ==
  /\ Running
  /\ phase' = "killed"
  /\ NoWorkers
  /\ UNCHANGED <<file, runs, runVars, interrupted, cancelCalled, said404>>

(* The user runs the command again over the same directory.                *)
Rerun ==
  /\ Ended /\ runs < MaxRuns
  /\ runs' = runs + 1
  /\ phase' = "idle"
  /\ pending' = {} /\ present' = {} /\ fetched' = {}
  /\ interrupted' = FALSE /\ cancelCalled' = FALSE
  /\ firstErr' = "none" /\ outcome' = "none"
  /\ said404' = [e \in Entries |-> {}]
  /\ UNCHANGED <<file, workerVars>>

(* Nothing is left to happen.                                              *)
Over ==
  /\ Ended /\ runs = MaxRuns
  /\ UNCHANGED vars

-----------------------------------------------------------------------------
(* A worker's steps that end by themselves: its own code, and answers,     *)
(* which the dialer's, the handshake's and the header timeouts bound.      *)
WorkerStep(w) ==
  \/ Drain(w) \/ TakeUp(w)
  \/ NotFound(w) \/ WrongLength(w) \/ OpenBody(w)
  \/ Accept(w) \/ Reject(w) \/ Land(w) \/ CannotLand(w) \/ Count(w)
  \/ Wake(w) \/ StopSleeping(w)
  \/ StopOnError(w)
  \/ Exit(w)

(* Reading a body has no timeout: the server decides when it ends, and     *)
(* only the context can cut it short.                                      *)
BodyStep(w) ==
  Break(w) \/ \E content \in {"good", "bad"} : EndBody(w, content)

DispatcherStep ==
  \/ \E w \in Workers, e \in Entries : Dispatch(w, e)
  \/ \E e \in Entries : Skip(e)
  \/ CloseJobs \/ Return

Next ==
  \/ Start \/ NothingNeeded \/ CannotVerify
  \/ DispatcherStep
  \/ \E w \in Workers : WorkerStep(w) \/ BodyStep(w) \/ Abort(w)
  \/ Interrupt \/ Kill \/ Rerun \/ Over

(* The Go scheduler runs every goroutine that can run; a canceled context  *)
(* aborts a read.  Nothing is assumed of a server that is sending a body,  *)
(* of the user, or of kills.                                               *)
Fairness ==
  /\ WF_vars(DispatcherStep)
  /\ \A w \in Workers : WF_vars(WorkerStep(w)) /\ WF_vars(Abort(w))

Spec == Init /\ [][Next]_vars /\ Fairness

-----------------------------------------------------------------------------
(* The inductive invariant behind the safety properties, part by part.     *)

(* A worker holds an entry exactly while it works on one, and a temporary  *)
(* file only from the open body to the rename, which only a file that      *)
(* matched the lock reaches.                                               *)
WorkersConsistent ==
  \A w \in Workers :
    /\ job[w] = NoEntry <=> at[w] \in {"idle", "exited"}
    /\ job[w] = NoEntry => err[w] = "none" /\ source[w] = "mirror"
    /\ temp[w] # "none" => at[w] \in {"body", "check", "land"}
    /\ at[w] = "check" => temp[w] \in {"good", "bad"}
    /\ at[w] = "land" => temp[w] = "good"
    /\ at[w] = "landed" => file[job[w]] = "good"
    /\ at[w] \in {"failed", "recorded"} => err[w] # "none"
    /\ attempt[w] = 2 => at[w] # "sleep"
    /\ at[w] = "sleep" => err[w] # "none"

(* Outside a run no worker exists; once the channel is closed nothing is   *)
(* left to hand out, and a worker exits only then.                         *)
RunConsistent ==
  /\ phase = "idle" => fetched = {}
  /\ phase = "wait" => pending = {}
  /\ ~Running => \A w \in Workers : at[w] = "exited"
  /\ phase = "dispatch" => \A w \in Workers : at[w] # "exited"

(* No entry is lost: until something cancels the run, each is in place, or *)
(* still to be handed out, or in a worker's hands.                         *)
NoEntryLost ==
  Running /\ ~Canceled =>
    \A e \in Entries : \/ file[e] = "good"
                       \/ e \in pending
                       \/ \E w \in Workers : job[w] = e

(* A worker cancels only after an error is recorded, so the first error is *)
(* a cancellation only if the user's came first.                           *)
CancelHasACause ==
  /\ cancelCalled => firstErr # "none"
  /\ \A w \in Workers : at[w] = "recorded" => firstErr # "none"
  /\ \A w \in Workers : err[w] = "canceled" => Canceled
  /\ firstErr = "canceled" => interrupted

(* What the run counts is what is in place.                                *)
CountsAreTrue ==
  phase \in {"dispatch", "wait", "returned"} =>
    {e \in Entries : file[e] = "good"}
      = present \cup fetched
          \cup {job[w] : w \in {v \in Workers : at[v] = "landed"}}

OutcomeIsTrue ==
  /\ Running \/ phase = "idle" => outcome = "none"
  /\ outcome = "ok" => Pool!Complete
  /\ outcome = "canceled" => interrupted

(* A worker that gives an entry up as not found, or has turned to its      *)
(* fallback, has heard 404 from the sources before.                        *)
SourcesOf(e) == IF e \in HasFallback THEN Sources ELSE {"mirror"}
NotFoundIsTrue ==
  /\ \A w \in Workers :
       /\ source[w] = "fallback" => /\ job[w] \in HasFallback
                                   /\ "mirror" \in said404[job[w]]
       /\ err[w] = "notfound" => /\ job[w] \in Entries
                                /\ SourcesOf(job[w]) \subseteq said404[job[w]]
  /\ firstErr = "notfound" =>
       \E e \in Entries : SourcesOf(e) \subseteq said404[e]

FetchInv ==
  /\ TypeOK
  /\ WorkersConsistent
  /\ RunConsistent
  /\ NoEntryLost
  /\ CancelHasACause
  /\ CountsAreTrue
  /\ OutcomeIsTrue
  /\ NotFoundIsTrue

-----------------------------------------------------------------------------
(* Fetch implements VerifiedPool: under a final name a file only ever      *)
(* becomes the locked file, whatever servers send, whoever fails, and      *)
(* whenever the process is interrupted or killed, and Fetch returns no     *)
(* error only when every entry is in place (fetch.go, Fetch's comment).    *)
ImplementsVerifiedPool == Pool!Spec

(* The error Fetch reports is the failure that stopped it, never the       *)
(* cancellation that failure caused in another worker: "canceled" is       *)
(* reported only of a run the user interrupted, which is what vendor's     *)
(* exit code 130 stands for.                                               *)
FirstErrorIsTheCause ==
  firstErr = "canceled" \/ outcome = "canceled" => interrupted

(* A run that returns, however it ends, has no worker still running and no *)
(* temporary file of its own in the pool.                                  *)
NothingLeftBehind ==
  phase = "returned" =>
    \A w \in Workers : at[w] = "exited" /\ temp[w] = "none"

(* What a run reports as present or fetched is exactly what the pool       *)
(* holds, also when it failed or was interrupted half-way: "finished       *)
(* downloads are kept".                                                    *)
SummaryIsAccurate ==
  phase = "returned" =>
    present \cup fetched = {e \in Entries : file[e] = "good"}

(* "Not found" is reported only when every source of some entry, the       *)
(* mirror and the fallback where there is one, has answered 404.           *)
NotFoundMeansEverySource ==
  firstErr = "notfound" => \E e \in Entries : SourcesOf(e) \subseteq said404[e]

(* The first failure, like Ctrl-C, ends the run: no dispatcher blocked on  *)
(* a channel nobody reads, no worker stuck in a body or a sleep.           *)
CancelEnds == (Running /\ Canceled) ~> ~Running

(* Left alone, a run ends unless a server stalls for ever in a body.       *)
EndsUnlessABodyStalls ==
  (\A w \in Workers : []<>(at[w] # "body")) => (Running ~> ~Running)
=============================================================================
