---------------------------- MODULE FetchProofs -----------------------------
(***************************************************************************)
(* Proofs about Fetch, for any set of files, any number of workers and any *)
(* number of runs.                                                         *)
(***************************************************************************)
EXTENDS Fetch, TLAPS

USE DEF Pool!Contents, Pool!ErrorKinds, Pool!Outcomes, Sources, WorkerStates,
        Phases, Canceled, Running, Ended

(* The parts of the invariant a step of the invariant's proof expands.     *)
LEMMA InitInv == Init => FetchInv
<1> SUFFICES ASSUME Init PROVE FetchInv
  OBVIOUS
<1> USE FetchAssumption DEF Init
<1>1. TypeOK
  <2>1. runs \in 1..MaxRuns
    OBVIOUS
  <2>2. at \in [Workers -> WorkerStates] /\ job \in [Workers -> Entries \cup {NoEntry}]
    OBVIOUS
  <2>3. /\ source \in [Workers -> Sources]
        /\ attempt \in [Workers -> 1..2]
        /\ err \in [Workers -> Pool!ErrorKinds \cup {"none"}]
        /\ temp \in [Workers -> {"none", "partial", "good", "bad"}]
    OBVIOUS
  <2>4. said404 \in [Entries -> SUBSET Sources]
    OBVIOUS
  <2> QED
    BY <2>1, <2>2, <2>3, <2>4 DEF TypeOK
<1>2. WorkersConsistent
  BY DEF WorkersConsistent
<1>3. RunConsistent /\ NoEntryLost /\ OutcomeIsTrue /\ CancelHasACause
  BY DEF RunConsistent, NoEntryLost, OutcomeIsTrue, CancelHasACause
<1>4. CountsAreTrue /\ NotFoundIsTrue
  BY DEF CountsAreTrue, NotFoundIsTrue
<1> QED
  BY <1>1, <1>2, <1>3, <1>4 DEF FetchInv

(* A download that fails keeps the invariant, whichever way the worker     *)
(* goes on.                                                                *)
LEMMA FailsInv ==
  ASSUME FetchInv, NEW w \in Workers,
         at[w] \in {"request", "body", "check", "land"},
         NEW kind \in Pool!ErrorKinds, kind = "canceled" => Canceled,
         Fails(w, kind),
         IF kind = "notfound"
           THEN said404' = [said404 EXCEPT ![job[w]] = @ \cup {source[w]}]
           ELSE UNCHANGED said404
  PROVE  FetchInv'
<1> USE FetchAssumption DEF FetchInv
<1>0. job[w] \in Entries
  BY DEF TypeOK, WorkersConsistent
<1>1. TypeOK'
  BY <1>0 DEF TypeOK, Fails, TempRemoved, Retries, FallsBack, runOwned
<1>2. WorkersConsistent'
  BY <1>0 DEF TypeOK, WorkersConsistent, Fails, TempRemoved, Retries, FallsBack, runOwned
<1>3. RunConsistent'
  BY <1>0 DEF TypeOK, RunConsistent, WorkersConsistent, Fails, TempRemoved, runOwned
<1>4. NoEntryLost'
  BY <1>0 DEF TypeOK, NoEntryLost, Fails, runOwned
<1>5. CancelHasACause'
  BY <1>0 DEF TypeOK, CancelHasACause, Fails, runOwned
<1>6. CountsAreTrue'
  BY <1>0 DEF TypeOK, CountsAreTrue, Fails, runOwned
<1>7. OutcomeIsTrue'
  BY DEF TypeOK, OutcomeIsTrue, Pool!Complete, Fails, runOwned
<1>8. NotFoundIsTrue'
  BY <1>0 DEF TypeOK, NotFoundIsTrue, WorkersConsistent, SourcesOf, Fails, FallsBack, Retries, runOwned
<1> QED
  BY <1>1, <1>2, <1>3, <1>4, <1>5, <1>6, <1>7, <1>8

(* The run begins: what Verify did not find in place is to be handed out.  *)
LEMMA StartInv ==
  ASSUME FetchInv, Start
  PROVE  FetchInv'
<1> USE FetchAssumption DEF FetchInv, Start, Present
<1>1. TypeOK'
  BY DEF TypeOK
<1>2. WorkersConsistent'
  BY DEF TypeOK, WorkersConsistent, RunConsistent
<1>3. RunConsistent'
  BY DEF TypeOK, RunConsistent, WorkersConsistent
<1>4. NoEntryLost'
  BY DEF TypeOK, NoEntryLost, WorkersConsistent, RunConsistent
<1>5. CancelHasACause'
  BY DEF TypeOK, CancelHasACause, WorkersConsistent
<1>6. CountsAreTrue'
  BY DEF TypeOK, CountsAreTrue, WorkersConsistent, RunConsistent
<1>7. OutcomeIsTrue'
  BY DEF TypeOK, OutcomeIsTrue, Pool!Complete
<1>8. NotFoundIsTrue'
  BY DEF TypeOK, NotFoundIsTrue, SourcesOf, WorkersConsistent
<1> QED
  BY <1>1, <1>2, <1>3, <1>4, <1>5, <1>6, <1>7, <1>8

(* A run that ends in Verify starts no worker.                             *)
LEMMA NoDownloadInv ==
  ASSUME FetchInv, NothingNeeded \/ CannotVerify
  PROVE  FetchInv'
<1> USE FetchAssumption DEF FetchInv, NothingNeeded, CannotVerify, Present, workerVars
<1>1. TypeOK'
  BY DEF TypeOK
<1>2. WorkersConsistent'
  BY DEF TypeOK, WorkersConsistent
<1>3. RunConsistent'
  BY DEF TypeOK, RunConsistent, WorkersConsistent
<1>4. NoEntryLost'
  BY DEF TypeOK, NoEntryLost, WorkersConsistent, RunConsistent
<1>5. CancelHasACause'
  BY DEF TypeOK, CancelHasACause, WorkersConsistent
<1>6. CountsAreTrue'
  BY DEF TypeOK, CountsAreTrue, WorkersConsistent
<1>7. OutcomeIsTrue'
  BY DEF TypeOK, OutcomeIsTrue, Pool!Complete
<1>8. NotFoundIsTrue'
  BY DEF TypeOK, NotFoundIsTrue, SourcesOf, WorkersConsistent
<1> QED
  BY <1>1, <1>2, <1>3, <1>4, <1>5, <1>6, <1>7, <1>8

(* The dispatcher hands an entry out, or skips it once the run is canceled.*)
LEMMA DispatchInv ==
  ASSUME FetchInv, NEW w \in Workers, NEW e \in Entries, Dispatch(w, e)
  PROVE  FetchInv'
<1> USE FetchAssumption DEF FetchInv, Dispatch
<1>1. TypeOK'
  BY DEF TypeOK
<1>2. WorkersConsistent'
  BY DEF TypeOK, WorkersConsistent
<1>3. RunConsistent'
  BY DEF TypeOK, RunConsistent, WorkersConsistent
<1>4. NoEntryLost'
  BY DEF TypeOK, NoEntryLost, WorkersConsistent, RunConsistent
<1>5. CancelHasACause'
  BY DEF TypeOK, CancelHasACause, WorkersConsistent
<1>6. CountsAreTrue'
  BY DEF TypeOK, CountsAreTrue, WorkersConsistent
<1>7. OutcomeIsTrue'
  BY DEF TypeOK, OutcomeIsTrue, Pool!Complete
<1>8. NotFoundIsTrue'
  BY DEF TypeOK, NotFoundIsTrue, SourcesOf, WorkersConsistent
<1> QED
  BY <1>1, <1>2, <1>3, <1>4, <1>5, <1>6, <1>7, <1>8

LEMMA SkipInv ==
  ASSUME FetchInv, NEW e \in Entries, Skip(e)
  PROVE  FetchInv'
<1> USE FetchAssumption DEF FetchInv, Skip, workerVars
<1>1. TypeOK'
  BY DEF TypeOK
<1>2. WorkersConsistent'
  BY DEF TypeOK, WorkersConsistent
<1>3. RunConsistent'
  BY DEF TypeOK, RunConsistent, WorkersConsistent
<1>4. NoEntryLost'
  BY DEF TypeOK, NoEntryLost, WorkersConsistent, RunConsistent
<1>5. CancelHasACause'
  BY DEF TypeOK, CancelHasACause, WorkersConsistent
<1>6. CountsAreTrue'
  BY DEF TypeOK, CountsAreTrue, WorkersConsistent
<1>7. OutcomeIsTrue'
  BY DEF TypeOK, OutcomeIsTrue, Pool!Complete
<1>8. NotFoundIsTrue'
  BY DEF TypeOK, NotFoundIsTrue, SourcesOf, WorkersConsistent
<1> QED
  BY <1>1, <1>2, <1>3, <1>4, <1>5, <1>6, <1>7, <1>8

LEMMA CloseJobsInv ==
  ASSUME FetchInv, CloseJobs
  PROVE  FetchInv'
<1> USE FetchAssumption DEF FetchInv, CloseJobs, runVars, workerVars
<1>1. TypeOK'
  BY DEF TypeOK
<1>2. WorkersConsistent'
  BY DEF TypeOK, WorkersConsistent
<1>3. RunConsistent'
  BY DEF TypeOK, RunConsistent, WorkersConsistent
<1>4. NoEntryLost'
  BY DEF TypeOK, NoEntryLost, WorkersConsistent, RunConsistent
<1>5. CancelHasACause'
  BY DEF TypeOK, CancelHasACause, WorkersConsistent
<1>6. CountsAreTrue'
  BY DEF TypeOK, CountsAreTrue, WorkersConsistent
<1>7. OutcomeIsTrue'
  BY DEF TypeOK, OutcomeIsTrue, Pool!Complete
<1>8. NotFoundIsTrue'
  BY DEF TypeOK, NotFoundIsTrue, SourcesOf, WorkersConsistent
<1> QED
  BY <1>1, <1>2, <1>3, <1>4, <1>5, <1>6, <1>7, <1>8

(* Fetch returns: with no first error and no cancellation every entry is   *)
(* in place, because none was lost and no worker holds one.                *)
LEMMA ReturnInv ==
  ASSUME FetchInv, Return
  PROVE  FetchInv'
<1> USE FetchAssumption DEF FetchInv, Return, Verdict, workerVars
<1>1. TypeOK'
  BY DEF TypeOK
<1>2. WorkersConsistent'
  BY DEF TypeOK, WorkersConsistent
<1>3. RunConsistent'
  BY DEF TypeOK, RunConsistent, WorkersConsistent
<1>4. NoEntryLost'
  BY DEF TypeOK, NoEntryLost, WorkersConsistent, RunConsistent
<1>5. CancelHasACause'
  BY DEF TypeOK, CancelHasACause, WorkersConsistent
<1>6. CountsAreTrue'
  BY DEF TypeOK, CountsAreTrue, WorkersConsistent
<1>7. OutcomeIsTrue'
  BY DEF TypeOK, OutcomeIsTrue, Pool!Complete, NoEntryLost, WorkersConsistent,
         RunConsistent, CancelHasACause
<1>8. NotFoundIsTrue'
  BY DEF TypeOK, NotFoundIsTrue, SourcesOf, WorkersConsistent
<1> QED
  BY <1>1, <1>2, <1>3, <1>4, <1>5, <1>6, <1>7, <1>8

(* The steps of one worker.                                                *)
LEMMA DrainInv ==
  ASSUME FetchInv, NEW w \in Workers, Drain(w)
  PROVE  FetchInv'
<1> USE FetchAssumption DEF FetchInv, Drain, Goes, runOwned, Released
<1>0. job[w] \in Entries
  BY DEF TypeOK, WorkersConsistent, Goes
<1>1. TypeOK'
  BY <1>0 DEF TypeOK
<1>2. WorkersConsistent'
  BY <1>0 DEF TypeOK, WorkersConsistent
<1>3. RunConsistent'
  BY <1>0 DEF TypeOK, RunConsistent, WorkersConsistent
<1>4. NoEntryLost'
  BY <1>0 DEF TypeOK, NoEntryLost, WorkersConsistent, RunConsistent
<1>5. CancelHasACause'
  BY <1>0 DEF TypeOK, CancelHasACause, WorkersConsistent
<1>6. CountsAreTrue'
  BY <1>0 DEF TypeOK, CountsAreTrue, WorkersConsistent
<1>7. OutcomeIsTrue'
  BY <1>0 DEF TypeOK, OutcomeIsTrue, Pool!Complete
<1>8. NotFoundIsTrue'
  BY <1>0 DEF TypeOK, NotFoundIsTrue, SourcesOf, WorkersConsistent
<1> QED
  BY <1>1, <1>2, <1>3, <1>4, <1>5, <1>6, <1>7, <1>8

LEMMA TakeUpInv ==
  ASSUME FetchInv, NEW w \in Workers, TakeUp(w)
  PROVE  FetchInv'
<1> USE FetchAssumption DEF FetchInv, TakeUp, Goes, runOwned
<1>0. job[w] \in Entries
  BY DEF TypeOK, WorkersConsistent, Goes
<1>1. TypeOK'
  BY <1>0 DEF TypeOK
<1>2. WorkersConsistent'
  BY <1>0 DEF TypeOK, WorkersConsistent
<1>3. RunConsistent'
  BY <1>0 DEF TypeOK, RunConsistent, WorkersConsistent
<1>4. NoEntryLost'
  BY <1>0 DEF TypeOK, NoEntryLost, WorkersConsistent, RunConsistent
<1>5. CancelHasACause'
  BY <1>0 DEF TypeOK, CancelHasACause, WorkersConsistent
<1>6. CountsAreTrue'
  BY <1>0 DEF TypeOK, CountsAreTrue, WorkersConsistent
<1>7. OutcomeIsTrue'
  BY <1>0 DEF TypeOK, OutcomeIsTrue, Pool!Complete
<1>8. NotFoundIsTrue'
  BY <1>0 DEF TypeOK, NotFoundIsTrue, SourcesOf, WorkersConsistent
<1> QED
  BY <1>1, <1>2, <1>3, <1>4, <1>5, <1>6, <1>7, <1>8

LEMMA OpenBodyInv ==
  ASSUME FetchInv, NEW w \in Workers, OpenBody(w)
  PROVE  FetchInv'
<1> USE FetchAssumption DEF FetchInv, OpenBody, Goes, runOwned
<1>0. job[w] \in Entries
  BY DEF TypeOK, WorkersConsistent, Goes
<1>1. TypeOK'
  BY <1>0 DEF TypeOK
<1>2. WorkersConsistent'
  BY <1>0 DEF TypeOK, WorkersConsistent
<1>3. RunConsistent'
  BY <1>0 DEF TypeOK, RunConsistent, WorkersConsistent
<1>4. NoEntryLost'
  BY <1>0 DEF TypeOK, NoEntryLost, WorkersConsistent, RunConsistent
<1>5. CancelHasACause'
  BY <1>0 DEF TypeOK, CancelHasACause, WorkersConsistent
<1>6. CountsAreTrue'
  BY <1>0 DEF TypeOK, CountsAreTrue, WorkersConsistent
<1>7. OutcomeIsTrue'
  BY <1>0 DEF TypeOK, OutcomeIsTrue, Pool!Complete
<1>8. NotFoundIsTrue'
  BY <1>0 DEF TypeOK, NotFoundIsTrue, SourcesOf, WorkersConsistent
<1> QED
  BY <1>1, <1>2, <1>3, <1>4, <1>5, <1>6, <1>7, <1>8

LEMMA AcceptInv ==
  ASSUME FetchInv, NEW w \in Workers, Accept(w)
  PROVE  FetchInv'
<1> USE FetchAssumption DEF FetchInv, Accept, Goes, runOwned, Matches
<1>0. job[w] \in Entries
  BY DEF TypeOK, WorkersConsistent, Goes
<1>1. TypeOK'
  BY <1>0 DEF TypeOK
<1>2. WorkersConsistent'
  BY <1>0 DEF TypeOK, WorkersConsistent
<1>3. RunConsistent'
  BY <1>0 DEF TypeOK, RunConsistent, WorkersConsistent
<1>4. NoEntryLost'
  BY <1>0 DEF TypeOK, NoEntryLost, WorkersConsistent, RunConsistent
<1>5. CancelHasACause'
  BY <1>0 DEF TypeOK, CancelHasACause, WorkersConsistent
<1>6. CountsAreTrue'
  BY <1>0 DEF TypeOK, CountsAreTrue, WorkersConsistent
<1>7. OutcomeIsTrue'
  BY <1>0 DEF TypeOK, OutcomeIsTrue, Pool!Complete
<1>8. NotFoundIsTrue'
  BY <1>0 DEF TypeOK, NotFoundIsTrue, SourcesOf, WorkersConsistent
<1> QED
  BY <1>1, <1>2, <1>3, <1>4, <1>5, <1>6, <1>7, <1>8

LEMMA LandInv ==
  ASSUME FetchInv, NEW w \in Workers, Land(w)
  PROVE  FetchInv'
<1> USE FetchAssumption DEF FetchInv, Land, Goes, runOwned
<1>0. job[w] \in Entries
  BY DEF TypeOK, WorkersConsistent, Goes
<1>1. TypeOK'
  BY <1>0 DEF TypeOK, WorkersConsistent
<1>2. WorkersConsistent'
  BY <1>0 DEF TypeOK, WorkersConsistent
<1>3. RunConsistent'
  BY <1>0 DEF TypeOK, RunConsistent, WorkersConsistent
<1>4. NoEntryLost'
  BY <1>0 DEF TypeOK, NoEntryLost, WorkersConsistent, RunConsistent
<1>5. CancelHasACause'
  BY <1>0 DEF TypeOK, CancelHasACause, WorkersConsistent
<1>6. CountsAreTrue'
  BY <1>0 DEF TypeOK, CountsAreTrue, WorkersConsistent
<1>7. OutcomeIsTrue'
  BY <1>0 DEF TypeOK, OutcomeIsTrue, Pool!Complete, RunConsistent
<1>8. NotFoundIsTrue'
  BY <1>0 DEF TypeOK, NotFoundIsTrue, SourcesOf, WorkersConsistent
<1> QED
  BY <1>1, <1>2, <1>3, <1>4, <1>5, <1>6, <1>7, <1>8

LEMMA CountInv ==
  ASSUME FetchInv, NEW w \in Workers, Count(w)
  PROVE  FetchInv'
<1> USE FetchAssumption DEF FetchInv, Count, Goes, runOwned, Released
<1>0. job[w] \in Entries
  BY DEF TypeOK, WorkersConsistent, Goes
<1>1. TypeOK'
  BY <1>0 DEF TypeOK
<1>2. WorkersConsistent'
  BY <1>0 DEF TypeOK, WorkersConsistent
<1>3. RunConsistent'
  BY <1>0 DEF TypeOK, RunConsistent, WorkersConsistent
<1>4. NoEntryLost'
  BY <1>0 DEF TypeOK, NoEntryLost, WorkersConsistent, RunConsistent
<1>5. CancelHasACause'
  BY <1>0 DEF TypeOK, CancelHasACause, WorkersConsistent
<1>6. CountsAreTrue'
  BY <1>0 DEF TypeOK, CountsAreTrue, WorkersConsistent
<1>7. OutcomeIsTrue'
  BY <1>0 DEF TypeOK, OutcomeIsTrue, Pool!Complete
<1>8. NotFoundIsTrue'
  BY <1>0 DEF TypeOK, NotFoundIsTrue, SourcesOf, WorkersConsistent
<1> QED
  BY <1>1, <1>2, <1>3, <1>4, <1>5, <1>6, <1>7, <1>8

LEMMA WakeInv ==
  ASSUME FetchInv, NEW w \in Workers, Wake(w)
  PROVE  FetchInv'
<1> USE FetchAssumption DEF FetchInv, Wake, Goes, runOwned
<1>0. job[w] \in Entries
  BY DEF TypeOK, WorkersConsistent, Goes
<1>1. TypeOK'
  BY <1>0 DEF TypeOK, WorkersConsistent
<1>2. WorkersConsistent'
  BY <1>0 DEF TypeOK, WorkersConsistent
<1>3. RunConsistent'
  BY <1>0 DEF TypeOK, RunConsistent, WorkersConsistent
<1>4. NoEntryLost'
  BY <1>0 DEF TypeOK, NoEntryLost, WorkersConsistent, RunConsistent
<1>5. CancelHasACause'
  BY <1>0 DEF TypeOK, CancelHasACause, WorkersConsistent
<1>6. CountsAreTrue'
  BY <1>0 DEF TypeOK, CountsAreTrue, WorkersConsistent
<1>7. OutcomeIsTrue'
  BY <1>0 DEF TypeOK, OutcomeIsTrue, Pool!Complete
<1>8. NotFoundIsTrue'
  BY <1>0 DEF TypeOK, NotFoundIsTrue, SourcesOf, WorkersConsistent
<1> QED
  BY <1>1, <1>2, <1>3, <1>4, <1>5, <1>6, <1>7, <1>8

LEMMA StopSleepingInv ==
  ASSUME FetchInv, NEW w \in Workers, StopSleeping(w)
  PROVE  FetchInv'
<1> USE FetchAssumption DEF FetchInv, StopSleeping, Goes, runOwned
<1>0. job[w] \in Entries
  BY DEF TypeOK, WorkersConsistent, Goes
<1>1. TypeOK'
  BY <1>0 DEF TypeOK
<1>2. WorkersConsistent'
  BY <1>0 DEF TypeOK, WorkersConsistent
<1>3. RunConsistent'
  BY <1>0 DEF TypeOK, RunConsistent, WorkersConsistent
<1>4. NoEntryLost'
  BY <1>0 DEF TypeOK, NoEntryLost, WorkersConsistent, RunConsistent
<1>5. CancelHasACause'
  BY <1>0 DEF TypeOK, CancelHasACause, WorkersConsistent
<1>6. CountsAreTrue'
  BY <1>0 DEF TypeOK, CountsAreTrue, WorkersConsistent
<1>7. OutcomeIsTrue'
  BY <1>0 DEF TypeOK, OutcomeIsTrue, Pool!Complete
<1>8. NotFoundIsTrue'
  BY <1>0 DEF TypeOK, NotFoundIsTrue, SourcesOf, WorkersConsistent
<1> QED
  BY <1>1, <1>2, <1>3, <1>4, <1>5, <1>6, <1>7, <1>8

LEMMA StopOnErrorInv ==
  ASSUME FetchInv, NEW w \in Workers, StopOnError(w)
  PROVE  FetchInv'
<1> USE FetchAssumption DEF FetchInv, StopOnError, Goes, runOwned, Released, GiveUp, KeepFirst
<1>0. job[w] \in Entries
  BY DEF TypeOK, WorkersConsistent
<1>1. TypeOK'
  <2>1. firstErr' \in Pool!ErrorKinds \cup {"none"} /\ cancelCalled' \in BOOLEAN
    BY DEF TypeOK
  <2>2. /\ at' \in [Workers -> WorkerStates]
        /\ job' \in [Workers -> Entries \cup {NoEntry}]
        /\ source' \in [Workers -> Sources]
    BY DEF TypeOK
  <2>3. /\ attempt' \in [Workers -> 1..2]
        /\ err' \in [Workers -> Pool!ErrorKinds \cup {"none"}]
    BY DEF TypeOK
  <2> QED
    BY <2>1, <2>2, <2>3 DEF TypeOK
<1>2. WorkersConsistent'
  BY <1>0 DEF TypeOK, WorkersConsistent
<1>3. RunConsistent'
  BY <1>0 DEF TypeOK, RunConsistent, WorkersConsistent
<1>4. NoEntryLost'
  BY <1>0 DEF TypeOK, NoEntryLost, WorkersConsistent, RunConsistent
<1>5. CancelHasACause'
  BY <1>0 DEF TypeOK, CancelHasACause, WorkersConsistent
<1>6. CountsAreTrue'
  BY <1>0 DEF TypeOK, CountsAreTrue, WorkersConsistent
<1>7. OutcomeIsTrue'
  BY <1>0 DEF TypeOK, OutcomeIsTrue, Pool!Complete
<1>8. NotFoundIsTrue'
  BY <1>0 DEF TypeOK, NotFoundIsTrue, SourcesOf, WorkersConsistent
<1> QED
  BY <1>1, <1>2, <1>3, <1>4, <1>5, <1>6, <1>7, <1>8

LEMMA EndBodyInv ==
  ASSUME FetchInv, NEW w \in Workers, NEW content \in {"good", "bad"}, EndBody(w, content)
  PROVE  FetchInv'
<1> USE FetchAssumption DEF FetchInv, EndBody, Goes, runOwned
<1>0. job[w] \in Entries
  BY DEF TypeOK, WorkersConsistent, Goes
<1>1. TypeOK'
  BY <1>0 DEF TypeOK
<1>2. WorkersConsistent'
  BY <1>0 DEF TypeOK, WorkersConsistent
<1>3. RunConsistent'
  BY <1>0 DEF TypeOK, RunConsistent, WorkersConsistent
<1>4. NoEntryLost'
  BY <1>0 DEF TypeOK, NoEntryLost, WorkersConsistent, RunConsistent
<1>5. CancelHasACause'
  BY <1>0 DEF TypeOK, CancelHasACause, WorkersConsistent
<1>6. CountsAreTrue'
  BY <1>0 DEF TypeOK, CountsAreTrue, WorkersConsistent
<1>7. OutcomeIsTrue'
  BY <1>0 DEF TypeOK, OutcomeIsTrue, Pool!Complete
<1>8. NotFoundIsTrue'
  BY <1>0 DEF TypeOK, NotFoundIsTrue, SourcesOf, WorkersConsistent
<1> QED
  BY <1>1, <1>2, <1>3, <1>4, <1>5, <1>6, <1>7, <1>8

LEMMA ExitInv ==
  ASSUME FetchInv, NEW w \in Workers, Exit(w)
  PROVE  FetchInv'
<1> USE FetchAssumption DEF FetchInv, Exit, Goes, JobsClosed, runOwned
<1>1. TypeOK'
  BY DEF TypeOK
<1>2. WorkersConsistent'
  BY DEF TypeOK, WorkersConsistent
<1>3. RunConsistent'
  BY DEF TypeOK, RunConsistent, WorkersConsistent
<1>4. NoEntryLost'
  BY DEF TypeOK, NoEntryLost, WorkersConsistent, RunConsistent
<1>5. CancelHasACause'
  BY DEF TypeOK, CancelHasACause, WorkersConsistent
<1>6. CountsAreTrue'
  BY DEF TypeOK, CountsAreTrue, WorkersConsistent
<1>7. OutcomeIsTrue'
  BY DEF TypeOK, OutcomeIsTrue, Pool!Complete
<1>8. NotFoundIsTrue'
  BY DEF TypeOK, NotFoundIsTrue, SourcesOf, WorkersConsistent
<1> QED
  BY <1>1, <1>2, <1>3, <1>4, <1>5, <1>6, <1>7, <1>8

(* The world around the run.                                               *)
LEMMA InterruptInv ==
  ASSUME FetchInv, Interrupt
  PROVE  FetchInv'
<1> USE FetchAssumption DEF FetchInv, Interrupt, runVars, workerVars
<1>1. TypeOK'
  BY DEF TypeOK
<1>2. WorkersConsistent'
  BY DEF TypeOK, WorkersConsistent
<1>3. RunConsistent'
  BY DEF TypeOK, RunConsistent, WorkersConsistent
<1>4. NoEntryLost'
  BY DEF TypeOK, NoEntryLost, WorkersConsistent, RunConsistent
<1>5. CancelHasACause'
  BY DEF TypeOK, CancelHasACause, WorkersConsistent
<1>6. CountsAreTrue'
  BY DEF TypeOK, CountsAreTrue, WorkersConsistent
<1>7. OutcomeIsTrue'
  BY DEF TypeOK, OutcomeIsTrue, Pool!Complete
<1>8. NotFoundIsTrue'
  BY DEF TypeOK, NotFoundIsTrue, SourcesOf, WorkersConsistent
<1> QED
  BY <1>1, <1>2, <1>3, <1>4, <1>5, <1>6, <1>7, <1>8

LEMMA KillInv ==
  ASSUME FetchInv, Kill
  PROVE  FetchInv'
<1> USE FetchAssumption DEF FetchInv, Kill, NoWorkers, runVars
<1>1. TypeOK'
  BY DEF TypeOK
<1>2. WorkersConsistent'
  BY DEF TypeOK, WorkersConsistent
<1>3. RunConsistent'
  BY DEF TypeOK, RunConsistent, WorkersConsistent
<1>4. NoEntryLost'
  BY DEF TypeOK, NoEntryLost, WorkersConsistent, RunConsistent
<1>5. CancelHasACause'
  BY DEF TypeOK, CancelHasACause, WorkersConsistent
<1>6. CountsAreTrue'
  BY DEF TypeOK, CountsAreTrue, WorkersConsistent
<1>7. OutcomeIsTrue'
  BY DEF TypeOK, OutcomeIsTrue, Pool!Complete
<1>8. NotFoundIsTrue'
  BY DEF TypeOK, NotFoundIsTrue, SourcesOf, WorkersConsistent
<1> QED
  BY <1>1, <1>2, <1>3, <1>4, <1>5, <1>6, <1>7, <1>8

LEMMA RerunInv ==
  ASSUME FetchInv, Rerun
  PROVE  FetchInv'
<1> USE FetchAssumption DEF FetchInv, Rerun, workerVars
<1>1. TypeOK'
  <2>1. runs' \in 1..MaxRuns /\ said404' \in [Entries -> SUBSET Sources]
    BY DEF TypeOK
  <2> QED
    BY <2>1 DEF TypeOK
<1>2. WorkersConsistent'
  BY DEF TypeOK, WorkersConsistent
<1>3. RunConsistent'
  BY DEF TypeOK, RunConsistent, WorkersConsistent
<1>4. NoEntryLost'
  BY DEF TypeOK, NoEntryLost, WorkersConsistent, RunConsistent
<1>5. CancelHasACause'
  BY DEF TypeOK, CancelHasACause, WorkersConsistent, RunConsistent
<1>6. CountsAreTrue'
  BY DEF TypeOK, CountsAreTrue, WorkersConsistent
<1>7. OutcomeIsTrue'
  BY DEF TypeOK, OutcomeIsTrue, Pool!Complete
<1>8. NotFoundIsTrue'
  BY DEF TypeOK, NotFoundIsTrue, SourcesOf, WorkersConsistent, RunConsistent
<1> QED
  BY <1>1, <1>2, <1>3, <1>4, <1>5, <1>6, <1>7, <1>8

(* Every step of a worker, its server's answers included.                  *)
LEMMA WorkerInv ==
  ASSUME FetchInv, NEW w \in Workers,
         WorkerStep(w) \/ BodyStep(w) \/ Abort(w)
  PROVE  FetchInv'
<1>1. CASE NotFound(w)
  BY <1>1, FailsInv DEF NotFound
<1>2. CASE WrongLength(w)
  BY <1>2, FailsInv DEF WrongLength
<1>3. CASE Reject(w)
  BY <1>3, FailsInv DEF Reject
<1>4. CASE CannotLand(w)
  BY <1>4, FailsInv DEF CannotLand
<1>5. CASE Break(w)
  BY <1>5, FailsInv DEF Break
<1>6. CASE Abort(w)
  BY <1>6, FailsInv DEF Abort, Aborts
<1>7. CASE \E content \in {"good", "bad"} : EndBody(w, content)
  BY <1>7, EndBodyInv
<1>8. CASE Drain(w) \/ TakeUp(w) \/ OpenBody(w) \/ Accept(w) \/ Land(w)
  BY <1>8, DrainInv, TakeUpInv, OpenBodyInv, AcceptInv, LandInv
<1>9. CASE Count(w) \/ Wake(w) \/ StopSleeping(w) \/ StopOnError(w) \/ Exit(w)
  BY <1>9, CountInv, WakeInv, StopSleepingInv, StopOnErrorInv, ExitInv
<1> QED
  BY <1>1, <1>2, <1>3, <1>4, <1>5, <1>6, <1>7, <1>8, <1>9
     DEF WorkerStep, BodyStep

LEMMA StutterInv ==
  ASSUME FetchInv, UNCHANGED vars
  PROVE  FetchInv'
BY DEF vars, FetchInv, TypeOK, WorkersConsistent, RunConsistent, NoEntryLost,
       CancelHasACause, CountsAreTrue, OutcomeIsTrue, Pool!Complete,
       NotFoundIsTrue, SourcesOf

(* FetchInv is inductive.                                                  *)
LEMMA StepInv == FetchInv /\ [Next]_vars => FetchInv'
<1> SUFFICES ASSUME FetchInv, [Next]_vars PROVE FetchInv'
  OBVIOUS
<1>1. CASE Start \/ NothingNeeded \/ CannotVerify
  BY <1>1, StartInv, NoDownloadInv
<1>2. CASE DispatcherStep
  BY <1>2, DispatchInv, SkipInv, CloseJobsInv, ReturnInv DEF DispatcherStep
<1>3. CASE \E w \in Workers : WorkerStep(w) \/ BodyStep(w) \/ Abort(w)
  BY <1>3, WorkerInv
<1>4. CASE Interrupt \/ Kill \/ Rerun
  BY <1>4, InterruptInv, KillInv, RerunInv
<1>5. CASE Over \/ UNCHANGED vars
  BY <1>5, StutterInv DEF Over
<1> QED
  BY <1>1, <1>2, <1>3, <1>4, <1>5 DEF Next

-----------------------------------------------------------------------------
(* The invariant holds of every behaviour of Fetch.                        *)
THEOREM FetchInvariant == Spec => []FetchInv
BY InitInv, StepInv, PTL DEF Spec

(* The error Fetch reports is never a cancellation the run caused itself:  *)
(* fail() comes before cancel() (fetch.go, the worker's loop).             *)
THEOREM FirstErrorIsTheCauseHolds == Spec => []FirstErrorIsTheCause
<1>1. FetchInv => FirstErrorIsTheCause
  BY DEF FetchInv, CancelHasACause, OutcomeIsTrue, FirstErrorIsTheCause
<1> QED
  BY <1>1, FetchInvariant, PTL

(* Whatever Fetch returns, nothing of the run is left: no worker, no       *)
(* temporary file.                                                         *)
THEOREM NothingLeftBehindHolds == Spec => []NothingLeftBehind
<1>1. FetchInv => NothingLeftBehind
  BY DEF FetchInv, TypeOK, WorkersConsistent, RunConsistent, NothingLeftBehind
<1> QED
  BY <1>1, FetchInvariant, PTL

(* What a run reports as present or fetched is what the pool holds.        *)
THEOREM SummaryIsAccurateHolds == Spec => []SummaryIsAccurate
<1>1. FetchInv => SummaryIsAccurate
  BY DEF FetchInv, TypeOK, CountsAreTrue, RunConsistent, SummaryIsAccurate
<1> QED
  BY <1>1, FetchInvariant, PTL

(* ErrNotFound means that every source of some entry answered 404.         *)
THEOREM NotFoundMeansEverySourceHolds == Spec => []NotFoundMeansEverySource
<1>1. FetchInv => NotFoundMeansEverySource
  BY DEF FetchInv, NotFoundIsTrue, NotFoundMeansEverySource
<1> QED
  BY <1>1, FetchInvariant, PTL

-----------------------------------------------------------------------------
(* The refinement: file and outcome change only as VerifiedPool lets them. *)

LEMMA PoolInit == Init => Pool!Init
BY DEF Init, Pool!Init

(* The steps that change neither are stutters of VerifiedPool.             *)
LEMMA PoolStutter ==
  ASSUME UNCHANGED <<file, outcome>>
  PROVE  UNCHANGED Pool!vars
BY DEF Pool!vars

LEMMA PoolWorkerStep ==
  ASSUME FetchInv, NEW w \in Workers,
         WorkerStep(w) \/ BodyStep(w) \/ Abort(w)
  PROVE  [Pool!Next]_(Pool!vars)
<1>1. CASE Land(w)
  <2>1. job[w] \in Entries /\ temp[w] = "good" /\ outcome = "none"
    BY <1>1 DEF FetchInv, TypeOK, WorkersConsistent, RunConsistent,
                OutcomeIsTrue, Land, Goes
  <2>2. Pool!Land(job[w])
    BY <1>1, <2>1 DEF Land, Pool!Land, runOwned
  <2> QED
    BY <2>1, <2>2 DEF Pool!Next
<1>2. CASE ~Land(w)
  <2>1. UNCHANGED <<file, outcome>>
    BY <1>2 DEF WorkerStep, BodyStep, Abort, Drain, TakeUp, NotFound,
         WrongLength, OpenBody, Accept, Reject, CannotLand, Count, Wake,
         StopSleeping, StopOnError, Exit, Break, EndBody, Fails, runOwned
  <2> QED
    BY <2>1, PoolStutter
<1> QED
  BY <1>1, <1>2

LEMMA PoolStep == FetchInv /\ FetchInv' /\ [Next]_vars => [Pool!Next]_(Pool!vars)
<1> SUFFICES ASSUME FetchInv, FetchInv', [Next]_vars
             PROVE  [Pool!Next]_(Pool!vars)
  OBVIOUS
<1>1. CASE NothingNeeded \/ CannotVerify \/ Return
  <2>1. outcome = "none" /\ outcome' \in Pool!Outcomes /\ UNCHANGED file
    BY <1>1 DEF FetchInv, TypeOK, OutcomeIsTrue, NothingNeeded, CannotVerify,
                Return, Verdict
  <2>2. outcome' = "ok" => Pool!Complete
    BY <2>1 DEF FetchInv, OutcomeIsTrue, Pool!Complete
  <2>3. Pool!Report(outcome')
    BY <2>1, <2>2 DEF Pool!Report
  <2> QED
    BY <2>1, <2>3 DEF Pool!Next
<1>2. CASE Rerun
  BY <1>2 DEF Rerun, Pool!Next, Pool!Again, Pool!vars
<1>3. CASE \E w \in Workers : WorkerStep(w) \/ BodyStep(w) \/ Abort(w)
  BY <1>3, PoolWorkerStep
<1>4. CASE \/ Start \/ Interrupt \/ Kill \/ Over \/ UNCHANGED vars
           \/ DispatcherStep /\ ~Return
  <2>1. UNCHANGED <<file, outcome>>
    BY <1>4 DEF Start, Interrupt, Kill, Over, DispatcherStep, Dispatch, Skip,
                CloseJobs, NoWorkers, runVars, vars
  <2> QED
    BY <2>1, PoolStutter
<1> QED
  BY <1>1, <1>2, <1>3, <1>4 DEF Next, DispatcherStep

(* Fetch implements VerifiedPool, whatever servers answer and whenever the *)
(* run fails, is interrupted or is killed: under a final name a file only  *)
(* ever becomes the locked file, and success means a complete pool.        *)
THEOREM FetchRefinesVerifiedPool == Spec => ImplementsVerifiedPool
<1>1. Init => Pool!Init
  BY PoolInit
<1>2. FetchInv /\ FetchInv' /\ [Next]_vars => [Pool!Next]_(Pool!vars)
  BY PoolStep
<1> QED
  BY <1>1, <1>2, FetchInvariant, PTL DEF Spec, ImplementsVerifiedPool, Pool!Spec
=============================================================================
