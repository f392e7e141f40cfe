------------------------------- MODULE Screen -------------------------------
(***************************************************************************)
(* runBuildFullScreen and the progress screen: a goroutine runs the build  *)
(* (the work), which reports its phases through a bounded channel, closes  *)
(* it, and sends its error on a second channel; the screen's event loop    *)
(* shows what two commands, each waiting on one channel, deliver to it;    *)
(* Ctrl-C cancels the work once and abandons it twice; a screen that fails *)
(* is replaced by followWithoutScreen.  Bubble Tea, which runs commands    *)
(* in goroutines of their own, is external.                                *)
(*                                                                         *)
(* The work is abstracted to its events: event 2p-1 opens phase p and      *)
(* event 2p finishes it.                                                   *)
(***************************************************************************)
EXTENDS Naturals

CONSTANTS
  N,             (* how many phases the work has                           *)
  Buffer         (* progressEventBuffer                                    *)

ASSUME ScreenAssumption == N \in Nat \ {0} /\ Buffer \in Nat \ {0}

VARIABLES
  work,          (* running, sending, ending, closed, over                 *)
  workErr,       (* result and buildErr: none until the work has ended     *)
  sent, taken,   (* events put into and taken out of the channel           *)
  done,          (* the done channel, of capacity one                      *)
  canceled,      (* buildCtx                                               *)
  signaled,      (* ctx: SIGTERM or SIGHUP                                 *)
  screen,        (* up, quitting, quit, broken                             *)
  waitEvent,     (* waitForEvent: the event it holds, Waiting, Closed      *)
  waitDone,      (* waitForDone: waiting, holding, delivered               *)
  applied,       (* the last event the screen has applied                  *)
  phases,        (* the phase table                                        *)
  result, eventsClosed, interrupting,
  presses,       (* history: how often Ctrl-C was pressed                  *)
  main,          (* runBuildFullScreen: screen, following, reporting, over *)
  outcome,       (* tui.Outcome: its Err, or abandoned                     *)
  exit           (* the exit code                                          *)

workVars   == <<work, workErr, sent, done>>
screenVars == <<screen, applied, phases, result, eventsClosed, interrupting,
                presses>>
mainVars   == <<main, outcome, exit>>
vars == <<workVars, taken, canceled, signaled, waitEvent, waitDone,
          screenVars, mainVars>>

Waiting == 0
Closed  == 2 * N + 1
Errors  == {"ok", "failed", "canceled"}
Length  == sent - taken

TypeOK ==
  /\ work \in {"running", "sending", "ending", "closed", "over"}
  /\ workErr \in Errors \cup {"none"}
  /\ sent \in 0 .. 2 * N /\ taken \in 0 .. sent /\ Length <= Buffer
  /\ work = "sending" => sent < 2 * N
  /\ done \in {"empty", "full"}
  /\ canceled \in BOOLEAN /\ signaled \in BOOLEAN
  /\ screen \in {"up", "quitting", "quit", "broken"}
  /\ waitEvent \in Waiting .. Closed
  /\ waitDone \in {"waiting", "holding", "delivered"}
  /\ applied \in 0 .. 2 * N
  /\ phases \in [1 .. N -> {"pending", "running", "done", "failed"}]
  /\ result \in Errors \cup {"none"}
  /\ eventsClosed \in BOOLEAN /\ interrupting \in BOOLEAN
  /\ presses \in 0 .. 2
  /\ main \in {"screen", "following", "reporting", "over"}
  /\ outcome \in Errors \cup {"none", "abandoned"}
  /\ main = "reporting" => outcome # "none"
  /\ exit \in {"none", "success", "failed", "interrupted"}

Init ==
  /\ work = "running" /\ workErr = "none"
  /\ sent = 0 /\ taken = 0 /\ done = "empty"
  /\ canceled = FALSE /\ signaled = FALSE
  /\ screen = "up" /\ waitEvent = Waiting /\ waitDone = "waiting"
  /\ applied = 0 /\ phases = [p \in 1 .. N |-> "pending"]
  /\ result = "none" /\ eventsClosed = FALSE /\ interrupting = FALSE
  /\ presses = 0
  /\ main = "screen" /\ outcome = "none" /\ exit = "none"

(* When runBuildFullScreen returns the process ends, whatever still runs.  *)
Alive == exit = "none"

-----------------------------------------------------------------------------
(* The work.                                                               *)

(* The work calls options.Progress: from here on it is in the send, which  *)
(* watches no context.                                                     *)
Reports ==
  /\ Alive /\ work = "running" /\ sent < 2 * N
  /\ work' = "sending"
  /\ UNCHANGED <<workErr, sent, done, taken, canceled, signaled, waitEvent,
                 waitDone, screenVars, mainVars>>

(* The send: while the channel is full the work is blocked, and neither an *)
(* error nor a cancel gets it out.                                         *)
Send ==
  /\ Alive /\ work = "sending" /\ Length < Buffer
  /\ sent' = sent + 1 /\ work' = "running"
  /\ UNCHANGED <<workErr, done, taken, canceled, signaled, waitEvent,
                 waitDone, screenVars, mainVars>>

(* Build returns: with success after its last phase, with an error at any  *)
(* time it is not in a send.  It may finish well although it was canceled, *)
(* too late to matter.                                                     *)
Return(err) ==
  /\ Alive /\ work = "running"
  /\ err = "ok" <=> sent = 2 * N
  /\ err = "canceled" => canceled
  /\ work' = "ending" /\ workErr' = err
  /\ UNCHANGED <<sent, done, taken, canceled, signaled, waitEvent, waitDone,
                 screenVars, mainVars>>

CloseEvents ==
  /\ Alive /\ work = "ending" /\ work' = "closed"
  /\ UNCHANGED <<workErr, sent, done, taken, canceled, signaled, waitEvent,
                 waitDone, screenVars, mainVars>>

SendDone ==
  /\ Alive /\ work = "closed" /\ work' = "over" /\ done' = "full"
  /\ UNCHANGED <<workErr, sent, taken, canceled, signaled, waitEvent,
                 waitDone, screenVars, mainVars>>

-----------------------------------------------------------------------------
(* The commands, which outlive a screen that quit or failed.               *)

EventsAreClosed == work \in {"closed", "over"}

TakeEvent ==
  /\ Alive /\ waitEvent = Waiting /\ Length > 0
  /\ taken' = taken + 1 /\ waitEvent' = taken + 1
  /\ UNCHANGED <<workVars, canceled, signaled, waitDone, screenVars, mainVars>>

TakeClosed ==
  /\ Alive /\ waitEvent = Waiting /\ Length = 0 /\ EventsAreClosed
  /\ waitEvent' = Closed
  /\ UNCHANGED <<workVars, taken, canceled, signaled, waitDone, screenVars,
                 mainVars>>

TakeDone ==
  /\ Alive /\ waitDone = "waiting" /\ done = "full"
  /\ waitDone' = "holding" /\ done' = "empty"
  /\ UNCHANGED <<work, workErr, sent, taken, canceled, signaled, waitEvent,
                 screenVars, mainVars>>

-----------------------------------------------------------------------------
(* The screen's Update, one message at a time.                             *)

Showing == Alive /\ screen \in {"up", "quitting"}

finishedByResult(err, closed) == err # "none"
finished(err, closed) == err # "none" /\ closed

QuitIf(over) == screen' = IF over THEN "quitting" ELSE screen

(* apply: a late finish does not turn a failed phase into a finished one.  *)
Opened(k)   == k % 2 = 1
PhaseOf(k)  == (k + 1) \div 2
AfterEvent(k) ==
  [phases EXCEPT ![PhaseOf(k)] =
     IF Opened(k) THEN "running" ELSE IF @ = "failed" THEN @ ELSE "done"]

UpdateEvent ==
  /\ Showing /\ waitEvent \in 1 .. 2 * N
  /\ phases' = AfterEvent(waitEvent) /\ applied' = waitEvent
  /\ waitEvent' = Waiting
  /\ UNCHANGED <<workVars, taken, canceled, signaled, waitDone, screen,
                 result, eventsClosed, interrupting, presses, mainVars>>

UpdateClosed ==
  /\ Showing /\ waitEvent = Closed /\ ~eventsClosed
  /\ eventsClosed' = TRUE
  /\ QuitIf(finished(result, TRUE))
  /\ UNCHANGED <<workVars, taken, canceled, signaled, waitEvent, waitDone,
                 applied, phases, result, interrupting, presses, mainVars>>

(* closePhases settles what is running by then.                            *)
Settled(err) ==
  [p \in 1 .. N |->
     IF phases[p] = "running"
     THEN IF err = "ok" THEN "done" ELSE "failed" ELSE phases[p]]

UpdateDone ==
  /\ Showing /\ waitDone = "holding"
  /\ waitDone' = "delivered"
  /\ result' = workErr
  /\ phases' = Settled(workErr)
  /\ QuitIf(finished(workErr, eventsClosed))
  /\ UNCHANGED <<workVars, taken, canceled, signaled, waitEvent, applied,
                 eventsClosed, interrupting, presses, mainVars>>

(* handleKey: the first Ctrl-C cancels, the second abandons.               *)
Abandons == interrupting \/ finished(result, eventsClosed)

CtrlC ==
  /\ Showing /\ presses < 2
  /\ presses' = presses + 1
  /\ IF Abandons
     THEN screen' = "quitting" /\ UNCHANGED <<interrupting, canceled>>
     ELSE interrupting' = TRUE /\ canceled' = TRUE /\ UNCHANGED screen
  /\ UNCHANGED <<workVars, taken, signaled, waitEvent, waitDone, applied,
                 phases, result, eventsClosed, mainVars>>

-----------------------------------------------------------------------------
(* runBuildFullScreen.                                                     *)

(* outcome(): a screen that quit with no result was abandoned.             *)
ResultAsItIs == result
Outcome == IF result = "none" THEN "abandoned" ELSE result

(* tea.Quit is processed and RunProgress returns.                          *)
ScreenQuits ==
  /\ Alive /\ screen = "quitting"
  /\ screen' = "quit"
  /\ main' = "reporting" /\ outcome' = Outcome
  /\ UNCHANGED <<workVars, taken, canceled, signaled, waitEvent, waitDone,
                 applied, phases, result, eventsClosed, interrupting, presses,
                 exit>>

(* RunProgress returns an error at any time.                               *)
ScreenFails ==
  /\ Showing
  /\ screen' = "broken" /\ main' = "following"
  /\ UNCHANGED <<workVars, taken, canceled, signaled, waitEvent, waitDone,
                 applied, phases, result, eventsClosed, interrupting, presses,
                 outcome, exit>>

(* followWithoutScreen drains the events, beside the leftover command...   *)
FollowsDone == main = "following" /\ done = "full" /\ taken' = taken
Follows == main = "following" /\ Length > 0 /\ taken' = taken + 1

Follow ==
  /\ Alive /\ Follows
  /\ UNCHANGED <<workVars, canceled, signaled, waitEvent, waitDone,
                 screenVars, mainVars>>

(* ...until the channel is closed, which publishes buildErr.               *)
FollowedAll == Length = 0
FollowedToTheEnd == Length = 0 /\ EventsAreClosed

FollowEnds ==
  /\ Alive /\ main = "following" /\ FollowedToTheEnd
  /\ main' = "reporting" /\ outcome' = workErr
  /\ UNCHANGED <<workVars, taken, canceled, signaled, waitEvent, waitDone,
                 screenVars, exit>>

(* What is printed and returned: Interrupted, or ctx canceled, makes any   *)
(* failure an interrupted build, but not a success.  After a screen that   *)
(* failed only the signal counts.                                          *)
Interrupted == signaled \/ (screen = "quit" /\ interrupting)
ExitCode ==
  IF outcome = "ok" THEN "success"
  ELSE IF outcome \in {"abandoned", "canceled"} \/ Interrupted
  THEN "interrupted" ELSE "failed"

Exit ==
  /\ main = "reporting"
  /\ main' = "over" /\ exit' = ExitCode
  /\ UNCHANGED <<workVars, taken, canceled, signaled, waitEvent, waitDone,
                 screenVars, outcome>>

(* SIGTERM or SIGHUP.  Bubble Tea has a handler of its own for SIGTERM and *)
(* may quit the screen with it.                                            *)
Signal(teaQuits) ==
  /\ Alive /\ ~signaled
  /\ signaled' = TRUE /\ canceled' = TRUE
  /\ IF teaQuits /\ screen = "up" THEN screen' = "quitting" ELSE UNCHANGED screen
  /\ UNCHANGED <<workVars, taken, waitEvent, waitDone, applied, phases, result,
                 eventsClosed, interrupting, presses, mainVars>>

-----------------------------------------------------------------------------
Work     == Reports \/ Send \/ (\E err \in Errors : Return(err))
              \/ CloseEvents \/ SendDone
Commands == TakeEvent \/ TakeClosed \/ TakeDone
Update   == UpdateEvent \/ UpdateClosed \/ UpdateDone \/ ScreenQuits
Main     == Follow \/ FollowEnds \/ Exit
Outside  == CtrlC \/ ScreenFails \/ \E teaQuits \in BOOLEAN : Signal(teaQuits)
Over     == ~Alive /\ UNCHANGED vars

Next == Work \/ Commands \/ Update \/ Main \/ Outside \/ Over

(* The goroutines, the event loop and the main function keep running; the  *)
(* work comes to an end as long as it can go on.  Nothing is assumed of a  *)
(* work blocked in its send: no step of it is enabled until somebody takes *)
(* an event.  Nobody need press or send anything, and no screen need fail. *)
Fairness ==
  /\ WF_vars(Work) /\ WF_vars(Main)
  /\ WF_vars(TakeEvent \/ TakeClosed) /\ WF_vars(TakeDone)
  /\ WF_vars(UpdateEvent \/ UpdateClosed) /\ WF_vars(UpdateDone)
  /\ WF_vars(ScreenQuits)

Spec == Init /\ [][Next]_vars /\ Fairness

-----------------------------------------------------------------------------
(* Properties.                                                             *)

(* frostroot says of the build only what it knows: success is a build that *)
(* succeeded, failure one that failed by itself, and an interruption had a *)
(* cause.  What it reports on was written before it is read.  What is      *)
(* abandoned in its cleanup was told so twice, or by a signal.             *)
ExitIsTrue ==
  /\ exit = "success" => workErr = "ok"
  /\ exit = "failed" => workErr = "failed" /\ ~signaled
  /\ exit = "interrupted" => canceled
  /\ exit # "none" /\ outcome # "abandoned" =>
       EventsAreClosed /\ outcome = workErr
  /\ outcome = "abandoned" => presses = 2 \/ signaled

(* A screen that closes because the work is over has shown every event,    *)
(* though result and events arrive independently.                          *)
ClosesOnceAllIsShown ==
  screen = "quit" /\ presses < 2 /\ ~signaled =>
    applied = sent /\ EventsAreClosed

(* However the screen ends, frostroot does: the work is never left blocked *)
(* in a send into a channel nobody drains (followWithoutScreen's comment), *)
(* from which neither an error of its own nor a cancel would free it.      *)
Ends == <>(exit # "none")
=============================================================================
