---------------------------- MODULE ScreenProofs ----------------------------
(***************************************************************************)
(* Proofs about Screen, for any number of phases and any capacity of the   *)
(* channel.  The argument follows what travels from the work to the        *)
(* screen: every event is in the channel, held by the command that waits   *)
(* for one, or applied; the result is with the work, in the done channel,  *)
(* held, or delivered; and a screen that quits has a reason to.            *)
(***************************************************************************)
EXTENDS Screen, TLAPS

(* While the screen stands, its command alone takes events, and holds the  *)
(* only one taken and not applied.                                         *)
EventsAreApplied ==
  screen # "broken" =>
    /\ waitEvent = Waiting => applied = taken
    /\ waitEvent \in 1 .. 2 * N => taken = waitEvent /\ applied = taken - 1
    /\ waitEvent = Closed => applied = taken

ClosedIsTheEnd ==
  /\ eventsClosed => waitEvent = Closed
  /\ waitEvent = Closed => EventsAreClosed /\ taken = sent

(* The result, once there is one, is the work's and the work is over.      *)
ResultIsDelivered ==
  /\ work \in {"running", "sending"} <=> workErr = "none"
  /\ done = "full" => work = "over" /\ waitDone = "waiting"
  /\ waitDone # "waiting" => work = "over"
  /\ result # "none" <=> waitDone = "delivered"
  /\ result # "none" => result = workErr

(* Who asked for what: each press but one of a finished screen asked to    *)
(* cancel.                                                                 *)
CancelIsAsked ==
  /\ interrupting \/ signaled => canceled
  /\ workErr = "canceled" => canceled
  /\ interrupting => presses > 0
  /\ presses > 0 => interrupting \/ finished(result, eventsClosed)
QuitsForAReason ==
  screen \in {"quitting", "quit"} =>
    finished(result, eventsClosed) \/ presses = 2 \/ signaled

MainFollowsScreen ==
  /\ main = "screen" <=> screen \in {"up", "quitting"}
  /\ main = "following" => screen = "broken"
  /\ exit # "none" <=> main = "over"
  /\ outcome = "none" <=> main \in {"screen", "following"}

OutcomeIsTrue ==
  /\ outcome \in Errors => EventsAreClosed /\ outcome = workErr
  /\ outcome = "abandoned" => screen = "quit" /\ result = "none"
  /\ exit # "none" => exit = ExitCode

(* What the steps of the program keep. *)
ScreenInv ==
  /\ TypeOK /\ EventsAreApplied /\ ClosedIsTheEnd /\ ResultIsDelivered
  /\ CancelIsAsked /\ QuitsForAReason /\ MainFollowsScreen /\ OutcomeIsTrue

-----------------------------------------------------------------------------
(* Every step keeps the invariant.                                         *)

(* Nothing has happened yet. *)
LEMMA InitInv == Init => ScreenInv
<1> SUFFICES ASSUME Init PROVE ScreenInv
  OBVIOUS
<1> USE ScreenAssumption DEF Init, Waiting, Closed, Errors, EventsAreClosed
<1>1. TypeOK
  <2>1. phases \in [1 .. N -> {"pending", "running", "done", "failed"}]
    OBVIOUS
  <2>2. sent \in 0 .. 2 * N /\ taken \in 0 .. sent /\ Length <= Buffer
    BY DEF Length
  <2>3. waitEvent \in Waiting .. Closed /\ applied \in 0 .. 2 * N
    OBVIOUS
  <2>4. presses \in 0 .. 2
    OBVIOUS
  <2> QED BY <2>1, <2>2, <2>3, <2>4 DEF TypeOK
<1>2. EventsAreApplied /\ ClosedIsTheEnd
  BY DEF EventsAreApplied, ClosedIsTheEnd
<1>3. ResultIsDelivered /\ CancelIsAsked /\ QuitsForAReason
  BY DEF ResultIsDelivered, CancelIsAsked, QuitsForAReason
<1>4. MainFollowsScreen /\ OutcomeIsTrue
  BY DEF MainFollowsScreen, OutcomeIsTrue
<1> QED BY <1>1, <1>2, <1>3, <1>4 DEF ScreenInv

(* The work is about to send an event: nothing else has changed. *)
LEMMA ReportsInv ==
  ASSUME ScreenInv, Reports
  PROVE  ScreenInv'
<1> USE ScreenAssumption
    DEF ScreenInv, TypeOK, Waiting, Closed, Errors, Length, Alive, Showing,
        EventsAreClosed, finished, workVars, screenVars, mainVars
<1>1. TypeOK'
  BY DEF Reports
<1>2. EventsAreApplied'
  BY DEF Reports, EventsAreApplied, ClosedIsTheEnd
<1>3. ClosedIsTheEnd'
  BY DEF Reports, ClosedIsTheEnd
<1>4. ResultIsDelivered'
  BY DEF Reports, ResultIsDelivered
<1>5. CancelIsAsked'
  BY DEF Reports, CancelIsAsked, ClosedIsTheEnd, ResultIsDelivered
<1>6. QuitsForAReason'
  BY DEF Reports, QuitsForAReason, CancelIsAsked
<1>7. MainFollowsScreen'
  BY DEF Reports, MainFollowsScreen
<1>8. OutcomeIsTrue'
  BY DEF Reports, OutcomeIsTrue, MainFollowsScreen, ResultIsDelivered,
         ExitCode, Interrupted
<1> QED BY <1>1, <1>2, <1>3, <1>4, <1>5, <1>6, <1>7, <1>8

(* The send succeeds: one more event in the channel, which is open. *)
LEMMA SendInv ==
  ASSUME ScreenInv, Send
  PROVE  ScreenInv'
<1> USE ScreenAssumption
    DEF ScreenInv, TypeOK, Waiting, Closed, Errors, Length, Alive, Showing,
        EventsAreClosed, finished, workVars, screenVars, mainVars
<1>1. TypeOK'
  <2>1. sent' \in 0 .. 2 * N /\ taken' \in 0 .. sent' /\ Length' <= Buffer
    BY DEF Send
  <2>2. work' = "running" /\ work' # "sending"
    BY DEF Send
  <2> QED BY <2>1, <2>2 DEF Send
<1>2. EventsAreApplied'
  BY DEF Send, EventsAreApplied, ClosedIsTheEnd
<1>3. ClosedIsTheEnd'
  BY DEF Send, ClosedIsTheEnd
<1>4. ResultIsDelivered'
  BY DEF Send, ResultIsDelivered
<1>5. CancelIsAsked'
  BY DEF Send, CancelIsAsked, ClosedIsTheEnd, ResultIsDelivered
<1>6. QuitsForAReason'
  BY DEF Send, QuitsForAReason, CancelIsAsked
<1>7. MainFollowsScreen'
  BY DEF Send, MainFollowsScreen
<1>8. OutcomeIsTrue'
  BY DEF Send, OutcomeIsTrue, MainFollowsScreen, ResultIsDelivered,
         ExitCode, Interrupted
<1> QED BY <1>1, <1>2, <1>3, <1>4, <1>5, <1>6, <1>7, <1>8

(* The work ends: its error is set, and nobody has it yet. *)
LEMMA ReturnInv ==
  ASSUME ScreenInv, NEW err \in Errors, Return(err)
  PROVE  ScreenInv'
<1> USE ScreenAssumption
    DEF ScreenInv, TypeOK, Waiting, Closed, Errors, Length, Alive, Showing,
        EventsAreClosed, finished, workVars, screenVars, mainVars
<1>1. TypeOK'
  BY DEF Return
<1>2. EventsAreApplied'
  BY DEF Return, EventsAreApplied, ClosedIsTheEnd
<1>3. ClosedIsTheEnd'
  BY DEF Return, ClosedIsTheEnd
<1>4. ResultIsDelivered'
  BY DEF Return, ResultIsDelivered
<1>5. CancelIsAsked'
  BY DEF Return, CancelIsAsked, ClosedIsTheEnd, ResultIsDelivered
<1>6. QuitsForAReason'
  BY DEF Return, QuitsForAReason, CancelIsAsked
<1>7. MainFollowsScreen'
  BY DEF Return, MainFollowsScreen
<1>8. OutcomeIsTrue'
  BY DEF Return, OutcomeIsTrue, MainFollowsScreen, ResultIsDelivered,
         ExitCode, Interrupted
<1> QED BY <1>1, <1>2, <1>3, <1>4, <1>5, <1>6, <1>7, <1>8

(* The channel is closed behind the last event. *)
LEMMA CloseEventsInv ==
  ASSUME ScreenInv, CloseEvents
  PROVE  ScreenInv'
<1> USE ScreenAssumption
    DEF ScreenInv, TypeOK, Waiting, Closed, Errors, Length, Alive, Showing,
        EventsAreClosed, finished, workVars, screenVars, mainVars
<1>1. TypeOK'
  BY DEF CloseEvents
<1>2. EventsAreApplied'
  BY DEF CloseEvents, EventsAreApplied, ClosedIsTheEnd
<1>3. ClosedIsTheEnd'
  BY DEF CloseEvents, ClosedIsTheEnd
<1>4. ResultIsDelivered'
  BY DEF CloseEvents, ResultIsDelivered
<1>5. CancelIsAsked'
  BY DEF CloseEvents, CancelIsAsked, ClosedIsTheEnd, ResultIsDelivered
<1>6. QuitsForAReason'
  BY DEF CloseEvents, QuitsForAReason, CancelIsAsked
<1>7. MainFollowsScreen'
  BY DEF CloseEvents, MainFollowsScreen
<1>8. OutcomeIsTrue'
  BY DEF CloseEvents, OutcomeIsTrue, MainFollowsScreen, ResultIsDelivered,
         ExitCode, Interrupted
<1> QED BY <1>1, <1>2, <1>3, <1>4, <1>5, <1>6, <1>7, <1>8

(* The result goes into the done channel, which is empty. *)
LEMMA SendDoneInv ==
  ASSUME ScreenInv, SendDone
  PROVE  ScreenInv'
<1> USE ScreenAssumption
    DEF ScreenInv, TypeOK, Waiting, Closed, Errors, Length, Alive, Showing,
        EventsAreClosed, finished, workVars, screenVars, mainVars
<1>1. TypeOK'
  BY DEF SendDone
<1>2. EventsAreApplied'
  BY DEF SendDone, EventsAreApplied, ClosedIsTheEnd
<1>3. ClosedIsTheEnd'
  BY DEF SendDone, ClosedIsTheEnd
<1>4. ResultIsDelivered'
  BY DEF SendDone, ResultIsDelivered
<1>5. CancelIsAsked'
  BY DEF SendDone, CancelIsAsked, ClosedIsTheEnd, ResultIsDelivered
<1>6. QuitsForAReason'
  BY DEF SendDone, QuitsForAReason, CancelIsAsked
<1>7. MainFollowsScreen'
  BY DEF SendDone, MainFollowsScreen
<1>8. OutcomeIsTrue'
  BY DEF SendDone, OutcomeIsTrue, MainFollowsScreen, ResultIsDelivered,
         ExitCode, Interrupted
<1> QED BY <1>1, <1>2, <1>3, <1>4, <1>5, <1>6, <1>7, <1>8

(* The command takes the next event, having handed on the one before. *)
LEMMA TakeEventInv ==
  ASSUME ScreenInv, TakeEvent
  PROVE  ScreenInv'
<1> USE ScreenAssumption
    DEF ScreenInv, TypeOK, Waiting, Closed, Errors, Length, Alive, Showing,
        EventsAreClosed, finished, workVars, screenVars, mainVars
<1>1. TypeOK'
  BY DEF TakeEvent
<1>2. EventsAreApplied'
  BY DEF TakeEvent, EventsAreApplied, ClosedIsTheEnd
<1>3. ClosedIsTheEnd'
  BY DEF TakeEvent, ClosedIsTheEnd
<1>4. ResultIsDelivered'
  BY DEF TakeEvent, ResultIsDelivered
<1>5. CancelIsAsked'
  BY DEF TakeEvent, CancelIsAsked, ClosedIsTheEnd, ResultIsDelivered
<1>6. QuitsForAReason'
  BY DEF TakeEvent, QuitsForAReason, CancelIsAsked
<1>7. MainFollowsScreen'
  BY DEF TakeEvent, MainFollowsScreen
<1>8. OutcomeIsTrue'
  BY DEF TakeEvent, OutcomeIsTrue, MainFollowsScreen, ResultIsDelivered,
         ExitCode, Interrupted
<1> QED BY <1>1, <1>2, <1>3, <1>4, <1>5, <1>6, <1>7, <1>8

(* The command finds the channel closed and empty. *)
LEMMA TakeClosedInv ==
  ASSUME ScreenInv, TakeClosed
  PROVE  ScreenInv'
<1> USE ScreenAssumption
    DEF ScreenInv, TypeOK, Waiting, Closed, Errors, Length, Alive, Showing,
        EventsAreClosed, finished, workVars, screenVars, mainVars
<1>1. TypeOK'
  BY DEF TakeClosed
<1>2. EventsAreApplied'
  BY DEF TakeClosed, EventsAreApplied, ClosedIsTheEnd
<1>3. ClosedIsTheEnd'
  BY DEF TakeClosed, ClosedIsTheEnd
<1>4. ResultIsDelivered'
  BY DEF TakeClosed, ResultIsDelivered
<1>5. CancelIsAsked'
  BY DEF TakeClosed, CancelIsAsked, ClosedIsTheEnd, ResultIsDelivered
<1>6. QuitsForAReason'
  BY DEF TakeClosed, QuitsForAReason, CancelIsAsked
<1>7. MainFollowsScreen'
  BY DEF TakeClosed, MainFollowsScreen
<1>8. OutcomeIsTrue'
  BY DEF TakeClosed, OutcomeIsTrue, MainFollowsScreen, ResultIsDelivered,
         ExitCode, Interrupted
<1> QED BY <1>1, <1>2, <1>3, <1>4, <1>5, <1>6, <1>7, <1>8

(* The other command takes the result. *)
LEMMA TakeDoneInv ==
  ASSUME ScreenInv, TakeDone
  PROVE  ScreenInv'
<1> USE ScreenAssumption
    DEF ScreenInv, TypeOK, Waiting, Closed, Errors, Length, Alive, Showing,
        EventsAreClosed, finished, workVars, screenVars, mainVars
<1>1. TypeOK'
  BY DEF TakeDone
<1>2. EventsAreApplied'
  BY DEF TakeDone, EventsAreApplied, ClosedIsTheEnd
<1>3. ClosedIsTheEnd'
  BY DEF TakeDone, ClosedIsTheEnd
<1>4. ResultIsDelivered'
  BY DEF TakeDone, ResultIsDelivered
<1>5. CancelIsAsked'
  BY DEF TakeDone, CancelIsAsked, ClosedIsTheEnd, ResultIsDelivered
<1>6. QuitsForAReason'
  BY DEF TakeDone, QuitsForAReason, CancelIsAsked
<1>7. MainFollowsScreen'
  BY DEF TakeDone, MainFollowsScreen
<1>8. OutcomeIsTrue'
  BY DEF TakeDone, OutcomeIsTrue, MainFollowsScreen, ResultIsDelivered,
         ExitCode, Interrupted
<1> QED BY <1>1, <1>2, <1>3, <1>4, <1>5, <1>6, <1>7, <1>8

(* The screen applies the event its command holds. *)
LEMMA UpdateEventInv ==
  ASSUME ScreenInv, UpdateEvent
  PROVE  ScreenInv'
<1> USE ScreenAssumption
    DEF ScreenInv, TypeOK, Waiting, Closed, Errors, Length, Alive, Showing,
        EventsAreClosed, finished, workVars, screenVars, mainVars
<1>1. TypeOK'
  <2>1. phases' \in [1 .. N -> {"pending", "running", "done", "failed"}]
    BY DEF UpdateEvent, AfterEvent
  <2>2. applied' \in 0 .. 2 * N /\ waitEvent' = Waiting
    BY DEF UpdateEvent
  <2> QED BY <2>1, <2>2 DEF UpdateEvent
<1>2. EventsAreApplied'
  BY DEF UpdateEvent, AfterEvent, EventsAreApplied, ClosedIsTheEnd
<1>3. ClosedIsTheEnd'
  BY DEF UpdateEvent, AfterEvent, ClosedIsTheEnd
<1>4. ResultIsDelivered'
  BY DEF UpdateEvent, AfterEvent, ResultIsDelivered
<1>5. CancelIsAsked'
  BY DEF UpdateEvent, AfterEvent, CancelIsAsked, ClosedIsTheEnd,
         ResultIsDelivered
<1>6. QuitsForAReason'
  BY DEF UpdateEvent, AfterEvent, QuitsForAReason, CancelIsAsked
<1>7. MainFollowsScreen'
  BY DEF UpdateEvent, AfterEvent, MainFollowsScreen
<1>8. OutcomeIsTrue'
  BY DEF UpdateEvent, AfterEvent, OutcomeIsTrue, MainFollowsScreen,
         ResultIsDelivered, ExitCode, Interrupted
<1> QED BY <1>1, <1>2, <1>3, <1>4, <1>5, <1>6, <1>7, <1>8

(* The screen learns that there are no more events. *)
LEMMA UpdateClosedInv ==
  ASSUME ScreenInv, UpdateClosed
  PROVE  ScreenInv'
<1> USE ScreenAssumption
    DEF ScreenInv, TypeOK, Waiting, Closed, Errors, Length, Alive, Showing,
        EventsAreClosed, finished, workVars, screenVars, mainVars
<1>1. TypeOK'
  BY DEF UpdateClosed, QuitIf
<1>2. EventsAreApplied'
  BY DEF UpdateClosed, QuitIf, EventsAreApplied, ClosedIsTheEnd
<1>3. ClosedIsTheEnd'
  BY DEF UpdateClosed, QuitIf, ClosedIsTheEnd
<1>4. ResultIsDelivered'
  BY DEF UpdateClosed, QuitIf, ResultIsDelivered
<1>5. CancelIsAsked'
  BY DEF UpdateClosed, QuitIf, CancelIsAsked, ClosedIsTheEnd,
         ResultIsDelivered
<1>6. QuitsForAReason'
  BY DEF UpdateClosed, QuitIf, QuitsForAReason, CancelIsAsked
<1>7. MainFollowsScreen'
  BY DEF UpdateClosed, QuitIf, MainFollowsScreen
<1>8. OutcomeIsTrue'
  BY DEF UpdateClosed, QuitIf, OutcomeIsTrue, MainFollowsScreen,
         ResultIsDelivered, ExitCode, Interrupted
<1> QED BY <1>1, <1>2, <1>3, <1>4, <1>5, <1>6, <1>7, <1>8

(* The result reaches the screen. *)
LEMMA UpdateDoneInv ==
  ASSUME ScreenInv, UpdateDone
  PROVE  ScreenInv'
<1> USE ScreenAssumption
    DEF ScreenInv, TypeOK, Waiting, Closed, Errors, Length, Alive, Showing,
        EventsAreClosed, finished, workVars, screenVars, mainVars
<1>1. TypeOK'
  BY DEF UpdateDone, Settled, QuitIf
<1>2. EventsAreApplied'
  BY DEF UpdateDone, Settled, QuitIf, EventsAreApplied, ClosedIsTheEnd
<1>3. ClosedIsTheEnd'
  BY DEF UpdateDone, Settled, QuitIf, ClosedIsTheEnd
<1>4. ResultIsDelivered'
  BY DEF UpdateDone, Settled, QuitIf, ResultIsDelivered
<1>5. CancelIsAsked'
  BY DEF UpdateDone, Settled, QuitIf, CancelIsAsked, ClosedIsTheEnd,
         ResultIsDelivered
<1>6. QuitsForAReason'
  BY DEF UpdateDone, Settled, QuitIf, QuitsForAReason, CancelIsAsked,
         ResultIsDelivered
<1>7. MainFollowsScreen'
  BY DEF UpdateDone, Settled, QuitIf, MainFollowsScreen
<1>8. OutcomeIsTrue'
  BY DEF UpdateDone, Settled, QuitIf, OutcomeIsTrue, MainFollowsScreen,
         ResultIsDelivered, ExitCode, Interrupted
<1> QED BY <1>1, <1>2, <1>3, <1>4, <1>5, <1>6, <1>7, <1>8

(* Ctrl-C cancels, or abandons what was canceled or is finished. *)
LEMMA CtrlCInv ==
  ASSUME ScreenInv, CtrlC
  PROVE  ScreenInv'
<1> USE ScreenAssumption
    DEF ScreenInv, TypeOK, Waiting, Closed, Errors, Length, Alive, Showing,
        EventsAreClosed, finished, workVars, screenVars, mainVars
<1>1. TypeOK'
  <2>1. presses' \in 0 .. 2
    BY DEF CtrlC
  <2>2. screen' \in {"up", "quitting", "quit", "broken"}
    BY DEF CtrlC
  <2>3. canceled' \in BOOLEAN /\ interrupting' \in BOOLEAN
    BY DEF CtrlC
  <2> QED BY <2>1, <2>2, <2>3 DEF CtrlC
<1>2. EventsAreApplied'
  BY DEF CtrlC, Abandons, EventsAreApplied, ClosedIsTheEnd
<1>3. ClosedIsTheEnd'
  BY DEF CtrlC, Abandons, ClosedIsTheEnd
<1>4. ResultIsDelivered'
  BY DEF CtrlC, Abandons, ResultIsDelivered
<1>5. CancelIsAsked'
  BY DEF CtrlC, Abandons, CancelIsAsked, ClosedIsTheEnd, ResultIsDelivered
<1>6. QuitsForAReason'
  BY DEF CtrlC, Abandons, QuitsForAReason, CancelIsAsked
<1>7. MainFollowsScreen'
  BY DEF CtrlC, Abandons, MainFollowsScreen
<1>8. OutcomeIsTrue'
  BY DEF CtrlC, Abandons, OutcomeIsTrue, MainFollowsScreen,
         ResultIsDelivered, ExitCode, Interrupted
<1> QED BY <1>1, <1>2, <1>3, <1>4, <1>5, <1>6, <1>7, <1>8

(* The screen is gone, with the result or without one. *)
LEMMA ScreenQuitsInv ==
  ASSUME ScreenInv, ScreenQuits
  PROVE  ScreenInv'
<1> USE ScreenAssumption
    DEF ScreenInv, TypeOK, Waiting, Closed, Errors, Length, Alive, Showing,
        EventsAreClosed, finished, workVars, screenVars, mainVars
<1>1. TypeOK'
  BY DEF ScreenQuits, Outcome
<1>2. EventsAreApplied'
  BY DEF ScreenQuits, Outcome, EventsAreApplied, ClosedIsTheEnd
<1>3. ClosedIsTheEnd'
  BY DEF ScreenQuits, Outcome, ClosedIsTheEnd
<1>4. ResultIsDelivered'
  BY DEF ScreenQuits, Outcome, ResultIsDelivered
<1>5. CancelIsAsked'
  BY DEF ScreenQuits, Outcome, CancelIsAsked, ClosedIsTheEnd,
         ResultIsDelivered
<1>6. QuitsForAReason'
  BY DEF ScreenQuits, Outcome, QuitsForAReason, CancelIsAsked
<1>7. MainFollowsScreen'
  BY DEF ScreenQuits, Outcome, MainFollowsScreen
<1>8. OutcomeIsTrue'
  BY DEF ScreenQuits, Outcome, OutcomeIsTrue, MainFollowsScreen,
         ResultIsDelivered, ExitCode, Interrupted
<1> QED BY <1>1, <1>2, <1>3, <1>4, <1>5, <1>6, <1>7, <1>8

(* The screen fails, with whatever its commands hold. *)
LEMMA ScreenFailsInv ==
  ASSUME ScreenInv, ScreenFails
  PROVE  ScreenInv'
<1> USE ScreenAssumption
    DEF ScreenInv, TypeOK, Waiting, Closed, Errors, Length, Alive, Showing,
        EventsAreClosed, finished, workVars, screenVars, mainVars
<1>1. TypeOK'
  BY DEF ScreenFails
<1>2. EventsAreApplied'
  BY DEF ScreenFails, EventsAreApplied, ClosedIsTheEnd
<1>3. ClosedIsTheEnd'
  BY DEF ScreenFails, ClosedIsTheEnd
<1>4. ResultIsDelivered'
  BY DEF ScreenFails, ResultIsDelivered
<1>5. CancelIsAsked'
  BY DEF ScreenFails, CancelIsAsked, ClosedIsTheEnd, ResultIsDelivered
<1>6. QuitsForAReason'
  BY DEF ScreenFails, QuitsForAReason, CancelIsAsked
<1>7. MainFollowsScreen'
  BY DEF ScreenFails, MainFollowsScreen
<1>8. OutcomeIsTrue'
  BY DEF ScreenFails, OutcomeIsTrue, MainFollowsScreen, ResultIsDelivered,
         ExitCode, Interrupted
<1> QED BY <1>1, <1>2, <1>3, <1>4, <1>5, <1>6, <1>7, <1>8

(* The events drain unseen: this happens after a screen failed. *)
LEMMA FollowInv ==
  ASSUME ScreenInv, Follow
  PROVE  ScreenInv'
<1> USE ScreenAssumption
    DEF ScreenInv, TypeOK, Waiting, Closed, Errors, Length, Alive, Showing,
        EventsAreClosed, finished, workVars, screenVars, mainVars
<1>1. TypeOK'
  BY DEF Follow, Follows
<1>2. EventsAreApplied'
  BY DEF Follow, Follows, EventsAreApplied, ClosedIsTheEnd,
         MainFollowsScreen
<1>3. ClosedIsTheEnd'
  BY DEF Follow, Follows, ClosedIsTheEnd
<1>4. ResultIsDelivered'
  BY DEF Follow, Follows, ResultIsDelivered
<1>5. CancelIsAsked'
  BY DEF Follow, Follows, CancelIsAsked, ClosedIsTheEnd, ResultIsDelivered
<1>6. QuitsForAReason'
  BY DEF Follow, Follows, QuitsForAReason, CancelIsAsked
<1>7. MainFollowsScreen'
  BY DEF Follow, Follows, MainFollowsScreen
<1>8. OutcomeIsTrue'
  BY DEF Follow, Follows, OutcomeIsTrue, MainFollowsScreen,
         ResultIsDelivered, ExitCode, Interrupted
<1> QED BY <1>1, <1>2, <1>3, <1>4, <1>5, <1>6, <1>7, <1>8

(* The channel is closed, so the error may be read. *)
LEMMA FollowEndsInv ==
  ASSUME ScreenInv, FollowEnds
  PROVE  ScreenInv'
<1> USE ScreenAssumption
    DEF ScreenInv, TypeOK, Waiting, Closed, Errors, Length, Alive, Showing,
        EventsAreClosed, finished, workVars, screenVars, mainVars
<1>1. TypeOK'
  BY DEF FollowEnds, FollowedToTheEnd, ResultIsDelivered
<1>2. EventsAreApplied'
  BY DEF FollowEnds, FollowedToTheEnd, EventsAreApplied, ClosedIsTheEnd
<1>3. ClosedIsTheEnd'
  BY DEF FollowEnds, FollowedToTheEnd, ClosedIsTheEnd
<1>4. ResultIsDelivered'
  BY DEF FollowEnds, FollowedToTheEnd, ResultIsDelivered
<1>5. CancelIsAsked'
  BY DEF FollowEnds, FollowedToTheEnd, CancelIsAsked, ClosedIsTheEnd,
         ResultIsDelivered
<1>6. QuitsForAReason'
  BY DEF FollowEnds, FollowedToTheEnd, QuitsForAReason, CancelIsAsked
<1>7. MainFollowsScreen'
  BY DEF FollowEnds, FollowedToTheEnd, MainFollowsScreen, ResultIsDelivered
<1>8. OutcomeIsTrue'
  BY DEF FollowEnds, FollowedToTheEnd, OutcomeIsTrue, MainFollowsScreen,
         ResultIsDelivered, ExitCode, Interrupted
<1> QED BY <1>1, <1>2, <1>3, <1>4, <1>5, <1>6, <1>7, <1>8

(* The exit code is what the outcome says. *)
LEMMA ExitInv ==
  ASSUME ScreenInv, Exit
  PROVE  ScreenInv'
<1> USE ScreenAssumption
    DEF ScreenInv, TypeOK, Waiting, Closed, Errors, Length, Alive, Showing,
        EventsAreClosed, finished, workVars, screenVars, mainVars
<1>1. TypeOK'
  BY DEF Exit, ExitCode, Interrupted
<1>2. EventsAreApplied'
  BY DEF Exit, ExitCode, EventsAreApplied, ClosedIsTheEnd
<1>3. ClosedIsTheEnd'
  BY DEF Exit, ExitCode, ClosedIsTheEnd
<1>4. ResultIsDelivered'
  BY DEF Exit, ExitCode, ResultIsDelivered
<1>5. CancelIsAsked'
  BY DEF Exit, ExitCode, CancelIsAsked, ClosedIsTheEnd, ResultIsDelivered
<1>6. QuitsForAReason'
  BY DEF Exit, ExitCode, QuitsForAReason, CancelIsAsked
<1>7. MainFollowsScreen'
  BY DEF Exit, ExitCode, MainFollowsScreen
<1>8. OutcomeIsTrue'
  BY DEF Exit, ExitCode, OutcomeIsTrue, MainFollowsScreen,
         ResultIsDelivered, Interrupted
<1> QED BY <1>1, <1>2, <1>3, <1>4, <1>5, <1>6, <1>7, <1>8

(* A signal cancels, and may close the screen. *)
LEMMA SignalInv ==
  ASSUME ScreenInv, NEW teaQuits \in BOOLEAN, Signal(teaQuits)
  PROVE  ScreenInv'
<1> USE ScreenAssumption
    DEF ScreenInv, TypeOK, Waiting, Closed, Errors, Length, Alive, Showing,
        EventsAreClosed, finished, workVars, screenVars, mainVars
<1>1. TypeOK'
  BY DEF Signal
<1>2. EventsAreApplied'
  BY DEF Signal, EventsAreApplied, ClosedIsTheEnd
<1>3. ClosedIsTheEnd'
  BY DEF Signal, ClosedIsTheEnd
<1>4. ResultIsDelivered'
  BY DEF Signal, ResultIsDelivered
<1>5. CancelIsAsked'
  BY DEF Signal, CancelIsAsked, ClosedIsTheEnd, ResultIsDelivered
<1>6. QuitsForAReason'
  BY DEF Signal, QuitsForAReason, CancelIsAsked
<1>7. MainFollowsScreen'
  BY DEF Signal, MainFollowsScreen
<1>8. OutcomeIsTrue'
  BY DEF Signal, OutcomeIsTrue, MainFollowsScreen, ResultIsDelivered,
         ExitCode, Interrupted
<1> QED BY <1>1, <1>2, <1>3, <1>4, <1>5, <1>6, <1>7, <1>8

(* A step in which nothing changes keeps anything. *)
LEMMA StutterInv ==
  ASSUME ScreenInv, UNCHANGED vars
  PROVE  ScreenInv'
BY DEF ScreenInv, TypeOK, EventsAreApplied, ClosedIsTheEnd, ResultIsDelivered,
       CancelIsAsked, QuitsForAReason, MainFollowsScreen, OutcomeIsTrue,
       vars, workVars, screenVars, mainVars, Length, Closed, EventsAreClosed,
       finished, ExitCode, Interrupted

(* Every step of the work, the commands, the screen, the main function and *)
(* the user keeps the invariant. *)
LEMMA StepInv == ScreenInv /\ [Next]_vars => ScreenInv'
<1> SUFFICES ASSUME ScreenInv, [Next]_vars
             PROVE  ScreenInv'
  OBVIOUS
<1>1. CASE Work
  BY <1>1, ReportsInv, SendInv, ReturnInv, CloseEventsInv, SendDoneInv
     DEF Work
<1>2. CASE Commands
  BY <1>2, TakeEventInv, TakeClosedInv, TakeDoneInv DEF Commands
<1>3. CASE Update
  BY <1>3, UpdateEventInv, UpdateClosedInv, UpdateDoneInv, ScreenQuitsInv
     DEF Update
<1>4. CASE Main
  BY <1>4, FollowInv, FollowEndsInv, ExitInv DEF Main
<1>5. CASE Outside
  BY <1>5, CtrlCInv, ScreenFailsInv, SignalInv DEF Outside
<1>6. CASE Over \/ UNCHANGED vars
  BY <1>6, StutterInv DEF Over
<1> QED BY <1>1, <1>2, <1>3, <1>4, <1>5, <1>6 DEF Next

(* Typing, and where every event and the result are at any time, whoever   *)
(* takes them first. *)
THEOREM ScreenInvariant == Spec => [](TypeOK /\ ScreenInv)
<1>1. Init => ScreenInv
  BY InitInv
<1>2. ScreenInv /\ [Next]_vars => ScreenInv'
  BY StepInv
<1>3. ScreenInv => TypeOK
  BY DEF ScreenInv
<1> QED BY <1>1, <1>2, <1>3, PTL DEF Spec

-----------------------------------------------------------------------------
(* What follows from it.                                                   *)

(* The exit code of frostroot build says what happened to the build,       *)
(* however the screen ended and whichever command was the faster. *)
THEOREM ExitIsTrueHolds == Spec => []ExitIsTrue
<1>1. ScreenInv => ExitIsTrue
  BY DEF ScreenInv, TypeOK, ResultIsDelivered, CancelIsAsked, QuitsForAReason,
         MainFollowsScreen, OutcomeIsTrue, ExitIsTrue, ExitCode, Interrupted,
         Errors, EventsAreClosed, finished
<1> QED BY <1>1, ScreenInvariant, PTL

(* A screen nobody closed has shown every event of a work that is over,    *)
(* with any number of phases and any capacity of the channel. *)
THEOREM ClosesOnceAllIsShownHolds == Spec => []ClosesOnceAllIsShown
<1>1. ScreenInv => ClosesOnceAllIsShown
  BY DEF ScreenInv, EventsAreApplied, ClosedIsTheEnd, QuitsForAReason,
         ClosesOnceAllIsShown, TypeOK, finished
<1> QED BY <1>1, ScreenInvariant, PTL
=============================================================================
