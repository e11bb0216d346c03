--------------------------- MODULE TransferControl ---------------------------
(***************************************************************************)
(* TransferControl (src-tauri/src/data_transfer.rs): the pause / resume /  *)
(* stop switch shared by one running operation and the commands that steer *)
(* it.  Two atomic flags and a tokio Notify.                               *)
(*                                                                         *)
(* Every task of the operation calls check() between two pieces of work.   *)
(* check() is not atomic: it reads the flags and only then creates the     *)
(* Notified future it sleeps on.  resume() and request_stop() store their  *)
(* flag and then call notify_waiters(), which wakes the futures that exist *)
(* at that moment and leaves no permit behind.  Each of those points is an *)
(* action of its own here, so the commands run in every gap.               *)
(***************************************************************************)
CONSTANT
  Tasks            (* the tasks that call check()                          *)

VARIABLES
  stop,            (* TransferControl.stop                                 *)
  paused,          (* TransferControl.paused                               *)
  notifying,       (* commands past their store, before notify_waiters()   *)
  checking,        (* where each task stands in its call of check()        *)
  missed           (* history: tasks about to sleep, or asleep, on flags   *)
                   (* that a command has changed since they read them      *)

controlVars == <<stop, paused, notifying, checking, missed>>

Commands == {"resume", "stop"}

(* "out": not in check().  "loading": about to read the flags.             *)
(* "subscribing": read paused and not stopped, no Notified future yet.     *)
(* "asleep": the future exists and is awaited.  "go" and "halt": check()   *)
(* returned true, false, and the caller has not acted on it yet.           *)
CheckPoints == {"out", "loading", "subscribing", "asleep", "go", "halt"}

ControlTypeOK ==
  /\ stop \in BOOLEAN
  /\ paused \in BOOLEAN
  /\ notifying \in SUBSET Commands
  /\ checking \in [Tasks -> CheckPoints]
  /\ missed \in SUBSET Tasks

ControlInit ==
  /\ stop = FALSE
  /\ paused = FALSE
  /\ notifying = {}
  /\ checking = [t \in Tasks |-> "out"]
  /\ missed = {}

-----------------------------------------------------------------------------
(* The commands.                                                           *)

Pause ==
  /\ paused' = TRUE
  /\ UNCHANGED <<stop, notifying, checking, missed>>

(* The tasks that have read the flags and have no future yet.              *)
InTheGap == {t \in Tasks : checking[t] = "subscribing"}

ResumeStore ==
  /\ "resume" \notin notifying
  /\ paused' = FALSE
  /\ notifying' = notifying \cup {"resume"}
  /\ missed' = missed \cup InTheGap
  /\ UNCHANGED <<stop, checking>>

StopStore ==
  /\ "stop" \notin notifying
  /\ stop' = TRUE
  /\ notifying' = notifying \cup {"stop"}
  /\ missed' = missed \cup InTheGap
  /\ UNCHANGED <<paused, checking>>

(* Wakes every future that exists; a task that has not created one misses  *)
(* the call.                                                               *)
NotifyWaiters(c) ==
  /\ c \in notifying
  /\ notifying' = notifying \ {c}
  /\ checking' = [t \in Tasks |->
                    IF checking[t] = "asleep" THEN "loading" ELSE checking[t]]
  /\ missed' = missed \cap InTheGap
  /\ UNCHANGED <<stop, paused>>

-----------------------------------------------------------------------------
(* check(), called by task t.                                              *)

(* Mutant: a task that is paused does not look at stop.                    *)
PausedFirst(t) ==
  /\ checking[t] = "loading"
  /\ checking' = [checking EXCEPT ![t] =
                    IF paused THEN "subscribing" ELSE IF stop THEN "halt" ELSE "go"]
  /\ UNCHANGED <<stop, paused, notifying, missed>>

(* The loop condition and the final load.  stop only ever goes from false  *)
(* to true during a run, so reading the two flags together loses nothing.  *)
LoadFlags(t) ==
  /\ checking[t] = "loading"
  /\ checking' = [checking EXCEPT ![t] =
                    IF stop THEN "halt" ELSE IF paused THEN "subscribing" ELSE "go"]
  /\ UNCHANGED <<stop, paused, notifying, missed>>

(* self.notify.notified().await: from here on notify_waiters() finds it.   *)
Subscribe(t) ==
  /\ checking[t] = "subscribing"
  /\ checking' = [checking EXCEPT ![t] = "asleep"]
  /\ UNCHANGED <<stop, paused, notifying, missed>>

(* The caller of check() acts on a verdict of `from` and, when it loops,   *)
(* is at once inside its next call.                                        *)
MoveCheck(t, from, to) ==
  /\ checking[t] = from
  /\ checking' = [checking EXCEPT ![t] = to]
  /\ UNCHANGED <<stop, paused, notifying, missed>>

-----------------------------------------------------------------------------
Command ==
  \/ Pause
  \/ ResumeStore
  \/ StopStore
  \/ \E c \in Commands : NotifyWaiters(c)

CheckStep(t) == LoadFlags(t) \/ Subscribe(t)

(* A task sleeps in check() only while the run is paused and not stopped,  *)
(* or while the command that ended the pause has still to call             *)
(* notify_waiters().                                                       *)
AsleepOnlyWhilePaused ==
  \A t \in Tasks :
    checking[t] = "asleep" => (paused /\ ~stop) \/ notifying # {}

(* A task sleeps on flags that were changed before it could be woken: the  *)
(* wake-up that it has lost.                                               *)
Overslept == \E t \in missed : checking[t] = "asleep"
=============================================================================
