---------------------------- MODULE RunRegistry ----------------------------
(***************************************************************************)
(* Who stops whom (state.rs, commands.rs): every transfer registers a      *)
(* TransferControl of its own under its run id; imports, dumps and exports *)
(* share one, which each of them resets when it starts, as does a transfer *)
(* without a run id.  A command of the window names a run, and control_for *)
(* takes it to the run's control or, if there is none, to the shared one.  *)
(* The run id of the window is that of a tab, which may run again: nothing *)
(* waits for the last run to have taken its entry away.                    *)
(*                                                                         *)
(* A control is its stop flag here, which a command sets in one step.  How *)
(* check() sleeps on it and on pauses is the matter of TransferControl;    *)
(* here a pause is but a check that takes its time, as any may.            *)
(***************************************************************************)
EXTENDS Naturals

CONSTANTS
  Transfers,   \* operations with a run id: a tab's transfers, one at a time
  Borrowers,   \* operations on the shared control
  Shared,      \* AppState::transfer_control
  MaxLeaving   \* bound: calls of one tab on their way out at a time

ASSUME RegistryAssumption ==
  /\ Transfers \cap Borrowers = {}
  /\ Shared \notin Transfers
  /\ MaxLeaving \in Nat \ {0}

Ops == Transfers \cup Borrowers
Controls == Transfers \cup {Shared}

VARIABLES
  runs,     \* AppState::transfer_runs, the run ids with a control
  stops,    \* the controls whose stop is set
  place,    \* place[o]: where operation o is
  leaving,  \* leaving[t]: ended calls of t that have not removed their entry
  told      \* history: running operations told to stop and not reset since

registryVars == <<runs, stops, place, leaving, told>>

(* "fresh": a run id nobody has used.  "idle": not running (any more).     *)
Places == {"fresh", "idle", "called", "check", "work"}

RegistryTypeOK ==
  /\ runs \subseteq Transfers
  /\ stops \subseteq Controls
  /\ place \in [Ops -> Places]
  /\ leaving \in [Transfers -> 0..MaxLeaving]
  /\ told \subseteq Ops

RegistryInit ==
  /\ runs = {}
  /\ stops = {}
  /\ place = [o \in Ops |-> IF o \in Transfers THEN "fresh" ELSE "idle"]
  /\ leaving = [t \in Transfers |-> 0]
  /\ told = {}

-----------------------------------------------------------------------------
(* Starting an operation.                                                  *)

MoveOn(o, from, to) ==
  /\ place[o] \in from
  /\ place' = [place EXCEPT ![o] = to]

Begin(o) == place' = [place EXCEPT ![o] = "check"]

(* The window shows Stop and calls the command, which waits for the lock   *)
(* on the connections first.  A tab may start again as soon as it has seen *)
(* the end of its last run.                                                *)
Start(o) ==
  /\ MoveOn(o, {"fresh", "idle"}, "called")
  /\ UNCHANGED <<runs, stops, leaving, told>>

(* A connection it needs is not open.                                      *)
NotOpen(o) ==
  /\ MoveOn(o, {"called"}, "idle")
  /\ UNCHANGED <<runs, stops, leaving, told>>

(* register_transfer_run with a run id, once it has the lock on the runs:  *)
(* a control of its own, in the place of whatever the id named; then       *)
(* run_transfer.                                                           *)
RegisterRun(t) ==
  /\ MoveOn(t, {"called"}, "check")
  /\ runs' = runs \cup {t}
  /\ stops' = stops \ {t}
  /\ UNCHANGED <<leaving, told>>

(* sql_import_start, sql_dump_start, data_export_start, and a transfer     *)
(* without a run id: reset() and go.  Whoever was told to stop on the      *)
(* shared control and has not noticed yet never will.                      *)
ResetShared(b) ==
  /\ MoveOn(b, {"called"}, "check")
  /\ stops' = stops \ {Shared}
  /\ told' = told \ Borrowers
  /\ UNCHANGED <<runs, leaving>>

-----------------------------------------------------------------------------
(* The operation: check(), a piece of work, check(), ...                   *)

ControlOf(o) == IF o \in Transfers THEN o ELSE Shared

(* transfer:done and its like: the window may start o again, while the     *)
(* call of a transfer has still its entry to remove (for no longer than    *)
(* the next run of the tab lasts: the bound).                              *)
End(o) ==
  /\ o \in Transfers => leaving[o] < MaxLeaving
  /\ place' = [place EXCEPT ![o] = "idle"]
  /\ leaving' = [t \in Transfers |-> IF t = o THEN leaving[t] + 1 ELSE leaving[t]]
  /\ told' = told \ {o}

(* check() tells whether to go on, after any pause.  An operation with     *)
(* nothing left to do ends without it.                                     *)
Check(o) ==
  /\ place[o] = "check"
  /\ \/ /\ ControlOf(o) \notin stops
        /\ place' = [place EXCEPT ![o] = "work"]
        /\ UNCHANGED <<leaving, told>>
     \/ /\ ControlOf(o) \in stops
        /\ End(o)
  /\ UNCHANGED <<runs, stops>>

(* A piece is done: the next, or the operation is over or has failed.      *)
Work(o) ==
  /\ place[o] = "work"
  /\ \/ Begin(o) /\ UNCHANGED <<leaving, told>>
     \/ End(o)
  /\ UNCHANGED <<runs, stops>>

Run(o) == Check(o) \/ Work(o)

(* The command takes away the entry of its run id, be it that of the next  *)
(* run, and returns.  A control goes with its entry, unless a run holds it.*)
Unregister(t) ==
  /\ leaving[t] > 0
  /\ leaving' = [leaving EXCEPT ![t] = @ - 1]
  /\ runs' = runs \ {t}
  /\ stops' = IF place[t] \in {"check", "work"} THEN stops ELSE stops \ {t}
  /\ UNCHANGED <<place, told>>

-----------------------------------------------------------------------------
(* Commands of the window of operation o, which names its run if it has    *)
(* one, from its call on and after its end.  The lookup and the call on    *)
(* the control have no await between them, and a run that ends there no    *)
(* longer cares.                                                           *)

(* Mutant: the one control there was before runs had ids.                  *)
AlwaysShared(o) == Shared

ControlFor(o) == IF o \in runs THEN o ELSE Shared

(* Not yet or no longer running, or without its entry.                     *)
OutOfReach(o) ==
  \/ place[o] \in {"called", "idle"}
  \/ o \in Transfers \ runs

(* request_stop() on control c, asked by the window or the job of o.       *)
RequestStop(c, o) ==
  /\ stops' = stops \cup {c}
  /\ told' = IF OutOfReach(o) THEN told ELSE told \cup {o}
  /\ UNCHANGED <<runs, place, leaving>>

(* data_transfer_stop.                                                     *)
Stop(o) ==
  /\ place[o] # "fresh"
  /\ RequestStop(ControlFor(o), o)

-----------------------------------------------------------------------------
(* data_transfer_stop, and job_cancel of a transfer: an operation that is  *)
(* told to stop, paused or not, begins no further piece of work.  Three    *)
(* stops are lost, and are the code's: one that comes while the command    *)
(* has not registered or reset its control yet, one for a run whose entry  *)
(* the tab's last run took away, and one on the shared control that the    *)
(* start of another borrower resets before it is noticed.                  *)
StopReachesItsRun ==
  [][\A o \in told : place[o] = "check" => place'[o] # "work"]_registryVars
=============================================================================
