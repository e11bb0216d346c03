---------------------------- MODULE DataTransfer ----------------------------
(***************************************************************************)
(* The table loop of a data transfer (src-tauri/src/data_transfer.rs):     *)
(* run_transfer and run_transfer_multi, run_sequential and run_parallel,   *)
(* and transfer_one as the sequence of its awaits.  The copying of one     *)
(* table's rows is here a number of batches; module TableCopy looks inside.*)
(*                                                                         *)
(* A table is <<job, position>>.  The work queue of a job is the list      *)
(* opts.tables with the position of the next table: run_parallel fills an  *)
(* async_channel and drops the sender before it spawns a worker, so the    *)
(* channel only shrinks.                                                   *)
(***************************************************************************)
EXTENDS Integers, FiniteSets, Functions, FiniteSetsExt

CONSTANTS
  Workers,         (* tasks run_parallel can spawn                         *)
  Main,            (* the task that awaits run_transfer(_multi)            *)
  NJobs,           (* schema jobs of the run                               *)
  JobSize,         (* JobSize[j]: tables of job j                          *)
  Batches          (* Batches[t]: SELECT chunks table t has; 0 is empty    *)

Tasks == Workers \cup {Main}
Tables == UNION {{j} \X (1..JobSize[j]) : j \in 1..NJobs}

ASSUME MainIsNoWorker == Main \notin Workers
ASSUME NJobsIsPositive == NJobs \in Nat \ {0}
ASSUME JobSizeIsNat == JobSize \in [1..NJobs -> Nat]
ASSUME BatchesIsNat == Batches \in [Tables -> Nat]

VARIABLES
  stop, paused, notifying, checking, missed,   (* its TransferControl      *)
  conf,            (* the options that steer the run                       *)
  stage,           (* where Main is                                        *)
  job, next,       (* current job, position of its next table              *)
  pc, held,        (* each task: its point in the table loop, its table    *)
  totals,          (* RunTotals of the current job                         *)
  sum,             (* what run_transfer_multi adds up over the jobs        *)
  result,          (* what the command returned                            *)
  landed, index,   (* target: batches of each table, its secondary index   *)
  reported,        (* transfer:table_done of each table                    *)
  starts, late,    (* history: transfer_one calls; work begun after a stop *)
  schemaErrs       (* history: jobs whose target schema failed             *)

Control == INSTANCE TransferControl

queueVars == <<job, next>>
tableVars == <<landed, index, reported>>
ghostVars == <<starts, late>>
mainVars == <<stage, sum, result, schemaErrs>>
taskVars == <<pc, held>>
vars == <<stop, paused, notifying, checking, missed, conf, stage, job, next, pc, held,
          totals, sum, result, landed, index, reported, starts, late, schemaErrs>>

NoTable == <<0, 0>>

(* pool: who runs the table loop.  concurrency 1 is run_sequential, in     *)
(* Main itself; otherwise run_parallel spawns the workers of the pool.     *)
(* deferIndexes: create_tables with defer_secondary_indexes.               *)
Confs == [multi: BOOLEAN, continueOnError: BOOLEAN, createRecords: BOOLEAN,
          deferIndexes: BOOLEAN,
          pool: {{Main}} \cup {P \in SUBSET Workers : Cardinality(P) > 1}]
Sequential == conf.pool = {Main}

(* run_transfer knows one job, run_transfer_multi all of them.             *)
RunTables == {t \in Tables : conf.multi \/ t[1] = 1}

NoTotals == [rows |-> 0, failed |-> 0, aborted |-> FALSE]

Init ==
  /\ Control!ControlInit
  /\ conf \in Confs
  /\ stage = IF conf.multi THEN "jobs" ELSE "schema"
  /\ job = 1
  /\ next = 1
  /\ pc = [t \in Tasks |-> "off"]
  /\ held = [t \in Tasks |-> NoTable]
  /\ totals = NoTotals
  /\ sum = NoTotals
  /\ result = "none"
  /\ landed = [t \in Tables |-> 0]
  /\ index = [t \in Tables |-> "none"]
  /\ reported = [t \in Tables |-> "no"]
  /\ starts = [t \in Tables |-> 0]
  /\ late = [t \in Tasks |-> 0]
  /\ schemaErrs = 0

-----------------------------------------------------------------------------
(* The commands of the window: data_transfer_pause, _resume and _stop      *)
(* reach this control only while the run is registered.                    *)
UserCommand ==
  /\ result = "none"
  /\ Control!Pause \/ Control!ResumeStore \/ Control!StopStore
  /\ UNCHANGED <<conf, queueVars, tableVars, ghostVars, mainVars, taskVars, totals>>

FinishCommand ==
  /\ \E c \in Control!Commands : Control!NotifyWaiters(c)
  /\ UNCHANGED <<conf, queueVars, tableVars, ghostVars, mainVars, taskVars, totals>>

CheckStep(t) ==
  /\ Control!CheckStep(t)
  /\ UNCHANGED <<conf, queueVars, tableVars, ghostVars, mainVars, taskVars, totals>>

-----------------------------------------------------------------------------
(* Main: run_transfer_multi's loop over the jobs.                          *)

EnterJobCheck ==
  /\ stage = "jobs"
  /\ job <= NJobs
  /\ Control!MoveCheck(Main, "out", "loading")
  /\ stage' = "jobCheck"
  /\ UNCHANGED <<conf, queueVars, tableVars, ghostVars, sum, result, schemaErrs,
                 taskVars, totals>>

PassJobCheck ==
  /\ stage = "jobCheck"
  /\ Control!MoveCheck(Main, "go", "out")
  /\ stage' = "schema"
  /\ UNCHANGED <<conf, queueVars, tableVars, ghostVars, sum, result, schemaErrs,
                 taskVars, totals>>

(* A stop seen between two jobs ends the loop with Ok.                     *)
HaltAtJobCheck ==
  /\ stage = "jobCheck"
  /\ Control!MoveCheck(Main, "halt", "out")
  /\ stage' = "returned"
  /\ result' = "ok"
  /\ UNCHANGED <<conf, queueVars, tableVars, ghostVars, sum, schemaErrs,
                 taskVars, totals>>

NoMoreJobs ==
  /\ stage = "jobs"
  /\ job > NJobs
  /\ stage' = "returned"
  /\ result' = "ok"
  /\ UNCHANGED <<stop, paused, notifying, checking, missed, conf, queueVars, tableVars,
                 ghostVars, sum, schemaErrs, taskVars, totals>>

(* create_target_schema_if_needed succeeds and run_one_job starts the      *)
(* table loop: in Main, or in freshly spawned workers.                     *)
StartJob ==
  /\ stage = "schema"
  /\ stage' = "tables"
  /\ totals' = NoTotals
  /\ next' = 1
  /\ pc' = [t \in Tasks |-> IF t \in conf.pool THEN "recv" ELSE "off"]
  /\ UNCHANGED <<stop, paused, notifying, checking, missed, conf, job, held, tableVars,
                 ghostVars, sum, result, schemaErrs>>

(* The CREATE SCHEMA fails: run_transfer gives up whatever the options say,*)
(* run_transfer_multi counts a failure and goes on if it may.              *)
SchemaFails ==
  /\ stage = "schema"
  /\ schemaErrs' = schemaErrs + 1
  /\ IF conf.multi
       THEN /\ sum' = [sum EXCEPT !.failed = @ + 1]
            /\ IF conf.continueOnError
                 THEN /\ stage' = "jobs"
                      /\ job' = job + 1
                      /\ UNCHANGED result
                 ELSE /\ stage' = "returned"
                      /\ result' = "err"
                      /\ UNCHANGED job
       ELSE /\ stage' = "returned"
            /\ result' = "err"
            /\ UNCHANGED <<job, sum>>
  /\ UNCHANGED <<stop, paused, notifying, checking, missed, conf, next, tableVars, ghostVars,
                 taskVars, totals>>

(* Mutant: the first handle is enough.                                     *)
FirstJoined == \E t \in conf.pool : pc[t] = "done"

AllJoined == \A t \in conf.pool : pc[t] = "done"

(* Mutant: the rows of earlier jobs are lost.                              *)
SumsLastRows == [rows |-> totals.rows,
                 failed |-> sum.failed + totals.failed,
                 aborted |-> totals.aborted]
Sums == [rows |-> sum.rows + totals.rows,
         failed |-> sum.failed + totals.failed,
         aborted |-> totals.aborted]

(* Every handle of the pool has been joined and run_one_job returned.      *)
EndJob ==
  /\ stage = "tables"
  /\ AllJoined
  /\ sum' = Sums
  /\ IF totals.aborted /\ ~conf.continueOnError
       THEN /\ stage' = "returned"
            /\ result' = "err"
            /\ UNCHANGED job
       ELSE IF conf.multi
       THEN /\ stage' = "jobs"
            /\ job' = job + 1
            /\ UNCHANGED result
       ELSE /\ stage' = "returned"
            /\ result' = "ok"
            /\ UNCHANGED job
  /\ UNCHANGED <<stop, paused, notifying, checking, missed, conf, next, tableVars, ghostVars,
                 taskVars, totals, schemaErrs>>

-----------------------------------------------------------------------------
(* The table loop of task t.                                               *)

Goto(t, to) == pc' = [pc EXCEPT ![t] = to]
AfterStop(t) == late' = [late EXCEPT ![t] = IF stop THEN @ + 1 ELSE @]

(* Mutant: one table too many.                                             *)
QueueHasOneMore == next <= JobSize[job] + 1
QueueHasNext == next <= JobSize[job]

(* rx.recv() in a worker, the for loop's next table in run_sequential; the *)
(* check that guards the table follows.                                    *)
TakeTable(t) ==
  /\ pc[t] = "recv"
  /\ QueueHasNext
  /\ held' = [held EXCEPT ![t] = <<job, next>>]
  /\ next' = next + 1
  /\ Goto(t, "gate")
  /\ Control!MoveCheck(t, "out", "loading")
  /\ UNCHANGED <<conf, job, tableVars, ghostVars, mainVars, totals>>

QueueEmpty(t) ==
  /\ pc[t] = "recv"
  /\ ~QueueHasNext
  /\ Goto(t, "done")
  /\ UNCHANGED <<stop, paused, notifying, checking, missed, conf, queueVars, held, tableVars,
                 ghostVars, mainVars, totals>>

(* check() said stop: the task leaves the loop and drops its table.        *)
HaltAtGate(t) ==
  /\ pc[t] = "gate"
  /\ Control!MoveCheck(t, "halt", "out")
  /\ held' = [held EXCEPT ![t] = NoTable]
  /\ Goto(t, "done")
  /\ UNCHANGED <<conf, queueVars, tableVars, ghostVars, mainVars, totals>>

(* transfer_one starts: the row count, the session prelude, DROP, CREATE.  *)
BeginTable(t) ==
  /\ pc[t] = "gate"
  /\ Control!MoveCheck(t, "go", "out")
  /\ starts' = [starts EXCEPT ![held[t]] = @ + 1]
  /\ AfterStop(t)
  /\ Goto(t, "prepare")
  /\ UNCHANGED <<conf, queueVars, held, tableVars, mainVars, totals>>

(* The copy loop begins with a check.  Mutant: with the first chunk.       *)
EnterCopyUnchecked(t) == Control!MoveCheck(t, "out", "go")
EnterCopy(t) == Control!MoveCheck(t, "out", "loading")

(* The target table exists.  With defer_secondary_indexes its CREATE ran   *)
(* without them.  A table that is empty, or a structure-only transfer,     *)
(* returns Ok(0) from here; any other enters the copy loop and its check.  *)
PrepareOk(t) ==
  LET skip == ~conf.createRecords \/ Batches[held[t]] = 0
  IN /\ pc[t] = "prepare"
     /\ index' = [index EXCEPT ![held[t]] =
                    IF conf.deferIndexes THEN "pending" ELSE "inline"]
     /\ Goto(t, IF skip THEN "ok" ELSE "copy")
     /\ IF skip
          THEN UNCHANGED <<stop, paused, notifying, checking, missed>>
          ELSE EnterCopy(t)
     /\ UNCHANGED <<conf, queueVars, held, landed, reported, ghostVars, mainVars, totals>>

(* Mutant: a failed preparation is tried again.                            *)
PrepareRetries(t) ==
  /\ pc[t] = "prepare"
  /\ Goto(t, "gate")
  /\ Control!MoveCheck(t, "out", "loading")
  /\ UNCHANGED <<conf, queueVars, held, tableVars, ghostVars, mainVars, totals>>

(* A statement of transfer_one before the copy fails.                      *)
PrepareFails(t) ==
  /\ pc[t] = "prepare"
  /\ Goto(t, "error")
  /\ UNCHANGED <<stop, paused, notifying, checking, missed, conf, queueVars, held, tableVars,
                 ghostVars, mainVars, totals>>

(* n < chunk.  Mutant: n <= chunk.                                         *)
AnyChunk(t) == landed[held[t]] + 1 <= Batches[held[t]]
ShortChunk(t) == landed[held[t]] + 1 = Batches[held[t]]

(* One turn of the copy loop: a chunk is read and inserted.  A short chunk *)
(* ends the loop without another check.                                    *)
CopyBatch(t) ==
  /\ pc[t] = "copy"
  /\ landed[held[t]] < Batches[held[t]]
  /\ landed' = [landed EXCEPT ![held[t]] = @ + 1]
  /\ AfterStop(t)
  /\ \/ Control!MoveCheck(t, "go", "loading") /\ UNCHANGED pc
     \/ /\ ShortChunk(t)
        /\ Control!MoveCheck(t, "go", "out")
        /\ Goto(t, "post")
  /\ UNCHANGED <<conf, queueVars, held, index, reported, starts, mainVars, totals>>

(* The SELECT or the INSERT of a chunk fails.                              *)
CopyFails(t) ==
  /\ pc[t] = "copy"
  /\ Control!MoveCheck(t, "go", "out")
  /\ Goto(t, "error")
  /\ UNCHANGED <<conf, queueVars, held, tableVars, ghostVars, mainVars, totals>>

(* The chunk comes back empty, or check() said stop: both leave the loop   *)
(* and the copy returns Ok with what was moved so far.                     *)
LeaveCopyLoop(t) ==
  /\ pc[t] = "copy"
  /\ \/ landed[held[t]] = Batches[held[t]] /\ Control!MoveCheck(t, "go", "out")
     \/ Control!MoveCheck(t, "halt", "out")
  /\ Goto(t, "post")
  /\ UNCHANGED <<conf, queueVars, held, tableVars, ghostVars, mainVars, totals>>

(* Deferred indexes and triggers, after any copy that did not fail.  An    *)
(* index that cannot be built is a warning, not an error.                  *)
PostLoad(t) ==
  /\ pc[t] = "post"
  /\ IF index[held[t]] = "pending"
       THEN \E end \in {"built", "warned"} : index' = [index EXCEPT ![held[t]] = end]
       ELSE UNCHANGED index
  /\ Goto(t, "ok")
  /\ UNCHANGED <<stop, paused, notifying, checking, missed, conf, queueVars, held, landed,
                 reported, ghostVars, mainVars, totals>>

(* table_done without an error, and the totals.                            *)
ReportOk(t) ==
  /\ pc[t] = "ok"
  /\ reported' = [reported EXCEPT ![held[t]] = "ok"]
  /\ totals' = [totals EXCEPT !.rows = @ + landed[held[t]]]
  /\ held' = [held EXCEPT ![t] = NoTable]
  /\ Goto(t, "recv")
  /\ UNCHANGED <<stop, paused, notifying, checking, missed, conf, queueVars, landed, index,
                 ghostVars, mainVars>>

(* run_parallel keeps the error in any case, run_sequential when it leaves *)
(* its loop.  Mutant: run_parallel forgets it.                             *)
AbortsSequential == Sequential /\ ~conf.continueOnError
Aborts == ~Sequential \/ ~conf.continueOnError

(* Mutant: run_sequential goes on like the workers.                        *)
AlwaysNext == "recv"
AfterError == IF Sequential /\ ~conf.continueOnError THEN "done" ELSE "recv"

(* table_done with an error.  run_sequential leaves its loop; a worker     *)
(* calls rx.close(), which changes nothing on a channel whose sender is    *)
(* gone: the tables still in it are delivered.                             *)
ReportError(t) ==
  /\ pc[t] = "error"
  /\ reported' = [reported EXCEPT ![held[t]] = "error"]
  /\ totals' = [totals EXCEPT
                  !.failed = @ + 1,
                  !.aborted = @ \/ Aborts]
  /\ held' = [held EXCEPT ![t] = NoTable]
  /\ Goto(t, AfterError)
  /\ UNCHANGED <<stop, paused, notifying, checking, missed, conf, queueVars, landed, index,
                 ghostVars, mainVars>>

-----------------------------------------------------------------------------
MainStep ==
  \/ EnterJobCheck \/ PassJobCheck \/ HaltAtJobCheck \/ NoMoreJobs
  \/ StartJob \/ SchemaFails \/ EndJob

TableStep(t) ==
  \/ TakeTable(t) \/ QueueEmpty(t) \/ HaltAtGate(t) \/ BeginTable(t)
  \/ PrepareOk(t) \/ PrepareFails(t)
  \/ CopyBatch(t) \/ CopyFails(t) \/ LeaveCopyLoop(t)
  \/ PostLoad(t) \/ ReportOk(t) \/ ReportError(t)

(* Nothing is left to do: the state in which the module may stop.           *)
Finished == result # "none" /\ notifying = {} /\ UNCHANGED vars

Next ==
  \/ UserCommand
  \/ FinishCommand
  \/ MainStep
  \/ \E t \in Tasks : CheckStep(t) \/ TableStep(t)
  \/ Finished

(* Tokio runs every task that is ready, a database statement ends or       *)
(* fails, and a command that stored its flag reaches its notify.  Nothing  *)
(* is assumed of what the user does.                                       *)
Fairness ==
  /\ WF_vars(FinishCommand)
  /\ WF_vars(MainStep)
  /\ \A t \in Tasks : WF_vars(CheckStep(t) \/ TableStep(t))

Spec == Init /\ [][Next]_vars
FairSpec == Spec /\ Fairness

-----------------------------------------------------------------------------
TypeOK ==
  /\ Control!ControlTypeOK
  /\ conf \in Confs
  /\ stage \in {"jobs", "jobCheck", "schema", "tables", "returned"}
  /\ job \in 1..(NJobs + 1)
  /\ next \in Nat
  /\ pc \in [Tasks -> {"off", "recv", "gate", "prepare", "copy", "post", "ok",
                       "error", "done"}]
  /\ held \in [Tasks -> Tables \cup {NoTable}]
  /\ totals \in [rows: Nat, failed: Nat, aborted: BOOLEAN]
  /\ sum \in [rows: Nat, failed: Nat, aborted: BOOLEAN]
  /\ result \in {"none", "ok", "err"}
  /\ landed \in [Tables -> Nat]
  /\ index \in [Tables -> {"none", "inline", "pending", "built", "warned"}]
  /\ reported \in [Tables -> {"no", "ok", "error"}]
  /\ starts \in [Tables -> Nat]
  /\ late \in [Tasks -> Nat]
  /\ schemaErrs \in Nat

(* No table is handed to transfer_one twice, whatever the workers, the     *)
(* jobs and the errors do: a second call would drop what the first copied. *)
NoTableTwice == \A t \in Tables : starts[t] <= 1

(* After a stop each task starts at most one more table, or copies at most *)
(* one more chunk, and never both: check() guards every piece of work.     *)
LateWorkBounded == \A t \in Tasks : late[t] <= 1

(* The run returns an error exactly when the caller must see one: a table  *)
(* or a schema failed and continue_on_error is off, or the one schema of a *)
(* single transfer could not be created.                                   *)
FailureSurfaces ==
  result # "none" =>
    (result = "err" <=>
       \/ ~conf.continueOnError /\ \E t \in Tables : reported[t] = "error"
       \/ schemaErrs > 0 /\ (~conf.multi \/ ~conf.continueOnError))

(* The totals of transfer:done agree with the table_done events before it: *)
(* the failures of tables and schemas, the rows of the tables that ended.  *)
Ended(end) == {t \in Tables : reported[t] = end}
AccountsAgree ==
  result # "none" =>
    /\ sum.failed = Cardinality(Ended("error")) + IF conf.multi THEN schemaErrs ELSE 0
    /\ sum.rows = SumFunctionOnSet(landed, Ended("ok"))

(* A run nobody stopped that reports no failure has taken every table and  *)
(* moved every chunk of it, and where rows have arrived the secondary      *)
(* index is there again or a warning was given.                            *)
SuccessMeansComplete ==
  result = "ok" /\ ~stop /\ sum.failed = 0 =>
    \A t \in RunTables :
      /\ reported[t] = "ok"
      /\ conf.createRecords => landed[t] = Batches[t]
      /\ landed[t] > 0 => index[t] # "pending"

(* A job's events all come before the next job's: Main moves on only when  *)
(* no task has a table of the old job in hand.                             *)
JobDrainsFirst ==
  [][job' # job => \A t \in Tasks : held[t] = NoTable]_vars

(* With continue_on_error off no further table is taken from the queue     *)
(* once a table has been reported as failed.  run_sequential keeps to it.  *)
SequentialStopsAtFirstError ==
  [][Sequential /\ ~conf.continueOnError /\ (\E t \in Tables : reported[t] = "error")
       => next' = next]_vars

(* A task sleeps in check() only while the run is paused.                  *)
AsleepOnlyWhilePaused == Control!AsleepOnlyWhilePaused

(* check() and the joins: a run that does not stay paused, or is stopped,  *)
(* paused or not, ends, unless a task sleeps for ever because a command    *)
(* came between its look at the flags and its future.  No queue, join or   *)
(* error path can hold it.                                                 *)
Terminates ==
  <>[](~paused \/ stop) /\ []<>~Control!Overslept => <>(result # "none")

-----------------------------------------------------------------------------
(* The inductive invariant behind NoTableTwice and LateWorkBounded.        *)

Busy(t) == pc[t] \in {"gate", "prepare", "copy", "post", "ok", "error"}

(* The pool runs inside the table stage, and Main counts its jobs.         *)
StageInv ==
  /\ stage \in {"jobCheck", "schema", "tables"} => job <= NJobs
  /\ next > 0
  /\ \A t \in Tasks :
       /\ stage # "tables" => pc[t] \in {"off", "done"}
       /\ t \notin conf.pool => pc[t] \in {"off", "done"}

(* What a task holds was taken from the current job's queue, by it alone;  *)
(* a task between two tables holds none.                                   *)
HeldInv ==
  /\ \A t \in Tasks : IF Busy(t)
                         THEN /\ held[t] \in Tables
                              /\ held[t][1] = job
                              /\ held[t][2] < next
                         ELSE held[t] = NoTable
  /\ \A t \in Tasks, u \in Tasks :
       Busy(t) /\ Busy(u) /\ t # u => held[t] # held[u]

(* A table still queued, or at the gate, has not been started; nor has any *)
(* table of a job whose loop is still to come.                             *)
Queued(tb) ==
  \/ tb[1] > job
  \/ tb[1] = job /\ (stage \in {"jobs", "jobCheck", "schema"} \/ tb[2] >= next)
StartsInv ==
  /\ \A tb \in Tables : Queued(tb) => starts[tb] = 0
  /\ \A t \in Tasks : pc[t] = "gate" => starts[held[t]] = 0
  /\ NoTableTwice

(* A go that check() gave before the stop is the one piece of late work    *)
(* left to a task; after the stop there are no more.                       *)
LateInv ==
  \A t \in Tasks :
    /\ ~stop => late[t] = 0
    /\ checking[t] = "go" => late[t] = 0
    /\ late[t] <= 1

QueueIInv == TypeOK /\ StageInv /\ HeldInv /\ StartsInv
=============================================================================
