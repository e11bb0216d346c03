------------------------- MODULE DataTransferProofs -------------------------
(***************************************************************************)
(* Proofs about DataTransfer, for every number of workers, jobs, tables    *)
(* and chunks.                                                             *)
(***************************************************************************)
EXTENDS DataTransfer, FiniteSetTheorems, SumTheorems, TLAPS

(* A table is a pair of a job and a position in that job's list.           *)
LEMMA TableIsPair ==
  ASSUME NEW tb \in Tables
  PROVE  /\ tb = <<tb[1], tb[2]>>
         /\ tb[1] \in 1..NJobs
         /\ tb[2] \in 1..JobSize[tb[1]]
         /\ tb[2] \in Nat
<1>1. PICK j \in 1..NJobs : tb \in {j} \X (1..JobSize[j])
  BY DEF Tables
<1>2. JobSize[j] \in Nat
  BY JobSizeIsNat
<1> QED
  BY <1>1, <1>2

(* Every position in a list of a job is a table.                           *)
LEMMA PairIsTable ==
  ASSUME NEW j \in 1..NJobs, NEW i \in 1..JobSize[j]
  PROVE  <<j, i>> \in Tables
BY DEF Tables

-----------------------------------------------------------------------------
(* The invariant holds before the first table is taken.                    *)
LEMMA InitQueue == Init => QueueIInv
<1> SUFFICES ASSUME Init PROVE QueueIInv
  OBVIOUS
<1> USE DEF Init
<1>1. TypeOK
  <2>1. Control!ControlTypeOK
    BY DEF Control!ControlTypeOK, Control!ControlInit, Control!CheckPoints
  <2>2. stage \in {"jobs", "jobCheck", "schema", "tables", "returned"}
    OBVIOUS
  <2>3. /\ totals \in [rows: Nat, failed: Nat, aborted: BOOLEAN]
        /\ sum \in [rows: Nat, failed: Nat, aborted: BOOLEAN]
    BY DEF NoTotals
  <2>4. /\ job \in 1..(NJobs + 1)
        /\ next \in Nat
    BY NJobsIsPositive
  <2>5. pc \in [Tasks -> {"off", "recv", "gate", "prepare", "copy", "post", "ok",
                       "error", "done"}]
    OBVIOUS
  <2>6. held \in [Tasks -> Tables \cup {NoTable}]
    OBVIOUS
  <2>7. /\ result \in {"none", "ok", "err"}
        /\ landed \in [Tables -> Nat]
        /\ index \in [Tables -> {"none", "inline", "pending", "built", "warned"}]
        /\ reported \in [Tables -> {"no", "ok", "error"}]
        /\ starts \in [Tables -> Nat]
        /\ late \in [Tasks -> Nat]
        /\ schemaErrs \in Nat
    OBVIOUS
  <2>8. conf \in Confs
    OBVIOUS
  <2> QED
    BY <2>1, <2>2, <2>3, <2>4, <2>5, <2>6, <2>7, <2>8 DEF TypeOK
<1>2. StageInv
  BY NJobsIsPositive DEF StageInv
<1>3. HeldInv
  BY DEF HeldInv, Busy
<1>4. StartsInv
  BY DEF StartsInv, NoTableTwice
<1> QED
  BY <1>1, <1>2, <1>3, <1>4 DEF QueueIInv

-----------------------------------------------------------------------------
(* The control of the run stays well typed, whoever steps.                 *)
LEMMA ControlTypeStep == TypeOK /\ [Next]_vars => Control!ControlTypeOK'
<1> SUFFICES ASSUME Control!ControlTypeOK, [Next]_vars
             PROVE  Control!ControlTypeOK'
  BY DEF TypeOK
<1> USE DEF Control!ControlTypeOK, Control!InTheGap, Control!CheckPoints, Control!Commands
<1>1. CASE UserCommand
  BY <1>1 DEF UserCommand, Control!Pause, Control!ResumeStore, Control!StopStore
<1>2. CASE FinishCommand
  BY <1>2 DEF FinishCommand, Control!NotifyWaiters
<1>3. ASSUME NEW t \in Tasks, CheckStep(t)
      PROVE  Control!ControlTypeOK'
  BY <1>3 DEF CheckStep, Control!CheckStep, Control!LoadFlags, Control!Subscribe
<1>4. CASE MainStep
  BY <1>4 DEF MainStep, EnterJobCheck, PassJobCheck, HaltAtJobCheck, NoMoreJobs,
     StartJob, SchemaFails, EndJob, AllJoined, Sums, Control!MoveCheck
<1>5. ASSUME NEW t \in Tasks, TableStep(t)
      PROVE  Control!ControlTypeOK'
  BY <1>5 DEF TableStep, TakeTable, QueueHasNext, QueueEmpty, HaltAtGate, BeginTable,
     PrepareOk, EnterCopy,
     PrepareFails, CopyBatch, CopyFails, LeaveCopyLoop, PostLoad, ReportOk,
     ReportError, Aborts, AfterError, Control!MoveCheck
<1>6. CASE UNCHANGED vars
  BY <1>6 DEF vars
<1> QED
  BY <1>1, <1>2, <1>3, <1>4, <1>5, <1>6 DEF Next, Finished

(* Counting one up stays in Nat.                                           *)
LEMMA CountType ==
  ASSUME NEW S, NEW f \in [S -> Nat], NEW x \in S
  PROVE  [f EXCEPT ![x] = @ + 1] \in [S -> Nat]
OBVIOUS

(* The count of work begun after a stop stays in Nat.                      *)
LEMMA AfterStopType ==
  ASSUME late \in [Tasks -> Nat], NEW t \in Tasks, AfterStop(t)
  PROVE  late' \in [Tasks -> Nat]
<1>1. CASE stop
  <2>1. late' = [late EXCEPT ![t] = late[t] + 1]
    BY <1>1 DEF AfterStop
  <2> QED
    BY <2>1
<1>2. CASE ~stop
  <2>1. late' = [late EXCEPT ![t] = late[t]]
    BY <1>2 DEF AfterStop
  <2> QED
    BY <2>1
<1> QED
  BY <1>1, <1>2

(* Rows and failures add up to naturals only because a task in ReportOk    *)
(* holds a table and Main counts a job no further than NJobs.              *)
LEMMA TypeStep == TypeOK /\ StageInv /\ HeldInv /\ [Next]_vars => TypeOK'
<1> SUFFICES ASSUME TypeOK, StageInv, HeldInv, [Next]_vars
             PROVE  TypeOK'
  OBVIOUS
<1>0. Control!ControlTypeOK'
  BY ControlTypeStep
<1> USE DEF TypeOK
<1>1. CASE UserCommand \/ FinishCommand \/ UNCHANGED vars
  BY <1>0, <1>1 DEF UserCommand, FinishCommand, queueVars, tableVars, ghostVars,
     mainVars,
     taskVars, vars
<1>2. ASSUME NEW t \in Tasks, CheckStep(t)
      PROVE  TypeOK'
  BY <1>0, <1>2 DEF CheckStep, queueVars, tableVars, ghostVars, mainVars, taskVars
<1>3. CASE MainStep
  <2> USE <1>0 DEF queueVars, tableVars, ghostVars, mainVars, taskVars
  <2>1. CASE EnterJobCheck
    BY <2>1 DEF EnterJobCheck
  <2>2. CASE PassJobCheck
    BY <2>2 DEF PassJobCheck
  <2>3. CASE HaltAtJobCheck
    BY <2>3 DEF HaltAtJobCheck
  <2>4. CASE NoMoreJobs
    BY <2>4 DEF NoMoreJobs
  <2>5. CASE StartJob
    BY <2>5 DEF StartJob, NoTotals
  <2>6. CASE SchemaFails
    <3>1. /\ job' \in 1..(NJobs + 1)
          /\ schemaErrs' \in Nat
      BY <2>6, NJobsIsPositive DEF SchemaFails, StageInv
    <3>2. sum' \in [rows: Nat, failed: Nat, aborted: BOOLEAN]
      BY <2>6 DEF SchemaFails
    <3>3. /\ stage' \in {"jobs", "jobCheck", "schema", "tables", "returned"}
          /\ result' \in {"none", "ok", "err"}
      BY <2>6 DEF SchemaFails
    <3> QED
      BY <2>6, <3>1, <3>2, <3>3 DEF SchemaFails
  <2>7. CASE EndJob
    <3>1. job' \in 1..(NJobs + 1)
      BY <2>7, NJobsIsPositive DEF EndJob, AllJoined, Sums, StageInv
    <3>2. sum' \in [rows: Nat, failed: Nat, aborted: BOOLEAN]
      BY <2>7 DEF EndJob, AllJoined, Sums
    <3>3. /\ stage' \in {"jobs", "jobCheck", "schema", "tables", "returned"}
          /\ result' \in {"none", "ok", "err"}
      BY <2>7 DEF EndJob, AllJoined, Sums
    <3> QED
      BY <2>7, <3>1, <3>2, <3>3 DEF EndJob, AllJoined, Sums
  <2> QED
    BY <1>3, <2>1, <2>2, <2>3, <2>4, <2>5, <2>6, <2>7 DEF MainStep
<1>4. ASSUME NEW t \in Tasks, TableStep(t)
      PROVE  TypeOK'
  <2> USE <1>0 DEF queueVars, tableVars, ghostVars, mainVars, taskVars, Goto
  <2>1. CASE TakeTable(t)
    <3>1. <<job, next>> \in Tables
      <4>1. stage = "tables"
        BY <2>1 DEF TakeTable, QueueHasNext, StageInv
      <4>2. job \in 1..NJobs /\ next \in 1..JobSize[job]
        BY <2>1, <4>1, NJobsIsPositive, JobSizeIsNat DEF TakeTable, QueueHasNext,
           StageInv
      <4> QED
        BY <4>2, PairIsTable
    <3> QED
      BY <2>1, <3>1 DEF TakeTable, QueueHasNext
  <2>2. CASE QueueEmpty(t)
    BY <2>2 DEF QueueEmpty
  <2>3. CASE HaltAtGate(t)
    BY <2>3 DEF HaltAtGate
  <2>4. CASE BeginTable(t)
    <3>1. starts' \in [Tables -> Nat]
      <4>1. starts' = [starts EXCEPT ![held[t]] = @ + 1]
        BY <2>4 DEF BeginTable
      <4> HIDE DEF TypeOK
      <4>2. starts \in [Tables -> Nat] /\ held[t] \in Tables
        BY <2>4 DEF TypeOK, BeginTable, HeldInv, Busy
      <4> QED
        BY <4>1, <4>2, CountType
    <3>2. late' \in [Tasks -> Nat]
      <4>1. AfterStop(t)
        BY <2>4 DEF BeginTable
      <4> QED
        BY <4>1, AfterStopType
    <3> QED
      BY <2>4, <3>1, <3>2 DEF BeginTable
  <2>5. CASE PrepareOk(t)
    BY <2>5 DEF PrepareOk, EnterCopy
  <2>6. CASE PrepareFails(t)
    BY <2>6 DEF PrepareFails
  <2>7. CASE CopyBatch(t)
    <3>1. landed' \in [Tables -> Nat]
      <4>1. landed' = [landed EXCEPT ![held[t]] = @ + 1]
        BY <2>7 DEF CopyBatch
      <4> HIDE DEF TypeOK
      <4>2. landed \in [Tables -> Nat] /\ held[t] \in Tables
        BY <2>7 DEF TypeOK, CopyBatch, HeldInv, Busy
      <4> QED
        BY <4>1, <4>2, CountType
    <3>2. late' \in [Tasks -> Nat]
      <4>1. AfterStop(t)
        BY <2>7 DEF CopyBatch
      <4> QED
        BY <4>1, AfterStopType
    <3> QED
      BY <2>7, <3>1, <3>2 DEF CopyBatch
  <2>8. CASE CopyFails(t)
    BY <2>8 DEF CopyFails
  <2>9. CASE LeaveCopyLoop(t)
    BY <2>9 DEF LeaveCopyLoop
  <2>10. CASE PostLoad(t)
    BY <2>10 DEF PostLoad
  <2>11. CASE ReportOk(t)
    <3>1. landed[held[t]] \in Nat
      BY <2>11 DEF ReportOk, HeldInv, Busy
    <3>2. totals' \in [rows: Nat, failed: Nat, aborted: BOOLEAN]
      BY <2>11, <3>1 DEF ReportOk
    <3> QED
      BY <2>11, <3>2 DEF ReportOk
  <2>12. CASE ReportError(t)
    <3>1. totals.failed + 1 \in Nat
      OBVIOUS
    <3>2. (totals.aborted \/ ~Sequential \/ ~conf.continueOnError) \in BOOLEAN
      OBVIOUS
    <3>3. totals' \in [rows: Nat, failed: Nat, aborted: BOOLEAN]
      BY <2>12, <3>1, <3>2, Zenon DEF ReportError, Aborts, AfterError
    <3> QED
      BY <2>12, <3>3 DEF ReportError, Aborts, AfterError
  <2> QED
    BY <1>4, <2>1, <2>2, <2>3, <2>4, <2>5, <2>6, <2>7, <2>8, <2>9, <2>10, <2>11, <2>12
       DEF TableStep
<1> QED
  BY <1>1, <1>2, <1>3, <1>4 DEF Next, Finished

(* A step of the table loop is a step of one pool task inside the table    *)
(* stage: it leaves the rest of the loop alone.                            *)
LEMMA TableStepFrame ==
  ASSUME TypeOK, StageInv, NEW t \in Tasks, TableStep(t)
  PROVE  /\ stage = "tables"
         /\ t \in conf.pool
         /\ UNCHANGED <<conf, stage, job>>
         /\ \A u \in Tasks : u # t => pc'[u] = pc[u] /\ held'[u] = held[u]
         /\ pc[t] \notin {"off", "done"}
         /\ next <= next' /\ next' \in Nat
<1>1. pc[t] \notin {"off", "done"}
  BY DEF TableStep, TakeTable, QueueHasNext, QueueEmpty, HaltAtGate, BeginTable,
     PrepareOk, EnterCopy,
     PrepareFails, CopyBatch, CopyFails, LeaveCopyLoop, PostLoad, ReportOk,
     ReportError, Aborts, AfterError
<1>2. stage = "tables" /\ t \in conf.pool
  BY <1>1 DEF StageInv
<1>3. UNCHANGED <<conf, stage, job>>
  BY DEF TableStep, TakeTable, QueueHasNext, QueueEmpty, HaltAtGate, BeginTable,
     PrepareOk, EnterCopy,
     PrepareFails, CopyBatch, CopyFails, LeaveCopyLoop, PostLoad, ReportOk,
     ReportError, Aborts, AfterError,
     queueVars, mainVars
<1>4. \A u \in Tasks : u # t => pc'[u] = pc[u] /\ held'[u] = held[u]
  BY DEF TypeOK, TableStep, TakeTable, QueueHasNext, QueueEmpty, HaltAtGate,
     BeginTable, PrepareOk, EnterCopy,
     PrepareFails, CopyBatch, CopyFails, LeaveCopyLoop, PostLoad, ReportOk,
     ReportError, Aborts, AfterError,
     Goto
<1>5. next \in Nat
  BY DEF TypeOK
<1>6. next' = next \/ next' = next + 1
  BY DEF TableStep, TakeTable, QueueHasNext, QueueEmpty, HaltAtGate, BeginTable,
     PrepareOk, EnterCopy,
     PrepareFails, CopyBatch, CopyFails, LeaveCopyLoop, PostLoad, ReportOk,
     ReportError, Aborts, AfterError,
     queueVars
<1> QED
  BY <1>1, <1>2, <1>3, <1>4, <1>5, <1>6

(* The control's own steps leave the table loop alone.                     *)
LEMMA ControlStepFrame ==
  ASSUME UserCommand \/ FinishCommand \/ UNCHANGED vars \/ \E t \in Tasks : CheckStep(t)
  PROVE  UNCHANGED <<conf, stage, job, next, pc, held, totals, sum, result, landed,
                     index, reported, starts, late, schemaErrs>>
BY DEF UserCommand, FinishCommand, CheckStep, vars, queueVars, tableVars, ghostVars,
   mainVars, taskVars

(* Tasks outside the pool, and all tasks outside the table stage, are idle.*)
LEMMA StageStep == TypeOK /\ StageInv /\ [Next]_vars => StageInv'
<1> SUFFICES ASSUME TypeOK, StageInv, [Next]_vars
             PROVE  StageInv'
  OBVIOUS
<1>1. CASE UserCommand \/ FinishCommand \/ UNCHANGED vars \/ \E t \in Tasks : CheckStep(t)
  BY <1>1, ControlStepFrame DEF StageInv
<1>2. CASE MainStep
  <2> USE NJobsIsPositive DEF StageInv, TypeOK, queueVars, taskVars
  <2>1. CASE EnterJobCheck
    BY <2>1 DEF EnterJobCheck
  <2>2. CASE PassJobCheck
    BY <2>2 DEF PassJobCheck
  <2>3. CASE HaltAtJobCheck
    BY <2>3 DEF HaltAtJobCheck
  <2>4. CASE NoMoreJobs
    BY <2>4 DEF NoMoreJobs
  <2>5. CASE StartJob
    BY <2>5 DEF StartJob
  <2>6. CASE SchemaFails
    BY <2>6 DEF SchemaFails
  <2>7. CASE EndJob
    <3>1. \A t \in Tasks : pc[t] \in {"off", "done"}
      BY <2>7 DEF EndJob, AllJoined, Sums
    <3> QED
      BY <2>7, <3>1 DEF EndJob, AllJoined, Sums
  <2> QED
    BY <1>2, <2>1, <2>2, <2>3, <2>4, <2>5, <2>6, <2>7 DEF MainStep
<1>3. ASSUME NEW t \in Tasks, TableStep(t)
      PROVE  StageInv'
  BY <1>3, TableStepFrame DEF StageInv, TypeOK
<1> QED
  BY <1>1, <1>2, <1>3 DEF Next, Finished

(* TakeTable is the only way to come by a table, and what it takes lies    *)
(* behind every table in another task's hands; Main changes the job only   *)
(* when nobody holds a table.                                              *)
LEMMA HeldStep == TypeOK /\ StageInv /\ HeldInv /\ [Next]_vars => HeldInv'
<1> SUFFICES ASSUME TypeOK, StageInv, HeldInv, [Next]_vars
             PROVE  HeldInv'
  OBVIOUS
<1>1. CASE UserCommand \/ FinishCommand \/ UNCHANGED vars \/ \E t \in Tasks : CheckStep(t)
  BY <1>1, ControlStepFrame DEF HeldInv, Busy
<1>2. CASE MainStep
  <2> USE DEF HeldInv, Busy
  <2>1. CASE EnterJobCheck \/ PassJobCheck \/ HaltAtJobCheck \/ NoMoreJobs
    BY <2>1 DEF EnterJobCheck, PassJobCheck, HaltAtJobCheck, NoMoreJobs, queueVars,
       taskVars
  <2>2. CASE StartJob
    <3>1. \A t \in Tasks : ~Busy(t) /\ ~Busy(t)' /\ held'[t] = held[t]
      BY <2>2 DEF StartJob, StageInv, TypeOK
    <3> QED
      BY <3>1
  <2>3. CASE SchemaFails
    <3>1. \A t \in Tasks : ~Busy(t) /\ ~Busy(t)' /\ held'[t] = held[t]
      BY <2>3 DEF SchemaFails, StageInv, TypeOK, taskVars
    <3> QED
      BY <3>1
  <2>4. CASE EndJob
    <3>1. \A t \in Tasks : ~Busy(t) /\ ~Busy(t)' /\ held'[t] = held[t]
      BY <2>4 DEF EndJob, AllJoined, Sums, StageInv, TypeOK, taskVars
    <3> QED
      BY <3>1
  <2> QED
    BY <1>2, <2>1, <2>2, <2>3, <2>4 DEF MainStep
<1>3. ASSUME NEW t \in Tasks, TableStep(t)
      PROVE  HeldInv'
  <2>1. /\ stage = "tables"
        /\ job' = job
        /\ \A u \in Tasks : u # t => pc'[u] = pc[u] /\ held'[u] = held[u]
        /\ next <= next' /\ next' \in Nat /\ next \in Nat
    BY <1>3, TableStepFrame DEF TypeOK
  <2>2. ASSUME NEW u \in Tasks, u # t
        PROVE  IF Busy(u)' THEN /\ held'[u] \in Tables
                                /\ held'[u][1] = job'
                                /\ held'[u][2] < next'
                           ELSE held'[u] = NoTable
    <3>1. pc'[u] = pc[u] /\ held'[u] = held[u]
      BY <2>1, <2>2
    <3>2. CASE Busy(u)
      <4>1. /\ held[u] \in Tables
            /\ held[u][1] = job
            /\ held[u][2] < next
        BY <3>2 DEF HeldInv
      <4>2. held[u][2] \in Nat
        BY <4>1, TableIsPair
      <4> QED
        BY <2>1, <3>1, <3>2, <4>1, <4>2 DEF Busy
    <3>3. CASE ~Busy(u)
      BY <3>1, <3>3 DEF HeldInv, Busy
    <3> QED
      BY <3>2, <3>3
  <2>3. CASE TakeTable(t)
    <3>1. job \in 1..NJobs /\ next \in 1..JobSize[job]
      BY <2>1, <2>3, NJobsIsPositive, JobSizeIsNat DEF TakeTable, QueueHasNext,
         StageInv, TypeOK
    <3>2. /\ held'[t] = <<job, next>>
          /\ held'[t] \in Tables
          /\ Busy(t)'
          /\ next' = next + 1
      BY <2>3, <3>1, PairIsTable DEF TakeTable, QueueHasNext, TypeOK, Goto, Busy
    <3>3. ASSUME NEW u \in Tasks, u # t, Busy(u)'
          PROVE  held'[u] # held'[t]
      <4>1. Busy(u) /\ held'[u] = held[u]
        BY <2>1, <3>3 DEF Busy
      <4>2. held[u][2] < next /\ held[u] \in Tables
        BY <4>1 DEF HeldInv
      <4>3. held[u][2] \in Nat
        BY <4>2, TableIsPair
      <4> QED
        BY <2>1, <3>2, <4>1, <4>2, <4>3
    <3>4. ASSUME NEW u \in Tasks, NEW v \in Tasks, u # t, v # t, u # v, Busy(u)',
       Busy(v)'
          PROVE  held'[u] # held'[v]
      BY <2>1, <3>4 DEF HeldInv, Busy
    <3> QED
      BY <2>1, <2>2, <3>2, <3>3, <3>4 DEF HeldInv
  <2>4. CASE QueueEmpty(t) \/ HaltAtGate(t) \/ ReportOk(t) \/ ReportError(t)
    <3>1. ~Busy(t)' /\ held'[t] = NoTable
      BY <2>4 DEF QueueEmpty, HaltAtGate, ReportOk, ReportError, Aborts, AfterError,
         Goto, Busy, TypeOK, HeldInv
    <3>2. \A u \in Tasks : Busy(u)' => Busy(u) /\ held'[u] = held[u]
      BY <2>1, <3>1 DEF Busy
    <3> QED
      BY <2>2, <3>1, <3>2 DEF HeldInv
  <2>5. CASE \/ BeginTable(t) \/ PrepareOk(t) \/ PrepareFails(t) \/ CopyBatch(t)
             \/ CopyFails(t) \/ LeaveCopyLoop(t) \/ PostLoad(t)
    <3>1. Busy(t) /\ Busy(t)' /\ held' = held /\ next' = next
      BY <2>5 DEF BeginTable, PrepareOk, EnterCopy, PrepareFails, CopyBatch,
         CopyFails, LeaveCopyLoop,
         PostLoad, Goto, Busy, TypeOK, queueVars
    <3>2. \A u \in Tasks : Busy(u)' <=> Busy(u)
      BY <2>1, <3>1 DEF Busy
    <3> QED
      BY <2>1, <3>1, <3>2 DEF HeldInv
  <2> QED
    BY <1>3, <2>3, <2>4, <2>5 DEF TableStep
<1> QED
  BY <1>1, <1>2, <1>3 DEF Next, Finished

(* What a task is about to start is fresh: its place in the queue was taken*)
(* once, and a job's queue is filled once.                                 *)
LEMMA StartsStep == QueueIInv /\ [Next]_vars => StartsInv'
<1> SUFFICES ASSUME TypeOK, StageInv, HeldInv, StartsInv, [Next]_vars
             PROVE  StartsInv'
  BY DEF QueueIInv
<1>0. \A tb \in Tables : tb[1] \in Nat /\ tb[2] \in Nat /\ tb[2] > 0
  BY TableIsPair, NJobsIsPositive, JobSizeIsNat
<1>1. CASE UserCommand \/ FinishCommand \/ UNCHANGED vars \/ \E t \in Tasks : CheckStep(t)
  BY <1>1, ControlStepFrame DEF StartsInv, Queued, NoTableTwice
<1>2. CASE MainStep
  <2>1. /\ starts' = starts
        /\ \A t \in Tasks : pc'[t] = "gate" => pc[t] = "gate" /\ held' = held
    BY <1>2 DEF MainStep, EnterJobCheck, PassJobCheck, HaltAtJobCheck, NoMoreJobs,
       StartJob, SchemaFails, EndJob, AllJoined, Sums, ghostVars, taskVars, TypeOK
  <2>2. ASSUME NEW tb \in Tables, Queued(tb)'
        PROVE  Queued(tb)
    <3> USE <1>0, <2>2, NJobsIsPositive DEF Queued, TypeOK, queueVars
    <3>1. CASE EnterJobCheck \/ PassJobCheck \/ HaltAtJobCheck \/ NoMoreJobs
      BY <3>1 DEF EnterJobCheck, PassJobCheck, HaltAtJobCheck, NoMoreJobs
    <3>2. CASE StartJob
      BY <3>2 DEF StartJob
    <3>3. CASE SchemaFails
      BY <3>3 DEF SchemaFails
    <3>4. CASE EndJob
      BY <3>4 DEF EndJob, AllJoined, Sums
    <3> QED
      BY <1>2, <3>1, <3>2, <3>3, <3>4 DEF MainStep
  <2> QED
    BY <2>1, <2>2 DEF StartsInv, NoTableTwice
<1>3. ASSUME NEW t \in Tasks, TableStep(t)
      PROVE  StartsInv'
  <2>1. /\ stage = "tables" /\ stage' = stage /\ job' = job
        /\ \A u \in Tasks : u # t => pc'[u] = pc[u] /\ held'[u] = held[u]
        /\ next <= next' /\ next' \in Nat /\ next \in Nat
    BY <1>3, TableStepFrame DEF TypeOK
  <2>2. \A tb \in Tables : Queued(tb)' => Queued(tb)
    BY <1>0, <2>1 DEF Queued
  <2>3. CASE BeginTable(t)
    <3>1. /\ pc[t] = "gate" /\ Busy(t)
          /\ held[t] \in Tables /\ held[t][1] = job /\ held[t][2] < next
      BY <2>3 DEF BeginTable, Busy, HeldInv
    <3>2. starts[held[t]] = 0
      BY <3>1 DEF StartsInv
    <3>3. starts' = [starts EXCEPT ![held[t]] = 1] /\ next' = next /\ held' = held
          /\ pc'[t] # "gate"
      BY <2>3, <3>2 DEF BeginTable, Goto, TypeOK, queueVars
    <3>4. ~Queued(held[t])
      BY <1>0, <2>1, <3>1 DEF Queued, TypeOK
    <3>5. \A tb \in Tables : tb # held[t] => starts'[tb] = starts[tb]
      BY <3>3 DEF TypeOK
    <3>6. starts'[held[t]] = 1
      BY <3>1, <3>3 DEF TypeOK
    <3>7. \A tb \in Tables : Queued(tb)' => starts'[tb] = 0
      BY <2>2, <3>4, <3>5 DEF StartsInv
    <3>8. ASSUME NEW u \in Tasks, pc'[u] = "gate"
          PROVE  starts'[held'[u]] = 0
      <4>1. u # t /\ pc[u] = "gate" /\ held'[u] = held[u]
        BY <2>1, <3>3, <3>8
      <4>2. held[u] \in Tables /\ held[u] # held[t]
        BY <3>1, <4>1 DEF HeldInv, Busy
      <4> QED
        BY <3>5, <4>1, <4>2 DEF StartsInv
    <3>9. NoTableTwice'
      BY <3>5, <3>6 DEF NoTableTwice, StartsInv
    <3> QED
      BY <3>7, <3>8, <3>9 DEF StartsInv
  <2>4. CASE TakeTable(t)
    <3>1. job \in 1..NJobs /\ next \in 1..JobSize[job]
      BY <2>1, <2>4, NJobsIsPositive, JobSizeIsNat DEF TakeTable, QueueHasNext,
         StageInv, TypeOK
    <3>2. /\ held'[t] = <<job, next>> /\ <<job, next>> \in Tables
          /\ starts' = starts
      BY <2>4, <3>1, PairIsTable DEF TakeTable, QueueHasNext, TypeOK, ghostVars
    <3>3. starts[<<job, next>>] = 0
      BY <2>1, <3>1, <3>2 DEF StartsInv, Queued
    <3> QED
      BY <2>1, <2>2, <3>2, <3>3 DEF StartsInv, NoTableTwice
  <2>5. CASE ~BeginTable(t) /\ ~TakeTable(t)
    <3>1. starts' = starts /\ pc'[t] # "gate"
      BY <1>3, <2>5 DEF TableStep, QueueEmpty, HaltAtGate, PrepareOk, EnterCopy,
         PrepareFails,
         CopyBatch, CopyFails, LeaveCopyLoop, PostLoad, ReportOk, ReportError,
         Aborts, AfterError, Goto,
         ghostVars, TypeOK
    <3> QED
      BY <2>1, <2>2, <3>1 DEF StartsInv, NoTableTwice
  <2> QED
    BY <2>3, <2>4, <2>5
<1> QED
  BY <1>1, <1>2, <1>3 DEF Next, Finished

-----------------------------------------------------------------------------
(* A task begins work only by using up a verdict "go" of check(), and once *)
(* stop is set check() gives no other.                                     *)
LEMMA LateStep == TypeOK /\ LateInv /\ [Next]_vars => LateInv'
<1> SUFFICES ASSUME TypeOK, LateInv, [Next]_vars,
                    NEW t \in Tasks
             PROVE  /\ ~stop' => late'[t] = 0
                    /\ checking'[t] = "go" => late'[t] = 0
                    /\ late'[t] <= 1
  BY DEF LateInv
<1>0. /\ checking \in [Tasks -> Control!CheckPoints]
      /\ late \in [Tasks -> Nat]
      /\ late[t] \in Nat
      /\ ~stop => late[t] = 0
      /\ checking[t] = "go" => late[t] = 0
      /\ late[t] <= 1
  BY DEF TypeOK, Control!ControlTypeOK, LateInv
<1>1. CASE UserCommand \/ FinishCommand \/ UNCHANGED vars
  <2>1. /\ late' = late
        /\ ~stop' => ~stop
        /\ checking'[t] = "go" => checking[t] = "go"
    BY <1>0, <1>1 DEF UserCommand, FinishCommand, vars, ghostVars, Control!Pause,
       Control!ResumeStore, Control!StopStore, Control!NotifyWaiters
  <2> QED
    BY <1>0, <2>1
<1>2. ASSUME NEW u \in Tasks, CheckStep(u)
      PROVE  /\ ~stop' => late'[t] = 0
             /\ checking'[t] = "go" => late'[t] = 0
             /\ late'[t] <= 1
  <2>1. /\ late' = late
        /\ stop' = stop
        /\ checking'[t] = "go" => checking[t] = "go" \/ ~stop
    BY <1>0, <1>2 DEF CheckStep, ghostVars, Control!CheckStep, Control!LoadFlags,
       Control!Subscribe
  <2> QED
    BY <1>0, <2>1
<1>3. CASE MainStep
  <2>1. /\ late' = late
        /\ stop' = stop
        /\ checking'[t] = "go" => checking[t] = "go"
    BY <1>0, <1>3 DEF MainStep, EnterJobCheck, PassJobCheck, HaltAtJobCheck, NoMoreJobs,
       StartJob, SchemaFails, EndJob, AllJoined, Sums, ghostVars, Control!MoveCheck
  <2> QED
    BY <1>0, <2>1
<1>4. ASSUME NEW u \in Tasks, TableStep(u)
      PROVE  /\ ~stop' => late'[t] = 0
             /\ checking'[t] = "go" => late'[t] = 0
             /\ late'[t] <= 1
  <2>1. CASE BeginTable(u) \/ CopyBatch(u)
    <3>1. /\ stop' = stop
          /\ checking[u] = "go"
          /\ checking'[u] # "go"
          /\ t # u => checking'[t] = checking[t]
      BY <1>0, <2>1 DEF BeginTable, CopyBatch, Control!MoveCheck
    <3>2. AfterStop(u)
      BY <2>1 DEF BeginTable, CopyBatch
    <3>3. CASE t # u
      BY <1>0, <3>1, <3>2, <3>3 DEF AfterStop
    <3>4. CASE t = u /\ stop
      <4>1. late'[t] = late[t] + 1
        BY <1>0, <3>2, <3>4 DEF AfterStop
      <4> QED
        BY <1>0, <3>1, <3>4, <4>1
    <3>5. CASE t = u /\ ~stop
      <4>1. late'[t] = late[t]
        BY <1>0, <3>2, <3>5 DEF AfterStop
      <4> QED
        BY <1>0, <3>1, <3>5, <4>1
    <3> QED
      BY <3>3, <3>4, <3>5
  <2>2. CASE ~BeginTable(u) /\ ~CopyBatch(u)
    <3>1. /\ late' = late
          /\ stop' = stop
          /\ checking'[t] = "go" => checking[t] = "go"
      BY <1>0, <1>4, <2>2 DEF TableStep, TakeTable, QueueHasNext, QueueEmpty,
         HaltAtGate, PrepareOk, EnterCopy,
         PrepareFails, CopyFails, LeaveCopyLoop, PostLoad, ReportOk, ReportError,
         Aborts, AfterError,
         ghostVars, Control!MoveCheck
    <3> QED
      BY <1>0, <3>1
  <2> QED
    BY <2>1, <2>2
<1> QED
  BY <1>1, <1>2, <1>3, <1>4 DEF Next, Finished

-----------------------------------------------------------------------------
(* QueueIInv is inductive.                                                 *)
LEMMA QueueInvariant == Spec => []QueueIInv
<1>1. Init => QueueIInv
  BY InitQueue
<1>2. QueueIInv /\ [Next]_vars => QueueIInv'
  BY TypeStep, StageStep, HeldStep, StartsStep DEF QueueIInv
<1> QED
  BY <1>1, <1>2, PTL DEF Spec

(* Every reachable state of the table loop is well typed: in particular no *)
(* task in the middle of a table is without one, and every position taken  *)
(* from the queue names a table of the run.                                *)
THEOREM TypeCorrect == Spec => []TypeOK
<1>1. QueueIInv => TypeOK
  BY DEF QueueIInv
<1> QED
  BY <1>1, QueueInvariant, PTL

(* transfer_one runs at most once for each table, with any number of       *)
(* workers draining the shared queue, any errors and any stops.            *)
THEOREM EachTableOnce == Spec => []NoTableTwice
<1>1. QueueIInv => NoTableTwice
  BY DEF QueueIInv, StartsInv
<1> QED
  BY <1>1, QueueInvariant, PTL

(* After data_transfer_stop every task begins at most one more piece of    *)
(* work, the one check() had already let through.                          *)
THEOREM StopIsPrompt == Spec => []LateWorkBounded
<1>1. Init => LateInv
  BY DEF Init, LateInv, Control!ControlInit
<1>2. TypeOK /\ LateInv /\ [Next]_vars => LateInv'
  BY LateStep
<1>3. LateInv => LateWorkBounded
  BY DEF LateInv, LateWorkBounded
<1> QED
  BY <1>1, <1>2, <1>3, TypeCorrect, PTL DEF Spec

(* run_transfer_multi moves to the next job only when no task holds a      *)
(* table of the last: the events of two jobs never mix.                    *)
THEOREM JobsDoNotOverlap == Spec => JobDrainsFirst
<1>1. QueueIInv /\ [Next]_vars => (job' # job => \A t \in Tasks : held[t] = NoTable)
  <2> SUFFICES ASSUME TypeOK, StageInv, HeldInv, [Next]_vars, job' # job
               PROVE  \A t \in Tasks : held[t] = NoTable
    BY DEF QueueIInv
  <2>1. MainStep
    BY ControlStepFrame, TableStepFrame DEF Next, Finished
  <2>2. SchemaFails \/ EndJob
    BY <2>1 DEF MainStep, EnterJobCheck, PassJobCheck, HaltAtJobCheck, NoMoreJobs,
       StartJob, queueVars
  <2>3. \A t \in Tasks : pc[t] \in {"off", "done"}
    BY <2>2 DEF SchemaFails, EndJob, AllJoined, Sums, StageInv
  <2> QED
    BY <2>3 DEF HeldInv, Busy
<1> QED
  BY <1>1, QueueInvariant, PTL DEF Spec, JobDrainsFirst

-----------------------------------------------------------------------------
(* What a run comes to: the invariant behind FailureSurfaces,              *)
(* SequentialStopsAtFirstError and SuccessMeansComplete.                   *)

(* check() says halt only after a stop.                                    *)
HaltInv == \A t \in Tasks : checking[t] = "halt" => stop

(* Nothing is known yet of a table that is queued or in a task's hands,    *)
(* and up to the copy nothing of it has landed.                            *)
FreshInv ==
  /\ \A tb \in Tables : Queued(tb) => reported[tb] = "no" /\ landed[tb] = 0
  /\ \A t \in Tasks : Busy(t) => reported[held[t]] = "no"
  /\ \A t \in Tasks : pc[t] \in {"gate", "prepare"} => landed[held[t]] = 0

SomeError == \E tb \in Tables : reported[tb] = "error"

(* An error that must end the run is in the totals of the job it happened  *)
(* in, and that job is the last.                                           *)
FailInv ==
  /\ stage = "returned" <=> result # "none"
  /\ result = "none" /\ schemaErrs > 0 => conf.multi /\ conf.continueOnError
  /\ stage = "tables" /\ totals.aborted => SomeError
  /\ ~conf.continueOnError /\ SomeError /\ result = "none" =>
       stage = "tables" /\ totals.aborted
  /\ Sequential /\ ~conf.continueOnError /\ SomeError =>
       \A t \in Tasks : pc[t] \in {"off", "done"}
  /\ FailureSurfaces

OutcomeInv == HaltInv /\ FreshInv /\ FailInv

(* Main's steps leave the tables alone, and nobody is in the middle of one.*)
LEMMA MainStepFrame ==
  ASSUME TypeOK, StageInv, MainStep
  PROVE  /\ UNCHANGED <<conf, landed, index, reported, stop>>
         /\ \A t \in Tasks : Busy(t)' => Busy(t) /\ held'[t] = held[t] /\ pc'[t] = pc[t]
         /\ \A tb \in Tables : Queued(tb)' => Queued(tb)
<1>1. UNCHANGED <<conf, landed, index, reported, stop>>
  BY DEF MainStep, EnterJobCheck, PassJobCheck, HaltAtJobCheck, NoMoreJobs, StartJob,
     SchemaFails, EndJob, tableVars, Control!MoveCheck
<1>2. \A t \in Tasks : Busy(t)' => Busy(t) /\ held'[t] = held[t] /\ pc'[t] = pc[t]
  <2>1. CASE StartJob
    BY <2>1 DEF StartJob, Busy
  <2>2. CASE MainStep /\ ~StartJob
    BY <2>2 DEF MainStep, EnterJobCheck, PassJobCheck, HaltAtJobCheck, NoMoreJobs,
       SchemaFails, EndJob, taskVars, Busy
  <2> QED
    BY <2>1, <2>2
<1>3. ASSUME NEW tb \in Tables, Queued(tb)' PROVE Queued(tb)
  <2>1. tb[1] \in Nat /\ tb[2] \in Nat /\ tb[2] > 0
    BY TableIsPair, NJobsIsPositive, JobSizeIsNat
  <2> USE <1>3, <2>1, NJobsIsPositive DEF Queued, TypeOK, queueVars
  <2>2. CASE EnterJobCheck \/ PassJobCheck \/ HaltAtJobCheck \/ NoMoreJobs
    BY <2>2 DEF EnterJobCheck, PassJobCheck, HaltAtJobCheck, NoMoreJobs
  <2>3. CASE StartJob
    BY <2>3 DEF StartJob
  <2>4. CASE SchemaFails
    BY <2>4 DEF SchemaFails
  <2>5. CASE EndJob
    BY <2>5 DEF EndJob, AllJoined, Sums
  <2> QED
    BY <2>2, <2>3, <2>4, <2>5 DEF MainStep
<1> QED
  BY <1>1, <1>2, <1>3

(* A verdict is given in LoadFlags alone, and stop is never taken back.    *)
LEMMA HaltStep == TypeOK /\ HaltInv /\ [Next]_vars => HaltInv' /\ (stop => stop')
<1> SUFFICES ASSUME TypeOK, HaltInv, [Next]_vars PROVE HaltInv' /\ (stop => stop')
  OBVIOUS
<1> USE DEF HaltInv, TypeOK, Control!ControlTypeOK
<1>1. CASE UserCommand
  BY <1>1 DEF UserCommand, Control!Pause, Control!ResumeStore, Control!StopStore
<1>2. CASE FinishCommand
  BY <1>2 DEF FinishCommand, Control!NotifyWaiters
<1>3. ASSUME NEW t \in Tasks, CheckStep(t) PROVE HaltInv' /\ (stop => stop')
  BY <1>3 DEF CheckStep, Control!CheckStep, Control!LoadFlags, Control!Subscribe
<1>4. CASE MainStep
  BY <1>4 DEF MainStep, EnterJobCheck, PassJobCheck, HaltAtJobCheck, NoMoreJobs, StartJob,
     SchemaFails, EndJob, Control!MoveCheck
<1>5. ASSUME NEW t \in Tasks, TableStep(t) PROVE HaltInv' /\ (stop => stop')
  <2>1. /\ stop' = stop
        /\ \A u \in Tasks : checking'[u] = "halt" => checking[u] = "halt"
    BY <1>5 DEF TableStep, TakeTable, QueueEmpty, HaltAtGate, BeginTable, PrepareOk,
       EnterCopy, PrepareFails, CopyBatch, CopyFails, LeaveCopyLoop, PostLoad, ReportOk,
       ReportError, Control!MoveCheck
  <2> QED
    BY <2>1
<1>6. CASE UNCHANGED vars
  BY <1>6 DEF vars
<1> QED
  BY <1>1, <1>2, <1>3, <1>4, <1>5, <1>6 DEF Next, Finished

(* What a step of task t does to tables: it reports and fills the one it   *)
(* holds, and no other.                                                    *)
LEMMA TableStepOutcome ==
  ASSUME QueueIInv, NEW t \in Tasks, TableStep(t)
  PROVE  /\ \A tb \in Tables :
              \/ Busy(t) /\ tb = held[t]
              \/ /\ reported'[tb] = reported[tb] /\ landed'[tb] = landed[tb]
                 /\ index'[tb] = index[tb]
         /\ Busy(t) /\ Busy(t)' => held'[t] = held[t]
         /\ reported' # reported => ~Busy(t)' /\ pc[t] \in {"ok", "error"}
         /\ landed' # landed => pc[t] = "copy" /\ pc'[t] \in {"copy", "post"}
         /\ pc'[t] = "gate" => pc[t] \in {"recv", "gate"}
         /\ pc'[t] = "prepare" => pc[t] \in {"gate", "prepare"}
         /\ UNCHANGED <<conf, stage, job, result, schemaErrs, sum>>
<1> USE DEF QueueIInv, TypeOK, HeldInv, Busy, Goto, tableVars, mainVars
<1>1. CASE TakeTable(t)
  BY <1>1 DEF TakeTable
<1>2. CASE QueueEmpty(t) \/ HaltAtGate(t)
  BY <1>2 DEF QueueEmpty, HaltAtGate, queueVars
<1>3. CASE BeginTable(t) \/ PrepareFails(t)
  BY <1>3 DEF BeginTable, PrepareFails, queueVars
<1>4. CASE PrepareOk(t)
  BY <1>4 DEF PrepareOk, queueVars
<1>5. CASE CopyBatch(t)
  BY <1>5 DEF CopyBatch, queueVars
<1>6. CASE CopyFails(t) \/ LeaveCopyLoop(t)
  BY <1>6 DEF CopyFails, LeaveCopyLoop, queueVars
<1>7. CASE PostLoad(t)
  BY <1>7 DEF PostLoad, queueVars
<1>8. CASE ReportOk(t)
  BY <1>8 DEF ReportOk, queueVars
<1>9. CASE ReportError(t)
  BY <1>9 DEF ReportError, AfterError, queueVars
<1> QED
  BY <1>1, <1>2, <1>3, <1>4, <1>5, <1>6, <1>7, <1>8, <1>9 DEF TableStep

(* A table is reported once, by the task that holds it.                    *)
LEMMA FreshStep == QueueIInv /\ FreshInv /\ [Next]_vars => FreshInv'
<1> SUFFICES ASSUME QueueIInv, FreshInv, [Next]_vars PROVE FreshInv'
  OBVIOUS
<1>0. /\ TypeOK /\ StageInv /\ HeldInv
      /\ \A tb \in Tables : tb[1] \in Nat /\ tb[2] \in Nat
  BY TableIsPair DEF QueueIInv
<1>1. CASE UserCommand \/ FinishCommand \/ UNCHANGED vars \/ \E t \in Tasks : CheckStep(t)
  BY <1>1, ControlStepFrame DEF FreshInv, Queued, Busy
<1>2. CASE MainStep
  BY <1>0, <1>2, MainStepFrame DEF FreshInv, Busy
<1>3. ASSUME NEW t \in Tasks, TableStep(t) PROVE FreshInv'
  <2>1. /\ stage = "tables" /\ stage' = stage /\ job' = job
        /\ \A u \in Tasks : u # t => pc'[u] = pc[u] /\ held'[u] = held[u]
        /\ next <= next' /\ next' \in Nat /\ next \in Nat
    BY <1>0, <1>3, TableStepFrame DEF TypeOK
  <2>2. \A tb \in Tables : Queued(tb)' => Queued(tb)
    BY <1>0, <2>1 DEF Queued
  <2>3. Busy(t) => held[t] \in Tables /\ ~Queued(held[t])
    BY <1>0, <2>1 DEF HeldInv, Queued, TypeOK
  <2>4. \A tb \in Tables : Queued(tb)' => reported'[tb] = "no" /\ landed'[tb] = 0
    BY <1>3, <2>2, <2>3, TableStepOutcome DEF FreshInv
  <2>5. ASSUME NEW u \in Tasks, u # t, Busy(u)'
        PROVE  /\ reported'[held'[u]] = "no"
               /\ pc'[u] \in {"gate", "prepare"} => landed'[held'[u]] = 0
    <3>1. Busy(u) /\ held'[u] = held[u] /\ pc'[u] = pc[u] /\ held[u] \in Tables
      BY <1>0, <2>1, <2>5 DEF Busy, HeldInv
    <3>2. Busy(t) => held[u] # held[t]
      BY <1>0, <2>5, <3>1 DEF HeldInv
    <3>3. reported'[held[u]] = reported[held[u]] /\ landed'[held[u]] = landed[held[u]]
      BY <1>3, <3>1, <3>2, TableStepOutcome
    <3> QED
      BY <3>1, <3>3 DEF FreshInv
  <2>6. ASSUME Busy(t)', Busy(t)
        PROVE  /\ reported'[held'[t]] = "no"
               /\ pc'[t] \in {"gate", "prepare"} => landed'[held'[t]] = 0
    <3>1. held'[t] = held[t] /\ reported' = reported
      BY <1>3, <2>6, TableStepOutcome
    <3>2. pc'[t] \in {"gate", "prepare"} => pc[t] \in {"gate", "prepare"} /\ landed' = landed
      BY <1>3, <2>6, TableStepOutcome DEF Busy
    <3> QED
      BY <2>6, <3>1, <3>2 DEF FreshInv
  <2>7. ASSUME Busy(t)', ~Busy(t)
        PROVE  reported'[held'[t]] = "no" /\ landed'[held'[t]] = 0
    <3>1. TakeTable(t)
      BY <1>0, <1>3, <2>7 DEF TableStep, QueueEmpty, HaltAtGate, BeginTable, PrepareOk,
         PrepareFails, CopyBatch, CopyFails, LeaveCopyLoop, PostLoad, ReportOk, ReportError,
         Busy, Goto, TypeOK
    <3>2. job \in 1..NJobs /\ next \in 1..JobSize[job]
      BY <1>0, <2>1, <3>1, NJobsIsPositive, JobSizeIsNat DEF TakeTable, QueueHasNext,
         StageInv, TypeOK
    <3>3. held'[t] = <<job, next>> /\ <<job, next>> \in Tables
          /\ reported' = reported /\ landed' = landed
      BY <1>0, <3>1, <3>2, PairIsTable DEF TakeTable, TypeOK, tableVars
    <3>4. Queued(<<job, next>>)
      BY <2>1, <3>2 DEF Queued
    <3> QED
      BY <3>3, <3>4 DEF FreshInv
  <2>8. \A u \in Tasks : pc'[u] \in {"gate", "prepare"} => Busy(u)'
    BY DEF Busy
  <2> QED
    BY <2>4, <2>5, <2>6, <2>7, <2>8 DEF FreshInv
<1> QED
  BY <1>1, <1>2, <1>3 DEF Next, Finished

(* An error reaches the totals with its report, the totals reach Main when *)
(* the pool is joined, and Main stops there.                               *)
LEMMA FailStep == QueueIInv /\ FreshInv /\ FailInv /\ [Next]_vars => FailInv'
<1> SUFFICES ASSUME QueueIInv, FreshInv, FailInv, [Next]_vars PROVE FailInv'
  OBVIOUS
<1>0. TypeOK /\ StageInv /\ HeldInv
  BY DEF QueueIInv
<1>1. CASE UserCommand \/ FinishCommand \/ UNCHANGED vars \/ \E t \in Tasks : CheckStep(t)
  BY <1>1, ControlStepFrame DEF FailInv, SomeError, FailureSurfaces, Sequential
<1>2. CASE MainStep
  <2>1. UNCHANGED <<conf, reported>>
    BY <1>0, <1>2, MainStepFrame
  <2>2. SomeError' = SomeError /\ Sequential' = Sequential
    BY <2>1 DEF SomeError, Sequential
  <2>3. schemaErrs \in Nat /\ totals.aborted \in BOOLEAN
    BY <1>0 DEF TypeOK
  <2> USE <2>1, <2>2, <2>3 DEF FailInv, FailureSurfaces, SomeError
  <2>4. CASE EnterJobCheck \/ PassJobCheck \/ HaltAtJobCheck \/ NoMoreJobs
    BY <2>4 DEF EnterJobCheck, PassJobCheck, HaltAtJobCheck, NoMoreJobs, taskVars
  <2>5. CASE StartJob
    BY <2>5 DEF StartJob, NoTotals
  <2>6. CASE SchemaFails
    BY <2>6 DEF SchemaFails, taskVars
  <2>7. CASE EndJob
    BY <2>7 DEF EndJob, taskVars
  <2> QED
    BY <1>2, <2>4, <2>5, <2>6, <2>7 DEF MainStep
<1>3. ASSUME NEW t \in Tasks, TableStep(t) PROVE FailInv'
  <2>1. /\ stage = "tables" /\ t \in conf.pool /\ pc[t] \notin {"off", "done"}
        /\ \A u \in Tasks : u # t => pc'[u] = pc[u]
        /\ UNCHANGED <<conf, stage, job, result, schemaErrs, sum>>
    BY <1>0, <1>3, TableStepFrame, TableStepOutcome
  <2>2. result = "none" /\ ~(Sequential /\ ~conf.continueOnError /\ SomeError)
    BY <2>1 DEF FailInv
  <2>3. Sequential' = Sequential
    BY <2>1 DEF Sequential
  <2>4. CASE ReportError(t)
    <3>1. held[t] \in Tables
      BY <1>0, <2>4 DEF ReportError, HeldInv, Busy
    <3>2. SomeError' /\ totals'.aborted = (totals.aborted \/ Aborts)
      BY <1>0, <2>4, <3>1 DEF ReportError, SomeError, TypeOK
    <3>3. ~conf.continueOnError => totals'.aborted
      BY <3>2 DEF Aborts
    <3>4. Sequential /\ ~conf.continueOnError => \A u \in Tasks : pc'[u] \in {"off", "done"}
      BY <1>0, <2>1, <2>4 DEF ReportError, AfterError, Goto, Sequential, StageInv, TypeOK
    <3> QED
      BY <2>1, <2>2, <2>3, <3>2, <3>3, <3>4 DEF FailInv, FailureSurfaces
  <2>5. CASE ReportOk(t)
    <3>1. held[t] \in Tables /\ reported[held[t]] = "no"
      BY <1>0, <2>5 DEF ReportOk, HeldInv, Busy, FreshInv
    <3>2. SomeError' = SomeError /\ totals'.aborted = totals.aborted
      BY <1>0, <2>5, <3>1 DEF ReportOk, SomeError, TypeOK
    <3> QED
      BY <2>1, <2>2, <2>3, <3>2 DEF FailInv, FailureSurfaces
  <2>6. CASE ~ReportError(t) /\ ~ReportOk(t)
    <3>1. reported' = reported /\ totals' = totals
      BY <1>3, <2>6 DEF TableStep, TakeTable, QueueEmpty, HaltAtGate, BeginTable, PrepareOk,
         PrepareFails, CopyBatch, CopyFails, LeaveCopyLoop, PostLoad, tableVars
    <3>2. SomeError' = SomeError
      BY <3>1 DEF SomeError
    <3> QED
      BY <2>1, <2>2, <2>3, <3>1, <3>2 DEF FailInv, FailureSurfaces
  <2> QED
    BY <2>4, <2>5, <2>6
<1> QED
  BY <1>1, <1>2, <1>3 DEF Next, Finished

(* OutcomeInv is invariant.                                                *)
LEMMA OutcomeInvariant == Spec => []OutcomeInv
<1>1. Init => OutcomeInv
  BY DEF Init, OutcomeInv, HaltInv, FreshInv, FailInv, SomeError, FailureSurfaces, Busy,
     NoTotals, Control!ControlInit
<1>2. QueueIInv /\ OutcomeInv /\ [Next]_vars => OutcomeInv'
  BY HaltStep, FreshStep, FailStep DEF OutcomeInv, QueueIInv
<1> QED
  BY <1>1, <1>2, QueueInvariant, PTL DEF Spec

(* The command returns an error exactly when its caller must see one, for  *)
(* the sequential and the parallel loop, one job and many.                 *)
THEOREM ErrorsSurface == Spec => []FailureSurfaces
<1>1. OutcomeInv => FailureSurfaces
  BY DEF OutcomeInv, FailInv
<1> QED
  BY <1>1, OutcomeInvariant, PTL

(* run_sequential takes no table after the first error unless it is told   *)
(* to continue on errors.                                                  *)
THEOREM SequentialStops == Spec => SequentialStopsAtFirstError
<1>1. QueueIInv /\ OutcomeInv /\ [Next]_vars =>
        (Sequential /\ ~conf.continueOnError /\ (\E t \in Tables : reported[t] = "error")
           => next' = next)
  <2> SUFFICES ASSUME QueueIInv, OutcomeInv, [Next]_vars,
                      Sequential, ~conf.continueOnError, SomeError
               PROVE  next' = next
    BY DEF SomeError
  <2>1. /\ TypeOK /\ StageInv
        /\ \A t \in Tasks : pc[t] \in {"off", "done"}
        /\ stage # "schema"
    BY DEF QueueIInv, OutcomeInv, FailInv
  <2>2. \A t \in Tasks : ~TableStep(t)
    BY <2>1, TableStepFrame
  <2>3. CASE MainStep
    BY <2>1, <2>3 DEF MainStep, EnterJobCheck, PassJobCheck, HaltAtJobCheck, NoMoreJobs,
       StartJob, SchemaFails, EndJob, queueVars
  <2> QED
    BY <2>2, <2>3, ControlStepFrame DEF Next, Finished
<1> QED
  BY <1>1, QueueInvariant, OutcomeInvariant, PTL DEF Spec, SequentialStopsAtFirstError

-----------------------------------------------------------------------------
(* What a run without a stop and without a failure has done.               *)

(* All rows that were to come are there, and the index is with them.       *)
Whole(tb) ==
  /\ conf.createRecords => landed[tb] = Batches[tb]
  /\ landed[tb] > 0 => index[tb] # "pending"

NoFailure == sum.failed = 0 /\ (stage = "tables" => totals.failed = 0)

(* Every table a task has taken so far is done or in a task's hands; who   *)
(* has left the loop has found the queue empty.                            *)
DoneInv ==
  /\ \A tb \in Tables : reported[tb] # "error" /\ (tb[1] < job => reported[tb] = "ok")
  /\ stage = "tables" =>
       /\ \A tb \in Tables : tb[1] = job /\ tb[2] < next =>
            reported[tb] = "ok" \/ \E t \in Tasks : Busy(t) /\ held[t] = tb
       /\ \A t \in conf.pool : pc[t] = "done" => next > JobSize[job]
  /\ result = "ok" => \A tb \in RunTables : reported[tb] = "ok"

CompleteInv ==
  ~stop =>
    /\ \A tb \in Tables : reported[tb] = "ok" => Whole(tb)
    /\ \A t \in Tasks : pc[t] = "post" => landed[held[t]] = Batches[held[t]]
    /\ \A t \in Tasks : pc[t] = "ok" => Whole(held[t])
    /\ NoFailure => DoneInv
SingleInv == ~conf.multi => job = 1

(* run_transfer has its one job.                                           *)
LEMMA SingleStep == TypeOK /\ StageInv /\ SingleInv /\ [Next]_vars => SingleInv'
<1> SUFFICES ASSUME TypeOK, StageInv, SingleInv, [Next]_vars PROVE SingleInv'
  OBVIOUS
<1>1. CASE MainStep
  BY <1>1 DEF MainStep, EnterJobCheck, PassJobCheck, HaltAtJobCheck, NoMoreJobs, StartJob,
     SchemaFails, EndJob, queueVars, SingleInv
<1>2. ASSUME NEW t \in Tasks, TableStep(t) PROVE SingleInv'
  BY <1>2, TableStepFrame DEF SingleInv
<1> QED
  BY <1>1, <1>2, ControlStepFrame DEF Next, Finished, SingleInv

(* Somebody runs the loop.                                                 *)
LEMMA PoolIsNotEmpty == ASSUME TypeOK PROVE conf.pool # {} /\ conf.pool \subseteq Tasks
<1>1. conf.pool \in {{Main}} \cup {P \in SUBSET Workers : Cardinality(P) > 1}
  BY DEF TypeOK, Confs
<1>2. CASE conf.pool = {Main}
  BY <1>2 DEF Tasks
<1>3. CASE conf.pool \in SUBSET Workers /\ Cardinality(conf.pool) > 1
  <2>1. Cardinality({}) = 0
    BY FS_EmptySet
  <2>2. conf.pool # {}
    <3> SUFFICES ASSUME conf.pool = {} PROVE FALSE
      OBVIOUS
    <3>1. Cardinality(conf.pool) = 0
      BY <2>1
    <3> QED
      BY <3>1, <1>3
  <2> QED
    BY <1>3, <2>2 DEF Tasks
<1> QED
  BY <1>1, <1>2, <1>3

(* Without a stop, what a task passes on to its report is whole.           *)
LEMMA WholeStep ==
  ASSUME QueueIInv, OutcomeInv, CompleteInv, ~stop, NEW t \in Tasks, TableStep(t)
  PROVE  /\ \A tb \in Tables : reported'[tb] = "ok" => Whole(tb)'
         /\ \A u \in Tasks : pc'[u] = "post" => landed'[held'[u]] = Batches[held'[u]]
         /\ \A u \in Tasks : pc'[u] = "ok" =>
              /\ conf.createRecords => landed'[held'[u]] = Batches[held'[u]]
              /\ landed'[held'[u]] > 0 => index'[held'[u]] # "pending"
<1>0. /\ TypeOK /\ StageInv /\ HeldInv /\ HaltInv /\ FreshInv
      /\ \A u \in Tasks : u # t => pc'[u] = pc[u] /\ held'[u] = held[u]
      /\ conf' = conf
      /\ \A u \in Tasks : Busy(u) => held[u] \in Tables
      /\ \A tb \in Tables : Batches[tb] \in Nat /\ landed[tb] \in Nat
  BY TableStepFrame, BatchesIsNat DEF QueueIInv, OutcomeInv, HeldInv, TypeOK
<1> USE ~stop DEF CompleteInv
<1>1. ASSUME NEW tb \in Tables, reported'[tb] = "ok" PROVE Whole(tb)'
  <2>1. CASE Busy(t) /\ tb = held[t]
    <3>1. ReportOk(t)
      <4>1. reported[tb] = "no"
        BY <1>0, <2>1 DEF FreshInv
      <4>2. pc[t] \in {"ok", "error"}
        BY <1>1, <4>1, TableStepOutcome
      <4>3. CASE ReportError(t)
        BY <1>0, <1>1, <2>1, <4>3 DEF ReportError, TypeOK
      <4> QED
        BY <4>2, <4>3 DEF TableStep, TakeTable, QueueEmpty, HaltAtGate, BeginTable,
           PrepareOk, PrepareFails, CopyBatch, CopyFails, LeaveCopyLoop, PostLoad
    <3>2. pc[t] = "ok" /\ UNCHANGED <<landed, index, conf>>
      BY <1>0, <3>1 DEF ReportOk
    <3> QED
      BY <2>1, <3>2 DEF Whole
  <2>2. CASE ~(Busy(t) /\ tb = held[t])
    <3>1. reported[tb] = "ok" /\ landed'[tb] = landed[tb] /\ index'[tb] = index[tb]
      BY <1>1, <2>2, TableStepOutcome
    <3> QED
      BY <1>0, <3>1 DEF Whole
  <2> QED
    BY <2>1, <2>2
<1>2. ASSUME NEW u \in Tasks, u # t, pc'[u] \in {"post", "ok"}
      PROVE  /\ pc[u] = pc'[u] /\ held'[u] = held[u]
             /\ landed'[held[u]] = landed[held[u]] /\ index'[held[u]] = index[held[u]]
  <2>1. pc[u] = pc'[u] /\ held'[u] = held[u] /\ held[u] \in Tables /\ Busy(u)
    BY <1>0, <1>2 DEF Busy
  <2>2. Busy(t) => held[u] # held[t]
    BY <1>0, <1>2, <2>1 DEF HeldInv
  <2> QED
    BY <2>1, <2>2, TableStepOutcome
<1>3. pc'[t] = "post" => landed'[held'[t]] = Batches[held'[t]]
  <2>1. CASE CopyBatch(t)
    <3>1. held[t] \in Tables /\ held' = held
      BY <1>0, <2>1 DEF CopyBatch, Busy
    <3>2. pc'[t] = "post" => landed[held[t]] + 1 = Batches[held[t]]
      BY <1>0, <2>1 DEF CopyBatch, ShortChunk, TypeOK
    <3> QED
      BY <1>0, <2>1, <3>1, <3>2 DEF CopyBatch, TypeOK
  <2>2. CASE LeaveCopyLoop(t)
    BY <1>0, <2>2 DEF LeaveCopyLoop, HaltInv, Control!MoveCheck, tableVars
  <2>3. CASE ~CopyBatch(t) /\ ~LeaveCopyLoop(t)
    BY <1>0, <2>3 DEF TableStep, TakeTable, QueueEmpty, HaltAtGate, BeginTable, PrepareOk,
       PrepareFails, CopyFails, PostLoad, ReportOk, ReportError, AfterError, Goto, TypeOK
  <2> QED
    BY <2>1, <2>2, <2>3
<1>4. pc'[t] = "ok" =>
        /\ conf.createRecords => landed'[held'[t]] = Batches[held'[t]]
        /\ landed'[held'[t]] > 0 => index'[held'[t]] # "pending"
  <2>1. CASE PrepareOk(t)
    <3>1. landed[held[t]] = 0 /\ landed' = landed /\ held' = held
      BY <1>0, <2>1 DEF PrepareOk, FreshInv
    <3>2. pc'[t] = "ok" => ~conf.createRecords \/ Batches[held[t]] = 0
      BY <1>0, <2>1 DEF PrepareOk, Goto, TypeOK
    <3> QED
      BY <3>1, <3>2
  <2>2. CASE PostLoad(t)
    <3>1. held[t] \in Tables /\ held' = held /\ landed' = landed
          /\ landed[held[t]] = Batches[held[t]]
      BY <1>0, <2>2 DEF PostLoad, Busy
    <3>2. index'[held[t]] # "pending"
      BY <1>0, <2>2, <3>1 DEF PostLoad, TypeOK
    <3> QED
      BY <3>1, <3>2
  <2>3. CASE ~PrepareOk(t) /\ ~PostLoad(t)
    BY <1>0, <2>3 DEF TableStep, TakeTable, QueueEmpty, HaltAtGate, BeginTable, PrepareFails,
       CopyBatch, CopyFails, LeaveCopyLoop, ReportOk, ReportError, AfterError, Goto, TypeOK
  <2> QED
    BY <2>1, <2>2, <2>3
<1> QED
  BY <1>1, <1>2, <1>3, <1>4 DEF Whole

(* Without a stop or a failure, a step of the loop loses no table.         *)
LEMMA DoneStep ==
  ASSUME QueueIInv, OutcomeInv, NoFailure => DoneInv, ~stop, NEW t \in Tasks, TableStep(t),
         NoFailure'
  PROVE  DoneInv'
<1>1. /\ TypeOK /\ StageInv /\ HeldInv /\ HaltInv /\ FreshInv
      /\ stage = "tables" /\ t \in conf.pool
      /\ \A u \in Tasks : u # t => pc'[u] = pc[u] /\ held'[u] = held[u]
      /\ UNCHANGED <<conf, stage, job, result, sum>>
  BY TableStepFrame, TableStepOutcome DEF QueueIInv, OutcomeInv
<1>2. totals.failed \in Nat /\ next \in Nat /\ job \in Nat /\ JobSize[job] \in Nat
  BY <1>1, NJobsIsPositive, JobSizeIsNat DEF TypeOK, StageInv
<1>3. ~ReportError(t) /\ ~HaltAtGate(t)
  <2>1. ~HaltAtGate(t)
    BY <1>1 DEF HaltAtGate, HaltInv, Control!MoveCheck
  <2>2. ~ReportError(t)
    <3>1. totals'.failed = 0
      BY <1>1 DEF NoFailure
    <3>2. ReportError(t) => totals'.failed = totals.failed + 1
      BY <1>1 DEF ReportError, TypeOK
    <3> QED
      BY <1>2, <3>1, <3>2
  <2> QED
    BY <2>1, <2>2
<1>4. totals'.failed = totals.failed
  BY <1>1, <1>3 DEF TableStep, TakeTable, QueueEmpty, BeginTable, PrepareOk, PrepareFails,
     CopyBatch, CopyFails, LeaveCopyLoop, PostLoad, ReportOk, TypeOK
<1>5. DoneInv /\ result = "none"
  BY <1>1, <1>4 DEF NoFailure, OutcomeInv, FailInv
<1>6. \A tb \in Tables : reported'[tb] = reported[tb] \/ reported'[tb] = "ok"
  BY <1>1, <1>3 DEF TableStep, TakeTable, QueueEmpty, BeginTable, PrepareOk, PrepareFails,
     CopyBatch, CopyFails, LeaveCopyLoop, PostLoad, ReportOk, tableVars, TypeOK
<1>7. \A tb \in Tables : reported'[tb] # "error" /\ (tb[1] < job => reported'[tb] = "ok")
  BY <1>5, <1>6 DEF DoneInv
<1>8. \A u \in conf.pool : pc'[u] = "done" => next' > JobSize[job]
  <2> SUFFICES ASSUME NEW u \in conf.pool, pc'[u] = "done" PROVE next' > JobSize[job]
    OBVIOUS
  <2>0. u \in Tasks /\ next' >= next /\ next' \in Nat
    BY <1>1, PoolIsNotEmpty, TableStepFrame
  <2>1. CASE u # t
    BY <1>1, <1>2, <1>5, <2>0, <2>1 DEF DoneInv
  <2>2. CASE u = t
    <3>1. QueueEmpty(t)
      BY <1>1, <1>3, <2>2 DEF TableStep, TakeTable, BeginTable, PrepareOk, PrepareFails,
         CopyBatch, CopyFails, LeaveCopyLoop, PostLoad, ReportOk, Goto, TypeOK
    <3> QED
      BY <1>2, <3>1 DEF QueueEmpty, QueueHasNext, queueVars
  <2> QED
    BY <2>1, <2>2
<1>9. ASSUME NEW tb \in Tables, tb[1] = job, tb[2] < next'
      PROVE  reported'[tb] = "ok" \/ \E u \in Tasks : Busy(u)' /\ held'[u] = tb
  <2>1. CASE TakeTable(t)
    <3>1. /\ next' = next + 1 /\ held'[t] = <<job, next>> /\ Busy(t)' /\ ~Busy(t)
          /\ reported' = reported
      BY <1>1, <2>1 DEF TakeTable, Goto, Busy, TypeOK, tableVars
    <3>2. tb = <<tb[1], tb[2]>> /\ tb[2] \in Nat
      BY TableIsPair
    <3>3. CASE tb[2] = next
      BY <1>9, <3>1, <3>2, <3>3
    <3>4. CASE tb[2] # next
      <4>1. tb[2] < next
        BY <1>2, <1>9, <3>1, <3>2, <3>4
      <4>2. reported[tb] = "ok" \/ \E u \in Tasks : Busy(u) /\ held[u] = tb
        BY <1>1, <1>5, <1>9, <4>1 DEF DoneInv
      <4> QED
        BY <1>1, <3>1, <4>2 DEF Busy
    <3> QED
      BY <3>3, <3>4
  <2>2. CASE ~TakeTable(t)
    <3>1. next' = next
      BY <1>3, <2>2 DEF TableStep, QueueEmpty, BeginTable, PrepareOk, PrepareFails,
         CopyBatch, CopyFails, LeaveCopyLoop, PostLoad, ReportOk, queueVars
    <3>2. reported[tb] = "ok" \/ \E u \in Tasks : Busy(u) /\ held[u] = tb
      BY <1>1, <1>5, <1>9, <3>1 DEF DoneInv
    <3>3. Busy(t) /\ held[t] = tb => reported'[tb] = "ok" \/ (Busy(t)' /\ held'[t] = tb)
      <4>1. CASE ReportOk(t)
        BY <1>1, <4>1 DEF ReportOk, TypeOK
      <4>2. CASE ~ReportOk(t)
        BY <1>1, <1>3, <2>2, <4>2 DEF TableStep, QueueEmpty, BeginTable, PrepareOk,
           PrepareFails, CopyBatch, CopyFails, LeaveCopyLoop, PostLoad, Goto, Busy, TypeOK
      <4> QED
        BY <4>1, <4>2
    <3> QED
      BY <1>1, <1>6, <3>2, <3>3 DEF Busy
  <2> QED
    BY <2>1, <2>2
<1> QED
  BY <1>1, <1>5, <1>7, <1>8, <1>9 DEF DoneInv

(* The end of a job without a stop or a failure: all of its tables are ok. *)
LEMMA JobIsDone ==
  ASSUME QueueIInv, DoneInv, EndJob, NEW tb \in Tables, tb[1] = job
  PROVE  reported[tb] = "ok"
<1>1. TypeOK /\ StageInv /\ stage = "tables" /\ \A t \in conf.pool : pc[t] = "done"
  BY DEF QueueIInv, EndJob, AllJoined
<1>2. \A t \in Tasks : ~Busy(t)
  BY <1>1 DEF StageInv, Busy
<1>3. next > JobSize[job]
  BY <1>1, PoolIsNotEmpty DEF DoneInv
<1>4. tb[2] \in 1..JobSize[job] /\ JobSize[job] \in Nat /\ next \in Nat
  BY <1>1, TableIsPair, JobSizeIsNat, NJobsIsPositive DEF TypeOK, StageInv
<1> QED
  BY <1>1, <1>2, <1>3, <1>4 DEF DoneInv

(* Main's steps keep it.                                                   *)
LEMMA MainDoneStep ==
  ASSUME QueueIInv, OutcomeInv, SingleInv, NoFailure => DoneInv, ~stop, MainStep, NoFailure'
  PROVE  DoneInv'
<1>1. /\ TypeOK /\ StageInv /\ HaltInv
      /\ UNCHANGED <<conf, reported>>
      /\ \A tb \in Tables : tb[1] \in 1..NJobs /\ tb[1] \in Nat /\ tb[2] \in Nat /\ tb[2] > 0
  BY MainStepFrame, TableIsPair, NJobsIsPositive, JobSizeIsNat DEF QueueIInv, OutcomeInv
<1>2. /\ job \in Nat /\ NJobs \in Nat /\ sum.failed \in Nat /\ totals.failed \in Nat
      /\ RunTables' = RunTables
  BY <1>1, NJobsIsPositive DEF TypeOK, RunTables
<1>3. CASE EnterJobCheck \/ PassJobCheck
  BY <1>1, <1>2, <1>3 DEF EnterJobCheck, PassJobCheck, NoFailure, DoneInv, OutcomeInv,
     FailInv, queueVars
<1>4. ~HaltAtJobCheck
  BY <1>1 DEF HaltAtJobCheck, HaltInv, Control!MoveCheck, Tasks
<1>5. CASE NoMoreJobs
  <2>1. DoneInv /\ \A tb \in Tables : tb[1] < job
    BY <1>1, <1>2, <1>5 DEF NoMoreJobs, NoFailure
  <2> QED
    BY <1>1, <1>2, <1>5, <2>1 DEF NoMoreJobs, DoneInv, RunTables, queueVars
<1>6. CASE StartJob
  <2>1. DoneInv /\ result = "none"
    BY <1>1, <1>2, <1>6 DEF StartJob, NoFailure, OutcomeInv, FailInv
  <2>2. \A u \in conf.pool : pc'[u] # "done"
    BY <1>1, <1>6, PoolIsNotEmpty DEF StartJob
  <2> QED
    BY <1>1, <1>2, <1>6, <2>1, <2>2 DEF StartJob, DoneInv
<1>7. CASE SchemaFails
  <2>1. ~conf.multi /\ sum' = sum /\ job' = job /\ result' = "err" /\ stage' = "returned"
    BY <1>1, <1>2, <1>7 DEF SchemaFails, NoFailure, TypeOK
  <2>2. DoneInv
    BY <1>7, <2>1 DEF SchemaFails, NoFailure
  <2> QED
    BY <1>1, <2>1, <2>2 DEF DoneInv
<1>8. CASE EndJob
  <2>1. sum'.failed = sum.failed + totals.failed
    BY <1>8 DEF EndJob, Sums
  <2>2. DoneInv
    BY <1>2, <2>1 DEF NoFailure
  <2>3. \A tb \in Tables : tb[1] = job => reported[tb] = "ok"
    BY <1>8, <2>2, JobIsDone
  <2>4. /\ stage' # "tables" /\ job' \in {job, job + 1}
        /\ result' = "ok" => ~conf.multi \/ result = "ok"
    BY <1>2, <1>8 DEF EndJob
  <2>5. \A tb \in Tables : reported'[tb] # "error" /\ (tb[1] < job' => reported'[tb] = "ok")
    BY <1>1, <1>2, <2>2, <2>3, <2>4 DEF DoneInv
  <2>6. ~conf.multi => \A tb \in RunTables : reported[tb] = "ok"
    BY <2>3 DEF SingleInv, RunTables
  <2> QED
    BY <1>1, <1>2, <2>2, <2>4, <2>5, <2>6 DEF DoneInv
<1> QED
  BY <1>3, <1>4, <1>5, <1>6, <1>7, <1>8 DEF MainStep

(* CompleteInv is inductive.                                               *)
LEMMA CompleteStep ==
  QueueIInv /\ OutcomeInv /\ SingleInv /\ CompleteInv /\ [Next]_vars => CompleteInv'
<1> SUFFICES ASSUME QueueIInv, OutcomeInv, SingleInv, CompleteInv, [Next]_vars, ~stop'
             PROVE  /\ \A tb \in Tables : reported'[tb] = "ok" => Whole(tb)'
                    /\ \A t \in Tasks : pc'[t] = "post" => landed'[held'[t]] = Batches[held'[t]]
                    /\ \A t \in Tasks : pc'[t] = "ok" =>
                         /\ conf'.createRecords => landed'[held'[t]] = Batches[held'[t]]
                         /\ landed'[held'[t]] > 0 => index'[held'[t]] # "pending"
                    /\ NoFailure' => DoneInv'
  BY DEF CompleteInv, Whole
<1>0. ~stop /\ TypeOK /\ StageInv
  BY HaltStep DEF QueueIInv, OutcomeInv
<1>1. CASE UserCommand \/ FinishCommand \/ UNCHANGED vars \/ \E t \in Tasks : CheckStep(t)
  <2>1. UNCHANGED <<conf, stage, job, next, pc, held, totals, sum, result, landed, index,
                    reported>>
    BY <1>1, ControlStepFrame
  <2> QED
    BY <1>0, <2>1 DEF CompleteInv, Whole, NoFailure, DoneInv, Busy, RunTables
<1>2. CASE MainStep
  <2>1. /\ UNCHANGED <<conf, landed, index, reported>>
        /\ \A t \in Tasks : pc'[t] \in {"post", "ok"} => pc[t] = pc'[t] /\ held'[t] = held[t]
    BY <1>0, <1>2, MainStepFrame DEF Busy
  <2> QED
    BY <1>0, <1>2, <2>1, MainDoneStep DEF CompleteInv, Whole
<1>3. ASSUME NEW t \in Tasks, TableStep(t)
      PROVE  /\ \A tb \in Tables : reported'[tb] = "ok" => Whole(tb)'
             /\ \A u \in Tasks : pc'[u] = "post" => landed'[held'[u]] = Batches[held'[u]]
             /\ \A u \in Tasks : pc'[u] = "ok" =>
                  /\ conf'.createRecords => landed'[held'[u]] = Batches[held'[u]]
                  /\ landed'[held'[u]] > 0 => index'[held'[u]] # "pending"
             /\ NoFailure' => DoneInv'
  <2>1. conf' = conf
    BY <1>0, <1>3, TableStepFrame
  <2>2. NoFailure => DoneInv
    BY <1>0 DEF CompleteInv
  <2> QED
    BY <1>0, <1>3, <2>1, <2>2, WholeStep, DoneStep
<1> QED
  BY <1>1, <1>2, <1>3 DEF Next, Finished

(* A run that nobody stopped and that reports no failure has taken every   *)
(* table and moved all of it.                                              *)
THEOREM SuccessIsComplete == Spec => []SuccessMeansComplete
<1>1. Init => SingleInv /\ CompleteInv
  BY NJobsIsPositive, TableIsPair
     DEF Init, SingleInv, CompleteInv, NoFailure, DoneInv, Busy
<1>2. /\ QueueIInv /\ OutcomeInv /\ SingleInv /\ CompleteInv /\ [Next]_vars
      => SingleInv' /\ CompleteInv'
  BY SingleStep, CompleteStep DEF QueueIInv
<1>3. OutcomeInv /\ CompleteInv => SuccessMeansComplete
  BY DEF OutcomeInv, FailInv, CompleteInv, NoFailure, DoneInv, Whole, SuccessMeansComplete,
     RunTables
<1> QED
  BY <1>1, <1>2, <1>3, QueueInvariant, OutcomeInvariant, PTL DEF Spec

-----------------------------------------------------------------------------
(* The accounts of a run.                                                  *)

(* What the table loop has counted is in totals until EndJob adds it up.   *)
Pending(n) == IF stage = "tables" THEN n ELSE 0
RowsInv == sum.rows + Pending(totals.rows) = SumFunctionOnSet(landed, Ended("ok"))
FailuresInv ==
  sum.failed + Pending(totals.failed) =
    Cardinality(Ended("error")) + IF conf.multi THEN schemaErrs ELSE 0

(* A run has finitely many tables.                                         *)
LEMMA TablesAreFinite == IsFiniteSet(Tables)
<1> DEFINE f == [j \in 1..NJobs |-> {j} \X (1..JobSize[j])]
           Jobs == {{j} \X (1..JobSize[j]) : j \in 1..NJobs}
<1>1. f \in Surjection(1..NJobs, Jobs)
  BY DEF Surjection
<1>2. IsFiniteSet(1..NJobs)
  BY NJobsIsPositive, FS_Interval
<1>3. IsFiniteSet(Jobs)
  <2> HIDE DEF f, Jobs
  <2> QED
    BY <1>1, <1>2, FS_Surjection
<1>4. ASSUME NEW T \in Jobs PROVE IsFiniteSet(T)
  <2>1. PICK j \in 1..NJobs : T = {j} \X (1..JobSize[j])
    OBVIOUS
  <2>2. JobSize[j] \in Nat
    BY JobSizeIsNat
  <2>3. IsFiniteSet(1..JobSize[j])
    BY <2>2, FS_Interval
  <2>4. IsFiniteSet({j})
    BY FS_Singleton
  <2> QED
    BY <2>1, <2>3, <2>4, FS_Product
<1>5. IsFiniteSet(UNION Jobs)
  <2> HIDE DEF Jobs
  <2> QED
    BY <1>3, <1>4, FS_UNION
<1> QED
  BY <1>5 DEF Tables

(* The tables of an end, and what can be counted of them.                  *)
LEMMA EndedAreFinite ==
  ASSUME TypeOK, NEW end
  PROVE  /\ Ended(end) \subseteq Tables
         /\ IsFiniteSet(Ended(end)) /\ Cardinality(Ended(end)) \in Nat
         /\ \A tb \in Tables : landed[tb] \in Nat
         /\ SumFunctionOnSet(landed, Ended(end)) \in Nat
<1>1. Ended(end) \subseteq Tables
  BY DEF Ended
<1>2. IsFiniteSet(Ended(end))
  BY <1>1, TablesAreFinite, FS_Subset
<1>3. \A tb \in Tables : landed[tb] \in Nat
  BY DEF TypeOK
<1>4. SumFunctionOnSet(landed, Ended(end)) \in Nat
  BY <1>1, <1>2, <1>3, SumIsNat
<1> QED
  BY <1>1, <1>2, <1>3, <1>4, FS_CardinalityType

(* A step of the table loop moves rows or failures from a table to totals. *)
LEMMA TableAccounts ==
  ASSUME QueueIInv, FreshInv, RowsInv, FailuresInv, NEW t \in Tasks, TableStep(t)
  PROVE  RowsInv' /\ FailuresInv'
<1>0. /\ TypeOK /\ StageInv /\ HeldInv
      /\ stage = "tables" /\ UNCHANGED <<conf, stage, job, schemaErrs, sum>>
      /\ Busy(t) => held[t] \in Tables /\ reported[held[t]] = "no"
      /\ totals.rows \in Nat /\ totals.failed \in Nat /\ totals.aborted \in BOOLEAN
      /\ sum.rows \in Nat /\ sum.failed \in Nat /\ schemaErrs \in Nat
      /\ reported \in [Tables -> {"no", "ok", "error"}]
      /\ landed \in [Tables -> Nat]
      /\ totals \in [rows: Nat, failed: Nat, aborted: BOOLEAN]
  BY TableStepFrame, TableStepOutcome DEF QueueIInv, FreshInv, HeldInv, TypeOK
<1>1. CASE ReportOk(t)
  <2>1. /\ reported' = [reported EXCEPT ![held[t]] = "ok"]
        /\ totals' = [totals EXCEPT !.rows = @ + landed[held[t]]]
        /\ landed' = landed
        /\ Busy(t)
    BY <1>1 DEF ReportOk, Busy
  <2>2. /\ Ended("ok")' = Ended("ok") \cup {held[t]}
        /\ held[t] \notin Ended("ok")
        /\ Ended("error")' = Ended("error")
    BY <1>0, <2>1 DEF Ended
  <2>3. Ended("ok")' \ {held[t]} = Ended("ok")
    BY <2>2
  <2>4. IsFiniteSet(Ended("ok")') /\ \A tb \in Ended("ok")' : landed[tb] \in Nat
    <3>1. Ended("ok")' \in SUBSET Tables
      BY DEF Ended
    <3> QED
      BY <1>0, <3>1, TablesAreFinite, FS_Subset
  <2>5. held[t] \in Ended("ok")'
    BY <2>2
  <2>6. SumFunctionOnSet(landed, Ended("ok")')
          = landed[held[t]] + SumFunctionOnSet(landed, Ended("ok"))
    BY <2>3, <2>4, <2>5, SumTakes
  <2>7. totals'.rows = totals.rows + landed[held[t]] /\ totals'.failed = totals.failed
    BY <1>0, <2>1
  <2>8. landed[held[t]] \in Nat
    BY <1>0, <2>1
  <2>9. RowsInv'
    BY <1>0, <2>1, <2>6, <2>7, <2>8 DEF RowsInv, Pending
  <2>10. FailuresInv'
    BY <1>0, <2>2, <2>7 DEF FailuresInv, Pending
  <2> QED
    BY <2>9, <2>10
<1>2. CASE ReportError(t)
  <2>1. /\ reported' = [reported EXCEPT ![held[t]] = "error"]
        /\ totals'.rows = totals.rows /\ totals'.failed = totals.failed + 1
        /\ landed' = landed
        /\ Busy(t)
    BY <1>0, <1>2 DEF ReportError, Busy
  <2>2. /\ Ended("error")' = Ended("error") \cup {held[t]}
        /\ held[t] \notin Ended("error")
        /\ Ended("ok")' = Ended("ok")
    BY <1>0, <2>1 DEF Ended
  <2>3. IsFiniteSet(Ended("error")) /\ Cardinality(Ended("error")) \in Nat
    BY <1>0, EndedAreFinite
  <2>4. Cardinality(Ended("error")') = Cardinality(Ended("error")) + 1
    BY <2>2, <2>3, FS_AddElement
  <2>5. RowsInv'
    BY <1>0, <2>1, <2>2 DEF RowsInv, Pending
  <2>6. FailuresInv'
    BY <1>0, <2>1, <2>3, <2>4 DEF FailuresInv, Pending
  <2> QED
    BY <2>5, <2>6
<1>3. CASE CopyBatch(t)
  <2>1. /\ landed' = [landed EXCEPT ![held[t]] = @ + 1]
        /\ reported' = reported /\ totals' = totals
        /\ Busy(t)
    BY <1>3 DEF CopyBatch, Busy
  <2>2. Ended("ok")' = Ended("ok") /\ Ended("error")' = Ended("error")
    BY <2>1 DEF Ended
  <2>3. \A tb \in Ended("ok") : landed'[tb] = landed[tb]
    BY <1>0, <2>1 DEF Ended
  <2>4. IsFiniteSet(Ended("ok"))
    BY <1>0, EndedAreFinite
  <2>5. SumFunctionOnSet(landed', Ended("ok")) = SumFunctionOnSet(landed, Ended("ok"))
    BY <2>3, <2>4, SumsEqual
  <2> QED
    BY <1>0, <2>1, <2>2, <2>5 DEF RowsInv, FailuresInv, Pending
<1>4. CASE ~ReportOk(t) /\ ~ReportError(t) /\ ~CopyBatch(t)
  <2>1. UNCHANGED <<landed, reported, totals>>
    BY <1>4 DEF TableStep, TakeTable, QueueEmpty, HaltAtGate, BeginTable, PrepareOk,
       PrepareFails, CopyFails, LeaveCopyLoop, PostLoad, tableVars
  <2> QED
    BY <1>0, <2>1 DEF RowsInv, FailuresInv, Pending, Ended
<1> QED
  BY <1>1, <1>2, <1>3, <1>4

(* Main moves what a job has come to from totals to sum.                   *)
LEMMA MainAccounts ==
  ASSUME TypeOK, StageInv, RowsInv, FailuresInv, MainStep
  PROVE  RowsInv' /\ FailuresInv'
<1>0. /\ UNCHANGED <<conf, landed, reported>>
      /\ Ended("ok")' = Ended("ok") /\ Ended("error")' = Ended("error")
      /\ Cardinality(Ended("error")) \in Nat
      /\ totals.rows \in Nat /\ totals.failed \in Nat /\ totals.aborted \in BOOLEAN
      /\ sum.rows \in Nat /\ sum.failed \in Nat /\ schemaErrs \in Nat
      /\ sum \in [rows: Nat, failed: Nat, aborted: BOOLEAN]
      /\ SumFunctionOnSet(landed, Ended("ok")) \in Nat
  <2>1. UNCHANGED <<conf, landed, reported>>
    BY MainStepFrame
  <2>2. Ended("ok")' = Ended("ok") /\ Ended("error")' = Ended("error")
    BY <2>1 DEF Ended
  <2> QED
    BY <2>1, <2>2, EndedAreFinite DEF TypeOK
<1> USE <1>0 DEF RowsInv, FailuresInv, Pending
<1>1. CASE EnterJobCheck \/ PassJobCheck \/ HaltAtJobCheck \/ NoMoreJobs
  BY <1>1 DEF EnterJobCheck, PassJobCheck, HaltAtJobCheck, NoMoreJobs
<1>2. CASE StartJob
  BY <1>2 DEF StartJob, NoTotals
<1>3. CASE SchemaFails
  BY <1>3 DEF SchemaFails
<1>4. CASE EndJob
  <2>1. stage = "tables" /\ stage' # "tables" /\ schemaErrs' = schemaErrs
        /\ sum'.rows = sum.rows + totals.rows /\ sum'.failed = sum.failed + totals.failed
    BY <1>4 DEF EndJob, Sums
  <2> QED
    BY <2>1
<1> QED
  BY <1>1, <1>2, <1>3, <1>4 DEF MainStep

(* transfer:done agrees with the table_done events before it: it counts    *)
(* the tables and schemas that failed and the rows of the tables that did  *)
(* not, for any workers, jobs and tables, wherever errors and stops cut in.*)
THEOREM AccountsAreExact == Spec => []AccountsAgree
<1>1. Init => RowsInv /\ FailuresInv
  <2> SUFFICES ASSUME Init PROVE RowsInv /\ FailuresInv
    OBVIOUS
  <2>1. Ended("ok") = {} /\ Ended("error") = {}
    BY DEF Init, Ended
  <2>2. SumFunctionOnSet(landed, {}) = 0 /\ Cardinality({}) = 0
    BY FS_EmptySet, SumOfZeros
  <2> QED
    BY <2>1, <2>2 DEF Init, NoTotals, RowsInv, FailuresInv, Pending
<1>2. QueueIInv /\ OutcomeInv /\ RowsInv /\ FailuresInv /\ [Next]_vars
        => RowsInv' /\ FailuresInv'
  <2> SUFFICES ASSUME QueueIInv, OutcomeInv, RowsInv, FailuresInv, [Next]_vars
               PROVE  RowsInv' /\ FailuresInv'
    OBVIOUS
  <2>1. CASE \/ UserCommand \/ FinishCommand \/ UNCHANGED vars
             \/ \E t \in Tasks : CheckStep(t)
    BY <2>1, ControlStepFrame DEF RowsInv, FailuresInv, Pending, Ended
  <2>2. CASE MainStep
    BY <2>2, MainAccounts DEF QueueIInv
  <2>3. ASSUME NEW t \in Tasks, TableStep(t) PROVE RowsInv' /\ FailuresInv'
    BY <2>3, TableAccounts DEF OutcomeInv
  <2> QED
    BY <2>1, <2>2, <2>3 DEF Next, Finished
<1>3. QueueIInv /\ OutcomeInv /\ RowsInv /\ FailuresInv => AccountsAgree
  BY DEF QueueIInv, TypeOK, OutcomeInv, FailInv, RowsInv, FailuresInv, Pending, AccountsAgree
<1> QED
  BY <1>1, <1>2, <1>3, QueueInvariant, OutcomeInvariant, PTL DEF Spec
=============================================================================
