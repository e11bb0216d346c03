---------------------------- MODULE McpJobsProofs ----------------------------
(***************************************************************************)
(* Proofs about McpJobs, for every number of transfers, borrowers, queries *)
(* and every size of the history, and about QueryRun, for any requests,    *)
(* scripts and pool.  The two share no variable.                           *)
(***************************************************************************)
EXTENDS McpJobs, QueryRun, TLAPS

(* A run that was told to stop finds its own control stopped.              *)
ToldAreStopped == \A o \in told : ControlOf(o) \in stops

(* It is running, or a job's transfer that will.                           *)
ToldAreRunning ==
  \A o \in told :
    \/ place[o] \in {"check", "work"}
    \/ place[o] = "fresh" /\ o \in Transfers /\ ~OfWindow(o)

(* A job is in the history for a call, and one that is past its task does  *)
(* not run any more.                                                       *)
JobsKeepTheirRun ==
  /\ \A j \in listed : call[j] # "none"
  /\ \A t \in Transfers : sup[t] \notin {"none", "await"} => place[t] = "idle"

(* What is told to stop is told through its own control.                   *)
StopInv == ToldAreStopped /\ ToldAreRunning /\ JobsKeepTheirRun

(* A supervisor belongs to a call that got as far as to spawn it, has      *)
(* taken the run out of the registry before it finishes the job, and is    *)
(* the only one to finish it.                                              *)
SupervisorInv ==
  /\ \A j \in Jobs : sup[j] # "none" => call[j] = "supervised"
  /\ \A j \in Jobs : sup[j] \in {"finish", "notify", "ended"} => j \notin runs
  /\ \A j \in final : sup[j] \in {"notify", "ended"}

(* Only a transfer is in the registry of runs, and no query is.            *)
LEMMA QueriesAreNoTransfers == Queries \cap Transfers = {}
BY JobsAssumption DEF Ops

-----------------------------------------------------------------------------
(* The types hold at the start.                                            *)
LEMMA InitType == Init => TypeOK
<1> SUFFICES ASSUME Init PROVE TypeOK
  OBVIOUS
<1> USE DEF Init
<1>1. RegistryTypeOK
  BY RegistryAssumption DEF RegistryInit, RegistryTypeOK, Places
<1>2. /\ listed \subseteq Jobs /\ final \subseteq Jobs /\ handles \subseteq Jobs
      /\ notified \subseteq Jobs /\ aborting \subseteq Queries
  OBVIOUS
<1>3. /\ call \in [Jobs -> Calls]
      /\ sup \in [Jobs -> Supervisors]
      /\ wait \in [Jobs -> WaitPoints]
  BY DEF Calls, Supervisors, WaitPoints
<1>4. query \in [Queries -> {"none", "running", "over"}]
  OBVIOUS
<1> QED
  BY <1>1, <1>2, <1>3, <1>4 DEF TypeOK

(* Starts and ends of operations, and their work, keep the types of the    *)
(* registry.                                                               *)
LEMMA OperationType ==
  ASSUME RegistryTypeOK,
         \/ \E o \in Ops : Start(o) \/ NotOpen(o) \/ Run(o)
         \/ \E t \in Transfers : RegisterRun(t) \/ Unregister(t)
         \/ \E b \in Borrowers : ResetShared(b)
  PROVE  RegistryTypeOK'
<1> USE DEF RegistryTypeOK, Places, Ops, MoveOn, Begin
<1>1. CASE \E o \in Ops : Start(o) \/ NotOpen(o)
  BY <1>1 DEF Start, NotOpen
<1>2. CASE \E t \in Transfers : RegisterRun(t)
  BY <1>2 DEF RegisterRun
<1>3. CASE \E t \in Transfers : Unregister(t)
  <2>1. PICK t \in Transfers : Unregister(t)
    BY <1>3
  <2>2. leaving[t] \in 0..MaxLeaving /\ leaving[t] - 1 \in 0..MaxLeaving
    BY <2>1, RegistryAssumption DEF Unregister
  <2> QED
    BY <2>1, <2>2 DEF Unregister
<1>4. CASE \E b \in Borrowers : ResetShared(b)
  BY <1>4 DEF ResetShared
<1>5. CASE \E o \in Ops : Run(o)
  <2>1. PICK o \in Ops : Run(o)
    BY <1>5
  <2>2. CASE End(o)
    <3>1. ASSUME NEW t \in Transfers, t = o PROVE leaving[t] + 1 \in 0..MaxLeaving
      BY <2>2, <3>1, RegistryAssumption DEF End
    <3>2. leaving' \in [Transfers -> 0..MaxLeaving]
      BY <2>2, <3>1 DEF End
    <3> QED
      BY <2>1, <2>2, <3>2 DEF End, Run, Check, Work
  <2>3. CASE UNCHANGED <<leaving, told>>
    BY <2>1, <2>3 DEF Run, Check, Work, End
  <2> QED
    BY <2>1, <2>2, <2>3 DEF Run, Check, Work
<1> QED
  BY <1>1, <1>2, <1>3, <1>4, <1>5

(* So does a stop, asked by the window or by a job.                        *)
LEMMA StopType ==
  ASSUME RegistryTypeOK, NEW o \in Ops,
         Stop(o) \/ (\E c \in Controls : RequestStop(c, o))
  PROVE  RegistryTypeOK'
<1>1. ControlFor(o) \in Controls
  BY DEF RegistryTypeOK, ControlFor, Controls
<1> QED
  BY <1>1 DEF RegistryTypeOK, Stop, RequestStop

(* Every step keeps the types of the registry.                             *)
LEMMA RegistryTypeStep == TypeOK /\ [Next]_vars => RegistryTypeOK'
<1> SUFFICES ASSUME RegistryTypeOK, [Next]_vars PROVE RegistryTypeOK'
  BY DEF TypeOK
<1>1. CASE Window
  <2>1. CASE \E o \in Ops : Start(o) \/ NotOpen(o)
    BY <2>1, OperationType
  <2>2. CASE \/ \E t \in Transfers : RegisterRun(t) \/ Unregister(t)
             \/ \E b \in Borrowers : ResetShared(b)
    BY <2>2, OperationType
  <2>3. CASE \E o \in Ops : Stop(o)
    BY <2>3, StopType
  <2> QED
    BY <1>1, <2>1, <2>2, <2>3 DEF Window, Ops
<1>2. CASE \E o \in Ops : Operation(o)
  BY <1>2, OperationType DEF Operation
<1>3. ASSUME NEW j \in Jobs, ToolCall(j) PROVE RegistryTypeOK'
  <2>1. CASE j \in Transfers /\ MakeControl(j)
    BY <2>1 DEF MakeControl, RegistryTypeOK
  <2>2. CASE j \in Transfers /\ CancelTransfer(j)
    <3>1. j \in Ops /\ j \in Controls
      BY <2>2 DEF Ops, Controls
    <3>2. RequestStop(j, j)
      BY <2>2 DEF CancelTransfer
    <3> QED
      BY <3>1, <3>2, StopType
  <2>3. CASE Spawn(j)
    BY <2>3 DEF Spawn, Begin, RegistryTypeOK, Places, Jobs, Ops
  <2>4. CASE \/ j \in Transfers /\ DropCall(j)
             \/ j \in Queries /\ CancelQuery(j)
             \/ List(j) \/ Supervise(j)
    <3>1. UNCHANGED registryVars
      BY <2>4 DEF DropCall, CancelQuery, List, Supervise
    <3> QED
      BY <3>1 DEF registryVars, RegistryTypeOK
  <2> QED
    BY <1>3, <2>1, <2>2, <2>3, <2>4 DEF ToolCall
<1>4. ASSUME NEW j \in Jobs, RemoveRun(j) PROVE RegistryTypeOK'
  <2>1. CASE j \in Transfers
    BY <1>4, <2>1, OperationType DEF RemoveRun
  <2>2. CASE j \notin Transfers
    BY <1>4, <2>2 DEF RemoveRun, registryVars, RegistryTypeOK
  <2> QED
    BY <2>1, <2>2
<1>5. ASSUME UNCHANGED registryVars PROVE RegistryTypeOK'
  BY <1>5 DEF registryVars, RegistryTypeOK
<1>6. ASSUME NEW j \in Jobs,
             \/ TaskJoined(j) \/ Finish(j) \/ Notify(j)
             \/ Poll(j) \/ WaitStep(j) \/ GiveUp(j)
      PROVE  UNCHANGED registryVars
  BY <1>6 DEF TaskJoined, Finish, Notify, Poll, WaitStep, Subscribe, CheckState, Wake,
              GiveUp
<1>7. ASSUME NEW q \in Queries, Task(q) PROVE UNCHANGED registryVars
  BY <1>7 DEF Task, QueryEnds, AbortTakesEffect, QueryOver
<1>8. CASE UNCHANGED vars
  BY <1>5, <1>8 DEF vars
<1> QED
  BY <1>1, <1>2, <1>3, <1>4, <1>5, <1>6, <1>7, <1>8 DEF Next, Supervisor

(* Every step keeps the types of the jobs and of those who wait.           *)
LEMMA JobTypeStep == TypeOK /\ [Next]_vars => TypeOK'
<1> SUFFICES ASSUME TypeOK, [Next]_vars PROVE TypeOK'
  OBVIOUS
<1>1. RegistryTypeOK'
  BY RegistryTypeStep
<1> USE DEF TypeOK
<1>2. CASE Window \/ UNCHANGED vars
  BY <1>1, <1>2 DEF Window, vars, taskVars, jobVars, waitVars
<1>3. ASSUME NEW o \in Ops, Operation(o) PROVE TypeOK'
  BY <1>1, <1>3 DEF Operation, taskVars, jobVars, waitVars
<1>4. ASSUME NEW j \in Jobs, ToolCall(j) PROVE TypeOK'
  <2> USE DEF taskVars, jobVars, waitVars, Calls
  <2>1. CASE j \in Transfers /\ MakeControl(j)
    BY <1>1, <2>1 DEF MakeControl
  <2>2. CASE j \in Transfers /\ DropCall(j)
    BY <1>1, <2>2 DEF DropCall
  <2>3. CASE j \in Transfers /\ CancelTransfer(j)
    BY <1>1, <2>3 DEF CancelTransfer
  <2>4. CASE j \in Queries /\ CancelQuery(j)
    BY <1>1, <2>4 DEF CancelQuery
  <2>5. CASE List(j)
    BY <1>1, <2>5 DEF List
  <2>6. CASE Spawn(j)
    BY <1>1, <2>6 DEF Spawn
  <2>7. CASE Supervise(j)
    BY <1>1, <2>7 DEF Supervise, Supervisors, WaitPoints
  <2> QED
    BY <1>4, <2>1, <2>2, <2>3, <2>4, <2>5, <2>6, <2>7 DEF ToolCall
<1>5. ASSUME NEW j \in Jobs, Supervisor(j) PROVE TypeOK'
  <2> USE DEF taskVars, jobVars, waitVars, Supervisors, SupervisorGoes
  <2>1. CASE TaskJoined(j)
    BY <1>1, <2>1 DEF TaskJoined
  <2>2. CASE RemoveRun(j)
    BY <1>1, <2>2 DEF RemoveRun
  <2>3. CASE Finish(j)
    BY <1>1, <2>3 DEF Finish
  <2>4. CASE Notify(j)
    BY <1>1, <2>4 DEF Notify
  <2> QED
    BY <1>5, <2>1, <2>2, <2>3, <2>4 DEF Supervisor
<1>6. ASSUME NEW j \in Jobs, Poll(j) \/ WaitStep(j) \/ GiveUp(j) PROVE TypeOK'
  <2> USE DEF taskVars, jobVars, waitVars, WaitPoints
  <2>1. CASE Poll(j) \/ Subscribe(j) \/ Wake(j)
    BY <1>1, <2>1 DEF Poll, Subscribe, Wake
  <2>2. CASE CheckState(j) \/ GiveUp(j)
    BY <1>1, <2>2 DEF CheckState, GiveUp, Answer
  <2> QED
    BY <1>6, <2>1, <2>2 DEF WaitStep
<1>7. ASSUME NEW q \in Queries, Task(q) PROVE TypeOK'
  <2>1. QueryOver(q)
    BY <1>7 DEF Task, QueryEnds, AbortTakesEffect
  <2> QED
    BY <1>1, <2>1 DEF QueryOver, jobVars, waitVars
<1> QED
  BY <1>2, <1>3, <1>4, <1>5, <1>6, <1>7 DEF Next

(* Every variable of the jobs and the registry keeps its type, whatever    *)
(* the tool calls, the window and the tasks do.                            *)
THEOREM TypeCorrect == Spec => []TypeOK
<1>1. Init => TypeOK
  BY InitType
<1>2. TypeOK /\ [Next]_vars => TypeOK'
  BY JobTypeStep
<1> QED
  BY <1>1, <1>2, PTL DEF Spec

-----------------------------------------------------------------------------
(* evict_finished takes finished jobs only, so an unfinished one stays.    *)
LEMMA ListedStep ==
  TypeOK /\ UnfinishedAreListed /\ [Next]_vars => UnfinishedAreListed'
<1> SUFFICES ASSUME TypeOK, UnfinishedAreListed, [Next]_vars
             PROVE  UnfinishedAreListed'
  OBVIOUS
<1> USE DEF UnfinishedAreListed
<1>1. ASSUME UNCHANGED <<call, listed>>, final \subseteq final'
      PROVE  UnfinishedAreListed'
  BY <1>1
<1>2. ASSUME NEW j \in Jobs, List(j) PROVE UnfinishedAreListed'
  <2>1. PICK gone \in Evicted(listed \cup {j}) : listed' = (listed \cup {j}) \ gone
    BY <1>2 DEF List
  <2>2. gone \subseteq final
    BY <2>1 DEF Evicted
  <2>3. call' = [call EXCEPT ![j] = "listed"] /\ final' = final
    BY <1>2 DEF List
  <2> QED
    BY <2>1, <2>2, <2>3 DEF TypeOK
<1>3. ASSUME NEW j \in Jobs,
             \/ j \in Transfers /\ (MakeControl(j) \/ DropCall(j))
             \/ Spawn(j) \/ Supervise(j)
      PROVE  UnfinishedAreListed'
  BY <1>3 DEF MakeControl, DropCall, Spawn, Supervise, TypeOK
<1>4. ASSUME NEW j \in Jobs,
             \/ j \in Transfers /\ CancelTransfer(j)
             \/ j \in Queries /\ CancelQuery(j)
             \/ Supervisor(j) \/ Poll(j) \/ WaitStep(j) \/ GiveUp(j)
      PROVE  UNCHANGED <<call, listed>> /\ final \subseteq final'
  BY <1>4 DEF CancelTransfer, CancelQuery, Supervisor, TaskJoined, RemoveRun, Finish,
              Notify, Poll, WaitStep, Subscribe, CheckState, Wake, GiveUp, jobVars
<1>5. CASE \/ Window \/ (\E o \in Ops : Operation(o)) \/ (\E q \in Queries : Task(q))
           \/ UNCHANGED vars
  BY <1>1, <1>5 DEF Window, Operation, Task, QueryEnds, AbortTakesEffect, QueryOver,
                    vars, jobVars
<1>6. CASE \E j \in Jobs : ToolCall(j)
  BY <1>1, <1>2, <1>3, <1>4, <1>6 DEF ToolCall
<1>7. CASE \E j \in Jobs : Supervisor(j) \/ Poll(j) \/ WaitStep(j) \/ GiveUp(j)
  BY <1>1, <1>4, <1>7
<1> QED
  BY <1>5, <1>6, <1>7 DEF Next

(* evict_finished: a job is in the history as long as it is unfinished,    *)
(* whatever the size of the history and however many jobs there are.       *)
THEOREM UnfinishedJobsAreListed == Spec => []UnfinishedAreListed
<1>1. Init => UnfinishedAreListed
  BY DEF Init, UnfinishedAreListed
<1>2. TypeOK /\ UnfinishedAreListed /\ [Next]_vars => UnfinishedAreListed'
  BY ListedStep
<1> QED
  BY <1>1, <1>2, TypeCorrect, PTL DEF Spec

-----------------------------------------------------------------------------
(* The supervisor removes the run, finishes the job and notifies, in that  *)
(* order, and nobody puts the run back: its id was used by the call.       *)
LEMMA SupervisorStep == TypeOK /\ SupervisorInv /\ [Next]_vars => SupervisorInv'
<1> SUFFICES ASSUME TypeOK, SupervisorInv, [Next]_vars PROVE SupervisorInv'
  OBVIOUS
<1>1. ASSUME UNCHANGED <<call, sup, final>>, runs' \subseteq runs PROVE SupervisorInv'
  BY <1>1 DEF SupervisorInv
<1>2. CASE Window
  <2>1. ASSUME NEW t \in Transfers, OfWindow(t), RegisterRun(t)
        PROVE  SupervisorInv'
    <3>1. t \in Jobs /\ sup[t] = "none"
      BY <2>1 DEF Jobs, OfWindow, SupervisorInv
    <3>2. UNCHANGED <<call, sup, final>> /\ runs' = runs \cup {t}
      BY <1>2, <2>1 DEF Window, jobVars, RegisterRun
    <3> QED
      BY <3>1, <3>2 DEF SupervisorInv
  <2>2. ASSUME NEW t \in Transfers, Unregister(t) PROVE SupervisorInv'
    BY <1>1, <1>2, <2>2 DEF Window, jobVars, Unregister
  <2>3. ASSUME NEW o, Start(o) \/ NotOpen(o) \/ Stop(o) PROVE SupervisorInv'
    BY <1>1, <1>2, <2>3 DEF Window, jobVars, Start, NotOpen, Stop, RequestStop
  <2>4. ASSUME NEW b \in Borrowers, ResetShared(b) PROVE SupervisorInv'
    BY <1>1, <1>2, <2>4 DEF Window, jobVars, ResetShared
  <2> QED
    BY <1>2, <2>1, <2>2, <2>3, <2>4 DEF Window
<1>3. ASSUME NEW j \in Jobs, ToolCall(j) PROVE SupervisorInv'
  <2>1. CASE j \in Transfers /\ MakeControl(j)
    BY <2>1 DEF MakeControl, SupervisorInv, TypeOK
  <2>2. CASE \/ j \in Transfers /\ DropCall(j)
             \/ List(j) \/ Spawn(j)
    <3>1. /\ call[j] # "supervised"
          /\ UNCHANGED <<runs, sup, final>>
          /\ \A i \in Jobs : i # j => call'[i] = call[i]
      BY <2>2 DEF DropCall, List, Spawn, registryVars, TypeOK
    <3> QED
      BY <3>1 DEF SupervisorInv
  <2>3. CASE Supervise(j)
    <3>1. sup[j] = "none"
      BY <2>3 DEF Supervise, SupervisorInv
    <3>2. UNCHANGED <<runs, final>>
      BY <2>3 DEF Supervise, registryVars
    <3> QED
      BY <2>3, <3>1, <3>2 DEF Supervise, SupervisorInv, TypeOK
  <2>4. CASE \/ j \in Transfers /\ CancelTransfer(j)
             \/ j \in Queries /\ CancelQuery(j)
    BY <1>1, <2>4 DEF CancelTransfer, RequestStop, CancelQuery, registryVars, jobVars
  <2> QED
    BY <1>3, <2>1, <2>2, <2>3, <2>4 DEF ToolCall
<1>4. ASSUME NEW j \in Jobs, Supervisor(j) PROVE SupervisorInv'
  <2> USE DEF SupervisorGoes, SupervisorInv, TypeOK
  <2>1. CASE TaskJoined(j)
    BY <2>1 DEF TaskJoined, registryVars
  <2>2. CASE RemoveRun(j)
    <3>1. runs' = runs \ {j}
      BY <2>2 DEF RemoveRun, Unregister, registryVars, RegistryTypeOK
    <3> QED
      BY <2>2, <3>1 DEF RemoveRun
  <2>3. CASE Finish(j)
    BY <2>3 DEF Finish, registryVars
  <2>4. CASE Notify(j)
    BY <2>4 DEF Notify, registryVars
  <2> QED
    BY <1>4, <2>1, <2>2, <2>3, <2>4 DEF Supervisor
<1>5. CASE \/ \E o \in Ops : Operation(o)
           \/ \E j \in Jobs : Poll(j) \/ WaitStep(j) \/ GiveUp(j)
           \/ \E q \in Queries : Task(q)
           \/ UNCHANGED vars
  BY <1>1, <1>5 DEF Operation, Run, Check, Work, Poll, WaitStep, Subscribe, CheckState,
    Wake, GiveUp, Task, QueryEnds, AbortTakesEffect, QueryOver, vars, jobVars,
    registryVars
<1> QED
  BY <1>2, <1>3, <1>4, <1>5 DEF Next

(* The supervisor's order: a job that is reported finished has left the    *)
(* registry of runs.                                                       *)
THEOREM FinishedJobsLeaveTheRegistry == Spec => []FinishedLeaveTheRegistry
<1>1. Init => SupervisorInv
  BY DEF Init, SupervisorInv
<1>2. TypeOK /\ SupervisorInv /\ [Next]_vars => SupervisorInv'
  BY SupervisorStep
<1>3. SupervisorInv => FinishedLeaveTheRegistry
  BY DEF SupervisorInv, FinishedLeaveTheRegistry, Jobs
<1> QED
  BY <1>1, <1>2, <1>3, TypeCorrect, PTL DEF Spec

-----------------------------------------------------------------------------
(* control_for: what has not lost its entry is found under its run id, and *)
(* a borrower has none.                                                    *)
LEMMA ControlIsFound ==
  ASSUME TypeOK, NEW o \in Ops, ~OutOfReach(o)
  PROVE  ControlFor(o) = ControlOf(o)
<1>1. CASE o \in Borrowers
  BY <1>1, RegistryAssumption DEF TypeOK, RegistryTypeOK, ControlFor, ControlOf
<1>2. CASE o \in Transfers
  BY <1>2 DEF OutOfReach, ControlFor, ControlOf
<1> QED
  BY <1>1, <1>2 DEF Ops

(* A stop asked of an operation by its window or its job lands on the      *)
(* control the operation checks, if the operation is within reach.         *)
LEMMA RequestKeepsStopInv ==
  ASSUME TypeOK, StopInv, NEW o \in Ops, NEW c, OutOfReach(o) \/ c = ControlOf(o),
         place[o] # "fresh" \/ (o \in Transfers /\ ~OfWindow(o)),
         RequestStop(c, o), UNCHANGED <<call, listed, sup>>
  PROVE  StopInv'
<1> USE DEF StopInv, OfWindow
<1>1. /\ stops \subseteq stops' /\ c \in stops' /\ place' = place
      /\ told' = told \/ (~OutOfReach(o) /\ told' = told \cup {o})
  BY DEF RequestStop
<1>2. ToldAreStopped'
  BY <1>1 DEF ToldAreStopped, ControlOf
<1>3. ~OutOfReach(o) => place[o] \in {"fresh", "check", "work"}
  BY DEF OutOfReach, TypeOK, RegistryTypeOK, Places
<1>4. ToldAreRunning'
  BY <1>1, <1>3 DEF ToldAreRunning
<1> QED
  BY <1>1, <1>2, <1>4 DEF JobsKeepTheirRun

(* Operations start, work and end without losing a stop they were told.    *)
LEMMA OperationKeepsStopInv ==
  ASSUME TypeOK, SupervisorInv, StopInv, UNCHANGED <<call, listed, sup>>,
         \/ \E t \in Transfers : OfWindow(t) /\ (Start(t) \/ NotOpen(t) \/ RegisterRun(t))
         \/ \E t \in Transfers : OfWindow(t) /\ Unregister(t)
         \/ \E b \in Borrowers : Start(b) \/ NotOpen(b) \/ ResetShared(b)
         \/ \E o \in Ops : Run(o)
  PROVE  StopInv'
<1> USE DEF StopInv, ToldAreStopped, ToldAreRunning, OfWindow
<1>1. ASSUME NEW o \in Ops, place[o] \notin {"check", "work"},
             o \in Transfers => OfWindow(o)
      PROVE  o \notin told
  BY <1>1, RegistryAssumption DEF Ops
<1>2. ASSUME NEW o \in Ops, NEW v, place' = [place EXCEPT ![o] = v],
             o \in Transfers => OfWindow(o)
      PROVE  JobsKeepTheirRun'
  BY <1>2 DEF JobsKeepTheirRun, SupervisorInv, Jobs, TypeOK, RegistryTypeOK, Supervisors
<1>3. ASSUME NEW o \in Ops, o \in Transfers => OfWindow(o),
             Start(o) \/ NotOpen(o) \/ (o \in Transfers /\ RegisterRun(o))
      PROVE  StopInv'
  <2>1. PICK v \in Places : place' = [place EXCEPT ![o] = v]
    BY <1>3 DEF Start, NotOpen, RegisterRun, MoveOn, Places
  <2>2. told' = told /\ o \notin told
    BY <1>1, <1>3 DEF Start, NotOpen, RegisterRun, MoveOn
  <2>3. told \subseteq Ops /\ Shared \notin Transfers
    BY RegistryAssumption DEF TypeOK, RegistryTypeOK
  <2>4. stops \ {o} \subseteq stops'
    BY <1>3 DEF Start, NotOpen, RegisterRun
  <2>5. ToldAreRunning'
    BY <2>1, <2>2, <2>3 DEF TypeOK, RegistryTypeOK
  <2>6. ToldAreStopped'
    <3>1. \A p \in told : ControlOf(p) # o \/ stops' = stops
      BY <1>3, <2>2, <2>3 DEF ControlOf, Start, NotOpen, RegisterRun
    <3> QED
      BY <2>2, <2>4, <3>1 DEF ControlOf
  <2> QED
    BY <1>2, <1>3, <2>1, <2>5, <2>6
<1>4. ASSUME NEW t \in Transfers, Unregister(t), OfWindow(t) PROVE StopInv'
  <2>1. place[t] \in {"check", "work"} \/ t \notin told
    BY <1>1, <1>4 DEF Ops
  <2>2. UNCHANGED <<place, told>>
    BY <1>4 DEF Unregister
  <2>3. ToldAreStopped'
    BY <1>4, <2>1, <2>2, RegistryAssumption DEF Unregister, ControlOf
  <2> QED
    BY <2>2, <2>3 DEF JobsKeepTheirRun
<1>5. ASSUME NEW b \in Borrowers, ResetShared(b) PROVE StopInv'
  <2>1. b \in Ops /\ b \notin Transfers
    BY RegistryAssumption DEF Ops
  <2>2. told' \subseteq Transfers /\ told' \subseteq told
    BY <1>5 DEF ResetShared, TypeOK, RegistryTypeOK, Ops
  <2>3. \A o \in told' : ControlOf(o) \in stops /\ ControlOf(o) # Shared
    BY <2>2, RegistryAssumption DEF ControlOf
  <2>4. ToldAreStopped'
    BY <1>5, <2>3 DEF ResetShared, ControlOf
  <2>5. ToldAreRunning'
    BY <1>5, <2>1, <2>2 DEF ResetShared, MoveOn, TypeOK, RegistryTypeOK
  <2>6. JobsKeepTheirRun'
    BY <1>2, <1>5, <2>1 DEF ResetShared, MoveOn
  <2> QED
    BY <2>4, <2>5, <2>6
<1>6. ASSUME NEW o \in Ops, Run(o) PROVE StopInv'
  <2>1. told' \subseteq told /\ UNCHANGED stops /\ place[o] \in {"check", "work"}
    BY <1>6 DEF Run, Check, Work, End
  <2>2. PICK v : place' = [place EXCEPT ![o] = v] /\ (v \in {"check", "work"} \/ o \notin told')
    BY <1>6 DEF Run, Check, Work, End, Begin
  <2>3. ToldAreStopped'
    BY <2>1 DEF ControlOf
  <2>4. ToldAreRunning'
    BY <2>1, <2>2 DEF TypeOK, RegistryTypeOK
  <2>5. JobsKeepTheirRun'
    <3>1. \A t \in Transfers : sup[t] \notin {"none", "await"} => place'[t] = "idle"
      BY <2>1, <2>2 DEF JobsKeepTheirRun, TypeOK, RegistryTypeOK, Ops
    <3> QED
      BY <3>1 DEF JobsKeepTheirRun
  <2> QED
    BY <2>3, <2>4, <2>5
<1>7. \A b \in Borrowers : b \in Ops /\ b \notin Transfers
  BY RegistryAssumption DEF Ops
<1> QED
  BY <1>3, <1>4, <1>5, <1>6, <1>7 DEF Ops

(* So do the steps of a tool call.                                         *)
LEMMA ToolCallKeepsStopInv ==
  ASSUME TypeOK, SupervisorInv, StopInv, NEW j \in Jobs, ToolCall(j)
  PROVE  StopInv'
<1> USE DEF StopInv, ToldAreStopped, ToldAreRunning, JobsKeepTheirRun, OfWindow
<1>1. CASE j \in Transfers /\ CancelTransfer(j)
  <2>1. /\ j \in Ops /\ j = ControlOf(j) /\ ~OfWindow(j)
        /\ RequestStop(j, j) /\ UNCHANGED <<call, listed, sup>>
    BY <1>1 DEF CancelTransfer, jobVars, Ops, ControlOf
  <2> QED
    BY <1>1, <2>1, RequestKeepsStopInv
<1>2. CASE j \in Queries /\ CancelQuery(j)
  BY <1>2 DEF CancelQuery, registryVars, ControlOf
<1>3. CASE j \in Transfers /\ (MakeControl(j) \/ DropCall(j))
  <2>1. /\ UNCHANGED <<stops, told, place, listed, sup>>
        /\ \A i \in Jobs : call[i] # "none" => call'[i] # "none"
        /\ listed \subseteq Jobs
    BY <1>3 DEF MakeControl, DropCall, registryVars, TypeOK
  <2> QED
    BY <2>1 DEF ControlOf, Jobs
<1>4. CASE List(j) \/ Supervise(j)
  <2>1. /\ UNCHANGED <<stops, told, place>>
        /\ \A i \in Jobs : call[i] # "none" => call'[i] # "none"
        /\ call'[j] # "none" /\ listed' \subseteq listed \cup {j}
        /\ listed \subseteq Jobs
    BY <1>4 DEF List, Supervise, Evicted, registryVars, TypeOK
  <2>2. \A i \in Jobs : sup'[i] = sup[i] \/ sup'[i] = "await"
    BY <1>4 DEF List, Supervise, TypeOK
  <2>3. ToldAreStopped' /\ ToldAreRunning'
    BY <2>1 DEF ControlOf, Jobs
  <2>4. JobsKeepTheirRun'
    BY <2>1, <2>2 DEF Jobs
  <2> QED
    BY <2>3, <2>4
<1>5. CASE Spawn(j)
  <2>1. /\ UNCHANGED <<stops, told, listed, sup>>
        /\ \A i \in Jobs : call[i] # "none" => call'[i] # "none"
        /\ listed \subseteq Jobs /\ sup[j] = "none"
    BY <1>5 DEF Spawn, TypeOK, SupervisorInv
  <2>2. place' = place \/ (j \in Transfers /\ place' = [place EXCEPT ![j] = "check"])
    BY <1>5, QueriesAreNoTransfers DEF Spawn, Begin, Jobs
  <2>3. ToldAreRunning'
    BY <2>1, <2>2 DEF TypeOK, RegistryTypeOK, Ops, Jobs
  <2>4. JobsKeepTheirRun'
    BY <2>1, <2>2 DEF TypeOK, RegistryTypeOK, Ops
  <2> QED
    BY <2>1, <2>3, <2>4 DEF ControlOf
<1> QED
  BY <1>1, <1>2, <1>3, <1>4, <1>5 DEF ToolCall

(* So does the supervisor: the control it takes away is of a run that is   *)
(* over.                                                                   *)
LEMMA SupervisorKeepsStopInv ==
  ASSUME TypeOK, SupervisorInv, StopInv, NEW j \in Jobs, Supervisor(j)
  PROVE  StopInv'
<1> USE DEF StopInv, ToldAreStopped, ToldAreRunning, JobsKeepTheirRun, OfWindow, SupervisorGoes
<1>1. CASE TaskJoined(j)
  BY <1>1, QueriesAreNoTransfers
    DEF TaskJoined, TaskOver, registryVars, ControlOf, TypeOK, Jobs
<1>2. CASE RemoveRun(j)
  <2>1. UNCHANGED <<call, listed, place, told>>
    BY <1>2 DEF RemoveRun, Unregister, registryVars
  <2>2. j \in Transfers => j \notin told
    BY <1>2 DEF RemoveRun
  <2>3. stops \ {j} \subseteq stops' /\ (j \notin Transfers => stops' = stops)
    BY <1>2 DEF RemoveRun, Unregister, registryVars
  <2>4. ToldAreStopped'
    BY <2>1, <2>2, <2>3, RegistryAssumption DEF ControlOf
  <2>5. JobsKeepTheirRun'
    BY <1>2, <2>1 DEF RemoveRun, TypeOK, Jobs
  <2> QED
    BY <2>1, <2>4, <2>5
<1>3. CASE Finish(j) \/ Notify(j)
  BY <1>3 DEF Finish, Notify, registryVars, ControlOf, TypeOK, Jobs
<1> QED
  BY <1>1, <1>2, <1>3 DEF Supervisor

(* Every step leaves the stop where the operation looks for it.            *)
LEMMA StopStep == TypeOK /\ SupervisorInv /\ StopInv /\ [Next]_vars => StopInv'
<1> SUFFICES ASSUME TypeOK, SupervisorInv, StopInv, [Next]_vars PROVE StopInv'
  OBVIOUS
<1>1. CASE Window
  <2>1. UNCHANGED <<call, listed, sup>>
    BY <1>1 DEF Window, jobVars
  <2>2. ASSUME NEW o \in Ops, Stop(o) PROVE StopInv'
    BY <2>1, <2>2, ControlIsFound, RequestKeepsStopInv DEF Stop
  <2> QED
    BY <1>1, <2>1, <2>2, OperationKeepsStopInv DEF Window, Ops
<1>2. CASE \E o \in Ops : Operation(o)
  BY <1>2, OperationKeepsStopInv DEF Operation, jobVars
<1>3. CASE \E j \in Jobs : ToolCall(j) \/ Supervisor(j)
  BY <1>3, ToolCallKeepsStopInv, SupervisorKeepsStopInv
<1>4. CASE \/ \E j \in Jobs : Poll(j) \/ WaitStep(j) \/ GiveUp(j)
           \/ \E q \in Queries : Task(q)
           \/ UNCHANGED vars
  <2>1. UNCHANGED <<registryVars, listed, call, sup>>
    BY <1>4 DEF Poll, WaitStep, Subscribe, CheckState, Wake, GiveUp, Task,
      QueryEnds, AbortTakesEffect, QueryOver, vars, jobVars
  <2> QED
    BY <2>1 DEF registryVars, StopInv, ToldAreStopped, ToldAreRunning, JobsKeepTheirRun,
                OfWindow, ControlOf
<1> QED
  BY <1>1, <1>2, <1>3, <1>4 DEF Next

(* Only check() lets an operation begin a piece of work, and it lets none  *)
(* begin one whose control is stopped.                                     *)
LEMMA NoPieceAfterStop ==
  TypeOK /\ StopInv /\ [Next]_vars =>
    [\A o \in told : place[o] = "check" => place'[o] # "work"]_registryVars
<1> SUFFICES ASSUME TypeOK, StopInv, [Next]_vars,
                    NEW o \in told, place[o] = "check"
             PROVE  place'[o] # "work"
  OBVIOUS
<1>1. o \in Ops /\ ControlOf(o) \in stops
  BY DEF TypeOK, RegistryTypeOK, StopInv, ToldAreStopped
<1>2. ASSUME NEW p \in Ops, Run(p) PROVE place'[o] # "work"
  BY <1>1, <1>2 DEF Run, Check, Work, Begin, End, TypeOK, RegistryTypeOK
<1>3. ASSUME NEW p \in Ops, NEW v \in {"called", "idle", "check"},
             place' = [place EXCEPT ![p] = v] \/ place' = place
      PROVE  place'[o] # "work"
  BY <1>1, <1>3 DEF TypeOK, RegistryTypeOK
<1>4. CASE Window
  <2>1. ASSUME NEW p \in Ops, Start(p) \/ NotOpen(p) \/ Stop(p) PROVE place'[o] # "work"
    BY <1>3, <2>1 DEF Start, NotOpen, MoveOn, Stop, RequestStop
  <2>2. ASSUME NEW p \in Ops, RegisterRun(p) \/ Unregister(p) \/ ResetShared(p)
        PROVE  place'[o] # "work"
    BY <1>3, <2>2 DEF RegisterRun, Unregister, ResetShared, MoveOn
  <2> QED
    BY <1>4, <2>1, <2>2 DEF Window, Ops
<1>5. CASE \E p \in Ops : Operation(p)
  BY <1>2, <1>5 DEF Operation
<1>6. ASSUME NEW j \in Jobs, ToolCall(j) PROVE place'[o] # "work"
  <2>1. CASE Spawn(j)
    BY <1>3, <2>1 DEF Spawn, Begin, Jobs, Ops
  <2>2. CASE \/ j \in Transfers /\ (MakeControl(j) \/ DropCall(j) \/ CancelTransfer(j))
             \/ j \in Queries /\ CancelQuery(j)
             \/ List(j) \/ Supervise(j)
    BY <2>2 DEF MakeControl, DropCall, CancelTransfer, RequestStop, CancelQuery, List,
                Supervise, registryVars
  <2> QED
    BY <1>6, <2>1, <2>2 DEF ToolCall
<1>7. CASE \/ \E j \in Jobs : Supervisor(j) \/ Poll(j) \/ WaitStep(j) \/ GiveUp(j)
           \/ \E q \in Queries : Task(q)
           \/ UNCHANGED vars
  BY <1>7 DEF Supervisor, TaskJoined, RemoveRun, Unregister, Finish, Notify, Poll, WaitStep,
    Subscribe, CheckState, Wake, GiveUp, Task, QueryEnds, AbortTakesEffect, QueryOver,
    vars, registryVars
<1> QED
  BY <1>4, <1>5, <1>6, <1>7 DEF Next

(* data_transfer_stop and job_cancel: whoever is told to stop while it     *)
(* runs and has its entry begins no further piece of work, unless another  *)
(* borrower's start resets the shared control first.                       *)
THEOREM StopIsObeyed == Spec => StopReachesItsRun
<1>1. Init => StopInv
  BY DEF Init, RegistryInit, StopInv, ToldAreStopped, ToldAreRunning, JobsKeepTheirRun, Jobs
<1>2. Init => SupervisorInv
  BY DEF Init, SupervisorInv
<1>3. TypeOK /\ SupervisorInv /\ [Next]_vars => SupervisorInv'
  BY SupervisorStep
<1>4. TypeOK /\ SupervisorInv /\ StopInv /\ [Next]_vars => StopInv'
  BY StopStep
<1>5. TypeOK /\ StopInv /\ [Next]_vars =>
        [\A o \in told : place[o] = "check" => place'[o] # "work"]_registryVars
  BY NoPieceAfterStop
<1> QED
  BY <1>1, <1>2, <1>3, <1>4, <1>5, TypeCorrect, PTL DEF Spec, StopReachesItsRun

-----------------------------------------------------------------------------
(* QueryRun: requests, watchers and KILL commands.                         *)

(* A connection serves one statement; only named requests have watchers,   *)
(* and what a watcher has to kill is the connection of its own statement,  *)
(* which runs as long as the watcher is not aborted.                       *)
OwnInv ==
  /\ \A r \in Requests :
        /\ watcher[r] # "none" => r \in Named
        /\ pc[r] \in {"sent", "running"} => conn[r] # None
        /\ found[r] # {} => pc[r] = "running" /\ found[r] = {conn[r]}
  /\ \A r, s \in Requests : conn[r] = conn[s] /\ conn[r] # None => r = s

(* A KILL is for a statement that has begun, and for the connection where  *)
(* that statement runs unless it has ended.                                *)
KillInv ==
  \A k \in kills :
     /\ k.stmt <= at[k.req]
     /\ at[k.req] = k.stmt =>
          \/ pc[k.req] \in {"next", "return", "done"}
          \/ pc[k.req] = "running" /\ conn[k.req] = k.conn

QueryInv == QueryTypeOK /\ OwnInv /\ KillInv

(* All of it holds at the start.                                           *)
LEMMA QueryInitInv == QueryInit => QueryInv
<1> SUFFICES ASSUME QueryInit PROVE QueryInv
  OBVIOUS
<1>1. \A r \in Requests : Length[r] \in Nat
  BY QueryAssumption
<1>2. /\ at \in [Requests -> Nat]
      /\ \A r \in Requests : at[r] <= Length[r]
  BY <1>1 DEF QueryInit
<1>3. QueryTypeOK
  BY <1>2 DEF QueryInit, QueryTypeOK, Points, WatchPoints
<1> QED
  BY <1>3 DEF QueryInit, QueryInv, OwnInv, KillInv

(* The steps of query_run.                                                 *)
Runs(r) ==
  Call(r) \/ Ready(r) \/ Succeed(r) \/ Fail(r) \/ QueryCancel(r)

(* A step of query_run keeps the types.                                    *)
LEMMA RunType == ASSUME QueryTypeOK, NEW r \in Requests, Runs(r) PROVE QueryTypeOK'
<1> USE DEF watchVars, serverVars
<1>1. pc' \in [Requests -> Points]
  BY DEF QueryTypeOK, Points, Goes, Runs, Ready, Call, Register, NextStatement, Acquire,
    AcquireTimeout, Break, Arrive, Return, Succeed, Fail, QueryCancel
<1> USE <1>1 DEF QueryTypeOK
<1>2. CASE Call(r) \/ Register(r) \/ Arrive(r) \/ Return(r) \/ QueryCancel(r)
  <2>1. registered' \subseteq Named /\ flag' \subseteq Named
    BY <1>2 DEF Call, Register, Arrive, Return, QueryCancel
  <2> QED
    BY <1>2, <2>1 DEF Call, Register, Arrive, Return, QueryCancel
<1>3. CASE NextStatement(r)
  <2>1. /\ at' \in [Requests -> Nat]
        /\ \A s \in Requests : at'[s] <= Length[s]
    <3>1. /\ at[r] \in Nat /\ Length[r] \in Nat
          /\ at[r] < Length[r]
          /\ at' = [at EXCEPT ![r] = at[r] + 1]
      BY <1>3, QueryAssumption DEF NextStatement
    <3>2. at' \in [Requests -> Nat] /\ at'[r] <= Length[r]
      BY <3>1
    <3>3. \A s \in Requests : s # r => at'[s] = at[s]
      BY <3>1
    <3> QED
      BY <3>2, <3>3
  <2>2. watcher' \in [Requests -> WatchPoints]
    BY <1>3 DEF NextStatement, WatchFrom, WatchPoints
  <2> QED
    BY <1>3, <2>1, <2>2 DEF NextStatement
<1>4. CASE Acquire(r)
  BY <1>4 DEF Acquire, Free
<1>5. CASE Succeed(r) \/ Fail(r) \/ AcquireTimeout(r)
  <2>1. Ends(r)
    BY <1>5 DEF Succeed, Fail, AcquireTimeout, Break
  <2>2. watcher' \in [Requests -> WatchPoints]
    BY <2>1 DEF Ends, WatchPoints
  <2> QED
    BY <2>1, <2>2 DEF Ends
<1> QED
  BY <1>2, <1>3, <1>4, <1>5 DEF Runs, Ready

(* A step of a watcher keeps the types.                                    *)
LEMMA WatcherType ==
  ASSUME QueryTypeOK, OwnInv, NEW r \in Requests, Watcher(r) PROVE QueryTypeOK'
<1> USE DEF runVars, serverVars
<1>1. watcher' \in [Requests -> WatchPoints]
  BY DEF QueryTypeOK, WatchPoints, Watches, Watcher, Notice, WakeWatcher, AcquireSide,
    SideTimeout, Lookup, SendKill, KillTimeout
<1>2. r \in Named
  BY DEF QueryTypeOK, OwnInv, Watches, Watcher, Notice, WakeWatcher, AcquireSide,
    SideTimeout, Lookup, SendKill, KillTimeout
<1> USE <1>1, <1>2 DEF QueryTypeOK
<1>3. CASE Notice(r) \/ WakeWatcher(r)
  BY <1>3 DEF Notice, WakeWatcher
<1>4. CASE AcquireSide(r) \/ SideTimeout(r)
  BY <1>4 DEF AcquireSide, SideTimeout, Miss, Free
<1>5. CASE Lookup(r)
  <2>1. Matches(r) \subseteq Conns
    BY DEF Matches, OwnInv
  <2> QED
    BY <1>5, <2>1 DEF Lookup, Miss
<1>6. CASE SendKill(r)
  <2>1. PICK c \in found[r], p \in Free :
          /\ kills' = kills \cup {[req |-> r, stmt |-> at[r], conn |-> c]}
          /\ side' = [side EXCEPT ![r] = p]
          /\ found' = [found EXCEPT ![r] = @ \ {c}]
    BY <1>6 DEF SendKill
  <2>2. [req |-> r, stmt |-> at[r], conn |-> c] \in KillCommands
    BY DEF KillCommands
  <2> QED
    BY <1>6, <2>1, <2>2 DEF SendKill, Free
<1>7. CASE KillTimeout(r)
  BY <1>7 DEF KillTimeout, Miss
<1> QED
  BY <1>3, <1>4, <1>5, <1>6, <1>7 DEF Watcher

(* A KILL that reaches the server keeps the types.                         *)
LEMMA KillType ==
  ASSUME QueryTypeOK, NEW k \in kills, Deliver(k) \/ Refuse(k) PROVE QueryTypeOK'
<1>1. k.req \in Named /\ Named \subseteq Requests
  BY DEF QueryTypeOK, KillCommands, Named
<1>2. /\ watcher' \in [Requests -> WatchPoints]
      /\ side' \in [Requests -> Conns \cup {None}]
  BY <1>1 DEF Deliver, Refuse, KillReturns, QueryTypeOK, WatchPoints
<1> QED
  BY <1>1, <1>2 DEF Deliver, Refuse, QueryTypeOK, runVars

(* A step of query_run keeps each connection to one statement.             *)
LEMMA RunOwn ==
  ASSUME QueryTypeOK, OwnInv, NEW r \in Requests, Runs(r) PROVE OwnInv'
<1> USE DEF watchVars, serverVars, OwnInv, QueryTypeOK, Goes
<1>1. CASE Call(r) \/ Register(r) \/ QueryCancel(r)
  BY <1>1 DEF Call, Register, QueryCancel
<1>2. CASE Arrive(r)
  BY <1>2 DEF Arrive
<1>3. CASE Return(r)
  BY <1>3 DEF Return
<1>4. CASE NextStatement(r)
  BY <1>4 DEF NextStatement, WatchFrom
<1>5. CASE Acquire(r)
  <2>1. PICK c \in Free : conn' = [conn EXCEPT ![r] = c]
    BY <1>5 DEF Acquire
  <2>2. c # None /\ \A s \in Requests : conn[s] # c
    BY QueryAssumption DEF Free
  <2> QED
    BY <1>5, <2>1, <2>2 DEF Acquire
<1>6. CASE Succeed(r) \/ Fail(r) \/ AcquireTimeout(r)
  <2>1. Ends(r) /\ \E p \in {"next", "return"} : pc' = [pc EXCEPT ![r] = p]
    BY <1>6 DEF Succeed, Fail, AcquireTimeout, Break
  <2> QED
    BY <2>1 DEF Ends
<1> QED
  BY <1>1, <1>2, <1>3, <1>4, <1>5, <1>6 DEF Runs, Ready

(* So does a step of a watcher.                                            *)
LEMMA WatcherOwn ==
  ASSUME QueryTypeOK, OwnInv, NEW r \in Requests, Watcher(r) PROVE OwnInv'
<1> USE DEF runVars, serverVars, OwnInv, QueryTypeOK, Watches
<1>1. CASE Notice(r) \/ WakeWatcher(r) \/ AcquireSide(r) \/ SideTimeout(r)
  BY <1>1 DEF Notice, WakeWatcher, AcquireSide, SideTimeout
<1>2. CASE Lookup(r)
  <2>1. Matches(r) # {} => pc[r] = "running" /\ Matches(r) = {conn[r]}
    BY DEF Matches
  <2> QED
    BY <1>2, <2>1 DEF Lookup
<1>3. CASE SendKill(r)
  BY <1>3 DEF SendKill
<1>4. CASE KillTimeout(r)
  BY <1>4 DEF KillTimeout
<1> QED
  BY <1>1, <1>2, <1>3, <1>4 DEF Watcher

(* And a KILL that reaches the server, which frees at most a watcher.      *)
LEMMA KillOwn ==
  ASSUME QueryTypeOK, OwnInv, NEW k \in kills, Deliver(k) \/ Refuse(k) PROVE OwnInv'
<1>1. k.req \in Named /\ Named \subseteq Requests
  BY DEF QueryTypeOK, KillCommands, Named
<1>2. \A r \in Requests : watcher'[r] # "none" => watcher[r] # "none"
  BY <1>1 DEF Deliver, Refuse, KillReturns, QueryTypeOK
<1> QED
  BY <1>2 DEF Deliver, Refuse, OwnInv, runVars

(* The KILLs under way stay those of statements that run or have ended.    *)
LEMMA RunKill ==
  ASSUME QueryTypeOK, KillInv, NEW r \in Requests, Runs(r) PROVE KillInv'
<1> SUFFICES ASSUME NEW k \in kills'
             PROVE  /\ k.stmt <= at'[k.req]
                    /\ at'[k.req] = k.stmt =>
                         \/ pc'[k.req] \in {"next", "return", "done"}
                         \/ pc'[k.req] = "running" /\ conn'[k.req] = k.conn
  BY DEF KillInv
<1> USE DEF watchVars, serverVars, QueryTypeOK, Goes
<1>1. kills' = kills
  BY DEF Runs, Ready, Call, Register, NextStatement, Acquire, AcquireTimeout, Break, Ends,
    Arrive, Return, Succeed, Fail, QueryCancel
<1>2. /\ k.req \in Requests /\ k.stmt \in Nat
      /\ k.stmt <= at[k.req]
      /\ at[k.req] = k.stmt =>
           \/ pc[k.req] \in {"next", "return", "done"}
           \/ pc[k.req] = "running" /\ conn[k.req] = k.conn
  BY <1>1 DEF KillCommands, Named, KillInv
<1>3. CASE Call(r) \/ Register(r) \/ QueryCancel(r)
  BY <1>2, <1>3 DEF Call, Register, QueryCancel
<1>4. CASE Arrive(r) \/ Return(r)
  BY <1>2, <1>4 DEF Arrive, Return
<1>5. CASE NextStatement(r)
  BY <1>2, <1>5 DEF NextStatement
<1>6. CASE Acquire(r)
  BY <1>2, <1>6 DEF Acquire
<1>7. CASE Succeed(r) \/ Fail(r) \/ AcquireTimeout(r)
  <2>1. Ends(r) /\ \E p \in {"next", "return"} : pc' = [pc EXCEPT ![r] = p]
    BY <1>7 DEF Succeed, Fail, AcquireTimeout, Break
  <2> QED
    BY <1>2, <2>1 DEF Ends
<1> QED
  BY <1>3, <1>4, <1>5, <1>6, <1>7 DEF Runs, Ready

(* A watcher that is there kills the connection of its own statement.      *)
LEMMA WatcherKill ==
  ASSUME QueryTypeOK, OwnInv, KillInv, NEW r \in Requests, Watcher(r) PROVE KillInv'
<1> USE DEF runVars, serverVars
<1>1. UNCHANGED <<pc, at, conn>>
  BY DEF Watcher, Notice, WakeWatcher, AcquireSide, SideTimeout, Lookup, SendKill, KillTimeout
<1>2. CASE kills' = kills
  BY <1>1, <1>2 DEF KillInv
<1>3. CASE SendKill(r)
  <2>1. PICK c \in found[r] :
          kills' = kills \cup {[req |-> r, stmt |-> at[r], conn |-> c]}
    BY <1>3 DEF SendKill
  <2>2. pc[r] = "running" /\ c = conn[r]
    BY <2>1 DEF OwnInv
  <2>3. at[r] <= at[r]
    BY DEF QueryTypeOK
  <2> QED
    BY <1>1, <2>1, <2>2, <2>3 DEF KillInv
<1> QED
  BY <1>2, <1>3 DEF Watcher, Notice, WakeWatcher, AcquireSide, SideTimeout, Lookup, KillTimeout

(* Every step keeps all of it.                                             *)
LEMMA QueryStepInv == QueryInv /\ [QueryNext]_queryVars => QueryInv'
<1> SUFFICES ASSUME QueryInv, [QueryNext]_queryVars PROVE QueryInv'
  OBVIOUS
<1> USE DEF QueryInv
<1>1. CASE UNCHANGED queryVars
  BY <1>1 DEF queryVars, runVars, watchVars, serverVars, QueryTypeOK, OwnInv, KillInv
<1>2. ASSUME NEW r \in Requests, Runs(r) PROVE QueryInv'
  BY <1>2, RunType, RunOwn, RunKill
<1>3. ASSUME NEW r \in Requests, Watcher(r) PROVE QueryInv'
  BY <1>3, WatcherType, WatcherOwn, WatcherKill
<1>4. ASSUME NEW k \in kills, Deliver(k) \/ Refuse(k) PROVE QueryInv'
  <2>1. KillInv'
    BY <1>4 DEF Deliver, Refuse, runVars, KillInv
  <2> QED
    BY <1>4, <2>1, KillType, KillOwn
<1> QED
  BY <1>1, <1>2, <1>3, <1>4 DEF QueryNext, Runs, Returned

(* Every variable keeps its type.                                          *)
THEOREM QueryTypeCorrect == QuerySpec => []QueryTypeOK
<1>1. QueryInv => QueryTypeOK
  BY DEF QueryInv
<1> QED
  BY <1>1, QueryInitInv, QueryStepInv, PTL DEF QuerySpec

-----------------------------------------------------------------------------
(* Only Deliver interrupts a statement.  The one it was sent for would     *)
(* have to share the connection, so it is the same or has ended.           *)
LEMMA OwedStep ==
  ASSUME QueryInv, QueryNext
  PROVE  \A r \in killed' \ killed : \E k \in kills \ kills' :
           k.conn = conn[r] /\ (k.req = r \/ ~ForRunning(k))
<1> SUFFICES ASSUME NEW r \in killed' \ killed
             PROVE  \E k \in kills \ kills' :
                      k.conn = conn[r] /\ (k.req = r \/ ~ForRunning(k))
  OBVIOUS
<1> USE DEF watchVars, serverVars, QueryInv
<1>1. ASSUME NEW s \in Requests, Runs(s) \/ Watcher(s) PROVE killed' \subseteq killed
  BY <1>1 DEF Runs, Ready, Call, Register, NextStatement, Acquire, AcquireTimeout, Break,
    Ends, Arrive, Return, Succeed, Fail, QueryCancel, Watcher, Notice, WakeWatcher,
    AcquireSide,
    SideTimeout, Lookup, SendKill, KillTimeout
<1>2. ASSUME NEW k \in kills, Refuse(k) PROVE killed' \subseteq killed
  BY <1>2 DEF Refuse
<1>3. PICK k \in kills : Deliver(k)
  BY <1>1, <1>2 DEF QueryNext, Runs, Returned, queryVars
<1>4. k \notin kills' /\ r \in Requests /\ conn[r] = k.conn
  BY <1>3 DEF Deliver
<1>5. k.req \in Requests /\ k.conn # None
  BY QueryAssumption DEF QueryTypeOK, KillCommands, Named
<1>6. ForRunning(k) => conn[k.req] = k.conn
  BY DEF KillInv, ForRunning
<1>7. k.req = r \/ ~ForRunning(k)
  BY <1>4, <1>5, <1>6 DEF OwnInv
<1> QED
  BY <1>4, <1>7

(* A statement that a KILL interrupts is of the request it was sent for,   *)
(* or took the connection over from a statement that has ended: however    *)
(* many requests share the pool.                                           *)
THEOREM KillsHitTheirOwn == QuerySpec => KillsAreOwed
<1>1. QueryInv /\ [QueryNext]_queryVars =>
        [\A r \in killed' \ killed : \E k \in kills \ kills' :
            k.conn = conn[r] /\ (k.req = r \/ ~ForRunning(k))]_queryVars
  BY OwedStep
<1> QED
  BY <1>1, QueryInitInv, QueryStepInv, PTL DEF QuerySpec, KillsAreOwed
=============================================================================
