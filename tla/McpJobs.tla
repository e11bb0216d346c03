------------------------------- MODULE McpJobs -------------------------------
(***************************************************************************)
(* The jobs of the MCP server (mcp_server.rs): run_query and               *)
(* run_query_to_file run as a task that is aborted to cancel it,           *)
(* transfer_tables as one that has a control in the registry of runs.  A   *)
(* tool call puts its job in the history, spawns the task and a            *)
(* supervisor, and waits for a while; job_status waits again, job_cancel   *)
(* stops.  All of it beside the window's own operations (RunRegistry).     *)
(*                                                                         *)
(* Each job has one client, which starts it and asks for its status again  *)
(* and again; anybody may cancel any job that is in the history.           *)
(***************************************************************************)
EXTENDS RunRegistry, FiniteSets

CONSTANTS
  Queries,   \* jobs without a control
  History    \* JOB_HISTORY

ASSUME JobsAssumption ==
  /\ Queries \cap Ops = {}
  /\ History \in Nat

Jobs == Queries \cup Transfers

VARIABLES
  listed,    \* McpServer::jobs
  call,      \* call[j]: the tool call that starts job j
  query,     \* query[q]: the task of q
  sup,       \* sup[j]: the supervisor of j
  final,     \* jobs whose state is Done or Failed
  handles,   \* jobs whose abort handle is set and not taken
  aborting,  \* tasks told to abort
  wait,      \* wait[j]: where the client of j is in wait_for_job
  notified   \* jobs whose client's Notified future has fired

taskVars == <<query, aborting>>
jobVars == <<listed, call, sup, final, handles>>
waitVars == <<wait, notified>>
vars == <<registryVars, taskVars, jobVars, waitVars>>

Calls == {"none", "controlled", "listed", "spawned", "supervised", "dropped"}
Supervisors == {"none", "await", "unregister", "finish", "notify", "ended"}
WaitPoints == {"out", "subscribe", "check", "asleep", "answered"}

TypeOK ==
  /\ RegistryTypeOK
  /\ listed \subseteq Jobs
  /\ call \in [Jobs -> Calls]
  /\ query \in [Queries -> {"none", "running", "over"}]
  /\ sup \in [Jobs -> Supervisors]
  /\ final \subseteq Jobs
  /\ handles \subseteq Jobs
  /\ aborting \subseteq Queries
  /\ wait \in [Jobs -> WaitPoints]
  /\ notified \subseteq Jobs

Init ==
  /\ RegistryInit
  /\ listed = {}
  /\ call = [j \in Jobs |-> "none"]
  /\ query = [q \in Queries |-> "none"]
  /\ sup = [j \in Jobs |-> "none"]
  /\ final = {}
  /\ handles = {}
  /\ aborting = {}
  /\ wait = [j \in Jobs |-> "out"]
  /\ notified = {}

-----------------------------------------------------------------------------
(* The tool call of job j.                                                 *)

(* transfer_tables makes a control and puts it in the registry of runs.    *)
MakeControl(t) ==
  /\ call[t] = "none" /\ place[t] = "fresh"
  /\ call' = [call EXCEPT ![t] = "controlled"]
  /\ runs' = runs \cup {t}
  /\ UNCHANGED <<stops, place, leaving, told, taskVars, listed, sup, final, handles, waitVars>>

(* The client goes away while the call waits for the lock on the history:  *)
(* the future is dropped where it stands, and the run's entry stays.       *)
DropCall(t) ==
  /\ call[t] = "controlled"
  /\ call' = [call EXCEPT ![t] = "dropped"]
  /\ UNCHANGED <<registryVars, taskVars, listed, sup, final, handles, waitVars>>

(* Mutant: the history is kept short whatever the jobs are doing.          *)
Excess(h) == IF Cardinality(h) > History THEN Cardinality(h) - History ELSE 0
EvictedRunning(h) == {gone \in SUBSET h : Cardinality(gone) = Excess(h)}

(* What evict_finished may take from history h: finished jobs, as many as  *)
(* it takes to come down to History, or all there are.  That it takes the  *)
(* oldest first is left open.                                              *)
Evicted(h) ==
  {gone \in SUBSET (h \cap final) :
     \/ Cardinality(gone) = Excess(h)
     \/ gone = h \cap final /\ Cardinality(gone) < Excess(h)}

(* run_as_job: insert the job and evict, under one lock.                   *)
List(j) ==
  /\ call[j] = IF j \in Queries THEN "none" ELSE "controlled"
  /\ call' = [call EXCEPT ![j] = "listed"]
  /\ \E gone \in Evicted(listed \cup {j}) : listed' = (listed \cup {j}) \ gone
  /\ UNCHANGED <<registryVars, taskVars, sup, final, handles, waitVars>>

(* tokio::spawn(fut): the work begins, run_transfer with it.               *)
Spawn(j) ==
  /\ call[j] = "listed"
  /\ call' = [call EXCEPT ![j] = "spawned"]
  /\ IF j \in Queries
     THEN /\ query' = [query EXCEPT ![j] = "running"]
          /\ UNCHANGED place
     ELSE /\ Begin(j)
          /\ UNCHANGED query
  /\ UNCHANGED <<runs, stops, leaving, told, aborting, listed, sup, final, handles, waitVars>>

(* The abort handle is stored, the supervisor spawned, and the call goes   *)
(* into wait_for_job.                                                      *)
Supervise(j) ==
  /\ call[j] = "spawned"
  /\ call' = [call EXCEPT ![j] = "supervised"]
  /\ handles' = handles \cup {j}
  /\ sup' = [sup EXCEPT ![j] = "await"]
  /\ wait' = [wait EXCEPT ![j] = "subscribe"]
  /\ UNCHANGED <<registryVars, taskVars, listed, final, notified>>

-----------------------------------------------------------------------------
(* The task and its supervisor.                                            *)

QueryOver(q) ==
  /\ query' = [query EXCEPT ![q] = "over"]
  /\ aborting' = aborting \ {q}
  /\ UNCHANGED <<registryVars, jobVars, waitVars>>

(* The query answers, fails or panics.                                     *)
QueryEnds(q) ==
  /\ query[q] = "running"
  /\ QueryOver(q)

(* The runtime drops an aborted task at its next await.                    *)
AbortTakesEffect(q) ==
  /\ query[q] = "running" /\ q \in aborting
  /\ QueryOver(q)

(* The window's Unregister is the supervisor's business for a job.         *)
TaskOver(j) == IF j \in Queries THEN query[j] = "over" ELSE place[j] = "idle"

SupervisorGoes(j, from, to) ==
  /\ sup[j] = from
  /\ sup' = [sup EXCEPT ![j] = to]

(* inner.await returns: a result, "cancelled" or "job panicked".           *)
TaskJoined(j) ==
  /\ TaskOver(j)
  /\ SupervisorGoes(j, "await", "unregister")
  /\ UNCHANGED <<registryVars, taskVars, listed, call, final, handles, waitVars>>

(* The entry of the run goes; a query has none.                            *)
RemoveRun(j) ==
  /\ SupervisorGoes(j, "unregister", "finish")
  /\ IF j \in Transfers THEN Unregister(j) ELSE UNCHANGED registryVars
  /\ UNCHANGED <<taskVars, listed, call, final, handles, waitVars>>

(* Mutant: the job is reported finished before its run is taken away.      *)
FinishEarly(j) ==
  /\ sup[j] \in {"unregister", "finish"}
  /\ sup' = [sup EXCEPT ![j] = IF @ = "finish" THEN "notify" ELSE @]
  /\ final' = final \cup {j}
  /\ UNCHANGED <<registryVars, taskVars, listed, call, handles, waitVars>>

(* Job::finish, first half: the state leaves Running.                      *)
Finish(j) ==
  /\ SupervisorGoes(j, "finish", "notify")
  /\ final' = final \cup {j}
  /\ UNCHANGED <<registryVars, taskVars, listed, call, handles, waitVars>>

(* Job::finish, second half: notify_waiters() fires the futures there are. *)
Notify(j) ==
  /\ SupervisorGoes(j, "notify", "ended")
  /\ notified' = IF wait[j] \in {"check", "asleep"} THEN notified \cup {j} ELSE notified
  /\ UNCHANGED <<registryVars, taskVars, listed, call, final, handles, wait>>

-----------------------------------------------------------------------------
(* wait_for_job.                                                           *)

(* job_status finds the job in the history; it keeps the job even if the   *)
(* job is evicted meanwhile.                                               *)
Poll(j) ==
  /\ wait[j] = "answered" /\ j \in listed
  /\ wait' = [wait EXCEPT ![j] = "subscribe"]
  /\ UNCHANGED <<registryVars, taskVars, jobVars, notified>>

(* Mutant: the state is read before the future is made, as in              *)
(* TransferControl::check, so a completion may fall in between.            *)
SubscribeLate(j) ==
  /\ wait[j] \in {"subscribe", "check"}
  /\ wait' = [wait EXCEPT ![j] = IF @ = "check" THEN "asleep"
                                ELSE IF j \in final THEN "answered" ELSE "check"]
  /\ notified' = notified \ {j}
  /\ UNCHANGED <<registryVars, taskVars, jobVars>>

(* let notified = job.notify.notified().                                   *)
Subscribe(j) ==
  /\ wait[j] = "subscribe"
  /\ wait' = [wait EXCEPT ![j] = "check"]
  /\ notified' = notified \ {j}
  /\ UNCHANGED <<registryVars, taskVars, jobVars>>

Answer(j) ==
  /\ wait' = [wait EXCEPT ![j] = "answered"]
  /\ notified' = notified \ {j}

(* if !job.is_running() { return }, and otherwise notified.await.          *)
CheckState(j) ==
  /\ wait[j] = "check"
  /\ IF j \in final
     THEN Answer(j)
     ELSE wait' = [wait EXCEPT ![j] = "asleep"] /\ UNCHANGED notified
  /\ UNCHANGED <<registryVars, taskVars, jobVars>>

Wake(j) ==
  /\ wait[j] = "asleep" /\ j \in notified
  /\ wait' = [wait EXCEPT ![j] = "subscribe"]
  /\ UNCHANGED <<registryVars, taskVars, jobVars, notified>>

(* The time to wait is up and the call answers "running", or the client    *)
(* goes away.                                                              *)
GiveUp(j) ==
  /\ wait[j] \in {"subscribe", "check", "asleep"}
  /\ Answer(j)
  /\ UNCHANGED <<registryVars, taskVars, jobVars>>

-----------------------------------------------------------------------------
(* job_cancel of a job that still runs: a transfer is told to stop through *)
(* its own control; the task of a query is aborted, if its handle is there *)
(* (the answer is "aborted" in any case).                                  *)
CancelTransfer(t) ==
  /\ t \in listed \ final
  /\ RequestStop(t, t)
  /\ UNCHANGED <<taskVars, jobVars, waitVars>>

CancelQuery(q) ==
  /\ q \in listed \ final
  /\ handles' = handles \ {q}
  /\ aborting' = IF q \in handles /\ query[q] = "running" THEN aborting \cup {q} ELSE aborting
  /\ UNCHANGED <<registryVars, query, listed, call, sup, final, waitVars>>

-----------------------------------------------------------------------------
(* A transfer is started by the window or by a tool call.                  *)
OfWindow(t) == call[t] = "none"

Window ==
  /\ \/ \E t \in Transfers :
          OfWindow(t) /\ (Start(t) \/ NotOpen(t) \/ RegisterRun(t) \/ Unregister(t) \/ Stop(t))
     \/ \E b \in Borrowers : Start(b) \/ NotOpen(b) \/ ResetShared(b) \/ Stop(b)
  /\ UNCHANGED <<taskVars, jobVars, waitVars>>

Operation(o) == Run(o) /\ UNCHANGED <<taskVars, jobVars, waitVars>>

ToolCall(j) ==
  \/ j \in Transfers /\ (MakeControl(j) \/ DropCall(j) \/ CancelTransfer(j))
  \/ j \in Queries /\ CancelQuery(j)
  \/ List(j) \/ Spawn(j) \/ Supervise(j)

Task(q) == QueryEnds(q) \/ AbortTakesEffect(q)
Supervisor(j) == TaskJoined(j) \/ RemoveRun(j) \/ Finish(j) \/ Notify(j)
WaitStep(j) == Subscribe(j) \/ CheckState(j) \/ Wake(j)

Next ==
  \/ Window
  \/ \E o \in Ops : Operation(o)
  \/ \E j \in Jobs : ToolCall(j) \/ Supervisor(j)
  \/ \E j \in Jobs : Poll(j) \/ WaitStep(j) \/ GiveUp(j)
  \/ \E q \in Queries : Task(q)

(* A call goes on between its awaits, spawned tasks are scheduled, an      *)
(* abort lands at the task's next await.                                   *)
(* That a query answers, that an operation ends and that a wait times out  *)
(* is not promised.                                                        *)
Spec ==
  /\ Init /\ [][Next]_vars
  /\ \A q \in Queries : WF_vars(AbortTakesEffect(q))
  /\ \A j \in Jobs : WF_vars(Spawn(j) \/ Supervise(j)) /\ WF_vars(Supervisor(j))
  /\ \A j \in Jobs : WF_vars(WaitStep(j))

-----------------------------------------------------------------------------
(* evict_finished: a job that has not finished is in the history, where    *)
(* job_status, job_list and job_cancel find it, from its first to its last *)
(* moment.                                                                 *)
UnfinishedAreListed ==
  \A j \in Jobs :
    call[j] \in {"listed", "spawned", "supervised"} /\ j \notin final => j \in listed

(* The supervisor: a job that is reported finished has left the registry   *)
(* of runs, so a client that sees it finished can rely on the run id being *)
(* dead.  (A call that is dropped before its job exists leaves an entry    *)
(* for ever: no job is ever reported for it.)                              *)
FinishedLeaveTheRegistry ==
  \A t \in Transfers : t \in final => t \notin runs

(* wait_for_job: whoever waits for a job whose task has ended, or whose    *)
(* abort handle job_cancel has pulled, gets its answer without running     *)
(* into its timeout.                                                       *)
WaitersAreAnswered ==
  \A j \in Jobs :
    (/\ wait[j] \in {"subscribe", "check", "asleep"}
     /\ TaskOver(j) \/ j \in aborting) ~> wait[j] = "answered"
=============================================================================
