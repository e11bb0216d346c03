-------------------------- MODULE ScheduledBackups --------------------------
(***************************************************************************)
(* Scheduled backups (schedule.rs and retention.rs of the backup crate,    *)
(* headless.rs of the app): a run dumps into a new file of the folder,     *)
(* named after the schedule and the second, then deletes what the policy   *)
(* of the schedule does not keep and records how it went.  The system      *)
(* scheduler, the window ("run now") and the CLI start runs, each in a     *)
(* process of its own; a process may be killed.                            *)
(*                                                                         *)
(* One folder for all schedules.  A file is the inode that a run created;  *)
(* a path is a name and a second.  Names are numbers, in the order of the  *)
(* strings they stand for.                                                 *)
(***************************************************************************)
EXTENDS Naturals, FiniteSets

CONSTANTS
  Runs, Schedules, Connections,
  NameOf,      \* NameOf[s]: the sanitized name of schedule s
  Claims,      \* Claims[s]: the names whose files begin like those of s
  ConnOf,      \* ConnOf[s]: connection_id
  Tunnelled,   \* the connections behind an SSH tunnel
  Keep,        \* Keep[s]: retention_keep_n or None
  MaxAge,      \* MaxAge[s]: retention_days, in ticks of the clock, or None
  MaxClock,    \* bound: seconds
  None

ASSUME ScheduleAssumption ==
  /\ NameOf \in [Schedules -> Nat]
  /\ Claims \in [Schedules -> SUBSET Nat]
  /\ \A s \in Schedules : NameOf[s] \in Claims[s]
  /\ ConnOf \in [Schedules -> Connections]
  /\ Schedules \cap Connections = {}
  /\ Tunnelled \subseteq Connections
  /\ Keep \in [Schedules -> Nat \cup {None}]
  /\ MaxAge \in [Schedules -> Nat \cup {None}]
  /\ MaxClock \in Nat
  /\ None \notin Runs \cup Schedules

Seconds == 0..MaxClock
Paths == {NameOf[s] : s \in Schedules} \X Seconds

VARIABLES
  clock,
  sched,      \* sched[r]: the schedule of run r
  via,        \* via[r]: "app" for run_schedule, "cli" for run_and_record
  stamp,      \* stamp[r]: now, read when the run began
  pc,         \* pc[r]: where run r is
  folder,     \* folder[p]: the file at path p or None
  inode,      \* inode[r]: the file run r writes
  mtime,      \* mtime[f]: when file f was last written
  mix,        \* mix[f]: the runs whose bytes may be in file f
  written,    \* runs that have written all of their dump
  doomed,     \* doomed[r]: paths run r has to delete
  result,     \* result[r]: what run r came to
  good,       \* history: schedules whose last_status was ok at some time
  excused     \* history: schedules whose files were sorted with others' or in a tie

runVars == <<sched, via, stamp>>
fileVars == <<folder, inode, mtime, mix, written>>
vars == <<clock, runVars, pc, fileVars, doomed, result, good, excused>>

Points == {"idle", "connect", "create", "dump", "list", "remove", "record", "done", "killed"}
Results == {"none", "noConnection", "error", "ok"}

TypeOK ==
  /\ clock \in Seconds
  /\ sched \in [Runs -> Schedules \cup {None}]
  /\ via \in [Runs -> {"app", "cli"}]
  /\ stamp \in [Runs -> Seconds]
  /\ pc \in [Runs -> Points]
  /\ folder \in [Paths -> Runs \cup {None}]
  /\ inode \in [Runs -> Runs \cup {None}]
  /\ mtime \in [Runs -> Seconds]
  /\ mix \in [Runs -> SUBSET Runs]
  /\ written \subseteq Runs
  /\ doomed \in [Runs -> SUBSET Paths]
  /\ result \in [Runs -> Results]
  /\ good \subseteq Schedules
  /\ excused \subseteq Schedules

Init ==
  /\ clock = 0
  /\ sched = [r \in Runs |-> None]
  /\ via = [r \in Runs |-> "cli"]
  /\ stamp = [r \in Runs |-> 0]
  /\ pc = [r \in Runs |-> "idle"]
  /\ folder = [p \in Paths |-> None]
  /\ inode = [r \in Runs |-> None]
  /\ mtime = [r \in Runs |-> 0]
  /\ mix = [r \in Runs |-> {}]
  /\ written = {}
  /\ doomed = [r \in Runs |-> {}]
  /\ result = [r \in Runs |-> "none"]
  /\ good = {} /\ excused = {}

-----------------------------------------------------------------------------
(* A run up to its file.                                                   *)

Goes(r, from, to) == pc[r] = from /\ pc' = [pc EXCEPT ![r] = to]

(* The run is over but for its row.                                        *)
EndsWith(r, from, res) ==
  /\ Goes(r, from, "record")
  /\ result' = [result EXCEPT ![r] = res]

(* The schedule is read, then the clock.                                   *)
Start(r, s, v) ==
  /\ Goes(r, "idle", "connect")
  /\ sched' = [sched EXCEPT ![r] = s]
  /\ via' = [via EXCEPT ![r] = v]
  /\ stamp' = [stamp EXCEPT ![r] = clock]
  /\ UNCHANGED <<clock, fileVars, doomed, result, good, excused>>

(* The id the profile is looked up by: run_schedule hands on the id it was *)
(* given, which is that of the schedule.                                   *)
ProfileId(r) == IF via[r] = "app" THEN sched[r] ELSE ConnOf[sched[r]]

(* The CLI has no tunnels; connecting, or reading what to dump, may fail.  *)
Connect(r) ==
  /\ pc[r] = "connect"
  /\ \/ /\ ProfileId(r) \notin Connections
        /\ EndsWith(r, "connect", "noConnection")
     \/ /\ ProfileId(r) \in Connections
        /\ EndsWith(r, "connect", "error")
     \/ /\ ProfileId(r) \in Connections
        /\ via[r] = "cli" => ProfileId(r) \notin Tunnelled
        /\ Goes(r, "connect", "create")
        /\ UNCHANGED result
  /\ UNCHANGED <<clock, runVars, fileVars, doomed, good, excused>>

PathOf(r) == <<NameOf[sched[r]], stamp[r]>>

(* File::create: a new file, or the one at that path emptied, into which   *)
(* whoever has it open goes on writing.                                    *)
Create(r) ==
  LET f == IF folder[PathOf(r)] = None THEN r ELSE folder[PathOf(r)]
      open == {q \in Runs : pc[q] = "dump" /\ inode[q] = f}
  IN /\ Goes(r, "create", "dump")
     /\ folder' = [folder EXCEPT ![PathOf(r)] = f]
     /\ inode' = [inode EXCEPT ![r] = f]
     /\ mix' = [mix EXCEPT ![f] = {r} \cup open]
     /\ mtime' = [mtime EXCEPT ![f] = clock]
     /\ excused' = IF f = r THEN excused
                   ELSE excused \cup {s \in Schedules : NameOf[s] = NameOf[sched[r]]}
     /\ UNCHANGED <<clock, runVars, written, doomed, result, good>>

(* A block of rows.                                                        *)
Write(r) ==
  /\ pc[r] = "dump"
  /\ mtime[inode[r]] # clock
  /\ mtime' = [mtime EXCEPT ![inode[r]] = clock]
  /\ UNCHANGED <<clock, runVars, pc, folder, inode, mix, written, doomed, result, good, excused>>

FinishDump(r) ==
  /\ Goes(r, "dump", "list")
  /\ written' = written \cup {r}
  /\ mtime' = [mtime EXCEPT ![inode[r]] = clock]
  /\ UNCHANGED <<clock, runVars, folder, inode, mix, doomed, result, good, excused>>

(* Mutant: the policy is applied after a failed dump too.                  *)
FailThenRetain(r) ==
  /\ Goes(r, "dump", "list")
  /\ UNCHANGED <<clock, runVars, fileVars, doomed, result, good, excused>>

(* The dump fails; what it has written stays.                              *)
FailDump(r) ==
  /\ EndsWith(r, "dump", "error")
  /\ UNCHANGED <<clock, runVars, fileVars, doomed, good, excused>>

-----------------------------------------------------------------------------
(* apply_retention.                                                        *)

Listed(r) == {p \in Paths : folder[p] # None /\ p[1] \in Claims[sched[r]]}

(* The newest first, by whole seconds; then by path.                       *)
Before(p, q) ==
  \/ mtime[folder[p]] > mtime[folder[q]]
  \/ /\ mtime[folder[p]] = mtime[folder[q]]
     /\ p[1] < q[1] \/ (p[1] = q[1] /\ p[2] < q[2])

(* files_to_delete.                                                        *)
OverCount(r, p) ==
  /\ Keep[sched[r]] # None
  /\ Cardinality({q \in Listed(r) : Before(q, p)}) >= Keep[sched[r]]
TooOld(r, p) ==
  /\ MaxAge[sched[r]] # None
  /\ mtime[folder[p]] + MaxAge[sched[r]] < stamp[r]
ToDelete(r) == {p \in Listed(r) : OverCount(r, p) \/ TooOld(r, p)}

(* The schedules the list of run r mixes up: all others of its names, and  *)
(* its own if a run of the name is writing or some file is as new as its.  *)
Mixed(r) ==
  {s \in Schedules :
     /\ NameOf[s] \in Claims[sched[r]]
     /\ \/ s # sched[r]
        \/ \E q \in Runs \ {r} :
             /\ pc[q] \in {"create", "dump", "list", "remove"}
             /\ NameOf[sched[q]] = NameOf[s]
        \/ \E p \in Listed(r) \ {PathOf(r)} :
             folder[PathOf(r)] # None => mtime[folder[p]] >= mtime[folder[PathOf(r)]]}

(* read_dir and the times, if there is a policy; an error fails the run.   *)
List(r) ==
  /\ \/ /\ Goes(r, "list", "remove")
        /\ doomed' = [doomed EXCEPT ![r] = ToDelete(r)]
        /\ excused' = excused \cup Mixed(r)
        /\ UNCHANGED result
     \/ /\ EndsWith(r, "list", "error")
        /\ Keep[sched[r]] # None \/ MaxAge[sched[r]] # None
        /\ UNCHANGED <<doomed, excused>>
  /\ UNCHANGED <<clock, runVars, fileVars, good>>

(* remove_file by its path, whatever is there by now.                      *)
Remove(r) ==
  /\ pc[r] = "remove"
  /\ \E p \in doomed[r] :
        /\ doomed' = [doomed EXCEPT ![r] = @ \ {p}]
        /\ folder' = [folder EXCEPT ![p] = None]
  /\ UNCHANGED <<clock, runVars, pc, inode, mtime, mix, written, result, good, excused>>

Retained(r) ==
  /\ doomed[r] = {}
  /\ EndsWith(r, "remove", "ok")
  /\ UNCHANGED <<clock, runVars, fileVars, doomed, good, excused>>

(* record_run: the row takes the result, unless it is gone.                *)
Record(r) ==
  /\ Goes(r, "record", "done")
  /\ good' \in {good, IF result[r] = "ok" THEN good \cup {sched[r]} ELSE good}
  /\ UNCHANGED <<clock, runVars, fileVars, doomed, result, excused>>

-----------------------------------------------------------------------------
(* The world around.                                                       *)

(* The process dies and leaves its file; before there is one, that is as   *)
(* if it were never to go on.                                              *)
Kill(r) ==
  /\ pc[r] \in {"dump", "list", "remove"}
  /\ pc' = [pc EXCEPT ![r] = "killed"]
  /\ UNCHANGED <<clock, runVars, fileVars, doomed, result, good, excused>>

Tick ==
  /\ clock < MaxClock
  /\ clock' = clock + 1
  /\ UNCHANGED <<runVars, pc, fileVars, doomed, result, good, excused>>

Step(r) ==
  \/ Connect(r) \/ Create(r) \/ Write(r) \/ FinishDump(r) \/ FailDump(r)
  \/ List(r) \/ Remove(r) \/ Retained(r) \/ Record(r) \/ Kill(r)

Next ==
  \/ \E r \in Runs, s \in Schedules, v \in {"app", "cli"} : Start(r, s, v)
  \/ \E r \in Runs : Step(r)
  \/ Tick

Spec == Init /\ [][Next]_vars

-----------------------------------------------------------------------------
(* Properties.                                                             *)

(* A file with the whole dump of one run and nothing else.                 *)
Complete(f) == \E q \in written : mix[f] = {q}
HasBackup(s) ==
  \E p \in Paths : p[1] = NameOf[s] /\ folder[p] # None /\ Complete(folder[p])

(* Once a run of a schedule was recorded ok, the folder holds a complete   *)
(* backup of it for good, through failed and killed runs and the files     *)
(* they leave behind.  Excused are a policy that keeps nothing, schedules  *)
(* of one name or whose name begins another's, runs of one name at once,   *)
(* and files of one second.                                                *)
ABackupRemains ==
  \A s \in good \ excused : Keep[s] # 0 => HasBackup(s)

(* "Run a schedule immediately ...: dump + retention + record the run.     *)
(* Tunnel-aware, so SSH connections work": no run misses a connection that *)
(* is in the store.                                                        *)
RunsFindTheirConnection == \A r \in Runs : result[r] # "noConnection"
=============================================================================
