----------------------- MODULE ScheduledBackupsProofs -----------------------
(***************************************************************************)
(* Proofs about ScheduledBackups, for any schedules, names, policies and   *)
(* runs.                                                                   *)
(***************************************************************************)
EXTENDS ScheduledBackups, FiniteSetTheorems, TLAPS

(* A run has its schedule once it is started.                              *)
HasSchedule == \A r \in Runs : pc[r] # "idle" => sched[r] \in Schedules

(* A schedule the invariant is about.                                      *)
Kept(s) == s \notin excused /\ Keep[s] # 0

Writing(r) == pc[r] \in {"dump", "list", "remove"}

(* A run with a file.                                                      *)
Begun(r) == pc[r] \notin {"idle", "connect", "create"}

(* A stamp is not of the future; a file is at the path of the run that     *)
(* created it.                                                             *)
FolderInv ==
  /\ \A r \in Runs : stamp[r] <= clock
  /\ \A r \in Runs : Writing(r) => inode[r] \in Runs
  /\ \A r \in Runs : inode[r] # None => Begun(inode[r])
  /\ \A p \in Paths : folder[p] # None => PathOf(folder[p]) = p /\ Begun(folder[p])

(* A run that nobody interferes with has its file to itself and in its     *)
(* place, whole when the dump is over, and does not delete it.             *)
Owns(r) ==
  /\ inode[r] = r /\ mix[r] = {r} /\ folder[PathOf(r)] = r
  /\ mtime[r] >= stamp[r]
  /\ pc[r] # "dump" => r \in written
  /\ pc[r] = "remove" => PathOf(r) \notin doomed[r]
OwnInv == \A r \in Runs : Writing(r) /\ Kept(sched[r]) => Owns(r)

(* What a run deletes has a name that its schedule claims, of a schedule   *)
(* that is excused unless it is the run's own.  Of such a schedule no      *)
(* other run deletes files, they are there, and nobody writes them.        *)
OnlyDeletes(r) ==
  /\ \A q \in Runs : pc[q] = "remove" /\ sched[q] = sched[r] => q = r
  /\ \A p \in doomed[r] : p[1] = NameOf[sched[r]] => folder[p] # None
  /\ \A q \in Runs \ {r} :
        Writing(q) /\ sched[q] = sched[r] => PathOf(q) \notin doomed[r]
DoomInv ==
  \A r \in Runs : pc[r] = "remove" =>
     /\ \A p \in doomed[r] : p[1] \in Claims[sched[r]]
     /\ \A s \in Schedules :
           s \notin excused /\ NameOf[s] \in Claims[sched[r]] => s = sched[r]
     /\ sched[r] \notin excused => OnlyDeletes(r)

(* A run that will be recorded ok is as good as recorded.                  *)
Ok(s) ==
  \/ s \in good
  \/ \E r \in Runs : sched[r] = s /\ pc[r] = "record" /\ result[r] = "ok"
BackupInv == \A s \in Schedules : Kept(s) /\ Ok(s) => HasBackup(s)

Rest == FolderInv /\ OwnInv /\ DoomInv /\ BackupInv
BackupIInv == TypeOK /\ HasSchedule /\ Rest

-----------------------------------------------------------------------------
(* The path of a run that is started is one of the folder's, and begins    *)
(* with the name of its schedule.                                          *)
LEMMA PathOfRun ==
  ASSUME TypeOK, HasSchedule, NEW r \in Runs, pc[r] # "idle"
  PROVE  /\ sched[r] \in Schedules /\ PathOf(r) \in Paths
         /\ PathOf(r)[1] = NameOf[sched[r]]
BY DEF TypeOK, HasSchedule, PathOf, Paths

(* The types hold at the start.                                            *)
LEMMA InitType == Init => TypeOK /\ HasSchedule
<1> SUFFICES ASSUME Init PROVE TypeOK /\ HasSchedule
  OBVIOUS
<1>1. 0 \in Seconds
  BY ScheduleAssumption DEF Seconds
<1>2. /\ pc \in [Runs -> Points]
      /\ result \in [Runs -> Results]
  BY DEF Init, Points, Results
<1> QED
  BY <1>1, <1>2 DEF Init, TypeOK, HasSchedule

(* Create opens one file, its own unless there is one at its path.         *)
LEMMA CreateEffect ==
  ASSUME TypeOK, HasSchedule, NEW r \in Runs, Create(r)
  PROVE  /\ pc[r] = "create" /\ pc' = [pc EXCEPT ![r] = "dump"]
         /\ \E f \in Runs :
              /\ f = IF folder[PathOf(r)] = None THEN r ELSE folder[PathOf(r)]
              /\ folder' = [folder EXCEPT ![PathOf(r)] = f]
              /\ inode' = [inode EXCEPT ![r] = f]
              /\ mix' = [mix EXCEPT ![f] =
                          {r} \cup {q \in Runs : pc[q] = "dump" /\ inode[q] = f}]
              /\ mtime' = [mtime EXCEPT ![f] = clock]
              /\ excused' = IF f = r THEN excused
                            ELSE excused \cup {s \in Schedules : NameOf[s] = NameOf[sched[r]]}
         /\ UNCHANGED <<clock, sched, via, stamp, written, doomed, result, good>>
<1>1. (IF folder[PathOf(r)] = None THEN r ELSE folder[PathOf(r)]) \in Runs
  BY PathOfRun DEF TypeOK, Create, Goes
<1> QED
  BY <1>1 DEF Create, Goes, runVars

(* A step of a run keeps the types.                                        *)
LEMMA StepType ==
  ASSUME TypeOK, HasSchedule, NEW r \in Runs, Step(r)
  PROVE  TypeOK' /\ HasSchedule'
<1> USE DEF TypeOK, HasSchedule, runVars, fileVars, Goes, EndsWith
<1>1. CASE Connect(r)
  BY <1>1 DEF Connect, Points, Results
<1>2. CASE Create(r)
  BY <1>2, CreateEffect DEF Points
<1>3. CASE Write(r)
  BY <1>3 DEF Write
<1>4. CASE FinishDump(r)
  BY <1>4 DEF FinishDump, Points
<1>5. CASE FailDump(r)
  BY <1>5 DEF FailDump, Points, Results
<1>6. CASE List(r)
  <2>1. ToDelete(r) \subseteq Paths /\ Mixed(r) \subseteq Schedules
    BY DEF ToDelete, Listed, Mixed
  <2> QED
    BY <1>6, <2>1 DEF List, Points, Results
<1>7. CASE Remove(r)
  BY <1>7 DEF Remove
<1>8. CASE Retained(r)
  BY <1>8 DEF Retained, Points, Results
<1>9. CASE Record(r)
  BY <1>9 DEF Record, Points
<1>10. CASE Kill(r)
  BY <1>10 DEF Kill, Points
<1> QED
  BY <1>1, <1>2, <1>3, <1>4, <1>5, <1>6, <1>7, <1>8, <1>9, <1>10 DEF Step

(* Every step keeps the types.                                             *)
LEMMA NextType == TypeOK /\ HasSchedule /\ [Next]_vars => TypeOK' /\ HasSchedule'
<1> SUFFICES ASSUME TypeOK, HasSchedule, [Next]_vars PROVE TypeOK' /\ HasSchedule'
  OBVIOUS
<1>1. ASSUME NEW r \in Runs, NEW s \in Schedules, NEW v \in {"app", "cli"}, Start(r, s, v)
      PROVE  TypeOK' /\ HasSchedule'
  BY <1>1 DEF TypeOK, HasSchedule, fileVars, Goes, Start, Points
<1>2. CASE \E r \in Runs : Step(r)
  BY <1>2, StepType
<1>3. CASE Tick
  BY <1>3, ScheduleAssumption DEF TypeOK, HasSchedule, Seconds, runVars, fileVars, Tick
<1>4. CASE UNCHANGED vars
  BY <1>4 DEF TypeOK, HasSchedule, vars, runVars, fileVars
<1> QED
  BY <1>1, <1>2, <1>3, <1>4 DEF Next

(* Every variable keeps its type.                                          *)
THEOREM TypeCorrect == Spec => []TypeOK
<1>1. Spec => [](TypeOK /\ HasSchedule)
  BY InitType, NextType, PTL DEF Spec
<1> QED
  BY <1>1, PTL

-----------------------------------------------------------------------------
(* Steps that leave the folder alone.                                      *)

(* What a schedule may have to answer for depends on files alone.          *)
LEMMA SameFilesSameBackup ==
  ASSUME UNCHANGED <<folder, mix, written>>, NEW s
  PROVE  HasBackup(s)' = HasBackup(s)
BY DEF HasBackup, Complete

(* A run that goes on to where it no longer writes, or to where it has not *)
(* begun to, breaks nothing if it is not to be recorded ok.                *)
LEMMA Frame ==
  ASSUME BackupIInv, NEW r \in Runs, NEW x \in {"create", "record", "done", "killed"},
         pc' = [pc EXCEPT ![r] = x], x = "create" => pc[r] = "connect", pc[r] # "idle",
         UNCHANGED <<clock, sched, stamp, folder, inode, mtime, mix, written, doomed, excused>>,
         \A s \in Schedules : Kept(s) /\ Ok(s)' => Ok(s) \/ HasBackup(s)
  PROVE  Rest'
<1> USE DEF BackupIInv, Rest
<1>1. /\ pc \in [Runs -> Points] /\ pc' \in [Runs -> Points]
      /\ \A q \in Runs : Writing(q)' => Writing(q) /\ q # r
      /\ \A q \in Runs : q # r => pc'[q] = pc[q]
  BY DEF TypeOK, Points, Writing
<1>2. \A q \in Runs : /\ PathOf(q)' = PathOf(q)
                      /\ Begun(q) => Begun(q)'
  BY <1>1 DEF PathOf, Begun
<1>3. FolderInv'
  BY <1>1, <1>2 DEF FolderInv, TypeOK
<1>4. OwnInv'
  <2> SUFFICES ASSUME NEW q \in Runs, Writing(q)', Kept(sched[q])' PROVE Owns(q)'
    BY DEF OwnInv
  <2>1. Writing(q) /\ Kept(sched[q]) /\ q # r
    BY <1>1 DEF Kept
  <2> QED
    BY <1>1, <1>2, <2>1 DEF OwnInv, Owns
<1>5. DoomInv'
  <2> SUFFICES ASSUME NEW q \in Runs, pc'[q] = "remove"
               PROVE  /\ \A p \in doomed[q] : p[1] \in Claims[sched[q]]
                      /\ \A s \in Schedules :
                            s \notin excused /\ NameOf[s] \in Claims[sched[q]] => s = sched[q]
                      /\ sched[q] \notin excused => OnlyDeletes(q)'
    BY DEF DoomInv
  <2>1. pc[q] = "remove"
    BY <1>1 DEF Writing
  <2>2. ASSUME sched[q] \notin excused PROVE OnlyDeletes(q)'
    <3>1. OnlyDeletes(q)
      BY <2>1, <2>2 DEF DoomInv
    <3>2. \A t \in Runs : pc'[t] = "remove" => pc[t] = "remove"
      BY <1>1 DEF Writing
    <3> QED
      BY <1>1, <1>2, <3>1, <3>2 DEF OnlyDeletes
  <2> QED
    BY <2>1, <2>2 DEF DoomInv
<1>6. BackupInv'
  BY SameFilesSameBackup DEF BackupInv, Kept
<1> QED
  BY <1>3, <1>4, <1>5, <1>6

(* A run that is not going to be recorded ok makes no schedule ok.         *)
LEMMA NotOk ==
  ASSUME TypeOK, NEW r \in Runs, NEW x, x # "record" \/ result'[r] # "ok",
         pc' = [pc EXCEPT ![r] = x], UNCHANGED <<sched, good>>,
         \A q \in Runs \ {r} : result'[q] = result[q], NEW s, Ok(s)'
  PROVE  Ok(s)
BY DEF Ok, TypeOK

(* Up to the file nothing is at stake.                                     *)
LEMMA ConnectRest == ASSUME BackupIInv, NEW r \in Runs, Connect(r) PROVE Rest'
<1>1. TypeOK
  BY DEF BackupIInv
<1> USE DEF runVars, fileVars, Goes, EndsWith
<1>2. PICK x \in {"create", "record"} :
        /\ pc' = [pc EXCEPT ![r] = x] /\ pc[r] = "connect"
        /\ x = "record" => \E res \in {"noConnection", "error"} :
                              result' = [result EXCEPT ![r] = res]
        /\ x = "create" => result' = result
  BY DEF Connect
<1>3. \A s \in Schedules : Ok(s)' => Ok(s)
  <2>1. x # "record" \/ result'[r] # "ok"
    BY <1>1, <1>2 DEF TypeOK
  <2>2. \A q \in Runs \ {r} : result'[q] = result[q]
    BY <1>1, <1>2 DEF TypeOK
  <2> QED
    BY <1>1, <1>2, <2>1, <2>2, NotOk DEF Connect
<1> QED
  BY <1>2, <1>3, Frame DEF Connect

(* A dump or a listing that fails.                                         *)
LEMMA ErrorRest ==
  ASSUME BackupIInv, NEW r \in Runs, NEW from \in {"dump", "list"},
         EndsWith(r, from, "error"),
         UNCHANGED <<clock, sched, stamp, folder, inode, mtime, mix, written, doomed,
                     good, excused>>
  PROVE  Rest'
<1>1. TypeOK
  BY DEF BackupIInv
<1> USE DEF Goes, EndsWith
<1>2. result'[r] # "ok" /\ \A q \in Runs \ {r} : result'[q] = result[q]
  BY <1>1 DEF TypeOK
<1>3. \A s \in Schedules : Ok(s)' => Ok(s)
  BY <1>1, <1>2, NotOk
<1> QED
  BY <1>3, Frame

(* A killed process leaves its file as it is.                              *)
LEMMA KillRest == ASSUME BackupIInv, NEW r \in Runs, Kill(r) PROVE Rest'
<1> USE DEF runVars, fileVars
<1>1. \A s \in Schedules : Ok(s)' => Ok(s)
  BY NotOk DEF BackupIInv, Kill
<1> QED
  BY <1>1, Frame DEF Kill

(* The row takes a result that the invariant already counts.               *)
LEMMA RecordRest == ASSUME BackupIInv, NEW r \in Runs, Record(r) PROVE Rest'
<1> USE DEF runVars, fileVars, Goes
<1>1. \A s \in Schedules : Ok(s)' => Ok(s)
  BY DEF BackupIInv, TypeOK, Record, Ok
<1> QED
  BY <1>1, Frame DEF Record

(* A run that has deleted what it had to still has its own file.           *)
LEMMA OwnIsBackup ==
  ASSUME BackupIInv, NEW r \in Runs, pc[r] \in {"list", "remove"}, Kept(sched[r])
  PROVE  HasBackup(sched[r])
<1>1. Owns(r) /\ r \in written
  BY DEF BackupIInv, Rest, OwnInv, Writing, Owns
<1>2. PathOf(r) \in Paths /\ PathOf(r)[1] = NameOf[sched[r]]
  BY PathOfRun DEF BackupIInv
<1>3. folder[PathOf(r)] = r /\ r # None /\ mix[r] = {r}
  BY <1>1, ScheduleAssumption DEF Owns
<1> QED
  BY <1>1, <1>2, <1>3 DEF HasBackup, Complete

(* The end of a run that will be recorded ok.                              *)
LEMMA RetainedRest == ASSUME BackupIInv, NEW r \in Runs, Retained(r) PROVE Rest'
<1> USE DEF runVars, fileVars, Goes, EndsWith
<1>1. \A s \in Schedules : Kept(s) /\ Ok(s)' => Ok(s) \/ HasBackup(s)
  <2> SUFFICES ASSUME NEW s \in Schedules, Kept(s), Ok(s)', ~Ok(s) PROVE HasBackup(s)
    OBVIOUS
  <2>1. s = sched[r]
    BY DEF BackupIInv, TypeOK, Retained, Ok
  <2> QED
    BY <2>1, OwnIsBackup DEF Retained
<1> QED
  BY <1>1, Frame DEF Retained

(* A run that starts has no file yet.                                      *)
LEMMA StartRest ==
  ASSUME BackupIInv, NEW r \in Runs, NEW s \in Schedules, NEW v, Start(r, s, v)
  PROVE  Rest'
<1> USE DEF BackupIInv, Rest, fileVars, Goes
<1>1. /\ pc[r] = "idle"
      /\ \A q \in Runs : Writing(q)' => Writing(q) /\ q # r
      /\ \A q \in Runs \ {r} :
            pc'[q] = pc[q] /\ sched'[q] = sched[q] /\ PathOf(q)' = PathOf(q)
      /\ \A q \in Runs : stamp'[q] = stamp[q] \/ stamp'[q] = clock
      /\ \A q \in Runs \ {r} : stamp'[q] = stamp[q]
      /\ UNCHANGED <<clock, folder, inode, mtime, mix, written, doomed, result, good, excused>>
  BY DEF Start, TypeOK, Writing, PathOf
<1>2. \A q \in Runs : Begun(q) => q # r /\ Begun(q)'
  BY <1>1 DEF Begun
<1>3. FolderInv'
  BY <1>1, <1>2 DEF FolderInv, TypeOK, Seconds
<1>4. OwnInv'
  BY <1>1 DEF OwnInv, Owns, Kept
<1>5. DoomInv'
  <2> SUFFICES ASSUME NEW q \in Runs, pc'[q] = "remove"
               PROVE  /\ \A p \in doomed[q] : p[1] \in Claims[sched[q]]
                      /\ \A t \in Schedules :
                            t \notin excused /\ NameOf[t] \in Claims[sched[q]] => t = sched[q]
                      /\ sched[q] \notin excused => OnlyDeletes(q)'
    BY <1>1 DEF DoomInv, Writing
  <2>1. pc[q] = "remove" /\ q # r
    BY <1>1 DEF Writing
  <2>2. ASSUME sched[q] \notin excused PROVE OnlyDeletes(q)'
    BY <1>1, <2>1, <2>2 DEF DoomInv, OnlyDeletes, Writing
  <2> QED
    BY <2>1, <2>2 DEF DoomInv
<1>6. BackupInv'
  <2>1. \A t \in Schedules : Ok(t)' => Ok(t)
    BY <1>1 DEF Ok, Start, TypeOK
  <2> QED
    BY <1>1, <2>1, SameFilesSameBackup DEF BackupInv, Kept
<1> QED
  BY <1>3, <1>4, <1>5, <1>6

(* Time passes.                                                            *)
LEMMA TickRest == ASSUME BackupIInv, Tick PROVE Rest'
<1> USE DEF BackupIInv, Rest
<1>1. /\ clock' = clock + 1
      /\ UNCHANGED <<sched, stamp, pc, folder, inode, mtime, mix, written, doomed,
                     result, good, excused>>
  BY DEF Tick, runVars, fileVars
<1>2. \A q \in Runs : PathOf(q)' = PathOf(q) /\ Begun(q)' = Begun(q) /\ Writing(q)' = Writing(q)
  BY <1>1 DEF PathOf, Begun, Writing
<1>3. FolderInv'
  BY <1>1, <1>2, ScheduleAssumption DEF FolderInv, TypeOK, Seconds
<1>4. OwnInv'
  BY <1>1, <1>2 DEF OwnInv, Owns, Kept
<1>5. DoomInv'
  BY <1>1, <1>2 DEF DoomInv, OnlyDeletes
<1>6. BackupInv'
  BY <1>1, SameFilesSameBackup DEF BackupInv, Kept, Ok
<1> QED
  BY <1>3, <1>4, <1>5, <1>6

-----------------------------------------------------------------------------
(* Steps that write files.                                                 *)

(* Blocks and the end of a dump: the file becomes newer, the run whole.    *)
LEMMA WriteRest ==
  ASSUME BackupIInv, NEW r \in Runs, Write(r) \/ FinishDump(r)
  PROVE  Rest'
<1> USE DEF BackupIInv, Rest
<1>1. /\ pc[r] = "dump"
      /\ pc' \in {pc, [pc EXCEPT ![r] = "list"]}
      /\ mtime' = [mtime EXCEPT ![inode[r]] = clock]
      /\ pc'[r] # "dump" => r \in written'
      /\ written \subseteq written'
      /\ UNCHANGED <<clock, sched, stamp, folder, inode, mix, doomed, result, good, excused>>
  BY DEF Write, FinishDump, runVars, Goes, TypeOK
<1>2. \A q \in Runs :
         /\ PathOf(q)' = PathOf(q) /\ Begun(q)' = Begun(q) /\ Writing(q)' = Writing(q)
         /\ pc'[q] = "remove" <=> pc[q] = "remove"
         /\ pc'[q] = "record" <=> pc[q] = "record"
         /\ q # r => pc'[q] = pc[q]
  BY <1>1 DEF PathOf, Begun, Writing, TypeOK
<1>3. FolderInv'
  BY <1>1, <1>2 DEF FolderInv, TypeOK
<1>4. OwnInv'
  <2> SUFFICES ASSUME NEW q \in Runs, Writing(q), Kept(sched[q]) PROVE Owns(q)'
    BY <1>1, <1>2 DEF OwnInv, Kept
  <2>1. Owns(q)
    BY DEF OwnInv
  <2>2. mtime'[q] = mtime[q] \/ mtime'[q] = clock
    BY <1>1 DEF TypeOK
  <2>3. mtime'[q] >= stamp[q]
    BY <2>1, <2>2 DEF Owns, FolderInv, TypeOK, Seconds
  <2> QED
    BY <1>1, <1>2, <2>1, <2>3 DEF Owns
<1>5. DoomInv'
  BY <1>1, <1>2 DEF DoomInv, OnlyDeletes
<1>6. BackupInv'
  <2>1. \A t \in Schedules : HasBackup(t) => HasBackup(t)'
    BY <1>1 DEF HasBackup, Complete
  <2> QED
    BY <1>1, <1>2, <2>1 DEF BackupInv, Kept, Ok
<1> QED
  BY <1>3, <1>4, <1>5, <1>6

(* A new file is the run's alone; a run that finds one at its path excuses *)
(* the schedules of that name.                                             *)
LEMMA CreateRest == ASSUME BackupIInv, NEW r \in Runs, Create(r) PROVE Rest'
<1> USE DEF BackupIInv, Rest
<1>1. PICK f \in Runs :
        /\ f = IF folder[PathOf(r)] = None THEN r ELSE folder[PathOf(r)]
        /\ folder' = [folder EXCEPT ![PathOf(r)] = f]
        /\ inode' = [inode EXCEPT ![r] = f]
        /\ mix' = [mix EXCEPT ![f] =
                    {r} \cup {q \in Runs : pc[q] = "dump" /\ inode[q] = f}]
        /\ mtime' = [mtime EXCEPT ![f] = clock]
        /\ excused' = IF f = r THEN excused
                      ELSE excused \cup {s \in Schedules : NameOf[s] = NameOf[sched[r]]}
  BY CreateEffect
<1>2. /\ pc[r] = "create" /\ pc' = [pc EXCEPT ![r] = "dump"]
      /\ UNCHANGED <<clock, sched, stamp, written, doomed, result, good>>
  BY CreateEffect
<1>3. /\ sched[r] \in Schedules /\ PathOf(r) \in Paths
      /\ PathOf(r)[1] = NameOf[sched[r]]
  BY <1>2, PathOfRun
<1>4. \A q \in Runs :
         /\ PathOf(q)' = PathOf(q) /\ (Begun(q) => Begun(q)')
         /\ Writing(q)' => Writing(q) \/ q = r
         /\ q # r => pc'[q] = pc[q]
  BY <1>2 DEF PathOf, Begun, Writing, TypeOK
<1>5. /\ Begun(f)' /\ PathOf(f) = PathOf(r)
      /\ \A p \in Paths : folder[p] # None /\ folder[p] = f => p = PathOf(r) /\ f # r
      /\ \A q \in Runs : inode[q] # r
      /\ f # r => folder[PathOf(r)] = f
  <2>1. ~Begun(r) /\ r # None
    BY <1>2, ScheduleAssumption DEF Begun
  <2>2. Begun(r)'
    BY <1>2 DEF Begun, TypeOK
  <2>3. f # r => Begun(f) /\ PathOf(f) = PathOf(r)
    BY <1>1, <1>3 DEF FolderInv
  <2> QED
    BY <1>1, <1>3, <1>4, <2>1, <2>2, <2>3 DEF FolderInv
<1>6. /\ folder'[PathOf(r)] = f
      /\ \A p \in Paths : p # PathOf(r) => folder'[p] = folder[p]
      /\ \A p \in Paths : folder[p] # None => folder'[p] = folder[p]
      /\ inode'[r] = f /\ \A q \in Runs \ {r} : inode'[q] = inode[q]
      /\ \A q \in Runs \ {f} : mix'[q] = mix[q] /\ mtime'[q] = mtime[q]
      /\ mtime'[f] = clock
      /\ excused \subseteq excused'
      /\ f # r => \A s \in Schedules : NameOf[s] = NameOf[sched[r]] => s \in excused'
  BY <1>1, <1>3 DEF TypeOK
<1>7. FolderInv'
  <2>1. \A q \in Runs : Writing(q)' => inode'[q] \in Runs
    BY <1>4, <1>6 DEF FolderInv
  <2>2. \A q \in Runs : Begun(q) \/ q = f => pc'[q] \notin {"idle", "connect", "create"}
    BY <1>4, <1>5 DEF Begun
  <2>3. ASSUME NEW q \in Runs, inode'[q] # None
        PROVE  pc'[inode'[q]] \notin {"idle", "connect", "create"}
    BY <1>6, <2>2, <2>3 DEF FolderInv, TypeOK
  <2>4. ASSUME NEW p \in Paths, folder'[p] # None
        PROVE  /\ <<NameOf[sched[folder'[p]]], stamp[folder'[p]]>> = p
               /\ pc'[folder'[p]] \notin {"idle", "connect", "create"}
    <3>1. CASE p = PathOf(r)
      BY <1>5, <1>6, <2>2, <3>1 DEF PathOf
    <3>2. CASE p # PathOf(r)
      <4>1. folder[p] # None /\ folder'[p] = folder[p] /\ folder[p] \in Runs
        BY <1>6, <2>4, <3>2 DEF TypeOK
      <4>2. PathOf(folder[p]) = p /\ Begun(folder[p])
        BY <4>1 DEF FolderInv
      <4> QED
        BY <2>2, <4>1, <4>2 DEF PathOf
    <3> QED
      BY <3>1, <3>2
  <2>5. \A q \in Runs : stamp'[q] <= clock'
    BY <1>2 DEF FolderInv
  <2> QED
    BY <1>2, <2>1, <2>3, <2>4, <2>5 DEF FolderInv, Begun, PathOf
<1>8. OwnInv'
  <2> SUFFICES ASSUME NEW q \in Runs, Writing(q)', Kept(sched[q])' PROVE Owns(q)'
    BY DEF OwnInv
  <2>0. Kept(sched[q])
    BY <1>2, <1>6 DEF Kept
  <2>1. CASE q = r
    <3>1. f = r
      BY <1>2, <1>3, <1>6, <2>1 DEF Kept
    <3>2. mix'[r] = {r}
      BY <1>1, <1>5, <3>1 DEF TypeOK
    <3>3. clock >= stamp[r]
      BY DEF FolderInv, TypeOK, Seconds
    <3> QED
      BY <1>2, <1>4, <1>6, <2>1, <3>1, <3>2, <3>3 DEF Owns, TypeOK
  <2>2. CASE q # r
    <3>1. Writing(q) /\ Owns(q)
      BY <1>4, <2>0, <2>2 DEF OwnInv
    <3>2. PathOf(q) \in Paths /\ PathOf(q)[1] = NameOf[sched[q]] /\ sched[q] \in Schedules
      BY <3>1, PathOfRun DEF Writing
    <3>3. q # f
      BY <1>2, <1>3, <1>5, <1>6, <2>2, <3>2 DEF Kept
    <3>4. folder'[PathOf(q)] = q
      BY <1>6, <3>1, <3>2, ScheduleAssumption DEF Owns
    <3> QED
      BY <1>2, <1>4, <1>6, <2>2, <3>1, <3>3, <3>4 DEF Owns
  <2> QED
    BY <2>1, <2>2
<1>9. DoomInv'
  <2> SUFFICES ASSUME NEW q \in Runs, pc'[q] = "remove"
               PROVE  /\ \A p \in doomed[q] : p[1] \in Claims[sched[q]]
                      /\ \A t \in Schedules :
                            t \notin excused' /\ NameOf[t] \in Claims[sched[q]] => t = sched[q]
                      /\ sched[q] \notin excused' => OnlyDeletes(q)'
    BY <1>2 DEF DoomInv
  <2>1. pc[q] = "remove" /\ q # r
    BY <1>2 DEF TypeOK
  <2>2. ASSUME sched[q] \notin excused' PROVE OnlyDeletes(q)'
    <3>1. OnlyDeletes(q) /\ doomed[q] \subseteq Paths
      BY <1>6, <2>1, <2>2 DEF DoomInv, TypeOK
    <3>2. \A t \in Runs : pc'[t] = "remove" => pc[t] = "remove"
      BY <1>2 DEF TypeOK
    <3>3. \A p \in doomed[q] : folder[p] # None => folder'[p] # None
      BY <1>6, <3>1
    <3>4. sched[r] = sched[q] => PathOf(r) \notin doomed[q]
      <4> SUFFICES ASSUME sched[r] = sched[q], PathOf(r) \in doomed[q] PROVE FALSE
        OBVIOUS
      <4>1. folder[PathOf(r)] # None
        BY <1>3, <3>1 DEF OnlyDeletes
      <4>2. f # r
        BY <1>1, <1>3, <1>5, <4>1
      <4> QED
        BY <1>3, <1>6, <2>2, <4>2
    <3>5. \A t \in Runs \ {q} : Writing(t)' /\ sched[t] = sched[q] => PathOf(t) \notin doomed[q]
      BY <1>4, <3>1, <3>4 DEF OnlyDeletes
    <3> QED
      BY <1>2, <1>4, <3>1, <3>2, <3>3, <3>5 DEF OnlyDeletes
  <2> QED
    BY <1>6, <2>1, <2>2 DEF DoomInv
<1>10. BackupInv'
  <2> SUFFICES ASSUME NEW s \in Schedules, Kept(s)', Ok(s)' PROVE HasBackup(s)'
    BY DEF BackupInv
  <2>1. Kept(s) /\ Ok(s)
    BY <1>2, <1>6 DEF Kept, Ok, TypeOK
  <2>2. PICK p \in Paths : p[1] = NameOf[s] /\ folder[p] # None /\ Complete(folder[p])
    BY <2>1 DEF BackupInv, HasBackup
  <2>3. folder[p] # f /\ folder[p] \in Runs
    BY <1>3, <1>5, <1>6, <2>2 DEF Kept, TypeOK
  <2>4. folder'[p] = folder[p] /\ Complete(folder[p])'
    BY <1>2, <1>6, <2>2, <2>3 DEF Complete
  <2> QED
    BY <2>2, <2>4 DEF HasBackup
<1> QED
  BY <1>7, <1>8, <1>9, <1>10

-----------------------------------------------------------------------------
(* The policy.                                                             *)

(* A run that is alone with its file does not doom it: it is the newest,   *)
(* the policy keeps one at least, and it is no older than the run.         *)
LEMMA OwnFileSpared ==
  ASSUME BackupIInv, NEW r \in Runs, pc[r] = "list",
         Kept(sched[r]), sched[r] \notin Mixed(r)
  PROVE  PathOf(r) \notin ToDelete(r)
<1> USE DEF BackupIInv, Rest
<1>1. /\ sched[r] \in Schedules /\ PathOf(r) \in Paths
      /\ NameOf[sched[r]] \in Claims[sched[r]]
  BY PathOfRun, ScheduleAssumption
<1>2. folder[PathOf(r)] = r /\ mtime[r] >= stamp[r] /\ r # None
  BY ScheduleAssumption DEF OwnInv, Owns, Writing
<1>3. /\ mtime[r] \in Nat /\ stamp[r] \in Nat
      /\ \A p \in Paths : p[2] \in Nat /\ p[1] \in Nat
      /\ \A p \in Listed(r) : p \in Paths /\ folder[p] \in Runs /\ mtime[folder[p]] \in Nat
  BY ScheduleAssumption DEF TypeOK, Seconds, Listed, Paths
<1>4. \A p \in Listed(r) \ {PathOf(r)} : mtime[folder[p]] < mtime[r]
  BY <1>1, <1>2, <1>3 DEF Mixed
<1>5. \A p \in Listed(r) : ~Before(p, PathOf(r))
  <2> SUFFICES ASSUME NEW p \in Listed(r), Before(p, PathOf(r)) PROVE FALSE
    OBVIOUS
  <2>1. CASE p = PathOf(r)
    BY <1>1, <1>2, <1>3, <2>1 DEF Before
  <2>2. CASE p # PathOf(r)
    BY <1>2, <1>3, <1>4, <2>2 DEF Before
  <2> QED
    BY <2>1, <2>2
<1>6. ~OverCount(r, PathOf(r))
  <2>1. {p \in Listed(r) : Before(p, PathOf(r))} = {}
    BY <1>5
  <2>2. Keep[sched[r]] # None => Keep[sched[r]] \in Nat \ {0}
    BY <1>1, ScheduleAssumption DEF Kept
  <2> QED
    BY <2>1, <2>2, FS_EmptySet DEF OverCount
<1>7. ~TooOld(r, PathOf(r))
  <2>1. MaxAge[sched[r]] # None => MaxAge[sched[r]] \in Nat
    BY <1>1, ScheduleAssumption
  <2> QED
    BY <1>2, <1>3, <2>1 DEF TooOld
<1> QED
  BY <1>6, <1>7 DEF ToDelete

(* A listing dooms files of the names its schedule claims, and excuses the *)
(* schedules whose files it mixes up.                                      *)
LEMMA ListRest == ASSUME BackupIInv, NEW r \in Runs, List(r) PROVE Rest'
<1> USE DEF BackupIInv, Rest
<1>1. CASE EndsWith(r, "list", "error") /\ UNCHANGED <<doomed, excused>>
  BY <1>1, ErrorRest DEF List, runVars, fileVars
<1>2. CASE /\ Goes(r, "list", "remove")
           /\ doomed' = [doomed EXCEPT ![r] = ToDelete(r)]
           /\ excused' = excused \cup Mixed(r)
           /\ UNCHANGED result
  <2>1. /\ pc[r] = "list" /\ pc'[r] = "remove"
        /\ \A q \in Runs \ {r} : pc'[q] = pc[q] /\ doomed'[q] = doomed[q]
        /\ doomed'[r] = ToDelete(r)
        /\ UNCHANGED <<clock, sched, stamp, folder, inode, mtime, mix, written, result, good>>
    BY <1>2 DEF List, runVars, fileVars, Goes, TypeOK
  <2>2. \A q \in Runs :
           PathOf(q)' = PathOf(q) /\ Begun(q)' = Begun(q) /\ Writing(q)' = Writing(q)
    BY <2>1 DEF PathOf, Begun, Writing
  <2>3. /\ sched[r] \in Schedules /\ NameOf[sched[r]] \in Claims[sched[r]]
        /\ \A s \in Schedules \ {sched[r]} :
              NameOf[s] \in Claims[sched[r]] => s \in excused'
        /\ \A q \in Runs \ {r} :
              Writing(q) /\ sched[q] = sched[r] => sched[r] \in excused'
    BY <1>2, <2>1, PathOfRun, ScheduleAssumption DEF Mixed, Writing
  <2>4. FolderInv'
    <3>1. \A q \in Runs :
             /\ Writing(q)' => Writing(q)
             /\ pc[q] \notin {"idle", "connect", "create"} =>
                  pc'[q] \notin {"idle", "connect", "create"}
      BY <2>1, <2>2
    <3>2. inode \in [Runs -> Runs \cup {None}] /\ folder \in [Paths -> Runs \cup {None}]
      BY DEF TypeOK
    <3> QED
      BY <2>1, <3>1, <3>2 DEF FolderInv, PathOf, Begun
  <2>5. OwnInv'
    <3> SUFFICES ASSUME NEW q \in Runs, Writing(q), Kept(sched[q])' PROVE Owns(q)'
      BY <2>1, <2>2 DEF OwnInv
    <3>1. Kept(sched[q]) /\ Owns(q)
      BY <1>2, <2>1 DEF Kept, OwnInv
    <3>2. CASE q = r
      <4>1. PathOf(r) \notin ToDelete(r)
        BY <1>2, <2>1, <3>1, <3>2, OwnFileSpared DEF Kept
      <4> QED
        BY <2>1, <2>2, <3>1, <3>2, <4>1 DEF Owns
    <3>3. CASE q # r
      BY <2>1, <2>2, <3>1, <3>3 DEF Owns
    <3> QED
      BY <3>2, <3>3
  <2>6. DoomInv'
    <3> SUFFICES ASSUME NEW q \in Runs, pc'[q] = "remove"
                 PROVE  /\ \A p \in doomed'[q] : p[1] \in Claims[sched[q]]
                        /\ \A t \in Schedules :
                              t \notin excused' /\ NameOf[t] \in Claims[sched[q]] => t = sched[q]
                        /\ sched[q] \notin excused' => OnlyDeletes(q)'
      BY <2>1 DEF DoomInv
    <3>1. CASE q = r
      <4>1. \A p \in doomed'[r] : p[1] \in Claims[sched[r]] /\ folder[p] # None
        BY <2>1 DEF ToDelete, Listed
      <4>2. ASSUME sched[r] \notin excused' PROVE OnlyDeletes(r)'
        BY <2>1, <2>2, <2>3, <4>1, <4>2 DEF OnlyDeletes, Writing
      <4> QED
        BY <2>3, <3>1, <4>1, <4>2
    <3>2. CASE q # r
      <4>1. pc[q] = "remove"
        BY <2>1, <3>2
      <4>2. ASSUME sched[q] \notin excused' PROVE OnlyDeletes(q)'
        <5>1. OnlyDeletes(q)
          BY <1>2, <4>1, <4>2 DEF DoomInv
        <5>2. sched[q] # sched[r]
          BY <2>3, <3>2, <4>1, <4>2 DEF Writing
        <5> QED
          BY <2>1, <2>2, <3>2, <5>1, <5>2 DEF OnlyDeletes
      <4> QED
        BY <1>2, <2>1, <3>2, <4>1, <4>2 DEF DoomInv
    <3> QED
      BY <3>1, <3>2
  <2>7. BackupInv'
    <3>1. \A s \in Schedules : (Kept(s)' => Kept(s)) /\ (Ok(s)' => Ok(s))
      BY <1>2, <2>1 DEF Kept, Ok
    <3> QED
      BY <2>1, <3>1, SameFilesSameBackup DEF BackupInv
  <2> QED
    BY <2>4, <2>5, <2>6, <2>7
<1> QED
  BY <1>1, <1>2 DEF List

(* A removal takes no file of a run that keeps its own, and no last backup *)
(* of a schedule: the run that removes has written one.                    *)
LEMMA RemoveRest == ASSUME BackupIInv, NEW r \in Runs, Remove(r) PROVE Rest'
<1> USE DEF BackupIInv, Rest
<1>1. PICK p \in doomed[r] :
        /\ doomed' = [doomed EXCEPT ![r] = @ \ {p}]
        /\ folder' = [folder EXCEPT ![p] = None]
  BY DEF Remove
<1>2. /\ pc[r] = "remove" /\ p \in Paths /\ p[1] \in Claims[sched[r]]
      /\ sched[r] \in Schedules
      /\ UNCHANGED <<clock, sched, stamp, pc, inode, mtime, mix, written, result, good, excused>>
  BY PathOfRun DEF Remove, runVars, DoomInv, TypeOK
<1>3. \A q \in Runs :
         /\ PathOf(q)' = PathOf(q) /\ Begun(q)' = Begun(q) /\ Writing(q)' = Writing(q)
         /\ doomed'[q] \subseteq doomed[q]
  BY <1>1, <1>2 DEF PathOf, Begun, Writing, TypeOK
<1>4. /\ folder'[p] = None
      /\ \A t \in Paths : t # p => folder'[t] = folder[t]
      /\ p \notin doomed'[r]
  BY <1>1, <1>2 DEF TypeOK
<1>5. \A s \in Schedules : s \notin excused /\ NameOf[s] = p[1] => s = sched[r] /\ OnlyDeletes(r)
  BY <1>2 DEF DoomInv
<1>6. FolderInv'
  <2>1. \A t \in Paths : folder'[t] # None => folder'[t] = folder[t]
    BY <1>4
  <2> QED
    BY <1>2, <1>3, <2>1 DEF FolderInv, PathOf, Begun
<1>7. ASSUME NEW q \in Runs, Writing(q), Kept(sched[q]) PROVE Owns(q)'
  <2>1. Owns(q)
    BY <1>7 DEF OwnInv
  <2>2. PathOf(q) \in Paths /\ PathOf(q)[1] = NameOf[sched[q]] /\ sched[q] \in Schedules
    BY <1>7, PathOfRun DEF Writing
  <2>3. PathOf(q) # p
    BY <1>1, <1>2, <1>5, <1>7, <2>1, <2>2 DEF Kept, OnlyDeletes, Owns
  <2> QED
    BY <1>2, <1>3, <1>4, <2>1, <2>2, <2>3 DEF Owns
<1>8. OwnInv'
  BY <1>2, <1>3, <1>7 DEF OwnInv, Kept
<1>9. DoomInv'
  <2> SUFFICES ASSUME NEW q \in Runs, pc[q] = "remove"
               PROVE  /\ \A t \in doomed'[q] : t[1] \in Claims[sched[q]]
                      /\ \A t \in Schedules :
                            t \notin excused /\ NameOf[t] \in Claims[sched[q]] => t = sched[q]
                      /\ sched[q] \notin excused => OnlyDeletes(q)'
    BY <1>2 DEF DoomInv
  <2>1. ASSUME sched[q] \notin excused PROVE OnlyDeletes(q)'
    <3>1. OnlyDeletes(q) /\ doomed[q] \subseteq Paths /\ sched[q] \in Schedules
      BY <2>1, PathOfRun DEF DoomInv, TypeOK
    <3>2. ASSUME NEW t \in doomed'[q], t[1] = NameOf[sched[q]] PROVE folder'[t] # None
      <4>1. t = p => q = r
        BY <1>2, <1>5, <2>1, <3>1, <3>2 DEF OnlyDeletes
      <4> QED
        BY <1>3, <1>4, <3>1, <3>2, <4>1 DEF OnlyDeletes
    <3> QED
      BY <1>2, <1>3, <3>1, <3>2 DEF OnlyDeletes
  <2> QED
    BY <1>3, <2>1 DEF DoomInv
<1>10. BackupInv'
  <2> SUFFICES ASSUME NEW s \in Schedules, Kept(s), Ok(s) PROVE HasBackup(s)'
    BY <1>2 DEF BackupInv, Kept, Ok
  <2>1. PICK t \in Paths : t[1] = NameOf[s] /\ folder[t] # None /\ Complete(folder[t])
    BY DEF BackupInv, HasBackup
  <2>2. CASE t # p
    BY <1>2, <1>4, <2>1, <2>2 DEF HasBackup, Complete
  <2>3. CASE t = p
    <3>1. s = sched[r]
      BY <1>5, <2>1, <2>3 DEF Kept
    <3>2. Owns(r)' /\ PathOf(r) \in Paths /\ PathOf(r)[1] = NameOf[s]
      BY <1>2, <1>7, <3>1, PathOfRun DEF Writing
    <3>3. /\ folder'[PathOf(r)] = r /\ r # None
          /\ mix'[r] = {r} /\ r \in written'
      BY <1>2, <1>3, <3>2, ScheduleAssumption DEF Owns
    <3> QED
      BY <3>2, <3>3 DEF HasBackup, Complete
  <2> QED
    BY <2>2, <2>3
<1> QED
  BY <1>6, <1>8, <1>9, <1>10

-----------------------------------------------------------------------------
(* All of it holds at the start.                                           *)
LEMMA InitRest == Init => Rest
<1> SUFFICES ASSUME Init PROVE Rest
  OBVIOUS
<1>1. FolderInv
  BY ScheduleAssumption DEF Init, FolderInv, Writing, Seconds
<1>2. OwnInv /\ DoomInv
  BY DEF Init, OwnInv, DoomInv, Writing
<1>3. BackupInv
  BY DEF Init, BackupInv, Ok
<1> QED
  BY <1>1, <1>2, <1>3 DEF Rest

(* Every step keeps it.                                                    *)
LEMMA NextRest == BackupIInv /\ [Next]_vars => Rest'
<1> SUFFICES ASSUME BackupIInv, [Next]_vars PROVE Rest'
  OBVIOUS
<1>1. ASSUME NEW r \in Runs, NEW s \in Schedules, NEW v \in {"app", "cli"}, Start(r, s, v)
      PROVE  Rest'
  BY <1>1, StartRest
<1>2. ASSUME NEW r \in Runs, Step(r) PROVE Rest'
  <2>1. CASE FailDump(r)
    BY <2>1, ErrorRest DEF FailDump, runVars, fileVars
  <2> QED
    BY <1>2, <2>1, ConnectRest, CreateRest, WriteRest, ListRest, RemoveRest, RetainedRest,
       RecordRest, KillRest DEF Step
<1>3. CASE Tick
  BY <1>3, TickRest
<1>4. CASE UNCHANGED vars
  BY <1>4 DEF vars, runVars, fileVars, BackupIInv, Rest, FolderInv, OwnInv, Owns, DoomInv,
    OnlyDeletes, BackupInv, Kept, Writing, Begun, Ok, HasBackup, Complete, PathOf
<1> QED
  BY <1>1, <1>2, <1>3, <1>4 DEF Next

(* The folder of a schedule that was recorded ok once holds a complete     *)
(* backup of it: a run dooms files only when its own is whole, in its      *)
(* place and the newest.                                                   *)
THEOREM BackupsRemain == Spec => []ABackupRemains
<1>1. Init => BackupIInv
  BY InitType, InitRest DEF BackupIInv
<1>2. BackupIInv /\ [Next]_vars => BackupIInv'
  BY NextType, NextRest DEF BackupIInv
<1>3. BackupIInv => ABackupRemains
  BY DEF BackupIInv, TypeOK, Rest, BackupInv, Kept, Ok, ABackupRemains
<1> QED
  BY <1>1, <1>2, <1>3, PTL DEF Spec
=============================================================================
