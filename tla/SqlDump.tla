------------------------------ MODULE SqlDump ------------------------------
(***************************************************************************)
(* The SQL dump (src-tauri/src/sql_dump.rs).  run_serial_dump writes table *)
(* after table straight into the output; run_parallel_dump has workers     *)
(* stage tables in temp files, in any order, while merge_stream puts them  *)
(* into the output in the order of the work list.                          *)
(*                                                                         *)
(* A table is its place in the work list.  The output is the sequence of   *)
(* the units written: "table" (marker @BM:T), "create", "data" (@BM:D and  *)
(* the INSERTs), "index" (a statement of the @BM:I region) and "footer".   *)
(* A shard, the data of one range of a table, has one row or none.         *)
(***************************************************************************)
EXTENDS Integers, Sequences, FiniteSets, Functions

CONSTANTS
  Workers,         (* the table workers of run_parallel_dump               *)
  NTables,         (* length of the work list                              *)
  Shards,          (* Shards[t]: shards of t's data; 0 is an empty table   *)
  Indexed          (* tables with secondary indexes                        *)

Tables == 1..NTables

(* run_parallel_dump clamps the number of its workers to 1..8.             *)
ASSUME WorkersExist == Workers # {}
ASSUME NTablesIsNat == NTables \in Nat
ASSUME ShardsIsNat == Shards \in [Tables -> Nat]
ASSUME IndexedAreTables == Indexed \subseteq Tables

VARIABLES
  conf,            (* serial or parallel, content, deferred indexes        *)
  stop,            (* the stop flag of the TransferControl                 *)
  next,            (* work list position of the next table                 *)
  pc, art,         (* each worker: its point, the artifact in its hands    *)
  channel,         (* artifacts sent and not yet received by the merger    *)
  main,            (* where run_dump is                                    *)
  buffer, want,    (* merge_stream: reorder buffer, next idx to write      *)
  file,            (* the output                                           *)
  deferred,        (* all_deferred: tables whose indexes are still to come *)
  tally,           (* total_rows, tables_done, failed                      *)
  reported,        (* sql_dump:table_done of each table                    *)
  result           (* what run_dump returned                               *)

workVars == <<next, pc, art>>
mergeVars == <<main, buffer, want>>
outVars == <<file, deferred, tally>>
vars == <<conf, stop, workVars, channel, mergeVars, outVars, reported, result>>

Confs == [serial: BOOLEAN, content: {"structure", "data", "both"}, defer: BOOLEAN]

(* TableArtifact: what the dump of one table came to.                      *)
Artifact == [table: Tables, create: BOOLEAN, data: BOOLEAN, rows: Nat,
             deferred: BOOLEAN, error: BOOLEAN]
NoArtifact == [table |-> 0, create |-> FALSE, data |-> FALSE, rows |-> 0,
               deferred |-> FALSE, error |-> FALSE]

Init ==
  /\ conf \in Confs
  /\ stop = FALSE
  /\ next = 1
  /\ pc = [w \in Workers |-> IF conf.serial THEN "done" ELSE "recv"]
  /\ art = [w \in Workers |-> NoArtifact]
  /\ channel = <<>>
  /\ main = "open" /\ buffer = {} /\ want = 1
  /\ file = <<>> /\ deferred = <<>>
  /\ tally = [rows |-> 0, done |-> 0, failed |-> 0]
  /\ reported = [t \in Tables |-> "no"]
  /\ result = "none"

RequestStop ==
  /\ ~stop /\ result = "none"
  /\ stop' = TRUE
  /\ UNCHANGED <<conf, workVars, channel, mergeVars, outVars, reported, result>>

-----------------------------------------------------------------------------
(* What the dump of table t can come to.                                   *)

(* CREATE without the secondary indexes, which are set aside.              *)
Strips(t) == conf.defer /\ conf.content # "data" /\ t \in Indexed
DataOf(t) == IF conf.content = "structure" THEN {} ELSE 1..Shards[t]

Art(t, create, data, rows, defers, error) ==
  [table |-> t, create |-> create, data |-> data, rows |-> rows,
   deferred |-> defers, error |-> error]

(* The DDL cannot be read or written; the rows cannot be counted; some     *)
(* shards end, each with a row or none, and the others fail.  Failed       *)
(* shards are left out, and so is an only shard without a row.             *)
NoDdl(t) == {Art(t, FALSE, FALSE, 0, d, TRUE) : d \in {FALSE, Strips(t)}}
NoCount(t) == {Art(t, conf.content # "data", FALSE, 0, Strips(t), TRUE)}
ShardsEnd(t, ended) ==
  {Art(t, conf.content # "data", (IF Shards[t] = 1 THEN full ELSE ended) # {},
       Cardinality(full), Strips(t), ended # DataOf(t)) : full \in SUBSET ended}

(* dump_table_to_temp.                                                     *)
Staged(t) ==
  UNION {IF conf.content = "data" THEN {} ELSE NoDdl(t),
         IF conf.content = "structure" THEN {} ELSE NoCount(t),
         UNION {ShardsEnd(t, ended) : ended \in SUBSET DataOf(t)}}

(* dump_table_direct, which reads the data as one shard.  An error loses   *)
(* the indexes set aside and the count, not what is in the output already. *)
Direct(t) ==
  LET create == conf.content # "data"
      data == DataOf(t) # {}
      rows == IF data THEN {0, 1} ELSE {0}
  IN {Art(t, c, FALSE, 0, FALSE, TRUE) : c \in {FALSE, conf.content = "both"}}
     \cup {Art(t, create, data, r, Strips(t), FALSE) : r \in rows}
     \cup (IF data THEN {Art(t, create, TRUE, r, FALSE, TRUE) : r \in rows} ELSE {})

-----------------------------------------------------------------------------
(* The workers of run_parallel_dump.                                       *)

(* Mutant: one table too many.                                             *)
QueueHasOneMore == next <= NTables + 1
QueueHasNext == next <= NTables

TakeTable(w) ==
  /\ pc[w] = "recv" /\ QueueHasNext
  /\ art' = [art EXCEPT ![w] = [NoArtifact EXCEPT !.table = next]]
  /\ next' = next + 1
  /\ pc' = [pc EXCEPT ![w] = "gate"]
  /\ UNCHANGED <<conf, stop, channel, mergeVars, outVars, reported, result>>

QueueEmpty(w) ==
  /\ pc[w] = "recv" /\ ~QueueHasNext
  /\ pc' = [pc EXCEPT ![w] = "done"]
  /\ UNCHANGED <<conf, stop, next, art, channel, mergeVars, outVars, reported,
                 result>>

(* check(): go on, or leave the loop and drop the table.                   *)
PassGate(w) ==
  /\ pc[w] = "gate"
  /\ pc' = [pc EXCEPT ![w] = IF stop THEN "done" ELSE "dump"]
  /\ UNCHANGED <<conf, stop, next, art, channel, mergeVars, outVars, reported,
                 result>>

(* The table is staged, reported and sent to the merger.  The receiver     *)
(* lives as long as run_parallel_dump, so the send succeeds.               *)
StageTable(w) ==
  /\ pc[w] = "dump"
  /\ \E a \in Staged(art[w].table) :
       /\ art' = [art EXCEPT ![w] = a]
       /\ reported' = [reported EXCEPT ![a.table] = IF a.error THEN "error" ELSE "ok"]
  /\ pc' = [pc EXCEPT ![w] = "send"]
  /\ UNCHANGED <<conf, stop, next, channel, mergeVars, outVars, result>>

SendArtifact(w) ==
  /\ pc[w] = "send"
  /\ channel' = Append(channel, art[w])
  /\ pc' = [pc EXCEPT ![w] = "recv"]
  /\ UNCHANGED <<conf, stop, next, art, mergeVars, outVars, reported, result>>

-----------------------------------------------------------------------------
(* run_dump itself: merge_stream, or the loop of run_serial_dump.          *)

Units == [what: {"table", "create", "data", "index", "footer"},
          of: Tables \cup {0}, rows: Nat]
Unit(what, t, rows) == [what |-> what, of |-> t, rows |-> rows]
When(b, s) == IF b THEN s ELSE <<>>

(* merge_table.                                                            *)
UnitsOf(a) ==
  <<Unit("table", a.table, 0)>>
    \o When(a.create, <<Unit("create", a.table, 0)>>)
    \o When(a.data, <<Unit("data", a.table, a.rows)>>)

(* The totals once one more table is written.                              *)
Counted(rows, error) ==
  [rows |-> tally.rows + rows,
   done |-> tally.done + 1,
   failed |-> tally.failed + IF error THEN 1 ELSE 0]

OpenSink ==
  /\ main = "open"
  /\ main' = IF conf.serial THEN "table" ELSE "recv"
  /\ UNCHANGED <<conf, stop, workVars, channel, buffer, want, outVars, reported,
                 result>>

(* One turn of the loop of run_serial_dump.                                *)
SerialTable ==
  /\ main = "table" /\ next <= NTables /\ ~stop
  /\ next' = next + 1
  /\ \E a \in Direct(next) :
       /\ file' = file \o UnitsOf(a)
       /\ deferred' = deferred \o When(a.deferred, <<next>>)
       /\ tally' = Counted(IF a.error THEN 0 ELSE a.rows, a.error)
       /\ reported' = [reported EXCEPT ![next] = IF a.error THEN "error" ELSE "ok"]
  /\ UNCHANGED <<conf, stop, pc, art, channel, mergeVars, result>>

SerialEnds ==
  /\ main = "table" /\ (next > NTables \/ stop)
  /\ main' = "tail"
  /\ UNCHANGED <<conf, stop, workVars, channel, buffer, want, outVars, reported,
                 result>>

ReceiveArtifact ==
  /\ main = "recv" /\ channel # <<>>
  /\ buffer' = buffer \cup {Head(channel)}
  /\ channel' = Tail(channel)
  /\ main' = "drain"
  /\ UNCHANGED <<conf, stop, workVars, want, outVars, reported, result>>

(* Artifact a goes into the output.                                        *)
Merge(a) ==
  /\ file' = file \o UnitsOf(a)
  /\ deferred' = deferred \o When(a.deferred, <<a.table>>)
  /\ tally' = Counted(a.rows, a.error)
  /\ buffer' = buffer \ {a}

(* The artifact that may be written next.  Mutant: any that has arrived.   *)
AnyBuffered(a) == a \in buffer
IsNext(a) == a \in buffer /\ a.table = want

(* Every contiguous artifact from want upward.                             *)
DrainNext ==
  /\ main = "drain"
  /\ \E a \in buffer : IsNext(a) /\ Merge(a)
  /\ want' = want + 1
  /\ UNCHANGED <<conf, stop, workVars, channel, main, reported, result>>

Drained ==
  /\ main = "drain"
  /\ \A a \in buffer : ~IsNext(a)
  /\ main' = "recv"
  /\ UNCHANGED <<conf, stop, workVars, channel, buffer, want, outVars, reported,
                 result>>

(* Mutants: one sender gone is enough; run_parallel_dump keeps its own.    *)
FirstSenderGone == \E w \in Workers : pc[w] = "done"
OwnSenderKept == FALSE
SendersGone == \A w \in Workers : pc[w] = "done"

ChannelCloses ==
  /\ main = "recv" /\ channel = <<>> /\ SendersGone
  /\ main' = "rest"
  /\ UNCHANGED <<conf, stop, workVars, channel, buffer, want, outVars, reported,
                 result>>

(* Artifacts behind a gap that a stop has left, in order.  Mutant: they    *)
(* are dropped.                                                            *)
ForgetRest ==
  /\ main = "rest"
  /\ main' = "tail"
  /\ UNCHANGED <<conf, stop, workVars, channel, buffer, want, outVars, reported,
                 result>>
MergeRest ==
  /\ main = "rest"
  /\ IF buffer = {}
       THEN main' = "tail" /\ UNCHANGED <<buffer, outVars>>
       ELSE /\ UNCHANGED main
            /\ \E a \in buffer : (\A b \in buffer : a.table <= b.table) /\ Merge(a)
  /\ UNCHANGED <<conf, stop, workVars, channel, want, reported, result>>

(* write_deferred_indexes.  Mutant: nothing is written after a stop.       *)
IndexesUnlessStopped == When(~stop, [i \in DOMAIN deferred |-> Unit("index", deferred[i], 0)])
Indexes == [i \in DOMAIN deferred |-> Unit("index", deferred[i], 0)]

(* write_deferred_indexes and write_footer_and_finish.                     *)
WriteTail ==
  /\ main = "tail"
  /\ file' = (file \o Indexes) \o <<Unit("footer", 0, 0)>>
  /\ main' = "written"
  /\ UNCHANGED <<conf, stop, workVars, channel, buffer, want, deferred, tally,
                 reported,
                 result>>

(* A write to the output fails: run_dump will return the error, but first  *)
(* it joins its workers.                                                   *)
SinkFails ==
  /\ \/ main \in {"open", "tail"}
     \/ main = "table" /\ next <= NTables /\ ~stop
     \/ main = "drain" /\ \E a \in buffer : IsNext(a)
     \/ main = "rest" /\ buffer # {}
  /\ main' = "failed"
  /\ UNCHANGED <<conf, stop, workVars, channel, buffer, want, outVars, reported,
                 result>>

JoinWorkers ==
  /\ main \in {"written", "failed"} /\ SendersGone
  /\ result' = IF main = "written" THEN "ok" ELSE "err"
  /\ main' = "returned"
  /\ UNCHANGED <<conf, stop, workVars, channel, buffer, want, outVars, reported>>

-----------------------------------------------------------------------------
Worker(w) ==
  TakeTable(w) \/ QueueEmpty(w) \/ PassGate(w) \/ StageTable(w) \/ SendArtifact(w)
Merger ==
  \/ OpenSink \/ SerialTable \/ SerialEnds
  \/ ReceiveArtifact \/ DrainNext \/ Drained \/ ChannelCloses \/ MergeRest
  \/ WriteTail \/ JoinWorkers
Finished == main = "returned" /\ UNCHANGED vars

Next ==
  \/ RequestStop
  \/ \E w \in Workers : Worker(w)
  \/ Merger
  \/ SinkFails
  \/ Finished

Spec == Init /\ [][Next]_vars

(* Tokio runs every task, and a statement or a write ends or fails.        *)
FairSpec == Spec /\ WF_vars(Merger) /\ \A w \in Workers : WF_vars(Worker(w))

-----------------------------------------------------------------------------
TypeOK ==
  /\ conf \in Confs
  /\ stop \in BOOLEAN
  /\ next \in 1..(NTables + 1)
  /\ pc \in [Workers -> {"recv", "gate", "dump", "send", "done"}]
  /\ art \in [Workers -> Artifact \cup {NoArtifact}]
  /\ channel \in Seq(Artifact)
  /\ main \in {"open", "table", "recv", "drain", "rest", "tail", "written", "failed",
               "returned"}
  /\ buffer \subseteq Artifact
  /\ want \in 1..(NTables + 1)
  /\ file \in Seq(Units)
  /\ deferred \in Seq(Tables)
  /\ tally \in [rows: Nat, done: Nat, failed: Nat]
  /\ reported \in [Tables -> {"no", "ok", "error"}]
  /\ result \in {"none", "ok", "err"}

Written(what) == {i \in DOMAIN file : file[i].what = what}

(* The tables stand in the output in the order of the work list, each at   *)
(* most once, whatever the order in which the workers finish and whichever *)
(* tables a stop has left out.                                             *)
TablesInOrder ==
  \A i, j \in Written("table") : i < j => file[i].of < file[j].of

(* The tables in the output and the tables reported; the data units whose *)
(* rows count, which in a serial dump leaves out those of a failed table.  *)
Output == {file[i].of : i \in Written("table")}
Ended == {t \in Tables : reported[t] # "no"}
Kept == {i \in Written("data") : ~conf.serial \/ reported[file[i].of] = "ok"}
RowsIn == [i \in DOMAIN file |-> file[i].rows]

(* The totals of sql_dump:done, the table_done events and the output tell  *)
(* the same story: the tables reported are the tables written, and the     *)
(* rows counted are the rows written, but for a failed table of a serial   *)
(* dump, whose rows are in the output and not in the count.                *)
TotalsAgree ==
  result = "ok" =>
    /\ Output = Ended
    /\ tally.done = Cardinality(Ended)
    /\ tally.failed = Cardinality({t \in Ended : reported[t] = "error"})
    /\ tally.rows = SumFunctionOnSet(RowsIn, Kept)

(* A dump nobody stopped that returns Ok has dealt with every table.       *)
CompleteUnlessStopped ==
  result = "ok" /\ ~stop => \A t \in Tables : reported[t] # "no"

(* A table that was created without its secondary indexes gets them after  *)
(* all the data, unless its dump failed in a serial run.                   *)
IndexesFollow ==
  result = "ok" =>
    \A i \in Written("create") : Strips(file[i].of) =>
      \/ conf.serial /\ reported[file[i].of] = "error"
      \/ \E j \in Written("index") : /\ file[j].of = file[i].of
                                     /\ \A k \in Written("data") : k < j

(* The dump ends, whatever fails and whenever it is stopped.               *)
Terminates == <>(result # "none")
-----------------------------------------------------------------------------
(* The inductive invariant behind TablesInOrder.                           *)

Working(w) == pc[w] \in {"gate", "dump", "send"}

(* Who may run: a serial dump has no pipeline, and behind the end of the   *)
(* channel there are no workers and no artifacts on their way.             *)
PipelineInv ==
  /\ \A w \in Workers : Working(w) => art[w] \in Artifact
  /\ IF conf.serial
       THEN /\ main \notin {"recv", "drain", "rest"}
            /\ SendersGone /\ channel = <<>> /\ buffer = {}
       ELSE main # "table"
  /\ main \in {"rest", "tail", "written"} => SendersGone /\ channel = <<>>

(* Each table is on its way at most once: in the hands of one worker, in   *)
(* the channel, or in the reorder buffer.                                  *)
OnceInv ==
  /\ \A v, w \in Workers : Working(v) /\ Working(w) /\ v # w => art[v].table # art[w].table
  /\ \A i, j \in DOMAIN channel : i # j => channel[i].table # channel[j].table
  /\ \A a, b \in buffer : a.table = b.table => a = b
  /\ \A w \in Workers, i \in DOMAIN channel : Working(w) => art[w].table # channel[i].table
  /\ \A w \in Workers, b \in buffer : Working(w) => art[w].table # b.table
  /\ \A i \in DOMAIN channel, b \in buffer : channel[i].table # b.table

(* A table on its way comes after all that are written, and the merger has *)
(* not passed it.                                                          *)
Merging == main \in {"open", "recv", "drain"}
Ahead(t) ==
  /\ t < next
  /\ Merging => want <= t
  /\ \A i \in Written("table") : file[i].of < t
AheadInv ==
  /\ want <= next
  /\ \A w \in Workers : Working(w) => Ahead(art[w].table)
  /\ \A i \in DOMAIN channel : Ahead(channel[i].table)
  /\ \A b \in buffer : Ahead(b.table)
  /\ \A i \in Written("table") :
       /\ file[i].of < next
       /\ Merging /\ ~conf.serial => file[i].of < want

MergeIInv == TypeOK /\ PipelineInv /\ OnceInv /\ AheadInv /\ TablesInOrder

-----------------------------------------------------------------------------
(* The inductive invariant behind TotalsAgree.                             *)

OnItsWay ==
  {art[w] : w \in {v \in Workers : pc[v] = "send"}}
    \cup {channel[i] : i \in DOMAIN channel} \cup buffer

(* A table is reported when it is staged, before it is written: what is on *)
(* its way stands for the difference.  Rows come with a data unit.         *)
StoryInv ==
  /\ \A a \in OnItsWay :
       /\ reported[a.table] = IF a.error THEN "error" ELSE "ok"
       /\ a.data \/ a.rows = 0
  /\ Output \subseteq Ended
  /\ \A t \in Ended \ Output : \E a \in OnItsWay : a.table = t
  /\ \A i \in Written("data") : file[i].of \in Output

(* The totals are those of the output.                                     *)
TallyInv ==
  /\ tally.done = Cardinality(Output)
  /\ tally.failed = Cardinality({t \in Output : reported[t] = "error"})
  /\ tally.rows = SumFunctionOnSet(RowsIn, Kept)

(* Nothing is on its way once the tail is written.                         *)
EmptyInv ==
  /\ result = "ok" => main = "returned"
  /\ main \in {"tail", "written"} \/ result = "ok" =>
       SendersGone /\ channel = <<>> /\ buffer = {}

TotalsInv == StoryInv /\ TallyInv /\ EmptyInv
=============================================================================
