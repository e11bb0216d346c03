----------------------------- MODULE SqlImport -----------------------------
(***************************************************************************)
(* The streaming SQL import (src-tauri/src/sql_import.rs): a blocking      *)
(* parser feeds a coordinator, which runs schema statements itself, in     *)
(* order and with its INSERTs batched into transactions, and, for a        *)
(* BaseMaster dump, hands the statements of a data region to a pool of     *)
(* workers.                                                                *)
(*                                                                         *)
(* A source is the sequence of items the splitter finds in it: markers,    *)
(* which are the names of the regions they open, and statements, which are *)
(* "insert", "other" (DDL, SET) or "skip" (nothing to run on this target). *)
(* A statement is known by its position.                                   *)
(***************************************************************************)
EXTENDS Integers, Sequences, FiniteSets, FiniteSetsExt

CONSTANTS
  Workers,         (* the data worker pool                                 *)
  Main,            (* the coordinator, as the executor of a statement      *)
  Dumps, Foreign,  (* sources with and without the @BM:DUMP signature      *)
  ParseCap,        (* capacity of the parser's channel (256 in the code)   *)
  DataCap,         (* capacity of the workers' channel (4 per worker)      *)
  BatchMax,        (* BATCH_MAX_STMTS                                      *)
  MaxRetries,      (* TRANSIENT_MAX_RETRIES                                *)
  MaxLostAcks      (* bound: commits whose acknowledgement is lost         *)

Regions == {"Header", "Ddl", "Data", "Indexes", "Footer"}
Kinds == {"insert", "other", "skip"}

ASSUME SourcesAreItems == Dumps \cup Foreign \subseteq Seq(Regions \cup Kinds)
ASSUME CapsArePositive == {ParseCap, DataCap, BatchMax} \subseteq Nat \ {0}
ASSUME MainIsNoWorker == Main \notin Workers
ASSUME SomeWorker == Workers # {}
ASSUME BoundsAreNumbers == {MaxRetries, MaxLostAcks} \subseteq Nat

Executors == Workers \cup {Main}

VARIABLES
  stream,          (* the items of the source                              *)
  conf,            (* parallel_data and continue_on_error                  *)
  stop,            (* the stop flag of the run's TransferControl           *)
  parser, fed,     (* the parser, the items it has sent                    *)
  at, taken,       (* the coordinator: its point, the items received       *)
  after,           (* where flush_batch returns to                         *)
  region,          (* the region the coordinator is in                     *)
  batch,           (* inserts waiting for one transaction                  *)
  tx,              (* data_tx is still Some                                *)
  queue, closed,   (* the workers' channel, closed by a worker             *)
  pc, hand,        (* each worker: its point, the statement it received    *)
  tries,           (* retries of the statement an executor is running      *)
  abort, firstErr, (* abort flag; whether first_err is set                 *)
  done, errs,      (* Prog                                                 *)
  result,          (* what the import returned                             *)
  applied,         (* target: how often each statement took effect         *)
  settled, failed, (* history: statements counted as done, as errors       *)
  lostAcks         (* history: commits whose acknowledgement was lost      *)

parseVars == <<parser, fed>>
coordVars == <<at, taken, after, region, batch>>
poolVars == <<tx, queue, closed, pc, hand>>
progVars == <<firstErr, done, errs, settled, failed>>
execVars == <<tries, applied, lostAcks>>
inputs == <<stream, conf>>
vars == <<inputs, stop, parseVars, coordVars, poolVars, progVars, execVars, abort, result>>

Positions == 1..Len(stream)
Statements == {i \in Positions : stream[i] \in Kinds}
Item == stream[taken]

Init ==
  /\ stream \in Dumps \cup Foreign
  /\ conf \in [parallel: BOOLEAN, continueOnError: BOOLEAN]
  /\ conf.parallel => stream \in Dumps
  /\ stop = FALSE
  /\ parser = "reading" /\ fed = 0
  /\ at = "recv" /\ taken = 0 /\ after = "recv" /\ region = "Header" /\ batch = {}
  /\ tx = TRUE /\ queue = <<>> /\ closed = FALSE
  /\ pc = [w \in Workers |-> IF conf.parallel THEN "recv" ELSE "done"]
  /\ hand = [w \in Workers |-> 0]
  /\ tries = [e \in Executors |-> 0]
  /\ abort = FALSE /\ firstErr = FALSE /\ done = 0 /\ errs = 0
  /\ result = "none"
  /\ applied = [i \in Positions |-> 0]
  /\ settled = {} /\ failed = {} /\ lostAcks = 0

RequestStop ==
  /\ ~stop /\ result = "none"
  /\ stop' = TRUE
  /\ UNCHANGED <<inputs, parseVars, coordVars, poolVars, progVars, execVars, abort, result>>

-----------------------------------------------------------------------------
(* parse_source_blocking.                                                  *)

ReceiverAlive == at \notin {"join", "parser", "returned"}

ParserSend ==
  /\ parser = "reading" /\ fed < Len(stream)
  /\ ReceiverAlive /\ fed - taken < ParseCap
  /\ fed' = fed + 1
  /\ UNCHANGED <<inputs, stop, parser, coordVars, poolVars, progVars, execVars, abort, result>>

(* The end of the source, a read error, or an abort seen between chunks.   *)
ParserEnds ==
  /\ parser = "reading"
  /\ \/ fed = Len(stream) /\ parser' = "done"
     \/ abort /\ parser' = "done"
     \/ parser' = "failed"
  /\ UNCHANGED <<inputs, stop, fed, coordVars, poolVars, progVars, execVars, abort, result>>

(* blocking_send fails once the coordinator has dropped the receiver.      *)
ParserCutOff ==
  /\ parser = "reading" /\ fed < Len(stream) /\ ~ReceiverAlive
  /\ parser' = "done"
  /\ abort' = TRUE
  /\ UNCHANGED <<inputs, stop, fed, coordVars, poolVars, progVars, execVars, result>>

-----------------------------------------------------------------------------
(* Running statements on the target.                                       *)

(* The statements S, one or a whole transaction, are sent by executor e.   *)
(* They take effect; or a SQL error rejects them; or the link breaks, with *)
(* their effect or without, and they are sent again unless the retries are *)
(* used up or the import is being stopped.                                 *)
Attempt(e, S, ok, error, again) ==
  LET Effect == applied' = [i \in Positions |-> applied[i] + IF i \in S THEN 1 ELSE 0]
      Retry == tries[e] < MaxRetries /\ ~abort /\ ~stop
      Tries(n) == tries' = [tries EXCEPT ![e] = n]
  IN \/ Effect /\ ok /\ Tries(0) /\ UNCHANGED lostAcks
     \/ error /\ Tries(0) /\ UNCHANGED <<applied, lostAcks>>
     \/ /\ \/ UNCHANGED <<applied, lostAcks>>
           \/ lostAcks < MaxLostAcks /\ lostAcks' = lostAcks + 1 /\ Effect
        /\ IF Retry THEN again /\ Tries(tries[e] + 1) ELSE error /\ Tries(0)

(* Prog after the statements S have run, after statement i has failed.     *)
CountDone(S) ==
  /\ done' = done + Cardinality(S)
  /\ settled' = settled \cup S
  /\ UNCHANGED <<errs, failed>>
(* Mutant: an error is not counted among the statements done.              *)
CountErrorOnly(i) ==
  /\ errs' = errs + 1
  /\ settled' = settled \cup {i}
  /\ failed' = failed \cup {i}
  /\ UNCHANGED done
CountError(i) ==
  /\ done' = done + 1
  /\ errs' = errs + 1
  /\ settled' = settled \cup {i}
  /\ failed' = failed \cup {i}

-----------------------------------------------------------------------------
(* The coordinator.                                                        *)

Goto(to) == at' = to
FlushThen(to) ==
  IF batch = {} THEN Goto(to) /\ UNCHANGED after ELSE Goto("flush") /\ after' = to

(* batch.len() >= BATCH_MAX_STMTS; a batch may also be flushed before it   *)
(* is full, when it has BATCH_MAX_BYTES.  Mutant: >.                       *)
BatchOverfull(n) == n > BatchMax
BatchFull(n) == n >= BatchMax

(* The next item, and the check that may leave the loop.                   *)
Receive ==
  /\ at = "recv" /\ taken < fed
  /\ taken' = taken + 1
  /\ LET item == stream[taken + 1]
     IN IF abort \/ stop
          THEN Goto("trail") /\ UNCHANGED <<after, batch>>
          ELSE \/ item \in Regions /\ FlushThen("marker") /\ UNCHANGED batch
               \/ /\ item \in Kinds /\ conf.parallel /\ region = "Data"
                  /\ Goto("send") /\ UNCHANGED <<after, batch>>
               \/ /\ item \in Kinds /\ ~(conf.parallel /\ region = "Data")
                  /\ \/ item = "skip" /\ Goto("recv") /\ UNCHANGED <<after, batch>>
                     \/ item = "other" /\ FlushThen("run") /\ UNCHANGED batch
                     \/ /\ item = "insert"
                        /\ batch' = batch \cup {taken + 1}
                        /\ \/ Goto("flush") /\ after' = "recv"
                           \/ /\ ~BatchFull(Cardinality(batch) + 1)
                              /\ Goto("recv") /\ UNCHANGED after
  /\ UNCHANGED <<inputs, stop, parseVars, region, poolVars, progVars, execVars, abort, result>>

(* The parser has dropped its sender and its channel is empty.             *)
StreamEnds ==
  /\ at = "recv" /\ taken = fed /\ parser # "reading"
  /\ Goto("trail")
  /\ UNCHANGED <<inputs, stop, parseVars, taken, after, region, batch, poolVars,
                 progVars, execVars, abort, result>>

LeavesData == conf.parallel /\ region = "Data" /\ Item # "Data"

(* Mutant: no barrier.                                                     *)
OpenRegionAtOnce ==
  /\ at = "marker"
  /\ region' = Item
  /\ Goto("recv")
  /\ UNCHANGED <<inputs, stop, parseVars, taken, after, batch, poolVars,
                 progVars, execVars, abort, result>>

(* A marker opens its region; one that leaves the data region first drops  *)
(* the workers' sender and waits for them.                                 *)
OpenRegion ==
  /\ at = "marker"
  /\ IF LeavesData
       THEN tx' = FALSE /\ Goto("barrier") /\ UNCHANGED region
       ELSE region' = Item /\ Goto("recv") /\ UNCHANGED tx
  /\ UNCHANGED <<inputs, stop, parseVars, taken, after, batch, queue, closed, pc,
                 hand, progVars, execVars, abort, result>>

PoolJoined == \A w \in Workers : pc[w] = "done"

PassBarrier ==
  /\ at = "barrier" /\ PoolJoined
  /\ region' = Item
  /\ Goto("recv")
  /\ UNCHANGED <<inputs, stop, parseVars, taken, after, batch, poolVars, progVars,
                 execVars, abort, result>>

(* tx.send(s).await: full waits; closed, or no sender any more, breaks.    *)
Send ==
  /\ at = "send"
  /\ \/ tx /\ ~closed /\ Len(queue) < DataCap /\ queue' = Append(queue, taken) /\ Goto("recv")
     \/ (~tx \/ closed) /\ Goto("trail") /\ UNCHANGED queue
  /\ UNCHANGED <<inputs, stop, parseVars, taken, after, region, batch, tx, closed,
                 pc, hand, progVars, execVars, abort, result>>

(* Mutant: abort is set, first_err is not.                                 *)
FailInlineSilently(i, to) ==
  /\ CountError(i)
  /\ IF conf.continueOnError
       THEN Goto(to) /\ UNCHANGED <<firstErr, abort>>
       ELSE Goto("trail") /\ abort' = TRUE /\ UNCHANGED firstErr

(* A statement failed in the coordinator's hands.                          *)
FailInline(i, to) ==
  /\ CountError(i)
  /\ IF conf.continueOnError
       THEN Goto(to) /\ UNCHANGED <<firstErr, abort>>
       ELSE Goto("trail") /\ firstErr' = TRUE /\ abort' = TRUE

RunInline ==
  /\ at = "run"
  /\ Attempt(Main, {taken},
       CountDone({taken}) /\ Goto("recv") /\ UNCHANGED <<firstErr, abort>>,
       FailInline(taken, "recv"),
       UNCHANGED <<at, progVars, abort>>)
  /\ UNCHANGED <<inputs, stop, parseVars, taken, after, region, batch, poolVars,
                 result>>

(* What a commit leaves of the batch.  Mutant: no batch.clear().           *)
BatchKept == batch
BatchCleared == {}

(* flush_batch: one transaction for the batch.  One that cannot be         *)
(* committed is replayed statement by statement.                           *)
FlushBatch ==
  /\ at = "flush"
  /\ Attempt(Main, batch,
       CountDone(batch) /\ Goto(after) /\ batch' = BatchCleared /\ UNCHANGED firstErr,
       Goto("replay") /\ UNCHANGED <<batch, progVars>>,
       UNCHANGED <<at, batch, progVars>>)
  /\ UNCHANGED <<inputs, stop, parseVars, taken, after, region, poolVars, abort,
                 result>>

ReplayStatement ==
  /\ at = "replay"
  /\ LET i == Min(batch)
         to == IF batch = {i} THEN after ELSE "replay"
     IN Attempt(Main, {i},
          /\ CountDone({i}) /\ Goto(to) /\ batch' = batch \ {i}
          /\ UNCHANGED <<firstErr, abort>>,
          /\ FailInline(i, to)
          /\ batch' = IF conf.continueOnError THEN batch \ {i} ELSE {},
          UNCHANGED <<at, batch, progVars, abort>>)
  /\ UNCHANGED <<inputs, stop, parseVars, taken, after, region, poolVars, result>>

(* Mutant: the trailing batch is forgotten.                                *)
DropTrailing ==
  /\ at = "trail"
  /\ Goto("close")
  /\ UNCHANGED <<inputs, stop, parseVars, taken, after, region, batch, poolVars,
                 progVars, execVars, abort, result>>

(* After the loop: the trailing batch, unless abort is set.                *)
FlushTrailing ==
  /\ at = "trail"
  /\ IF abort THEN Goto("close") /\ UNCHANGED after ELSE FlushThen("close")
  /\ UNCHANGED <<inputs, stop, parseVars, taken, region, batch, poolVars, progVars,
                 execVars, abort, result>>

(* Mutant: the workers' sender is not dropped.                             *)
CloseReceiverOnly ==
  /\ at = "close"
  /\ Goto("join")
  /\ UNCHANGED <<inputs, stop, parseVars, taken, after, region, batch, poolVars,
                 progVars, execVars, abort, result>>

CloseChannels ==
  /\ at = "close"
  /\ tx' = FALSE
  /\ Goto("join")
  /\ UNCHANGED <<inputs, stop, parseVars, taken, after, region, batch, queue, closed,
                 pc, hand, progVars, execVars, abort, result>>

JoinPool ==
  /\ at = "join" /\ PoolJoined
  /\ Goto("parser")
  /\ UNCHANGED <<inputs, stop, parseVars, taken, after, region, batch, poolVars,
                 progVars, execVars, abort, result>>

Return ==
  /\ at = "parser" /\ parser # "reading"
  /\ result' = IF firstErr \/ parser = "failed" THEN "err" ELSE "ok"
  /\ Goto("returned")
  /\ UNCHANGED <<inputs, stop, parseVars, taken, after, region, batch, poolVars,
                 progVars, execVars, abort>>

-----------------------------------------------------------------------------
(* A data worker.                                                          *)

WorkerReceive(w) ==
  /\ pc[w] = "recv" /\ queue # <<>>
  /\ queue' = Tail(queue)
  /\ hand' = [hand EXCEPT ![w] = Head(queue)]
  /\ IF abort \/ stop
       THEN closed' = TRUE /\ pc' = [pc EXCEPT ![w] = "done"]
       ELSE /\ UNCHANGED closed
            /\ pc' = [pc EXCEPT ![w] = IF stream[Head(queue)] = "skip" THEN "recv" ELSE "run"]
  /\ UNCHANGED <<inputs, stop, parseVars, coordVars, tx, progVars, execVars, abort, result>>

(* recv() on an empty channel without a sender.                            *)
WorkerEnds(w) ==
  /\ pc[w] = "recv" /\ queue = <<>> /\ (~tx \/ closed)
  /\ pc' = [pc EXCEPT ![w] = "done"]
  /\ UNCHANGED <<inputs, stop, parseVars, coordVars, tx, queue, closed, hand, progVars,
                 execVars, abort, result>>

WorkerRun(w) ==
  /\ pc[w] = "run"
  /\ Attempt(w, {hand[w]},
       /\ CountDone({hand[w]})
       /\ pc' = [pc EXCEPT ![w] = "recv"]
       /\ UNCHANGED <<closed, firstErr, abort>>,
       /\ CountError(hand[w])
       /\ IF conf.continueOnError
            THEN pc' = [pc EXCEPT ![w] = "recv"] /\ UNCHANGED <<closed, firstErr, abort>>
            ELSE /\ pc' = [pc EXCEPT ![w] = "done"]
                 /\ firstErr' = TRUE /\ abort' = TRUE /\ closed' = TRUE,
       UNCHANGED <<pc, closed, progVars, abort>>)
  /\ UNCHANGED <<inputs, stop, parseVars, coordVars, tx, queue, hand, result>>

-----------------------------------------------------------------------------
Parser == ParserSend \/ ParserEnds \/ ParserCutOff
Coordinator ==
  \/ Receive \/ StreamEnds \/ OpenRegion \/ PassBarrier \/ Send
  \/ RunInline \/ FlushBatch \/ ReplayStatement
  \/ FlushTrailing \/ CloseChannels \/ JoinPool \/ Return
Worker(w) == WorkerReceive(w) \/ WorkerEnds(w) \/ WorkerRun(w)
Finished == result # "none" /\ UNCHANGED vars

Next ==
  \/ RequestStop
  \/ Parser
  \/ Coordinator
  \/ \E w \in Workers : Worker(w)
  \/ Finished

Spec == Init /\ [][Next]_vars

(* The parser's thread and tokio's tasks run when they can, and a statement*)
(* ends one way or another.                                                *)
FairSpec ==
  /\ Spec
  /\ WF_vars(Parser) /\ WF_vars(Coordinator)
  /\ \A w \in Workers : WF_vars(Worker(w))

-----------------------------------------------------------------------------
TypeOK ==
  /\ stream \in Dumps \cup Foreign
  /\ conf \in [parallel: BOOLEAN, continueOnError: BOOLEAN]
  /\ {stop, tx, closed, abort, firstErr} \subseteq BOOLEAN
  /\ parser \in {"reading", "done", "failed"}
  /\ fed \in 0..Len(stream) /\ taken \in 0..fed
  /\ at \in {"recv", "marker", "barrier", "send", "run", "flush", "replay", "trail",
             "close", "join", "parser", "returned"}
  /\ after \in {"recv", "marker", "run", "close"}
  /\ region \in Regions
  /\ batch \in SUBSET Statements /\ Cardinality(batch) <= BatchMax
  /\ queue \in Seq(Statements) /\ Len(queue) <= DataCap
  /\ pc \in [Workers -> {"recv", "run", "done"}]
  /\ hand \in [Workers -> Statements \cup {0}]
  /\ tries \in [Executors -> 0..MaxRetries]
  /\ done \in Nat /\ errs \in Nat
  /\ result \in {"none", "ok", "err"}
  /\ applied \in [Positions -> Nat]
  /\ settled \in SUBSET Statements /\ failed \in SUBSET settled
  /\ lostAcks \in 0..MaxLostAcks

(* A statement takes effect at most once, over all retries, replays and    *)
(* workers, but for one more time for each lost acknowledgement.           *)
AppliedOnce == \A i \in Positions : applied[i] <= 1 + lostAcks

(* The region position i of the source lies in.                            *)
RegionOf(i) ==
  LET markers == {j \in 1..i : stream[j] \in Regions}
  IN IF markers = {} THEN "Header" ELSE stream[Max(markers)]
Parallel(i) == conf.parallel /\ RegionOf(i) = "Data"

(* The order of the source is kept wherever it matters: when a statement   *)
(* takes effect every one before it has, or has been reported as an error, *)
(* unless both belong to the data the workers share.  So a table exists    *)
(* before its rows arrive, and deferred indexes are built on complete      *)
(* tables.                                                                 *)
InOrder ==
  \A j \in Statements : applied[j] > 0 =>
    \A i \in Statements : i < j /\ stream[i] # "skip" =>
      applied[i] > 0 \/ i \in failed \/ (Parallel(i) /\ Parallel(j))

(* A data region that follows another one, with some other region between. *)
DataResumes ==
  \E i, j, k \in Positions :
    i < j /\ j < k /\ stream[i] = "Data" /\ stream[k] = "Data"
    /\ stream[j] \in Regions \ {"Data"}

(* An import nobody stopped that returns Ok has run every statement of its *)
(* source, or reported it as an error.                                     *)
OkMeansComplete ==
  result = "ok" /\ ~stop =>
    \A i \in Statements : stream[i] # "skip" => applied[i] > 0 \/ i \in failed
CompleteUnlessDataResumes == (conf.parallel /\ DataResumes) \/ OkMeansComplete

(* Without continue_on_error a failed statement fails the import, whoever  *)
(* ran it; and an import fails only for that or for an unreadable source.  *)
FailureSurfaces ==
  result # "none" =>
    (result = "err" <=> parser = "failed" \/ (failed # {} /\ ~conf.continueOnError))

(* The counters of sql_import:done: each statement once, whether it ran in *)
(* a batch, in a replay after one, inline or in a worker.                  *)
CountersAgree ==
  result # "none" => done = Cardinality(settled) /\ errs = Cardinality(failed)

(* Parser, coordinator and workers never wait for each other for ever.     *)
Terminates == <>(result # "none")
=============================================================================
