--------------------------- MODULE SqlImportProofs ---------------------------
(***************************************************************************)
(* Proofs about SqlImport, for any sources, worker pool, channel and batch *)
(* sizes, and any number of retries and lost acknowledgements.             *)
(***************************************************************************)
EXTENDS SqlImport, FiniteSetTheorems, SequenceTheorems, WellFoundedInduction, TLAPS

(* Where the coordinator has a statement of its own in hand, where it has  *)
(* a marker in hand, and where it is after its loop.                       *)
Before(to) == at \in {"flush", "replay"} /\ after = to
AtStatement == at \in {"run", "send"} \/ Before("run")
AtMarker == at \in {"marker", "barrier"} \/ Before("marker")
Ended == at \in {"trail", "close", "join", "parser", "returned"} \/ Before("close")
Dropped == at \in {"join", "parser", "returned"}
ParallelNow == conf.parallel /\ region = "Data"
InHand(w) == pc[w] = "run"

(* What each point of the coordinator means for the item it has in hand    *)
(* and for the batch.                                                      *)
PointInv ==
  /\ AtStatement => taken \in Statements
  /\ AtMarker => taken \in Positions /\ Item \in Regions
  /\ at \in {"recv", "send"} => Cardinality(batch) < BatchMax
  /\ at \in {"marker", "barrier", "run"} \/ ParallelNow => batch = {}
  /\ at \in {"flush", "replay"} => batch # {}
  /\ at = "barrier" => ~tx /\ ParallelNow
  /\ at = "send" => ParallelNow
  /\ at \in {"close", "join", "parser", "returned"} /\ ~abort => batch = {}
  /\ \A w \in Workers : InHand(w) => hand[w] \in Statements

(* A statement that is not settled is in one place at most: in the batch,  *)
(* in the queue, with one worker, or in the coordinator's hand.            *)
Queued == {queue[k] : k \in 1..Len(queue)}
Held == {hand[w] : w \in {v \in Workers : InHand(v)}}
OwnStatement == IF AtStatement THEN {taken} ELSE {}
Distinct == \A k, l \in 1..Len(queue) : queue[k] = queue[l] => k = l
Alone == \A v, w \in Workers : InHand(v) /\ InHand(w) /\ hand[v] = hand[w] => v = w
PlaceInv ==
  /\ \A i \in settled \cup batch \cup Queued \cup Held : i <= taken
  /\ batch \cap settled = {}
  /\ Queued \cap (settled \cup batch) = {}
  /\ Held \cap (settled \cup batch \cup Queued) = {}
  /\ OwnStatement \cap (settled \cup batch \cup Queued \cup Held) = {}
  /\ Distinct /\ Alone

(* Every effect but one of a settled statement, and every effect of one    *)
(* that is not settled, has lost its acknowledgement.                      *)
EffectInv ==
  /\ \A i \in Positions : applied[i] <= lostAcks + IF i \in settled THEN 1 ELSE 0
  /\ \A i \in settled : applied[i] > 0 \/ i \in failed

(* Prog counts what is settled and what failed.                            *)
CountInv == done = Cardinality(settled) /\ errs = Cardinality(failed)

(* first_err is set with the first error that ends the import; what the    *)
(* import returns is decided when nobody can set it any more.              *)
ResultInv ==
  /\ firstErr <=> failed # {} /\ ~conf.continueOnError
  /\ at \in {"parser", "returned"} => PoolJoined
  /\ result # "none" => at = "returned"
  /\ at = "returned" =>
       /\ parser # "reading"
       /\ result = IF firstErr \/ parser = "failed" THEN "err" ELSE "ok"

(* The statements before i that have something to run are all in S.        *)
Behind(i, S) == \A k \in Statements : k < i /\ stream[k] # "skip" => k \in S
Parallels == {i \in Positions : Parallel(i)}
InPool == Queued \cup Held

(* The region, and what the statements in the pool have in common.         *)
RegionInv ==
  /\ at \in {"recv", "send", "run"} \/ Before("recv") \/ Before("run") => region = RegionOf(taken)
  /\ AtMarker => region = RegionOf(taken - 1)
  /\ InPool \subseteq Parallels
  /\ at = "send" => taken \in Parallels

(* Nothing runs inline before what precedes it is settled or in the same   *)
(* batch; nothing runs in the pool before what precedes it is settled, but *)
(* for what the pool runs too.                                             *)
FrontInv ==
  /\ \A i \in batch : Behind(i, settled \cup batch)
  /\ AtStatement /\ at # "send" => Behind(taken, settled \cup batch)
  /\ \A i \in InPool : Behind(i, settled \cup Parallels)
  /\ at = "send" => Behind(taken, settled \cup Parallels)

(* Unless the import is being ended, nothing received is forgotten, except *)
(* the statement that could not be sent.                                   *)
Unsent == IF Ended /\ DataResumes THEN {taken} ELSE {}
ProgressInv ==
  ~abort /\ ~stop =>
    /\ ~ParallelNow => Behind(taken + 1, settled \cup batch \cup OwnStatement)
    /\ ParallelNow => Behind(taken + 1, settled \cup InPool \cup OwnStatement \cup Unsent)
    /\ ~closed
    /\ conf.parallel => \A w \in Workers : pc[w] = "done" => queue = <<>> /\ ~tx

(* The workers' sender is dropped early only if a data region has ended,   *)
(* and missed then only if another one follows.                            *)
SenderInv ==
  /\ region = "Data" => \E i \in 1..taken : stream[i] = "Data"
  /\ ~tx /\ ~Dropped =>
       \E i, j \in 1..taken : i < j /\ stream[i] = "Data" /\ stream[j] \in Regions \ {"Data"}
  /\ ~tx /\ ~Dropped /\ at # "barrier" /\ ParallelNow => DataResumes

(* An import that nobody stopped, that met no error to end it and whose    *)
(* data does not resume, reads its source to the end.                      *)
Undisturbed == ~stop /\ ~firstErr /\ ~(conf.parallel /\ DataResumes)
ReadingInv ==
  /\ abort /\ ~Dropped => firstErr
  /\ Undisturbed =>
       /\ ~abort
       /\ Ended => taken = fed /\ parser # "reading"
       /\ parser = "done" => fed = Len(stream)

-----------------------------------------------------------------------------
(* A source is a sequence of markers and statements, which are distinct.   *)
LEMMA StreamType ==
  ASSUME stream \in Dumps \cup Foreign
  PROVE  /\ stream \in Seq(Regions \cup Kinds)
         /\ Len(stream) \in Nat
         /\ \A i \in Positions : i \in Nat /\ stream[i] \in Regions \cup Kinds
         /\ \A i \in Positions : stream[i] \in Regions <=> i \notin Statements
BY SourcesAreItems DEF Positions, Statements, Regions, Kinds

(* Min picks the least element of a set of naturals.                       *)
LEMMA Least ==
  ASSUME NEW S \in SUBSET Nat, S # {}
  PROVE  Min(S) \in S /\ \A y \in S : Min(S) <= y
<1> DEFINE T == {1..n : n \in S}
<1>1. T \subseteq FiniteSubsetsOf(Nat)
  BY FS_Interval DEF FiniteSubsetsOf
<1>2. PICK x \in T : \A y \in T : ~(<<y, x>> \in StrictSubsetOrdering(Nat))
  <2>1. IsWellFoundedOn(StrictSubsetOrdering(Nat), FiniteSubsetsOf(Nat))
    BY FS_StrictSubsetOrderingWellFounded
  <2>2. T # {}
    OBVIOUS
  <2> HIDE DEF T
  <2> QED
    BY <1>1, <2>1, <2>2, WFMin
<1>3. PICK m \in S : x = 1..m
  OBVIOUS
<1>4. ASSUME NEW n \in S, n < m PROVE FALSE
  <2>1. 1..n \subseteq 1..m /\ m \in 1..m /\ m \notin 1..n
    BY <1>4
  <2>2. <<1..n, 1..m>> \in (SUBSET Nat) \X (SUBSET Nat)
    OBVIOUS
  <2>3. <<1..n, 1..m>> \in StrictSubsetOrdering(Nat)
    BY <2>1, <2>2 DEF StrictSubsetOrdering
  <2> QED
    BY <1>2, <1>3, <2>3
<1>5. \A y \in S : m <= y
  BY <1>4
<1> QED
  BY <1>5 DEF Min

(* What flush_batch replays first comes before the rest of the batch.      *)
LEMMA FirstOfBatch ==
  ASSUME TypeOK, batch # {}
  PROVE  Min(batch) \in batch /\ \A i \in batch : Min(batch) <= i
<1>1. batch \subseteq Nat
  BY StreamType DEF TypeOK, Statements
<1> QED
  BY <1>1, Least

(* Sets of statements are finite.                                          *)
LEMMA StatementsAreFinite ==
  ASSUME stream \in Dumps \cup Foreign, NEW S \in SUBSET Statements
  PROVE  IsFiniteSet(S) /\ Cardinality(S) \in Nat
<1>1. IsFiniteSet(1..Len(stream))
  BY StreamType, FS_Interval
<1>2. S \in SUBSET (1..Len(stream))
  BY DEF Statements, Positions
<1>3. IsFiniteSet(S)
  BY <1>1, <1>2, FS_Subset
<1> QED
  BY <1>3, FS_CardinalityType

(* One more insert makes the batch one longer.                             *)
LEMMA BatchGrows ==
  ASSUME TypeOK, NEW i
  PROVE  Cardinality(batch \cup {i}) <= Cardinality(batch) + 1
<1>1. IsFiniteSet(batch) /\ Cardinality(batch) \in Nat
  BY StatementsAreFinite DEF TypeOK
<1> QED
  BY <1>1, FS_AddElement

(* One statement less makes it one shorter, or empty.                      *)
LEMMA BatchShrinks ==
  ASSUME TypeOK, NEW i
  PROVE  Cardinality(batch \ {i}) <= Cardinality(batch)
<1>1. IsFiniteSet(batch) /\ Cardinality(batch) \in Nat
  BY StatementsAreFinite DEF TypeOK
<1> QED
  BY <1>1, FS_RemoveElement

-----------------------------------------------------------------------------
(* What each run of statements comes to: they are done, they are an error, *)
(* or they will be sent again.                                             *)
LEMMA InlineOutcome ==
  ASSUME RunInline
  PROVE  /\ \/ CountDone({taken}) /\ Goto("recv") /\ UNCHANGED <<firstErr, abort>>
            \/ FailInline(taken, "recv")
            \/ UNCHANGED <<at, progVars, abort>>
         /\ Attempt(Main, {taken}, TRUE, TRUE, TRUE)
BY DEF RunInline, Attempt

(* A batch is committed, handed to the replay, or sent again.              *)
LEMMA FlushOutcome ==
  ASSUME FlushBatch
  PROVE  /\ \/ CountDone(batch) /\ Goto(after) /\ batch' = {} /\ UNCHANGED firstErr
            \/ Goto("replay") /\ UNCHANGED <<batch, progVars>>
            \/ UNCHANGED <<at, batch, progVars>>
         /\ Attempt(Main, batch, TRUE, TRUE, TRUE)
BY DEF FlushBatch, Attempt, BatchCleared

(* The first statement of the batch is replayed.                           *)
LEMMA ReplayOutcome ==
  ASSUME ReplayStatement, NEW i, i = Min(batch)
  PROVE  /\ \E to \in {after, "replay"} :
              /\ to = IF batch = {i} THEN after ELSE "replay"
              /\ \/ /\ CountDone({i}) /\ Goto(to) /\ batch' = batch \ {i}
                    /\ UNCHANGED <<firstErr, abort>>
                 \/ /\ FailInline(i, to)
                    /\ batch' = IF conf.continueOnError THEN batch \ {i} ELSE {}
                 \/ UNCHANGED <<at, batch, progVars, abort>>
         /\ Attempt(Main, {i}, TRUE, TRUE, TRUE)
BY DEF ReplayStatement, Attempt

(* A worker runs the statement in its hand.                                *)
LEMMA WorkerOutcome ==
  ASSUME NEW w \in Workers, WorkerRun(w)
  PROVE  /\ \/ /\ CountDone({hand[w]})
               /\ pc' = [pc EXCEPT ![w] = "recv"]
               /\ UNCHANGED <<closed, firstErr, abort>>
            \/ /\ CountError(hand[w])
               /\ conf.continueOnError
               /\ pc' = [pc EXCEPT ![w] = "recv"]
               /\ UNCHANGED <<closed, firstErr, abort>>
            \/ /\ CountError(hand[w])
               /\ ~conf.continueOnError
               /\ pc' = [pc EXCEPT ![w] = "done"]
               /\ firstErr' = TRUE /\ abort' = TRUE /\ closed' = TRUE
            \/ UNCHANGED <<pc, closed, progVars, abort>>
         /\ Attempt(w, {hand[w]}, TRUE, TRUE, TRUE)
BY DEF WorkerRun, Attempt

(* The target and the retries after an attempt.                            *)
LEMMA AttemptType ==
  ASSUME TypeOK, NEW e \in Executors, NEW S, Attempt(e, S, TRUE, TRUE, TRUE)
  PROVE  /\ applied' \in [Positions -> Nat]
         /\ tries' \in [Executors -> 0..MaxRetries]
         /\ lostAcks' \in 0..MaxLostAcks
<1>1. \A i \in Positions : applied[i] \in Nat /\ applied[i] + 1 \in Nat
  BY DEF TypeOK
<1>2. applied' \in [Positions -> Nat]
  BY <1>1 DEF Attempt, TypeOK
<1>3. tries' \in [Executors -> 0..MaxRetries]
  <2>1. tries[e] \in 0..MaxRetries /\ MaxRetries \in Nat
    BY BoundsAreNumbers DEF TypeOK
  <2>2. \/ tries' = [tries EXCEPT ![e] = 0]
        \/ tries[e] < MaxRetries /\ tries' = [tries EXCEPT ![e] = tries[e] + 1]
    BY DEF Attempt
  <2>3. tries \in [Executors -> 0..MaxRetries]
    BY DEF TypeOK
  <2> QED
    BY <2>1, <2>2, <2>3
<1>4. lostAcks' \in 0..MaxLostAcks
  BY BoundsAreNumbers DEF Attempt, TypeOK
<1> QED
  BY <1>2, <1>3, <1>4

-----------------------------------------------------------------------------
(* The types hold at the start.                                            *)
LEMMA InitType == Init => TypeOK
<1> SUFFICES ASSUME Init PROVE TypeOK
  OBVIOUS
<1>1. stream \in Dumps \cup Foreign /\ Len(stream) \in Nat
  BY StreamType DEF Init
<1>2. Cardinality(batch) <= BatchMax /\ 0 <= DataCap
  BY FS_EmptySet, CapsArePositive DEF Init
<1>3. /\ pc \in [Workers -> {"recv", "run", "done"}]
      /\ hand \in [Workers -> Statements \cup {0}]
      /\ applied \in [Positions -> Nat]
      /\ tries \in [Executors -> 0..MaxRetries]
      /\ lostAcks \in 0..MaxLostAcks
  BY BoundsAreNumbers DEF Init
<1>4. queue \in Seq(Statements) /\ Len(queue) <= DataCap
  BY <1>2 DEF Init
<1>5. fed \in 0..Len(stream) /\ taken \in 0..fed
  BY <1>1 DEF Init
<1> QED
  BY <1>1, <1>2, <1>3, <1>4, <1>5 DEF Init, TypeOK, Regions

(* The parser, and a user who stops the import, keep the types.            *)
LEMMA ParserType ==
  ASSUME TypeOK, RequestStop \/ Parser PROVE TypeOK'
<1> USE DEF inputs, parseVars, coordVars, poolVars, progVars, execVars
<1>1. Positions' = Positions /\ Statements' = Statements /\ stream' = stream
  BY DEF Positions, Statements, RequestStop, Parser, ParserSend, ParserEnds, ParserCutOff
<1>2. fed' \in 0..Len(stream) /\ taken' \in 0..fed'
  BY StreamType DEF TypeOK, RequestStop, Parser, ParserSend, ParserEnds, ParserCutOff
<1>3. {stop', abort'} \subseteq BOOLEAN /\ parser' \in {"reading", "done", "failed"}
  BY DEF TypeOK, RequestStop, Parser, ParserSend, ParserEnds, ParserCutOff
<1> QED
  BY <1>1, <1>2, <1>3
  DEF TypeOK, RequestStop, Parser, ParserSend, ParserEnds, ParserCutOff

(* What receiving an item makes of the batch.                              *)
LEMMA ReceiveBatch ==
  ASSUME TypeOK, PointInv, Receive
  PROVE  /\ taken + 1 \in Positions
         /\ batch' \subseteq Statements
         /\ Cardinality(batch') <= BatchMax
         /\ at' \in {"recv", "send"} => Cardinality(batch') < BatchMax
         /\ at' \in {"recv", "send", "run", "marker", "flush", "trail"}
         /\ after' \in {"recv", "marker", "run", "close"}
<1>1. taken + 1 \in Positions /\ stream[taken + 1] \in Regions \cup Kinds
  BY StreamType DEF TypeOK, Receive, Positions
<1>2. Cardinality(batch) \in Nat /\ Cardinality(batch) < BatchMax /\ BatchMax \in Nat
  BY StatementsAreFinite, CapsArePositive DEF TypeOK, PointInv, Receive
<1>3. /\ Cardinality(batch \cup {taken + 1}) \in Nat
      /\ Cardinality(batch \cup {taken + 1}) <= Cardinality(batch) + 1
      /\ stream[taken + 1] = "insert" => batch \cup {taken + 1} \subseteq Statements
  <2>1. IsFiniteSet(batch)
    BY StatementsAreFinite DEF TypeOK
  <2>2. Cardinality(batch \cup {taken + 1}) \in Nat
    BY <2>1, FS_AddElement, FS_CardinalityType
  <2> QED
    BY <1>1, <2>2, BatchGrows DEF TypeOK, Statements, Kinds
<1>4. \/ batch' = batch
      \/ /\ batch' = batch \cup {taken + 1} /\ stream[taken + 1] = "insert"
         /\ at' = "flush" \/ Cardinality(batch) + 1 < BatchMax
  BY <1>2 DEF Receive, FlushThen, Goto, BatchFull
<1>5. /\ at' \in {"recv", "send", "run", "marker", "flush", "trail"}
      /\ after' \in {"recv", "marker", "run", "close"}
  BY DEF Receive, FlushThen, Goto, TypeOK
<1>6. batch' \subseteq Statements
  BY <1>3, <1>4 DEF TypeOK
<1> QED
  BY <1>1, <1>2, <1>3, <1>4, <1>5, <1>6

(* The coordinator's steps between statements keep the types.              *)
LEMMA CoordinatorType ==
  ASSUME TypeOK, PointInv,
         \/ Receive \/ StreamEnds \/ OpenRegion \/ PassBarrier \/ Send
         \/ FlushTrailing \/ CloseChannels \/ JoinPool \/ Return
  PROVE  TypeOK'
<1> USE DEF inputs, parseVars, coordVars, poolVars, progVars, execVars
<1>1. Positions' = Positions /\ Statements' = Statements /\ stream' = stream /\ fed' = fed
  BY DEF Positions, Statements, Receive, StreamEnds, OpenRegion, PassBarrier, Send,
    FlushTrailing, CloseChannels, JoinPool, Return
<1>2. CASE Receive
  <2>1. taken' \in 0..fed
    BY <1>2, StreamType DEF Receive, TypeOK
  <2> QED
    BY <1>1, <1>2, <2>1, ReceiveBatch DEF Receive, TypeOK
<1>3. CASE StreamEnds
  BY <1>1, <1>3 DEF StreamEnds, Goto, TypeOK
<1>4. CASE OpenRegion
  BY <1>1, <1>4 DEF OpenRegion, Goto, TypeOK, PointInv, AtMarker
<1>5. CASE PassBarrier
  BY <1>1, <1>5 DEF PassBarrier, Goto, TypeOK, PointInv, AtMarker
<1>6. CASE Send
  <2>1. taken \in Statements
    BY <1>6 DEF PointInv, AtStatement, Send
  <2>2. queue' \in Seq(Statements) /\ Len(queue') <= DataCap
    <3>1. queue \in Seq(Statements) /\ Len(queue) <= DataCap /\ DataCap \in Nat
      BY CapsArePositive DEF TypeOK
    <3>2. \/ queue' = queue
          \/ queue' = Append(queue, taken) /\ Len(queue) < DataCap
      BY <1>6 DEF Send
    <3>3. /\ Append(queue, taken) \in Seq(Statements)
          /\ Len(Append(queue, taken)) = Len(queue) + 1 /\ Len(queue) \in Nat
      BY <2>1, <3>1
    <3> QED
      BY <3>1, <3>2, <3>3
  <2>3. at' \in {"recv", "trail"}
    BY <1>6 DEF Send, Goto
  <2> QED
    BY <1>1, <1>6, <2>2, <2>3 DEF Send, TypeOK
<1>7. CASE FlushTrailing
  BY <1>1, <1>7 DEF FlushTrailing, FlushThen, Goto, TypeOK
<1>8. CASE CloseChannels
  BY <1>1, <1>8 DEF CloseChannels, Goto, TypeOK
<1>9. CASE JoinPool
  BY <1>1, <1>9 DEF JoinPool, Goto, TypeOK
<1>10. CASE Return
  BY <1>1, <1>10 DEF Return, Goto, TypeOK
<1> QED
  BY <1>2, <1>3, <1>4, <1>5, <1>6, <1>7, <1>8, <1>9, <1>10

(* A count of statements, done or failed, keeps its types.                 *)
LEMMA CountType ==
  ASSUME TypeOK, NEW S \in SUBSET Statements,
         \/ CountDone(S)
         \/ \E i \in S : CountError(i)
         \/ UNCHANGED <<done, errs, settled, failed>>
  PROVE  /\ done' \in Nat /\ errs' \in Nat
         /\ settled' \in SUBSET Statements /\ failed' \in SUBSET settled'
<1>1. Cardinality(S) \in Nat
  BY StatementsAreFinite DEF TypeOK
<1> QED
  BY <1>1 DEF CountDone, CountError, TypeOK

(* A run of statements by the coordinator keeps the types.                 *)
LEMMA RunType ==
  ASSUME TypeOK, PointInv, RunInline \/ FlushBatch \/ ReplayStatement
  PROVE  TypeOK'
<1> USE DEF inputs, parseVars, coordVars, poolVars, progVars, execVars
<1>1. Positions' = Positions /\ Statements' = Statements /\ stream' = stream
  BY DEF Positions, Statements, RunInline, FlushBatch, ReplayStatement
<1>2. Main \in Executors
  BY DEF Executors
<1>3. CASE RunInline
  <2>1. {taken} \in SUBSET Statements
    BY <1>3 DEF RunInline, PointInv, AtStatement
  <2>2. /\ done' \in Nat /\ errs' \in Nat
        /\ settled' \in SUBSET Statements /\ failed' \in SUBSET settled'
    BY <1>3, <2>1, InlineOutcome, CountType DEF FailInline
  <2>3. /\ applied' \in [Positions -> Nat]
        /\ tries' \in [Executors -> 0..MaxRetries]
        /\ lostAcks' \in 0..MaxLostAcks
    BY <1>2, <1>3, InlineOutcome, AttemptType
  <2>4. at' \in {"recv", "trail", at} /\ {firstErr', abort'} \subseteq BOOLEAN
    BY <1>3, InlineOutcome DEF FailInline, Goto, TypeOK
  <2> QED
    BY <1>1, <1>3, <2>2, <2>3, <2>4 DEF RunInline, TypeOK
<1>4. CASE FlushBatch
  <2>1. /\ done' \in Nat /\ errs' \in Nat
        /\ settled' \in SUBSET Statements /\ failed' \in SUBSET settled'
    BY <1>4, FlushOutcome, CountType DEF TypeOK
  <2>2. /\ applied' \in [Positions -> Nat]
        /\ tries' \in [Executors -> 0..MaxRetries]
        /\ lostAcks' \in 0..MaxLostAcks
    BY <1>2, <1>4, FlushOutcome, AttemptType
  <2>3. at' \in {after, "replay", at} /\ firstErr' = firstErr
    BY <1>4, FlushOutcome DEF Goto
  <2>4. batch' \in SUBSET Statements /\ Cardinality(batch') <= BatchMax
    <3>1. batch' = {} \/ batch' = batch
      BY <1>4, FlushOutcome
    <3>2. Cardinality({}) <= BatchMax
      BY FS_EmptySet, CapsArePositive
    <3>3. batch \in SUBSET Statements /\ Cardinality(batch) <= BatchMax
      BY DEF TypeOK
    <3> QED
      BY <3>1, <3>2, <3>3
  <2> QED
    BY <1>1, <1>4, <2>1, <2>2, <2>3, <2>4 DEF FlushBatch, TypeOK
<1>5. CASE ReplayStatement
  <2> DEFINE i == Min(batch)
  <2>1. i \in batch /\ {i} \in SUBSET Statements
    BY <1>5, FirstOfBatch DEF ReplayStatement, PointInv, TypeOK
  <2>2. PICK to \in {after, "replay"} :
           \/ /\ CountDone({i}) /\ Goto(to) /\ batch' = batch \ {i}
              /\ UNCHANGED <<firstErr, abort>>
           \/ /\ FailInline(i, to)
              /\ batch' = IF conf.continueOnError THEN batch \ {i} ELSE {}
           \/ UNCHANGED <<at, batch, progVars, abort>>
    BY <1>5, ReplayOutcome
  <2>3. /\ done' \in Nat /\ errs' \in Nat
        /\ settled' \in SUBSET Statements /\ failed' \in SUBSET settled'
    BY <2>1, <2>2, CountType DEF FailInline
  <2>4. /\ applied' \in [Positions -> Nat]
        /\ tries' \in [Executors -> 0..MaxRetries]
        /\ lostAcks' \in 0..MaxLostAcks
    BY <1>2, <1>5, ReplayOutcome, AttemptType
  <2>5. at' \in {to, "trail", at} /\ {firstErr', abort'} \subseteq BOOLEAN
    BY <2>2 DEF FailInline, Goto, TypeOK
  <2>6. batch' \in SUBSET Statements /\ Cardinality(batch') <= BatchMax
    <3>1. batch' \in {batch, batch \ {i}, {}}
      BY <2>2
    <3>2. /\ Cardinality(batch \ {i}) \in Nat /\ Cardinality(batch) \in Nat
          /\ Cardinality(batch \ {i}) <= Cardinality(batch)
          /\ Cardinality({}) = 0 /\ BatchMax \in Nat
      BY StatementsAreFinite, BatchShrinks, FS_EmptySet, CapsArePositive DEF TypeOK
    <3>3. batch \in SUBSET Statements /\ Cardinality(batch) <= BatchMax
      BY DEF TypeOK
    <3>4. CASE batch' = batch
      BY <3>3, <3>4
    <3>5. CASE batch' = batch \ {i}
      <4>1. Cardinality(batch \ {i}) <= BatchMax
        BY <3>2, <3>3
      <4> QED
        BY <3>3, <3>5, <4>1
    <3>6. CASE batch' = {}
      <4>1. Cardinality({}) <= BatchMax
        BY FS_EmptySet, CapsArePositive
      <4> QED
        BY <3>6, <4>1
    <3> QED
      BY <3>1, <3>4, <3>5, <3>6
  <2> QED
    BY <1>1, <1>5, <2>3, <2>4, <2>5, <2>6 DEF ReplayStatement, TypeOK
<1> QED
  BY <1>3, <1>4, <1>5

(* A worker's step keeps the types.                                        *)
LEMMA WorkerType ==
  ASSUME TypeOK, PointInv, NEW w \in Workers, Worker(w) PROVE TypeOK'
<1> USE DEF inputs, parseVars, coordVars, poolVars, progVars, execVars
<1>1. Positions' = Positions /\ Statements' = Statements /\ stream' = stream
  BY DEF Positions, Statements, Worker, WorkerReceive, WorkerEnds, WorkerRun
<1>2. pc' \in [Workers -> {"recv", "run", "done"}]
  <2>1. CASE WorkerRun(w)
    BY <2>1, WorkerOutcome DEF TypeOK
  <2> QED
    BY <2>1 DEF Worker, WorkerReceive, WorkerEnds, TypeOK
<1>3. CASE WorkerReceive(w)
  <2>1. Head(queue) \in Statements /\ Tail(queue) \in Seq(Statements)
        /\ Len(Tail(queue)) = Len(queue) - 1 /\ Len(queue) \in Nat
    BY <1>3 DEF WorkerReceive, TypeOK
  <2>2. queue' \in Seq(Statements) /\ Len(queue') <= DataCap
    BY <1>3, <2>1, CapsArePositive DEF WorkerReceive, TypeOK
  <2>3. hand' \in [Workers -> Statements \cup {0}] /\ closed' \in BOOLEAN
    BY <1>3, <2>1 DEF WorkerReceive, TypeOK
  <2> QED
    BY <1>1, <1>2, <1>3, <2>2, <2>3 DEF WorkerReceive, TypeOK
<1>4. CASE WorkerEnds(w)
  BY <1>1, <1>2, <1>4 DEF WorkerEnds, TypeOK
<1>5. CASE WorkerRun(w)
  <2>1. {hand[w]} \in SUBSET Statements
    BY <1>5 DEF WorkerRun, PointInv, InHand
  <2>2. /\ done' \in Nat /\ errs' \in Nat
        /\ settled' \in SUBSET Statements /\ failed' \in SUBSET settled'
    BY <1>5, <2>1, WorkerOutcome, CountType
  <2>3. /\ applied' \in [Positions -> Nat]
        /\ tries' \in [Executors -> 0..MaxRetries]
        /\ lostAcks' \in 0..MaxLostAcks
    BY <1>5, WorkerOutcome, AttemptType DEF Executors
  <2>4. {closed', firstErr', abort'} \subseteq BOOLEAN
    BY <1>5, WorkerOutcome DEF TypeOK
  <2> QED
    BY <1>1, <1>2, <1>5, <2>2, <2>3, <2>4 DEF WorkerRun, TypeOK
<1> QED
  BY <1>3, <1>4, <1>5 DEF Worker

-----------------------------------------------------------------------------
(* The conditions on points need only the variables they name.             *)
LEMMA PointStays ==
  ASSUME TypeOK, PointInv,
         UNCHANGED <<stream, conf, at, after, taken, region, batch, tx>>,
         abort => abort',
         \A w \in Workers : InHand(w)' => hand'[w] \in Statements
  PROVE  PointInv'
BY DEF PointInv, AtStatement, AtMarker, Before, ParallelNow, InHand, Statements,
  Positions, Item

(* An empty batch is not full.                                             *)
LEMMA EmptyBatch == Cardinality({}) < BatchMax
BY FS_EmptySet, CapsArePositive

(* The coordinator's steps between statements.                             *)
LEMMA CoordinatorPoint ==
  ASSUME TypeOK, PointInv,
         \/ Receive \/ StreamEnds \/ OpenRegion \/ PassBarrier \/ Send
         \/ FlushTrailing \/ CloseChannels \/ JoinPool \/ Return
  PROVE  PointInv'
<1> USE DEF inputs, parseVars, coordVars, poolVars, progVars, execVars
<1>1. Positions' = Positions /\ Statements' = Statements /\ stream' = stream
  BY DEF Positions, Statements, Receive, StreamEnds, OpenRegion, PassBarrier, Send,
    FlushTrailing, CloseChannels, JoinPool, Return
<1>2. \A w \in Workers : InHand(w)' => hand'[w] \in Statements
  BY <1>1 DEF Receive, StreamEnds, OpenRegion, PassBarrier, Send, FlushTrailing,
    CloseChannels, JoinPool, Return, PointInv, InHand
<1>3. CASE Receive
  <2>1. taken' = taken + 1 /\ taken + 1 \in Positions
    BY <1>3, ReceiveBatch DEF Receive
  <2>2. at' \in {"marker"} \/ (at' = "flush" /\ after' = "marker") => stream[taken + 1] \in Regions
    BY <1>3 DEF Receive, FlushThen, Goto
  <2>3. at' \in {"run", "send"} \/ (at' = "flush" /\ after' = "run") => stream[taken + 1] \in Kinds
    BY <1>3 DEF Receive, FlushThen, Goto
  <2>4. /\ at' \in {"marker", "run"} => batch' = {}
        /\ at' = "flush" => batch' # {}
    BY <1>3 DEF Receive, FlushThen, Goto
  <2>5. /\ at' = "send" => ParallelNow
        /\ ParallelNow => batch' = batch /\ batch = {}
        /\ ParallelNow' = ParallelNow
    <3>1. region' = region /\ conf' = conf /\ (ParallelNow => batch = {})
      BY <1>3 DEF Receive, PointInv
    <3>2. at' = "send" => ParallelNow
      BY <1>3 DEF Receive, FlushThen, Goto, ParallelNow
    <3>3. ParallelNow => batch' = batch
      BY <1>3 DEF Receive, FlushThen, Goto, ParallelNow
    <3> QED
      BY <3>1, <3>2, <3>3 DEF ParallelNow
  <2>6. /\ at' \in {"recv", "send", "run", "marker", "flush", "trail"}
        /\ at' \in {"recv", "send"} => Cardinality(batch') < BatchMax
    BY <1>3, ReceiveBatch
  <2> QED
    BY <1>1, <1>2, <2>1, <2>2, <2>3, <2>4, <2>5, <2>6
    DEF PointInv, AtStatement, AtMarker, Before, Item, Statements
<1>4. CASE StreamEnds
  BY <1>1, <1>2, <1>4 DEF StreamEnds, Goto, PointInv, AtStatement, AtMarker, Before,
    ParallelNow
<1>5. CASE OpenRegion
  BY <1>1, <1>2, <1>5, EmptyBatch DEF OpenRegion, LeavesData, Goto, PointInv, AtStatement, AtMarker,
    Before, ParallelNow, Item
<1>6. CASE PassBarrier
  BY <1>1, <1>2, <1>6, EmptyBatch DEF PassBarrier, Goto, PointInv, AtStatement, AtMarker,
    Before, ParallelNow, Item
<1>7. CASE Send
  BY <1>1, <1>2, <1>7, EmptyBatch DEF Send, Goto, PointInv, AtStatement, AtMarker, Before,
    ParallelNow, Item
<1>8. CASE FlushTrailing
  BY <1>1, <1>2, <1>8 DEF FlushTrailing, FlushThen, Goto, PointInv, AtStatement, AtMarker,
    Before, ParallelNow, Item
<1>9. CASE CloseChannels
  BY <1>1, <1>2, <1>9 DEF CloseChannels, Goto, PointInv, AtStatement, AtMarker, Before,
    ParallelNow, Item
<1>10. CASE JoinPool
  BY <1>1, <1>2, <1>10 DEF JoinPool, Goto, PointInv, AtStatement, AtMarker, Before,
    ParallelNow, Item
<1>11. CASE Return
  BY <1>1, <1>2, <1>11 DEF Return, Goto, PointInv, AtStatement, AtMarker, Before,
    ParallelNow, Item
<1> QED
  BY <1>3, <1>4, <1>5, <1>6, <1>7, <1>8, <1>9, <1>10, <1>11

(* The coordinator's runs of statements.                                   *)
LEMMA RunPoint ==
  ASSUME TypeOK, PointInv, RunInline \/ FlushBatch \/ ReplayStatement
  PROVE  PointInv'
<1> USE DEF inputs, parseVars, coordVars, poolVars, progVars, execVars
<1>1. /\ Positions' = Positions /\ Statements' = Statements
      /\ UNCHANGED <<stream, conf, taken, after, region, tx>>
  BY DEF Positions, Statements, RunInline, FlushBatch, ReplayStatement
<1>2. \A w \in Workers : InHand(w)' => hand'[w] \in Statements
  BY <1>1 DEF RunInline, FlushBatch, ReplayStatement, PointInv, InHand
<1>3. CASE RunInline
  <2>1. at' \in {"recv", "trail", "run"} /\ batch' = batch
    BY <1>3, InlineOutcome DEF RunInline, FailInline, Goto
  <2> QED
    BY <1>1, <1>2, <1>3, <2>1, EmptyBatch DEF RunInline, PointInv, AtStatement, AtMarker,
      Before, ParallelNow, Item
<1>4. CASE FlushBatch
  <2>1. /\ at = "flush" /\ batch # {}
        /\ \/ at' = after /\ batch' = {}
           \/ at' \in {"replay", "flush"} /\ batch' = batch
    BY <1>4, FlushOutcome DEF FlushBatch, Goto, PointInv
  <2>2. after \in {"recv", "marker", "run", "close"}
    BY DEF TypeOK
  <2> QED
    BY <1>1, <1>2, <2>1, <2>2, EmptyBatch DEF PointInv, AtStatement, AtMarker, Before,
      ParallelNow, Item
<1>5. CASE ReplayStatement
  <2>1. at = "replay" /\ batch # {}
    BY <1>5 DEF ReplayStatement, PointInv
  <2>2. \/ at' = after /\ batch' = {}
        \/ at' = "trail" /\ batch' = {}
        \/ at' = "replay" /\ batch' # {}
    <3> DEFINE i == Min(batch)
    <3>1. i \in batch
      BY <2>1, FirstOfBatch
    <3>2. PICK to \in {after, "replay"} :
             /\ to = IF batch = {i} THEN after ELSE "replay"
             /\ \/ at' = to /\ batch' = batch \ {i}
                \/ at' = "trail" /\ batch' = {}
                \/ at' = at /\ batch' = batch
      BY <1>5, ReplayOutcome DEF FailInline, Goto
    <3>3. batch = {i} => batch \ {i} = {}
      OBVIOUS
    <3>4. batch # {i} => batch \ {i} # {}
      BY <3>1
    <3> HIDE DEF i
    <3> QED
      BY <2>1, <3>2, <3>3, <3>4
  <2>3. after \in {"recv", "marker", "run", "close"}
    BY DEF TypeOK
  <2> QED
    BY <1>1, <1>2, <2>1, <2>2, <2>3, EmptyBatch DEF PointInv, AtStatement, AtMarker, Before,
      ParallelNow, Item
<1> QED
  BY <1>3, <1>4, <1>5

(* The other processes.                                                    *)
LEMMA OthersPoint ==
  ASSUME TypeOK, PointInv,
         \/ RequestStop \/ Parser
         \/ \E w \in Workers : Worker(w)
         \/ UNCHANGED vars
  PROVE  PointInv'
<1> USE DEF inputs, parseVars, coordVars, poolVars, progVars, execVars
<1>1. CASE RequestStop \/ Parser \/ UNCHANGED vars
  <2>1. /\ UNCHANGED <<stream, conf, at, after, taken, region, batch, tx, pc, hand>>
        /\ abort => abort'
    BY <1>1 DEF RequestStop, Parser, ParserSend, ParserEnds, ParserCutOff, vars
  <2> QED
    BY <2>1, PointStays DEF PointInv, InHand
<1>2. ASSUME NEW w \in Workers, Worker(w) PROVE PointInv'
  <2>1. UNCHANGED <<stream, conf, at, after, taken, region, batch, tx>>
    BY <1>2 DEF Worker, WorkerReceive, WorkerEnds, WorkerRun
  <2>2. abort => abort'
    BY <1>2, WorkerOutcome DEF Worker, WorkerReceive, WorkerEnds
  <2>3. \A v \in Workers : InHand(v)' => hand'[v] \in Statements
    <3>1. CASE WorkerReceive(w)
      <4>1. Head(queue) \in Statements
        BY <3>1 DEF WorkerReceive, TypeOK
      <4> QED
        BY <3>1, <4>1 DEF WorkerReceive, TypeOK, PointInv, InHand
    <3>2. CASE WorkerEnds(w)
      BY <3>2 DEF WorkerEnds, TypeOK, PointInv, InHand
    <3>3. CASE WorkerRun(w)
      <4>1. hand' = hand /\ \A v \in Workers : pc'[v] = "run" => pc[v] = "run"
        BY <3>3, WorkerOutcome DEF WorkerRun, TypeOK
      <4> QED
        BY <4>1 DEF PointInv, InHand
    <3> QED
      BY <1>2, <3>1, <3>2, <3>3 DEF Worker
  <2> QED
    BY <2>1, <2>2, <2>3, PointStays
<1> QED
  BY <1>1, <1>2

(* Types and points together.                                              *)
TypeInv == TypeOK /\ PointInv
(* Every step keeps them.                                                  *)
LEMMA TypeStep == TypeInv /\ [Next]_vars => TypeInv'
<1> SUFFICES ASSUME TypeOK, PointInv, [Next]_vars PROVE TypeOK' /\ PointInv'
  BY DEF TypeInv
<1>1. CASE UNCHANGED vars
  <2>1. TypeOK'
    BY <1>1 DEF vars, inputs, parseVars, coordVars, poolVars, progVars, execVars, TypeOK,
      Positions, Statements
  <2> QED
    BY <1>1, <2>1, OthersPoint
<1>2. CASE RequestStop \/ Parser
  BY <1>2, ParserType, OthersPoint
<1>3. CASE Coordinator
  BY <1>3, CoordinatorType, CoordinatorPoint, RunType, RunPoint DEF Coordinator
<1>4. ASSUME NEW w \in Workers, Worker(w) PROVE TypeOK' /\ PointInv'
  BY <1>4, WorkerType, OthersPoint
<1> QED
  BY <1>1, <1>2, <1>3, <1>4 DEF Next, Finished

(* They hold at the start.                                                 *)
LEMMA TypeInit == Init => TypeInv
<1> SUFFICES ASSUME Init PROVE PointInv
  BY InitType DEF TypeInv
<1> QED
  BY EmptyBatch DEF Init, PointInv, AtStatement, AtMarker, Before, ParallelNow, InHand

(* Every variable keeps its type: in particular the batch and the queue    *)
(* never outgrow BATCH_MAX_STMTS and the workers' channel, and nothing but *)
(* statements is ever handed to the target.                                *)
THEOREM TypeCorrect == Spec => []TypeOK
<1>1. TypeInv => TypeOK
  BY DEF TypeInv
<1> QED
  BY <1>1, TypeInit, TypeStep, PTL DEF Spec

-----------------------------------------------------------------------------
(* A statement that is sent joins the queue, one that is received leaves   *)
(* it.                                                                     *)
LEMMA QueueGrows ==
  ASSUME TypeOK, NEW i \in Statements, queue' = Append(queue, i)
  PROVE  /\ Queued' = Queued \cup {i}
         /\ Distinct /\ i \notin Queued => Distinct'
<1>1. /\ Len(queue) \in Nat /\ Len(queue') = Len(queue) + 1
      /\ \A k \in 1..Len(queue) : queue'[k] = queue[k]
      /\ queue'[Len(queue) + 1] = i
  BY DEF TypeOK
<1>2. 1..Len(queue') = 1..Len(queue) \cup {Len(queue) + 1}
  BY <1>1
<1>3. Queued' = Queued \cup {i}
  BY <1>1, <1>2 DEF Queued
<1>4. ASSUME Distinct, i \notin Queued PROVE Distinct'
  BY <1>1, <1>2, <1>4 DEF Distinct, Queued
<1> QED
  BY <1>3, <1>4

(* The statement a worker receives is no longer in the queue.              *)
LEMMA QueueShrinks ==
  ASSUME TypeOK, Distinct, queue # <<>>, queue' = Tail(queue)
  PROVE  /\ Head(queue) \in Queued /\ Head(queue) \in Statements
         /\ Queued' = Queued \ {Head(queue)}
         /\ Distinct'
<1>1. /\ Len(queue) \in Nat \ {0} /\ Len(queue') = Len(queue) - 1
      /\ \A k \in 1..Len(queue') : queue'[k] = queue[k + 1]
      /\ Head(queue) = queue[1] /\ Head(queue) \in Statements
  BY DEF TypeOK
<1>2. /\ \A k \in 1..Len(queue') : k + 1 \in 1..Len(queue) /\ k + 1 # 1
      /\ \A k \in 1..Len(queue) : k # 1 => k - 1 \in 1..Len(queue') /\ (k - 1) + 1 = k
      /\ 1 \in 1..Len(queue)
  BY <1>1
<1>3. Queued' \subseteq Queued \ {Head(queue)}
  BY <1>1, <1>2 DEF Queued, Distinct
<1>4. Queued \ {Head(queue)} \subseteq Queued'
  <2> SUFFICES ASSUME NEW k \in 1..Len(queue), queue[k] # Head(queue)
               PROVE  \E l \in 1..Len(queue') : queue'[l] = queue[k]
    BY DEF Queued
  <2>1. k # 1
    BY <1>1
  <2>2. k - 1 \in 1..Len(queue') /\ (k - 1) + 1 = k
    BY <1>2, <2>1
  <2>3. queue'[k - 1] = queue[k]
    BY <1>1, <2>2
  <2> QED
    BY <2>2, <2>3
<1>5. Distinct'
  <2> SUFFICES ASSUME NEW k \in 1..Len(queue'), NEW l \in 1..Len(queue'),
                      queue'[k] = queue'[l]
               PROVE  k = l
    BY DEF Distinct
  <2>1. queue[k + 1] = queue[l + 1]
    BY <1>1
  <2>2. k + 1 = l + 1
    BY <1>2, <2>1 DEF Distinct
  <2> QED
    BY <2>2
<1> QED
  BY <1>1, <1>2, <1>3, <1>4, <1>5 DEF Queued

(* A worker takes statement i into its hand, or has none there any more.   *)
LEMMA HandTakes ==
  ASSUME TypeOK, NEW w \in Workers, NEW i,
         ~InHand(w), pc' = [pc EXCEPT ![w] = "run"], hand' = [hand EXCEPT ![w] = i]
  PROVE  /\ Held' = Held \cup {i}
         /\ Alone /\ i \notin Held => Alone'
<1>1. /\ \A v \in Workers : v # w => hand'[v] = hand[v] /\ (InHand(v)' <=> InHand(v))
      /\ hand'[w] = i /\ InHand(w)'
  BY DEF TypeOK, InHand
<1>2. Held' = Held \cup {i}
  BY <1>1 DEF Held
<1>3. ASSUME Alone, i \notin Held PROVE Alone'
  BY <1>1, <1>3 DEF Alone, Held
<1> QED
  BY <1>2, <1>3

(* A worker that is done with its statement has nothing in its hand.       *)
LEMMA HandDrops ==
  ASSUME TypeOK, Alone, NEW w \in Workers, NEW to, to # "run",
         pc' = [pc EXCEPT ![w] = to],
         hand' = hand \/ (~InHand(w) /\ \E i : hand' = [hand EXCEPT ![w] = i])
  PROVE  /\ Held' = IF InHand(w) THEN Held \ {hand[w]} ELSE Held
         /\ Alone'
<1>1. /\ \A v \in Workers : v # w => hand'[v] = hand[v] /\ (InHand(v)' <=> InHand(v))
      /\ ~InHand(w)'
  BY DEF TypeOK, InHand
<1>2. Held' = IF InHand(w) THEN Held \ {hand[w]} ELSE Held
  <2>1. CASE InHand(w)
    <3>1. Held' \subseteq Held \ {hand[w]}
      BY <1>1, <2>1 DEF Held, Alone
    <3>2. Held \ {hand[w]} \subseteq Held'
      BY <1>1, <2>1 DEF Held
    <3> QED
      BY <2>1, <3>1, <3>2
  <2>2. CASE ~InHand(w)
    BY <1>1, <2>2 DEF Held
  <2> QED
    BY <2>1, <2>2
<1>3. Alone'
  BY <1>1 DEF Alone
<1> QED
  BY <1>2, <1>3

(* Nobody's hand and no place in the queue changes.                        *)
LEMMA PoolStays ==
  ASSUME UNCHANGED <<queue, pc, hand>>
  PROVE  /\ Queued' = Queued /\ (Distinct' <=> Distinct)
         /\ Held' = Held /\ (Alone' <=> Alone)
BY DEF Queued, Distinct, Held, Alone, InHand

-----------------------------------------------------------------------------
(* What a received item may become part of.                                *)
LEMMA ReceivePlaces ==
  ASSUME TypeOK, PointInv, Receive
  PROVE  /\ taken' = taken + 1 /\ OwnStatement = {} /\ taken \in Nat
         /\ \/ batch' = batch /\ OwnStatement' \subseteq {taken'}
            \/ batch' = batch \cup {taken'} /\ OwnStatement' = {}
         /\ UNCHANGED <<stream, conf, queue, pc, hand, settled>>
<1> USE DEF inputs, poolVars, progVars
<1>1. taken' = taken + 1 /\ UNCHANGED <<stream, conf, queue, pc, hand, settled>>
  BY DEF Receive
<1>2. OwnStatement = {} /\ taken \in Nat
  BY StreamType DEF Receive, OwnStatement, AtStatement, Before, TypeOK
<1>3. OwnStatement' \subseteq {taken'}
  BY DEF OwnStatement
<1>4. \/ batch' = batch
      \/ batch' = batch \cup {taken'} /\ at' \in {"flush", "recv"} /\ (at' = "flush" => after' = "recv")
  BY DEF Receive, FlushThen, Goto
<1>5. at' \in {"flush", "recv"} /\ (at' = "flush" => after' = "recv") => OwnStatement' = {}
  BY DEF OwnStatement, AtStatement, Before
<1> QED
  BY <1>1, <1>2, <1>3, <1>4, <1>5

(* The coordinator's steps between statements.                             *)
LEMMA CoordinatorPlace ==
  ASSUME TypeOK, PointInv, PlaceInv,
         \/ Receive \/ StreamEnds \/ OpenRegion \/ PassBarrier \/ Send
         \/ FlushTrailing \/ CloseChannels \/ JoinPool \/ Return
  PROVE  PlaceInv'
<1> USE DEF inputs, parseVars, coordVars, poolVars, progVars, execVars
<1>1. CASE Receive
  <2>1. \A i \in settled \cup batch \cup Queued \cup Held : i <= taken + 1 /\ i # taken + 1
    <3>1. settled \cup batch \cup Queued \cup Held \subseteq Int
      <4>1. Statements \subseteq Int
        BY StreamType DEF TypeOK, Statements
      <4>2. Queued \subseteq Statements /\ Held \subseteq Statements
        BY DEF Queued, Held, TypeOK, PointInv
      <4> QED
        BY <4>1, <4>2 DEF TypeOK
    <3> QED
      BY <1>1, <3>1, ReceivePlaces DEF PlaceInv
  <2>2. /\ UNCHANGED <<Queued, Held, settled>> /\ Distinct' /\ Alone'
        /\ taken' = taken + 1 /\ taken + 1 <= taken + 1
    BY <1>1, ReceivePlaces, PoolStays DEF PlaceInv
  <2>3. \A i \in settled \cup batch \cup Queued \cup Held \cup {taken'} : i <= taken'
    BY <2>1, <2>2
  <2>4. taken' \notin settled \cup batch \cup Queued \cup Held
    BY <2>1, <2>2
  <2>5. \/ batch' = batch /\ OwnStatement' \subseteq {taken'}
        \/ batch' = batch \cup {taken'} /\ OwnStatement' = {}
    BY <1>1, ReceivePlaces
  <2> QED
    BY <2>2, <2>3, <2>4, <2>5 DEF PlaceInv
<1>2. CASE Send
  <2>1. /\ OwnStatement = {taken} /\ taken \in Statements /\ OwnStatement' = {}
    BY <1>2 DEF Send, Goto, OwnStatement, AtStatement, Before, PointInv
  <2>2. UNCHANGED <<taken, settled, batch, pc, hand>>
    BY <1>2 DEF Send
  <2>3. Held' = Held /\ (Alone' <=> Alone)
    BY <2>2 DEF Held, Alone, InHand
  <2>4. /\ Queued' = Queued \/ Queued' = Queued \cup {taken}
        /\ Distinct'
    BY <1>2, <2>1, QueueGrows DEF Send, PlaceInv, Queued, Distinct
  <2>5. taken <= taken
    BY StreamType DEF TypeOK
  <2> QED
    BY <2>1, <2>2, <2>3, <2>4, <2>5 DEF PlaceInv
<1>3. CASE \/ StreamEnds \/ OpenRegion \/ PassBarrier
           \/ FlushTrailing \/ CloseChannels \/ JoinPool \/ Return
  <2>1. UNCHANGED <<taken, settled, batch, queue, pc, hand>>
    BY <1>3 DEF StreamEnds, OpenRegion, PassBarrier, FlushTrailing, CloseChannels,
      JoinPool, Return
  <2>2. OwnStatement' = {}
    BY <1>3 DEF StreamEnds, OpenRegion, PassBarrier, FlushTrailing, FlushThen, CloseChannels,
      JoinPool, Return, Goto, OwnStatement, AtStatement, Before
  <2> QED
    BY <2>1, <2>2, PoolStays DEF PlaceInv
<1> QED
  BY <1>1, <1>2, <1>3

(* What is settled by a run of the coordinator leaves its place.           *)
LEMMA RunPlaces ==
  ASSUME TypeOK, PointInv, RunInline \/ FlushBatch \/ ReplayStatement
  PROVE  \/ /\ settled' = settled /\ batch' = batch
            /\ OwnStatement' = OwnStatement
         \/ /\ settled' = settled \cup OwnStatement /\ batch' = batch
            /\ OwnStatement' = {} /\ at = "run"
         \/ /\ settled' = settled \cup batch /\ batch' = {}
            /\ OwnStatement' = OwnStatement
         \/ /\ \E i \in batch : settled' = settled \cup {i} /\ batch' = batch \ {i}
            /\ OwnStatement' = OwnStatement
         \/ /\ \E i \in batch : settled' = settled \cup {i}
            /\ batch' = {} /\ OwnStatement' = {} /\ abort'
<1> USE DEF inputs, parseVars, coordVars, poolVars, progVars, execVars
<1>1. CASE RunInline
  <2>1. at = "run" /\ OwnStatement = {taken} /\ taken' = taken /\ batch' = batch
    BY <1>1 DEF RunInline, OwnStatement, AtStatement
  <2>2. \/ settled' = settled \cup {taken} /\ at' \in {"recv", "trail"}
        \/ settled' = settled /\ at' = at
    BY <1>1, InlineOutcome DEF CountDone, FailInline, CountError, Goto
  <2> QED
    BY <2>1, <2>2 DEF OwnStatement, AtStatement, Before
<1>2. CASE FlushBatch
  <2>1. at = "flush" /\ UNCHANGED <<taken, after>> /\ after \in {"recv", "marker", "run", "close"}
    BY <1>2 DEF FlushBatch, TypeOK
  <2>2. \/ settled' = settled \cup batch /\ batch' = {} /\ at' = after
        \/ settled' = settled /\ batch' = batch /\ at' \in {"replay", "flush"}
    BY <1>2, <2>1, FlushOutcome DEF CountDone, Goto
  <2>3. OwnStatement' = OwnStatement
    BY <2>1, <2>2 DEF OwnStatement, AtStatement, Before
  <2> QED
    BY <2>2, <2>3
<1>3. CASE ReplayStatement
  <2>1. /\ at = "replay" /\ UNCHANGED <<taken, after>>
        /\ after \in {"recv", "marker", "run", "close"} /\ batch # {}
    BY <1>3 DEF ReplayStatement, TypeOK, PointInv
  <2> DEFINE i == Min(batch)
  <2>2. i \in batch
    BY <2>1, FirstOfBatch
  <2>3. PICK to \in {after, "replay"} :
           \/ CountDone({i}) /\ Goto(to) /\ batch' = batch \ {i}
           \/ /\ FailInline(i, to)
              /\ batch' = IF conf.continueOnError THEN batch \ {i} ELSE {}
           \/ UNCHANGED <<at, batch, settled>>
    BY <1>3, ReplayOutcome
  <2>4. \/ settled' = settled \cup {i} /\ batch' = batch \ {i} /\ at' = to
        \/ settled' = settled \cup {i} /\ batch' = {} /\ at' = "trail" /\ abort'
        \/ settled' = settled /\ batch' = batch /\ at' = at
    BY <2>3 DEF CountDone, CountError, FailInline, Goto
  <2>5. at' \in {after, "replay"} => OwnStatement' = OwnStatement
    BY <2>1 DEF OwnStatement, AtStatement, Before
  <2>6. at' = "trail" => OwnStatement' = {}
    BY DEF OwnStatement, AtStatement, Before
  <2> HIDE DEF i
  <2> QED
    BY <2>1, <2>2, <2>4, <2>5, <2>6
<1> QED
  BY <1>1, <1>2, <1>3

(* The coordinator's runs keep the places apart.                           *)
LEMMA RunPlace ==
  ASSUME TypeOK, PointInv, PlaceInv, RunInline \/ FlushBatch \/ ReplayStatement
  PROVE  PlaceInv'
<1>1. UNCHANGED <<taken, queue, pc, hand>>
  BY DEF RunInline, FlushBatch, ReplayStatement, poolVars
<1>2. \A i \in OwnStatement : i <= taken
  BY StreamType DEF OwnStatement, TypeOK
<1>3. /\ \A i \in settled' \cup batch' : i <= taken
      /\ batch' \cap settled' = {}
  BY <1>2, RunPlaces DEF PlaceInv
<1>4. /\ Queued \cap (settled' \cup batch') = {}
      /\ Held \cap (settled' \cup batch') = {}
  BY RunPlaces DEF PlaceInv
<1>5. OwnStatement' \cap (settled' \cup batch' \cup Queued \cup Held) = {}
  BY RunPlaces DEF PlaceInv
<1> QED
  BY <1>1, <1>3, <1>4, <1>5, PoolStays DEF PlaceInv

(* A worker's step.                                                        *)
LEMMA WorkerPlace ==
  ASSUME TypeOK, PointInv, PlaceInv, NEW w \in Workers, Worker(w) PROVE PlaceInv'
<1> USE DEF inputs, parseVars, coordVars, poolVars, progVars, execVars
<1>1. UNCHANGED <<taken, batch, at, after>> /\ OwnStatement' = OwnStatement
  BY DEF Worker, WorkerReceive, WorkerEnds, WorkerRun, OwnStatement, AtStatement, Before
<1>2. CASE WorkerReceive(w)
  <2> DEFINE i == Head(queue)
  <2>1. queue' = Tail(queue) /\ queue # <<>> /\ hand' = [hand EXCEPT ![w] = i]
        /\ settled' = settled /\ ~InHand(w)
    BY <1>2 DEF WorkerReceive, InHand
  <2>2. i \in Queued /\ Queued' = Queued \ {i} /\ Distinct'
    BY <2>1, QueueShrinks DEF PlaceInv
  <2>3. i \notin Held
    BY <2>2 DEF PlaceInv
  <2>4. (Held' = Held \cup {i} \/ Held' = Held) /\ Alone'
    <3>1. PICK to \in {"recv", "run", "done"} : pc' = [pc EXCEPT ![w] = to]
      BY <1>2 DEF WorkerReceive
    <3>2. CASE to = "run"
      BY <2>1, <2>3, <3>1, <3>2, HandTakes DEF PlaceInv
    <3>3. CASE to # "run"
      BY <2>1, <3>1, <3>3, HandDrops DEF PlaceInv
    <3> QED
      BY <3>2, <3>3
  <2> HIDE DEF i
  <2> QED
    BY <1>1, <2>1, <2>2, <2>4 DEF PlaceInv
<1>3. CASE WorkerEnds(w)
  <2>1. Held' = Held /\ Alone'
    BY <1>3, HandDrops DEF WorkerEnds, InHand, PlaceInv
  <2>2. Queued' = Queued /\ (Distinct' <=> Distinct) /\ settled' = settled
    BY <1>3 DEF WorkerEnds, Queued, Distinct
  <2> QED
    BY <1>1, <2>1, <2>2 DEF PlaceInv
<1>4. CASE WorkerRun(w)
  <2>1. InHand(w) /\ hand' = hand /\ queue' = queue
    BY <1>4 DEF WorkerRun, InHand
  <2>2. hand[w] \in Held
    BY <2>1 DEF Held
  <2>3. Queued' = Queued /\ (Distinct' <=> Distinct)
    BY <2>1 DEF Queued, Distinct
  <2>4. CASE \E to \in {"recv", "done"} : pc' = [pc EXCEPT ![w] = to]
    <3>1. PICK to \in {"recv", "done"} : pc' = [pc EXCEPT ![w] = to]
      BY <2>4
    <3>2. Held' = Held \ {hand[w]} /\ Alone'
      BY <2>1, <3>1, HandDrops DEF PlaceInv
    <3>3. settled' \in {settled, settled \cup {hand[w]}}
      BY <1>4, WorkerOutcome DEF CountDone, CountError
    <3> QED
      BY <1>1, <2>2, <2>3, <3>2, <3>3 DEF PlaceInv
  <2>5. CASE pc' = pc /\ settled' = settled
    BY <1>1, <2>1, <2>5, PoolStays DEF PlaceInv
  <2> QED
    BY <1>4, <2>4, <2>5, WorkerOutcome
<1> QED
  BY <1>2, <1>3, <1>4 DEF Worker

(* Every step does.                                                        *)
LEMMA PlaceStep == TypeInv /\ PlaceInv /\ [Next]_vars => PlaceInv'
<1> SUFFICES ASSUME TypeOK, PointInv, PlaceInv, [Next]_vars PROVE PlaceInv'
  BY DEF TypeInv
<1>1. CASE RequestStop \/ Parser \/ UNCHANGED vars
  <2>1. UNCHANGED <<taken, settled, batch, queue, pc, hand, at, after>>
    BY <1>1 DEF RequestStop, Parser, ParserSend, ParserEnds, ParserCutOff, vars, coordVars,
      poolVars, progVars
  <2>2. OwnStatement' = OwnStatement
    BY <2>1 DEF OwnStatement, AtStatement, Before
  <2> QED
    BY <2>1, <2>2, PoolStays DEF PlaceInv
<1>2. CASE Coordinator
  BY <1>2, CoordinatorPlace, RunPlace DEF Coordinator
<1>3. ASSUME NEW w \in Workers, Worker(w) PROVE PlaceInv'
  BY <1>3, WorkerPlace
<1> QED
  BY <1>1, <1>2, <1>3 DEF Next, Finished

-----------------------------------------------------------------------------
(* What prog and the target make of an attempt.                            *)
Counted(S) ==
  \/ CountDone(S)
  \/ \E i \in S : CountError(i)
  \/ UNCHANGED <<done, errs, settled, failed>>
CountedAttempt(e, S) ==
  Attempt(e, S, CountDone(S),
    (\E i \in S : CountError(i)) \/ UNCHANGED <<done, errs, settled, failed>>,
    UNCHANGED <<done, errs, settled, failed>>)

(* Whoever runs statements, runs what is in its place, and none of it has  *)
(* been settled.                                                           *)
LEMMA Runs ==
  ASSUME TypeOK, PointInv, PlaceInv, [Next]_vars
  PROVE  \/ \E e \in Executors : \E S \in SUBSET Statements :
              S \cap settled = {} /\ CountedAttempt(e, S)
         \/ UNCHANGED <<applied, lostAcks, done, errs, settled, failed>>
<1> USE DEF inputs, parseVars, coordVars, poolVars, progVars, execVars
<1>1. CASE RunInline
  <2>1. CountedAttempt(Main, {taken})
    BY <1>1 DEF RunInline, FailInline, CountedAttempt, Attempt
  <2>2. taken \in Statements /\ taken \notin settled
    BY <1>1 DEF RunInline, PointInv, PlaceInv, OwnStatement, AtStatement
  <2> QED
    BY <2>1, <2>2 DEF Executors
<1>2. CASE FlushBatch
  <2>1. CountedAttempt(Main, batch)
    BY <1>2 DEF FlushBatch, CountedAttempt, Attempt
  <2> QED
    BY <2>1 DEF Executors, PlaceInv, TypeOK
<1>3. CASE ReplayStatement
  <2>1. CountedAttempt(Main, {Min(batch)})
    BY <1>3 DEF ReplayStatement, FailInline, CountedAttempt, Attempt
  <2>2. Min(batch) \in batch
    BY <1>3, FirstOfBatch DEF ReplayStatement, PointInv
  <2>3. {Min(batch)} \in SUBSET Statements /\ {Min(batch)} \cap settled = {}
    BY <2>2 DEF PlaceInv, TypeOK
  <2>4. Main \in Executors
    BY DEF Executors
  <2> QED
    BY <2>1, <2>3, <2>4
<1>4. ASSUME NEW w \in Workers, WorkerRun(w)
      PROVE  \E e \in Executors : \E S \in SUBSET Statements :
               S \cap settled = {} /\ CountedAttempt(e, S)
  <2>1. CountedAttempt(w, {hand[w]})
    BY <1>4 DEF WorkerRun, CountedAttempt, Attempt
  <2>2. hand[w] \in Statements /\ hand[w] \notin settled
    BY <1>4 DEF WorkerRun, PointInv, PlaceInv, InHand, Held
  <2> QED
    BY <2>1, <2>2 DEF Executors
<1>5. CASE UNCHANGED vars
  BY <1>5 DEF vars
<1>6. CASE \/ RequestStop \/ Parser
           \/ Receive \/ StreamEnds \/ OpenRegion \/ PassBarrier \/ Send
           \/ FlushTrailing \/ CloseChannels \/ JoinPool \/ Return
           \/ \E w \in Workers : WorkerReceive(w) \/ WorkerEnds(w)
  BY <1>6 DEF RequestStop, Parser, ParserSend, ParserEnds, ParserCutOff, Receive, StreamEnds,
    OpenRegion, PassBarrier, Send, FlushTrailing, CloseChannels, JoinPool, Return,
    WorkerReceive, WorkerEnds
<1> QED
  BY <1>1, <1>2, <1>3, <1>4, <1>5, <1>6 DEF Next, Coordinator, Worker, Finished

(* The source stays what it is.                                            *)
LEMMA SourceStays ==
  ASSUME [Next]_vars
  PROVE  UNCHANGED <<stream, conf>> /\ Positions' = Positions /\ Statements' = Statements
<1>1. UNCHANGED inputs
  BY DEF Next, Finished, vars, RequestStop, Parser, ParserSend, ParserEnds, ParserCutOff,
    Coordinator, Receive, StreamEnds, OpenRegion, PassBarrier, Send, RunInline, FlushBatch,
    ReplayStatement, FlushTrailing, CloseChannels, JoinPool, Return, Worker, WorkerReceive,
    WorkerEnds, WorkerRun
<1> QED
  BY <1>1 DEF inputs, Positions, Statements

-----------------------------------------------------------------------------
(* The counters follow what is settled.                                    *)
LEMMA CountStep == TypeInv /\ PlaceInv /\ CountInv /\ [Next]_vars => CountInv'
<1> SUFFICES ASSUME TypeOK, PointInv, PlaceInv, CountInv, [Next]_vars PROVE CountInv'
  BY DEF TypeInv
<1>1. ASSUME NEW e \in Executors, NEW S \in SUBSET Statements, S \cap settled = {},
             CountedAttempt(e, S)
      PROVE  CountInv'
  <2>1. Counted(S)
    BY <1>1 DEF CountedAttempt, Attempt, Counted
  <2>2. /\ IsFiniteSet(settled) /\ IsFiniteSet(failed) /\ IsFiniteSet(S)
        /\ failed \subseteq settled
    <3>1. failed \in SUBSET Statements /\ settled \in SUBSET Statements
      BY DEF TypeOK
    <3> QED
      BY <3>1, StatementsAreFinite DEF TypeOK
  <2>3. CASE CountDone(S)
    <3>1. Cardinality(settled \cup S) = Cardinality(settled) + Cardinality(S)
      <4>1. Cardinality(settled \cup S)
              = Cardinality(settled) + Cardinality(S) - Cardinality(settled \cap S)
        BY <2>2, FS_Union
      <4>2. Cardinality(settled \cap S) = 0
        BY <1>1, FS_EmptySet
      <4>3. Cardinality(settled) \in Nat /\ Cardinality(S) \in Nat
        BY <2>2, FS_CardinalityType
      <4> QED
        BY <4>1, <4>2, <4>3
    <3> QED
      BY <2>3, <3>1 DEF CountDone, CountInv
  <2>4. CASE \E i \in S : CountError(i)
    <3>1. PICK i \in S : CountError(i)
      BY <2>4
    <3>2. i \notin settled /\ i \notin failed
      BY <1>1, <2>2
    <3>3. Cardinality(settled \cup {i}) = Cardinality(settled) + 1
      BY <2>2, <3>2, FS_AddElement
    <3>4. Cardinality(failed \cup {i}) = Cardinality(failed) + 1
      BY <2>2, <3>2, FS_AddElement
    <3> QED
      BY <3>1, <3>3, <3>4 DEF CountError, CountInv
  <2> QED
    BY <2>1, <2>3, <2>4 DEF Counted, CountInv
<1> QED
  BY <1>1, Runs DEF CountInv

(* Effects are those of settled statements, or lost their acknowledgement. *)
LEMMA EffectStep == TypeInv /\ PlaceInv /\ EffectInv /\ [Next]_vars => EffectInv'
<1> SUFFICES ASSUME TypeOK, PointInv, PlaceInv, EffectInv, [Next]_vars PROVE EffectInv'
  BY DEF TypeInv
<1>1. ASSUME NEW e \in Executors, NEW S \in SUBSET Statements, S \cap settled = {},
             CountedAttempt(e, S)
      PROVE  EffectInv'
  <2>1. /\ lostAcks \in Nat /\ \A i \in Positions : applied[i] \in Nat
        /\ S \subseteq Positions /\ settled \subseteq Positions
    BY BoundsAreNumbers DEF TypeOK, Statements
  <2>2. Positions' = Positions
    BY SourceStays
  <2>3. CASE /\ applied' = [i \in Positions |-> applied[i] + IF i \in S THEN 1 ELSE 0]
             /\ CountDone(S) /\ UNCHANGED lostAcks
    <3>1. settled' = settled \cup S /\ failed' = failed
      BY <2>3 DEF CountDone
    <3>2. \A i \in Positions : applied'[i] = applied[i] + IF i \in S THEN 1 ELSE 0
      BY <2>3
    <3>3. \A i \in Positions : applied'[i] <= lostAcks' + IF i \in settled' THEN 1 ELSE 0
      BY <1>1, <2>1, <2>3, <3>1, <3>2 DEF EffectInv
    <3>4. \A i \in settled' : applied'[i] > 0 \/ i \in failed'
      BY <1>1, <2>1, <2>3, <3>1, <3>2 DEF EffectInv
    <3> QED
      BY <2>2, <3>3, <3>4 DEF EffectInv
  <2>4. CASE /\ \/ UNCHANGED <<applied, lostAcks>>
                \/ /\ applied' = [i \in Positions |-> applied[i] + IF i \in S THEN 1 ELSE 0]
                   /\ lostAcks' = lostAcks + 1
             /\ \/ \E i \in S : CountError(i)
                \/ UNCHANGED <<done, errs, settled, failed>>
    <3>1. /\ settled \subseteq settled' /\ failed \subseteq failed'
          /\ \A i \in settled' : i \in settled \/ i \in failed'
      BY <2>4 DEF CountError
    <3>2. \A i \in Positions :
            /\ applied'[i] \in Nat /\ applied[i] <= applied'[i]
            /\ applied'[i] <= applied[i] + (lostAcks' - lostAcks)
      BY <2>1, <2>4
    <3>3. lostAcks' \in Nat /\ lostAcks <= lostAcks'
      BY <2>1, <2>4
    <3>4. \A i \in Positions : applied'[i] <= lostAcks' + IF i \in settled' THEN 1 ELSE 0
      BY <2>1, <3>1, <3>2, <3>3 DEF EffectInv
    <3>5. \A i \in settled' : applied'[i] > 0 \/ i \in failed'
      BY <2>1, <3>1, <3>2 DEF EffectInv
    <3> QED
      BY <2>2, <3>4, <3>5 DEF EffectInv
  <2> QED
    BY <1>1, <2>3, <2>4 DEF CountedAttempt, Attempt
<1>2. CASE UNCHANGED <<applied, lostAcks, done, errs, settled, failed>>
  BY <1>2, SourceStays DEF EffectInv
<1> QED
  BY <1>1, <1>2, Runs

(* What the import returns is what first_err and the parser said when it   *)
(* did.                                                                    *)
LEMMA ResultStep == TypeInv /\ ResultInv /\ [Next]_vars => ResultInv'
<1> SUFFICES ASSUME TypeOK, PointInv, ResultInv, [Next]_vars PROVE ResultInv'
  BY DEF TypeInv
<1> USE DEF inputs, parseVars, coordVars, poolVars, progVars, execVars
<1>1. conf' = conf
  BY SourceStays
<1>2. CASE RequestStop \/ Parser \/ UNCHANGED vars
  BY <1>1, <1>2 DEF RequestStop, Parser, ParserSend, ParserEnds, ParserCutOff, vars, ResultInv,
    PoolJoined
<1>3. CASE \/ Receive \/ StreamEnds \/ OpenRegion \/ PassBarrier \/ Send
           \/ FlushTrailing \/ CloseChannels \/ JoinPool
  <2>1. /\ UNCHANGED <<parser, firstErr, failed, pc, result>>
        /\ at \notin {"parser", "returned"} /\ at' # "returned"
        /\ at' = "parser" => PoolJoined
    BY <1>3 DEF Receive, StreamEnds, OpenRegion, PassBarrier, Send, FlushTrailing, FlushThen,
      CloseChannels, JoinPool, Goto, TypeOK
  <2> QED
    BY <1>1, <2>1 DEF ResultInv, PoolJoined
<1>4. CASE Return
  BY <1>1, <1>4 DEF Return, Goto, ResultInv, PoolJoined
<1>5. CASE RunInline \/ FlushBatch \/ ReplayStatement
  <2>1. /\ UNCHANGED <<parser, pc, result>>
        /\ at \in {"run", "flush", "replay"}
    BY <1>5 DEF RunInline, FlushBatch, ReplayStatement
  <2>2. at' \notin {"parser", "returned"}
    BY <1>5, <2>1, InlineOutcome, FlushOutcome, ReplayOutcome DEF FailInline, Goto, TypeOK
  <2>3. \/ UNCHANGED <<firstErr, failed>>
        \/ /\ failed' # {} /\ conf.continueOnError /\ firstErr' = firstErr
        \/ /\ failed' # {} /\ ~conf.continueOnError /\ firstErr'
    <3>1. CASE RunInline
      BY <3>1, InlineOutcome DEF FailInline, CountDone, CountError
    <3>2. CASE FlushBatch
      BY <3>2, FlushOutcome DEF CountDone
    <3>3. CASE ReplayStatement
      BY <3>3, ReplayOutcome DEF FailInline, CountDone, CountError
    <3> QED
      BY <1>5, <3>1, <3>2, <3>3
  <2> QED
    BY <1>1, <2>1, <2>2, <2>3 DEF ResultInv
<1>6. ASSUME NEW w \in Workers, Worker(w) PROVE ResultInv'
  <2>1. UNCHANGED <<parser, at, result>> /\ ~PoolJoined
    BY <1>6 DEF Worker, WorkerReceive, WorkerEnds, WorkerRun, PoolJoined
  <2>2. \/ UNCHANGED <<firstErr, failed>>
        \/ /\ failed' # {} /\ conf.continueOnError /\ firstErr' = firstErr
        \/ /\ failed' # {} /\ ~conf.continueOnError /\ firstErr'
    BY <1>6, WorkerOutcome DEF Worker, WorkerReceive, WorkerEnds, CountDone, CountError
  <2> QED
    BY <1>1, <2>1, <2>2 DEF ResultInv
<1> QED
  BY <1>2, <1>3, <1>4, <1>5, <1>6 DEF Next, Finished, Coordinator

(* All of them hold at the start.                                          *)
LEMMA ProgInit == Init => PlaceInv /\ CountInv /\ EffectInv /\ ResultInv
<1> SUFFICES ASSUME Init PROVE PlaceInv /\ CountInv /\ EffectInv /\ ResultInv
  OBVIOUS
<1>1. Len(queue) = 0 /\ Queued = {} /\ Held = {} /\ OwnStatement = {}
  BY DEF Init, Queued, Held, InHand, OwnStatement, AtStatement, Before
<1>2. Distinct /\ Alone
  BY <1>1 DEF Init, Distinct, Alone, InHand
<1>3. CountInv /\ ResultInv
  BY FS_EmptySet DEF Init, CountInv, ResultInv
<1>4. PlaceInv /\ EffectInv
  BY <1>1, <1>2 DEF Init, PlaceInv, EffectInv
<1> QED
  BY <1>3, <1>4

(* prog.done and prog.errs: each statement is counted once, whether it was *)
(* committed with its batch, replayed after it, run inline or in a worker. *)
THEOREM CountersAreExact == Spec => []CountersAgree
<1>1. CountInv => CountersAgree
  BY DEF CountInv, CountersAgree
<1> QED
  BY <1>1, TypeInit, TypeStep, ProgInit, PlaceStep, CountStep, PTL DEF Spec

(* exec_one_resilient and flush_batch: a statement takes effect once, and  *)
(* once more for each acknowledgement that was lost, over all retries,     *)
(* replays and workers.                                                    *)
THEOREM AppliedAtMostOnce == Spec => []AppliedOnce
<1>1. TypeOK /\ EffectInv => AppliedOnce
  BY BoundsAreNumbers DEF TypeOK, EffectInv, AppliedOnce
<1>2. TypeInv => TypeOK
  BY DEF TypeInv
<1> QED
  BY <1>1, <1>2, TypeInit, TypeStep, ProgInit, PlaceStep, EffectStep, PTL DEF Spec

(* first_err: without continue_on_error a failed statement fails the       *)
(* import, whoever ran it, and nothing else does but an unreadable source. *)
THEOREM FailuresSurface == Spec => []FailureSurfaces
<1>1. ResultInv => FailureSurfaces
  BY DEF ResultInv, FailureSurfaces
<1> QED
  BY <1>1, TypeInit, TypeStep, ProgInit, ResultStep, PTL DEF Spec

-----------------------------------------------------------------------------
(* A marker opens a region, which the statements after it are in.          *)
LEMMA RegionNext ==
  ASSUME stream \in Dumps \cup Foreign, NEW i \in Nat, i + 1 \in Positions
  PROVE  RegionOf(i + 1) = IF stream[i + 1] \in Regions THEN stream[i + 1] ELSE RegionOf(i)
<1> DEFINE M(n) == {j \in 1..n : stream[j] \in Regions}
<1>1. 1..(i + 1) = (1..i) \cup {i + 1}
  OBVIOUS
<1>2. CASE stream[i + 1] \in Regions
  <2>1. i + 1 \in M(i + 1) /\ \A j \in M(i + 1) : i + 1 >= j /\ j \in Int
    BY <1>2
  <2>2. Max(M(i + 1)) = i + 1
    <3>1. \A m \in M(i + 1) : (\A j \in M(i + 1) : m >= j) <=> m = i + 1
      BY <2>1
    <3> HIDE DEF M
    <3> QED
      BY <2>1, <3>1 DEF Max
  <2>3. M(i + 1) # {}
    BY <2>1
  <2> QED
    BY <1>2, <2>2, <2>3 DEF RegionOf
<1>3. CASE stream[i + 1] \notin Regions
  <2>1. M(i + 1) = M(i)
    BY <1>1, <1>3
  <2> QED
    BY <1>3, <2>1 DEF RegionOf
<1> QED
  BY <1>2, <1>3

(* Where a statement lies does not change.                                 *)
LEMMA RegionsStay ==
  ASSUME [Next]_vars
  PROVE  /\ \A i : RegionOf(i)' = RegionOf(i)
         /\ Parallels' = Parallels /\ (DataResumes' <=> DataResumes)
BY SourceStays DEF RegionOf, Parallels, Parallel, DataResumes, Positions

(* The pool gets what is sent to it, and keeps what has not been run.      *)
LEMMA PoolChanges ==
  ASSUME TypeOK, PointInv, PlaceInv, [Next]_vars
  PROVE  /\ InPool' \subseteq InPool \cup (IF at = "send" THEN {taken} ELSE {})
         /\ ~abort' /\ ~stop' =>
              \A i \in InPool : stream[i] # "skip" => i \in InPool' \cup settled'
<1> USE DEF inputs, parseVars, coordVars, poolVars, progVars, execVars, InPool
<1>1. CASE UNCHANGED <<queue, pc, hand>>
  BY <1>1, PoolStays
<1>2. CASE Send
  <2>1. at = "send" /\ taken \in Statements /\ UNCHANGED <<pc, hand>>
    BY <1>2 DEF Send, PointInv, AtStatement
  <2>2. Held' = Held
    BY <2>1 DEF Held, InHand
  <2>3. Queued' = Queued \/ Queued' = Queued \cup {taken}
    BY <1>2, <2>1, QueueGrows DEF Send, Queued
  <2> QED
    BY <2>1, <2>2, <2>3
<1>3. ASSUME NEW w \in Workers, WorkerReceive(w) PROVE
        /\ InPool' \subseteq InPool
        /\ ~abort' /\ ~stop' =>
             \A i \in InPool : stream[i] # "skip" => i \in InPool' \cup settled'
  <2> DEFINE i == Head(queue)
  <2>1. queue' = Tail(queue) /\ queue # <<>> /\ hand' = [hand EXCEPT ![w] = i] /\ ~InHand(w)
    BY <1>3 DEF WorkerReceive, InHand
  <2>2. i \in Queued /\ Queued' = Queued \ {i}
    BY <2>1, QueueShrinks DEF PlaceInv
  <2>3. CASE pc' = [pc EXCEPT ![w] = "run"]
    <3>1. Held' = Held \cup {i}
      BY <2>1, <2>3, HandTakes
    <3> HIDE DEF i
    <3> QED
      BY <2>2, <3>1
  <2>4. CASE pc' = [pc EXCEPT ![w] = "recv"] /\ stream[i] = "skip"
    <3>1. Held' = Held
      BY <2>1, <2>4, HandDrops DEF PlaceInv
    <3> HIDE DEF i
    <3> QED
      BY <2>2, <2>4, <3>1
  <2>5. CASE pc' = [pc EXCEPT ![w] = "done"] /\ (abort' \/ stop')
    <3>1. Held' = Held
      BY <2>1, <2>5, HandDrops DEF PlaceInv
    <3> HIDE DEF i
    <3> QED
      BY <2>2, <2>5, <3>1
  <2> QED
    BY <1>3, <2>3, <2>4, <2>5 DEF WorkerReceive
<1>4. ASSUME NEW w \in Workers, WorkerEnds(w) PROVE InPool' = InPool
  <2>1. Held' = Held
    BY <1>4, HandDrops DEF WorkerEnds, InHand, PlaceInv
  <2> QED
    BY <1>4, <2>1 DEF WorkerEnds, Queued
<1>5. ASSUME NEW w \in Workers, WorkerRun(w)
      PROVE  InPool' \subseteq InPool /\ InPool \subseteq InPool' \cup settled'
  <2>1. InHand(w) /\ hand' = hand /\ queue' = queue
    BY <1>5 DEF WorkerRun, InHand
  <2>2. Queued' = Queued
    BY <2>1 DEF Queued
  <2>3. CASE \E to \in {"recv", "done"} : pc' = [pc EXCEPT ![w] = to] /\ hand[w] \in settled'
    <3>1. PICK to \in {"recv", "done"} : pc' = [pc EXCEPT ![w] = to] /\ hand[w] \in settled'
      BY <2>3
    <3>2. Held' = Held \ {hand[w]}
      BY <2>1, <3>1, HandDrops DEF PlaceInv
    <3> QED
      BY <2>2, <3>1, <3>2
  <2>4. CASE pc' = pc
    BY <2>1, <2>4, PoolStays
  <2> QED
    BY <1>5, <2>3, <2>4, WorkerOutcome DEF CountDone, CountError
<1>6. CASE \/ RequestStop \/ Parser \/ UNCHANGED vars
           \/ Receive \/ StreamEnds \/ OpenRegion \/ PassBarrier
           \/ RunInline \/ FlushBatch \/ ReplayStatement
           \/ FlushTrailing \/ CloseChannels \/ JoinPool \/ Return
  <2>1. UNCHANGED <<queue, pc, hand>>
    BY <1>6 DEF RequestStop, Parser, ParserSend, ParserEnds, ParserCutOff, vars, Receive,
      StreamEnds, OpenRegion, PassBarrier, RunInline, FlushBatch, ReplayStatement,
      FlushTrailing, CloseChannels, JoinPool, Return
  <2> QED
    BY <1>1, <2>1
<1> QED
  BY <1>2, <1>3, <1>4, <1>5, <1>6 DEF Next, Coordinator, Worker, Finished

(* The workers' steps, the parser's and a request to stop leave the        *)
(* coordinator where it is.                                                *)
LEMMA CoordinatorStays ==
  ASSUME \/ RequestStop \/ Parser \/ UNCHANGED vars
         \/ \E w \in Workers : Worker(w)
  PROVE  /\ UNCHANGED <<at, taken, after, region, batch, tx>>
         /\ OwnStatement' = OwnStatement
         /\ AtStatement' = AtStatement
         /\ AtMarker' = AtMarker
<1>1. UNCHANGED <<at, taken, after, region, batch, tx>>
  BY DEF RequestStop, Parser, ParserSend, ParserEnds, ParserCutOff, vars, coordVars, poolVars,
    Worker, WorkerReceive, WorkerEnds, WorkerRun
<1> QED
  BY <1>1 DEF OwnStatement, AtStatement, AtMarker, Before

(* A run of statements leads on to where flush_batch returns, or out of    *)
(* the loop.                                                               *)
LEMMA RunLeads ==
  ASSUME TypeOK, PointInv, RunInline \/ FlushBatch \/ ReplayStatement
  PROVE  /\ UNCHANGED <<taken, after, region, tx, queue, pc, hand, closed, stop>>
         /\ \/ at = "run" /\ at' \in {"run", "recv"}
            \/ at = "run" /\ at' = "trail" /\ abort' /\ firstErr'
            \/ at \in {"flush", "replay"} /\ at' \in {"flush", "replay", after}
            \/ at = "replay" /\ at' = "trail" /\ abort' /\ firstErr'
<1> USE DEF poolVars
<1>1. CASE RunInline
  BY <1>1, InlineOutcome DEF RunInline, FailInline, Goto
<1>2. CASE FlushBatch
  BY <1>2, FlushOutcome DEF FlushBatch, Goto
<1>3. CASE ReplayStatement
  BY <1>3, ReplayOutcome DEF ReplayStatement, FailInline, Goto
<1> QED
  BY <1>1, <1>2, <1>3

(* The region the coordinator is in is the one its item lies in.           *)
LEMMA RegionStep == TypeInv /\ PlaceInv /\ RegionInv /\ [Next]_vars => RegionInv'
<1> SUFFICES ASSUME TypeOK, PointInv, PlaceInv, RegionInv, [Next]_vars PROVE RegionInv'
  BY DEF TypeInv
<1> DEFINE Here == at \in {"recv", "send", "run"} \/ Before("recv") \/ Before("run")
<1>1. InPool' \subseteq Parallels'
  BY PoolChanges, RegionsStay DEF RegionInv
<1>2. UNCHANGED <<stream, conf, Parallels>>
  BY RegionsStay, SourceStays
<1>2a. /\ RegionOf(taken)' = RegionOf(taken')
      /\ RegionOf(taken - 1)' = RegionOf(taken' - 1)
  BY <1>2 DEF RegionOf
<1>3. ASSUME UNCHANGED <<taken, region>>, Here' => Here, AtMarker' => AtMarker,
             at' = "send" => at = "send"
      PROVE  RegionInv'
  BY <1>1, <1>2, <1>3, <1>2a DEF RegionInv
<1>4. CASE \/ RequestStop \/ Parser \/ UNCHANGED vars
           \/ \E w \in Workers : Worker(w)
  <2>1. Here' => Here
    BY <1>4, CoordinatorStays DEF Before
  <2> QED
    BY <1>3, <1>4, <2>1, CoordinatorStays
<1>5. CASE RunInline \/ FlushBatch \/ ReplayStatement
  <2>1. /\ UNCHANGED <<taken, after, region>> /\ after \in {"recv", "marker", "run", "close"}
        /\ \/ at = "run" /\ at' \in {"run", "recv"}
           \/ at' = "trail"
           \/ at \in {"flush", "replay"} /\ at' \in {"flush", "replay", after}
    BY <1>5, RunLeads DEF TypeOK
  <2>2. (Here' => Here) /\ (AtMarker' => AtMarker) /\ at' # "send"
    BY <2>1 DEF Before, AtMarker
  <2> QED
    BY <1>3, <2>1, <2>2
<1>6. CASE \/ StreamEnds \/ FlushTrailing \/ CloseChannels \/ JoinPool \/ Return
  <2>1. /\ UNCHANGED <<taken, region>>
        /\ at' \in {"trail", "close", "join", "parser", "returned"} \/ (at' = "flush" /\ after' = "close")
    BY <1>6 DEF StreamEnds, FlushTrailing, FlushThen, CloseChannels, JoinPool, Return, Goto
  <2>2. ~Here' /\ ~AtMarker' /\ at' # "send"
    BY <2>1 DEF Before, AtMarker
  <2> QED
    BY <1>3, <2>1, <2>2
<1>7. CASE Send
  <2>1. /\ UNCHANGED <<taken, region>> /\ at = "send" /\ at' \in {"recv", "trail"}
    BY <1>7 DEF Send, Goto
  <2>2. Here /\ ~AtMarker' /\ at' # "send"
    BY <2>1 DEF Before, AtMarker
  <2> QED
    BY <1>3, <2>1, <2>2
<1>8. CASE Receive
  <2>1. /\ taken' = taken + 1 /\ taken \in Nat /\ taken + 1 \in Positions
        /\ region' = region /\ region = RegionOf(taken)
    BY <1>8, ReceivePlaces, ReceiveBatch DEF Receive, RegionInv
  <2>2. RegionOf(taken + 1) = IF stream[taken + 1] \in Regions THEN stream[taken + 1] ELSE region
    BY <2>1, RegionNext DEF TypeOK
  <2>3. /\ Here' => stream[taken + 1] \in Kinds
        /\ at' = "send" => stream[taken + 1] \in Kinds /\ conf.parallel /\ region = "Data"
    BY <1>8 DEF Receive, FlushThen, Goto, Before
  <2>4. stream[taken + 1] \in Kinds => stream[taken + 1] \notin Regions
    BY DEF Kinds, Regions
  <2>5. Here' => region' = RegionOf(taken)'
    BY <1>2a, <2>1, <2>2, <2>3, <2>4
  <2>6. at' = "send" => taken' \in Parallels'
    BY <1>2, <2>1, <2>2, <2>3, <2>4 DEF Parallels, Parallel
  <2>7. AtMarker' => region' = RegionOf(taken - 1)'
    <3>1. taken' - 1 = taken
      BY <2>1
    <3> QED
      BY <1>2a, <2>1, <3>1
  <2> QED
    BY <1>1, <2>5, <2>6, <2>7 DEF RegionInv
<1>9. CASE OpenRegion \/ PassBarrier
  <2>1. AtMarker /\ taken' = taken /\ taken \in Positions /\ stream[taken] \in Regions
    BY <1>9 DEF OpenRegion, PassBarrier, AtMarker, PointInv, Item
  <2>2. RegionOf(taken) = stream[taken]
    <3>1. taken - 1 \in Nat /\ (taken - 1) + 1 = taken
      BY <2>1 DEF Positions
    <3> QED
      BY <2>1, <3>1, RegionNext DEF TypeOK
  <2>3. \/ at' = "barrier" /\ region' = region
        \/ at' = "recv" /\ region' = stream[taken]
    BY <1>9 DEF OpenRegion, PassBarrier, Goto, Item
  <2>4. CASE at' = "barrier" /\ region' = region
    BY <1>3, <2>1, <2>4 DEF Before
  <2>5. CASE at' = "recv" /\ region' = stream[taken]
    <3>1. region' = RegionOf(taken)'
      BY <1>2a, <2>1, <2>2, <2>5
    <3>2. ~AtMarker' /\ at' # "send"
      BY <2>5 DEF AtMarker, Before
    <3> QED
      BY <1>1, <3>1, <3>2 DEF RegionInv
  <2> QED
    BY <2>3, <2>4, <2>5
<1> QED
  BY <1>4, <1>5, <1>6, <1>7, <1>8, <1>9 DEF Next, Coordinator, Finished

-----------------------------------------------------------------------------
(* What never goes back.                                                   *)
LEMMA Forwards ==
  ASSUME TypeOK, PointInv, [Next]_vars
  PROVE  /\ settled \subseteq settled'
         /\ failed \subseteq failed'
         /\ abort => abort'
         /\ stop => stop'
         /\ firstErr => firstErr'
         /\ ~tx => ~tx'
         /\ closed => closed'
         /\ Ended => Ended'
         /\ Dropped => Dropped'
<1> USE DEF inputs, parseVars, coordVars, poolVars, progVars, execVars
<1>1. CASE RequestStop \/ Parser \/ UNCHANGED vars
  BY <1>1 DEF RequestStop, Parser, ParserSend, ParserEnds, ParserCutOff, vars, Ended, Dropped,
    Before
<1>2. CASE \/ Receive \/ StreamEnds \/ OpenRegion \/ PassBarrier \/ Send
           \/ FlushTrailing \/ CloseChannels \/ JoinPool \/ Return
  <2>1. /\ UNCHANGED <<settled, failed, abort, stop, firstErr, closed>>
        /\ ~tx => ~tx'
    BY <1>2 DEF Receive, StreamEnds, OpenRegion, PassBarrier, Send, FlushTrailing,
      CloseChannels, JoinPool, Return
  <2>2. (Ended => Ended') /\ (Dropped => Dropped')
    BY <1>2 DEF Receive, StreamEnds, OpenRegion, PassBarrier, Send, FlushTrailing, FlushThen,
      CloseChannels, JoinPool, Return, Goto, Ended, Dropped, Before
  <2> QED
    BY <2>1, <2>2
<1>3. CASE RunInline \/ FlushBatch \/ ReplayStatement
  <2>1. UNCHANGED <<after, stop, tx, closed>>
    BY <1>3 DEF RunInline, FlushBatch, ReplayStatement
  <2>2. (Ended => Ended') /\ (Dropped => Dropped')
    BY <1>3, <2>1, RunLeads DEF Ended, Dropped, Before, TypeOK
  <2>3. /\ settled \subseteq settled' /\ failed \subseteq failed'
        /\ (abort => abort') /\ (firstErr => firstErr')
    <3>1. CASE RunInline
      <4>1. CASE CountDone({taken}) /\ UNCHANGED <<firstErr, abort>>
        BY <4>1 DEF CountDone
      <4>2. CASE FailInline(taken, "recv")
        BY <4>2 DEF FailInline, CountError
      <4> QED
        BY <3>1, <4>1, <4>2, InlineOutcome
    <3>2. CASE FlushBatch
      BY <3>2, FlushOutcome DEF CountDone, FlushBatch
    <3>3. CASE ReplayStatement
      BY <3>3, ReplayOutcome DEF FailInline, CountDone, CountError
    <3> QED
      BY <1>3, <3>1, <3>2, <3>3
  <2> QED
    BY <2>1, <2>2, <2>3
<1>4. ASSUME NEW w \in Workers, Worker(w)
      PROVE  /\ UNCHANGED <<at, after, stop, tx>>
             /\ settled \subseteq settled' /\ failed \subseteq failed'
             /\ (abort => abort') /\ (firstErr => firstErr') /\ (closed => closed')
  <2>1. UNCHANGED <<at, after, stop, tx>>
    BY <1>4 DEF Worker, WorkerReceive, WorkerEnds, WorkerRun
  <2>2. /\ settled \subseteq settled' /\ failed \subseteq failed'
        /\ (abort => abort') /\ (firstErr => firstErr') /\ (closed => closed')
    BY <1>4, WorkerOutcome DEF Worker, WorkerReceive, WorkerEnds, CountDone, CountError
  <2> QED
    BY <2>1, <2>2
<1>5. CASE \E w \in Workers : Worker(w)
  BY <1>4, <1>5 DEF Ended, Dropped, Before
<1> QED
  BY <1>1, <1>2, <1>3, <1>5 DEF Next, Coordinator, Finished

(* Between receiving and sending a statement, what leaves the batch or the *)
(* coordinator's hand has been settled, unless an error ends the import.   *)
LEMMA CoordinatorKeeps ==
  ASSUME TypeOK, PointInv, [Next]_vars, ~Receive, ~Send
  PROVE  /\ taken' = taken /\ batch' \subseteq batch
         /\ OwnStatement' \subseteq OwnStatement
         /\ \/ settled \cup batch \cup OwnStatement
                  \subseteq settled' \cup batch' \cup OwnStatement'
            \/ abort' /\ batch' = {} /\ OwnStatement' = {}
<1> USE DEF inputs, parseVars, coordVars, poolVars, progVars, execVars
<1>1. CASE RunInline \/ FlushBatch \/ ReplayStatement
  BY <1>1, RunPlaces, RunLeads
<1>2. CASE \/ RequestStop \/ Parser \/ UNCHANGED vars
           \/ \E w \in Workers : Worker(w)
  BY <1>2, CoordinatorStays, Forwards
<1>3. CASE \/ StreamEnds \/ OpenRegion \/ PassBarrier
           \/ FlushTrailing \/ CloseChannels \/ JoinPool \/ Return
  <2>1. UNCHANGED <<taken, settled, batch>>
    BY <1>3 DEF StreamEnds, OpenRegion, PassBarrier, FlushTrailing, CloseChannels, JoinPool,
      Return
  <2>2. OwnStatement = {} /\ OwnStatement' = {}
    BY <1>3 DEF StreamEnds, OpenRegion, PassBarrier, FlushTrailing, FlushThen, CloseChannels,
      JoinPool, Return, Goto, OwnStatement, AtStatement, Before
  <2> QED
    BY <2>1, <2>2
<1> QED
  BY <1>1, <1>2, <1>3 DEF Next, Coordinator, Finished

(* The region changes with the batch empty and nothing in hand, and the    *)
(* data region is only left when the pool has been waited for.             *)
LEMMA RegionChanges ==
  ASSUME TypeOK, PointInv, [Next]_vars
  PROVE  \/ region' = region
         \/ /\ batch = {} /\ OwnStatement = {} /\ taken' = taken /\ batch' = batch
            /\ ParallelNow /\ ~ParallelNow' => at = "barrier" /\ PoolJoined
            /\ UNCHANGED <<pc, queue, hand, settled>> /\ OwnStatement' = {}
            /\ taken \in Positions /\ region' = stream[taken] /\ ~Ended
            /\ at' = "recv" /\ tx' = tx
<1> USE DEF inputs, parseVars, coordVars, poolVars, progVars, execVars
<1>1. CASE OpenRegion
  BY <1>1 DEF OpenRegion, LeavesData, Goto, OwnStatement, AtStatement, AtMarker, Before, Ended,
    PointInv, ParallelNow, Item
<1>2. CASE PassBarrier
  BY <1>2 DEF PassBarrier, Goto, OwnStatement, AtStatement, AtMarker, Before, Ended, PointInv,
    ParallelNow, Item
<1>3. CASE RunInline \/ FlushBatch \/ ReplayStatement
  BY <1>3 DEF RunInline, FlushBatch, ReplayStatement
<1>4. CASE \/ RequestStop \/ Parser \/ UNCHANGED vars
           \/ Receive \/ StreamEnds \/ Send
           \/ FlushTrailing \/ CloseChannels \/ JoinPool \/ Return
           \/ \E w \in Workers : Worker(w)
  BY <1>4, CoordinatorStays DEF Receive, StreamEnds, Send, FlushTrailing, CloseChannels, JoinPool, Return
<1> QED
  BY <1>1, <1>2, <1>3, <1>4 DEF Next, Coordinator, Finished

(* Only Receive puts a statement up for sending, and only Send ends it.    *)
LEMMA SendIsNext ==
  ASSUME TypeOK, PointInv, [Next]_vars
  PROVE  /\ at = "send" /\ ~Send => at' = "send"
         /\ at' = "send" /\ at # "send" => Receive
<1>1. CASE \/ RequestStop \/ Parser \/ UNCHANGED vars
           \/ \E w \in Workers : Worker(w)
  BY <1>1, CoordinatorStays
<1>2. CASE RunInline \/ FlushBatch \/ ReplayStatement
  <2>1. at \in {"run", "flush", "replay"} /\ after # "send"
    BY <1>2 DEF RunInline, FlushBatch, ReplayStatement, TypeOK
  <2> QED
    BY <1>2, <2>1, RunLeads
<1>3. CASE \/ Receive \/ StreamEnds \/ OpenRegion \/ PassBarrier \/ Send
           \/ FlushTrailing \/ CloseChannels \/ JoinPool \/ Return
  BY <1>3 DEF Receive, StreamEnds, OpenRegion, PassBarrier, Send, FlushTrailing, FlushThen,
    CloseChannels, JoinPool, Return, Goto
<1> QED
  BY <1>1, <1>2, <1>3 DEF Next, Coordinator, Finished

(* What is received while nobody ends the import finds everything before   *)
(* it settled, in the batch, or in the pool.                               *)
LEMMA ReceiveFront ==
  ASSUME TypeOK, PointInv, RegionInv, FrontInv, ProgressInv, Receive
  PROVE  /\ \A i \in batch' : Behind(i, settled \cup batch')
         /\ AtStatement' /\ at' # "send" => Behind(taken', settled \cup batch')
         /\ at' = "send" => Behind(taken', settled \cup Parallels)
<1>1. /\ at = "recv" /\ OwnStatement = {} /\ Unsent = {} /\ taken' = taken + 1
      /\ \A i \in batch : Behind(i, settled \cup batch)
  BY DEF Receive, OwnStatement, AtStatement, Before, Unsent, Ended, FrontInv
<1>2. CASE abort \/ stop
  <2>1. at' = "trail" /\ batch' = batch
    BY <1>2 DEF Receive, Goto
  <2> QED
    BY <1>1, <2>1 DEF AtStatement, Before
<1>3. CASE ~abort /\ ~stop
  <2>1. /\ ~ParallelNow => Behind(taken + 1, settled \cup batch)
        /\ ParallelNow => Behind(taken + 1, settled \cup Parallels)
    BY <1>1, <1>3 DEF ProgressInv, RegionInv, Behind
  <2>2. /\ \/ batch' = batch
           \/ batch' = batch \cup {taken'} /\ ~ParallelNow
        /\ at' = "send" => ParallelNow
        /\ AtStatement' /\ at' # "send" => ~ParallelNow /\ batch' = batch
    <3>1. at' = "send" => ParallelNow
      BY <1>3 DEF Receive, FlushThen, Goto, ParallelNow
    <3>2. \/ batch' = batch
          \/ /\ batch' = batch \cup {taken'} /\ ~ParallelNow
             /\ at' \in {"flush", "recv"} /\ (at' = "flush" => after' = "recv")
      BY <1>1, <1>3 DEF Receive, FlushThen, Goto, ParallelNow
    <3>3. at' = "run" \/ (at' = "flush" /\ after' = "run") => ~ParallelNow
      BY <1>3 DEF Receive, FlushThen, Goto, ParallelNow
    <3>4. at' # "replay"
      BY <1>3 DEF Receive, FlushThen, Goto
    <3> QED
      BY <3>1, <3>2, <3>3, <3>4 DEF AtStatement, Before
  <2>3. CASE batch' = batch
    BY <1>1, <2>1, <2>2, <2>3
  <2>4. CASE batch' = batch \cup {taken'} /\ ~ParallelNow
    <3>1. \A i \in batch' : Behind(i, settled \cup batch)
      BY <1>1, <2>1, <2>4
    <3>2. \A i : Behind(i, settled \cup batch) => Behind(i, settled \cup batch')
      BY <2>4 DEF Behind
    <3> QED
      BY <1>1, <2>1, <2>2, <3>1, <3>2
  <2> QED
    BY <2>2, <2>3, <2>4
<1> QED
  BY <1>2, <1>3

(* What runs next never overtakes what it may depend on.                   *)
LEMMA FrontStep ==
  ASSUME TypeInv, PlaceInv, RegionInv, FrontInv, ProgressInv, [Next]_vars
  PROVE  FrontInv'
<1>1. TypeOK /\ PointInv
  BY DEF TypeInv
<1>2. /\ UNCHANGED <<stream, Statements, Parallels>> /\ settled \subseteq settled'
      /\ InPool' \subseteq InPool \cup (IF at = "send" THEN {taken} ELSE {})
  BY <1>1, SourceStays, RegionsStay, Forwards, PoolChanges
<1>3. /\ \A i \in InPool' : Behind(i, settled' \cup Parallels)
      /\ at = "send" => Behind(taken, settled' \cup Parallels)
  <2>1. \A i : Behind(i, settled \cup Parallels) => Behind(i, settled' \cup Parallels)
    BY <1>2 DEF Behind
  <2> QED
    BY <1>2, <2>1 DEF FrontInv
<1>4. SUFFICES /\ \A i \in batch' : Behind(i, settled' \cup batch')
               /\ AtStatement' /\ at' # "send" => Behind(taken', settled' \cup batch')
               /\ at' = "send" => Behind(taken', settled' \cup Parallels)
  BY <1>2, <1>3 DEF FrontInv, Behind
<1>5. CASE Receive
  BY <1>1, <1>5, ReceiveFront, ReceivePlaces
<1>6. CASE Send
  <2>1. batch' = {} /\ at' # "send" /\ ~AtStatement'
    BY <1>1, <1>6 DEF Send, Goto, PointInv, AtStatement, Before
  <2> QED
    BY <2>1
<1>7. CASE ~Receive /\ ~Send
  <2>1. /\ taken' = taken /\ batch' \subseteq batch /\ OwnStatement' \subseteq OwnStatement
        /\ \/ settled \cup batch \cup OwnStatement \subseteq settled' \cup batch' \cup OwnStatement'
           \/ batch' = {} /\ OwnStatement' = {}
    BY <1>1, <1>7, CoordinatorKeeps
  <2>2. at' = "send" <=> at = "send"
    BY <1>1, <1>7, SendIsNext
  <2>3. AtStatement' => AtStatement /\ OwnStatement' = {taken}
    BY <2>1 DEF OwnStatement
  <2>4. \A i \in Nat : i <= taken /\ Behind(i, settled \cup batch)
               /\ settled \cup batch \cup OwnStatement \subseteq settled' \cup batch' \cup OwnStatement'
               => Behind(i, settled' \cup batch')
    <3>1. Statements \subseteq Nat /\ taken \in Nat /\ OwnStatement' \subseteq {taken}
      BY <1>1, <2>1, StreamType DEF TypeOK, Statements, OwnStatement
    <3> QED
      BY <3>1 DEF Behind
  <2>5. /\ taken <= taken /\ taken \in Nat
        /\ \A i \in batch : i <= taken /\ i \in Nat
    <3>1. Statements \subseteq Nat
      BY <1>1, StreamType DEF TypeOK, Statements
    <3> QED
      BY <1>1, <3>1, StreamType DEF TypeOK, PlaceInv
  <2>6. \A i \in batch' : Behind(i, settled' \cup batch')
    BY <2>1, <2>4, <2>5 DEF FrontInv
  <2>7. AtStatement' /\ at' # "send" => Behind(taken', settled' \cup batch')
    BY <2>1, <2>2, <2>3, <2>4, <2>5 DEF FrontInv
  <2> QED
    BY <1>3, <2>1, <2>2, <2>6, <2>7
<1> QED
  BY <1>5, <1>6, <1>7

(* A marker waits for the pool or opens its region.                        *)
LEMMA MarkerSteps ==
  ASSUME TypeOK, PointInv, [Next]_vars
  PROVE  \/ OpenRegion /\ LeavesData /\ ~tx' /\ at' = "barrier" /\ region' = region
         \/ /\ OpenRegion \/ PassBarrier
            /\ at' = "recv" /\ region' = Item /\ tx' = tx
         \/ /\ region' = region /\ (tx' = tx \/ Dropped')
            /\ at' = "barrier" <=> at = "barrier"
<1>1. CASE OpenRegion \/ PassBarrier
  BY <1>1 DEF OpenRegion, PassBarrier, Goto, poolVars
<1>2. CASE \/ RequestStop \/ Parser \/ UNCHANGED vars
           \/ \E w \in Workers : Worker(w)
  BY <1>2, CoordinatorStays
<1>3. CASE RunInline \/ FlushBatch \/ ReplayStatement
  <2>1. at \in {"run", "flush", "replay"} /\ after # "barrier"
    BY <1>3 DEF RunInline, FlushBatch, ReplayStatement, TypeOK
  <2> QED
    BY <1>3, <2>1, RunLeads
<1>4. CASE \/ Receive \/ StreamEnds \/ Send
           \/ FlushTrailing \/ CloseChannels \/ JoinPool \/ Return
  BY <1>4 DEF Receive, StreamEnds, Send, FlushTrailing, FlushThen, CloseChannels, JoinPool,
    Return, Goto, Dropped, poolVars
<1> QED
  BY <1>1, <1>2, <1>3, <1>4 DEF Next, Coordinator, Finished

(* Nothing received is handed back.                                        *)
LEMMA TakenGrows ==
  ASSUME TypeOK, PointInv, [Next]_vars
  PROVE  taken \in Nat /\ taken' \in Nat /\ taken <= taken'
<1>1. taken \in Nat
  BY StreamType DEF TypeOK
<1>2. CASE Receive
  BY <1>1, <1>2, ReceivePlaces
<1>3. CASE Send
  BY <1>1, <1>3 DEF Send
<1>4. CASE ~Receive /\ ~Send
  BY <1>1, <1>4, CoordinatorKeeps
<1> QED
  BY <1>2, <1>3, <1>4

(* The workers' sender is dropped for a data region that has ended.        *)
LEMMA SenderStep == TypeInv /\ SenderInv /\ [Next]_vars => SenderInv'
<1> SUFFICES ASSUME TypeInv, SenderInv, [Next]_vars PROVE SenderInv'
  OBVIOUS
<1>1. TypeOK /\ PointInv
  BY DEF TypeInv
<1>2. /\ UNCHANGED <<stream, conf>> /\ (DataResumes' <=> DataResumes)
      /\ taken \in Nat /\ taken' \in Nat /\ taken <= taken' /\ (Dropped => Dropped')
  BY <1>1, SourceStays, RegionsStay, TakenGrows, Forwards
<1>3. 1..taken \subseteq 1..taken'
  BY <1>2
<1>4. CASE OpenRegion /\ LeavesData /\ ~tx' /\ at' = "barrier" /\ region' = region
  <2>1. /\ taken \in 1..taken /\ stream[taken] \in Regions \ {"Data"} /\ region = "Data"
    BY <1>1, <1>2, <1>4 DEF OpenRegion, LeavesData, PointInv, AtMarker, Item, Positions
  <2>2. PICK i \in 1..taken : stream[i] = "Data"
    BY <2>1 DEF SenderInv
  <2>3. i < taken
    BY <1>2, <2>1, <2>2
  <2> QED
    BY <1>2, <1>3, <1>4, <2>1, <2>2, <2>3 DEF SenderInv
<1>5. CASE /\ OpenRegion \/ PassBarrier
           /\ at' = "recv" /\ region' = Item /\ tx' = tx
  <2>1. taken \in 1..taken /\ 1..taken \subseteq Positions
    BY <1>1, <1>2, <1>5, StreamType
    DEF OpenRegion, PassBarrier, PointInv, AtMarker, Positions, TypeOK
  <2>2. region' = "Data" => \E i \in 1..taken : stream[i] = "Data"
    BY <1>5, <2>1 DEF Item
  <2>3. ~tx' /\ ~Dropped' =>
          \E i, j \in 1..taken : i < j /\ stream[i] = "Data" /\ stream[j] \in Regions \ {"Data"}
    BY <1>2, <1>5 DEF SenderInv
  <2>4. ASSUME ~tx', ~Dropped', region' = "Data" PROVE DataResumes
    <3>1. PICK i, j \in 1..taken :
             i < j /\ stream[i] = "Data" /\ stream[j] \in Regions \ {"Data"}
      BY <2>3, <2>4
    <3>2. stream[taken] = "Data"
      BY <1>5, <2>4 DEF Item
    <3>3. j # taken
      BY <3>1, <3>2
    <3>4. j < taken
      BY <1>2, <3>3
    <3> QED
      BY <2>1, <3>1, <3>2, <3>4 DEF DataResumes
  <2> QED
    BY <1>2, <1>3, <2>2, <2>3, <2>4 DEF SenderInv, ParallelNow
<1>6. CASE /\ region' = region /\ (tx' = tx \/ Dropped')
           /\ at' = "barrier" <=> at = "barrier"
  BY <1>2, <1>3, <1>6 DEF SenderInv, ParallelNow
<1> QED
  BY <1>1, <1>4, <1>5, <1>6, MarkerSteps

(* The coordinator leaves its loop at the end of the source, when somebody *)
(* ends the import, or when it cannot send a statement.                    *)
LEMMA LoopEnds ==
  ASSUME TypeOK, PointInv, [Next]_vars, ~Ended, Ended'
  PROVE  \/ StreamEnds
         \/ Receive /\ (abort \/ stop)
         \/ Send /\ (~tx \/ closed)
         \/ firstErr'
<1>1. CASE Receive
  <2>1. ~(abort \/ stop) => at' \in {"marker", "send", "recv", "run"}
                             \/ (at' = "flush" /\ after' \in {"marker", "recv", "run"})
    BY <1>1 DEF Receive, FlushThen, Goto
  <2> QED
    BY <1>1, <2>1 DEF Ended, Before
<1>2. CASE Send
  BY <1>2 DEF Send, Goto, Ended, Before
<1>3. CASE RunInline \/ FlushBatch \/ ReplayStatement
  <2>1. at \in {"run", "flush", "replay"}
    BY <1>3 DEF RunInline, FlushBatch, ReplayStatement
  <2> QED
    BY <1>3, <2>1, RunLeads DEF Ended, Before, TypeOK
<1>4. CASE \/ OpenRegion \/ PassBarrier
  BY <1>4 DEF OpenRegion, PassBarrier, Goto, Ended, Before
<1>5. CASE FlushTrailing \/ CloseChannels \/ JoinPool \/ Return
  BY <1>5 DEF FlushTrailing, CloseChannels, JoinPool, Return, Ended
<1>6. CASE \/ RequestStop \/ Parser \/ UNCHANGED vars
           \/ \E w \in Workers : Worker(w)
  BY <1>6, CoordinatorStays DEF Ended, Before
<1> QED
  BY <1>1, <1>2, <1>3, <1>4, <1>5, <1>6 DEF Next, Coordinator, Finished

(* Who sets the abort flag: an error that ends the import, which sets      *)
(* first_err too, or the parser whose receiver has gone.                   *)
LEMMA AbortHasReason ==
  ASSUME TypeOK, PointInv, [Next]_vars, ~abort, abort'
  PROVE  ParserCutOff \/ firstErr'
<1> USE DEF inputs, parseVars, coordVars, poolVars, progVars, execVars
<1>1. CASE RunInline \/ ReplayStatement
  BY <1>1, InlineOutcome, ReplayOutcome DEF FailInline
<1>2. CASE \/ RequestStop \/ ParserSend \/ ParserEnds \/ UNCHANGED vars
           \/ Receive \/ StreamEnds \/ OpenRegion \/ PassBarrier \/ Send \/ FlushBatch
           \/ FlushTrailing \/ CloseChannels \/ JoinPool \/ Return
  BY <1>2 DEF RequestStop, ParserSend, ParserEnds, vars, Receive, StreamEnds, OpenRegion,
    PassBarrier, Send, FlushBatch, FlushTrailing, CloseChannels, JoinPool, Return
<1>3. ASSUME NEW w \in Workers, Worker(w) PROVE firstErr'
  BY <1>3, WorkerOutcome DEF Worker, WorkerReceive, WorkerEnds
<1> QED
  BY <1>1, <1>2, <1>3 DEF Next, Coordinator, Parser, Finished

(* An undisturbed import reads its source to the end.                      *)
LEMMA ReadingStep ==
  ASSUME TypeInv, ProgressInv, SenderInv, ReadingInv, [Next]_vars
  PROVE  ReadingInv'
<1> USE DEF inputs, parseVars, coordVars, poolVars, progVars, execVars
<1>1. TypeOK /\ PointInv
  BY DEF TypeInv
<1>2. /\ UNCHANGED <<stream, conf>> /\ (DataResumes' <=> DataResumes)
      /\ (Dropped => Dropped') /\ (firstErr => firstErr') /\ (stop => stop')
  BY <1>1, SourceStays, RegionsStay, Forwards
<1>3. ParserCutOff => Dropped /\ Ended /\ Dropped' /\ parser = "reading"
  BY DEF ParserCutOff, ReceiverAlive, Dropped, Ended
<1>4. abort' /\ ~Dropped' => firstErr'
  BY <1>1, <1>2, <1>3, AbortHasReason DEF ReadingInv
<1>5. ASSUME Undisturbed'
      PROVE  ~abort' /\ (Ended' => taken' = fed' /\ parser' # "reading")
             /\ (parser' = "done" => fed' = Len(stream'))
  <2>1. Undisturbed /\ ~firstErr'
    BY <1>2, <1>5 DEF Undisturbed
  <2>2. /\ ~abort /\ ~stop /\ (Ended => taken = fed /\ parser # "reading")
        /\ (parser = "done" => fed = Len(stream))
    BY <2>1 DEF ReadingInv, Undisturbed
  <2>3. ~ParserCutOff /\ ~abort'
    BY <1>1, <1>3, <2>1, <2>2, AbortHasReason
  <2>4. ASSUME Ended' PROVE taken' = fed' /\ parser' # "reading"
    <3>1. CASE Ended
      <4>1. parser # "reading" /\ at # "recv" /\ taken = fed
        BY <2>2, <3>1 DEF Ended, Before
      <4>2. UNCHANGED <<fed, parser>>
        BY <4>1 DEF Next, Finished, vars, RequestStop, Parser, ParserSend, ParserEnds,
          ParserCutOff, Coordinator, Receive, StreamEnds, OpenRegion, PassBarrier, Send,
          RunInline, FlushBatch, ReplayStatement, FlushTrailing, CloseChannels, JoinPool,
          Return, Worker, WorkerReceive, WorkerEnds, WorkerRun
      <4>3. ~Receive /\ (Send => taken' = taken)
        BY <4>1 DEF Receive, Send
      <4> QED
        BY <1>1, <4>1, <4>2, <4>3, CoordinatorKeeps
    <3>2. CASE StreamEnds
      BY <3>2 DEF StreamEnds
    <3>3. CASE Send /\ (~tx \/ closed) /\ ~Ended
      <4>1. ~closed
        BY <2>2 DEF ProgressInv
      <4>2. at = "send" /\ ParallelNow /\ ~tx /\ ~Dropped
        BY <1>1, <3>3, <4>1 DEF Send, PointInv, Dropped
      <4>3. DataResumes /\ conf.parallel
        BY <4>2 DEF SenderInv, ParallelNow
      <4> QED
        BY <2>1, <4>3 DEF Undisturbed
    <3> QED
      BY <1>1, <2>1, <2>2, <2>4, <3>1, <3>2, <3>3, LoopEnds
  <2>5. parser' = "done" => fed' = Len(stream')
    <3>1. CASE ParserSend \/ ParserEnds
      BY <1>2, <2>2, <3>1 DEF ParserSend, ParserEnds
    <3>2. CASE UNCHANGED <<parser, fed>>
      BY <1>2, <2>2, <3>2
    <3>3. ParserSend \/ ParserEnds \/ UNCHANGED <<parser, fed>>
      BY <2>3 DEF Next, Finished, vars, RequestStop, Parser, Coordinator, Receive, StreamEnds,
        OpenRegion, PassBarrier, Send, RunInline, FlushBatch, ReplayStatement, FlushTrailing,
        CloseChannels, JoinPool, Return, Worker, WorkerReceive, WorkerEnds, WorkerRun
    <3> QED
      BY <3>1, <3>2, <3>3
  <2> QED
    BY <2>3, <2>4, <2>5
<1> QED
  BY <1>4, <1>5 DEF ReadingInv

(* What is received while nobody ends the import gets a place.             *)
LEMMA ReceiveKeeps ==
  ASSUME TypeOK, PointInv, ProgressInv, Receive, ~abort, ~stop
  PROVE  /\ ~ParallelNow => Behind(taken' + 1, settled \cup batch' \cup OwnStatement')
         /\ ParallelNow => Behind(taken' + 1, settled \cup InPool \cup OwnStatement')
<1>1. /\ at = "recv" /\ OwnStatement = {} /\ Unsent = {} /\ taken' = taken + 1
      /\ taken \in Nat /\ batch \subseteq batch'
  BY ReceivePlaces DEF Receive, Unsent, Ended, Before
<1>2. Statements \subseteq Nat
  BY StreamType DEF TypeOK, Statements
<1>3. /\ ~ParallelNow => Behind(taken + 1, settled \cup batch)
      /\ ParallelNow => Behind(taken + 1, settled \cup InPool)
  BY <1>1 DEF ProgressInv
<1>4. ASSUME taken + 1 \in Statements, stream[taken + 1] # "skip"
      PROVE  /\ ParallelNow => taken + 1 \in OwnStatement'
             /\ ~ParallelNow => taken + 1 \in batch' \cup OwnStatement'
  <2>1. stream[taken + 1] \in {"insert", "other"}
    BY <1>4 DEF Statements, Kinds
  <2>2. stream[taken + 1] \in Kinds /\ stream[taken + 1] \notin Regions
    BY <2>1 DEF Kinds, Regions
  <2>3. ParallelNow => at' = "send"
    BY <2>2 DEF Receive, Goto, ParallelNow
  <2>4. ~ParallelNow => \/ at' = "run" \/ (at' = "flush" /\ after' = "run")
                        \/ taken + 1 \in batch'
    BY <2>1, <2>2 DEF Receive, FlushThen, Goto, ParallelNow
  <2> QED
    BY <1>1, <2>3, <2>4 DEF OwnStatement, AtStatement, Before
<1>5. \A k \in Statements : k < taken' + 1 => k < taken + 1 \/ k = taken + 1
  BY <1>1, <1>2
<1> QED
  BY <1>1, <1>3, <1>4, <1>5 DEF Behind

(* What is sent joins the queue; what cannot be sent is remembered as such.*)
LEMMA SendKeeps ==
  ASSUME TypeOK, PointInv, ProgressInv, SenderInv, Send, ~abort, ~stop
  PROVE  /\ ParallelNow /\ ParallelNow' /\ UNCHANGED <<stream, taken, settled>>
         /\ Behind(taken + 1, settled \cup InPool' \cup Unsent')
<1>1. /\ at = "send" /\ ParallelNow /\ OwnStatement = {taken} /\ Unsent = {} /\ ~closed
      /\ taken \in Statements /\ Behind(taken + 1, settled \cup InPool \cup {taken})
  BY DEF Send, PointInv, OwnStatement, AtStatement, Unsent, Ended, Before, ProgressInv
<1>2. /\ UNCHANGED <<stream, conf, taken, region, pc, hand, settled>>
      /\ UNCHANGED <<Held, ParallelNow>>
  BY DEF Send, inputs, progVars, Held, InHand, ParallelNow
<1>3. CASE queue' = Append(queue, taken)
  <2>1. Queued' = Queued \cup {taken}
    BY <1>1, <1>3, QueueGrows
  <2> QED
    BY <1>1, <1>2, <2>1 DEF InPool, Behind
<1>4. CASE ~tx /\ at' = "trail" /\ queue' = queue
  <2>1. DataResumes
    BY <1>1, <1>4 DEF SenderInv, Dropped
  <2>2. DataResumes'
    BY <1>2, <2>1 DEF DataResumes, Positions
  <2>3. Unsent' = {taken}
    BY <1>2, <1>4, <2>2 DEF Unsent, Ended
  <2>4. Queued' = Queued
    BY <1>4 DEF Queued
  <2> QED
    BY <1>1, <1>2, <2>3, <2>4 DEF InPool
<1> QED
  BY <1>1, <1>3, <1>4 DEF Send, Goto

(* A worker that has finished has left nothing in the queue, and the       *)
(* workers' channel is closed by nobody but a worker that ends the import. *)
LEMMA PoolStep ==
  ASSUME TypeOK, PointInv, ProgressInv, [Next]_vars, ~abort', ~stop'
  PROVE  /\ ~closed'
         /\ conf.parallel => \A w \in Workers : pc'[w] = "done" => queue' = <<>> /\ ~tx'
<1> USE DEF inputs, parseVars, coordVars, poolVars, progVars, execVars
<1>1. /\ ~abort /\ ~stop /\ (~tx => ~tx') /\ ~closed
      /\ conf.parallel => \A w \in Workers : pc[w] = "done" => queue = <<>> /\ ~tx
  BY Forwards DEF ProgressInv
<1>2. CASE UNCHANGED <<pc, queue, closed>>
  BY <1>1, <1>2
<1>3. CASE Send
  BY <1>1, <1>3 DEF Send
<1>4. ASSUME NEW w \in Workers, WorkerReceive(w) PROVE
        /\ ~closed'
        /\ conf.parallel => \A v \in Workers : pc'[v] = "done" => queue' = <<>> /\ ~tx'
  <2>1. /\ queue # <<>> /\ ~closed' /\ \A v \in Workers : pc'[v] = "done" => pc[v] = "done"
    BY <1>1, <1>4 DEF WorkerReceive, TypeOK
  <2> QED
    BY <1>1, <2>1
<1>5. ASSUME NEW w \in Workers, WorkerEnds(w) PROVE
        /\ ~closed'
        /\ conf.parallel => \A v \in Workers : pc'[v] = "done" => queue' = <<>> /\ ~tx'
  BY <1>1, <1>5 DEF WorkerEnds
<1>6. ASSUME NEW w \in Workers, WorkerRun(w) PROVE
        /\ ~closed'
        /\ conf.parallel => \A v \in Workers : pc'[v] = "done" => queue' = <<>> /\ ~tx'
  <2>1. /\ UNCHANGED <<queue, tx>> /\ ~closed'
        /\ \A v \in Workers : pc'[v] = "done" => pc[v] = "done"
    BY <1>1, <1>6, WorkerOutcome DEF WorkerRun, TypeOK
  <2> QED
    BY <1>1, <2>1
<1>7. CASE \/ RequestStop \/ Parser \/ UNCHANGED vars
           \/ Receive \/ StreamEnds \/ OpenRegion \/ PassBarrier
           \/ RunInline \/ FlushBatch \/ ReplayStatement
           \/ FlushTrailing \/ CloseChannels \/ JoinPool \/ Return
  <2>1. UNCHANGED <<pc, queue, closed>>
    BY <1>7 DEF RequestStop, Parser, ParserSend, ParserEnds, ParserCutOff, vars, Receive,
      StreamEnds, OpenRegion, PassBarrier, RunInline, FlushBatch, ReplayStatement,
      FlushTrailing, CloseChannels, JoinPool, Return
  <2> QED
    BY <1>2, <2>1
<1> QED
  BY <1>3, <1>4, <1>5, <1>6, <1>7 DEF Next, Coordinator, Worker, Finished

(* The pool that has been waited for is empty.                             *)
LEMMA JoinedPoolIsEmpty ==
  ASSUME TypeOK, ProgressInv, ~abort, ~stop, conf.parallel, PoolJoined
  PROVE  InPool = {}
<1>1. Held = {}
  BY DEF Held, InHand, PoolJoined
<1>2. queue = <<>>
  BY SomeWorker DEF PoolJoined, ProgressInv
<1>3. Queued = {}
  BY <1>2 DEF Queued
<1> QED
  BY <1>1, <1>3 DEF InPool

(* Nothing received is forgotten.                                          *)
LEMMA ProgressStep ==
  ASSUME TypeInv, PlaceInv, ProgressInv, SenderInv, [Next]_vars
  PROVE  ProgressInv'
<1> SUFFICES ASSUME ~abort', ~stop' PROVE ProgressInv'
  BY DEF ProgressInv
<1>1. TypeOK /\ PointInv
  BY DEF TypeInv
<1>2. /\ ~abort /\ ~stop /\ UNCHANGED <<stream, Statements, conf>>
      /\ (DataResumes' <=> DataResumes) /\ (Ended => Ended')
  BY <1>1, Forwards, SourceStays, RegionsStay
<1>3. SUFFICES
        /\ ~ParallelNow' => Behind(taken' + 1, settled' \cup batch' \cup OwnStatement')
        /\ ParallelNow' =>
             Behind(taken' + 1, settled' \cup InPool' \cup OwnStatement' \cup Unsent')
  BY <1>1, <1>2, PoolStep DEF ProgressInv, Behind
<1>4. CASE Receive
  <2>1. /\ UNCHANGED <<settled, ParallelNow, InPool>>
    BY <1>1, <1>2, <1>4, ReceivePlaces, PoolStays DEF Receive, InPool, ParallelNow
  <2> QED
    BY <1>1, <1>2, <1>4, <2>1, ReceiveKeeps DEF Behind
<1>5. CASE Send
  BY <1>1, <1>2, <1>5, SendKeeps DEF Behind
<1>6. CASE ~Receive /\ ~Send
  <2>1. /\ taken' = taken /\ batch' \subseteq batch
        /\ settled \cup batch \cup OwnStatement \subseteq settled' \cup batch' \cup OwnStatement'
    BY <1>1, <1>6, CoordinatorKeeps
  <2>2. Unsent \subseteq Unsent'
    BY <1>2, <2>1 DEF Unsent
  <2>3. \A i \in InPool : stream[i] # "skip" => i \in InPool' \cup settled'
    BY <1>1, PoolChanges
  <2>4. CASE ParallelNow' = ParallelNow
    <3>1. CASE ~ParallelNow
      BY <2>1, <2>4, <3>1, <1>2 DEF ProgressInv, Behind
    <3>2. CASE ParallelNow
      <4>1. batch = {}
        BY <1>1, <3>2 DEF PointInv
      <4>2. settled \cup OwnStatement \subseteq settled' \cup OwnStatement'
        BY <2>1, <4>1
      <4>3. Behind(taken + 1, settled \cup InPool \cup OwnStatement \cup Unsent)
        BY <1>2, <3>2 DEF ProgressInv
      <4> QED
        BY <2>1, <2>2, <2>3, <2>4, <3>2, <4>2, <4>3 DEF Behind
    <3> QED
      BY <3>1, <3>2
  <2>5. CASE ParallelNow' # ParallelNow
    <3>1. region' # region
      BY <1>2, <2>5 DEF ParallelNow
    <3>2. /\ batch = {} /\ OwnStatement = {} /\ ~Ended
          /\ (ParallelNow /\ ~ParallelNow' => PoolJoined)
          /\ settled' = settled
      BY <1>1, <3>1, RegionChanges
    <3>3. Unsent = {}
      BY <3>2 DEF Unsent
    <3>4. CASE ParallelNow /\ ~ParallelNow'
      <4>1. InPool = {}
        BY <1>1, <1>2, <3>2, <3>4, JoinedPoolIsEmpty DEF ParallelNow
      <4>2. Behind(taken + 1, settled)
        BY <1>2, <3>2, <3>3, <3>4, <4>1 DEF ProgressInv
      <4> QED
        BY <2>1, <3>2, <3>4, <4>2 DEF Behind
    <3>5. CASE ~ParallelNow /\ ParallelNow'
      <4>1. Behind(taken + 1, settled)
        BY <1>2, <3>2, <3>5 DEF ProgressInv
      <4> QED
        BY <2>1, <3>2, <3>5, <4>1 DEF Behind
    <3>6. ParallelNow \in BOOLEAN /\ ParallelNow' \in BOOLEAN
      BY DEF ParallelNow
    <3> QED
      BY <2>5, <3>4, <3>5, <3>6
  <2> QED
    BY <2>4, <2>5
<1> QED
  BY <1>4, <1>5, <1>6

(* The rest of the invariant at the start.                                 *)
LEMMA OrderInit == Init => RegionInv /\ FrontInv /\ ProgressInv /\ SenderInv /\ ReadingInv
<1> SUFFICES ASSUME Init PROVE RegionInv /\ FrontInv /\ ProgressInv /\ SenderInv /\ ReadingInv
  OBVIOUS
<1>1. /\ Queued = {} /\ Held = {} /\ OwnStatement = {} /\ ~AtStatement /\ ~AtMarker /\ ~Ended
      /\ ~ParallelNow /\ ~Dropped
  <2>1. Len(queue) = 0
    BY DEF Init
  <2> QED
    BY <2>1 DEF Init, Queued, Held, InHand, OwnStatement, AtStatement, AtMarker, Before, Ended,
      ParallelNow, Dropped
<1>2. RegionOf(0) = "Header"
  <2>1. {j \in 1..0 : stream[j] \in Regions} = {}
    OBVIOUS
  <2> QED
    BY <2>1 DEF RegionOf
<1>3. RegionInv
  BY <1>1, <1>2 DEF Init, RegionInv, InPool
<1>4. FrontInv
  BY <1>1 DEF Init, FrontInv, InPool
<1>5. ProgressInv
  <2>1. \A k \in Statements : ~(k < taken + 1)
    BY StreamType DEF Init, Statements, Positions
  <2> QED
    BY <1>1, <2>1 DEF Init, ProgressInv, Behind
<1>6. SenderInv /\ ReadingInv
  BY <1>1 DEF Init, SenderInv, ReadingInv
<1> QED
  BY <1>3, <1>4, <1>5, <1>6

-----------------------------------------------------------------------------
(* Whoever runs statements, runs them when those before them are settled   *)
(* or run with them, or when the pool may run them in any order.           *)
LEMMA RunsInOrder ==
  ASSUME TypeOK, PointInv, RegionInv, FrontInv, [Next]_vars
  PROVE  \/ \E e \in Executors : \E S \in SUBSET Statements :
              /\ Attempt(e, S, TRUE, TRUE, TRUE)
              /\ \A j \in S : \/ Behind(j, settled \cup S)
                              \/ j \in Parallels /\ Behind(j, settled \cup Parallels)
         \/ UNCHANGED applied
<1> USE DEF inputs, parseVars, coordVars, poolVars, progVars, execVars
<1>1. CASE RunInline
  <2>1. taken \in Statements /\ Behind(taken, settled \cup batch) /\ batch = {}
    BY <1>1 DEF RunInline, PointInv, FrontInv, AtStatement
  <2>2. Behind(taken, settled \cup {taken})
    BY <2>1 DEF Behind
  <2> QED
    BY <1>1, <2>1, <2>2, InlineOutcome DEF Executors
<1>2. CASE FlushBatch
  BY <1>2, FlushOutcome DEF FrontInv, TypeOK, Executors
<1>3. CASE ReplayStatement
  <2> DEFINE i == Min(batch)
  <2>1. i \in batch /\ (\A k \in batch : i <= k) /\ batch \subseteq Statements
    BY <1>3, FirstOfBatch DEF ReplayStatement, PointInv, TypeOK
  <2>2. Statements \subseteq Nat
    BY StreamType DEF TypeOK, Statements
  <2>3. Attempt(Main, {i}, TRUE, TRUE, TRUE)
    BY <1>3, ReplayOutcome
  <2> HIDE DEF i
  <2>4. Behind(i, settled \cup batch)
    BY <2>1 DEF FrontInv
  <2>5. Behind(i, settled \cup {i})
    BY <2>1, <2>2, <2>4 DEF Behind
  <2>6. Main \in Executors /\ {i} \in SUBSET Statements
    BY <2>1 DEF Executors
  <2> QED
    BY <2>3, <2>5, <2>6
<1>4. ASSUME NEW w \in Workers, WorkerRun(w)
      PROVE  \E e \in Executors : \E S \in SUBSET Statements :
               /\ Attempt(e, S, TRUE, TRUE, TRUE)
               /\ \A j \in S : j \in Parallels /\ Behind(j, settled \cup Parallels)
  <2>1. hand[w] \in Statements /\ hand[w] \in InPool
    BY <1>4 DEF WorkerRun, PointInv, InHand, InPool, Held
  <2>2. hand[w] \in Parallels /\ Behind(hand[w], settled \cup Parallels)
    BY <2>1 DEF RegionInv, FrontInv
  <2>3. Attempt(w, {hand[w]}, TRUE, TRUE, TRUE)
    BY <1>4, WorkerOutcome
  <2>4. w \in Executors /\ {hand[w]} \in SUBSET Statements
    BY <2>1 DEF Executors
  <2> QED
    BY <2>2, <2>3, <2>4
<1>5. CASE UNCHANGED vars
  BY <1>5 DEF vars
<1>6. CASE \/ RequestStop \/ Parser
           \/ Receive \/ StreamEnds \/ OpenRegion \/ PassBarrier \/ Send
           \/ FlushTrailing \/ CloseChannels \/ JoinPool \/ Return
           \/ \E w \in Workers : WorkerReceive(w) \/ WorkerEnds(w)
  BY <1>6 DEF RequestStop, Parser, ParserSend, ParserEnds, ParserCutOff, Receive, StreamEnds,
    OpenRegion, PassBarrier, Send, FlushTrailing, CloseChannels, JoinPool, Return,
    WorkerReceive, WorkerEnds
<1> QED
  BY <1>1, <1>2, <1>3, <1>4, <1>5, <1>6 DEF Next, Coordinator, Worker, Finished

(* The order holds after every run.                                        *)
LEMMA OrderStep ==
  ASSUME TypeInv, RegionInv, FrontInv, EffectInv, InOrder, [Next]_vars
  PROVE  InOrder'
<1>1. TypeOK /\ PointInv
  BY DEF TypeInv
<1>2. /\ UNCHANGED <<stream, Statements, Positions>> /\ failed \subseteq failed'
      /\ \A i : Parallel(i)' <=> Parallel(i)
  BY <1>1, SourceStays, RegionsStay, Forwards DEF Parallel
<1>3. SUFFICES ASSUME NEW j \in Statements, applied'[j] > 0,
                      NEW i \in Statements, i < j, stream[i] # "skip"
               PROVE  applied'[i] > 0 \/ i \in failed' \/ (Parallel(i) /\ Parallel(j))
  BY <1>2 DEF InOrder
<1>4. applied[i] \in Nat /\ applied[j] \in Nat /\ i \in Positions /\ j \in Positions
  BY <1>1 DEF TypeOK, Statements
<1>5. CASE UNCHANGED applied
  BY <1>2, <1>3, <1>5 DEF InOrder
<1>6. ASSUME NEW e \in Executors, NEW S \in SUBSET Statements, Attempt(e, S, TRUE, TRUE, TRUE),
             \A k \in S : \/ Behind(k, settled \cup S)
                          \/ k \in Parallels /\ Behind(k, settled \cup Parallels)
      PROVE  applied'[i] > 0 \/ i \in failed' \/ (Parallel(i) /\ Parallel(j))
  <2>1. CASE UNCHANGED applied
    BY <1>5, <2>1
  <2>2. CASE applied' = [k \in Positions |-> applied[k] + IF k \in S THEN 1 ELSE 0]
    <3>1. /\ applied[i] > 0 \/ i \in S => applied'[i] > 0
          /\ j \notin S => applied[j] > 0
      BY <1>3, <1>4, <2>2
    <3>2. CASE applied[j] > 0
      BY <1>2, <1>3, <1>4, <3>1, <3>2 DEF InOrder
    <3>3. CASE j \in S
      <4>1. \/ i \in settled \/ i \in S
            \/ i \in Parallels /\ j \in Parallels
        BY <1>3, <1>6, <3>3 DEF Behind
      <4>2. i \in settled => applied[i] > 0 \/ i \in failed
        BY DEF EffectInv
      <4> QED
        BY <1>2, <1>4, <3>1, <4>1, <4>2 DEF Parallels
    <3> QED
      BY <3>1, <3>2, <3>3
  <2> QED
    BY <1>6, <2>1, <2>2 DEF Attempt
<1> QED
  BY <1>1, <1>5, <1>6, RunsInOrder

(* All parts of the invariant together.                                    *)
ImportInv ==
  /\ TypeInv /\ PlaceInv /\ EffectInv /\ ResultInv
  /\ RegionInv /\ FrontInv /\ ProgressInv /\ SenderInv /\ ReadingInv
(* It holds at the start and is kept by every step.                        *)
LEMMA ImportInvariant == Spec => []ImportInv
<1>1. Init => ImportInv
  BY TypeInit, ProgInit, OrderInit DEF ImportInv
<1>2. ImportInv /\ [Next]_vars => ImportInv'
  BY TypeStep, PlaceStep, EffectStep, ResultStep, RegionStep, FrontStep, ProgressStep,
    SenderStep, ReadingStep DEF ImportInv
<1> QED
  BY <1>1, <1>2, PTL DEF Spec

(* import_sql, its regions and its barrier: when a statement takes effect, *)
(* every one before it has, or was reported as an error, unless both       *)
(* belong to the data the workers share.                                   *)
THEOREM OrderIsKept == Spec => []InOrder
<1>1. Init => InOrder
  <2>1. ASSUME Init PROVE \A j \in Statements : ~(applied[j] > 0)
    BY <2>1 DEF Init, Statements
  <2> QED
    BY <2>1 DEF InOrder
<1>2. ImportInv /\ InOrder /\ [Next]_vars => InOrder'
  BY OrderStep DEF ImportInv
<1> QED
  BY <1>1, <1>2, ImportInvariant, PTL DEF Spec

(* import_sql's answer: Ok, from an import nobody stopped, means that each *)
(* statement has taken effect or was reported, but for a parallel import   *)
(* of a source with a data region after another one has ended.             *)
THEOREM OkIsComplete == Spec => []CompleteUnlessDataResumes
<1>1. ASSUME ImportInv PROVE CompleteUnlessDataResumes
  <2> SUFFICES ASSUME ~(conf.parallel /\ DataResumes), result = "ok", ~stop,
                      NEW i \in Statements, stream[i] # "skip"
               PROVE  applied[i] > 0 \/ i \in failed
    BY DEF CompleteUnlessDataResumes, OkMeansComplete
  <2>1. TypeOK /\ PointInv
    BY <1>1 DEF ImportInv, TypeInv
  <2>2. at = "returned" /\ ~firstErr /\ parser = "done" /\ PoolJoined
    BY <1>1, <2>1 DEF ImportInv, ResultInv, TypeOK
  <2>3. ~abort /\ taken = Len(stream)
    BY <1>1, <2>2 DEF ImportInv, ReadingInv, Undisturbed, Ended
  <2>4. OwnStatement = {} /\ batch = {} /\ (ParallelNow => Unsent = {} /\ InPool = {})
    <3>1. OwnStatement = {} /\ batch = {}
      BY <2>1, <2>2, <2>3 DEF OwnStatement, AtStatement, Before, PointInv
    <3>2. ParallelNow => conf.parallel
      BY DEF ParallelNow
    <3>3. conf.parallel => Unsent = {}
      BY DEF Unsent
    <3>4. conf.parallel => InPool = {}
      BY <1>1, <2>1, <2>2, <2>3, JoinedPoolIsEmpty DEF ImportInv
    <3> QED
      BY <3>1, <3>2, <3>3, <3>4
  <2>5. Behind(taken + 1, settled)
    BY <1>1, <2>3, <2>4 DEF ImportInv, ProgressInv
  <2>6. i \in Int /\ i < taken + 1
    BY <2>1, <2>3, StreamType DEF TypeOK, Statements, Positions
  <2>7. i \in settled
    BY <2>5, <2>6 DEF Behind
  <2> QED
    BY <1>1, <2>7 DEF ImportInv, EffectInv
<1> QED
  BY <1>1, ImportInvariant, PTL
=============================================================================
