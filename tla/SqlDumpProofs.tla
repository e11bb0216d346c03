--------------------------- MODULE SqlDumpProofs ---------------------------
(***************************************************************************)
(* Proofs about SqlDump, for every number of tables, shards and workers.   *)
(***************************************************************************)
EXTENDS SqlDump, FiniteSetTheorems, SequenceTheorems, SumTheorems, TLAPS

-----------------------------------------------------------------------------
IsArtOf(a, t) ==
  \E create \in BOOLEAN, data \in BOOLEAN, rows \in Nat, defers \in BOOLEAN, error \in BOOLEAN :
    a = Art(t, create, data, rows, defers, error)

(* What Art builds from typed parts is an artifact of its table.           *)
LEMMA ArtIsArtifact ==
  ASSUME NEW t \in Tables, NEW a, IsArtOf(a, t)
  PROVE  a \in Artifact /\ a.table = t
<1>1. PICK create \in BOOLEAN, data \in BOOLEAN, rows \in Nat, defers \in BOOLEAN,
           error \in BOOLEAN : a = Art(t, create, data, rows, defers, error)
  BY DEF IsArtOf
<1> QED
  BY <1>1 DEF Art, Artifact

(* What the dump of a table comes to is an artifact of that table.         *)
LEMMA StagedIsArtifact ==
  ASSUME NEW t \in Tables, conf \in Confs, NEW a \in Staged(t)
  PROVE  a \in Artifact /\ a.table = t
<1>1. Strips(t) \in BOOLEAN
  BY DEF Strips, Confs
<1>2. ASSUME NEW ended \in SUBSET DataOf(t), NEW full \in SUBSET ended
      PROVE  Cardinality(full) \in Nat
  <2>1. IsFiniteSet(DataOf(t))
    <3>1. IsFiniteSet({}) /\ IsFiniteSet(1..Shards[t])
      BY ShardsIsNat, FS_EmptySet, FS_Interval
    <3> QED
      BY <3>1 DEF DataOf
  <2>2. IsFiniteSet(full)
    BY <2>1, FS_Subset
  <2> QED
    BY <2>2, FS_CardinalityType
<1>3. CASE a \in NoDdl(t)
  <2>1. PICK d \in {FALSE, Strips(t)} : a = Art(t, FALSE, FALSE, 0, d, TRUE)
    BY <1>3 DEF NoDdl
  <2>2. d \in BOOLEAN /\ 0 \in Nat
    BY <1>1
  <2>3. IsArtOf(a, t)
    BY <2>1, <2>2, Zenon DEF IsArtOf
  <2> QED
    BY <2>3, ArtIsArtifact
<1>4. CASE a \in NoCount(t)
  <2>1. (conf.content # "data") \in BOOLEAN /\ 0 \in Nat
    OBVIOUS
  <2>2. IsArtOf(a, t)
    BY <1>1, <1>4, <2>1, Zenon DEF NoCount, IsArtOf
  <2> QED
    BY <2>2, ArtIsArtifact
<1>5. CASE \E ended \in SUBSET DataOf(t) : a \in ShardsEnd(t, ended)
  <2>1. PICK ended \in SUBSET DataOf(t) : a \in ShardsEnd(t, ended)
    BY <1>5
  <2>2. PICK full \in SUBSET ended :
          a = Art(t, conf.content # "data", (IF Shards[t] = 1 THEN full ELSE ended) # {},
                  Cardinality(full), Strips(t), ended # DataOf(t))
    BY <2>1, Zenon DEF ShardsEnd
  <2>3. Cardinality(full) \in Nat
    BY <1>2
  <2>4. /\ (conf.content # "data") \in BOOLEAN
        /\ ((IF Shards[t] = 1 THEN full ELSE ended) # {}) \in BOOLEAN
        /\ (ended # DataOf(t)) \in BOOLEAN
    OBVIOUS
  <2>5. IsArtOf(a, t)
    BY <1>1, <2>2, <2>3, <2>4, Zenon DEF IsArtOf
  <2> QED
    BY <2>5, ArtIsArtifact
<1>6. \E S \in {IF conf.content = "data" THEN {} ELSE NoDdl(t),
                IF conf.content = "structure" THEN {} ELSE NoCount(t),
                UNION {ShardsEnd(t, ended) : ended \in SUBSET DataOf(t)}} : a \in S
  BY Zenon DEF Staged
<1>7. \/ a \in NoDdl(t)
      \/ a \in NoCount(t)
      \/ a \in UNION {ShardsEnd(t, ended) : ended \in SUBSET DataOf(t)}
  BY <1>6
<1>8. CASE a \in UNION {ShardsEnd(t, ended) : ended \in SUBSET DataOf(t)}
  BY <1>5, <1>8, Zenon
<1> QED
  BY <1>3, <1>4, <1>7, <1>8

(* So is what the dump of a table straight into the output comes to.       *)
LEMMA DirectIsArtifact ==
  ASSUME NEW t \in Tables, conf \in Confs, NEW a \in Direct(t)
  PROVE  a \in Artifact /\ a.table = t
<1>1. Strips(t) \in BOOLEAN
  BY DEF Strips, Confs
<1>2. \E c \in BOOLEAN, d \in BOOLEAN, r \in {0, 1}, s \in BOOLEAN, e \in BOOLEAN :
        a = Art(t, c, d, r, s, e)
  <2> DEFINE create == conf.content # "data"
             data == DataOf(t) # {}
  <2>1. create \in BOOLEAN /\ data \in BOOLEAN
    OBVIOUS
  <2>2. CASE \E c \in {FALSE, conf.content = "both"} : a = Art(t, c, FALSE, 0, FALSE, TRUE)
    <3>1. PICK c \in {FALSE, conf.content = "both"} : a = Art(t, c, FALSE, 0, FALSE, TRUE)
      BY <2>2
    <3>2. c \in BOOLEAN
      BY <2>1
    <3> QED
      BY <3>1, <3>2, Zenon
  <2>3. CASE \E r \in {0, 1} : a = Art(t, create, data, r, Strips(t), FALSE)
    BY <1>1, <2>1, <2>3, Zenon
  <2>4. CASE \E r \in {0, 1} : a = Art(t, create, TRUE, r, FALSE, TRUE)
    BY <2>1, <2>4, Zenon
  <2>5. \/ \E c \in {FALSE, conf.content = "both"} : a = Art(t, c, FALSE, 0, FALSE, TRUE)
        \/ \E r \in {0, 1} : a = Art(t, create, data, r, Strips(t), FALSE)
        \/ \E r \in {0, 1} : a = Art(t, create, TRUE, r, FALSE, TRUE)
    BY Zenon DEF Direct
  <2> QED
    BY <2>2, <2>3, <2>4, <2>5
<1>3. {0, 1} \subseteq Nat
  OBVIOUS
<1>4. IsArtOf(a, t)
  BY <1>2, <1>3, Zenon DEF IsArtOf
<1> QED
  BY <1>4, ArtIsArtifact

(* The units of an artifact begin with its table marker, the only one, and *)
(* hold a CREATE only if the artifact has one.                             *)
LEMMA UnitsBegin ==
  ASSUME NEW a \in Artifact
  PROVE  /\ UnitsOf(a) \in Seq(Units)
         /\ Len(UnitsOf(a)) >= 1
         /\ \A i \in DOMAIN UnitsOf(a) :
              /\ UnitsOf(a)[i].what = "table" => i = 1 /\ UnitsOf(a)[i].of = a.table
              /\ UnitsOf(a)[i].what = "create" => a.create /\ UnitsOf(a)[i].of = a.table
<1> DEFINE T == Unit("table", a.table, 0)
           C == Unit("create", a.table, 0)
           D == Unit("data", a.table, a.rows)
<1>1. T \in Units /\ C \in Units /\ D \in Units
  BY DEF Unit, Units, Artifact
<1>2. /\ T.what = "table" /\ T.of = a.table
      /\ C.what = "create" /\ C.of = a.table
      /\ D.what = "data"
  BY DEF Unit
<1> DEFINE X == When(a.create, <<C>>)
           Y == When(a.data, <<D>>)
           U == <<T>> \o X
<1> HIDE DEF T, C, D
<1>3. X \in Seq(Units) /\ (\A i \in 1..Len(X) : X[i] = C) /\ (Len(X) > 0 => a.create)
  BY <1>1 DEF When
<1>4. Y \in Seq(Units) /\ \A i \in 1..Len(Y) : Y[i] = D
  BY <1>1 DEF When
<1>5. <<T>> \in Seq(Units) /\ Len(<<T>>) = 1 /\ <<T>>[1] = T
  BY <1>1
<1>6. UnitsOf(a) = U \o Y
  BY Zenon DEF UnitsOf, T, C, D
<1> HIDE DEF X, Y
<1>7. /\ U \in Seq(Units)
      /\ Len(U) = 1 + Len(X)
      /\ \A i \in 1..Len(U) : U[i] = IF i = 1 THEN T ELSE C
  <2>1. /\ U \in Seq(Units)
        /\ Len(U) = 1 + Len(X)
        /\ \A i \in 1..(1 + Len(X)) : U[i] = IF i <= 1 THEN <<T>>[i] ELSE X[i - 1]
    BY <1>3, <1>5, ConcatProperties
  <2>2. Len(X) \in Nat
    BY <1>3
  <2>3. ASSUME NEW i \in 1..(1 + Len(X)), i # 1
        PROVE  X[i - 1] = C
    <3>1. i - 1 \in 1..Len(X)
      BY <2>2, <2>3
    <3> QED
      BY <1>3, <3>1
  <2> QED
    BY <1>5, <2>1, <2>2, <2>3
<1> HIDE DEF U
<1>8. /\ UnitsOf(a) \in Seq(Units)
      /\ Len(UnitsOf(a)) = Len(U) + Len(Y)
      /\ \A i \in 1..(Len(U) + Len(Y)) :
           UnitsOf(a)[i] = IF i <= Len(U) THEN U[i] ELSE Y[i - Len(U)]
  <2>1. U \in Seq(Units) /\ Y \in Seq(Units)
    BY <1>4, <1>7
  <2>2. /\ U \o Y \in Seq(Units)
        /\ Len(U \o Y) = Len(U) + Len(Y)
        /\ \A i \in 1..(Len(U) + Len(Y)) :
             (U \o Y)[i] = IF i <= Len(U) THEN U[i] ELSE Y[i - Len(U)]
    BY <2>1, ConcatProperties
  <2> QED
    BY <1>6, <2>2
<1>9. Len(U) \in Nat /\ Len(X) \in Nat /\ Len(Y) \in Nat
  BY <1>3, <1>4, <1>7
<1>10. ASSUME NEW i \in 1..Len(UnitsOf(a))
       PROVE  UnitsOf(a)[i] \in {T, C, D} /\ (i = 1 => UnitsOf(a)[i] = T)
                /\ (i # 1 => UnitsOf(a)[i] \in {C, D})
  <2>1. CASE i <= Len(U)
    BY <1>7, <1>8, <1>9, <2>1
  <2>2. CASE ~(i <= Len(U))
    <3>1. i - Len(U) \in 1..Len(Y)
      BY <1>8, <1>9, <2>2
    <3> QED
      BY <1>4, <1>7, <1>8, <1>9, <2>2, <3>1
  <2> QED
    BY <2>1, <2>2
<1>11. ASSUME NEW i \in 1..Len(UnitsOf(a)), UnitsOf(a)[i].what = "create"
       PROVE  a.create
  <2>1. i # 1 /\ UnitsOf(a)[i] # D
    BY <1>2, <1>10, <1>11
  <2>2. i <= Len(U)
    <3> SUFFICES ASSUME ~(i <= Len(U)) PROVE FALSE
      OBVIOUS
    <3>1. i - Len(U) \in 1..Len(Y)
      BY <1>8, <1>9
    <3> QED
      BY <1>4, <1>8, <1>9, <2>1, <3>1
  <2> QED
    BY <1>3, <1>7, <1>9, <2>1, <2>2
<1> QED
  BY <1>2, <1>7, <1>8, <1>9, <1>10, <1>11

(* The output after an artifact: the tables written before, and one more   *)
(* behind them.                                                            *)
LEMMA OneTableMore ==
  ASSUME file \in Seq(Units), NEW a \in Artifact, file' = file \o UnitsOf(a)
  PROVE  /\ file' \in Seq(Units)
         /\ \A i \in Written("table") : i \in 1..Len(file)
         /\ \A i \in Written("table")' :
              \/ i \in Written("table") /\ file'[i] = file[i]
              \/ i = Len(file) + 1 /\ file'[i].of = a.table
<1> DEFINE U == UnitsOf(a)
<1>1. /\ U \in Seq(Units)
      /\ \A i \in DOMAIN U : U[i].what = "table" => i = 1 /\ U[i].of = a.table
  BY UnitsBegin
<1> HIDE DEF U
<1>2. file' = file \o U
  BY DEF U
<1>3. /\ file' \in Seq(Units)
      /\ Len(file') = Len(file) + Len(U)
      /\ \A i \in 1..(Len(file) + Len(U)) :
           file'[i] = IF i <= Len(file) THEN file[i] ELSE U[i - Len(file)]
  BY <1>1, <1>2, ConcatProperties
<1>4. DOMAIN file = 1..Len(file) /\ DOMAIN U = 1..Len(U) /\ Len(file) \in Nat /\ Len(U) \in Nat
  BY <1>1
<1>5. ASSUME NEW i \in Written("table")'
      PROVE  \/ i \in Written("table") /\ file'[i] = file[i]
             \/ i = Len(file) + 1 /\ file'[i].of = a.table
  <2>1. i \in 1..(Len(file) + Len(U)) /\ file'[i].what = "table"
    BY <1>3, <1>5 DEF Written
  <2>2. CASE i <= Len(file)
    BY <1>3, <1>4, <2>1, <2>2 DEF Written
  <2>3. CASE ~(i <= Len(file))
    <3> DEFINE k == i - Len(file)
    <3>1. i \in Nat /\ k \in 1..Len(U) /\ i = Len(file) + k
      BY <1>4, <2>1, <2>3
    <3> HIDE DEF k
    <3>2. file'[i] = U[k]
      <4>1. file'[i] = U[i - Len(file)]
        BY <1>3, <2>1, <2>3
      <4>2. i - Len(file) = k
        BY <1>4, <3>1
      <4> QED
        BY <4>1, <4>2, Zenon
    <3>3. U[k].what = "table"
      BY <2>1, <3>2, Zenon
    <3>4. k \in DOMAIN U
      BY <1>4, <3>1, Zenon
    <3>5. k = 1 /\ U[k].of = a.table
      BY <1>1, <3>3, <3>4, Zenon
    <3>6. i = Len(file) + 1
      BY <3>1, <3>5, Zenon
    <3>7. file'[i].of = a.table
      BY <3>2, <3>5, Zenon
    <3> QED
      BY <3>6, <3>7, Zenon
  <2> QED
    BY <2>2, <2>3
<1> QED
  BY <1>3, <1>4, <1>5 DEF Written

(* The order survives an artifact that comes after all that is written.    *)
LEMMA OrderKept ==
  ASSUME file \in Seq(Units), NEW a \in Artifact, file' = file \o UnitsOf(a),
         TablesInOrder, \A i \in Written("table") : file[i].of < a.table
  PROVE  TablesInOrder'
<1> SUFFICES ASSUME NEW i \in Written("table")', NEW j \in Written("table")', i < j
             PROVE  file'[i].of < file'[j].of
  BY DEF TablesInOrder
<1>1. /\ \A k \in Written("table") : k \in 1..Len(file)
      /\ \A k \in Written("table")' :
           \/ k \in Written("table") /\ file'[k] = file[k]
           \/ k = Len(file) + 1 /\ file'[k].of = a.table
  BY OneTableMore
<1>2. Len(file) \in Nat
  OBVIOUS
<1>3. CASE j \in Written("table") /\ file'[j] = file[j]
  BY <1>1, <1>2, <1>3 DEF TablesInOrder
<1>4. CASE j = Len(file) + 1 /\ file'[j].of = a.table
  <2>0. i # Len(file) + 1
    BY <1>2, <1>4
  <2>1. i \in Written("table") /\ file'[i] = file[i]
    BY <1>1, <2>0
  <2> QED
    BY <1>4, <2>1
<1> QED
  BY <1>1, <1>3, <1>4

-----------------------------------------------------------------------------
(* The initial states satisfy MergeIInv.                                   *)
LEMMA InitInv == Init => MergeIInv
<1> SUFFICES ASSUME Init PROVE MergeIInv
  OBVIOUS
<1>1. NTables \in Nat
  BY NTablesIsNat
<1>2. TypeOK
  <2>1. pc \in [Workers -> {"recv", "gate", "dump", "send", "done"}]
    BY DEF Init
  <2>2. art \in [Workers -> Artifact \cup {NoArtifact}]
    BY DEF Init
  <2>3. channel \in Seq(Artifact) /\ file \in Seq(Units) /\ deferred \in Seq(Tables)
    BY DEF Init
  <2>4. /\ buffer \subseteq Artifact
        /\ tally \in [rows: Nat, done: Nat, failed: Nat]
        /\ reported \in [Tables -> {"no", "ok", "error"}]
    BY DEF Init
  <2>5. next \in 1..(NTables + 1) /\ want \in 1..(NTables + 1)
    BY <1>1 DEF Init
  <2> QED
    BY <2>1, <2>2, <2>3, <2>4, <2>5 DEF Init, TypeOK
<1>3. PipelineInv
  BY DEF Init, PipelineInv, Working, SendersGone
<1>4. Written("table") = {}
  BY DEF Init, Written
<1>5. OnceInv
  BY DEF Init, OnceInv, Working
<1>6. AheadInv
  BY <1>4 DEF Init, AheadInv, Working
<1>7. TablesInOrder
  BY <1>4 DEF TablesInOrder
<1> QED
  BY <1>2, <1>3, <1>5, <1>6, <1>7 DEF MergeIInv

(* Steps that move run_dump itself along, or set a flag, and touch neither *)
(* the output nor a table on its way.                                      *)
LEMMA MainMoves ==
  ASSUME MergeIInv,
         UNCHANGED <<conf, workVars, channel, buffer, want, outVars>>,
         stop' \in BOOLEAN, result' \in {"none", "ok", "err"},
         reported' = reported,
         main' \in {"open", "table", "recv", "drain", "rest", "tail", "written",
                    "failed", "returned"},
         Merging' => Merging,
         main' \in {"rest", "tail", "written"} => SendersGone /\ channel = <<>>,
         conf.serial => main' \notin {"recv", "drain", "rest"},
         ~conf.serial => main' # "table"
  PROVE  MergeIInv'
<1> USE DEF workVars, outVars
<1>1. TypeOK'
  BY DEF MergeIInv, TypeOK
<1>2. PipelineInv'
  BY DEF MergeIInv, PipelineInv, Working, SendersGone
<1>3. OnceInv'
  BY DEF MergeIInv, OnceInv, Working
<1>4. Written("table")' = Written("table")
  BY DEF Written
<1>5. AheadInv'
  BY <1>4 DEF MergeIInv, AheadInv, Ahead, Working
<1>6. TablesInOrder'
  BY <1>4 DEF MergeIInv, TablesInOrder
<1> QED
  BY <1>1, <1>2, <1>3, <1>5, <1>6 DEF MergeIInv

(* Steps of one worker that leave the channel alone: the table in its      *)
(* hands, if any, must be one that nobody else has.                        *)
LEMMA WorkerMoves ==
  ASSUME MergeIInv, NEW w \in Workers, pc[w] # "done",
         NEW p \in {"recv", "gate", "dump", "send", "done"},
         NEW a \in Artifact \cup {NoArtifact},
         pc' = [pc EXCEPT ![w] = p], art' = [art EXCEPT ![w] = a],
         next' \in next..(NTables + 1),
         UNCHANGED <<conf, stop, channel, mergeVars, outVars, result>>,
         reported' \in [Tables -> {"no", "ok", "error"}],
         Working(w)' =>
           /\ a \in Artifact
           /\ a.table < next'
           /\ Merging => want <= a.table
           /\ \A i \in Written("table") : file[i].of < a.table
           /\ \A v \in Workers : v # w /\ Working(v) => art[v].table # a.table
           /\ \A i \in DOMAIN channel : channel[i].table # a.table
           /\ \A b \in buffer : b.table # a.table
  PROVE  MergeIInv'
<1> USE DEF mergeVars, outVars
<1>1. /\ TypeOK /\ PipelineInv /\ OnceInv /\ AheadInv /\ TablesInOrder
      /\ NTables \in Nat
  BY NTablesIsNat DEF MergeIInv
<1>2. TypeOK'
  <2>1. next \in 1..(NTables + 1)
    BY <1>1 DEF TypeOK
  <2>2. next' \in 1..(NTables + 1)
    BY <1>1, <2>1
  <2>3. /\ pc' \in [Workers -> {"recv", "gate", "dump", "send", "done"}]
        /\ art' \in [Workers -> Artifact \cup {NoArtifact}]
    BY <1>1 DEF TypeOK
  <2> QED
    BY <1>1, <2>2, <2>3 DEF TypeOK
<1>3. \A v \in Workers : /\ v # w => pc'[v] = pc[v] /\ art'[v] = art[v]
                         /\ v = w => art'[v] = a
  BY <1>1 DEF TypeOK
<1>4. \A v \in Workers : v # w => (Working(v)' <=> Working(v))
  BY <1>3 DEF Working
<1>5. PipelineInv'
  <2>1. ~SendersGone
    BY DEF SendersGone
  <2>2. \A v \in Workers : Working(v)' => art'[v] \in Artifact
    BY <1>1, <1>3, <1>4 DEF PipelineInv
  <2> QED
    BY <1>1, <2>1, <2>2 DEF PipelineInv
<1>6. OnceInv'
  BY <1>1, <1>3, <1>4 DEF OnceInv
<1>7. Written("table")' = Written("table") /\ file' = file
  BY DEF Written
<1>8. AheadInv'
  <2>1. next \in Nat /\ next' \in Nat /\ next <= next' /\ want \in Nat
    BY <1>1 DEF TypeOK
  <2>2. \A i \in Written("table") : file[i].of \in Nat
    <3> SUFFICES ASSUME NEW i \in Written("table")
                 PROVE  file[i].of \in Nat
      OBVIOUS
    <3>1. file \in Seq(Units) /\ i \in DOMAIN file
      BY <1>1 DEF TypeOK, Written
    <3>2. file[i] \in Units
      BY <3>1
    <3> QED
      BY <1>1, <3>2 DEF Units, Tables
  <2>3. \A v \in Workers : Working(v)' => Ahead(art[v].table)' \/ v = w
    <3> SUFFICES ASSUME NEW v \in Workers, Working(v)', v # w
                 PROVE  Ahead(art[v].table)'
      OBVIOUS
    <3>1. Ahead(art[v].table) /\ art'[v] = art[v] /\ art[v] \in Artifact
      BY <1>1, <1>3, <1>4 DEF AheadInv, PipelineInv
    <3> QED
      BY <1>7, <2>1, <3>1 DEF Ahead, Merging, Artifact, Tables
  <2>4. Working(w)' => Ahead(art[w].table)'
    BY <1>3, <1>7 DEF Ahead, Merging
  <2>5. \A i \in DOMAIN channel : Ahead(channel[i].table)'
    <3> SUFFICES ASSUME NEW i \in DOMAIN channel
                 PROVE  Ahead(channel[i].table)'
      OBVIOUS
    <3>1. Ahead(channel[i].table) /\ channel[i] \in Artifact
      BY <1>1 DEF AheadInv, TypeOK
    <3> QED
      BY <1>7, <2>1, <3>1 DEF Ahead, Merging, Artifact, Tables
  <2>6. \A b \in buffer : Ahead(b.table)'
    <3> SUFFICES ASSUME NEW b \in buffer
                 PROVE  Ahead(b.table)'
      OBVIOUS
    <3>1. Ahead(b.table) /\ b \in Artifact
      BY <1>1 DEF AheadInv, TypeOK
    <3> QED
      BY <1>7, <2>1, <3>1 DEF Ahead, Merging, Artifact, Tables
  <2>7. \A i \in Written("table") : file[i].of < next'
    BY <1>1, <2>1, <2>2 DEF AheadInv
  <2>8. /\ want' <= next'
        /\ \A i \in Written("table")' : file'[i].of < next'
        /\ \A i \in Written("table")' : (Merging /\ ~conf.serial)' => file'[i].of < want'
    BY <1>1, <1>7, <2>1, <2>7 DEF AheadInv, Merging
  <2>9. /\ \A v \in Workers : Working(v)' => Ahead(art[v].table)'
        /\ \A i \in (DOMAIN channel)' : Ahead(channel[i].table)'
        /\ \A b \in buffer' : Ahead(b.table)'
    BY <2>3, <2>4, <2>5, <2>6, Zenon
  <2> QED
    BY <2>8, <2>9, Zenon DEF AheadInv
<1>9. TablesInOrder'
  BY <1>1, <1>7 DEF TablesInOrder
<1> QED
  BY <1>2, <1>5, <1>6, <1>8, <1>9 DEF MergeIInv

(* What MergeIInv says of the step of a worker at its point pc[w].         *)
LEMMA WorkerFacts ==
  ASSUME MergeIInv, NEW w \in Workers
  PROVE  /\ TypeOK /\ PipelineInv /\ OnceInv /\ AheadInv /\ TablesInOrder
         /\ NTables \in Nat
         /\ next \in 1..(NTables + 1) /\ want \in 1..(NTables + 1) /\ want <= next
         /\ art[w] \in Artifact \cup {NoArtifact}
         /\ \A a \in Artifact : a.table \in 1..NTables
         /\ \A i \in DOMAIN channel : channel[i] \in Artifact
         /\ \A v \in Workers : Working(v) => art[v] \in Artifact
         /\ \A i \in Written("table") : file[i].of \in Nat
<1>1. TypeOK /\ PipelineInv /\ OnceInv /\ AheadInv /\ TablesInOrder /\ NTables \in Nat
  BY NTablesIsNat DEF MergeIInv
<1>2. \A a \in Artifact : a.table \in 1..NTables
  BY DEF Artifact, Tables
<1>3. \A i \in DOMAIN channel : channel[i] \in Artifact
  BY <1>1 DEF TypeOK
<1>4. ASSUME NEW i \in Written("table")
      PROVE  file[i].of \in Nat
  <2>1. file \in Seq(Units) /\ i \in DOMAIN file
    BY <1>1 DEF TypeOK, Written
  <2>2. file[i] \in Units
    BY <2>1
  <2> QED
    BY <1>1, <2>2 DEF Units, Tables
<1>5. next \in 1..(NTables + 1) /\ want \in 1..(NTables + 1) /\ want <= next
  BY <1>1 DEF TypeOK, AheadInv
<1> QED
  BY <1>1, <1>2, <1>3, <1>4, <1>5 DEF TypeOK, PipelineInv

(* TakeTable: the table taken comes after every other on its way.          *)
LEMMA TakeKeeps ==
  ASSUME MergeIInv, NEW w \in Workers, TakeTable(w)
  PROVE  MergeIInv'
<1> DEFINE a == [NoArtifact EXCEPT !.table = next]
<1> USE DEF TakeTable, mergeVars, outVars
<1>1. /\ TypeOK /\ PipelineInv /\ OnceInv /\ AheadInv
      /\ NTables \in Nat
      /\ next \in 1..(NTables + 1) /\ want <= next
      /\ \A b \in Artifact : b.table \in 1..NTables
      /\ \A i \in DOMAIN channel : channel[i] \in Artifact
      /\ \A v \in Workers : Working(v) => art[v] \in Artifact
  BY WorkerFacts
<1>2. next \in 1..NTables /\ next' = next + 1
  BY <1>1 DEF QueueHasNext
<1>3. a \in Artifact /\ a.table = next
  BY <1>2 DEF NoArtifact, Artifact, Tables
<1>4. /\ \A v \in Workers : Working(v) => art[v].table # next
      /\ \A i \in DOMAIN channel : channel[i].table # next
      /\ \A b \in buffer : b.table # next
      /\ \A i \in Written("table") : file[i].of < next
  BY <1>1 DEF AheadInv, Ahead, TypeOK
<1>5. reported' \in [Tables -> {"no", "ok", "error"}]
  BY <1>1 DEF TypeOK
<1> HIDE DEF a
<1>6. pc' = [pc EXCEPT ![w] = "gate"] /\ art' = [art EXCEPT ![w] = a]
  BY DEF a
<1>7. next' \in next..(NTables + 1) /\ next < next'
  BY <1>1, <1>2
<1>8. pc[w] # "done" /\ UNCHANGED <<conf, stop, channel, mergeVars, outVars, result>>
  OBVIOUS
<1>9. Working(w)' =>
        /\ a \in Artifact
        /\ a.table < next'
        /\ Merging => want <= a.table
        /\ \A i \in Written("table") : file[i].of < a.table
        /\ \A v \in Workers : v # w /\ Working(v) => art[v].table # a.table
        /\ \A i \in DOMAIN channel : channel[i].table # a.table
        /\ \A b \in buffer : b.table # a.table
  BY <1>1, <1>3, <1>4, <1>7
<1>10. "gate" \in {"recv", "gate", "dump", "send", "done"}
  OBVIOUS
<1>11. a \in Artifact \cup {NoArtifact}
  BY <1>3
<1> HIDE DEF TakeTable, mergeVars, outVars
<1> QED
  BY <1>5, <1>6, <1>7, <1>8, <1>9, <1>10, <1>11, WorkerMoves, Zenon

(* A worker that drops its table, or ends, or stages the table it holds.   *)
LEMMA WorkerGoesOn ==
  ASSUME MergeIInv, NEW w \in Workers, QueueEmpty(w) \/ PassGate(w) \/ StageTable(w)
  PROVE  MergeIInv'
<1> USE DEF mergeVars, outVars
<1>1. /\ TypeOK /\ PipelineInv /\ OnceInv /\ AheadInv
      /\ NTables \in Nat
      /\ next \in 1..(NTables + 1)
      /\ art[w] \in Artifact \cup {NoArtifact}
      /\ \A v \in Workers : Working(v) => art[v] \in Artifact
  BY WorkerFacts
<1>2. next \in next..(NTables + 1)
  BY <1>1
<1>3. art = [art EXCEPT ![w] = art[w]]
  BY <1>1 DEF TypeOK
<1>4. Working(w) =>
        /\ art[w] \in Artifact
        /\ art[w].table < next
        /\ Merging => want <= art[w].table
        /\ \A i \in Written("table") : file[i].of < art[w].table
        /\ \A v \in Workers : v # w /\ Working(v) => art[v].table # art[w].table
        /\ \A i \in DOMAIN channel : channel[i].table # art[w].table
        /\ \A b \in buffer : b.table # art[w].table
  BY <1>1 DEF OnceInv, AheadInv, Ahead
<1>5. CASE QueueEmpty(w)
  <2>1. ~Working(w)'
    BY <1>1, <1>5 DEF QueueEmpty, Working, TypeOK
  <2> QED
    BY <1>1, <1>2, <1>3, <1>5, <2>1, WorkerMoves DEF QueueEmpty, TypeOK
<1>6. CASE PassGate(w)
  <2>1. Working(w)
    BY <1>6 DEF PassGate, Working
  <2>2. PICK p \in {"dump", "done"} : pc' = [pc EXCEPT ![w] = p]
    BY <1>6 DEF PassGate
  <2>3. pc[w] # "done" /\ next' = next /\ art' = art
          /\ UNCHANGED <<conf, stop, channel, mergeVars, outVars, reported, result>>
    BY <1>6 DEF PassGate
  <2>4. p \in {"recv", "gate", "dump", "send", "done"}
    OBVIOUS
  <2>5. next' \in next..(NTables + 1)
    BY <1>2, <2>3, Zenon
  <2>6. reported' \in [Tables -> {"no", "ok", "error"}]
    BY <1>1, <2>3 DEF TypeOK
  <2>7. art' = [art EXCEPT ![w] = art[w]]
    BY <1>3, <2>3, Zenon
  <2>8. art[w] \in Artifact \cup {NoArtifact}
    BY <1>1, Zenon
  <2>9. Working(w)' =>
          /\ art[w] \in Artifact
          /\ art[w].table < next'
          /\ Merging => want <= art[w].table
          /\ \A i \in Written("table") : file[i].of < art[w].table
          /\ \A v \in Workers : v # w /\ Working(v) => art[v].table # art[w].table
          /\ \A i \in DOMAIN channel : channel[i].table # art[w].table
          /\ \A b \in buffer : b.table # art[w].table
    BY <1>4, <2>1, <2>3, Zenon
  <2> HIDE DEF mergeVars, outVars
  <2> QED
    BY <2>2, <2>3, <2>4, <2>5, <2>6, <2>7, <2>8, <2>9, WorkerMoves, Zenon
<1>7. CASE StageTable(w)
  <2>1. Working(w)
    BY <1>7 DEF StageTable, Working
  <2>2. PICK a \in Staged(art[w].table) :
          /\ art' = [art EXCEPT ![w] = a]
          /\ reported' = [reported EXCEPT ![a.table] = IF a.error THEN "error" ELSE "ok"]
    BY <1>7 DEF StageTable
  <2>3. art[w].table \in Tables /\ conf \in Confs
    BY <1>1, <2>1 DEF Artifact, TypeOK
  <2>4. a \in Artifact /\ a.table = art[w].table
    BY <2>3, StagedIsArtifact
  <2>5. reported' \in [Tables -> {"no", "ok", "error"}]
    BY <1>1, <2>2 DEF TypeOK
  <2>6. pc[w] # "done" /\ next' = next /\ pc' = [pc EXCEPT ![w] = "send"]
          /\ UNCHANGED <<conf, stop, channel, mergeVars, outVars, result>>
    BY <1>7 DEF StageTable
  <2>7. Working(w)' =>
          /\ a \in Artifact
          /\ a.table < next'
          /\ Merging => want <= a.table
          /\ \A i \in Written("table") : file[i].of < a.table
          /\ \A v \in Workers : v # w /\ Working(v) => art[v].table # a.table
          /\ \A i \in DOMAIN channel : channel[i].table # a.table
          /\ \A b \in buffer : b.table # a.table
    BY <1>4, <2>1, <2>4, <2>6
  <2>8. "send" \in {"recv", "gate", "dump", "send", "done"} /\ a \in Artifact \cup {NoArtifact}
    BY <2>4
  <2>9. next' \in next..(NTables + 1)
    BY <1>2, <2>6
  <2> HIDE DEF mergeVars, outVars
  <2> QED
    BY <2>2, <2>5, <2>6, <2>7, <2>8, <2>9, WorkerMoves, Zenon
<1> QED
  BY <1>5, <1>6, <1>7

(* SendArtifact: a table moves from the hands of a worker into the channel.*)
LEMMA SendKeeps ==
  ASSUME MergeIInv, NEW w \in Workers, SendArtifact(w)
  PROVE  MergeIInv'
<1> USE DEF mergeVars, outVars
<1> DEFINE a == art[w]
<1>1. /\ TypeOK /\ PipelineInv /\ OnceInv /\ AheadInv /\ TablesInOrder
      /\ \A i \in DOMAIN channel : channel[i] \in Artifact
      /\ \A v \in Workers : Working(v) => art[v] \in Artifact
  BY WorkerFacts
<1>2. Working(w) /\ a \in Artifact /\ channel \in Seq(Artifact)
  BY <1>1 DEF SendArtifact, Working, TypeOK
<1> HIDE DEF a
<1>3. channel' = Append(channel, a)
  BY DEF SendArtifact, a
<1>4. /\ channel' \in Seq(Artifact)
      /\ Len(channel') = Len(channel) + 1
      /\ \A i \in 1..Len(channel) : channel'[i] = channel[i]
      /\ channel'[Len(channel) + 1] = a
  BY <1>2, <1>3, AppendProperties
<1>5. DOMAIN channel' = 1..(Len(channel) + 1) /\ DOMAIN channel = 1..Len(channel)
        /\ Len(channel) \in Nat
  BY <1>2, <1>4
<1>6. \A i \in DOMAIN channel' :
        \/ i \in DOMAIN channel /\ channel'[i] = channel[i]
        \/ i = Len(channel) + 1 /\ i \notin DOMAIN channel /\ channel'[i] = a
  BY <1>4, <1>5
<1>7. /\ pc' = [pc EXCEPT ![w] = "recv"]
      /\ UNCHANGED <<conf, stop, next, art, main, buffer, want, file, deferred, tally,
                     reported, result>>
  BY DEF SendArtifact
<1>8. TypeOK'
  BY <1>1, <1>4, <1>7 DEF TypeOK
<1>9. ~Working(w)' /\ \A v \in Workers : Working(v)' => Working(v) /\ v # w
  BY <1>1, <1>7 DEF Working, TypeOK
<1>10. PipelineInv'
  <2>1. ~SendersGone
    BY <1>2 DEF SendersGone, Working
  <2> QED
    BY <1>1, <1>7, <1>9, <2>1 DEF PipelineInv
<1>11. OnceInv'
  <2>1. /\ \A i \in DOMAIN channel : a.table # channel[i].table
        /\ \A b \in buffer : a.table # b.table
        /\ \A v \in Workers : Working(v) /\ v # w => art[v].table # a.table
    BY <1>1, <1>2 DEF OnceInv, a
  <2>2. \A i, j \in DOMAIN channel' : i # j => channel'[i].table # channel'[j].table
    BY <1>1, <1>6, <2>1 DEF OnceInv
  <2>3. \A v \in Workers, i \in DOMAIN channel' :
          Working(v)' => art'[v].table # channel'[i].table
    BY <1>1, <1>6, <1>7, <1>9, <2>1 DEF OnceInv
  <2>4. \A i \in DOMAIN channel', b \in buffer : channel'[i].table # b.table
    BY <1>1, <1>6, <2>1 DEF OnceInv
  <2> QED
    BY <1>1, <1>7, <1>9, <2>2, <2>3, <2>4 DEF OnceInv
<1>12. Written("table")' = Written("table") /\ file' = file
  BY <1>7 DEF Written
<1>13. AheadInv'
  <2>1. Ahead(a.table)
    BY <1>1, <1>2 DEF AheadInv, a
  <2>2. \A i \in DOMAIN channel' :
          /\ channel'[i].table < next
          /\ Merging => want <= channel'[i].table
          /\ \A k \in Written("table") : file[k].of < channel'[i].table
    BY <1>1, <1>6, <2>1 DEF AheadInv, Ahead
  <2>3. /\ \A v \in Workers : Working(v) => Ahead(art[v].table)
        /\ \A b \in buffer : Ahead(b.table)
    BY <1>1 DEF AheadInv
  <2> QED
    BY <1>1, <1>7, <1>9, <1>12, <2>2, <2>3 DEF AheadInv, Ahead, Merging
<1>14. TablesInOrder'
  BY <1>1, <1>12 DEF TablesInOrder
<1> QED
  BY <1>8, <1>10, <1>11, <1>13, <1>14 DEF MergeIInv

(* The steps of run_dump that only move it along.                          *)
LEMMA MainGoesOn ==
  ASSUME MergeIInv,
         \/ RequestStop \/ OpenSink \/ SerialEnds \/ Drained \/ ChannelCloses
         \/ SinkFails \/ JoinWorkers \/ (MergeRest /\ buffer = {})
  PROVE  MergeIInv'
<1> USE DEF mergeVars, Merging
<1>1. TypeOK /\ PipelineInv
  BY DEF MergeIInv
<1>2. CASE RequestStop
  BY <1>1, <1>2, MainMoves DEF RequestStop, TypeOK, PipelineInv
<1>3. CASE OpenSink
  BY <1>1, <1>3, MainMoves DEF OpenSink, TypeOK, PipelineInv, Confs
<1>4. CASE SerialEnds
  BY <1>1, <1>4, MainMoves DEF SerialEnds, TypeOK, PipelineInv
<1>5. CASE Drained
  BY <1>1, <1>5, MainMoves DEF Drained, TypeOK, PipelineInv
<1>6. CASE ChannelCloses
  BY <1>1, <1>6, MainMoves DEF ChannelCloses, TypeOK, PipelineInv
<1>7. CASE SinkFails
  BY <1>1, <1>7, MainMoves DEF SinkFails, TypeOK, PipelineInv
<1>8. CASE JoinWorkers
  BY <1>1, <1>8, MainMoves DEF JoinWorkers, TypeOK, PipelineInv
<1>9. CASE MergeRest /\ buffer = {}
  BY <1>1, <1>9, MainMoves DEF MergeRest, TypeOK, PipelineInv
<1> QED
  BY <1>2, <1>3, <1>4, <1>5, <1>6, <1>7, <1>8, <1>9

(* The types of the output and the totals once a table has been added.     *)
LEMMA TotalsTyped ==
  ASSUME TypeOK, NEW t \in Tables, NEW rows \in Nat, NEW error, NEW defers,
         tally' = Counted(rows, error), deferred' = deferred \o When(defers, <<t>>)
  PROVE  /\ tally' \in [rows: Nat, done: Nat, failed: Nat]
         /\ deferred' \in Seq(Tables)
<1>1. tally \in [rows: Nat, done: Nat, failed: Nat] /\ deferred \in Seq(Tables)
  BY DEF TypeOK
<1>2. tally' \in [rows: Nat, done: Nat, failed: Nat]
  BY <1>1 DEF Counted
<1> DEFINE W == When(defers, <<t>>)
<1>3. W \in Seq(Tables)
  BY DEF When
<1> HIDE DEF W
<1>4. deferred \o W \in Seq(Tables)
  BY <1>1, <1>3, ConcatProperties
<1> QED
  BY <1>2, <1>4 DEF W

(* SerialTable: the next table of the work list goes into the output.      *)
LEMMA SerialKeeps ==
  ASSUME MergeIInv, SerialTable
  PROVE  MergeIInv'
<1> USE DEF mergeVars
<1>1. /\ TypeOK /\ PipelineInv /\ OnceInv /\ AheadInv /\ TablesInOrder
      /\ NTables \in Nat
  BY NTablesIsNat DEF MergeIInv
<1>2. /\ main = "table" /\ conf.serial /\ channel = <<>> /\ buffer = {}
      /\ \A w \in Workers : ~Working(w)
      /\ ~Merging
  BY <1>1 DEF SerialTable, PipelineInv, SendersGone, Working, Merging
<1>3. next \in 1..NTables /\ next' = next + 1 /\ next \in Tables
  BY <1>1 DEF SerialTable, TypeOK, Tables
<1>4. PICK a \in Direct(next) :
        /\ file' = file \o UnitsOf(a)
        /\ deferred' = deferred \o When(a.deferred, <<next>>)
        /\ tally' = Counted(IF a.error THEN 0 ELSE a.rows, a.error)
        /\ reported' = [reported EXCEPT ![next] = IF a.error THEN "error" ELSE "ok"]
  BY DEF SerialTable
<1>5. a \in Artifact /\ a.table = next
  BY <1>1, <1>3, DirectIsArtifact DEF TypeOK
<1>6. UNCHANGED <<conf, stop, pc, art, channel, main, buffer, want, result>>
  BY DEF SerialTable
<1>7. /\ file \in Seq(Units)
      /\ \A i \in Written("table") : file[i].of < next
  BY <1>1 DEF TypeOK, AheadInv
<1>8. /\ file' \in Seq(Units)
      /\ \A i \in Written("table")' :
           \/ i \in Written("table") /\ file'[i] = file[i]
           \/ file'[i].of = next
  BY <1>4, <1>5, <1>7, OneTableMore
<1>9. TypeOK'
  <2>1. (IF a.error THEN 0 ELSE a.rows) \in Nat
    BY <1>5 DEF Artifact
  <2>2. tally' \in [rows: Nat, done: Nat, failed: Nat] /\ deferred' \in Seq(Tables)
    BY <1>1, <1>3, <1>4, <2>1, TotalsTyped
  <2>3. reported' \in [Tables -> {"no", "ok", "error"}]
    BY <1>1, <1>4 DEF TypeOK
  <2>4. next' \in 1..(NTables + 1)
    BY <1>1, <1>3
  <2> QED
    BY <1>1, <1>6, <1>8, <2>2, <2>3, <2>4 DEF TypeOK
<1>10. PipelineInv'
  BY <1>1, <1>6 DEF PipelineInv, Working, SendersGone
<1>11. OnceInv'
  BY <1>1, <1>6 DEF OnceInv, Working
<1>12. AheadInv'
  <2>1. \A i \in Written("table") : file[i].of \in Nat
    <3> SUFFICES ASSUME NEW i \in Written("table")
                 PROVE  file[i].of \in Nat
      OBVIOUS
    <3>1. file[i] \in Units
      BY <1>7 DEF Written
    <3> QED
      BY <1>1, <3>1 DEF Units, Tables
  <2>2. \A i \in Written("table")' : file'[i].of < next'
    BY <1>3, <1>7, <1>8, <2>1
  <2>3. want' <= next'
    BY <1>1, <1>3, <1>6 DEF TypeOK, AheadInv
  <2>4. (\A w \in Workers : ~Working(w)') /\ ~Merging'
    BY <1>2, <1>6 DEF Working, Merging
  <2> QED
    BY <1>2, <1>6, <2>2, <2>3, <2>4 DEF AheadInv
<1>13. TablesInOrder'
  BY <1>1, <1>4, <1>5, <1>7, OrderKept
<1> QED
  BY <1>9, <1>10, <1>11, <1>12, <1>13 DEF MergeIInv

(* ReceiveArtifact: a table moves from the channel into the reorder buffer.*)
LEMMA ReceiveKeeps ==
  ASSUME MergeIInv, ReceiveArtifact
  PROVE  MergeIInv'
<1> USE DEF outVars
<1> DEFINE a == Head(channel)
<1>1. TypeOK /\ PipelineInv /\ OnceInv /\ AheadInv /\ TablesInOrder
  BY DEF MergeIInv
<1>2. /\ channel \in Seq(Artifact) /\ channel # <<>>
      /\ channel' = Tail(channel)
      /\ buffer' = buffer \cup {a}
      /\ main = "recv" /\ main' = "drain"
      /\ UNCHANGED <<conf, stop, next, pc, art, want, file, deferred, tally, reported,
                     result>>
  BY <1>1 DEF ReceiveArtifact, TypeOK, workVars
<1>3. /\ a \in Artifact /\ a = channel[1] /\ 1 \in DOMAIN channel
      /\ channel' \in Seq(Artifact)
      /\ \A i \in DOMAIN channel' :
           i \in Nat /\ i + 1 \in DOMAIN channel /\ i + 1 # 1 /\ channel'[i] = channel[i + 1]
  <2>1. /\ a \in Artifact /\ channel' \in Seq(Artifact)
        /\ Len(channel') = Len(channel) - 1
        /\ \A i \in 1..Len(channel') : channel'[i] = channel[i + 1]
    BY <1>2, HeadTailProperties
  <2>2. Len(channel) \in Nat /\ Len(channel) # 0 /\ DOMAIN channel = 1..Len(channel)
          /\ DOMAIN channel' = 1..Len(channel')
    BY <1>2, <2>1
  <2>3. a = channel[1]
    BY <1>2
  <2> QED
    BY <2>1, <2>2, <2>3
<1> HIDE DEF a
<1>4. TypeOK'
  BY <1>1, <1>2, <1>3 DEF TypeOK
<1>5. PipelineInv'
  BY <1>1, <1>2 DEF PipelineInv, Working, SendersGone
<1>6. OnceInv'
  <2>1. /\ \A i, j \in DOMAIN channel' : i # j => channel'[i].table # channel'[j].table
        /\ \A i \in DOMAIN channel' : channel'[i].table # a.table
    BY <1>1, <1>3 DEF OnceInv
  <2>2. /\ \A b \in buffer : b.table # a.table
        /\ \A w \in Workers : Working(w) => art[w].table # a.table
    BY <1>1, <1>3 DEF OnceInv
  <2>3. \A w \in Workers, i \in DOMAIN channel' :
          Working(w) => art[w].table # channel'[i].table
    BY <1>1, <1>3 DEF OnceInv
  <2>4. \A i \in DOMAIN channel', b \in buffer : channel'[i].table # b.table
    BY <1>1, <1>3 DEF OnceInv
  <2> QED
    BY <1>1, <1>2, <2>1, <2>2, <2>3, <2>4 DEF OnceInv, Working
<1>7. Written("table")' = Written("table") /\ file' = file
  BY <1>2 DEF Written
<1>8. AheadInv'
  <2>1. Ahead(a.table) /\ \A i \in DOMAIN channel' : Ahead(channel'[i].table)
    BY <1>1, <1>3 DEF AheadInv
  <2> QED
    BY <1>1, <1>2, <1>7, <2>1 DEF AheadInv, Ahead, Merging, Working
<1>9. TablesInOrder'
  BY <1>1, <1>7 DEF TablesInOrder
<1> QED
  BY <1>4, <1>5, <1>6, <1>8, <1>9 DEF MergeIInv

(* What DrainNext and MergeRest have in common: of the artifacts that have *)
(* arrived, the one with the least table goes into the output.             *)
LEMMA MergeKeeps ==
  ASSUME MergeIInv, NEW a \in buffer, Merge(a),
         main \in {"drain", "rest"}, UNCHANGED main,
         \A b \in buffer : a.table <= b.table,
         \/ main = "drain" /\ a.table = want /\ want' = want + 1
         \/ main = "rest" /\ want' = want,
         \A w \in Workers : Working(w) => a.table <= art[w].table,
         \A i \in DOMAIN channel : a.table <= channel[i].table,
         UNCHANGED <<conf, stop, workVars, channel, reported, result>>
  PROVE  MergeIInv'
<1> USE DEF workVars
<1>1. /\ TypeOK /\ PipelineInv /\ OnceInv /\ AheadInv /\ TablesInOrder
      /\ NTables \in Nat
  BY NTablesIsNat DEF MergeIInv
<1>2. a \in Artifact /\ a.table \in Tables /\ Ahead(a.table)
  BY <1>1 DEF TypeOK, AheadInv, Artifact
<1>3. /\ file' = file \o UnitsOf(a)
      /\ deferred' = deferred \o When(a.deferred, <<a.table>>)
      /\ tally' = Counted(a.rows, a.error)
      /\ buffer' = buffer \ {a}
  BY DEF Merge
<1>4. /\ file \in Seq(Units)
      /\ \A i \in Written("table") : file[i].of < a.table
  BY <1>1, <1>2 DEF TypeOK, Ahead
<1>5. /\ file' \in Seq(Units)
      /\ \A i \in Written("table")' :
           \/ i \in Written("table") /\ file'[i] = file[i]
           \/ file'[i].of = a.table
  BY <1>2, <1>3, <1>4, OneTableMore
<1>6. /\ a.table \in 1..NTables /\ want \in 1..(NTables + 1) /\ next \in 1..(NTables + 1)
      /\ a.table < next /\ want <= next
  BY <1>1, <1>2 DEF TypeOK, AheadInv, Ahead, Tables
<1>7. TypeOK'
  <2>1. a.rows \in Nat
    BY <1>2 DEF Artifact
  <2>2. tally' \in [rows: Nat, done: Nat, failed: Nat] /\ deferred' \in Seq(Tables)
    BY <1>1, <1>2, <1>3, <2>1, TotalsTyped
  <2>3. want' \in 1..(NTables + 1)
    BY <1>1, <1>6
  <2> QED
    BY <1>1, <1>3, <1>5, <2>2, <2>3 DEF TypeOK
<1>8. PipelineInv'
  BY <1>1, <1>3 DEF PipelineInv, Working, SendersGone
<1>9. OnceInv'
  BY <1>1, <1>3 DEF OnceInv, Working
<1>10. \A i \in Written("table")' : file'[i].of <= a.table
  <2> SUFFICES ASSUME NEW i \in Written("table")'
               PROVE  file'[i].of <= a.table
    OBVIOUS
  <2>1. CASE i \in Written("table") /\ file'[i] = file[i]
    <3>1. file[i] \in Units
      BY <1>4, <2>1 DEF Written
    <3>2. file[i].of \in Nat
      BY <1>1, <3>1 DEF Units, Tables
    <3> QED
      BY <1>4, <1>6, <2>1, <3>2
  <2>2. CASE file'[i].of = a.table
    BY <1>6, <2>2
  <2> QED
    BY <1>5, <2>1, <2>2
<1>11. \A i \in Written("table")' : file'[i].of \in Nat
  <2> SUFFICES ASSUME NEW i \in Written("table")'
               PROVE  file'[i].of \in Nat
    OBVIOUS
  <2>1. file'[i] \in Units
    BY <1>5 DEF Written
  <2> QED
    BY <1>1, <2>1 DEF Units, Tables
<1>12. ASSUME NEW t \in Tables, Ahead(t), a.table < t
       PROVE  Ahead(t)'
  <2>1. \A i \in Written("table")' : file'[i].of < t
    BY <1>1, <1>6, <1>10, <1>11, <1>12 DEF Tables
  <2>2. t < next' /\ (Merging' => want' <= t)
    BY <1>1, <1>6, <1>12 DEF Ahead, Merging, Tables
  <2> QED
    BY <2>1, <2>2 DEF Ahead
<1>13. AheadInv'
  <2>1. ASSUME NEW w \in Workers, Working(w)'
        PROVE  Ahead(art[w].table)'
    <3>1. Working(w)
      BY <2>1 DEF Working
    <3>2. art[w] \in Artifact /\ Ahead(art[w].table) /\ a.table # art[w].table
      BY <1>1, <3>1 DEF PipelineInv, AheadInv, OnceInv
    <3>3. art[w].table \in Tables /\ a.table < art[w].table
      BY <1>1, <1>6, <3>1, <3>2 DEF Artifact, Tables
    <3> QED
      BY <1>12, <3>2, <3>3
  <2>2. ASSUME NEW i \in DOMAIN channel
        PROVE  Ahead(channel[i].table)'
    <3>1. channel[i] \in Artifact /\ Ahead(channel[i].table) /\ a.table # channel[i].table
      BY <1>1 DEF TypeOK, AheadInv, OnceInv
    <3>2. channel[i].table \in Tables /\ a.table < channel[i].table
      BY <1>1, <1>6, <3>1 DEF Artifact, Tables
    <3> QED
      BY <1>12, <3>1, <3>2
  <2>3. ASSUME NEW b \in buffer'
        PROVE  Ahead(b.table)'
    <3>1. b \in buffer /\ b # a /\ b \in Artifact
      BY <1>1, <1>3 DEF TypeOK
    <3>2. Ahead(b.table) /\ a.table # b.table
      BY <1>1, <3>1 DEF AheadInv, OnceInv
    <3>3. b.table \in Tables /\ a.table < b.table
      BY <1>1, <1>6, <3>1, <3>2 DEF Artifact, Tables
    <3> QED
      BY <1>12, <3>2, <3>3
  <2>4. want' <= next'
    BY <1>6
  <2>5. \A i \in Written("table")' :
          /\ file'[i].of < next'
          /\ (Merging /\ ~conf.serial)' => file'[i].of < want'
    BY <1>6, <1>10, <1>11 DEF Merging
  <2>6. /\ \A w \in Workers : Working(w)' => Ahead(art[w].table)'
        /\ \A i \in (DOMAIN channel)' : Ahead(channel[i].table)'
        /\ \A b \in buffer' : Ahead(b.table)'
    <3>1. \A i \in (DOMAIN channel)' : Ahead(channel[i].table)'
      BY <2>2
    <3> QED
      BY <2>1, <2>3, <3>1, Zenon
  <2> QED
    BY <2>4, <2>5, <2>6, Zenon DEF AheadInv
<1>14. TablesInOrder'
  BY <1>1, <1>2, <1>3, <1>4, OrderKept
<1> QED
  BY <1>7, <1>8, <1>9, <1>13, <1>14 DEF MergeIInv

(* While the channel is open the merger writes the very table it waits     *)
(* for, and none that is still on its way can come before it.              *)
LEMMA DrainKeeps ==
  ASSUME MergeIInv, DrainNext
  PROVE  MergeIInv'
<1>1. TypeOK /\ PipelineInv /\ AheadInv
  BY DEF MergeIInv
<1>2. PICK a \in buffer : IsNext(a) /\ Merge(a)
  BY DEF DrainNext
<1>3. a.table = want /\ main = "drain" /\ Merging /\ want' = want + 1 /\ main' = main
  BY <1>2 DEF IsNext, DrainNext, Merging
<1>4. /\ \A b \in buffer : a.table <= b.table
      /\ \A w \in Workers : Working(w) => a.table <= art[w].table
      /\ \A i \in DOMAIN channel : a.table <= channel[i].table
  BY <1>1, <1>3 DEF AheadInv, Ahead
<1>5. UNCHANGED <<conf, stop, workVars, channel, reported, result>>
  BY DEF DrainNext
<1> QED
  BY <1>2, <1>3, <1>4, <1>5, MergeKeeps

(* Behind the end of the channel every table that will come has arrived.   *)
LEMMA RestKeeps ==
  ASSUME MergeIInv, MergeRest, buffer # {}
  PROVE  MergeIInv'
<1>1. PipelineInv /\ main = "rest"
  BY DEF MergeIInv, MergeRest
<1>2. /\ \A w \in Workers : ~Working(w)
      /\ channel = <<>>
  BY <1>1 DEF PipelineInv, SendersGone, Working
<1>3. PICK a \in buffer : (\A b \in buffer : a.table <= b.table) /\ Merge(a)
  BY DEF MergeRest
<1>4. UNCHANGED <<conf, stop, workVars, channel, main, want, reported, result>>
  BY DEF MergeRest
<1> QED
  BY <1>1, <1>2, <1>3, <1>4, MergeKeeps

(* WriteTail: index statements and a footer, and no further table.         *)
LEMMA TailKeeps ==
  ASSUME MergeIInv, WriteTail
  PROVE  MergeIInv'
<1> USE DEF workVars
<1>1. TypeOK /\ PipelineInv /\ OnceInv /\ AheadInv /\ TablesInOrder
  BY DEF MergeIInv
<1> DEFINE F == <<Unit("footer", 0, 0)>>
           G == file \o Indexes
<1>2. file \in Seq(Units) /\ deferred \in Seq(Tables)
  BY <1>1 DEF TypeOK
<1>3. /\ Indexes \in Seq(Units)
      /\ \A i \in 1..Len(Indexes) : Indexes[i].what = "index"
  <2>1. Len(deferred) \in Nat /\ DOMAIN deferred = 1..Len(deferred)
    BY <1>2
  <2>2. \A i \in 1..Len(deferred) :
          Unit("index", deferred[i], 0) \in Units /\ Unit("index", deferred[i], 0).what = "index"
    BY <1>2 DEF Unit, Units
  <2>3. Indexes = [i \in 1..Len(deferred) |-> Unit("index", deferred[i], 0)]
    BY <2>1 DEF Indexes
  <2>4. Indexes \in [1..Len(deferred) -> Units]
    BY <2>2, <2>3
  <2>5. Indexes \in Seq(Units) /\ Len(Indexes) = Len(deferred)
    BY <2>1, <2>3, <2>4
  <2> QED
    BY <2>2, <2>3, <2>5
<1>4. F \in Seq(Units) /\ Len(F) = 1 /\ F[1].what = "footer"
  BY DEF Unit, Units
<1>5. file' = G \o F
  BY DEF WriteTail
<1> HIDE DEF F, G
<1>6. /\ G \in Seq(Units)
      /\ Len(G) = Len(file) + Len(Indexes)
      /\ \A i \in 1..(Len(file) + Len(Indexes)) :
           G[i] = IF i <= Len(file) THEN file[i] ELSE Indexes[i - Len(file)]
  BY <1>2, <1>3, ConcatProperties DEF G
<1>7. /\ file' \in Seq(Units)
      /\ Len(file') = Len(G) + 1
      /\ \A i \in 1..(Len(G) + 1) :
           file'[i] = IF i <= Len(G) THEN G[i] ELSE F[i - Len(G)]
  <2>1. G \in Seq(Units) /\ F \in Seq(Units)
    BY <1>4, <1>6
  <2>2. /\ G \o F \in Seq(Units)
        /\ Len(G \o F) = Len(G) + Len(F)
        /\ \A i \in 1..(Len(G) + Len(F)) :
             (G \o F)[i] = IF i <= Len(G) THEN G[i] ELSE F[i - Len(G)]
    BY <2>1, ConcatProperties
  <2> QED
    BY <1>4, <1>5, <2>2
<1>8. Len(file) \in Nat /\ Len(Indexes) \in Nat /\ Len(G) \in Nat
        /\ DOMAIN file = 1..Len(file) /\ DOMAIN file' = 1..Len(file')
  BY <1>2, <1>3, <1>6, <1>7
<1>9. ASSUME NEW i \in Written("table")'
      PROVE  i \in Written("table") /\ file'[i] = file[i]
  <2>1. i \in 1..(Len(G) + 1) /\ file'[i].what = "table"
    BY <1>7, <1>8, <1>9 DEF Written
  <2>2. i <= Len(G)
    <3> SUFFICES ASSUME ~(i <= Len(G)) PROVE FALSE
      OBVIOUS
    <3>1. i - Len(G) = 1 /\ file'[i] = F[i - Len(G)]
      BY <1>7, <1>8, <2>1
    <3> QED
      BY <1>4, <2>1, <3>1
  <2>3. file'[i] = G[i]
    BY <1>7, <2>1, <2>2
  <2>4. i <= Len(file)
    <3> SUFFICES ASSUME ~(i <= Len(file)) PROVE FALSE
      OBVIOUS
    <3>1. i - Len(file) \in 1..Len(Indexes) /\ G[i] = Indexes[i - Len(file)]
      BY <1>6, <1>8, <2>1, <2>2
    <3> QED
      BY <1>3, <2>1, <2>3, <3>1
  <2>5. G[i] = file[i]
    BY <1>6, <1>8, <2>1, <2>2, <2>4
  <2> QED
    BY <1>8, <2>1, <2>3, <2>4, <2>5 DEF Written
<1>10. /\ main = "tail" /\ main' = "written"
       /\ UNCHANGED <<conf, stop, workVars, channel, buffer, want, deferred, tally, reported,
                      result>>
  BY DEF WriteTail
<1>11. TypeOK'
  BY <1>1, <1>7, <1>10 DEF TypeOK
<1>12. PipelineInv'
  BY <1>1, <1>10 DEF PipelineInv, Working, SendersGone
<1>13. OnceInv'
  BY <1>1, <1>10 DEF OnceInv, Working
<1>14. AheadInv'
  <2>1. \A t : Ahead(t) => Ahead(t)'
    BY <1>9, <1>10 DEF Ahead, Merging
  <2>2. \A i \in Written("table")' : file'[i].of < next'
    BY <1>1, <1>9, <1>10 DEF AheadInv
  <2>3. ~Merging' /\ want' <= next'
    BY <1>1, <1>10 DEF Merging, AheadInv
  <2>4. /\ \A w \in Workers : Working(w)' => Ahead(art[w].table)
        /\ \A i \in (DOMAIN channel)' : Ahead(channel[i].table)
        /\ \A b \in buffer' : Ahead(b.table)
    BY <1>1, <1>10 DEF AheadInv, Working
  <2>5. art' = art /\ channel' = channel
    BY <1>10
  <2> QED
    BY <2>1, <2>2, <2>3, <2>4, <2>5 DEF AheadInv
<1>15. TablesInOrder'
  BY <1>1, <1>9 DEF TablesInOrder
<1> QED
  BY <1>11, <1>12, <1>13, <1>14, <1>15 DEF MergeIInv

-----------------------------------------------------------------------------
(* Every step keeps MergeIInv.                                             *)
LEMMA StepKeeps ==
  ASSUME MergeIInv, [Next]_vars
  PROVE  MergeIInv'
<1>1. CASE RequestStop
  BY <1>1, MainGoesOn
<1>2. ASSUME NEW w \in Workers, Worker(w)
      PROVE  MergeIInv'
  <2>1. CASE TakeTable(w)
    BY <2>1, TakeKeeps
  <2>2. CASE QueueEmpty(w) \/ PassGate(w) \/ StageTable(w)
    BY <2>2, WorkerGoesOn
  <2>3. CASE SendArtifact(w)
    BY <2>3, SendKeeps
  <2> QED
    BY <1>2, <2>1, <2>2, <2>3 DEF Worker
<1>3. CASE Merger
  <2>1. CASE OpenSink \/ SerialEnds \/ Drained \/ ChannelCloses \/ JoinWorkers
    BY <2>1, MainGoesOn
  <2>2. CASE SerialTable
    BY <2>2, SerialKeeps
  <2>3. CASE ReceiveArtifact
    BY <2>3, ReceiveKeeps
  <2>4. CASE DrainNext
    BY <2>4, DrainKeeps
  <2>5. CASE MergeRest
    BY <2>5, RestKeeps, MainGoesOn
  <2>6. CASE WriteTail
    BY <2>6, TailKeeps
  <2> QED
    BY <1>3, <2>1, <2>2, <2>3, <2>4, <2>5, <2>6 DEF Merger
<1>4. CASE SinkFails
  BY <1>4, MainGoesOn
<1>5. CASE UNCHANGED vars
  <2> USE <1>5 DEF vars, workVars, mergeVars, outVars
  <2>1. TypeOK' /\ PipelineInv'
    BY DEF MergeIInv, TypeOK, PipelineInv, Working, SendersGone
  <2>2. OnceInv'
    BY DEF MergeIInv, OnceInv, Working
  <2>3. AheadInv' /\ TablesInOrder'
    BY DEF MergeIInv, AheadInv, Ahead, Merging, Working, Written, TablesInOrder
  <2> QED
    BY <2>1, <2>2, <2>3 DEF MergeIInv
<1> QED
  BY <1>1, <1>2, <1>3, <1>4, <1>5 DEF Next, Finished

(* MergeIInv is inductive.                                                 *)
THEOREM MergeInvariant == Spec => []MergeIInv
<1>1. Init => MergeIInv
  BY InitInv
<1>2. MergeIInv /\ [Next]_vars => MergeIInv'
  BY StepKeeps
<1> QED
  BY <1>1, <1>2, PTL DEF Spec

(* Every variable of the dump keeps its type.                              *)
THEOREM DumpTypeCorrect == Spec => []TypeOK
<1>1. MergeIInv => TypeOK
  BY DEF MergeIInv
<1> QED
  BY <1>1, MergeInvariant, PTL

(* The output holds the tables in the order of the work list, each at most *)
(* once, for any number of tables, shards and workers, however the workers *)
(* of run_parallel_dump overtake each other and wherever a stop cuts in.   *)
THEOREM DumpInOrder == Spec => []TablesInOrder
<1>1. MergeIInv => TablesInOrder
  BY DEF MergeIInv
<1> QED
  BY <1>1, MergeInvariant, PTL

-----------------------------------------------------------------------------
(* No table is forgotten.                                                  *)

(* While nobody has stopped the dump, a table taken from the work list is  *)
(* reported or about to be staged, and who stops taking tables has found   *)
(* the work list empty.                                                    *)
DealtInv ==
  ~stop =>
    /\ \A t \in Tables : t < next =>
         \/ reported[t] # "no"
         \/ \E w \in Workers : pc[w] \in {"gate", "dump"} /\ art[w].table = t
    /\ \A w \in Workers : ~conf.serial /\ pc[w] = "done" => next > NTables
    /\ conf.serial /\ main \in {"tail", "written"} => next > NTables
    /\ result = "ok" => \A t \in Tables : reported[t] # "no"

(* A step that reports nothing, takes nothing and ends nobody.             *)
LEMMA NothingForgotten ==
  ASSUME DealtInv, UNCHANGED <<conf, next, pc, art, reported, result>>, stop' = FALSE => ~stop,
         stop' \in BOOLEAN,
         conf.serial /\ main' \in {"tail", "written"} => main \in {"tail", "written"}
  PROVE  DealtInv'
BY DEF DealtInv

(* A step of a worker: the table it takes is in its hands until it reports *)
(* it, and only a stop makes it drop one.                                  *)
LEMMA WorkerForgetsNone ==
  ASSUME MergeIInv, DealtInv, NEW w \in Workers, Worker(w)
  PROVE  DealtInv'
<1>1. /\ TypeOK /\ PipelineInv
      /\ NTables \in Nat
      /\ next \in 1..(NTables + 1)
      /\ pc \in [Workers -> {"recv", "gate", "dump", "send", "done"}]
      /\ art \in [Workers -> Artifact \cup {NoArtifact}]
      /\ reported \in [Tables -> {"no", "ok", "error"}]
  BY NTablesIsNat DEF MergeIInv, TypeOK
<1>2. /\ UNCHANGED <<conf, stop, main, result>>
      /\ ~conf.serial
  BY <1>1 DEF Worker, TakeTable, QueueEmpty, PassGate, StageTable, SendArtifact, mergeVars,
     PipelineInv, SendersGone
<1> SUFFICES ASSUME ~stop PROVE DealtInv'
  BY <1>2 DEF DealtInv
<1>3. /\ \A t \in Tables : t < next =>
           \/ reported[t] # "no"
           \/ \E v \in Workers : pc[v] \in {"gate", "dump"} /\ art[v].table = t
      /\ \A v \in Workers : pc[v] = "done" => next > NTables
      /\ result = "ok" => \A t \in Tables : reported[t] # "no"
  BY <1>2 DEF DealtInv
<1>4. CASE TakeTable(w)
  <2>1. /\ pc[w] = "recv" /\ pc' = [pc EXCEPT ![w] = "gate"]
        /\ art' = [art EXCEPT ![w] = [NoArtifact EXCEPT !.table = next]]
        /\ next' = next + 1 /\ reported' = reported /\ next <= NTables
    BY <1>4 DEF TakeTable, QueueHasNext
  <2>2. pc'[w] = "gate" /\ art'[w].table = next
    BY <1>1, <2>1 DEF NoArtifact
  <2>3. \A v \in Workers : v # w => pc'[v] = pc[v] /\ art'[v] = art[v]
    BY <1>1, <2>1
  <2>4. ASSUME NEW t \in Tables, t < next'
        PROVE  \/ reported'[t] # "no"
               \/ \E v \in Workers : pc'[v] \in {"gate", "dump"} /\ art'[v].table = t
    <3>1. CASE t = next
      BY <2>2, <3>1
    <3>2. CASE t # next
      <4>1. t < next
        BY <1>1, <2>1, <2>4, <3>2 DEF Tables
      <4> QED
        BY <1>3, <2>1, <2>3, <4>1
    <3> QED
      BY <3>1, <3>2
  <2>5. \A v \in Workers : pc'[v] # "done"
    BY <1>1, <1>3, <2>1, <2>2, <2>3
  <2> QED
    BY <1>2, <1>3, <2>1, <2>4, <2>5 DEF DealtInv
<1>5. CASE QueueEmpty(w)
  <2>1. /\ pc[w] = "recv" /\ pc' = [pc EXCEPT ![w] = "done"]
        /\ UNCHANGED <<art, next, reported>> /\ next > NTables
    BY <1>1, <1>5 DEF QueueEmpty, QueueHasNext
  <2>2. \A v \in Workers : pc[v] \in {"gate", "dump"} => pc'[v] = pc[v]
    BY <1>1, <2>1
  <2> QED
    BY <1>2, <1>3, <2>1, <2>2 DEF DealtInv
<1>6. CASE PassGate(w)
  <2>1. /\ pc[w] = "gate" /\ pc' = [pc EXCEPT ![w] = "dump"]
        /\ UNCHANGED <<art, next, reported>>
    BY <1>6 DEF PassGate
  <2>2. \A v \in Workers : /\ pc[v] \in {"gate", "dump"} => pc'[v] \in {"gate", "dump"}
                           /\ pc'[v] = "done" => pc[v] = "done"
    BY <1>1, <2>1
  <2> QED
    BY <1>2, <1>3, <2>1, <2>2 DEF DealtInv
<1>7. CASE StageTable(w)
  <2>1. PICK a \in Staged(art[w].table) :
          /\ art' = [art EXCEPT ![w] = a]
          /\ reported' = [reported EXCEPT ![a.table] = IF a.error THEN "error" ELSE "ok"]
    BY <1>7 DEF StageTable
  <2>2. pc[w] = "dump" /\ pc' = [pc EXCEPT ![w] = "send"] /\ next' = next
    BY <1>7 DEF StageTable
  <2>3. art[w].table \in Tables /\ conf \in Confs
    BY <1>1, <2>2 DEF PipelineInv, Working, Artifact, TypeOK
  <2>4. a.table = art[w].table
    BY <2>3, StagedIsArtifact
  <2>5. /\ reported'[art[w].table] # "no"
        /\ \A t \in Tables : t # art[w].table => reported'[t] = reported[t]
    BY <1>1, <2>1, <2>3, <2>4
  <2>6. \A v \in Workers : v # w => pc'[v] = pc[v] /\ art'[v] = art[v]
    BY <1>1, <2>1, <2>2
  <2>7. pc'[w] # "done"
    BY <1>1, <2>2
  <2> QED
    BY <1>2, <1>3, <2>2, <2>5, <2>6, <2>7 DEF DealtInv
<1>8. CASE SendArtifact(w)
  <2>1. /\ pc[w] = "send" /\ pc' = [pc EXCEPT ![w] = "recv"]
        /\ UNCHANGED <<art, next, reported>>
    BY <1>8 DEF SendArtifact
  <2>2. \A v \in Workers : /\ pc[v] \in {"gate", "dump"} => pc'[v] = pc[v]
                           /\ pc'[v] = "done" => pc[v] = "done"
    BY <1>1, <2>1
  <2> QED
    BY <1>2, <1>3, <2>1, <2>2 DEF DealtInv
<1> QED
  BY <1>4, <1>5, <1>6, <1>7, <1>8 DEF Worker

(* The serial loop reports the table it writes.                            *)
LEMMA SerialForgetsNone ==
  ASSUME MergeIInv, DealtInv, SerialTable
  PROVE  DealtInv'
<1>1. /\ TypeOK /\ PipelineInv
      /\ next \in 1..NTables /\ NTables \in Nat
      /\ reported \in [Tables -> {"no", "ok", "error"}]
      /\ main = "table" /\ conf.serial
  BY NTablesIsNat DEF MergeIInv, TypeOK, SerialTable, PipelineInv
<1>2. /\ next' = next + 1
      /\ \E e \in {"ok", "error"} : reported' = [reported EXCEPT ![next] = e]
      /\ UNCHANGED <<conf, stop, pc, art, main, result>>
  BY DEF SerialTable, mergeVars
<1>3. /\ next \in Tables
      /\ reported'[next] # "no"
      /\ \A t \in Tables : t # next => reported'[t] = reported[t]
  BY <1>1, <1>2 DEF Tables
<1>4. ASSUME NEW t \in Tables, t < next', t # next
      PROVE  t < next
  BY <1>1, <1>2, <1>4 DEF Tables
<1> QED
  BY <1>1, <1>2, <1>3, <1>4 DEF DealtInv

(* run_dump returns when its workers are gone, and they are gone because   *)
(* the work list is empty.                                                 *)
LEMMA JoinForgetsNone ==
  ASSUME MergeIInv, DealtInv, JoinWorkers
  PROVE  DealtInv'
<1>1. /\ SendersGone /\ main' = "returned"
      /\ UNCHANGED <<conf, stop, next, pc, art, reported>>
      /\ result' = "ok" => main = "written"
  BY DEF JoinWorkers, workVars
<1>2. PICK w \in Workers : TRUE
  BY WorkersExist
<1>3. conf.serial \in BOOLEAN
  BY DEF MergeIInv, TypeOK, Confs
<1>4. ~stop /\ result' = "ok" => next > NTables
  BY <1>1, <1>2, <1>3 DEF DealtInv, SendersGone
<1>5. next \in 1..(NTables + 1) /\ NTables \in Nat
  BY NTablesIsNat DEF MergeIInv, TypeOK
<1>6. next > NTables => \A t \in Tables : t < next
  BY <1>5 DEF Tables
<1>7. \A v \in Workers : pc[v] \notin {"gate", "dump"}
  BY <1>1 DEF SendersGone
<1>8. ~stop /\ result' = "ok" => \A t \in Tables : reported'[t] # "no"
  BY <1>1, <1>4, <1>6, <1>7 DEF DealtInv
<1> QED
  BY <1>1, <1>8 DEF DealtInv

(* DealtInv is inductive, given MergeIInv.                                 *)
LEMMA NoneForgotten ==
  ASSUME MergeIInv, DealtInv, [Next]_vars
  PROVE  DealtInv'
<1> USE DEF workVars, mergeVars
<1>0. TypeOK /\ PipelineInv
  BY DEF MergeIInv
<1>1. CASE RequestStop
  BY <1>1 DEF RequestStop, DealtInv
<1>2. CASE SerialEnds
  <2>1. ~stop => next > NTables
    BY <1>2 DEF SerialEnds
  <2> QED
    BY <1>2, <2>1 DEF SerialEnds, DealtInv
<1>3. CASE OpenSink \/ ReceiveArtifact \/ DrainNext \/ Drained \/ ChannelCloses
           \/ MergeRest \/ WriteTail
  <2>1. UNCHANGED <<conf, stop, next, pc, art, reported, result>>
    BY <1>3 DEF OpenSink, ReceiveArtifact, DrainNext, Drained, ChannelCloses, MergeRest, WriteTail
  <2>2. conf.serial /\ main' \in {"tail", "written"} => main \in {"tail", "written"}
    BY <1>0, <1>3 DEF OpenSink, ReceiveArtifact, DrainNext, Drained, ChannelCloses, MergeRest,
       WriteTail, PipelineInv
  <2>3. stop' \in BOOLEAN
    BY <1>0, <2>1 DEF TypeOK
  <2> QED
    BY <2>1, <2>2, <2>3, NothingForgotten
<1>4. CASE SinkFails
  BY <1>4 DEF SinkFails, DealtInv
<1>5. CASE UNCHANGED vars
  BY <1>5 DEF vars, DealtInv
<1> QED
  BY <1>1, <1>2, <1>3, <1>4, <1>5, WorkerForgetsNone, SerialForgetsNone, JoinForgetsNone
  DEF Next, Merger, Finished

(* A dump that nobody stopped and that returns Ok has reported every table *)
(* of its work list.                                                       *)
THEOREM DumpComplete == Spec => []CompleteUnlessStopped
<1>1. Init => DealtInv
  <2> SUFFICES ASSUME Init PROVE DealtInv
    OBVIOUS
  <2>1. next = 1 /\ result = "none" /\ main = "open"
    BY DEF Init
  <2>2. \A t \in Tables : ~(t < next)
    BY <2>1, NTablesIsNat DEF Tables
  <2>3. \A w \in Workers : ~conf.serial => pc[w] = "recv"
    BY DEF Init
  <2> QED
    BY <2>1, <2>2, <2>3 DEF DealtInv
<1>2. MergeIInv /\ DealtInv /\ [Next]_vars => DealtInv'
  BY NoneForgotten
<1>3. DealtInv => CompleteUnlessStopped
  BY DEF DealtInv, CompleteUnlessStopped
<1> QED
  BY <1>1, <1>2, <1>3, MergeInvariant, PTL DEF Spec

-----------------------------------------------------------------------------
(* No index is forgotten.                                                  *)

(* A CREATE without the indexes comes with a note that they are to follow. *)
Owes(a) == a.create /\ Strips(a.table) => a.deferred

Failed(t) == conf.serial /\ reported[t] = "error"
Noted(t) == \E k \in DOMAIN deferred : deferred[k] = t

Followed ==
  \A i \in Written("create") : Strips(file[i].of) =>
    \/ Failed(file[i].of)
    \/ \E j \in Written("index") : /\ file[j].of = file[i].of
                                   /\ \A k \in Written("data") : k < j

(* The note goes with the artifact through channel and buffer into the     *)
(* list that write_deferred_indexes reads.                                 *)
WayInv ==
  /\ \A w \in Workers : pc[w] = "send" => Owes(art[w])
  /\ \A i \in DOMAIN channel : Owes(channel[i])
  /\ \A b \in buffer : Owes(b)
NotedInv ==
  \A i \in Written("create") :
    /\ conf.serial => file[i].of < next
    /\ Strips(file[i].of) => Failed(file[i].of) \/ Noted(file[i].of)
IndexInv ==
  /\ WayInv
  /\ NotedInv
  /\ result = "ok" => main = "returned"
  /\ main = "written" \/ result = "ok" => Followed

(* dump_table_to_temp hands over the indexes it left out, whatever fails.  *)
LEMMA StagedOwes ==
  ASSUME NEW t \in Tables, conf \in Confs, NEW a \in Staged(t)
  PROVE  Owes(a)
<1>1. CASE a \in NoDdl(t)
  BY <1>1 DEF NoDdl, Art, Owes
<1>2. CASE a \in NoCount(t)
  BY <1>2 DEF NoCount, Art, Owes
<1>3. CASE \E ended \in SUBSET DataOf(t) : a \in ShardsEnd(t, ended)
  <2>1. PICK ended \in SUBSET DataOf(t) : a \in ShardsEnd(t, ended)
    BY <1>3
  <2>2. PICK full \in SUBSET ended :
          a = Art(t, conf.content # "data", (IF Shards[t] = 1 THEN full ELSE ended) # {},
                  Cardinality(full), Strips(t), ended # DataOf(t))
    BY <2>1, Zenon DEF ShardsEnd
  <2> QED
    BY <2>2 DEF Art, Owes
<1>4. \E S \in {IF conf.content = "data" THEN {} ELSE NoDdl(t),
                IF conf.content = "structure" THEN {} ELSE NoCount(t),
                UNION {ShardsEnd(t, ended) : ended \in SUBSET DataOf(t)}} : a \in S
  BY Zenon DEF Staged
<1>5. \/ a \in NoDdl(t)
      \/ a \in NoCount(t)
      \/ a \in UNION {ShardsEnd(t, ended) : ended \in SUBSET DataOf(t)}
  BY <1>4
<1>6. CASE a \in UNION {ShardsEnd(t, ended) : ended \in SUBSET DataOf(t)}
  BY <1>3, <1>6, Zenon
<1> QED
  BY <1>1, <1>2, <1>5, <1>6

(* dump_table_direct hands them over unless it fails.                      *)
LEMMA DirectOwes ==
  ASSUME NEW t \in Tables, conf \in Confs, NEW a \in Direct(t)
  PROVE  a.error \/ Owes(a)
<1> DEFINE create == conf.content # "data"
           data == DataOf(t) # {}
<1>1. CASE \E c \in {FALSE, conf.content = "both"} : a = Art(t, c, FALSE, 0, FALSE, TRUE)
  BY <1>1 DEF Art
<1>2. CASE \E r \in {0, 1} : a = Art(t, create, data, r, Strips(t), FALSE)
  BY <1>2 DEF Art, Owes
<1>3. CASE \E r \in {0, 1} : a = Art(t, create, TRUE, r, FALSE, TRUE)
  BY <1>3 DEF Art
<1>4. \/ \E c \in {FALSE, conf.content = "both"} : a = Art(t, c, FALSE, 0, FALSE, TRUE)
      \/ \E r \in {0, 1} : a = Art(t, create, data, r, Strips(t), FALSE)
      \/ \E r \in {0, 1} : a = Art(t, create, TRUE, r, FALSE, TRUE)
  BY Zenon DEF Direct
<1> QED
  BY <1>1, <1>2, <1>3, <1>4

(* The CREATEs after an artifact: those before, and its own if it has one. *)
LEMMA OneCreateMore ==
  ASSUME file \in Seq(Units), NEW a \in Artifact, file' = file \o UnitsOf(a)
  PROVE  \A i \in Written("create")' :
           \/ i \in Written("create") /\ file'[i] = file[i]
           \/ a.create /\ file'[i].of = a.table
<1> DEFINE U == UnitsOf(a)
<1>1. /\ U \in Seq(Units)
      /\ \A i \in DOMAIN U : U[i].what = "create" => a.create /\ U[i].of = a.table
  BY UnitsBegin
<1> HIDE DEF U
<1>2. file' = file \o U
  BY DEF U
<1>3. /\ file' \in Seq(Units)
      /\ Len(file') = Len(file) + Len(U)
      /\ \A i \in 1..(Len(file) + Len(U)) :
           file'[i] = IF i <= Len(file) THEN file[i] ELSE U[i - Len(file)]
  BY <1>1, <1>2, ConcatProperties
<1>4. DOMAIN file = 1..Len(file) /\ DOMAIN U = 1..Len(U) /\ Len(file) \in Nat /\ Len(U) \in Nat
  BY <1>1
<1> SUFFICES ASSUME NEW i \in Written("create")'
             PROVE  \/ i \in Written("create") /\ file'[i] = file[i]
                    \/ a.create /\ file'[i].of = a.table
  OBVIOUS
<1>5. i \in 1..(Len(file) + Len(U)) /\ file'[i].what = "create"
  BY <1>3 DEF Written
<1>6. CASE i <= Len(file)
  BY <1>3, <1>4, <1>5, <1>6 DEF Written
<1>7. CASE ~(i <= Len(file))
  <2> DEFINE k == i - Len(file)
  <2>1. k \in DOMAIN U
    BY <1>4, <1>5, <1>7
  <2>2. file'[i] = U[k]
    BY <1>3, <1>5, <1>7
  <2> HIDE DEF k
  <2> QED
    BY <1>1, <1>5, <2>1, <2>2, Zenon
<1> QED
  BY <1>6, <1>7

(* The list of indexes to come after an artifact.                          *)
LEMMA OneNoteMore ==
  ASSUME deferred \in Seq(Tables), NEW t \in Tables, NEW b,
         deferred' = deferred \o When(b, <<t>>)
  PROVE  (\A u : Noted(u) => Noted(u)') /\ (b => Noted(t)')
<1>1. CASE b
  <2> DEFINE N == <<t>>
  <2>1. deferred' = deferred \o N
    BY <1>1 DEF When
  <2>2. N \in Seq(Tables) /\ Len(N) = 1 /\ N[1] = t
    OBVIOUS
  <2> HIDE DEF N
  <2>3. /\ deferred' \in Seq(Tables) /\ Len(deferred') = Len(deferred) + 1
        /\ \A i \in 1..(Len(deferred) + 1) :
             deferred'[i] = IF i <= Len(deferred) THEN deferred[i] ELSE N[i - Len(deferred)]
    <3>1. /\ deferred \o N \in Seq(Tables)
          /\ Len(deferred \o N) = Len(deferred) + Len(N)
          /\ \A i \in 1..(Len(deferred) + Len(N)) :
               (deferred \o N)[i] = IF i <= Len(deferred) THEN deferred[i]
                                                         ELSE N[i - Len(deferred)]
      BY <2>2, ConcatProperties
    <3> QED
      BY <2>1, <2>2, <3>1
  <2>4. Len(deferred) \in Nat /\ DOMAIN deferred = 1..Len(deferred)
        /\ DOMAIN deferred' = 1..(Len(deferred) + 1)
    BY <2>3
  <2>5. deferred'[Len(deferred) + 1] = t
    <3>1. (Len(deferred) + 1) - Len(deferred) = 1
      BY <2>4
    <3> QED
      BY <2>2, <2>3, <2>4, <3>1
  <2>6. \A i \in 1..Len(deferred) : deferred'[i] = deferred[i]
    BY <2>3, <2>4
  <2> QED
    BY <2>4, <2>5, <2>6 DEF Noted
<1>2. CASE ~b
  <2>1. deferred' = deferred
    BY <1>2 DEF When
  <2> QED
    BY <1>2, <2>1 DEF Noted
<1> QED
  BY <1>1, <1>2

(* One index statement for each note.                                      *)
LEMMA IndexesUnits ==
  ASSUME deferred \in Seq(Tables)
  PROVE  /\ Indexes \in Seq(Units) /\ Len(Indexes) = Len(deferred)
         /\ \A k \in 1..Len(deferred) : Indexes[k] = Unit("index", deferred[k], 0)
<1>1. Len(deferred) \in Nat /\ DOMAIN deferred = 1..Len(deferred)
  OBVIOUS
<1>2. \A i \in 1..Len(deferred) : Unit("index", deferred[i], 0) \in Units
  BY DEF Unit, Units
<1>3. Indexes = [i \in 1..Len(deferred) |-> Unit("index", deferred[i], 0)]
  BY <1>1 DEF Indexes
<1>4. Indexes \in [1..Len(deferred) -> Units]
  BY <1>2, <1>3
<1>5. Indexes \in Seq(Units) /\ Len(Indexes) = Len(deferred)
  BY <1>1, <1>3, <1>4
<1>6. \A k \in 1..Len(deferred) : Indexes[k] = Unit("index", deferred[k], 0)
  BY <1>3
<1> QED
  BY <1>5, <1>6

(* What write_deferred_indexes and the footer add to the output.           *)
LEMMA TailUnits ==
  ASSUME file \in Seq(Units), deferred \in Seq(Tables),
         file' = (file \o Indexes) \o <<Unit("footer", 0, 0)>>
  PROVE  /\ Len(file) \in Nat /\ DOMAIN file = 1..Len(file) /\ DOMAIN deferred = 1..Len(deferred)
         /\ DOMAIN file' = 1..(Len(file) + Len(deferred) + 1)
         /\ \A i \in 1..Len(file) : file'[i] = file[i]
         /\ \A k \in 1..Len(deferred) :
              file'[Len(file) + k] = Unit("index", deferred[k], 0)
         /\ file'[Len(file) + Len(deferred) + 1].what = "footer"
<1> DEFINE F == <<Unit("footer", 0, 0)>>
           G == file \o Indexes
<1>1. /\ Indexes \in Seq(Units) /\ Len(Indexes) = Len(deferred)
      /\ \A k \in 1..Len(deferred) : Indexes[k] = Unit("index", deferred[k], 0)
  BY IndexesUnits
<1>2. F \in Seq(Units) /\ Len(F) = 1 /\ F[1].what = "footer"
  BY DEF Unit, Units
<1>3. file' = G \o F
  OBVIOUS
<1> HIDE DEF F, G
<1>4. /\ G \in Seq(Units)
      /\ Len(G) = Len(file) + Len(deferred)
      /\ \A i \in 1..(Len(file) + Len(deferred)) :
           G[i] = IF i <= Len(file) THEN file[i] ELSE Indexes[i - Len(file)]
  <2>1. /\ file \o Indexes \in Seq(Units)
        /\ Len(file \o Indexes) = Len(file) + Len(Indexes)
        /\ \A i \in 1..(Len(file) + Len(Indexes)) :
             (file \o Indexes)[i] = IF i <= Len(file) THEN file[i] ELSE Indexes[i - Len(file)]
    BY <1>1, ConcatProperties
  <2> QED
    BY <1>1, <2>1 DEF G
<1>5. /\ file' \in Seq(Units)
      /\ Len(file') = Len(G) + 1
      /\ \A i \in 1..(Len(G) + 1) :
           file'[i] = IF i <= Len(G) THEN G[i] ELSE F[i - Len(G)]
  <2>1. G \in Seq(Units) /\ F \in Seq(Units)
    BY <1>2, <1>4
  <2>2. /\ G \o F \in Seq(Units)
        /\ Len(G \o F) = Len(G) + Len(F)
        /\ \A i \in 1..(Len(G) + Len(F)) :
             (G \o F)[i] = IF i <= Len(G) THEN G[i] ELSE F[i - Len(G)]
    BY <2>1, ConcatProperties
  <2> QED
    BY <1>2, <1>3, <2>2
<1>6. Len(file) \in Nat /\ Len(deferred) \in Nat /\ Len(G) \in Nat
      /\ DOMAIN file = 1..Len(file) /\ DOMAIN deferred = 1..Len(deferred)
      /\ DOMAIN file' = 1..Len(file')
  BY <1>4, <1>5
<1>7. ASSUME NEW i \in 1..Len(file) PROVE file'[i] = file[i]
  BY <1>4, <1>5, <1>6
<1>8. ASSUME NEW k \in 1..Len(deferred)
      PROVE  file'[Len(file) + k] = Unit("index", deferred[k], 0)
  <2> DEFINE i == Len(file) + k
  <2>1. /\ i \in 1..(Len(G) + 1) /\ i <= Len(G)
        /\ i \in 1..(Len(file) + Len(deferred)) /\ ~(i <= Len(file))
        /\ i - Len(file) = k
    BY <1>4, <1>6
  <2> HIDE DEF i
  <2>2. file'[i] = G[i]
    BY <1>5, <2>1, Zenon
  <2>3. G[i] = Indexes[i - Len(file)]
    BY <1>4, <2>1, Zenon
  <2>4. G[i] = Indexes[k]
    BY <2>1, <2>3, Zenon
  <2> QED
    BY <1>1, <2>2, <2>4, Zenon DEF i
<1>9. file'[Len(file) + Len(deferred) + 1].what = "footer"
  <2> DEFINE i == Len(G) + 1
  <2>1. i \in 1..(Len(G) + 1) /\ ~(i <= Len(G)) /\ i - Len(G) = 1
    BY <1>6
  <2> HIDE DEF i
  <2>2. file'[i] = F[1]
    BY <1>5, <2>1
  <2>3. i = Len(file) + Len(deferred) + 1
    BY <1>4 DEF i
  <2> QED
    BY <1>2, <2>2, <2>3
<1> QED
  BY <1>4, <1>5, <1>6, <1>7, <1>8, <1>9

(* The index statements come after every row, one for each note.           *)
LEMMA TailFollows ==
  ASSUME MergeIInv, NotedInv, WriteTail
  PROVE  NotedInv' /\ Followed'
<1>1. /\ file \in Seq(Units) /\ deferred \in Seq(Tables)
      /\ file' = (file \o Indexes) \o <<Unit("footer", 0, 0)>>
      /\ UNCHANGED <<conf, next, deferred, reported>>
  BY DEF MergeIInv, TypeOK, WriteTail, workVars
<1>2. /\ Len(file) \in Nat /\ DOMAIN file = 1..Len(file) /\ DOMAIN deferred = 1..Len(deferred)
      /\ Len(deferred) \in Nat
      /\ DOMAIN file' = 1..(Len(file) + Len(deferred) + 1)
      /\ \A i \in 1..Len(file) : file'[i] = file[i]
      /\ \A k \in 1..Len(deferred) :
           file'[Len(file) + k] = Unit("index", deferred[k], 0)
      /\ file'[Len(file) + Len(deferred) + 1].what = "footer"
  <2>1. Len(deferred) \in Nat
    BY <1>1
  <2> QED
    BY <1>1, <2>1, TailUnits
<1>3. ASSUME NEW i \in DOMAIN file', file'[i].what \in {"create", "data"}
      PROVE  i \in 1..Len(file) /\ file'[i] = file[i]
  <2>1. CASE i <= Len(file)
    BY <1>2, <2>1
  <2>2. CASE i = Len(file) + Len(deferred) + 1
    BY <1>2, <1>3, <2>2
  <2>3. CASE ~(i <= Len(file)) /\ i # Len(file) + Len(deferred) + 1
    <3> DEFINE k == i - Len(file)
    <3>0. \A m, n \in Nat : \A x \in 1..(m + n + 1) :
            ~(x <= m) /\ x # m + n + 1 => x - m \in 1..n /\ x = m + (x - m)
      OBVIOUS
    <3>1. k \in 1..Len(deferred) /\ i = Len(file) + k
      <4>1. i \in 1..(Len(file) + Len(deferred) + 1)
        BY <1>2
      <4> QED
        BY <1>2, <2>3, <3>0, <4>1, Zenon
    <3> HIDE DEF k
    <3>2. file'[i] = Unit("index", deferred[k], 0)
      BY <1>2, <3>1
    <3> QED
      BY <1>3, <3>2 DEF Unit
  <2> QED
    BY <2>1, <2>2, <2>3
<1>4. /\ \A i \in Written("create")' : i \in Written("create") /\ file'[i] = file[i]
      /\ \A k \in Written("data")' : k \in 1..Len(file)
  BY <1>2, <1>3 DEF Written
<1>5. \A t : Strips(t)' = Strips(t) /\ Failed(t)' = Failed(t) /\ Noted(t)' = Noted(t)
  BY <1>1 DEF Strips, Failed, Noted
<1>6. NotedInv'
  BY <1>1, <1>4, <1>5 DEF NotedInv
<1>7. ASSUME NEW t, Noted(t)
      PROVE  \E j \in Written("index")' : /\ file'[j].of = t
                                          /\ \A k \in Written("data")' : k < j
  <2>1. PICK k \in 1..Len(deferred) : deferred[k] = t
    BY <1>2, <1>7 DEF Noted
  <2> DEFINE j == Len(file) + k
  <2>2. file'[j].what = "index" /\ file'[j].of = t
    <3>1. file'[j] = Unit("index", deferred[k], 0)
      BY <1>2
    <3> HIDE DEF j
    <3> QED
      BY <2>1, <3>1 DEF Unit
  <2>3. j \in DOMAIN file' /\ \A i \in 1..Len(file) : i < j
    BY <1>2
  <2> QED
    BY <1>4, <2>2, <2>3 DEF Written
<1>8. Followed'
  <2> SUFFICES ASSUME NEW i \in Written("create")', Strips(file[i].of)'
               PROVE  \/ Failed(file[i].of)'
                      \/ \E j \in Written("index")' : /\ (file[j].of = file[i].of)'
                                                      /\ \A k \in Written("data")' : k < j
    BY DEF Followed
  <2>1. i \in Written("create") /\ file'[i] = file[i] /\ Strips(file[i].of)
    BY <1>4, <1>5
  <2>2. Failed(file[i].of) \/ Noted(file[i].of)
    BY <2>1 DEF NotedInv
  <2> QED
    BY <1>5, <1>7, <2>1, <2>2
<1> QED
  BY <1>6, <1>8

(* What NotedInv says of the output after one more artifact: it brings its *)
(* note along, or it is one of the failures of a serial dump.              *)
LEMMA ArtifactNoted ==
  ASSUME TypeOK, NotedInv, NEW a \in Artifact,
         file' = file \o UnitsOf(a), deferred' = deferred \o When(a.deferred, <<a.table>>),
         conf' = conf, Owes(a) \/ Failed(a.table)',
         \A t : t < next /\ Failed(t) => Failed(t)',
         conf.serial => next' = next + 1 /\ a.table < next'
  PROVE  NotedInv'
<1>1. /\ file \in Seq(Units) /\ deferred \in Seq(Tables) /\ next \in 1..(NTables + 1)
      /\ NTables \in Nat
      /\ a.table \in Tables
  BY NTablesIsNat DEF TypeOK, Artifact
<1>2. (\A u : Noted(u) => Noted(u)') /\ (a.deferred => Noted(a.table)')
  BY <1>1, OneNoteMore
<1>3. \A i \in Written("create")' :
        \/ i \in Written("create") /\ file'[i] = file[i]
        \/ a.create /\ file'[i].of = a.table
  BY <1>1, OneCreateMore
<1>4. \A t : Strips(t)' = Strips(t)
  BY DEF Strips
<1> SUFFICES ASSUME NEW i \in Written("create")'
             PROVE  /\ conf.serial => file'[i].of < next'
                    /\ Strips(file[i].of)' => Failed(file[i].of)' \/ Noted(file[i].of)'
  BY DEF NotedInv
<1>5. CASE i \in Written("create") /\ file'[i] = file[i]
  <2>1. file[i] \in Units
    BY <1>1, <1>5 DEF Written
  <2>2. file[i].of \in Int
    BY <1>1, <2>1 DEF Units, Tables
  <2>3. /\ conf.serial => file[i].of < next
        /\ Strips(file[i].of) => Failed(file[i].of) \/ Noted(file[i].of)
    BY <1>5 DEF NotedInv
  <2>4. conf.serial => file'[i].of < next'
    BY <1>1, <1>5, <2>2, <2>3
  <2>5. Failed(file[i].of) => Failed(file[i].of)'
    <3> DEFINE u == file[i].of
    <3>1. Failed(u) => u < next
      BY <2>3 DEF Failed
    <3> HIDE DEF u
    <3>2. \A t : Failed(t) /\ t < next => (conf.serial /\ reported[t] = "error")'
      BY DEF Failed
    <3>3. Failed(u) => conf'.serial /\ reported'[u] = "error"
      BY <3>1, <3>2
    <3> QED
      BY <1>5, <3>3 DEF u, Failed
  <2>6. Noted(file[i].of) => Noted(file[i].of)'
    BY <1>2, <1>5 DEF Noted
  <2>7. Strips(file[i].of)' => Strips(file[i].of)
    BY <1>5 DEF Strips
  <2> QED
    BY <2>3, <2>4, <2>5, <2>6, <2>7
<1>6. CASE a.create /\ file'[i].of = a.table
  <2>1. Failed(a.table)' => Failed(file[i].of)'
    BY <1>6 DEF Failed
  <2>2. Noted(a.table)' => Noted(file[i].of)'
    BY <1>6 DEF Noted
  <2>3. Strips(file[i].of)' => Strips(a.table)
    BY <1>6 DEF Strips
  <2>4. conf.serial => file'[i].of < next'
    BY <1>6
  <2> QED
    BY <1>2, <1>6, <2>1, <2>2, <2>3, <2>4 DEF Owes
<1> QED
  BY <1>3, <1>5, <1>6

(* What is written stays as it is noted while the output does not change.  *)
LEMMA StillNoted ==
  ASSUME UNCHANGED <<conf, file, deferred>>, ~conf.serial \/ UNCHANGED <<next, reported>>
  PROVE  /\ NotedInv => NotedInv'
         /\ Followed => Followed'
         /\ \A a : Owes(a)' = Owes(a)
<1>1. \A t : Strips(t)' = Strips(t) /\ Noted(t)' = Noted(t) /\ Failed(t)' = Failed(t)
  BY DEF Strips, Noted, Failed
<1>2. \A what : Written(what)' = Written(what)
  BY DEF Written
<1>3. NotedInv => NotedInv'
  <2> SUFFICES ASSUME NotedInv, NEW i \in Written("create")'
               PROVE  /\ conf'.serial => file'[i].of < next'
                      /\ Strips(file[i].of)' => Failed(file[i].of)' \/ Noted(file[i].of)'
    BY DEF NotedInv
  <2>1. i \in Written("create")
    BY <1>2
  <2>2. /\ conf.serial => file[i].of < next
        /\ Strips(file[i].of) => Failed(file[i].of) \/ Noted(file[i].of)
    BY <2>1 DEF NotedInv
  <2> QED
    BY <2>2 DEF Strips, Noted, Failed
<1>4. Followed => Followed'
  <2> SUFFICES ASSUME Followed, NEW i \in Written("create")', Strips(file[i].of)'
               PROVE  \/ Failed(file[i].of)'
                      \/ \E j \in Written("index")' : /\ (file[j].of = file[i].of)'
                                                      /\ \A k \in Written("data")' : k < j
    BY DEF Followed
  <2>1. i \in Written("create") /\ Strips(file[i].of)
    BY <1>2 DEF Strips
  <2>2. \/ Failed(file[i].of)
        \/ \E j \in Written("index") : /\ file[j].of = file[i].of
                                       /\ \A k \in Written("data") : k < j
    BY <2>1 DEF Followed
  <2>3. Failed(file[i].of) => Failed(file[i].of)'
    BY DEF Failed
  <2> QED
    BY <1>2, <2>2, <2>3
<1> QED
  BY <1>1, <1>3, <1>4 DEF Owes

(* A worker's step: the note stays with the artifact.                      *)
LEMMA WorkerNotes ==
  ASSUME MergeIInv, IndexInv, NEW w \in Workers, Worker(w)
  PROVE  IndexInv'
<1>1. /\ TypeOK /\ PipelineInv /\ conf \in Confs
      /\ pc \in [Workers -> {"recv", "gate", "dump", "send", "done"}]
      /\ art \in [Workers -> Artifact \cup {NoArtifact}]
      /\ channel \in Seq(Artifact)
  BY DEF MergeIInv, TypeOK
<1>2. /\ UNCHANGED <<conf, stop, main, buffer, file, deferred, result>>
      /\ ~conf.serial
  BY <1>1 DEF Worker, TakeTable, QueueEmpty, PassGate, StageTable, SendArtifact, mergeVars,
     outVars, PipelineInv, SendersGone
<1>3. /\ NotedInv' /\ (Followed => Followed')
      /\ \A a : Owes(a)' = Owes(a)
  BY <1>2, StillNoted DEF IndexInv
<1>4. /\ \A v \in Workers : pc[v] = "send" => Owes(art[v])
      /\ \A i \in DOMAIN channel : Owes(channel[i])
      /\ \A b \in buffer : Owes(b)
  BY DEF IndexInv, WayInv
<1>5. \A v \in Workers : pc'[v] = "send" => Owes(art'[v])
  <2>1. ASSUME NEW v \in Workers, v # w
        PROVE  pc'[v] = pc[v] /\ art'[v] = art[v]
    BY <1>1, <2>1 DEF Worker, TakeTable, QueueEmpty, PassGate, StageTable, SendArtifact
  <2>2. CASE StageTable(w)
    <3>1. PICK a \in Staged(art[w].table) : art' = [art EXCEPT ![w] = a]
      BY <2>2 DEF StageTable
    <3>2. art[w].table \in Tables
      BY <1>1, <2>2 DEF StageTable, PipelineInv, Working, Artifact
    <3>3. Owes(a) /\ art'[w] = a
      BY <1>1, <3>1, <3>2, StagedOwes
    <3> QED
      BY <1>4, <2>1, <3>3
  <2>3. CASE ~StageTable(w)
    <3>1. pc'[w] # "send"
      BY <1>1, <2>3 DEF Worker, TakeTable, QueueEmpty, PassGate, SendArtifact
    <3> QED
      BY <1>4, <2>1, <3>1
  <2> QED
    BY <2>2, <2>3
<1>6. \A i \in DOMAIN channel' : Owes(channel'[i])
  <2>1. CASE SendArtifact(w)
    <3>1. channel' = Append(channel, art[w]) /\ pc[w] = "send"
      BY <2>1 DEF SendArtifact
    <3>2. Owes(art[w]) /\ art[w] \in Artifact
      BY <1>1, <1>4, <3>1 DEF PipelineInv, Working
    <3>3. /\ DOMAIN channel' = 1..(Len(channel) + 1)
          /\ DOMAIN channel = 1..Len(channel) /\ Len(channel) \in Nat
          /\ \A i \in 1..Len(channel) : channel'[i] = channel[i]
          /\ channel'[Len(channel) + 1] = art[w]
      BY <1>1, <3>1, <3>2
    <3>4. \A i \in 1..(Len(channel) + 1) : i \in 1..Len(channel) \/ i = Len(channel) + 1
      BY <3>3
    <3> QED
      BY <1>4, <3>2, <3>3, <3>4
  <2>2. CASE ~SendArtifact(w)
    <3>1. channel' = channel
      BY <2>2 DEF Worker, TakeTable, QueueEmpty, PassGate, StageTable
    <3> QED
      BY <1>4, <3>1
  <2> QED
    BY <2>1, <2>2
<1>7. WayInv'
  <2>1. \A v \in Workers : pc'[v] = "send" => Owes(art[v])'
    BY <1>2, <1>5 DEF Owes, Strips
  <2>2. \A i \in DOMAIN channel' : Owes(channel[i])'
    BY <1>2, <1>6 DEF Owes, Strips
  <2>3. \A b \in buffer' : Owes(b)'
    BY <1>2, <1>3, <1>4
  <2> QED
    BY <2>1, <2>2, <2>3 DEF WayInv
<1> QED
  BY <1>2, <1>3, <1>7 DEF IndexInv

(* An artifact goes into the output, and its note into the list.           *)
LEMMA MergeNotes ==
  ASSUME MergeIInv, IndexInv, NEW a \in buffer, Merge(a), main \in {"drain", "rest"},
         UNCHANGED <<conf, main, next, pc, art, channel, reported, result>>
  PROVE  IndexInv'
<1>1. /\ TypeOK /\ ~conf.serial /\ a \in Artifact /\ Owes(a)
      /\ file' = file \o UnitsOf(a)
      /\ deferred' = deferred \o When(a.deferred, <<a.table>>)
      /\ buffer' \subseteq buffer
  BY DEF MergeIInv, TypeOK, PipelineInv, Merge, IndexInv, WayInv
<1>2. \A t : ~Failed(t)
  BY <1>1 DEF Failed
<1>3. NotedInv'
  BY <1>1, <1>2, ArtifactNoted DEF IndexInv
<1>4. WayInv'
  BY <1>1 DEF IndexInv, WayInv, Owes, Strips
<1> QED
  BY <1>3, <1>4 DEF IndexInv

(* One turn of the serial loop.                                            *)
LEMMA SerialNotes ==
  ASSUME MergeIInv, IndexInv, SerialTable
  PROVE  IndexInv'
<1>1. /\ TypeOK /\ PipelineInv /\ conf.serial /\ conf \in Confs /\ main = "table"
      /\ next \in Tables /\ NTables \in Nat /\ next \in Nat
      /\ reported \in [Tables -> {"no", "ok", "error"}]
  BY NTablesIsNat DEF MergeIInv, TypeOK, PipelineInv, SerialTable, Tables
<1>2. PICK a \in Direct(next) :
        /\ file' = file \o UnitsOf(a)
        /\ deferred' = deferred \o When(a.deferred, <<next>>)
        /\ reported' = [reported EXCEPT ![next] = IF a.error THEN "error" ELSE "ok"]
  BY DEF SerialTable
<1>3. /\ next' = next + 1
      /\ UNCHANGED <<conf, stop, pc, art, channel, main, buffer, want, result>>
  BY DEF SerialTable, mergeVars
<1>4. a \in Artifact /\ a.table = next /\ (a.error \/ Owes(a))
  BY <1>1, DirectIsArtifact, DirectOwes
<1>5. a.error => Failed(a.table)'
  BY <1>1, <1>2, <1>3, <1>4 DEF Failed
<1>6. ASSUME NEW t, t < next, Failed(t)
      PROVE  Failed(t)'
  <2>1. t # next
    BY <1>1, <1>6
  <2>2. reported'[t] = reported[t] \/ t \notin Tables
    BY <1>1, <1>2, <2>1
  <2>3. CASE t \in Tables
    BY <1>3, <1>6, <2>2, <2>3 DEF Failed
  <2>4. CASE t \notin Tables
    BY <1>1, <1>2, <1>3, <1>6, <2>1, <2>4 DEF Failed
  <2> QED
    BY <2>3, <2>4
<1>7. NotedInv'
  <2>1. a.table < next' /\ next' = next + 1
    BY <1>1, <1>3, <1>4
  <2>2. deferred' = deferred \o When(a.deferred, <<a.table>>)
    BY <1>2, <1>4
  <2>3. Owes(a) \/ Failed(a.table)'
    BY <1>4, <1>5, Zenon
  <2>4. TypeOK /\ NotedInv /\ conf' = conf /\ file' = file \o UnitsOf(a)
    BY <1>1, <1>2, <1>3 DEF IndexInv
  <2>5. \A t : t < next /\ Failed(t) => Failed(t)'
    BY <1>6
  <2>6. a \in Artifact
    BY <1>4
  <2> QED
    BY <2>1, <2>2, <2>3, <2>4, <2>5, <2>6, ArtifactNoted, Zenon
<1>8. WayInv'
  BY <1>3 DEF IndexInv, WayInv, Owes, Strips
<1> QED
  BY <1>1, <1>3, <1>7, <1>8 DEF IndexInv

(* IndexInv is inductive, given MergeIInv.                                 *)
LEMMA IndexesNoted ==
  ASSUME MergeIInv, IndexInv, [Next]_vars
  PROVE  IndexInv'
<1> USE DEF workVars, mergeVars, outVars
<1>0. TypeOK /\ PipelineInv /\ WayInv /\ NotedInv
  BY DEF MergeIInv, IndexInv
<1>1. CASE DrainNext
  <2>1. PICK a \in buffer : Merge(a)
    BY <1>1 DEF DrainNext
  <2> QED
    BY <1>1, <2>1, MergeNotes DEF DrainNext
<1>2. CASE MergeRest /\ buffer # {}
  <2>1. PICK a \in buffer : Merge(a)
    BY <1>2 DEF MergeRest
  <2> QED
    BY <1>2, <2>1, MergeNotes DEF MergeRest
<1>3. CASE WriteTail
  <2>1. NotedInv' /\ Followed'
    BY <1>0, <1>3, TailFollows
  <2>2. WayInv'
    BY <1>0, <1>3 DEF WriteTail, WayInv, Owes, Strips
  <2> QED
    BY <1>3, <2>1, <2>2 DEF WriteTail, IndexInv
<1>4. CASE ReceiveArtifact
  <2>1. /\ UNCHANGED <<conf, file, deferred, next, reported, pc, art, result>>
        /\ main = "recv" /\ main' = "drain"
        /\ channel # <<>> /\ channel \in Seq(Artifact)
        /\ buffer' = buffer \cup {Head(channel)} /\ channel' = Tail(channel)
    BY <1>0, <1>4 DEF ReceiveArtifact, TypeOK
  <2>2. NotedInv' /\ \A a : Owes(a)' = Owes(a)
    BY <1>0, <2>1, StillNoted
  <2>3. Head(channel) = channel[1] /\ 1 \in DOMAIN channel
    BY <2>1
  <2>4. \A i \in DOMAIN channel' : i + 1 \in DOMAIN channel /\ channel'[i] = channel[i + 1]
    BY <2>1
  <2>5. \A i \in DOMAIN channel' : Owes(channel'[i])
    BY <1>0, <2>4 DEF WayInv
  <2>6. \A i \in DOMAIN channel' : Owes(channel[i])'
    BY <2>1, <2>5 DEF Owes, Strips
  <2>7. \A b \in buffer' : Owes(b)'
    BY <1>0, <2>1, <2>2, <2>3 DEF WayInv
  <2>8. \A w \in Workers : pc'[w] = "send" => Owes(art[w])'
    BY <1>0, <2>1 DEF WayInv, Owes, Strips
  <2>9. WayInv'
    BY <2>6, <2>7, <2>8 DEF WayInv
  <2> QED
    BY <2>1, <2>2, <2>9 DEF IndexInv
<1>5. CASE \/ RequestStop \/ OpenSink \/ SerialEnds \/ Drained \/ ChannelCloses
           \/ (MergeRest /\ buffer = {}) \/ SinkFails \/ JoinWorkers \/ UNCHANGED vars
  <2>1. /\ UNCHANGED <<conf, file, deferred, next, reported, pc, art, channel, buffer>>
        /\ main' = "written" => main = "written"
        /\ result' = "ok" => main \in {"written", "returned"} /\ main' = "returned"
        /\ result' = "ok" => main = "written" \/ result = "ok"
    BY <1>5 DEF RequestStop, OpenSink, SerialEnds, Drained, ChannelCloses, MergeRest, SinkFails,
       JoinWorkers, vars, IndexInv
  <2>2. /\ NotedInv' /\ (Followed => Followed')
        /\ \A a : Owes(a)' = Owes(a)
    BY <1>0, <2>1, StillNoted
  <2>3. WayInv'
    BY <1>0, <2>1 DEF WayInv, Owes, Strips
  <2> QED
    BY <2>1, <2>2, <2>3 DEF IndexInv
<1> QED
  BY <1>1, <1>2, <1>3, <1>4, <1>5, WorkerNotes, SerialNotes DEF Next, Merger, Finished

(* A table that was created without its secondary indexes gets them, after *)
(* all rows of all tables, wherever a stop cuts in and whichever shards    *)
(* fail, but for the tables that fail in a serial dump.                    *)
THEOREM DumpIndexes == Spec => []IndexesFollow
<1>1. Init => IndexInv
  <2> SUFFICES ASSUME Init PROVE IndexInv
    OBVIOUS
  <2>1. /\ \A w \in Workers : pc[w] # "send"
        /\ channel = <<>> /\ buffer = {} /\ file = <<>> /\ result = "none" /\ main = "open"
    BY DEF Init
  <2>2. WayInv
    BY <2>1 DEF WayInv
  <2>3. NotedInv
    BY <2>1 DEF NotedInv, Written
  <2> QED
    BY <2>1, <2>2, <2>3 DEF IndexInv
<1>2. MergeIInv /\ IndexInv /\ [Next]_vars => IndexInv'
  BY IndexesNoted
<1>3. IndexInv => IndexesFollow
  BY DEF IndexInv, Followed, Failed, IndexesFollow
<1> QED
  BY <1>1, <1>2, <1>3, MergeInvariant, PTL DEF Spec

-----------------------------------------------------------------------------
(* The units of an artifact are its table marker and, last of all, its     *)
(* data; no other unit is of these kinds.                                  *)
LEMMA UnitsEnd ==
  ASSUME NEW a \in Artifact
  PROVE  /\ UnitsOf(a) \in Seq(Units)
         /\ Len(UnitsOf(a)) \in Nat \ {0}
         /\ UnitsOf(a)[1].what = "table" /\ UnitsOf(a)[1].of = a.table
         /\ \A i \in 1..Len(UnitsOf(a)) :
              /\ UnitsOf(a)[i].what = "table" => i = 1
              /\ UnitsOf(a)[i].what = "data" => a.data /\ i = Len(UnitsOf(a))
         /\ a.data => UnitsOf(a)[Len(UnitsOf(a))] = Unit("data", a.table, a.rows)
<1> DEFINE T == Unit("table", a.table, 0)
           C == Unit("create", a.table, 0)
           D == Unit("data", a.table, a.rows)
<1>1. T \in Units /\ C \in Units /\ D \in Units /\ a.data \in BOOLEAN
  BY DEF Unit, Units, Artifact
<1>2. /\ T.what = "table" /\ T.of = a.table
      /\ C.what = "create" /\ D.what = "data"
  BY DEF Unit
<1> DEFINE X == When(a.create, <<C>>)
           Y == When(a.data, <<D>>)
           V == <<T>> \o X
<1>3. UnitsOf(a) = V \o Y /\ D = Unit("data", a.table, a.rows)
  BY Zenon DEF UnitsOf
<1> HIDE DEF T, C, D
<1>4. X \in Seq(Units) /\ Len(X) \in Nat /\ \A i \in 1..Len(X) : X[i] = C
  BY <1>1 DEF When
<1>5. /\ Y \in Seq(Units) /\ Len(Y) = IF a.data THEN 1 ELSE 0
      /\ a.data => Y[1] = D
  BY <1>1 DEF When
<1>6. <<T>> \in Seq(Units) /\ Len(<<T>>) = 1 /\ <<T>>[1] = T
  BY <1>1
<1> HIDE DEF X, Y
<1>7. /\ V \in Seq(Units) /\ Len(V) = 1 + Len(X)
      /\ \A i \in 1..(1 + Len(X)) : V[i] = IF i <= 1 THEN <<T>>[i] ELSE X[i - 1]
  BY <1>4, <1>6, ConcatProperties
<1>8. \A i \in 1..Len(V) : V[i] = IF i = 1 THEN T ELSE C
  <2>1. ASSUME NEW i \in 1..(1 + Len(X)), i # 1
        PROVE  X[i - 1] = C
    <3>1. i - 1 \in 1..Len(X)
      BY <1>4, <2>1
    <3> QED
      BY <1>4, <3>1
  <2> HIDE DEF V
  <2> QED
    BY <1>4, <1>6, <1>7, <2>1
<1> HIDE DEF V
<1> DEFINE U == V \o Y
<1>9. /\ U \in Seq(Units) /\ Len(U) = Len(V) + Len(Y)
      /\ \A i \in 1..(Len(V) + Len(Y)) :
           U[i] = IF i <= Len(V) THEN V[i] ELSE Y[i - Len(V)]
  BY <1>5, <1>7, ConcatProperties
<1> HIDE DEF U
<1>10. Len(V) \in Nat \ {0} /\ Len(Y) \in {0, 1} /\ (Len(Y) = 1 <=> a.data)
  BY <1>1, <1>4, <1>5, <1>7
<1>11. U[1] = T
  BY <1>8, <1>9, <1>10
<1>12. \A i \in 2..Len(V) : U[i] = C
  BY <1>8, <1>9, <1>10
<1>13. ASSUME a.data PROVE Len(U) = Len(V) + 1 /\ U[Len(U)] = D
  <2>1. Len(U) = Len(V) + 1 /\ Len(Y) = 1
    BY <1>9, <1>10, <1>13
  <2>2. U[Len(V) + 1] = Y[Len(V) + 1 - Len(V)]
    BY <1>9, <1>10, <2>1
  <2>3. Len(V) + 1 - Len(V) = 1
    BY <1>10
  <2> QED
    BY <1>5, <1>13, <2>1, <2>2, <2>3
<1>14. ASSUME ~a.data PROVE Len(U) = Len(V)
  BY <1>9, <1>10, <1>14
<1>15. ASSUME NEW i \in 1..Len(U)
       PROVE  /\ U[i].what = "table" => i = 1
              /\ U[i].what = "data" => a.data /\ i = Len(U)
  <2>1. i = 1 \/ i \in 2..Len(V) \/ (a.data /\ i = Len(U))
    BY <1>10, <1>13, <1>14
  <2>2. 1 \in 1..Len(U) /\ Len(U) \in Nat
    BY <1>9, <1>10
  <2>3. CASE i = 1
    BY <1>2, <1>11, <2>3
  <2>4. CASE i \in 2..Len(V)
    BY <1>2, <1>12, <2>4
  <2>5. CASE a.data /\ i = Len(U)
    BY <1>2, <1>13, <2>5
  <2> QED
    BY <2>1, <2>3, <2>4, <2>5
<1> QED
  BY <1>2, <1>3, <1>9, <1>10, <1>11, <1>13, <1>15 DEF U

(* The output after an artifact: all that was there, one table more, and   *)
(* one data unit more if the artifact has data.                            *)
LEMMA OneMore ==
  ASSUME file \in Seq(Units), NEW a \in Artifact, file' = file \o UnitsOf(a)
  PROVE  /\ Output' = Output \cup {a.table}
         /\ Written("data") \subseteq 1..Len(file) /\ 1..Len(file) \subseteq DOMAIN file'
         /\ DOMAIN file = 1..Len(file) /\ Len(file) \in Nat
         /\ \A i \in 1..Len(file) : file'[i] = file[i]
         /\ ~a.data => Written("data")' = Written("data")
         /\ a.data => \E k \in DOMAIN file' :
              /\ k \notin 1..Len(file)
              /\ file'[k].of = a.table /\ file'[k].rows = a.rows
              /\ Written("data")' = Written("data") \cup {k}
<1> DEFINE U == UnitsOf(a)
           n == Len(file)
<1>1. /\ U \in Seq(Units) /\ Len(U) \in Nat \ {0}
      /\ U[1].what = "table" /\ U[1].of = a.table
      /\ \A i \in 1..Len(U) : /\ U[i].what = "table" => i = 1
                              /\ U[i].what = "data" => a.data /\ i = Len(U)
      /\ a.data => U[Len(U)] = Unit("data", a.table, a.rows)
  BY UnitsEnd
<1>2. file' = file \o U
  OBVIOUS
<1> HIDE DEF U
<1>3. n \in Nat /\ DOMAIN file = 1..n
  OBVIOUS
<1> HIDE DEF n
<1>4. /\ file' \in Seq(Units)
      /\ DOMAIN file' = 1..(n + Len(U))
      /\ \A i \in 1..(n + Len(U)) : file'[i] = IF i <= n THEN file[i] ELSE U[i - n]
  <2>1. /\ file' \in Seq(Units) /\ Len(file') = n + Len(U)
        /\ \A i \in 1..(n + Len(U)) : file'[i] = IF i <= n THEN file[i] ELSE U[i - n]
    BY <1>1, <1>2, ConcatProperties DEF n
  <2> QED
    BY <2>1
<1>5. \A i \in 1..n : file'[i] = file[i] /\ i \in DOMAIN file'
  BY <1>1, <1>3, <1>4
<1>6. ASSUME NEW i \in DOMAIN file', i \notin 1..n
      PROVE  i - n \in 1..Len(U) /\ file'[i] = U[i - n]
  BY <1>1, <1>3, <1>4, <1>6
<1>7. ASSUME NEW k \in 1..Len(U)
      PROVE  n + k \in DOMAIN file' /\ n + k \notin 1..n /\ file'[n + k] = U[k]
  <2>1. n + k \in 1..(n + Len(U)) /\ ~(n + k <= n) /\ (n + k) - n = k
    BY <1>1, <1>3
  <2>2. file'[n + k] = U[(n + k) - n]
    BY <1>4, <2>1
  <2> QED
    BY <1>3, <1>4, <2>1, <2>2
<1>8. Written("table")' = Written("table") \cup {n + 1}
  <2>1. n + 1 \in Written("table")' /\ Written("table") \subseteq Written("table")'
    BY <1>1, <1>3, <1>5, <1>7 DEF Written
  <2>2. ASSUME NEW i \in Written("table")', i \notin 1..n
        PROVE  i = n + 1
    <3>1. i \in DOMAIN file' /\ file'[i].what = "table"
      BY <2>2 DEF Written
    <3>2. i - n = 1
      BY <1>1, <1>6, <2>2, <3>1
    <3> QED
      BY <1>3, <1>4, <3>1, <3>2
  <2>3. \A i \in Written("table")' : i \in 1..n => i \in Written("table")
    BY <1>3, <1>5 DEF Written
  <2> QED
    BY <2>1, <2>2, <2>3
<1>9. Output' = Output \cup {a.table}
  <2>1. file'[n + 1].of = a.table
    BY <1>1, <1>7
  <2>2. \A i \in Written("table") : file'[i] = file[i]
    BY <1>3, <1>5 DEF Written
  <2>3. Output' = {file'[i].of : i \in Written("table")'}
    BY DEF Output
  <2> QED
    BY <1>8, <2>1, <2>2, <2>3 DEF Output
<1>10. \A i \in 1..n : i \in Written("data")' <=> i \in Written("data")
  BY <1>3, <1>5 DEF Written
<1>11. ASSUME NEW i \in Written("data")', i \notin 1..n
       PROVE  a.data /\ i = n + Len(U)
  <2>1. i \in DOMAIN file' /\ file'[i].what = "data"
    BY <1>11 DEF Written
  <2>2. a.data /\ i - n = Len(U)
    BY <1>1, <1>6, <1>11, <2>1
  <2> QED
    BY <1>1, <1>3, <1>4, <2>1, <2>2
<1>12. Written("data") \subseteq 1..n
  BY <1>3 DEF Written
<1>13. ASSUME a.data
       PROVE  \E k \in DOMAIN file' :
              /\ k \notin 1..n
              /\ file'[k].of = a.table /\ file'[k].rows = a.rows
              /\ Written("data")' = Written("data") \cup {k}
  <2> DEFINE k == n + Len(U)
  <2>1. k \in DOMAIN file' /\ k \notin 1..n /\ file'[k] = Unit("data", a.table, a.rows)
    BY <1>1, <1>7, <1>13
  <2>2. file'[k].what = "data" /\ file'[k].of = a.table /\ file'[k].rows = a.rows
    BY <2>1 DEF Unit
  <2>3. k \in Written("data")'
    BY <2>1, <2>2 DEF Written
  <2>4. Written("data")' = Written("data") \cup {k}
    BY <1>10, <1>11, <1>12, <2>3
  <2> QED
    BY <2>1, <2>2, <2>4
<1>14. ~a.data => Written("data")' = Written("data")
  BY <1>10, <1>11, <1>12
<1> QED
  BY <1>3, <1>5, <1>9, <1>12, <1>13, <1>14 DEF n

(* What one more table does to the totals.  Its rows count unless it is a  *)
(* failed table of a serial dump.                                          *)
LEMMA TallyStep ==
  ASSUME TypeOK, StoryInv, TallyInv, NEW a \in Artifact, a.table \notin Output,
         file' = file \o UnitsOf(a), conf' = conf,
         \A t \in Output : reported'[t] = reported[t],
         reported'[a.table] = IF a.error THEN "error" ELSE "ok",
         a.data \/ a.rows = 0,
         tally' = Counted(IF conf.serial /\ a.error THEN 0 ELSE a.rows, a.error)
  PROVE  TallyInv'
<1> DEFINE n == Len(file)
           c == IF conf.serial /\ a.error THEN 0 ELSE a.rows
<1>1. /\ file \in Seq(Units) /\ tally \in [rows: Nat, done: Nat, failed: Nat]
      /\ NTables \in Nat /\ a.rows \in Nat /\ a.error \in BOOLEAN /\ conf \in Confs
      /\ a.table \in Tables
  BY NTablesIsNat DEF TypeOK, Artifact
<1>2. /\ Output' = Output \cup {a.table}
      /\ Written("data") \subseteq 1..n /\ 1..n \subseteq DOMAIN file'
      /\ DOMAIN file = 1..n /\ n \in Nat
      /\ \A i \in 1..n : file'[i] = file[i]
      /\ ~a.data => Written("data")' = Written("data")
      /\ a.data => \E k \in DOMAIN file' :
           /\ k \notin 1..n
           /\ file'[k].of = a.table /\ file'[k].rows = a.rows
           /\ Written("data")' = Written("data") \cup {k}
  BY <1>1, OneMore
<1> HIDE DEF n
<1>3. /\ tally'.rows = tally.rows + c /\ tally'.done = tally.done + 1
      /\ tally'.failed = tally.failed + IF a.error THEN 1 ELSE 0
  BY DEF Counted
<1>4. IsFiniteSet(Output) /\ IsFiniteSet(Written("data"))
  <2>1. IsFiniteSet(1..NTables) /\ IsFiniteSet(1..n)
    BY <1>1, <1>2, FS_Interval
  <2>2. Output \subseteq 1..NTables
    BY DEF StoryInv, Ended, Tables
  <2> QED
    BY <1>2, <2>1, <2>2, FS_Subset
<1>5. tally'.done = Cardinality(Output')
  <2>1. Cardinality(Output \cup {a.table}) = Cardinality(Output) + 1
    BY <1>4, FS_AddElement
  <2> QED
    BY <1>2, <1>3, <2>1 DEF TallyInv
<1>6. tally'.failed = Cardinality({t \in Output' : reported'[t] = "error"})
  <2> DEFINE F == {t \in Output : reported[t] = "error"}
             G == {t \in Output' : reported'[t] = "error"}
  <2>1. IsFiniteSet(F) /\ F \subseteq Output
    BY <1>4, FS_Subset
  <2>2. G = IF a.error THEN F \cup {a.table} ELSE F
    BY <1>2
  <2>3. Cardinality(F) = tally.failed
    BY DEF TallyInv
  <2> HIDE DEF F, G
  <2>4. Cardinality(F \cup {a.table}) = Cardinality(F) + 1
    BY <2>1, FS_AddElement
  <2>5. Cardinality(G) = tally.failed + IF a.error THEN 1 ELSE 0
    BY <1>1, <2>2, <2>3, <2>4
  <2> QED
    BY <1>3, <2>5 DEF G
<1>7. /\ IsFiniteSet(Kept) /\ Kept \subseteq Written("data")
      /\ \A i \in Kept : RowsIn[i] \in Nat /\ RowsIn'[i] = RowsIn[i]
  <2>1. Kept \subseteq Written("data")
    BY DEF Kept
  <2>2. IsFiniteSet(Kept)
    BY <1>4, <2>1, FS_Subset
  <2>3. ASSUME NEW i \in Kept PROVE RowsIn[i] \in Nat /\ RowsIn'[i] = RowsIn[i]
    <3>1. i \in DOMAIN file /\ i \in DOMAIN file' /\ file'[i] = file[i]
      BY <1>2, <2>1
    <3>2. file[i] \in Units
      BY <1>1, <3>1
    <3>3. file[i].rows \in Nat
      BY <3>2 DEF Units
    <3> QED
      BY <3>1, <3>3 DEF RowsIn
  <2> QED
    BY <2>1, <2>2, <2>3
<1>8. \A i \in Written("data") : i \in Kept <=> (~conf.serial \/ reported'[file'[i].of] = "ok")
  <2> SUFFICES ASSUME NEW i \in Written("data")
               PROVE  i \in Kept <=> (~conf.serial \/ reported'[file'[i].of] = "ok")
    OBVIOUS
  <2>1. file'[i] = file[i] /\ file[i].of \in Output
    BY <1>2 DEF StoryInv
  <2>2. reported'[file'[i].of] = reported[file[i].of]
    BY <2>1
  <2> QED
    BY <2>2 DEF Kept
<1>9. Kept' = {i \in Written("data")' : ~conf.serial \/ reported'[file'[i].of] = "ok"}
  BY DEF Kept
<1>10. tally.rows = SumFunctionOnSet(RowsIn, Kept) /\ tally.rows \in Nat
  BY <1>1 DEF TallyInv
<1>11. SumFunctionOnSet(RowsIn', Kept) = SumFunctionOnSet(RowsIn, Kept)
  BY <1>7, SumsEqual
<1>12. CASE Kept' = Kept /\ c = 0
  <2>1. tally'.rows = SumFunctionOnSet(RowsIn', Kept')
    BY <1>3, <1>10, <1>11, <1>12
  <2> QED
    BY <1>5, <1>6, <2>1 DEF TallyInv
<1>13. CASE a.data /\ ~(conf.serial /\ a.error)
  <2>1. PICK k \in DOMAIN file' :
           /\ k \notin 1..n
           /\ file'[k].of = a.table /\ file'[k].rows = a.rows
           /\ Written("data")' = Written("data") \cup {k}
    BY <1>2, <1>13
  <2>2. Kept' = Kept \cup {k} /\ k \notin Kept
    <3>1. ~conf.serial \/ reported'[file'[k].of] = "ok"
      BY <1>1, <1>13, <2>1 DEF Confs
    <3>2. k \notin Kept /\ Kept \subseteq Written("data")
      BY <1>2, <1>7, <2>1
    <3> QED
      BY <1>8, <1>9, <2>1, <3>1, <3>2
  <2>3. RowsIn'[k] = a.rows /\ c = a.rows
    BY <1>13, <2>1 DEF RowsIn
  <2>4. IsFiniteSet(Kept \cup {k})
    BY <1>7, FS_AddElement
  <2>5. \A x \in Kept \cup {k} : RowsIn'[x] \in Nat
    BY <1>1, <1>7, <2>3
  <2>6. SumFunctionOnSet(RowsIn', Kept \cup {k})
          = RowsIn'[k] + SumFunctionOnSet(RowsIn', (Kept \cup {k}) \ {k})
    <3> DEFINE f == RowsIn'
               S == Kept \cup {k}
    <3>1. IsFiniteSet(S) /\ (\A x \in S : f[x] \in Nat) /\ k \in S
      BY <2>4, <2>5
    <3> HIDE DEF f, S
    <3>2. SumFunctionOnSet(f, S) = f[k] + SumFunctionOnSet(f, S \ {k})
      BY <3>1, SumTakes
    <3> QED
      BY <3>2 DEF f, S
  <2>7. (Kept \cup {k}) \ {k} = Kept
    BY <2>2
  <2>8. tally'.rows = SumFunctionOnSet(RowsIn', Kept')
    <3> DEFINE s == SumFunctionOnSet(RowsIn', Kept \cup {k})
    <3>1. s = a.rows + tally.rows
      BY <1>10, <1>11, <2>3, <2>6, <2>7
    <3>2. SumFunctionOnSet(RowsIn', Kept') = s
      BY <2>2
    <3>3. tally'.rows = tally.rows + a.rows
      BY <1>3, <2>3
    <3> HIDE DEF s, c
    <3>4. tally'.rows = s
      BY <1>1, <1>10, <3>1, <3>3
    <3> QED
      BY <3>2, <3>4
  <2> QED
    BY <1>5, <1>6, <2>8 DEF TallyInv
<1>14. ASSUME ~a.data PROVE Kept' = Kept /\ c = 0
  <2>1. Written("data")' = Written("data") /\ c = 0
    BY <1>2, <1>14
  <2>2. Kept \subseteq Written("data")
    BY <1>7
  <2> QED
    BY <1>8, <1>9, <2>1, <2>2
<1>15. ASSUME a.data, conf.serial, a.error PROVE Kept' = Kept /\ c = 0
  <2>1. PICK k \in DOMAIN file' :
           /\ k \notin 1..n
           /\ file'[k].of = a.table /\ file'[k].rows = a.rows
           /\ Written("data")' = Written("data") \cup {k}
    BY <1>2, <1>15
  <2>2. k \notin Kept'
    BY <1>9, <1>15, <2>1
  <2>3. Kept \subseteq Written("data") /\ k \notin Written("data")
    BY <1>2, <1>7, <2>1
  <2> QED
    BY <1>8, <1>9, <1>15, <2>1, <2>2, <2>3
<1> QED
  BY <1>12, <1>13, <1>14, <1>15

(* Rows come with a data unit, in what dump_table_to_temp stages ...       *)
LEMMA StagedRows ==
  ASSUME NEW t \in Tables, conf \in Confs, NEW a \in Staged(t)
  PROVE  a.data \/ a.rows = 0
<1>1. CASE a \in NoDdl(t)
  BY <1>1 DEF NoDdl, Art
<1>2. CASE a \in NoCount(t)
  BY <1>2 DEF NoCount, Art
<1>3. CASE \E ended \in SUBSET DataOf(t) : a \in ShardsEnd(t, ended)
  <2>1. PICK ended \in SUBSET DataOf(t) : a \in ShardsEnd(t, ended)
    BY <1>3
  <2>2. PICK full \in SUBSET ended :
          a = Art(t, conf.content # "data", (IF Shards[t] = 1 THEN full ELSE ended) # {},
                  Cardinality(full), Strips(t), ended # DataOf(t))
    BY <2>1, Zenon DEF ShardsEnd
  <2>3. /\ a.data = ((IF Shards[t] = 1 THEN full ELSE ended) # {})
        /\ a.rows = Cardinality(full)
    BY <2>2 DEF Art
  <2>4. full = {} => Cardinality(full) = 0
    BY FS_EmptySet
  <2>5. full # {} => a.data
    BY <2>3
  <2> QED
    BY <2>3, <2>4, <2>5
<1>4. \E S \in {IF conf.content = "data" THEN {} ELSE NoDdl(t),
                IF conf.content = "structure" THEN {} ELSE NoCount(t),
                UNION {ShardsEnd(t, ended) : ended \in SUBSET DataOf(t)}} : a \in S
  BY Zenon DEF Staged
<1>5. \/ a \in NoDdl(t)
      \/ a \in NoCount(t)
      \/ a \in UNION {ShardsEnd(t, ended) : ended \in SUBSET DataOf(t)}
  BY <1>4
<1>6. CASE a \in UNION {ShardsEnd(t, ended) : ended \in SUBSET DataOf(t)}
  BY <1>3, <1>6, Zenon
<1> QED
  BY <1>1, <1>2, <1>5, <1>6

(* ... and in what dump_table_direct writes.                               *)
LEMMA DirectRows ==
  ASSUME NEW t \in Tables, conf \in Confs, NEW a \in Direct(t)
  PROVE  a.data \/ a.rows = 0
<1> DEFINE create == conf.content # "data"
           data == DataOf(t) # {}
           rows == IF data THEN {0, 1} ELSE {0}
<1>1. CASE \E c \in {FALSE, conf.content = "both"} : a = Art(t, c, FALSE, 0, FALSE, TRUE)
  BY <1>1 DEF Art
<1>2. CASE \E r \in rows : a = Art(t, create, data, r, Strips(t), FALSE)
  <2>1. PICK r \in rows : a = Art(t, create, data, r, Strips(t), FALSE)
    BY <1>2
  <2>2. a.data = data /\ a.rows = r
    BY <2>1 DEF Art
  <2> QED
    BY <2>1, <2>2
<1>3. CASE \E r \in rows : a = Art(t, create, TRUE, r, FALSE, TRUE)
  BY <1>3 DEF Art
<1>4. \/ \E c \in {FALSE, conf.content = "both"} : a = Art(t, c, FALSE, 0, FALSE, TRUE)
      \/ \E r \in rows : a = Art(t, create, data, r, Strips(t), FALSE)
      \/ \E r \in rows : a = Art(t, create, TRUE, r, FALSE, TRUE)
  BY Zenon DEF Direct
<1> QED
  BY <1>1, <1>2, <1>3, <1>4

(* What is on its way is not in the output yet.                            *)
LEMMA WayFacts ==
  ASSUME MergeIInv
  PROVE  \A a \in OnItsWay : a \in Artifact /\ a.table \in Tables /\ a.table \notin Output
<1>1. TypeOK /\ PipelineInv /\ AheadInv
  BY DEF MergeIInv
<1>2. \A t : (\A i \in Written("table") : file[i].of < t) /\ t \in Int => t \notin Output
  BY DEF Output
<1>3. \A t \in Tables : Ahead(t) => t \notin Output
  BY <1>2, NTablesIsNat DEF Ahead, Tables
<1>4. \A a \in Artifact : a.table \in Tables
  BY DEF Artifact
<1>5. ASSUME NEW w \in Workers, pc[w] = "send"
      PROVE  art[w] \in Artifact /\ Ahead(art[w].table)
  <2>1. Working(w)
    BY <1>5 DEF Working
  <2> QED
    BY <1>1, <2>1 DEF PipelineInv, AheadInv
<1>6. ASSUME NEW i \in DOMAIN channel
      PROVE  channel[i] \in Artifact /\ Ahead(channel[i].table)
  BY <1>1, <1>6 DEF TypeOK, AheadInv
<1>7. ASSUME NEW b \in buffer
      PROVE  b \in Artifact /\ Ahead(b.table)
  BY <1>1, <1>7 DEF TypeOK, AheadInv
<1>8. ASSUME NEW a \in OnItsWay PROVE a \in Artifact /\ Ahead(a.table)
  BY <1>5, <1>6, <1>7 DEF OnItsWay
<1> QED
  BY <1>3, <1>4, <1>8

(* A step that moves what is on its way, or nothing at all.                *)
LEMMA NothingTold ==
  ASSUME StoryInv, TallyInv, UNCHANGED <<conf, file, tally, reported>>, OnItsWay' = OnItsWay
  PROVE  StoryInv' /\ TallyInv'
<1>1. Written("data")' = Written("data") /\ Written("table")' = Written("table")
  BY DEF Written
<1>2. Output' = Output /\ Ended' = Ended
  BY <1>1 DEF Output, Ended
<1>3. Kept' = Kept /\ RowsIn' = RowsIn
  BY <1>1 DEF Kept, RowsIn
<1>4. StoryInv'
  BY <1>1, <1>2 DEF StoryInv
<1>5. TallyInv'
  BY <1>2, <1>3 DEF TallyInv
<1> QED
  BY <1>4, <1>5

(* An artifact leaves the buffer for the output.                           *)
LEMMA MergeTells ==
  ASSUME MergeIInv, StoryInv, TallyInv, ~conf.serial, NEW a \in buffer, Merge(a),
         UNCHANGED <<conf, pc, art, channel, reported>>
  PROVE  StoryInv' /\ TallyInv'
<1>1. TypeOK /\ OnceInv /\ PipelineInv /\ file \in Seq(Units)
  BY DEF MergeIInv, TypeOK
<1>2. a \in OnItsWay /\ OnItsWay = OnItsWay' \cup {a}
  BY DEF OnItsWay, Merge
<1>3. /\ a \in Artifact /\ a.table \in Tables /\ a.table \notin Output
      /\ reported[a.table] = IF a.error THEN "error" ELSE "ok"
      /\ a.data \/ a.rows = 0
  BY <1>2, WayFacts DEF StoryInv
<1>4. /\ file' = file \o UnitsOf(a) /\ tally' = Counted(a.rows, a.error)
  BY DEF Merge
<1>5. tally' = Counted(IF conf.serial /\ a.error THEN 0 ELSE a.rows, a.error)
  BY <1>4
<1>6. TallyInv'
  <2>1. \A t \in Output : reported'[t] = reported[t]
    OBVIOUS
  <2>2. reported'[a.table] = IF a.error THEN "error" ELSE "ok"
    BY <1>3
  <2> QED
    BY <1>1, <1>3, <1>4, <1>5, <2>1, <2>2, TallyStep
<1>7. /\ Output' = Output \cup {a.table}
      /\ Written("data") \subseteq 1..Len(file)
      /\ \A i \in 1..Len(file) : file'[i] = file[i]
      /\ ~a.data => Written("data")' = Written("data")
      /\ a.data => \E k \in DOMAIN file' :
           /\ file'[k].of = a.table
           /\ Written("data")' = Written("data") \cup {k}
  BY <1>1, <1>3, <1>4, OneMore
<1>8. Ended' = Ended /\ a.table \in Ended
  BY <1>3 DEF Ended
<1>9. \A i \in Written("data")' : file'[i].of \in Output'
  BY <1>3, <1>7 DEF StoryInv, Artifact
<1>10. \A b \in OnItsWay' : /\ reported'[b.table] = IF b.error THEN "error" ELSE "ok"
                            /\ b.data \/ b.rows = 0
  BY <1>2 DEF StoryInv
<1>11. \A t \in Ended' \ Output' : \E b \in OnItsWay' : b.table = t
  BY <1>2, <1>7, <1>8 DEF StoryInv
<1>12. Output' \subseteq Ended'
  BY <1>7, <1>8 DEF StoryInv
<1> QED
  BY <1>6, <1>9, <1>10, <1>11, <1>12 DEF StoryInv

(* A worker reports its table as it hands it over.                         *)
LEMMA StageTells ==
  ASSUME MergeIInv, StoryInv, TallyInv, NEW w \in Workers, StageTable(w)
  PROVE  StoryInv' /\ TallyInv'
<1>1. /\ TypeOK /\ PipelineInv /\ OnceInv /\ AheadInv
      /\ pc \in [Workers -> {"recv", "gate", "dump", "send", "done"}]
      /\ art \in [Workers -> Artifact \cup {NoArtifact}]
      /\ reported \in [Tables -> {"no", "ok", "error"}] /\ conf \in Confs
  BY DEF MergeIInv, TypeOK
<1>2. /\ pc[w] = "dump" /\ pc' = [pc EXCEPT ![w] = "send"]
      /\ UNCHANGED <<conf, channel, buffer, file, tally>>
  BY DEF StageTable, mergeVars, outVars
<1>3. PICK a \in Staged(art[w].table) :
        /\ art' = [art EXCEPT ![w] = a]
        /\ reported' = [reported EXCEPT ![a.table] = IF a.error THEN "error" ELSE "ok"]
  BY DEF StageTable
<1>4. Working(w) /\ ~conf.serial /\ art[w] \in Artifact /\ art[w].table \in Tables
  BY <1>1, <1>2 DEF Working, PipelineInv, SendersGone, Artifact
<1>5. a \in Artifact /\ a.table = art[w].table /\ (a.data \/ a.rows = 0)
  BY <1>1, <1>4, StagedIsArtifact, StagedRows
<1> DEFINE t == a.table
           verdict == IF a.error THEN "error" ELSE "ok"
<1>6. t \notin Output
  <2>1. \A i \in Written("table") : file[i].of < t
    BY <1>1, <1>4, <1>5 DEF AheadInv, Ahead
  <2>2. t \in Int
    BY <1>4, <1>5, NTablesIsNat DEF Tables
  <2> HIDE DEF t
  <2> QED
    BY <2>1, <2>2 DEF Output
<1>7. OnItsWay' = OnItsWay \cup {a}
  <2>1. /\ \A v \in Workers : v # w => pc'[v] = pc[v] /\ art'[v] = art[v]
        /\ pc'[w] = "send" /\ art'[w] = a
    BY <1>1, <1>2, <1>3
  <2>2. {art'[v] : v \in {u \in Workers : pc'[u] = "send"}}
          = {art[v] : v \in {u \in Workers : pc[u] = "send"}} \cup {a}
    BY <1>2, <2>1
  <2>3. OnItsWay' = {art'[v] : v \in {u \in Workers : pc'[u] = "send"}}
                      \cup {channel[i] : i \in DOMAIN channel} \cup buffer
    BY <1>2 DEF OnItsWay
  <2> QED
    BY <2>2, <2>3 DEF OnItsWay
<1>8. \A b \in OnItsWay : b.table # t
  <2>1. \A v \in Workers : pc[v] = "send" => Working(v) /\ v # w
    BY <1>2 DEF Working
  <2>2. \A v \in Workers : pc[v] = "send" => art[v].table # t
    BY <1>1, <1>4, <1>5, <2>1 DEF OnceInv
  <2>3. \A i \in DOMAIN channel : channel[i].table # t
    BY <1>1, <1>4, <1>5 DEF OnceInv
  <2>4. \A b \in buffer : b.table # t
    BY <1>1, <1>4, <1>5 DEF OnceInv
  <2> HIDE DEF t
  <2> QED
    BY <2>2, <2>3, <2>4 DEF OnItsWay
<1>9. t \in Tables /\ reported'[t] = verdict /\ verdict # "no"
      /\ \A u \in Tables : u # t => reported'[u] = reported[u]
  BY <1>1, <1>3, <1>4, <1>5
<1>10. Output' = Output /\ Written("data")' = Written("data") /\ RowsIn' = RowsIn
  BY <1>2 DEF Output, Written, RowsIn
<1>11. Kept' = Kept
  BY <1>2, <1>4, <1>10 DEF Kept
<1>12. Ended' = Ended \cup {t}
  <2> HIDE DEF t, verdict
  <2> QED
    BY <1>9 DEF Ended
<1>13. Output \subseteq Tables /\ \A u \in Output : reported'[u] = reported[u]
  <2> HIDE DEF t
  <2> QED
    BY <1>6, <1>9 DEF StoryInv, Ended
<1>14. TallyInv'
  <2>1. {u \in Output : reported[u] = "error"} = {u \in Output' : reported'[u] = "error"}
    BY <1>10, <1>13
  <2> QED
    BY <1>2, <1>10, <1>11, <2>1 DEF TallyInv
<1>15. \A b \in OnItsWay' : /\ reported'[b.table] = IF b.error THEN "error" ELSE "ok"
                            /\ b.data \/ b.rows = 0
  <2>1. \A b \in OnItsWay : b.table \in Tables
    BY WayFacts
  <2>2. \A b \in OnItsWay : /\ reported[b.table] = IF b.error THEN "error" ELSE "ok"
                            /\ b.data \/ b.rows = 0
    BY DEF StoryInv
  <2>3. \A b \in OnItsWay : reported'[b.table] = reported[b.table]
    BY <1>8, <1>9, <2>1
  <2> QED
    BY <1>5, <1>7, <1>9, <2>2, <2>3
<1>16. \A u \in Ended' \ Output' : \E b \in OnItsWay' : b.table = u
  BY <1>7, <1>10, <1>12 DEF StoryInv
<1>17. /\ Output' \subseteq Ended'
       /\ \A i \in Written("data")' : file'[i].of \in Output'
  BY <1>2, <1>10, <1>12 DEF StoryInv
<1> QED
  BY <1>14, <1>15, <1>16, <1>17 DEF StoryInv

(* The other steps of a worker tell nothing.                               *)
LEMMA WorkerTells ==
  ASSUME MergeIInv, TotalsInv, NEW w \in Workers, Worker(w)
  PROVE  TotalsInv'
<1>1. /\ pc \in [Workers -> {"recv", "gate", "dump", "send", "done"}]
      /\ art \in [Workers -> Artifact \cup {NoArtifact}]
      /\ channel \in Seq(Artifact) /\ PipelineInv
  BY DEF MergeIInv, TypeOK
<1>2. EmptyInv'
  <2>1. ~SendersGone
    BY DEF Worker, TakeTable, QueueEmpty, PassGate, StageTable, SendArtifact, SendersGone
  <2>2. main' = main /\ result' = result
    BY DEF Worker, TakeTable, QueueEmpty, PassGate, StageTable, SendArtifact, mergeVars
  <2> QED
    BY <2>1, <2>2 DEF TotalsInv, EmptyInv
<1>3. CASE StageTable(w)
  BY <1>2, <1>3, StageTells DEF TotalsInv
<1>4. CASE SendArtifact(w)
  <2>1. /\ UNCHANGED <<conf, file, tally, reported, art, buffer>>
        /\ channel' = Append(channel, art[w]) /\ pc[w] = "send"
        /\ pc' = [pc EXCEPT ![w] = "recv"]
    BY <1>4 DEF SendArtifact, mergeVars, outVars
  <2>2. art[w] \in Artifact
    BY <1>1, <2>1 DEF PipelineInv, Working
  <2>3. {channel'[i] : i \in DOMAIN channel'} = {channel[i] : i \in DOMAIN channel} \cup {art[w]}
    <3>1. /\ DOMAIN channel' = 1..(Len(channel) + 1)
          /\ DOMAIN channel = 1..Len(channel) /\ Len(channel) \in Nat
          /\ \A i \in 1..Len(channel) : channel'[i] = channel[i]
          /\ channel'[Len(channel) + 1] = art[w]
      BY <1>1, <2>1, <2>2
    <3>2. \A i \in 1..(Len(channel) + 1) : i \in 1..Len(channel) \/ i = Len(channel) + 1
      BY <3>1
    <3>3. Len(channel) + 1 \in 1..(Len(channel) + 1)
          /\ 1..Len(channel) \subseteq 1..(Len(channel) + 1)
      BY <3>1
    <3> QED
      BY <3>1, <3>2, <3>3
  <2>4. {v \in Workers : pc[v] = "send"} = {v \in Workers : pc'[v] = "send"} \cup {w}
    BY <1>1, <2>1
  <2>5. OnItsWay' = OnItsWay
    BY <2>1, <2>3, <2>4 DEF OnItsWay
  <2> QED
    BY <1>2, <2>1, <2>5, NothingTold DEF TotalsInv
<1>5. CASE TakeTable(w) \/ QueueEmpty(w) \/ PassGate(w)
  <2>1. /\ UNCHANGED <<conf, file, tally, reported, channel, buffer>>
        /\ pc[w] # "send" /\ pc'[w] # "send"
        /\ \A v \in Workers : v # w => pc'[v] = pc[v] /\ art'[v] = art[v]
    BY <1>1, <1>5 DEF TakeTable, QueueEmpty, PassGate, mergeVars, outVars
  <2>2. {v \in Workers : pc'[v] = "send"} = {v \in Workers : pc[v] = "send"}
    BY <2>1
  <2>3. OnItsWay' = OnItsWay
    BY <2>1, <2>2 DEF OnItsWay
  <2> QED
    BY <1>2, <2>1, <2>3, NothingTold DEF TotalsInv
<1> QED
  BY <1>3, <1>4, <1>5 DEF Worker

(* One turn of the serial loop reports the table it writes.                *)
LEMMA SerialTells ==
  ASSUME MergeIInv, StoryInv, TallyInv, SerialTable
  PROVE  StoryInv' /\ TallyInv'
<1>1. /\ TypeOK /\ PipelineInv /\ AheadInv /\ conf \in Confs /\ main = "table"
      /\ next \in Tables /\ next \in Nat /\ file \in Seq(Units)
      /\ reported \in [Tables -> {"no", "ok", "error"}]
  BY NTablesIsNat DEF MergeIInv, TypeOK, SerialTable, Tables
<1>2. PICK a \in Direct(next) :
        /\ file' = file \o UnitsOf(a)
        /\ tally' = Counted(IF a.error THEN 0 ELSE a.rows, a.error)
        /\ reported' = [reported EXCEPT ![next] = IF a.error THEN "error" ELSE "ok"]
  BY DEF SerialTable
<1>3. UNCHANGED <<conf, pc, art, channel, buffer>>
  BY DEF SerialTable, mergeVars
<1>4. conf.serial /\ SendersGone /\ channel = <<>> /\ buffer = {}
  BY <1>1 DEF PipelineInv
<1>5. a \in Artifact /\ a.table = next /\ (a.data \/ a.rows = 0)
  BY <1>1, DirectIsArtifact, DirectRows
<1>6. next \notin Output
  <2>1. \A i \in Written("table") : file[i].of < next
    BY <1>1 DEF AheadInv
  <2> QED
    BY <1>1, <2>1 DEF Output
<1>7. /\ reported'[next] = IF a.error THEN "error" ELSE "ok"
      /\ \A u \in Tables : u # next => reported'[u] = reported[u]
  BY <1>1, <1>2
<1>8. Output \subseteq Tables /\ \A u \in Output : reported'[u] = reported[u]
  BY <1>6, <1>7 DEF StoryInv, Ended
<1>9. TallyInv'
  <2>1. tally' = Counted(IF conf.serial /\ a.error THEN 0 ELSE a.rows, a.error)
    BY <1>2, <1>4
  <2>2. reported'[a.table] = IF a.error THEN "error" ELSE "ok"
    BY <1>5, <1>7
  <2>3. a.table \notin Output /\ conf' = conf
    BY <1>3, <1>5, <1>6
  <2> QED
    BY <1>1, <1>2, <1>5, <1>8, <2>1, <2>2, <2>3, TallyStep
<1>10. OnItsWay = {} /\ OnItsWay' = {}
  BY <1>3, <1>4 DEF OnItsWay, SendersGone
<1>11. Ended' = Ended \cup {next}
  BY <1>1, <1>7 DEF Ended
<1>12. /\ Output' = Output \cup {a.table}
       /\ Written("data") \subseteq 1..Len(file)
       /\ \A i \in 1..Len(file) : file'[i] = file[i]
       /\ ~a.data => Written("data")' = Written("data")
       /\ a.data => \E k \in DOMAIN file' :
            /\ file'[k].of = a.table
            /\ Written("data")' = Written("data") \cup {k}
  BY <1>1, <1>2, <1>5, OneMore
<1>13. \A i \in Written("data")' : file'[i].of \in Output'
  BY <1>5, <1>12 DEF StoryInv, Artifact
<1>14. Output' \subseteq Ended' /\ Ended' \ Output' = {}
  BY <1>5, <1>10, <1>11, <1>12 DEF StoryInv
<1> QED
  BY <1>9, <1>10, <1>13, <1>14 DEF StoryInv

(* The tail brings neither a table nor data.                               *)
LEMMA TailTells ==
  ASSUME MergeIInv, StoryInv, TallyInv, WriteTail
  PROVE  StoryInv' /\ TallyInv'
<1>1. /\ file \in Seq(Units) /\ deferred \in Seq(Tables)
      /\ file' = (file \o Indexes) \o <<Unit("footer", 0, 0)>>
      /\ UNCHANGED <<conf, pc, art, channel, buffer, tally, reported>>
  BY DEF MergeIInv, TypeOK, WriteTail, workVars
<1> DEFINE n == Len(file)
           m == Len(deferred)
<1>2. /\ n \in Nat /\ m \in Nat /\ DOMAIN file = 1..n
      /\ DOMAIN file' = 1..(n + m + 1)
      /\ \A i \in 1..n : file'[i] = file[i]
      /\ \A k \in 1..m : file'[n + k] = Unit("index", deferred[k], 0)
      /\ file'[n + m + 1].what = "footer"
  <2>1. m \in Nat
    BY <1>1
  <2> QED
    BY <1>1, <2>1, TailUnits
<1> HIDE DEF n, m
<1>3. ASSUME NEW i \in DOMAIN file', i \notin 1..n
      PROVE  file'[i].what \in {"index", "footer"}
  <2>1. i = n + m + 1 \/ (i - n \in 1..m /\ n + (i - n) = i)
    BY <1>2, <1>3
  <2>2. CASE i = n + m + 1
    BY <1>2, <2>2
  <2>3. CASE i - n \in 1..m /\ n + (i - n) = i
    <3>1. file'[i] = Unit("index", deferred[i - n], 0)
      BY <1>2, <2>3
    <3> QED
      BY <3>1 DEF Unit
  <2> QED
    BY <2>1, <2>2, <2>3
<1>4. 1..n \subseteq DOMAIN file'
  BY <1>2
<1>5. Written("table")' = Written("table") /\ Written("data")' = Written("data")
  BY <1>2, <1>3, <1>4 DEF Written
<1>6. \A i \in Written("table") \cup Written("data") : i \in 1..n /\ file'[i] = file[i]
  BY <1>2 DEF Written
<1>7. Output' = Output /\ Ended' = Ended /\ OnItsWay' = OnItsWay
  BY <1>1, <1>5, <1>6 DEF Output, Ended, OnItsWay
<1>8. Kept' = Kept /\ Kept \subseteq Written("data")
  BY <1>1, <1>5, <1>6 DEF Kept
<1>9. SumFunctionOnSet(RowsIn', Kept) = SumFunctionOnSet(RowsIn, Kept)
  <2>1. \A i \in Kept : RowsIn'[i] = RowsIn[i]
    BY <1>2, <1>4, <1>6, <1>8 DEF RowsIn
  <2>2. IsFiniteSet(Kept)
    <3>1. IsFiniteSet(1..n)
      BY <1>2, FS_Interval
    <3>2. Kept \subseteq 1..n
      BY <1>6, <1>8
    <3> QED
      BY <3>1, <3>2, FS_Subset
  <2> QED
    BY <2>1, <2>2, SumsEqual
<1>10. StoryInv'
  BY <1>1, <1>5, <1>6, <1>7 DEF StoryInv
<1>11. TallyInv'
  BY <1>1, <1>7, <1>8, <1>9 DEF TallyInv
<1> QED
  BY <1>10, <1>11

(* TotalsInv is inductive, given MergeIInv.                                *)
LEMMA TotalsKept ==
  ASSUME MergeIInv, TotalsInv, [Next]_vars
  PROVE  TotalsInv'
<1> USE DEF workVars, mergeVars, outVars
<1>0. TypeOK /\ PipelineInv /\ StoryInv /\ TallyInv /\ EmptyInv
  BY DEF MergeIInv, TotalsInv
<1>1. CASE DrainNext
  <2>1. PICK a \in buffer : Merge(a)
    BY <1>1 DEF DrainNext
  <2>2. ~conf.serial /\ UNCHANGED <<conf, pc, art, channel, reported, main, result>>
        /\ main = "drain"
    BY <1>0, <1>1 DEF DrainNext, PipelineInv
  <2>3. StoryInv' /\ TallyInv'
    BY <1>0, <2>1, <2>2, MergeTells
  <2>4. EmptyInv'
    BY <1>0, <2>2 DEF EmptyInv
  <2> QED
    BY <2>3, <2>4 DEF TotalsInv
<1>2. CASE MergeRest /\ buffer # {}
  <2>1. PICK a \in buffer : Merge(a)
    BY <1>2 DEF MergeRest
  <2>2. ~conf.serial /\ UNCHANGED <<conf, pc, art, channel, reported, main, result>>
        /\ main = "rest"
    BY <1>0, <1>2 DEF MergeRest, PipelineInv
  <2>3. StoryInv' /\ TallyInv'
    BY <1>0, <2>1, <2>2, MergeTells
  <2>4. EmptyInv'
    BY <1>0, <2>2 DEF EmptyInv
  <2> QED
    BY <2>3, <2>4 DEF TotalsInv
<1>3. CASE WriteTail
  <2>1. StoryInv' /\ TallyInv'
    BY <1>0, <1>3, TailTells
  <2>2. EmptyInv'
    BY <1>0, <1>3 DEF WriteTail, EmptyInv, SendersGone
  <2> QED
    BY <2>1, <2>2 DEF TotalsInv
<1>4. CASE SerialTable
  <2>1. StoryInv' /\ TallyInv'
    BY <1>0, <1>4, SerialTells
  <2>2. EmptyInv'
    BY <1>0, <1>4 DEF SerialTable, EmptyInv
  <2> QED
    BY <2>1, <2>2 DEF TotalsInv
<1>5. CASE ReceiveArtifact
  <2>1. /\ UNCHANGED <<conf, file, tally, reported, pc, art, result>>
        /\ main = "recv" /\ main' = "drain"
        /\ channel # <<>> /\ channel \in Seq(Artifact)
        /\ buffer' = buffer \cup {Head(channel)} /\ channel' = Tail(channel)
    BY <1>0, <1>5 DEF ReceiveArtifact, TypeOK
  <2>2. OnItsWay' = OnItsWay
    <3>1. /\ Head(channel) = channel[1]
          /\ DOMAIN channel = 1..Len(channel) /\ Len(channel) \in Nat \ {0}
          /\ DOMAIN channel' = 1..(Len(channel) - 1)
          /\ \A i \in 1..(Len(channel) - 1) : channel'[i] = channel[i + 1]
      BY <2>1
    <3>2. \A i \in 1..(Len(channel) - 1) : i + 1 \in 1..Len(channel)
      BY <3>1
    <3>3. ASSUME NEW i \in 1..Len(channel), i # 1
          PROVE  i - 1 \in 1..(Len(channel) - 1) /\ channel'[i - 1] = channel[i]
      <4>1. i - 1 \in 1..(Len(channel) - 1) /\ (i - 1) + 1 = i
        BY <3>1, <3>3
      <4>2. channel'[i - 1] = channel[(i - 1) + 1]
        BY <3>1, <4>1
      <4> QED
        BY <4>1, <4>2
    <3>4. {channel[i] : i \in DOMAIN channel}
            = {channel'[i] : i \in DOMAIN channel'} \cup {Head(channel)}
      <4>1. 1 \in DOMAIN channel
        BY <3>1
      <4>2. ASSUME NEW i \in DOMAIN channel
            PROVE  channel[i] = Head(channel) \/ \E j \in DOMAIN channel' : channel[i] = channel'[j]
        <5>1. CASE i = 1
          BY <3>1, <5>1
        <5>2. CASE i # 1
          BY <3>1, <3>3, <5>2
        <5> QED
          BY <5>1, <5>2
      <4>3. ASSUME NEW j \in DOMAIN channel'
            PROVE  \E i \in DOMAIN channel : channel'[j] = channel[i]
        BY <3>1, <3>2
      <4>4. \E i \in DOMAIN channel : Head(channel) = channel[i]
        BY <3>1, <4>1
      <4> DEFINE h == Head(channel)
      <4> HIDE DEF h
      <4>5. /\ \A i \in DOMAIN channel :
                 channel[i] = h \/ \E j \in DOMAIN channel' : channel[i] = channel'[j]
            /\ \E i \in DOMAIN channel : h = channel[i]
        BY <4>2, <4>4 DEF h
      <4> DEFINE L == {channel[i] : i \in DOMAIN channel}
                 R == {channel'[i] : i \in DOMAIN channel'}
      <4>6. ASSUME NEW x \in L PROVE x \in R \cup {h}
        <5>1. PICK i \in DOMAIN channel : x = channel[i]
          OBVIOUS
        <5>2. CASE channel[i] = h
          BY <5>1, <5>2
        <5>3. CASE \E j \in DOMAIN channel' : channel[i] = channel'[j]
          BY <5>1, <5>3
        <5> QED
          BY <4>5, <5>2, <5>3
      <4>7. ASSUME NEW x \in R \cup {h} PROVE x \in L
        <5>1. CASE x = h
          BY <4>5, <5>1
        <5>2. CASE x \in R
          <6>1. PICK j \in DOMAIN channel' : x = channel'[j]
            BY <5>2
          <6> QED
            BY <4>3, <6>1
        <5> QED
          BY <5>1, <5>2
      <4>8. L = R \cup {h}
        <5> HIDE DEF L, R
        <5> QED
          BY <4>6, <4>7
      <4> QED
        BY <4>8 DEF h
    <3> QED
      BY <2>1, <3>4 DEF OnItsWay
  <2>3. EmptyInv'
    BY <1>0, <2>1 DEF EmptyInv
  <2> QED
    BY <1>0, <2>1, <2>2, <2>3, NothingTold DEF TotalsInv
<1>6. CASE \/ RequestStop \/ OpenSink \/ SerialEnds \/ Drained \/ ChannelCloses
           \/ (MergeRest /\ buffer = {}) \/ SinkFails \/ JoinWorkers \/ UNCHANGED vars
  <2>1. UNCHANGED <<conf, file, tally, reported, pc, art, channel, buffer>>
    BY <1>6 DEF RequestStop, OpenSink, SerialEnds, Drained, ChannelCloses, MergeRest, SinkFails,
       JoinWorkers, vars
  <2>2. OnItsWay' = OnItsWay
    BY <2>1 DEF OnItsWay
  <2>3. /\ main' \in {"tail", "written"} =>
             \/ main' = main
             \/ main = "table" /\ main' = "tail"
             \/ main = "rest" /\ main' = "tail" /\ buffer = {}
        /\ result' = "ok" => main' = "returned"
        /\ result' = "ok" => main = "written" \/ result = "ok"
    BY <1>0, <1>6 DEF RequestStop, OpenSink, SerialEnds, Drained, ChannelCloses, MergeRest, SinkFails,
       JoinWorkers, vars, EmptyInv
  <2>4. main = "table" => SendersGone /\ channel = <<>> /\ buffer = {}
    BY <1>0 DEF PipelineInv
  <2>5. main = "rest" => SendersGone /\ channel = <<>>
    BY <1>0 DEF PipelineInv
  <2>6. EmptyInv'
    BY <1>0, <2>1, <2>3, <2>4, <2>5 DEF EmptyInv, SendersGone
  <2> QED
    BY <1>0, <2>1, <2>2, <2>6, NothingTold DEF TotalsInv
<1> QED
  BY <1>1, <1>2, <1>3, <1>4, <1>5, <1>6, WorkerTells DEF Next, Merger, Finished

(* The totals of sql_dump:done, the table_done events and the output tell  *)
(* the same story when run_dump returns Ok, whichever tables failed or     *)
(* were left out by a stop, and however the workers were interleaved.      *)
THEOREM TotalsAreExact == Spec => []TotalsAgree
<1>1. Init => TotalsInv
  <2> SUFFICES ASSUME Init PROVE TotalsInv
    OBVIOUS
  <2>1. /\ \A w \in Workers : pc[w] # "send"
        /\ channel = <<>> /\ buffer = {} /\ file = <<>> /\ result = "none" /\ main = "open"
        /\ tally = [rows |-> 0, done |-> 0, failed |-> 0]
        /\ reported = [t \in Tables |-> "no"]
    BY DEF Init
  <2>2. OnItsWay = {} /\ Output = {} /\ Ended = {} /\ Written("data") = {}
    BY <2>1 DEF OnItsWay, Output, Ended, Written
  <2>3. StoryInv
    BY <2>2 DEF StoryInv
  <2>4. Kept = {} /\ {t \in Output : reported[t] = "error"} = {}
    BY <2>2 DEF Kept
  <2>5. SumFunctionOnSet(RowsIn, {}) = 0 /\ Cardinality({}) = 0
    BY FS_EmptySet, SumOfZeros
  <2>6. TallyInv
    BY <2>1, <2>2, <2>4, <2>5 DEF TallyInv
  <2>7. EmptyInv
    BY <2>1 DEF EmptyInv
  <2> QED
    BY <2>3, <2>6, <2>7 DEF TotalsInv
<1>2. MergeIInv /\ TotalsInv /\ [Next]_vars => TotalsInv'
  BY TotalsKept
<1>3. TotalsInv => TotalsAgree
  <2> SUFFICES ASSUME TotalsInv, result = "ok" PROVE TotalsAgree
    BY DEF TotalsAgree
  <2>1. StoryInv /\ TallyInv /\ SendersGone /\ channel = <<>> /\ buffer = {}
    BY DEF TotalsInv, EmptyInv
  <2>2. OnItsWay = {}
    BY <2>1 DEF OnItsWay, SendersGone
  <2>3. Output = Ended
    BY <2>1, <2>2 DEF StoryInv
  <2> QED
    BY <2>1, <2>3 DEF TallyInv, TotalsAgree
<1> QED
  BY <1>1, <1>2, <1>3, MergeInvariant, PTL DEF Spec
=============================================================================
