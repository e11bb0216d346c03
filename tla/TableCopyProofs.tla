-------------------------- MODULE TableCopyProofs --------------------------
(***************************************************************************)
(* Proofs about TableCopy, for every set of keys, number of ranges, chunk  *)
(* size and number of writes by other clients.                             *)
(***************************************************************************)
EXTENDS TableCopy, FiniteSetTheorems, SumTheorems, TLAPS

(* The rows of a page can be counted.                                      *)
LEMMA CountIsNat ==
  ASSUME NEW S \in SUBSET Keys
  PROVE  IsFiniteSet(S) /\ Cardinality(S) \in Nat
BY KeysAreIntegers, FS_Subset, FS_CardinalityType

(* The step of split_pk_ranges is at least one.                            *)
LEMMA SmallestStep ==
  ASSUME NEW span \in Int
  PROVE  (IF (span \div N) < 1 THEN 1 ELSE span \div N) \in Nat \ {0}
<1>1. span \div N \in Int
  BY NIsPositive
<1> QED
  BY <1>1

(* Rows added to a count give a count.                                     *)
LEMMA SumType ==
  ASSUME NEW S, NEW f \in [S -> Nat], NEW x \in S, NEW n \in Nat
  PROVE  [f EXCEPT ![x] = @ + n] \in [S -> Nat]
OBVIOUS

-----------------------------------------------------------------------------
(* The invariant holds before the first SELECT.                            *)
LEMMA InitCopy == Init => CopyIInv
<1> SUFFICES ASSUME Init PROVE CopyIInv
  OBVIOUS
<1> USE NIsPositive DEF Init
<1>1. CoreTypeOK
  <2>1. /\ source \in SUBSET Keys
        /\ touched \in SUBSET Keys
        /\ writes \in 0..MaxWrites
        /\ plan \in {"ranges", "keyset", "offset"}
    BY MaxWritesIsNat
  <2>4. stop \in BOOLEAN
    BY Zenon
  <2>5. phase \in {"minmax", "split", "copy", "returned"}
    OBVIOUS
  <2>2. /\ cur \in Int /\ made \in 0..N /\ step \in Nat \ {0} /\ top \in Int
        /\ lo \in [Copiers -> Int]
        /\ hi \in [Copiers -> Int]
    OBVIOUS
  <2>3. /\ at \in [Copiers -> {"off", "check", "insert", "ok", "err"}]
        /\ last \in [Copiers -> Keys \cup {None}]
        /\ page \in [Copiers -> SUBSET Keys]
        /\ todo \in [Copiers -> SUBSET Keys]
        /\ moved \in [Copiers -> Nat]
        /\ copies \in [Keys -> Nat]
        /\ result \in {"none", "ok", "err"}
    OBVIOUS
  <2> QED
    BY <2>1, <2>2, <2>3, <2>4, <2>5 DEF CoreTypeOK
<1>2. PhaseInv
  BY DEF PhaseInv, Active, Copiers
<1>3. SplitInv
  BY DEF SplitInv, Copiers
<1>4. BoundsInv
  BY DEF BoundsInv
<1>5. PageInv
  BY DEF PageInv, Active, Copiers
<1>6. OnceInv
  BY DEF OnceInv, Scope
<1>7. PassedInv
  BY DEF PassedInv, Behind, Copiers, Active, Stable
<1> QED
  BY <1>1, <1>2, <1>3, <1>4, <1>5, <1>6, <1>7 DEF CopyIInv

(* Every step keeps the types.                                             *)
LEMMA TypeStep == CoreTypeOK /\ [Next]_vars => CoreTypeOK'
<1> SUFFICES ASSUME CoreTypeOK, [Next]_vars
             PROVE  CoreTypeOK'
  OBVIOUS
<1> USE NIsPositive, KeysAreIntegers DEF CoreTypeOK, Copiers
<1>1. ASSUME NEW k \in Keys, SourceWrite(k)
      PROVE  CoreTypeOK'
  <2>1. /\ source' \in SUBSET Keys /\ touched' \in SUBSET Keys
        /\ writes' = writes + 1 /\ writes < MaxWrites
    BY <1>1 DEF SourceWrite
  <2>2. UNCHANGED <<stop, plan, phase, lo, hi, cur, made, step, top, at, last, page, todo,
                    moved, copies, result>>
    BY <1>1 DEF SourceWrite, splitVars, copierVars, outcome
  <2>3. writes' \in 0..MaxWrites
    BY <2>1, MaxWritesIsNat
  <2> QED
    BY <2>1, <2>2, <2>3
<1>2. CASE RequestStop \/ UNCHANGED vars
  BY <1>2 DEF RequestStop, vars, splitVars, copierVars, outcome
<1>3. CASE MinMax
  <2>1. PICK min \in source, max \in source :
          /\ cur' = min
          /\ top' = max + 1
          /\ step' = IF ((max - min + 1) \div N) < 1 THEN 1 ELSE (max - min + 1) \div N
    BY <1>3 DEF MinMax, StepOf, TopOf
  <2>2. min \in Int /\ max \in Int
    OBVIOUS
  <2>3. step' \in Nat \ {0}
    BY <2>1, <2>2, SmallestStep
  <2>4. cur' \in Int /\ top' \in Int
    BY <2>1, <2>2
  <2>5. /\ made' = 0 /\ phase' = "split"
        /\ UNCHANGED <<source, touched, writes, stop, plan, lo, hi, at, last, page, todo,
                       moved, copies, result>>
    BY <1>3 DEF MinMax, copierVars, outcome
  <2>6. made' \in 0..N
    BY <2>5
  <2> HIDE DEF StepOf, TopOf
  <2> QED
    BY <2>3, <2>4, <2>5, <2>6
<1>4. CASE MinMaxFallsBack \/ MinMaxFails
  BY <1>4 DEF MinMaxFallsBack, MinMaxFails, splitVars, copierVars, outcome
<1>5. CASE SplitStep
  <2>1. made' \in 0..N /\ cur' \in Int
    BY <1>5 DEF SplitStep, High
  <2>2. lo' \in [Copiers -> Int] /\ hi' \in [Copiers -> Int]
    BY <1>5 DEF SplitStep, High
  <2>3. /\ at' \in [Copiers -> {"off", "check", "insert", "ok", "err"}]
        /\ phase' \in {"minmax", "split", "copy", "returned"}
    BY <1>5 DEF SplitStep, High
  <2> QED
    BY <1>5, <2>1, <2>2, <2>3 DEF SplitStep, High, outcome
<1>6. CASE Join
  <2>1. /\ phase' \in {"minmax", "split", "copy", "returned"}
        /\ result' \in {"none", "ok", "err"}
    BY <1>6 DEF Join, CopiersEnded
  <2>2. UNCHANGED <<source, touched, writes, stop, plan, splitVars, copierVars, copies>>
    BY <1>6 DEF Join, CopiersEnded
  <2> QED
    BY <2>1, <2>2 DEF splitVars, copierVars
<1>7. ASSUME NEW w \in Copiers, Select(w)
      PROVE  CoreTypeOK'
  <2>1. page' \in [Copiers -> SUBSET Keys] /\ todo' \in [Copiers -> SUBSET Keys]
    BY <1>7 DEF Select
  <2> QED
    BY <1>7, <2>1 DEF Select, splitVars, outcome
<1>8. ASSUME NEW w \in Copiers, LeaveLoop(w) \/ CopierFails(w)
      PROVE  CoreTypeOK'
  <2>1. at' \in [Copiers -> {"off", "check", "insert", "ok", "err"}]
    BY <1>8 DEF LeaveLoop, CopierFails
  <2>2. UNCHANGED <<source, touched, writes, stop, plan, phase, splitVars, last, page, todo,
                    moved, copies, outcome>>
    BY <1>8 DEF LeaveLoop, CopierFails
  <2> QED
    BY <2>1, <2>2 DEF splitVars, outcome
<1>9. ASSUME NEW w \in Copiers, Insert(w)
      PROVE  CoreTypeOK'
  <2>1. PICK b \in SUBSET todo[w] :
          /\ copies' = [k \in Keys |-> IF k \in b THEN copies[k] + 1 ELSE copies[k]]
          /\ todo' = [todo EXCEPT ![w] = @ \ b]
          /\ b = todo[w] =>
               /\ \E k \in page[w] : last' = [last EXCEPT ![w] = k]
               /\ moved' = [moved EXCEPT ![w] = @ + Cardinality(page[w])]
               /\ at' = [at EXCEPT ![w] =
                           IF Cardinality(page[w]) < Chunk THEN "ok" ELSE "check"]
          /\ b # todo[w] => UNCHANGED <<last, moved, at>>
    BY <1>9 DEF Insert, PageRows
  <2>2. Cardinality(page[w]) \in Nat
    BY CountIsNat
  <2>3. copies' \in [Keys -> Nat] /\ todo' \in [Copiers -> SUBSET Keys]
    <3>1. \A k \in Keys : (IF k \in b THEN copies[k] + 1 ELSE copies[k]) \in Nat
      OBVIOUS
    <3>2. copies' \in [Keys -> Nat]
      BY <2>1, <3>1
    <3>3. todo[w] \ b \in SUBSET Keys
      OBVIOUS
    <3>4. todo' \in [Copiers -> SUBSET Keys]
      BY <2>1, <3>3
    <3> QED
      BY <3>2, <3>4
  <2>4. /\ last' \in [Copiers -> Keys \cup {None}]
        /\ moved' \in [Copiers -> Nat]
        /\ at' \in [Copiers -> {"off", "check", "insert", "ok", "err"}]
    <3>1. CASE b = todo[w]
      <4>1. PICK k \in page[w] : last' = [last EXCEPT ![w] = k]
        BY <2>1, <3>1
      <4>2. last' \in [Copiers -> Keys \cup {None}]
        BY <4>1
      <4>3. moved' \in [Copiers -> Nat]
        <5>1. moved \in [Copiers -> Nat]
          OBVIOUS
        <5>2. moved' = [moved EXCEPT ![w] = @ + Cardinality(page[w])]
          BY <2>1, <3>1
        <5> QED
          BY <2>2, <5>1, <5>2, SumType
      <4>4. at' \in [Copiers -> {"off", "check", "insert", "ok", "err"}]
        BY <2>1, <3>1
      <4> QED
        BY <4>2, <4>3, <4>4
    <3>2. CASE b # todo[w]
      BY <2>1, <3>2
    <3> QED
      BY <3>1, <3>2
  <2> QED
    BY <1>9, <2>3, <2>4 DEF Insert, PageRows, splitVars, outcome
<1> QED
  BY <1>1, <1>2, <1>3, <1>4, <1>5, <1>6, <1>7, <1>8, <1>9
     DEF Next, Orchestrate, Copier, Finished

(* Every step keeps the phases in order.                                   *)
LEMMA PhaseStep == CoreTypeOK /\ PhaseInv /\ [Next]_vars => PhaseInv'
<1> SUFFICES ASSUME CoreTypeOK, PhaseInv, [Next]_vars
             PROVE  PhaseInv'
  OBVIOUS
<1> USE NIsPositive DEF CoreTypeOK, PhaseInv, Active, Copiers
<1>1. CASE \/ \E k \in Keys : SourceWrite(k)
           \/ RequestStop
           \/ UNCHANGED vars
  BY <1>1 DEF SourceWrite, RequestStop, vars, splitVars, copierVars, outcome
<1>2. CASE MinMax
  BY <1>2 DEF MinMax, StepOf, TopOf, copierVars, outcome
<1>3. CASE MinMaxFallsBack
  BY <1>3 DEF MinMaxFallsBack, splitVars, outcome
<1>4. CASE MinMaxFails
  BY <1>4 DEF MinMaxFails, splitVars, copierVars
<1>5. CASE SplitStep
  <2>1. /\ phase = "split" /\ plan = "ranges" /\ result = "none" /\ made < N
        /\ made' = made + 1
        /\ phase' = IF made + 1 = N THEN "copy" ELSE "split"
        /\ made + 1 = N => cur' = top
        /\ UNCHANGED <<plan, top, result>>
    BY <1>5 DEF SplitStep, High, outcome
  <2>2. ASSUME NEW w \in Copiers
        PROVE  /\ at'[w] \in {"off", "check"}
               /\ at'[w] # "off" => w <= made'
    <3>1. at' = at \/ at' = [at EXCEPT ![made + 1] = "check"]
      BY <1>5 DEF SplitStep, High
    <3>2. at[w] \in {"off", "check"} /\ (at[w] # "off" => w <= made)
      BY <2>1
    <3>3. at'[w] = at[w] \/ (w = made + 1 /\ at'[w] = "check")
      BY <3>1
    <3> QED
      BY <2>1, <3>2, <3>3
  <2> QED
    BY <2>1, <2>2
<1>6. CASE Join
  <2>1. /\ phase = "copy" /\ phase' = "returned"
        /\ UNCHANGED <<plan, made, cur, top, at>>
        /\ \A w \in Copiers : at[w] \in {"off", "ok", "err"}
        /\ result' = "ok" => \A w \in Copiers : at[w] # "err"
    BY <1>6 DEF Join, CopiersEnded, splitVars, copierVars
  <2> QED
    BY <2>1
<1>7. ASSUME NEW w \in Copiers, Copier(w)
      PROVE  PhaseInv'
  <2>1. /\ UNCHANGED <<phase, plan, made, cur, top, result>>
        /\ phase = "copy"
        /\ at[w] # "off"
        /\ \E p \in {"check", "insert", "ok", "err"} : at' = [at EXCEPT ![w] = p]
    <3>1. CASE Select(w)
      BY <3>1 DEF Select, splitVars, outcome
    <3>2. CASE LeaveLoop(w)
      BY <3>2 DEF LeaveLoop, splitVars, outcome
    <3>3. CASE CopierFails(w)
      BY <3>3 DEF CopierFails, splitVars, outcome
    <3>4. CASE Insert(w)
      <4>1. /\ UNCHANGED <<phase, plan, made, cur, top, result>>
            /\ phase = "copy" /\ at[w] = "insert"
            /\ \/ at' = at
               \/ at' = [at EXCEPT ![w] =
                           IF Cardinality(page[w]) < Chunk THEN "ok" ELSE "check"]
        BY <3>4 DEF Insert, splitVars, outcome
      <4>2. at = [at EXCEPT ![w] = "insert"]
        BY <4>1
      <4> QED
        BY <4>1, <4>2
    <3> QED
      BY <1>7, <3>1, <3>2, <3>3, <3>4 DEF Copier
  <2>2. PICK p \in {"check", "insert", "ok", "err"} : at' = [at EXCEPT ![w] = p]
    BY <2>1
  <2>3. at'[w] = p /\ \A v \in Copiers : v # w => at'[v] = at[v]
    BY <2>2
  <2> QED
    BY <2>1, <2>3
<1> QED
  BY <1>1, <1>2, <1>3, <1>4, <1>5, <1>6, <1>7 DEF Next, Orchestrate, Finished

-----------------------------------------------------------------------------
(* The split and the bounds.                                               *)

(* The types of the ranges, over 1..N.                                     *)
LEMMA SplitTypes ==
  ASSUME CoreTypeOK
  PROVE  /\ Keys \subseteq Int /\ N \in Nat \ {0}
         /\ cur \in Int /\ made \in 0..N /\ step \in Nat \ {0} /\ top \in Int
         /\ lo \in [1..N -> Int] /\ hi \in [1..N -> Int]
         /\ at \in [1..N -> {"off", "check", "insert", "ok", "err"}]
BY NIsPositive, KeysAreIntegers DEF CoreTypeOK, Copiers

(* A further range continues where the last one ended.                     *)
LEMMA SplitStepKeepsSplit ==
  ASSUME CoreTypeOK, PhaseInv, SplitInv, SplitStep
  PROVE  SplitInv'
<1> DEFINE w == made + 1
           high == IF w = N \/ cur + step > top THEN top ELSE cur + step
<1>1. /\ phase = "split" /\ plan = "ranges" /\ made < N
      /\ lo' = [lo EXCEPT ![w] = cur]
      /\ hi' = [hi EXCEPT ![w] = high]
      /\ at' = IF cur < high THEN [at EXCEPT ![w] = "check"] ELSE at
      /\ cur' = high
      /\ made' = w
      /\ phase' = IF w = N THEN "copy" ELSE phase
      /\ UNCHANGED <<step, top, plan>>
  BY DEF SplitStep, High, PhaseInv
<1>2. /\ cur <= top
      /\ \A u \in 1..N : u <= made => lo[u] <= hi[u] /\ hi[u] <= cur
      /\ \A v \in 1..N, u \in 1..N : v < u /\ u <= made => hi[v] <= lo[u]
      /\ \A k \in Keys : made > 0 /\ lo[1] <= k /\ k < cur =>
           \E u \in 1..N : at[u] # "off" /\ lo[u] <= k /\ k < hi[u]
  BY <1>1 DEF SplitInv, Copiers, Active
<1>3. w \in 1..N /\ high \in Int /\ cur <= high /\ high <= top
  BY <1>1, <1>2, SplitTypes
<1> HIDE DEF high
<1>4. \A u \in 1..N : u # w => lo'[u] = lo[u] /\ hi'[u] = hi[u] /\ at'[u] = at[u]
  BY <1>1, SplitTypes
<1>5. lo'[w] = cur /\ hi'[w] = high /\ (cur < high => at'[w] = "check")
  BY <1>1, <1>3, SplitTypes
<1>6. \A u \in 1..N : u <= made' => lo'[u] <= hi'[u] /\ hi'[u] <= cur'
  <2> SUFFICES ASSUME NEW u \in 1..N, u <= made'
               PROVE  lo'[u] <= hi'[u] /\ hi'[u] <= cur'
    OBVIOUS
  <2>1. CASE u = w
    BY <1>1, <1>3, <1>5, <2>1
  <2>2. CASE u # w
    <3>1. u <= made
      BY <1>1, <2>2, SplitTypes
    <3>2. lo[u] <= hi[u] /\ hi[u] <= cur /\ hi[u] \in Int
      BY <1>2, <3>1, SplitTypes
    <3> QED
      BY <1>1, <1>3, <1>4, <2>2, <3>2, SplitTypes
  <2> QED
    BY <2>1, <2>2
<1>7. \A v \in 1..N, u \in 1..N : v < u /\ u <= made' => hi'[v] <= lo'[u]
  <2> SUFFICES ASSUME NEW v \in 1..N, NEW u \in 1..N, v < u, u <= made'
               PROVE  hi'[v] <= lo'[u]
    OBVIOUS
  <2>1. v # w /\ v <= made
    BY <1>1, SplitTypes
  <2>2. CASE u = w
    BY <1>2, <1>4, <1>5, <2>1, <2>2
  <2>3. CASE u # w
    <3>1. u <= made
      BY <1>1, <2>3, SplitTypes
    <3> QED
      BY <1>2, <1>4, <2>1, <2>3, <3>1
  <2> QED
    BY <2>2, <2>3
<1>8. \A k \in Keys : lo'[1] <= k /\ k < cur' =>
        \E u \in 1..N : at'[u] # "off" /\ lo'[u] <= k /\ k < hi'[u]
  <2> SUFFICES ASSUME NEW k \in Keys, lo'[1] <= k, k < cur'
               PROVE  \E u \in 1..N : at'[u] # "off" /\ lo'[u] <= k /\ k < hi'[u]
    OBVIOUS
  <2>0. k \in Int
    BY SplitTypes
  <2>1. CASE cur <= k
    BY <1>1, <1>3, <1>5, <2>0, <2>1, SplitTypes
  <2>2. CASE k < cur
    <3>1. made > 0 /\ 1 # w
      <4>1. CASE made = 0
        BY <1>5, <2>0, <2>2, <4>1, SplitTypes
      <4> QED
        BY <4>1, SplitTypes
    <3>2. lo[1] <= k
      BY <1>4, <3>1, SplitTypes
    <3>3. PICK u \in 1..N : at[u] # "off" /\ lo[u] <= k /\ k < hi[u]
      BY <1>2, <2>2, <3>1, <3>2
    <3>4. CASE u = w
      <4>1. at[w] = "off"
        BY <1>1, <1>3, SplitTypes DEF PhaseInv, Active, Copiers
      <4> QED
        BY <3>3, <3>4, <4>1
    <3>5. CASE u # w
      BY <1>4, <3>3, <3>5
    <3> QED
      BY <3>4, <3>5
  <2> QED
    BY <2>0, <2>1, <2>2, SplitTypes
<1>9. phase' = "split" => cur' <= top' /\ made' < N
  BY <1>1, <1>3, SplitTypes
<1> QED
  BY <1>6, <1>7, <1>8, <1>9 DEF SplitInv, Copiers, Active

-----------------------------------------------------------------------------
(* The page loop.                                                          *)

KeysetInv == SplitInv /\ BoundsInv /\ PageInv /\ OnceInv /\ PassedInv

(* Two copiers never read the same key.                                    *)
LEMMA OneScope ==
  ASSUME CoreTypeOK, PhaseInv, SplitInv, plan # "offset",
         NEW v \in Copiers, NEW w \in Copiers, Active(v), Active(w),
         NEW k \in Keys, k \in Scope(v), k \in Scope(w)
  PROVE  v = w
<1>1. CASE plan = "ranges"
  <2>1. k \in Int /\ v \in Int /\ w \in Int
    BY SplitTypes DEF Copiers
  <2>2. /\ lo[v] <= k /\ k < hi[v] /\ v <= made
        /\ lo[w] <= k /\ k < hi[w] /\ w <= made
    BY <1>1 DEF Scope, PhaseInv
  <2>3. \A a \in Copiers, b \in Copiers : a < b /\ b <= made => hi[a] <= lo[b]
    BY <1>1 DEF SplitInv
  <2>4. /\ lo[v] \in Int /\ hi[v] \in Int
        /\ lo[w] \in Int /\ hi[w] \in Int
    BY SplitTypes DEF Copiers
  <2> QED
    BY <2>1, <2>2, <2>3, <2>4
<1>2. CASE plan # "ranges"
  BY <1>2 DEF PhaseInv
<1> QED
  BY <1>1, <1>2

(* Once the split is done every row that stays has its copier.             *)
LEMMA Covered ==
  ASSUME CoreTypeOK, PhaseInv, SplitInv, BoundsInv, plan # "offset",
         phase = "copy" \/ result = "ok", NEW k \in Stable
  PROVE  \E w \in Copiers : Active(w) /\ k \in Scope(w)
<1>1. k \in Keys
  BY DEF Stable, CoreTypeOK
<1>2. CASE plan = "ranges"
  <2>1. made > 0 /\ cur = top
    BY <1>2, SplitTypes DEF PhaseInv
  <2>2. lo[1] <= k /\ k < top
    BY <1>2, <2>1, SplitTypes DEF BoundsInv
  <2> QED
    BY <1>1, <1>2, <2>1, <2>2 DEF SplitInv, Scope
<1>3. CASE plan # "ranges"
  BY <1>1, <1>3, NIsPositive DEF PhaseInv, Active, Scope, Copiers
<1> QED
  BY <1>2, <1>3

(* A write to the source, or a stop, only takes rows out of Stable.        *)
LEMMA WorldKeeps ==
  ASSUME CoreTypeOK, KeysetInv,
         \/ \E k \in Keys : SourceWrite(k)
         \/ RequestStop
         \/ UNCHANGED vars
  PROVE  KeysetInv'
<1>1. /\ UNCHANGED <<plan, phase, lo, hi, cur, made, step, top, at, last, page, todo,
                     moved, copies, result>>
      /\ stop => stop'
  BY DEF SourceWrite, RequestStop, vars, splitVars, copierVars, outcome
<1>2. Stable' \subseteq Stable
  BY DEF Stable, CoreTypeOK, SourceWrite, RequestStop, vars
<1>3. \A w \in Copiers : Scope(w)' = Scope(w) /\ Active(w)' = Active(w)
  BY <1>1 DEF Scope, Active
<1>4. SplitInv'
  BY <1>1, <1>3 DEF KeysetInv, SplitInv
<1>5. BoundsInv'
  BY <1>1, <1>2 DEF KeysetInv, BoundsInv
<1>6. PageInv'
  BY <1>1, <1>3 DEF KeysetInv, PageInv
<1>7. OnceInv'
  BY <1>1, <1>3 DEF KeysetInv, OnceInv, Behind
<1>8. PassedInv'
  BY <1>1, <1>2, <1>3 DEF KeysetInv, PassedInv, Behind
<1> QED
  BY <1>4, <1>5, <1>6, <1>7, <1>8 DEF KeysetInv

(* Before the copy starts nobody has a page and nothing was delivered.     *)
LEMMA Pristine ==
  ASSUME CoreTypeOK, PhaseInv, KeysetInv, phase \in {"minmax", "split"}
  PROVE  /\ \A w \in Copiers : page[w] = {} /\ todo[w] = {} /\ last[w] = None
         /\ \A k \in Keys : copies[k] = 0
BY DEF KeysetInv, OnceInv, PageInv

(* The steps before the copy: no page, no delivery, only bounds and ranges.*)
LEMMA SplitKeeps ==
  ASSUME CoreTypeOK, PhaseInv, KeysetInv, MinMax \/ MinMaxFallsBack \/ SplitStep
  PROVE  KeysetInv'
<1>1. phase \in {"minmax", "split"} /\ plan = "ranges"
  BY DEF PhaseInv, MinMax, StepOf, TopOf, MinMaxFallsBack, SplitStep, High
<1>2. /\ \A w \in Copiers : page[w] = {} /\ todo[w] = {} /\ last[w] = None
      /\ \A k \in Keys : copies[k] = 0
  BY <1>1, Pristine
<1>3. UNCHANGED <<source, touched, stop, last, page, todo, copies>>
  BY DEF MinMax, StepOf, TopOf, MinMaxFallsBack, SplitStep, High, splitVars, copierVars
<1>4. \A w \in Copiers : at'[w] \in {"off", "check"}
  <2>1. \A w \in Copiers : at[w] \in {"off", "check"}
    BY <1>1 DEF PhaseInv
  <2>2. at' = at \/ \E w \in Copiers : at' = [at EXCEPT ![w] = "check"]
    BY SplitTypes DEF MinMax, StepOf, TopOf, MinMaxFallsBack, SplitStep, High,
       copierVars, Copiers
  <2> QED
    BY <2>1, <2>2, SplitTypes DEF Copiers
<1>5. PageInv'
  BY <1>2, <1>3, <1>4 DEF PageInv
<1>6. OnceInv'
  BY <1>2, <1>3 DEF OnceInv, Scope
<1>7. PassedInv'
  BY <1>2, <1>3, <1>4 DEF PassedInv, Behind
<1>8. SplitInv'
  <2>1. CASE MinMax
    <3>1. PICK min \in source, max \in source :
            min < max /\ cur' = min /\ top' = max + 1
      BY <2>1 DEF MinMax, StepOf, TopOf
    <3>2. min \in Int /\ max \in Int
      BY SplitTypes DEF CoreTypeOK
    <3>3. made' = 0 /\ cur' <= top'
      BY <2>1, <3>1, <3>2 DEF MinMax, StepOf, TopOf
    <3>4. \A w \in Copiers : ~(w <= made')
      BY <3>3 DEF Copiers
    <3> QED
      BY <3>3, <3>4, SplitTypes DEF SplitInv
  <2>2. CASE MinMaxFallsBack
    BY <2>2 DEF MinMaxFallsBack, SplitInv
  <2>3. CASE SplitStep
    BY <2>3, SplitStepKeepsSplit DEF KeysetInv
  <2> QED
    BY <2>1, <2>2, <2>3
<1>9. BoundsInv'
  <2>0. Stable' = Stable /\ Stable \subseteq source /\ source \subseteq Int
    BY <1>3, SplitTypes DEF Stable, CoreTypeOK
  <2>1. CASE MinMax
    <3>1. PICK min \in source, max \in source :
            /\ \A k \in source : min <= k /\ k <= max
            /\ cur' = min
            /\ top' = max + 1
      BY <2>1 DEF MinMax, StepOf, TopOf
    <3>2. made' = 0
      BY <2>1 DEF MinMax, StepOf, TopOf
    <3> QED
      BY <2>0, <3>1, <3>2 DEF BoundsInv
  <2>2. CASE MinMaxFallsBack
    BY <2>2 DEF MinMaxFallsBack, BoundsInv
  <2>3. CASE SplitStep
    <3>1. /\ phase = "split" /\ made' = made + 1 /\ top' = top
          /\ lo' = [lo EXCEPT ![made + 1] = cur]
      BY <2>3 DEF SplitStep, High
    <3>2. made' # 0 /\ lo'[1] = IF made = 0 THEN cur ELSE lo[1]
      BY <2>3, <3>1, SplitTypes DEF SplitStep, High
    <3>3. \A k \in Stable : (IF made = 0 THEN cur ELSE lo[1]) <= k /\ k < top
      BY <1>1, <3>1 DEF KeysetInv, BoundsInv
    <3> QED
      BY <2>0, <3>1, <3>2, <3>3 DEF BoundsInv
  <2> QED
    BY <2>1, <2>2, <2>3
<1> QED
  BY <1>5, <1>6, <1>7, <1>8, <1>9 DEF KeysetInv

(* Joining the copiers leaves their ranges and pages alone.                *)
LEMMA JoinKeeps ==
  ASSUME CoreTypeOK, PhaseInv, KeysetInv, Join \/ MinMaxFails
  PROVE  KeysetInv'
<1>1. /\ UNCHANGED <<source, touched, stop, plan, lo, hi, cur, made, step, top, at, last,
                     page, todo, moved, copies>>
      /\ phase' = "returned"
      /\ result' = "ok" => phase = "copy"
  BY DEF Join, CopiersEnded, MinMaxFails, splitVars, copierVars
<1>2. \A w \in Copiers : Scope(w)' = Scope(w) /\ Active(w)' = Active(w)
  BY <1>1 DEF Scope, Active
<1>3. Stable' = Stable
  BY <1>1 DEF Stable
<1> QED
  BY <1>1, <1>2, <1>3
     DEF KeysetInv, SplitInv, BoundsInv, PageInv, OnceInv, PassedInv, Behind

(* A copier's step changes nothing the split has fixed.                    *)
LEMMA CopierFrame ==
  ASSUME CoreTypeOK, KeysetInv, NEW w \in Copiers, Copier(w)
  PROVE  /\ UNCHANGED <<source, touched, stop, plan, phase, lo, hi, cur, made, step, top,
                        result>>
         /\ phase = "copy" /\ Active(w)
         /\ \A v \in Copiers : Scope(v)' = Scope(v) /\ Active(v)' = Active(v)
         /\ \A v \in Copiers : v # w => /\ at'[v] = at[v] /\ last'[v] = last[v]
                                       /\ page'[v] = page[v] /\ todo'[v] = todo[v]
         /\ Stable' = Stable
         /\ SplitInv' /\ BoundsInv'
<1>1. UNCHANGED <<source, touched, stop, plan, phase, lo, hi, cur, made, step, top, result>>
  BY DEF Copier, Select, LeaveLoop, Insert, PageRows, CopierFails, splitVars, outcome
<1>2. phase = "copy" /\ at[w] \in {"check", "insert"} /\ at'[w] # "off"
  BY DEF Copier, Select, LeaveLoop, Insert, PageRows, CopierFails, CoreTypeOK
<1>3. \A v \in Copiers : v # w => /\ at'[v] = at[v] /\ last'[v] = last[v]
                                 /\ page'[v] = page[v] /\ todo'[v] = todo[v]
  BY DEF Copier, Select, LeaveLoop, Insert, PageRows, CopierFails, CoreTypeOK
<1>4. \A v \in Copiers : Scope(v)' = Scope(v)
  BY <1>1 DEF Scope
<1>5. \A v \in Copiers : Active(v)' = Active(v)
  BY <1>2, <1>3 DEF Active
<1>6. Stable' = Stable
  BY <1>1 DEF Stable
<1>7. SplitInv'
  BY <1>1, <1>5 DEF KeysetInv, SplitInv
<1>8. BoundsInv'
  BY <1>1, <1>6 DEF KeysetInv, BoundsInv
<1> QED
  BY <1>1, <1>2, <1>3, <1>4, <1>5, <1>6, <1>7, <1>8 DEF Active

(* A page is what lies beyond last_key; a row that stays and is not on it  *)
(* comes after it, and only a full page leaves one out.                    *)
LEMMA SelectKeeps ==
  ASSUME CoreTypeOK, PhaseInv, KeysetInv, plan # "offset", NEW w \in Copiers, Select(w)
  PROVE  KeysetInv'
<1> DEFINE b == page'[w]
<1>1. /\ UNCHANGED <<stop, phase, plan>>
      /\ \A v \in Copiers : Scope(v)' = Scope(v) /\ Active(v)' = Active(v)
      /\ \A v \in Copiers : v # w => /\ at'[v] = at[v] /\ last'[v] = last[v]
                                    /\ page'[v] = page[v] /\ todo'[v] = todo[v]
      /\ Stable' = Stable
      /\ SplitInv' /\ BoundsInv'
      /\ phase = "copy" /\ Active(w)
  BY CopierFrame DEF Copier
<1>2. /\ at[w] = "check" /\ at'[w] = "insert"
      /\ copies' = copies /\ last' = last
      /\ b # {} /\ todo'[w] = b
      /\ IsFirst(b, Unread(w), Chunk)
  BY DEF Select, IsPage, CoreTypeOK
<1>3. /\ b \subseteq source \cap Scope(w)
      /\ \A k \in b : last[w] # None => k > last[w]
      /\ \A x \in b, y \in Unread(w) \ b : x < y
      /\ Cardinality(b) = Chunk \/ b = Unread(w)
  BY <1>2 DEF IsFirst, Unread
<1>4. \A k \in page[w] : last[w] # None /\ k <= last[w]
  BY <1>2 DEF KeysetInv, PageInv
<1> HIDE DEF b
<1>5. PageInv'
  <2>1. ASSUME NEW v \in Copiers, v # w
        PROVE  /\ page'[v] \subseteq Scope(v)'
               /\ todo'[v] \subseteq page'[v]
               /\ ~Active(v)' \/ phase' \in {"minmax", "split"} =>
                    page'[v] = {} /\ last'[v] = None
               /\ at'[v] = "insert" =>
                    todo'[v] # {} /\ \A k \in page'[v] : last'[v] # None => k > last'[v]
               /\ at'[v] \in {"check", "ok"} =>
                    \A k \in page'[v] : last'[v] # None /\ k <= last'[v]
    BY <1>1, <2>1 DEF KeysetInv, PageInv
  <2>2. /\ page'[w] \subseteq Scope(w)'
        /\ todo'[w] \subseteq page'[w]
        /\ Active(w)' /\ phase' = "copy"
        /\ at'[w] = "insert"
        /\ todo'[w] # {} /\ \A k \in page'[w] : last'[w] # None => k > last'[w]
    BY <1>1, <1>2, <1>3 DEF b
  <2> QED
    BY <2>1, <2>2 DEF PageInv
<1>6. \A v \in Copiers, k \in Keys : Behind(v, k)' <=> Behind(v, k)
  <2> SUFFICES ASSUME NEW v \in Copiers, NEW k \in Keys
               PROVE  Behind(v, k)' <=> Behind(v, k)
    OBVIOUS
  <2>1. CASE v # w
    BY <1>1, <2>1 DEF Behind
  <2>2. CASE v = w
    BY <1>2, <1>4, <2>2 DEF Behind, b
  <2> QED
    BY <2>1, <2>2
<1>7. OnceInv'
  BY <1>1, <1>2, <1>6 DEF KeysetInv, OnceInv, Scope
<1>8. PassedInv'
  <2> SUFFICES ASSUME NEW v \in Copiers, Active(v), NEW k \in Stable \cap Scope(v)
               PROVE  /\ Behind(v, k)' => copies'[k] = 1
                      /\ at'[v] = "insert" /\ k \notin page'[v]
                           /\ (last'[v] # None => k > last'[v]) =>
                           Cardinality(page'[v]) = Chunk /\ \A x \in page'[v] : x < k
                      /\ at'[v] = "ok" /\ ~stop' => Behind(v, k)'
    BY <1>1 DEF PassedInv
  <2>0. k \in Keys /\ k \in source
    BY DEF Stable, CoreTypeOK
  <2>1. Behind(v, k)' => copies'[k] = 1
    BY <1>2, <1>6, <2>0 DEF KeysetInv, PassedInv
  <2>2. CASE v # w
    BY <1>1, <1>6, <2>0, <2>1, <2>2 DEF KeysetInv, PassedInv
  <2>3. CASE v = w
    <3>1. ASSUME k \notin b, last[w] # None => k > last[w]
          PROVE  Cardinality(b) = Chunk /\ \A x \in b : x < k
      <4>1. k \in Unread(w)
        BY <2>0, <2>3, <3>1 DEF Unread
      <4> QED
        BY <1>3, <3>1, <4>1
    <3> QED
      BY <1>2, <2>1, <2>3, <3>1 DEF b
  <2> QED
    BY <2>2, <2>3
<1> QED
  BY <1>1, <1>5, <1>7, <1>8 DEF KeysetInv

(* An empty page means that every row that stays is behind its copier.     *)
LEMMA LeaveKeeps ==
  ASSUME CoreTypeOK, PhaseInv, KeysetInv, plan # "offset", NEW w \in Copiers,
         LeaveLoop(w) \/ CopierFails(w)
  PROVE  KeysetInv'
<1>1. /\ UNCHANGED <<stop, phase, plan>>
      /\ \A v \in Copiers : Scope(v)' = Scope(v) /\ Active(v)' = Active(v)
      /\ \A v \in Copiers : v # w => at'[v] = at[v]
      /\ Stable' = Stable
      /\ SplitInv' /\ BoundsInv'
      /\ Active(w)
  BY CopierFrame DEF Copier
<1>2. /\ UNCHANGED <<last, page, todo, copies>>
      /\ at'[w] \in {"ok", "err"}
      /\ at'[w] = "ok" => at[w] = "check" /\ (stop \/ IsFirst({}, Unread(w), Chunk))
  BY DEF LeaveLoop, CopierFails, IsPage, CoreTypeOK
<1>3. PageInv'
  <2>1. ASSUME NEW v \in Copiers
        PROVE  /\ at'[v] = "insert" => at[v] = "insert"
               /\ at'[v] \in {"check", "ok"} => at[v] \in {"check", "ok"}
    BY <1>1, <1>2
  <2> QED
    BY <1>1, <1>2, <2>1 DEF KeysetInv, PageInv
<1>4. OnceInv'
  BY <1>1, <1>2 DEF KeysetInv, OnceInv, Behind
<1>5. at'[w] = "ok" /\ ~stop => \A k \in Stable \cap Scope(w) : Behind(w, k)
  <2> SUFFICES ASSUME at'[w] = "ok", ~stop, NEW k \in Stable \cap Scope(w)
               PROVE  last[w] # None /\ k <= last[w]
    BY DEF Behind
  <2>1. Unread(w) = {}
    <3>1. Cardinality({}) = 0
      BY FS_EmptySet
    <3> QED
      BY <1>2, <3>1, ChunkIsPositive DEF IsFirst
  <2>2. k \in source /\ k \in Int /\ last[w] \in Int \cup {None}
    BY SplitTypes DEF Stable, CoreTypeOK
  <2> QED
    BY <2>1, <2>2 DEF Unread
<1>6. PassedInv'
  BY <1>1, <1>2, <1>5 DEF KeysetInv, PassedInv, Behind
<1> QED
  BY <1>1, <1>3, <1>4, <1>6 DEF KeysetInv

(* One INSERT delivers rows that no copier has behind it; the last one of  *)
(* a page moves last_key over exactly that page.                           *)
LEMMA InsertKeeps ==
  ASSUME CoreTypeOK, PhaseInv, KeysetInv, plan # "offset", NEW w \in Copiers, Insert(w)
  PROVE  KeysetInv'
<1>1. /\ UNCHANGED <<stop, phase, plan>>
      /\ \A v \in Copiers : Scope(v)' = Scope(v) /\ Active(v)' = Active(v)
      /\ \A v \in Copiers : v # w => /\ at'[v] = at[v] /\ last'[v] = last[v]
                                    /\ page'[v] = page[v] /\ todo'[v] = todo[v]
      /\ Stable' = Stable
      /\ SplitInv' /\ BoundsInv'
      /\ phase = "copy" /\ Active(w)
  BY CopierFrame DEF Copier
<1>2. PICK b \in SUBSET todo[w] :
        /\ b # {}
        /\ copies' = [k \in Keys |-> IF k \in b THEN copies[k] + 1 ELSE copies[k]]
        /\ todo' = [todo EXCEPT ![w] = @ \ b]
        /\ IF b = todo[w]
             THEN /\ \E k \in page[w] : /\ \A j \in page[w] : j <= k
                                        /\ last' = [last EXCEPT ![w] = k]
                  /\ at' = [at EXCEPT ![w] =
                              IF Cardinality(page[w]) < Chunk THEN "ok" ELSE "check"]
             ELSE UNCHANGED <<last, at>>
  BY DEF Insert, PageRows
<1>3. /\ at[w] = "insert" /\ page' = page
      /\ todo'[w] = todo[w] \ b
      /\ todo[w] \subseteq page[w] /\ page[w] \subseteq Scope(w) /\ Scope(w) \subseteq Keys
      /\ \A k \in page[w] : last[w] # None => k > last[w]
      /\ Keys \subseteq Int /\ last[w] \in Keys \cup {None}
  BY <1>2, SplitTypes DEF Insert, PageRows, KeysetInv, PageInv, Scope, CoreTypeOK
<1>4. \A k \in b : ~Behind(w, k)
  <2> SUFFICES ASSUME NEW k \in b PROVE ~Behind(w, k)
    OBVIOUS
  <2>1. k \in todo[w] /\ k \in page[w] /\ k \in Int
    BY <1>3
  <2>2. ASSUME last[w] # None
        PROVE  ~(k <= last[w])
    <3>1. last[w] \in Int
      BY <1>3, <2>2
    <3>2. k > last[w]
      BY <1>3, <2>1, <2>2
    <3> QED
      BY <2>1, <3>1, <3>2
  <2> QED
    BY <2>1, <2>2 DEF Behind
<1>5. \A k \in Stable \cap Scope(w) :
        k \notin page[w] /\ (last[w] # None => k > last[w]) =>
          Cardinality(page[w]) = Chunk /\ \A x \in page[w] : x < k
  BY <1>1, <1>3 DEF KeysetInv, PassedInv
(* What the step does to copier w: still in its page, or past it.          *)
<1>6. /\ page'[w] \subseteq Scope(w) /\ todo'[w] \subseteq page'[w]
      /\ at'[w] = "insert" =>
           todo'[w] # {} /\ \A k \in page'[w] : last'[w] # None => k > last'[w]
      /\ at'[w] \in {"check", "ok"} =>
           \A k \in page'[w] : last'[w] # None /\ k <= last'[w]
      /\ \A k \in Keys : Behind(w, k) \/ k \in b => Behind(w, k)'
      /\ \A k \in Stable \cap Scope(w) :
           /\ Behind(w, k)' => Behind(w, k) \/ k \in b
           /\ at'[w] = "insert" => at[w] = "insert" /\ last'[w] = last[w]
           /\ at'[w] = "ok" => Behind(w, k)'
  <2>1. CASE b # todo[w]
    <3>1. last'[w] = last[w] /\ at'[w] = "insert" /\ todo'[w] # {}
      BY <1>2, <1>3, <2>1
    <3> QED
      BY <1>3, <3>1 DEF Behind
  <2>2. CASE b = todo[w]
    <3>1. PICK m \in page[w] : /\ \A j \in page[w] : j <= m
                                /\ last' = [last EXCEPT ![w] = m]
      BY <1>2, <2>2
    <3>2. /\ last'[w] = m /\ m \in Keys /\ m \in Int /\ m # None /\ todo'[w] = {}
          /\ at'[w] = IF Cardinality(page[w]) < Chunk THEN "ok" ELSE "check"
      BY <1>2, <1>3, <2>2, <3>1, NoneIsNoKey DEF CoreTypeOK
    <3>3. \A k \in Keys : Behind(w, k) \/ k \in b => Behind(w, k)'
      <4> SUFFICES ASSUME NEW k \in Keys, Behind(w, k) \/ k \in b
                   PROVE  k <= m
        BY <3>2 DEF Behind
      <4>1. CASE k \in page[w]
        BY <3>1, <4>1
      <4>2. CASE last[w] # None /\ k <= last[w]
        <5>1. m > last[w] /\ last[w] \in Int /\ k \in Int
          BY <1>3, <3>1, <4>2
        <5> QED
          BY <3>2, <4>2, <5>1
      <4> QED
        BY <1>3, <4>1, <4>2 DEF Behind
    <3>4. ASSUME NEW k \in Stable \cap Scope(w)
          PROVE  /\ Behind(w, k)' => Behind(w, k) \/ k \in b
                 /\ at'[w] = "ok" => Behind(w, k)'
      <4>1. k \in Keys /\ k \in Int
        BY <1>3
      <4>2. CASE k \in page[w]
        <5>1. k \in todo[w] \/ Behind(w, k)
          BY <4>2 DEF Behind
        <5> QED
          BY <2>2, <3>3, <4>1, <5>1
      <4>3. CASE last[w] # None /\ k <= last[w]
        BY <3>3, <4>1, <4>3 DEF Behind
      <4>4. CASE k \notin page[w] /\ (last[w] # None => k > last[w])
        <5>1. Cardinality(page[w]) = Chunk /\ m < k
          BY <1>5, <3>1, <4>4
        <5>2. at'[w] = "check"
          BY <3>2, <5>1, ChunkIsPositive
        <5>3. ~Behind(w, k)'
          BY <1>3, <3>2, <4>1, <4>4, <5>1 DEF Behind
        <5> QED
          BY <5>2, <5>3
      <4>5. last[w] # None => last[w] \in Int
        BY <1>3
      <4> QED
        BY <4>1, <4>2, <4>3, <4>4, <4>5
    <3>5. /\ page'[w] \subseteq Scope(w) /\ todo'[w] \subseteq page'[w]
          /\ at'[w] # "insert"
          /\ \A k \in page'[w] : last'[w] # None /\ k <= last'[w]
      BY <1>3, <3>1, <3>2
    <3> QED
      BY <3>3, <3>4, <3>5
  <2> QED
    BY <2>1, <2>2
<1>7. \A v \in Copiers : v # w => \A k \in Keys : Behind(v, k)' <=> Behind(v, k)
  BY <1>1 DEF Behind
<1>8. /\ \A k \in b : copies[k] = 0 /\ copies'[k] = 1 /\ k \in Scope(w) /\ k \in Keys
      /\ \A k \in Keys \ b : copies'[k] = copies[k]
  BY <1>1, <1>2, <1>3, <1>4 DEF KeysetInv, OnceInv, CoreTypeOK
<1>9. ASSUME NEW v \in Copiers, v # w, Active(v), NEW k \in Scope(v)
      PROVE  k \in Keys \ b
  <2>1. k \in Keys
    BY DEF Scope
  <2>2. k \notin Scope(w)
    BY <1>1, <1>9, <2>1, OneScope DEF KeysetInv
  <2> QED
    BY <1>8, <2>1, <2>2
<1>10. PageInv'
  BY <1>1, <1>6 DEF KeysetInv, PageInv
<1>11. OnceInv'
  <2>1. \A k \in Keys : copies'[k] <= 1
    BY <1>8 DEF KeysetInv, OnceInv
  <2>2. ASSUME NEW v \in Copiers, Active(v), NEW k \in Scope(v), copies'[k] = 1
        PROVE  Behind(v, k)'
    <3>0. k \in Keys
      BY DEF Scope
    <3>1. CASE v = w
      BY <1>6, <1>8, <2>2, <3>0, <3>1 DEF KeysetInv, OnceInv
    <3>2. CASE v # w
      BY <1>7, <1>8, <1>9, <2>2, <3>0, <3>2 DEF KeysetInv, OnceInv
    <3> QED
      BY <3>1, <3>2
  <2> QED
    BY <1>1, <2>1, <2>2 DEF OnceInv
<1>12. PassedInv'
  <2> SUFFICES ASSUME NEW v \in Copiers, Active(v), NEW k \in Stable \cap Scope(v)
               PROVE  /\ Behind(v, k)' => copies'[k] = 1
                      /\ at'[v] = "insert" /\ k \notin page'[v]
                           /\ (last'[v] # None => k > last'[v]) =>
                           Cardinality(page'[v]) = Chunk /\ \A x \in page'[v] : x < k
                      /\ at'[v] = "ok" /\ ~stop' => Behind(v, k)'
    BY <1>1 DEF PassedInv
  <2>0. k \in Keys
    BY DEF Scope
  <2>1. CASE v # w
    BY <1>1, <1>7, <1>8, <1>9, <2>0, <2>1 DEF KeysetInv, PassedInv
  <2>2. CASE v = w
    <3>1. Behind(w, k) => copies[k] = 1
      BY <1>1, <2>2 DEF KeysetInv, PassedInv
    <3>2. Behind(w, k)' => copies'[k] = 1
      BY <1>4, <1>6, <1>8, <2>0, <2>2, <3>1
    <3> QED
      BY <1>3, <1>5, <1>6, <2>2, <3>2
  <2> QED
    BY <2>1, <2>2
<1> QED
  BY <1>1, <1>10, <1>11, <1>12 DEF KeysetInv

-----------------------------------------------------------------------------
(* CopyIInv is inductive.                                                  *)
LEMMA CopyStep == CopyIInv /\ [Next]_vars => CopyIInv'
<1> SUFFICES ASSUME CopyIInv, [Next]_vars PROVE CopyIInv'
  OBVIOUS
<1>1. CoreTypeOK' /\ PhaseInv'
  BY TypeStep, PhaseStep DEF CopyIInv
<1>2. ASSUME plan' # "offset"
      PROVE  KeysetInv'
  <2>1. plan # "offset"
    BY <1>2 DEF Next, Orchestrate, Copier, SourceWrite, RequestStop, MinMax,
       MinMaxFallsBack, MinMaxFails, SplitStep, Join, Select, LeaveLoop, Insert,
       CopierFails, Finished, vars, CopyIInv, PhaseInv
  <2>2. CoreTypeOK /\ PhaseInv /\ KeysetInv
    BY <2>1 DEF CopyIInv, KeysetInv
  <2>3. CASE (\E k \in Keys : SourceWrite(k)) \/ RequestStop \/ UNCHANGED vars
    BY <2>2, <2>3, WorldKeeps
  <2>4. CASE MinMax \/ MinMaxFallsBack \/ SplitStep
    BY <2>2, <2>4, SplitKeeps
  <2>5. CASE Join \/ MinMaxFails
    BY <2>2, <2>5, JoinKeeps
  <2>6. ASSUME NEW w \in Copiers, Copier(w)
        PROVE  KeysetInv'
    BY <2>1, <2>2, <2>6, SelectKeeps, LeaveKeeps, InsertKeeps DEF Copier
  <2> QED
    BY <2>3, <2>4, <2>5, <2>6 DEF Next, Orchestrate, Finished
<1> QED
  BY <1>1, <1>2 DEF CopyIInv, KeysetInv

(* So it holds throughout.                                                 *)
LEMMA CopyInvariant == Spec => []CopyIInv
BY InitCopy, CopyStep, PTL DEF Spec

(* run_table_copy and run_table_copy_ranges deliver no row twice as long   *)
(* as their pages follow a key, for any ranges and any concurrent writes.  *)
THEOREM RowsAtMostOnce == Spec => []NoRowTwice
<1>1. CopyIInv => NoRowTwice
  BY DEF CopyIInv, NoRowTwice, OnceInv
<1> QED
  BY <1>1, CopyInvariant, PTL

(* When all copiers of a keyset copy have run to their end, no row that    *)
(* stayed is missing.                                                      *)
LEMMA NothingMissed == CopyIInv /\ plan # "offset" => NoStableRowMissed
<1> SUFFICES ASSUME CoreTypeOK, PhaseInv, KeysetInv, plan # "offset",
                    result = "ok", ~stop, NEW k \in Stable
             PROVE  copies[k] = 1
  BY DEF CopyIInv, KeysetInv, NoStableRowMissed
<1>1. PICK w \in Copiers : Active(w) /\ k \in Scope(w)
  BY Covered DEF KeysetInv
<1>2. at[w] = "ok"
  BY <1>1 DEF PhaseInv, Active
<1> QED
  BY <1>1, <1>2 DEF KeysetInv, PassedInv

(* A table that is not split has no ranges.                                *)
UnsplitInv == plan # "ranges" => made = 0

(* split_pk_ranges: for any bounds and any number of workers the ranges    *)
(* are disjoint and together hold every key between the bounds.            *)
THEOREM RangesPartition == Spec => []RangesTile
<1>1. Init => UnsplitInv
  BY DEF Init, UnsplitInv
<1>2. CopyIInv /\ UnsplitInv /\ [Next]_vars => UnsplitInv'
  <2> SUFFICES ASSUME PhaseInv, UnsplitInv, [Next]_vars PROVE UnsplitInv'
    BY DEF CopyIInv
  <2> USE DEF PhaseInv, UnsplitInv
  <2>1. CASE MinMaxFallsBack
    BY <2>1 DEF MinMaxFallsBack, splitVars
  <2>2. CASE MinMax \/ SplitStep
    BY <2>2 DEF MinMax, SplitStep
  <2>3. CASE ~MinMaxFallsBack /\ ~MinMax /\ ~SplitStep
    BY <2>3 DEF Next, SourceWrite, RequestStop, Orchestrate, MinMaxFails, Join, Copier, Select,
      LeaveLoop, Insert, CopierFails, Finished, vars, splitVars
  <2> QED
    BY <2>1, <2>2, <2>3
<1>3. CopyIInv /\ UnsplitInv => RangesTile
  <2>1. CASE plan = "ranges"
    <3> SUFFICES ASSUME CoreTypeOK, PhaseInv, SplitInv PROVE RangesTile
      BY <2>1 DEF CopyIInv
    <3>1. phase = "copy" => made > 0 /\ cur = top
      BY <2>1, SplitTypes DEF PhaseInv
    <3> QED
      BY <2>1, <3>1 DEF RangesTile, SplitInv, Active
  <2>2. CASE plan # "ranges"
    BY <2>2 DEF UnsplitInv, RangesTile, Copiers
  <2> QED
    BY <2>1, <2>2
<1> QED
  BY <1>1, <1>2, <1>3, CopyInvariant, PTL DEF Spec

-----------------------------------------------------------------------------
(* The copy implements RowDelivery.                                        *)

(* What is being inserted was read from the source, at some time.          *)
ReadInv == \A w \in Copiers : todo[w] \subseteq source \cup touched

(* Every step keeps it.                                                    *)
LEMMA ReadStep == CoreTypeOK /\ ReadInv /\ [Next]_vars => ReadInv'
<1> SUFFICES ASSUME CoreTypeOK, ReadInv, [Next]_vars PROVE ReadInv'
  OBVIOUS
<1> USE DEF ReadInv, CoreTypeOK, splitVars, copierVars
<1>1. ASSUME NEW k \in Keys, SourceWrite(k) PROVE ReadInv'
  BY <1>1 DEF SourceWrite
<1>2. ASSUME NEW w \in Copiers, Copier(w) PROVE ReadInv'
  <2>1. UNCHANGED <<source, touched>>
    BY <1>2 DEF Copier, Select, LeaveLoop, Insert, CopierFails
  <2>2. \A v \in Copiers : todo'[v] \subseteq todo[v] \cup source
    BY <1>2 DEF Copier, Select, LeaveLoop, Insert, CopierFails
  <2> QED
    BY <2>1, <2>2
<1>3. CASE RequestStop \/ Orchestrate \/ UNCHANGED vars
  BY <1>3 DEF RequestStop, Orchestrate, MinMax, MinMaxFallsBack, MinMaxFails, SplitStep,
    Join, vars
<1> QED
  BY <1>1, <1>2, <1>3 DEF Next, Finished

(* Rows that a keyset copy inserts have not arrived before.                *)
LEMMA RowsAreNew ==
  ASSUME CopyIInv, plan # "offset", NEW w \in Copiers, at[w] = "insert",
         NEW k \in todo[w]
  PROVE  k \notin Arrived
<1>1. CoreTypeOK /\ PageInv /\ OnceInv
  BY DEF CopyIInv
<1>2. k \in Keys /\ k \in page[w] /\ k \in Scope(w)
  BY <1>1 DEF CoreTypeOK, PageInv
<1>3. Active(w) /\ (last[w] # None => k > last[w])
  BY <1>1, <1>2 DEF PageInv, Active
<1>4. k \in Int /\ (last[w] # None => last[w] \in Int)
  BY <1>1, <1>2, KeysAreIntegers DEF CoreTypeOK
<1>5. ~Behind(w, k)
  BY <1>2, <1>3, <1>4 DEF Behind
<1>6. copies[k] # 1 /\ copies[k] <= 1 /\ copies[k] \in Nat
  BY <1>1, <1>2, <1>3, <1>5 DEF OnceInv, CoreTypeOK
<1> QED
  BY <1>6 DEF Arrived

(* An INSERT is a delivery.                                                *)
LEMMA InsertDelivers ==
  ASSUME CopyIInv, ReadInv, NEW w \in Copiers, Insert(w)
  PROVE  \E S \in SUBSET Keys : Delivery!Deliver(S)
<1>1. PICK b \in SUBSET todo[w] :
        copies' = [k \in Keys |-> IF k \in b THEN copies[k] + 1 ELSE copies[k]]
  BY DEF Insert
<1>2. /\ result = "none" /\ at[w] = "insert"
      /\ UNCHANGED <<source, touched, stop, plan, result>>
  BY DEF Insert, CopyIInv, PhaseInv, outcome
<1>3. b \subseteq Keys /\ b \subseteq source \cup touched
  BY DEF CopyIInv, CoreTypeOK, ReadInv
<1>4. plan # "offset" => b \cap Arrived = {}
  BY <1>2, RowsAreNew
<1>5. \A k \in Keys : copies[k] \in Nat
  BY DEF CopyIInv, CoreTypeOK
<1>6. Arrived' = Arrived \cup b
  BY <1>1, <1>3, <1>5 DEF Arrived
<1> QED
  BY <1>2, <1>3, <1>4, <1>6 DEF Delivery!Deliver

(* What Ok says of a keyset copy.                                          *)
ToldTrue == plan # "offset" => NoStableRowMissed

(* The end of the copy is its answer.                                      *)
LEMMA ReturnAnswers ==
  ASSUME CopyIInv, ToldTrue', Join \/ MinMaxFails
  PROVE  \E a \in {"ok", "err"} : Delivery!Answer(a)
<1>1. /\ result = "none" /\ result' \in {"ok", "err"}
      /\ UNCHANGED <<source, touched, stop, plan, copies>>
  BY DEF Join, MinMaxFails, CopyIInv, PhaseInv, splitVars, copierVars
<1>2. plan' # "offset" => NoStableRowMissed'
  BY DEF ToldTrue
<1>3. result' = "ok" /\ plan # "offset" /\ ~stop =>
        \A k \in Stable : copies[k] = 1
  BY <1>1, <1>2 DEF NoStableRowMissed, Stable
<1>4. source \subseteq Keys
  BY DEF CopyIInv, CoreTypeOK
<1>5. result' = "ok" /\ plan # "offset" /\ ~stop => source \ touched \subseteq Arrived
  BY <1>3, <1>4 DEF Stable, Arrived
<1>6. Arrived' = Arrived
  BY <1>1 DEF Arrived
<1> QED
  BY <1>1, <1>5, <1>6 DEF Delivery!Answer

(* Every step of the copy is one of RowDelivery or changes nothing there.  *)
LEMMA StepDelivers ==
  ASSUME CopyIInv, ToldTrue', ReadInv, [Next]_vars
  PROVE  [Delivery!Next]_(Delivery!vars)
<1>1. ASSUME NEW k \in Keys, SourceWrite(k) PROVE Delivery!Write(k)
  BY <1>1 DEF SourceWrite, outcome, Delivery!Write, Arrived
<1>2. CASE RequestStop
  BY <1>2 DEF RequestStop, outcome, Delivery!Stop, Delivery!Next, Arrived
<1>3. CASE MinMax \/ MinMaxFallsBack \/ SplitStep
  <2>1. /\ UNCHANGED <<source, touched, stop, copies, result>>
        /\ (plan' # "offset") = (plan # "offset")
    BY <1>3 DEF MinMax, MinMaxFallsBack, SplitStep, outcome, CopyIInv, PhaseInv
  <2> QED
    BY <2>1 DEF Delivery!vars, Arrived
<1>4. CASE Join \/ MinMaxFails
  BY <1>4, ReturnAnswers DEF Delivery!Next
<1>5. ASSUME NEW w \in Copiers, Copier(w) PROVE [Delivery!Next]_(Delivery!vars)
  <2>1. CASE Insert(w)
    BY <2>1, InsertDelivers DEF Delivery!Next
  <2>2. CASE Select(w) \/ LeaveLoop(w) \/ CopierFails(w)
    BY <2>2 DEF Select, LeaveLoop, CopierFails, outcome, Delivery!vars, Arrived
  <2> QED
    BY <1>5, <2>1, <2>2 DEF Copier
<1>6. CASE UNCHANGED vars
  BY <1>6 DEF vars, outcome, Delivery!vars, Arrived
<1> QED
  BY <1>1, <1>2, <1>3, <1>4, <1>5, <1>6 DEF Next, Orchestrate, Finished, Delivery!Next

(* run_table_copy and run_table_copy_ranges implement RowDelivery, for any *)
(* table, ranges, pages and writers: what arrives comes from the source,   *)
(* by a key no row twice, and the answer tells the truth and is the end.   *)
THEOREM CopyDelivers == Spec => DeliversRows
<1>1. Init => ReadInv /\ Delivery!Init
  BY DEF Init, ReadInv, Delivery!Init, Arrived
<1>2. CopyIInv => CoreTypeOK /\ ToldTrue
  BY NothingMissed DEF CopyIInv, ToldTrue
<1>3. CopyIInv /\ ToldTrue' /\ ReadInv /\ [Next]_vars => [Delivery!Next]_(Delivery!vars)
  BY StepDelivers
<1> QED
  BY <1>1, <1>2, <1>3, InitCopy, CopyStep, ReadStep, PTL
    DEF Spec, DeliversRows, Delivery!Spec

-----------------------------------------------------------------------------
(* The row count.                                                          *)

(* What is summed is finite, and the sums are numbers.                     *)
LEMMA SumsAreCounts ==
  ASSUME CoreTypeOK
  PROVE  /\ IsFiniteSet(Copiers) /\ IsFiniteSet(Keys)
         /\ Uncounted \in [Copiers -> Nat]
         /\ SumFunction(moved) \in Nat /\ SumFunction(moved) = SumFunctionOnSet(moved, Copiers)
         /\ SumFunction(copies) \in Nat /\ SumFunction(copies) = SumFunctionOnSet(copies, Keys)
         /\ SumFunction(Uncounted) \in Nat
         /\ SumFunction(Uncounted) = SumFunctionOnSet(Uncounted, Copiers)
<1>1. IsFiniteSet(Copiers) /\ IsFiniteSet(Keys)
  BY FS_Interval, NIsPositive, KeysAreIntegers DEF Copiers
<1>2. Uncounted \in [Copiers -> Nat]
  <2>1. \A w \in Copiers : Cardinality(page[w] \ todo[w]) \in Nat
    BY CountIsNat DEF CoreTypeOK
  <2> QED
    BY <2>1 DEF Uncounted
<1>3. moved \in [Copiers -> Nat] /\ copies \in [Keys -> Nat]
  BY DEF CoreTypeOK
<1>4. /\ SumFunction(moved) = SumFunctionOnSet(moved, Copiers)
      /\ SumFunction(copies) = SumFunctionOnSet(copies, Keys)
      /\ SumFunction(Uncounted) = SumFunctionOnSet(Uncounted, Copiers)
  BY <1>2, <1>3 DEF SumFunction
<1>5. SumFunctionOnSet(moved, Copiers) \in Nat
  BY <1>1, <1>3, SumIsNat
<1>6. SumFunctionOnSet(copies, Keys) \in Nat
  BY <1>1, <1>3, SumIsNat
<1>7. SumFunctionOnSet(Uncounted, Copiers) \in Nat
  <2> HIDE DEF Uncounted
  <2> QED
    BY <1>1, <1>2, SumIsNat
<1> QED
  BY <1>1, <1>2, <1>4, <1>5, <1>6, <1>7

(* run_table_copy and run_table_copy_ranges: every variable keeps its      *)
(* type, the row count that is returned too.                               *)
THEOREM CopyTypeCorrect == Spec => []TypeOK
<1>1. Init => TypeOK
  BY InitCopy DEF Init, CopyIInv, TypeOK
<1>2. TypeOK /\ [Next]_vars => TypeOK'
  <2> SUFFICES ASSUME CoreTypeOK, total \in Nat, [Next]_vars PROVE TypeOK'
    BY DEF TypeOK
  <2>1. total' = total \/ total' = SumFunction(moved)
    BY DEF Next, SourceWrite, RequestStop, Orchestrate, MinMax, MinMaxFallsBack,
      MinMaxFails, SplitStep, Join, Copier, Select, LeaveLoop, Insert, CopierFails,
      Finished, vars, outcome
  <2>2. CoreTypeOK'
    BY TypeStep
  <2> QED
    BY <2>1, <2>2, SumsAreCounts DEF TypeOK
<1> QED
  BY <1>1, <1>2, PTL DEF Spec

(* Nothing is counted before the first page.                               *)
LEMMA InitTally == Init => TallyInv
<1> SUFFICES ASSUME Init PROVE TallyInv
  OBVIOUS
<1>1. CoreTypeOK
  BY InitCopy DEF CopyIInv
<1>2. /\ \A w \in Copiers : moved[w] = 0 /\ Uncounted[w] = 0
      /\ \A k \in Keys : copies[k] = 0
  BY DEF Init, Uncounted
<1>3. SumFunctionOnSet(moved, Copiers) = 0
  BY <1>1, <1>2, SumsAreCounts, SumOfZeros
<1>4. SumFunctionOnSet(copies, Keys) = 0
  BY <1>1, <1>2, SumsAreCounts, SumOfZeros
<1>5. SumFunctionOnSet(Uncounted, Copiers) = 0
  <2> HIDE DEF Uncounted
  <2> QED
    BY <1>1, <1>2, SumsAreCounts, SumOfZeros
<1>6. SumFunction(copies) = SumFunction(moved) + SumFunction(Uncounted)
  BY <1>1, <1>3, <1>4, <1>5, SumsAreCounts
<1> QED
  BY <1>6 DEF Init, TallyInv

(* A page with b of its rows still to come, of which the INSERT takes c.   *)
LEMMA PageSplits ==
  ASSUME NEW P \in SUBSET Keys, NEW b \in SUBSET P, NEW c \in SUBSET b
  PROVE  /\ Cardinality(P \ (b \ c)) = Cardinality(P \ b) + Cardinality(c)
         /\ Cardinality(P) = Cardinality(P \ b) + Cardinality(b)
         /\ Cardinality(P \ b) \in Nat /\ Cardinality(c) \in Nat
<1>1. /\ IsFiniteSet(P \ b) /\ IsFiniteSet(c) /\ IsFiniteSet(b)
      /\ Cardinality(P \ b) \in Nat /\ Cardinality(c) \in Nat /\ Cardinality(b) \in Nat
  BY CountIsNat
<1>2. (P \ b) \cap c = {} /\ (P \ b) \cap b = {}
  OBVIOUS
<1>3. P \ (b \ c) = (P \ b) \cup c /\ P = (P \ b) \cup b
  OBVIOUS
<1>4. Cardinality({}) = 0
  BY FS_EmptySet
<1>5. /\ Cardinality((P \ b) \cup c) = Cardinality(P \ b) + Cardinality(c) - Cardinality({})
      /\ Cardinality((P \ b) \cup b) = Cardinality(P \ b) + Cardinality(b) - Cardinality({})
  BY <1>1, <1>2, FS_Union
<1>6. /\ Cardinality(P \ (b \ c)) = Cardinality((P \ b) \cup c)
      /\ Cardinality(P) = Cardinality((P \ b) \cup b)
  BY <1>3, Zenon
<1> DEFINE k(S) == Cardinality(S)
<1> HIDE DEF k
<1>7. /\ k(P \ (b \ c)) = k(P \ b) + k(c) - 0
      /\ k(P) = k(P \ b) + k(b) - 0
      /\ k(P \ b) \in Nat /\ k(c) \in Nat /\ k(b) \in Nat
  BY <1>1, <1>4, <1>5, <1>6 DEF k
<1>8. /\ k(P \ (b \ c)) = k(P \ b) + k(c)
      /\ k(P) = k(P \ b) + k(b)
  BY <1>7
<1> QED
  BY <1>1, <1>8 DEF k

(* The INSERT delivers as many rows as it adds to the counts.              *)
LEMMA InsertTallies ==
  ASSUME CoreTypeOK, CoreTypeOK', TallyInv, NEW w \in Copiers, Insert(w)
  PROVE  SumFunction(copies') = SumFunction(moved') + SumFunction(Uncounted')
<1>1. PICK b \in SUBSET todo[w] :
        /\ copies' = [k \in Keys |-> IF k \in b THEN copies[k] + 1 ELSE copies[k]]
        /\ todo' = [todo EXCEPT ![w] = @ \ b]
        /\ b # {}
        /\ IF b = todo[w]
             THEN moved' = [moved EXCEPT ![w] = @ + Cardinality(page[w])]
             ELSE moved' = moved
  BY DEF Insert, PageRows
<1>2. page' = page
  BY DEF Insert
<1>3. /\ page[w] \in SUBSET Keys /\ todo[w] \in SUBSET page[w]
      /\ b \in SUBSET Keys
      /\ todo \in [Copiers -> SUBSET Keys] /\ moved \in [Copiers -> Nat]
      /\ copies \in [Keys -> Nat]
  BY DEF TallyInv, CoreTypeOK
<1> DEFINE rest == Cardinality(page[w] \ todo[w])
           n == Cardinality(b)
<1>4. /\ Cardinality(page[w] \ (todo[w] \ b)) = rest + n
      /\ Cardinality(page[w]) = rest + Cardinality(todo[w])
      /\ rest \in Nat /\ n \in Nat
  BY <1>3, PageSplits
<1>5. SumFunction(copies') = SumFunction(copies) + n
  <2> DEFINE g == [k \in Keys |-> copies[k] + IF k \in b THEN 1 ELSE 0]
  <2>1. g = copies'
    BY <1>1, <1>3
  <2>2. SumFunctionOnSet(g, Keys) = SumFunctionOnSet(copies, Keys) + n
    BY <1>3, SumsAreCounts, SumGrows
  <2>3. SumFunction(copies') = SumFunctionOnSet(copies', Keys)
    BY DEF SumFunction, CoreTypeOK
  <2> HIDE DEF g
  <2> QED
    BY <2>1, <2>2, <2>3, SumsAreCounts
<1> DEFINE u == Uncounted
           v == Uncounted'
<1>6. /\ u \in [Copiers -> Nat] /\ v \in [Copiers -> Nat]
      /\ moved' \in [Copiers -> Nat]
      /\ IsFiniteSet(Copiers)
  <2>1. v \in [Copiers -> Nat]
    <3>1. \A c \in Copiers : Cardinality(page'[c] \ todo'[c]) \in Nat
      BY CountIsNat DEF CoreTypeOK
    <3> QED
      BY <3>1 DEF Uncounted
  <2> QED
    BY <2>1, SumsAreCounts DEF CoreTypeOK
<1>7. \A c \in Copiers : c # w => v[c] = u[c] /\ moved'[c] = moved[c]
  BY <1>1, <1>2, <1>3 DEF Uncounted
<1>8. /\ u[w] = rest
      /\ IF b = todo[w] THEN v[w] = 0 /\ moved'[w] = moved[w] + rest + n
                        ELSE v[w] = rest + n /\ moved'[w] = moved[w]
  <2>1. u[w] = rest
    BY <1>1, <1>3 DEF Uncounted
  <2>2. v[w] = IF todo[w] \ b = {} THEN 0 ELSE Cardinality(page[w] \ (todo[w] \ b))
    BY <1>1, <1>2, <1>3 DEF Uncounted
  <2>3. CASE b = todo[w]
    <3>1. moved'[w] = moved[w] + Cardinality(page[w])
      BY <1>1, <1>3, <2>3
    <3>2. moved[w] \in Nat /\ Cardinality(page[w]) = rest + n
      BY <1>3, <1>4, <2>3
    <3> HIDE DEF u, v, rest, n
    <3> QED
      BY <1>4, <2>1, <2>2, <2>3, <3>1, <3>2
  <2>4. CASE b # todo[w]
    <3> HIDE DEF u, v, rest, n
    <3> QED
      BY <1>1, <1>4, <2>1, <2>2, <2>4
  <2> QED
    BY <2>3, <2>4
<1>9. /\ SumFunction(Uncounted') = SumFunctionOnSet(v, Copiers)
      /\ SumFunction(moved') = SumFunctionOnSet(moved', Copiers)
      /\ SumFunction(Uncounted) = SumFunctionOnSet(u, Copiers)
      /\ SumFunction(moved) = SumFunctionOnSet(moved, Copiers)
  BY <1>3, <1>6 DEF SumFunction
<1>10. /\ SumFunctionOnSet(v, Copiers) = SumFunctionOnSet(u, Copiers) - u[w] + v[w]
       /\ SumFunctionOnSet(moved', Copiers)
            = SumFunctionOnSet(moved, Copiers) - moved[w] + moved'[w]
  <2> HIDE DEF u, v
  <2>1. SumFunctionOnSet(v, Copiers) = SumFunctionOnSet(u, Copiers) - u[w] + v[w]
    BY <1>6, <1>7, SumChanges
  <2>2. SumFunctionOnSet(moved', Copiers)
          = SumFunctionOnSet(moved, Copiers) - moved[w] + moved'[w]
    BY <1>3, <1>6, <1>7, SumChanges
  <2> QED
    BY <2>1, <2>2
<1>11. /\ SumFunction(copies) = SumFunction(moved) + SumFunction(Uncounted)
       /\ SumFunction(moved) \in Nat /\ SumFunction(Uncounted) \in Nat
       /\ moved[w] \in Nat
  BY <1>3, SumsAreCounts DEF TallyInv
<1> HIDE DEF u, v, rest, n
<1> QED
  BY <1>4, <1>5, <1>8, <1>9, <1>10, <1>11

(* Every step keeps the rows counted, or about to be, the rows delivered.  *)
LEMMA TallyStep == CoreTypeOK /\ PhaseInv /\ TallyInv /\ [Next]_vars => TallyInv'
<1> SUFFICES ASSUME CoreTypeOK, PhaseInv, TallyInv, [Next]_vars
             PROVE  TallyInv'
  OBVIOUS
<1>1. CoreTypeOK'
  BY TypeStep
<1> USE DEF TallyInv
<1>2. CASE \/ UNCHANGED <<at, page, todo, moved, copies, result, total>>
           \/ MinMaxFails
           \/ MinMaxFallsBack
           \/ SplitStep
  <2>1. /\ UNCHANGED <<page, todo, moved, copies, total>>
        /\ result' = "ok" => result = "ok"
        /\ \A w \in Copiers : at'[w] \notin {"insert", "err"} => at[w] \notin {"insert", "err"}
    BY <1>2 DEF MinMaxFails, MinMaxFallsBack, SplitStep, splitVars, copierVars, outcome,
      CoreTypeOK, PhaseInv
  <2>2. Uncounted' = Uncounted
    BY <2>1 DEF Uncounted
  <2> QED
    BY <2>1, <2>2
<1>3. CASE Join
  <2>1. /\ UNCHANGED <<at, page, todo, moved, copies>>
        /\ result' = "ok" =>
             /\ \A w \in Copiers : at[w] \notin {"insert", "err"}
             /\ total' = SumFunction(moved)
    BY <1>3 DEF Join, CopiersEnded, splitVars, copierVars
  <2>2. Uncounted' = Uncounted
    BY <2>1 DEF Uncounted
  <2>3. ASSUME result' = "ok" PROVE SumFunction(Uncounted) = 0
    <3>1. \A w \in Copiers : Uncounted[w] = 0
      BY <2>1, <2>3 DEF Uncounted
    <3> HIDE DEF Uncounted
    <3> QED
      BY <3>1, SumsAreCounts, SumOfZeros
  <2> QED
    BY <2>1, <2>2, <2>3, SumsAreCounts
<1>4. ASSUME NEW w \in Copiers, Select(w) PROVE TallyInv'
  <2>1. PICK b \in SUBSET source :
          /\ page' = [page EXCEPT ![w] = b]
          /\ todo' = [todo EXCEPT ![w] = b]
    BY <1>4 DEF Select
  <2>2. /\ at[w] = "check" /\ at' = [at EXCEPT ![w] = "insert"]
        /\ UNCHANGED <<moved, copies, result, total>>
    BY <1>4 DEF Select, outcome
  <2>3. Uncounted' = Uncounted
    <3>1. Cardinality(b \ b) = 0
      BY FS_EmptySet
    <3>2. \A v \in Copiers :
            (IF todo'[v] = {} THEN 0 ELSE Cardinality(page'[v] \ todo'[v]))
              = IF todo[v] = {} THEN 0 ELSE Cardinality(page[v] \ todo[v])
      BY <2>1, <2>2, <3>1 DEF CoreTypeOK
    <3> QED
      BY <3>2 DEF Uncounted
  <2>4. \A v \in Copiers :
          /\ todo'[v] \subseteq page'[v]
          /\ at'[v] \notin {"insert", "err"} => todo'[v] = {}
    BY <2>1, <2>2 DEF CoreTypeOK
  <2> QED
    BY <2>2, <2>3, <2>4
<1>5. ASSUME NEW w \in Copiers, LeaveLoop(w) \/ CopierFails(w) PROVE TallyInv'
  <2>1. /\ UNCHANGED <<page, todo, moved, copies, result, total>>
        /\ \A v \in Copiers : at'[v] \notin {"insert", "err"} => at[v] \notin {"insert", "err"}
    BY <1>5 DEF LeaveLoop, CopierFails, outcome, CoreTypeOK
  <2>2. Uncounted' = Uncounted
    BY <2>1 DEF Uncounted
  <2> QED
    BY <2>1, <2>2
<1>6. ASSUME NEW w \in Copiers, Insert(w) PROVE TallyInv'
  <2>1. SumFunction(copies') = SumFunction(moved') + SumFunction(Uncounted')
    BY <1>1, <1>6, InsertTallies
  <2>2. /\ page' = page /\ UNCHANGED <<result, total>> /\ result # "ok"
        /\ \E b \in SUBSET todo[w] :
             /\ todo' = [todo EXCEPT ![w] = @ \ b]
             /\ b # todo[w] => at' = at
        /\ at[w] = "insert" /\ \A v \in Copiers : v # w => at'[v] = at[v]
    BY <1>6 DEF Insert, outcome, PhaseInv, CoreTypeOK
  <2>3. \A v \in Copiers :
          /\ todo'[v] \subseteq page'[v]
          /\ at'[v] \notin {"insert", "err"} => todo'[v] = {}
    BY <2>2 DEF CoreTypeOK
  <2> QED
    BY <2>1, <2>2, <2>3
<1>7. UNCHANGED <<at, page, todo, moved, copies, result, total>>
        \/ MinMaxFails \/ MinMaxFallsBack \/ SplitStep \/ Join
        \/ \E w \in Copiers : Copier(w)
  BY DEF Next, SourceWrite, RequestStop, Orchestrate, MinMax, Finished, vars, copierVars,
    outcome
<1> QED
  BY <1>2, <1>3, <1>4, <1>5, <1>6, <1>7 DEF Copier

(* run_table_copy and run_table_copy_ranges: the row count of an Ok is the *)
(* number of rows delivered, for any pages, statements per page, ranges,   *)
(* stops and foreign writes, with OFFSET pages too.                        *)
THEOREM CountsAreExact == Spec => []CountIsExact
<1>1. TallyInv => CountIsExact
  BY DEF TallyInv, CountIsExact
<1> QED
  BY <1>1, InitCopy, InitTally, TypeStep, PhaseStep, TallyStep, PTL DEF Spec, CopyIInv

-----------------------------------------------------------------------------
(* Two beginnings of the source that have as many rows are the same.       *)
LEMMA BeginningsAgree ==
  ASSUME CoreTypeOK, NEW D \in SUBSET source, NEW E \in SUBSET source,
         \A x \in D, y \in source \ D : x < y,
         \A x \in E, y \in source \ E : x < y,
         Cardinality(D) = Cardinality(E)
  PROVE  D = E
<1>1. /\ \A x \in source : x \in Int
      /\ IsFiniteSet(D) /\ IsFiniteSet(E)
  BY KeysAreIntegers, CountIsNat DEF CoreTypeOK
<1>2. D \subseteq E \/ E \subseteq D
  <2> SUFFICES ASSUME NEW x \in D \ E, NEW y \in E \ D PROVE FALSE
    OBVIOUS
  <2>1. x < y /\ y < x
    OBVIOUS
  <2> QED
    BY <1>1, <2>1
<1> QED
  BY <1>1, <1>2, FS_Subset

(* Only copier 1 reads by OFFSET, and before the answer.                   *)
LEMMA OneReader ==
  ASSUME CoreTypeOK, PhaseInv, plan = "offset", NEW w \in Copiers, Copier(w)
  PROVE  w = 1
BY DEF Copier, Select, LeaveLoop, Insert, CopierFails, PhaseInv, Active

(* The rows skipped by OFFSET are those delivered, and the page is next.   *)
LEMMA OffsetSelect ==
  ASSUME CoreTypeOK, TallyInv, OffsetInv, plan = "offset", touched = {}, 1 \in Copiers,
         at[1] = "check", NEW b, IsPage(1, b)
  PROVE  IsFirst(b, source \ Arrived, Chunk)
<1>1. PICK skip \in SUBSET source :
        /\ IsFirst(skip, source, moved[1])
        /\ IsFirst(b, source \ skip, Chunk)
  BY DEF IsPage
<1>2. /\ Arrived \subseteq source /\ \A x \in Arrived, y \in source \ Arrived : x < y
      /\ Cardinality(Arrived) = moved[1] + Uncounted[1]
  BY DEF OffsetInv
<1>3. Uncounted[1] = 0 /\ moved[1] \in Nat
  BY DEF TallyInv, Uncounted, CoreTypeOK
<1>4. Cardinality(Arrived) = moved[1]
  BY <1>2, <1>3
<1>5. Cardinality(skip) = moved[1]
  <2>1. Cardinality(skip) = moved[1] \/ (skip = source /\ Cardinality(skip) < moved[1])
    BY <1>1 DEF IsFirst
  <2>2. source \subseteq Keys /\ IsFiniteSet(source) /\ Cardinality(source) \in Nat
    BY CountIsNat DEF CoreTypeOK
  <2>3. Cardinality(Arrived) <= Cardinality(source)
    BY <1>2, <2>2, FS_Subset
  <2> QED
    BY <1>3, <1>4, <2>1, <2>2, <2>3
<1>6. skip = Arrived
  <2>1. \A x \in skip, y \in source \ skip : x < y
    BY <1>1 DEF IsFirst
  <2> QED
    BY <1>1, <1>2, <1>4, <1>5, <2>1, BeginningsAgree
<1> QED
  BY <1>1, <1>6

(* The rows that an INSERT delivers are the next of the source.            *)
LEMMA OffsetInsert ==
  ASSUME CoreTypeOK, CoreTypeOK', TallyInv, OffsetInv, plan = "offset", touched = {},
         1 \in Copiers, Insert(1)
  PROVE  OffsetInv'
<1>1. PICK b \in SUBSET todo[1] :
        /\ b # {}
        /\ \A x \in b, y \in todo[1] \ b : x < y
        /\ copies' = [k \in Keys |-> IF k \in b THEN copies[k] + 1 ELSE copies[k]]
        /\ todo' = [todo EXCEPT ![1] = @ \ b]
        /\ IF b = todo[1]
             THEN /\ moved' = [moved EXCEPT ![1] = @ + PageRows(1)]
                  /\ at' = [at EXCEPT ![1] =
                              IF Cardinality(page[1]) < Chunk THEN "ok" ELSE "check"]
             ELSE UNCHANGED <<moved, at>>
  BY DEF Insert
<1>2. /\ at[1] = "insert" /\ UNCHANGED <<source, page, plan, touched, stop>>
  BY DEF Insert
<1>3. /\ page[1] \in SUBSET Keys /\ todo[1] \in SUBSET page[1] /\ b \in SUBSET Keys
      /\ todo \in [Copiers -> SUBSET Keys] /\ moved \in [Copiers -> Nat]
      /\ at \in [Copiers -> {"off", "check", "insert", "ok", "err"}]
      /\ copies \in [Keys -> Nat] /\ source \in SUBSET Keys
  BY DEF TallyInv, CoreTypeOK
<1>4. /\ \A k \in Keys : copies[k] <= 1
      /\ Arrived \subseteq source /\ \A x \in Arrived, y \in source \ Arrived : x < y
      /\ Cardinality(Arrived) = moved[1] + Uncounted[1]
      /\ todo[1] \subseteq source \ Arrived /\ todo[1] # {}
      /\ \A x \in todo[1], y \in (source \ Arrived) \ todo[1] : x < y
      /\ Cardinality(page[1]) < Chunk => source \ Arrived = todo[1]
  BY <1>2 DEF OffsetInv
<1>5. Arrived' = Arrived \cup b
  BY <1>1, <1>3 DEF Arrived
<1>6. todo'[1] = todo[1] \ b
  BY <1>1, <1>3
<1>7. \A k \in Keys : copies'[k] <= 1
  <2>1. \A k \in b : copies[k] = 0
    BY <1>3, <1>4 DEF Arrived
  <2> QED
    BY <1>1, <1>3, <1>4, <2>1
<1>8. Arrived' \subseteq source' /\ \A x \in Arrived', y \in source' \ Arrived' : x < y
  <2>1. Arrived' \subseteq source'
    BY <1>2, <1>4, <1>5
  <2>2. ASSUME NEW x \in Arrived \cup b, NEW y \in source \ (Arrived \cup b)
        PROVE  x < y
    <3>1. CASE x \in Arrived
      BY <1>4, <3>1
    <3>2. CASE x \in b /\ y \in todo[1]
      BY <1>1, <3>2
    <3>3. CASE x \in b /\ y \notin todo[1]
      BY <1>4, <3>3
    <3> QED
      BY <3>1, <3>2, <3>3
  <2> QED
    BY <1>2, <1>5, <2>1, <2>2
<1>9. todo'[1] \subseteq source' \ Arrived'
  BY <1>2, <1>4, <1>5, <1>6
<1>10. \A x \in todo'[1], y \in (source' \ Arrived') \ todo'[1] : x < y
  BY <1>2, <1>4, <1>5, <1>6
<1>11. Cardinality(Arrived') = moved'[1] + Uncounted'[1]
  <2> DEFINE rest == Cardinality(page[1] \ todo[1])
             n == Cardinality(b)
  <2>1. /\ Cardinality(page[1] \ (todo[1] \ b)) = rest + n
        /\ Cardinality(page[1]) = rest + Cardinality(todo[1])
        /\ rest \in Nat /\ n \in Nat
    BY <1>3, PageSplits
  <2>2. Cardinality(Arrived') = Cardinality(Arrived) + n
    <3>1. IsFiniteSet(Arrived) /\ IsFiniteSet(b) /\ Cardinality(Arrived) \in Nat
      BY CountIsNat, <1>3 DEF Arrived
    <3>2. Arrived \cap b = {}
      BY <1>4
    <3>3. /\ Cardinality(Arrived \cup b)
               = Cardinality(Arrived) + Cardinality(b) - Cardinality({})
          /\ Cardinality({}) = 0
      BY <3>1, <3>2, FS_Union, FS_EmptySet
    <3> DEFINE c == Cardinality(Arrived \cup b)
    <3>4. c = Cardinality(Arrived) + n
      <4> DEFINE d == Cardinality(Arrived)
                 e == Cardinality({})
      <4>1. c = d + n - e /\ e = 0 /\ d \in Nat
        BY <3>1, <3>3
      <4> HIDE DEF c, d, e, n
      <4>2. c = d + n
        BY <2>1, <4>1
      <4> QED
        BY <4>2 DEF d
    <3> QED
      BY <1>5, <3>4
  <2>3. Uncounted[1] = rest
    BY <1>4 DEF Uncounted
  <2>4. Uncounted'[1] = IF todo[1] \ b = {} THEN 0 ELSE Cardinality(page[1] \ (todo[1] \ b))
    BY <1>2, <1>6 DEF Uncounted
  <2>5. moved[1] \in Nat /\ Cardinality(Arrived) = moved[1] + rest
    BY <1>3, <1>4, <2>3
  <2> DEFINE u == Uncounted'[1]
             c == Cardinality(Arrived')
  <2>6. CASE b = todo[1]
    <3>1. moved'[1] = moved[1] + Cardinality(page[1])
      BY <1>1, <1>3, <2>6 DEF PageRows
    <3>2. Cardinality(page[1]) = rest + n /\ u = 0 /\ c = Cardinality(Arrived) + n
      BY <2>1, <2>2, <2>4, <2>6
    <3> HIDE DEF u, c, rest, n
    <3>3. c = moved'[1] + u
      BY <2>1, <2>5, <3>1, <3>2
    <3> QED
      BY <3>3 DEF u, c
  <2>7. CASE b # todo[1]
    <3>1. moved'[1] = moved[1] /\ todo[1] \ b # {}
      BY <1>1, <2>7
    <3>2. u = rest + n /\ c = Cardinality(Arrived) + n
      BY <2>1, <2>2, <2>4, <3>1
    <3> HIDE DEF u, c, rest, n
    <3>3. c = moved'[1] + u
      BY <2>1, <2>5, <3>1, <3>2
    <3> QED
      BY <3>3 DEF u, c
  <2> QED
    BY <2>6, <2>7
<1>12. at'[1] = "insert" =>
         /\ todo'[1] # {}
         /\ Cardinality(page'[1]) < Chunk => source' \ Arrived' = todo'[1]
  <2>1. CASE b = todo[1]
    BY <1>1, <1>3, <2>1
  <2>2. CASE b # todo[1]
    BY <1>2, <1>4, <1>5, <1>6, <2>2
  <2> QED
    BY <2>1, <2>2
<1>13. at'[1] = "ok" => Arrived' = source'
  <2>1. CASE b = todo[1]
    <3>1. at'[1] = "ok" => Cardinality(page[1]) < Chunk
      BY <1>1, <1>3, <2>1
    <3> QED
      BY <1>2, <1>4, <1>5, <2>1, <3>1
  <2>2. CASE b # todo[1]
    BY <1>1, <1>2, <2>2
  <2> QED
    BY <2>1, <2>2
<1> QED
  BY <1>7, <1>8, <1>9, <1>10, <1>11, <1>12, <1>13 DEF OffsetInv

(* OffsetInv is inductive, given the types and the accounts.               *)
LEMMA OffsetStep ==
  CoreTypeOK /\ PhaseInv /\ TallyInv /\ OffsetInv /\ [Next]_vars => OffsetInv'
<1> SUFFICES ASSUME CoreTypeOK, PhaseInv, TallyInv, OffsetInv, [Next]_vars,
                    plan' = "offset", touched' = {}
             PROVE  OffsetInv'
  BY DEF OffsetInv
<1>0. CoreTypeOK' /\ 1 \in Copiers
  BY TypeStep, NIsPositive DEF Copiers
<1>1. \A k \in Keys : ~SourceWrite(k)
  BY DEF SourceWrite
<1>2. /\ plan = "offset" /\ phase \notin {"minmax", "split"}
      /\ touched = {}
  <2>1. ~MinMaxFallsBack
    BY DEF MinMaxFallsBack
  <2>2. plan' = plan /\ touched' = touched
    BY <1>1, <2>1 DEF Next, RequestStop, Orchestrate, MinMax, MinMaxFails, SplitStep, Join,
      Copier, Select, LeaveLoop, Insert, CopierFails, Finished, vars
  <2> QED
    BY <2>2 DEF PhaseInv
<1>3. CASE UNCHANGED <<source, at, page, todo, moved, copies>>
  <2>1. Arrived' = Arrived /\ Uncounted' = Uncounted
    BY <1>3 DEF Arrived, Uncounted
  <2>2. stop => stop'
    BY DEF Next, SourceWrite, RequestStop, Orchestrate, MinMax, MinMaxFallsBack, MinMaxFails,
      SplitStep, Join, Copier, Select, LeaveLoop, Insert, CopierFails, Finished, vars
  <2> QED
    BY <1>2, <1>3, <2>1, <2>2 DEF OffsetInv, CoreTypeOK
<1>4. CASE Select(1)
  <2>1. PICK b \in SUBSET source :
          /\ b # {} /\ IsPage(1, b)
          /\ page' = [page EXCEPT ![1] = b]
          /\ todo' = [todo EXCEPT ![1] = b]
    BY <1>4 DEF Select
  <2>2. /\ at[1] = "check" /\ at' = [at EXCEPT ![1] = "insert"]
        /\ UNCHANGED <<source, moved, copies>>
    BY <1>4 DEF Select
  <2>3. IsFirst(b, source \ Arrived, Chunk)
    BY <1>0, <1>2, <2>1, <2>2, OffsetSelect
  <2>4. page'[1] = b /\ todo'[1] = b /\ at'[1] = "insert" /\ Arrived' = Arrived
    BY <1>0, <2>1, <2>2 DEF CoreTypeOK, Arrived
  <2>5. Uncounted'[1] = Uncounted[1]
    <3>1. Cardinality(b \ b) = 0
      BY FS_EmptySet
    <3>2. Uncounted'[1] = 0
      BY <1>0, <2>4, <3>1 DEF Uncounted
    <3> QED
      BY <1>0, <2>2, <3>2 DEF Uncounted, TallyInv
  <2>6. Cardinality(b) < Chunk => b = source \ Arrived
    BY <2>3, ChunkIsPositive DEF IsFirst
  <2>7. b \subseteq source \ Arrived /\ \A x \in b, y \in (source \ Arrived) \ b : x < y
    BY <2>3 DEF IsFirst
  <2>8. /\ \A k \in Keys : copies[k] <= 1
        /\ Arrived \subseteq source /\ \A x \in Arrived, y \in source \ Arrived : x < y
        /\ Cardinality(Arrived) = moved[1] + Uncounted[1]
    BY <1>2 DEF OffsetInv
  <2> QED
    BY <2>1, <2>2, <2>4, <2>5, <2>6, <2>7, <2>8 DEF OffsetInv
<1>5. CASE LeaveLoop(1)
  <2>1. /\ at[1] = "check" /\ at' = [at EXCEPT ![1] = "ok"]
        /\ UNCHANGED <<source, page, todo, moved, copies, stop>>
        /\ stop \/ IsPage(1, {})
    BY <1>5 DEF LeaveLoop
  <2>2. Arrived' = Arrived /\ Uncounted' = Uncounted /\ at'[1] = "ok"
    BY <1>0, <2>1 DEF Arrived, Uncounted, CoreTypeOK
  <2>3. ~stop => source \ Arrived = {}
    <3>1. ~stop => IsFirst({}, source \ Arrived, Chunk)
      BY <1>0, <1>2, <2>1, OffsetSelect
    <3> QED
      BY <3>1, FS_EmptySet, ChunkIsPositive DEF IsFirst
  <2> QED
    BY <1>2, <2>1, <2>2, <2>3 DEF OffsetInv
<1>6. CASE CopierFails(1)
  <2>1. /\ at' = [at EXCEPT ![1] = "err"]
        /\ UNCHANGED <<source, page, todo, moved, copies>>
    BY <1>6 DEF CopierFails
  <2>2. Arrived' = Arrived /\ Uncounted' = Uncounted /\ at'[1] = "err"
    BY <1>0, <2>1 DEF Arrived, Uncounted, CoreTypeOK
  <2> QED
    BY <1>2, <2>1, <2>2 DEF OffsetInv
<1>7. CASE Insert(1)
  BY <1>0, <1>2, <1>7, OffsetInsert
<1>8. ASSUME NEW w \in Copiers, Copier(w) PROVE w = 1
  BY <1>2, <1>8, OneReader
<1> QED
  BY <1>1, <1>2, <1>3, <1>4, <1>5, <1>6, <1>7, <1>8 DEF Next, RequestStop, Orchestrate, MinMax,
    MinMaxFallsBack, MinMaxFails, SplitStep, Join, Copier, Finished, vars, copierVars

(* A copy that nobody stopped and that returns Ok has delivered every row  *)
(* that was in the source from its start to its end, exactly once; if its  *)
(* pages follow a key, whatever else was inserted or deleted meanwhile.    *)
THEOREM StableRowsDelivered == Spec => []NoStableRowMissed
<1>1. Init => OffsetInv
  <2> SUFFICES ASSUME Init PROVE OffsetInv
    OBVIOUS
  <2>1. Arrived = {} /\ 1 \in Copiers
    BY NIsPositive DEF Init, Arrived, Copiers
  <2>2. todo[1] = {} /\ moved[1] = 0 /\ at[1] \notin {"insert", "ok"}
    BY <2>1 DEF Init
  <2>3. Uncounted[1] = 0 /\ Cardinality({}) = 0
    BY <2>1, <2>2, FS_EmptySet DEF Uncounted
  <2> QED
    BY <2>1, <2>2, <2>3 DEF Init, OffsetInv
<1>2. CopyIInv /\ TallyInv /\ [Next]_vars => TallyInv'
  BY TallyStep DEF CopyIInv
<1>3. CopyIInv /\ TallyInv /\ OffsetInv /\ [Next]_vars => OffsetInv'
  BY OffsetStep DEF CopyIInv
<1>4. CopyIInv /\ OffsetInv => NoStableRowMissed
  <2> SUFFICES ASSUME CopyIInv, OffsetInv, plan = "offset", result = "ok", ~stop,
                      touched = {}, NEW k \in Stable
               PROVE  copies[k] = 1
    BY NothingMissed DEF NoStableRowMissed
  <2>1. at[1] = "ok"
    BY NIsPositive DEF CopyIInv, PhaseInv, Copiers
  <2>2. Arrived = source /\ \A x \in Keys : copies[x] <= 1
    BY <2>1 DEF OffsetInv
  <2>3. k \in Keys /\ copies[k] > 0 /\ copies[k] \in Nat
    BY <2>2 DEF Stable, Arrived, CopyIInv, CoreTypeOK
  <2> QED
    BY <2>2, <2>3
<1> QED
  BY <1>1, <1>2, <1>3, <1>4, InitTally, CopyInvariant, PTL DEF Spec
=============================================================================
