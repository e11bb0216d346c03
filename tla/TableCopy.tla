----------------------------- MODULE TableCopy -----------------------------
(***************************************************************************)
(* The copy of one table's rows (src-tauri/src/data_transfer.rs):          *)
(* run_table_copy, page by page, and run_table_copy_ranges, which splits   *)
(* the primary key with split_pk_ranges and runs copy_pk_range on every    *)
(* range at once, while other clients write to the source.                 *)
(*                                                                         *)
(* A row is its key.  Every SELECT sees the source as it is at that moment *)
(* and every INSERT commits by itself: the copy runs on pooled connections *)
(* with no transaction around it.                                          *)
(***************************************************************************)
EXTENDS Integers, FiniteSets, Functions, FiniteSetsExt

CONSTANTS
  Keys,            (* the keys a row of the table can have                 *)
  N,               (* intra_table_workers                                  *)
  Chunk,           (* chunk_size: rows a SELECT asks for                   *)
  MaxWrites,       (* bound: writes of other clients during the copy       *)
  None             (* last_key before the first page                       *)

ASSUME KeysAreIntegers == Keys \subseteq Int /\ IsFiniteSet(Keys)
ASSUME NIsPositive == N \in Nat \ {0}
ASSUME ChunkIsPositive == Chunk \in Nat \ {0}
ASSUME MaxWritesIsNat == MaxWrites \in Nat
ASSUME NoneIsNoKey == None \notin Int

Copiers == 1..N

VARIABLES
  source,          (* keys of the rows in the source table                 *)
  touched,         (* history: keys other clients inserted or deleted      *)
  writes,          (* writes other clients have made                       *)
  stop,            (* the stop flag of the run's TransferControl           *)
  plan,            (* "ranges", "keyset" or "offset"                       *)
  phase,           (* "minmax", "split", "copy" or "returned"              *)
  lo, hi,          (* copier w reads the keys lo[w] <= key < hi[w]         *)
  cur, made, step, (* split_pk_ranges: cur, ranges dealt with, step        *)
  top,             (* split_pk_ranges: max_i + 1                           *)
  at,              (* where each copier is in its page loop                *)
  last,            (* last_key of each copier                              *)
  page, todo,      (* the page it has read, the part not yet inserted      *)
  moved,           (* transferred: rows of its finished pages              *)
  copies,          (* target: how often each row was delivered             *)
  result, total    (* what the copy returned                               *)

splitVars == <<lo, hi, cur, made, step, top>>
copierVars == <<at, last, page, todo, moved>>
outcome == <<result, total>>
vars == <<source, touched, writes, stop, plan, phase, splitVars, copierVars,
          copies, outcome>>

(* b is what ORDER BY key LIMIT n returns of the rows S.                   *)
IsFirst(b, S, n) ==
  /\ b \subseteq S
  /\ \A x \in b, y \in S \ b : x < y
  /\ Cardinality(b) = n \/ (b = S /\ Cardinality(b) < n)

Init ==
  /\ source \in SUBSET Keys
  /\ touched = {}
  /\ writes = 0
  /\ stop = FALSE
  /\ plan \in {"ranges", "keyset", "offset"}
  /\ phase = IF plan = "ranges" THEN "minmax" ELSE "copy"
  /\ lo = [w \in Copiers |-> 0]
  /\ hi = [w \in Copiers |-> 0]
  /\ cur = 0 /\ made = 0 /\ step = 1 /\ top = 0
  /\ at = [w \in Copiers |-> IF plan # "ranges" /\ w = 1 THEN "check" ELSE "off"]
  /\ last = [w \in Copiers |-> None]
  /\ page = [w \in Copiers |-> {}]
  /\ todo = [w \in Copiers |-> {}]
  /\ moved = [w \in Copiers |-> 0]
  /\ copies = [k \in Keys |-> 0]
  /\ result = "none"
  /\ total = 0

-----------------------------------------------------------------------------
(* The world around the copy.                                              *)

(* Another client inserts or deletes row k.                                *)
SourceWrite(k) ==
  /\ writes < MaxWrites
  /\ result = "none"
  /\ writes' = writes + 1
  /\ touched' = touched \cup {k}
  /\ source' = IF k \in source THEN source \ {k} ELSE source \cup {k}
  /\ UNCHANGED <<stop, plan, phase, splitVars, copierVars, copies, outcome>>

RequestStop ==
  /\ ~stop
  /\ result = "none"
  /\ stop' = TRUE
  /\ UNCHANGED <<source, touched, writes, plan, phase, splitVars, copierVars, copies,
                 outcome>>

-----------------------------------------------------------------------------
(* run_table_copy_ranges: the bounds and the split.                        *)

(* step and the end of the last range, [min, max + 1).  Mutants: a step    *)
(* that can be 0, and a range that ends with max.                          *)
StepUnbounded(min, max) == (max - min + 1) \div N
StepOf(min, max) == LET each == (max - min + 1) \div N IN IF each < 1 THEN 1 ELSE each
TopExclusive(max) == max
TopOf(max) == max + 1

(* SELECT MIN, MAX finds two different keys: split_pk_ranges sets out.     *)
MinMax ==
  /\ phase = "minmax"
  /\ \E min \in source, max \in source :
       /\ \A k \in source : min <= k /\ k <= max
       /\ min < max
       /\ cur' = min
       /\ top' = TopOf(max)
       /\ step' = StepOf(min, max)
  /\ made' = 0
  /\ phase' = "split"
  /\ UNCHANGED <<source, touched, writes, stop, plan, lo, hi, copierVars, copies, outcome>>

(* One key or none (NULL): the table is copied by run_table_copy instead.  *)
MinMaxFallsBack ==
  /\ phase = "minmax"
  /\ \A k \in source : \A j \in source : j = k
  /\ plan' = "keyset"
  /\ phase' = "copy"
  /\ at' = [at EXCEPT ![1] = "check"]
  /\ UNCHANGED <<source, touched, writes, stop, splitVars, last, page, todo, moved,
                 copies, outcome>>

MinMaxFails ==
  /\ phase = "minmax"
  /\ phase' = "returned"
  /\ result' = "err"
  /\ UNCHANGED <<source, touched, writes, stop, plan, splitVars, copierVars, copies, total>>

(* The end of range w.  Mutant: the last one is no longer than the others. *)
EqualHigh(w) == IF cur + step > top THEN top ELSE cur + step
High(w) == IF w = N \/ cur + step > top THEN top ELSE cur + step

(* One turn of the loop of split_pk_ranges: the last range takes the rest, *)
(* a range without keys is not pushed and gets no copier.                  *)
SplitStep ==
  LET w == made + 1
      high == High(w)
  IN /\ phase = "split"
     /\ made < N
     /\ lo' = [lo EXCEPT ![w] = cur]
     /\ hi' = [hi EXCEPT ![w] = high]
     /\ at' = IF cur < high THEN [at EXCEPT ![w] = "check"] ELSE at
     /\ cur' = high
     /\ made' = w
     /\ phase' = IF w = N THEN "copy" ELSE phase
     /\ UNCHANGED <<source, touched, writes, stop, plan, step, top, last, page, todo,
                    moved, copies, outcome>>

-----------------------------------------------------------------------------
(* The page loop: run_table_copy (copier 1 alone) and copy_pk_range.       *)

Scope(w) == {k \in Keys : plan = "ranges" => lo[w] <= k /\ k < hi[w]}

(* The rows the SELECT of copier w ranges over.  Mutant: >= last_key.      *)
UnreadAndLast(w) == {k \in source \cap Scope(w) : last[w] # None => k >= last[w]}
Unread(w) == {k \in source \cap Scope(w) : last[w] # None => k > last[w]}

(* WHERE key > last ORDER BY key LIMIT chunk; without a usable key, LIMIT  *)
(* chunk OFFSET rows read so far.  An engine that is given no ORDER BY is  *)
(* taken to scan in key order.                                             *)
IsPage(w, b) ==
  IF plan = "offset"
    THEN \E skip \in SUBSET source : /\ IsFirst(skip, source, moved[w])
                                     /\ IsFirst(b, source \ skip, Chunk)
    ELSE IsFirst(b, Unread(w), Chunk)

(* check() lets the copier through and a page with rows comes back.        *)
Select(w) ==
  /\ phase = "copy"
  /\ at[w] = "check"
  /\ ~stop
  /\ \E b \in SUBSET source :
       /\ b # {}
       /\ IsPage(w, b)
       /\ page' = [page EXCEPT ![w] = b]
       /\ todo' = [todo EXCEPT ![w] = b]
  /\ at' = [at EXCEPT ![w] = "insert"]
  /\ UNCHANGED <<source, touched, writes, stop, plan, phase, splitVars, last, moved,
                 copies, outcome>>

(* The page is empty, or check() said stop.                                *)
LeaveLoop(w) ==
  /\ phase = "copy"
  /\ at[w] = "check"
  /\ stop \/ IsPage(w, {})
  /\ at' = [at EXCEPT ![w] = "ok"]
  /\ UNCHANGED <<source, touched, writes, stop, plan, phase, splitVars, last, page, todo,
                 moved, copies, outcome>>

(* transferred += n.  Mutant: += chunk.                                    *)
ChunkRows(w) == Chunk
PageRows(w) == Cardinality(page[w])

(* One INSERT: rows in page order until the statement is full.  The last   *)
(* one of a page moves last_key, and a page shorter than chunk is the last.*)
Insert(w) ==
  /\ phase = "copy"
  /\ at[w] = "insert"
  /\ \E b \in SUBSET todo[w] :
       /\ b # {}
       /\ \A x \in b, y \in todo[w] \ b : x < y
       /\ copies' = [k \in Keys |-> IF k \in b THEN copies[k] + 1 ELSE copies[k]]
       /\ todo' = [todo EXCEPT ![w] = @ \ b]
       /\ IF b = todo[w]
            THEN /\ \E k \in page[w] : /\ \A j \in page[w] : j <= k
                                       /\ last' = [last EXCEPT ![w] = k]
                 /\ moved' = [moved EXCEPT ![w] = @ + PageRows(w)]
                 /\ at' = [at EXCEPT ![w] =
                             IF Cardinality(page[w]) < Chunk THEN "ok" ELSE "check"]
            ELSE UNCHANGED <<last, moved, at>>
  /\ UNCHANGED <<source, touched, writes, stop, plan, phase, splitVars, page, outcome>>

(* A SELECT or an INSERT fails: this copier ends, its siblings go on.      *)
CopierFails(w) ==
  /\ phase = "copy"
  /\ \/ at[w] = "check" /\ ~stop
     \/ at[w] = "insert"
  /\ at' = [at EXCEPT ![w] = "err"]
  /\ UNCHANGED <<source, touched, writes, stop, plan, phase, splitVars, last, page, todo,
                 moved, copies, outcome>>

(* Mutants: ranges that were not spawned are awaited too; the first range  *)
(* speaks for all of them.                                                 *)
FirstRangeEnded == at[1] \in {"off", "ok", "err"}
EveryRangeEnded == \A w \in Copiers : at[w] \in {"ok", "err"}
CopiersEnded == \A w \in Copiers : at[w] \in {"off", "ok", "err"}

(* All copiers have been joined: the first error, or the rows of them all. *)
Join ==
  /\ phase = "copy"
  /\ CopiersEnded
  /\ phase' = "returned"
  /\ IF \E w \in Copiers : at[w] = "err"
       THEN result' = "err" /\ UNCHANGED total
       ELSE result' = "ok" /\ total' = SumFunction(moved)
  /\ UNCHANGED <<source, touched, writes, stop, plan, splitVars, copierVars, copies>>

-----------------------------------------------------------------------------
Copier(w) == Select(w) \/ LeaveLoop(w) \/ Insert(w) \/ CopierFails(w)
Orchestrate == MinMax \/ MinMaxFallsBack \/ MinMaxFails \/ SplitStep \/ Join
Finished == phase = "returned" /\ UNCHANGED vars

Next ==
  \/ \E k \in Keys : SourceWrite(k)
  \/ RequestStop
  \/ Orchestrate
  \/ \E w \in Copiers : Copier(w)
  \/ Finished

Spec == Init /\ [][Next]_vars

(* Tokio runs every copier and the database answers every statement.       *)
FairSpec == Spec /\ WF_vars(Orchestrate) /\ \A w \in Copiers : WF_vars(Copier(w))

-----------------------------------------------------------------------------
CoreTypeOK ==
  /\ source \in SUBSET Keys
  /\ touched \in SUBSET Keys
  /\ writes \in 0..MaxWrites
  /\ stop \in BOOLEAN
  /\ plan \in {"ranges", "keyset", "offset"}
  /\ phase \in {"minmax", "split", "copy", "returned"}
  /\ lo \in [Copiers -> Int]
  /\ hi \in [Copiers -> Int]
  /\ cur \in Int /\ made \in 0..N /\ step \in Nat \ {0} /\ top \in Int
  /\ at \in [Copiers -> {"off", "check", "insert", "ok", "err"}]
  /\ last \in [Copiers -> Keys \cup {None}]
  /\ page \in [Copiers -> SUBSET Keys]
  /\ todo \in [Copiers -> SUBSET Keys]
  /\ moved \in [Copiers -> Nat]
  /\ copies \in [Keys -> Nat]
  /\ result \in {"none", "ok", "err"}

TypeOK == CoreTypeOK /\ total \in Nat

(* Rows that were in the source from the beginning and still are.          *)
Stable == source \ touched

(* No row is delivered twice, whatever the ranges, the page borders and    *)
(* the writers of the source do, as long as the pages follow a key.        *)
NoRowTwice == plan # "offset" => \A k \in Keys : copies[k] <= 1

(* A copy nobody stopped that returns Ok has delivered every row that was  *)
(* there all along; with OFFSET pages, if nobody wrote to the source.      *)
NoStableRowMissed ==
  result = "ok" /\ ~stop /\ (plan = "offset" => touched = {})
    => \A k \in Stable : copies[k] = 1

(* The row count of a copy that returns Ok, stopped or not, is the number  *)
(* of rows its INSERTs delivered.                                          *)
CountIsExact == result = "ok" => total = SumFunction(copies)

(* split_pk_ranges: the ranges of the copiers are disjoint, and after the  *)
(* split every key from the least to the greatest lies in one of them.     *)
RangesTile ==
  /\ \A v \in Copiers, w \in Copiers :
       v < w /\ v <= made /\ w <= made => hi[v] <= lo[w]
  /\ plan = "ranges" /\ phase = "copy" =>
       \A k \in Keys : lo[1] <= k /\ k < top =>
         \E w \in Copiers : lo[w] <= k /\ k < hi[w] /\ at[w] # "off"

(* What the copy is to the transfer: rows in the target and an answer.     *)
Arrived == {k \in Keys : copies[k] > 0}
Delivery ==
  INSTANCE RowDelivery WITH
    Rows <- Keys, keyed <- plan # "offset", delivered <- Arrived, answer <- result

(* The copy implements RowDelivery: through pages, ranges and copiers,     *)
(* while others write, rows of the source arrive, by a key none of them    *)
(* twice, Ok says that they all did, and nothing arrives after the answer. *)
DeliversRows == Delivery!Spec

(* The copy ends: stopped, failed or complete.                             *)
Terminates == <>(result # "none")

-----------------------------------------------------------------------------
(* The inductive invariant behind NoRowTwice and NoStableRowMissed.        *)

Active(w) == at[w] # "off"

(* The phases, and who may run in them.                                    *)
PhaseInv ==
  /\ phase \in {"minmax", "split"} => plan = "ranges"
  /\ phase = "minmax" => made = 0
  /\ phase # "returned" => result = "none"
  /\ plan = "ranges" /\ (phase = "copy" \/ result = "ok") => made = N /\ cur = top
  /\ \A w \in Copiers :
       /\ phase \in {"minmax", "split"} => at[w] \in {"off", "check"}
       /\ Active(w) => IF plan = "ranges" THEN w <= made ELSE w = 1
       /\ result = "ok" => at[w] \in {"off", "ok"}
       /\ at[w] \in {"off", "ok", "err"} \/ phase # "returned"
  /\ plan # "ranges" => at[1] # "off"

(* The ranges dealt with so far follow each other up to cur.               *)
SplitInv ==
  plan = "ranges" =>
    /\ phase = "split" => cur <= top /\ made < N
    /\ \A w \in Copiers : w <= made => lo[w] <= hi[w] /\ hi[w] <= cur
    /\ \A v \in Copiers, w \in Copiers : v < w /\ w <= made => hi[v] <= lo[w]
    /\ \A k \in Keys : made > 0 /\ lo[1] <= k /\ k < cur =>
         \E w \in Copiers : Active(w) /\ lo[w] <= k /\ k < hi[w]

(* The rows that stay were between the bounds when these were read.        *)
BoundsInv ==
  plan = "ranges" /\ (phase \in {"split", "copy"} \/ result = "ok") =>
    \A k \in Stable : (IF made = 0 THEN cur ELSE lo[1]) <= k /\ k < top

(* A page lies beyond last_key while it is inserted and not after.         *)
PageInv ==
  \A w \in Copiers :
    /\ page[w] \subseteq Scope(w)
    /\ todo[w] \subseteq page[w]
    /\ ~Active(w) \/ phase \in {"minmax", "split"} => page[w] = {} /\ last[w] = None
    /\ at[w] = "insert" => todo[w] # {} /\ \A k \in page[w] : last[w] # None => k > last[w]
    /\ at[w] \in {"check", "ok"} => \A k \in page[w] : last[w] # None /\ k <= last[w]

(* Row k is behind copier w: below last_key, or inserted from its page.    *)
Behind(w, k) ==
  \/ last[w] # None /\ k <= last[w]
  \/ k \in page[w] \ todo[w]

OnceInv ==
  /\ \A k \in Keys : copies[k] <= 1
  /\ \A w \in Copiers : Active(w) => \A k \in Scope(w) : copies[k] = 1 => Behind(w, k)
  /\ phase \in {"minmax", "split"} => \A k \in Keys : copies[k] = 0

(* A row that stays is not passed over: it was inserted once its copier is *)
(* past it, and a page leaves it out only if it comes after the whole page *)
(* and the page is full.                                                   *)
PassedInv ==
  \A w \in Copiers : Active(w) => \A k \in Stable \cap Scope(w) :
    /\ Behind(w, k) => copies[k] = 1
    /\ at[w] = "insert" /\ k \notin page[w] /\ (last[w] # None => k > last[w]) =>
         Cardinality(page[w]) = Chunk /\ \A x \in page[w] : x < k
    /\ at[w] = "ok" /\ ~stop => Behind(w, k)

CopyIInv ==
  /\ CoreTypeOK
  /\ PhaseInv
  /\ plan # "offset" => SplitInv /\ BoundsInv /\ PageInv /\ OnceInv /\ PassedInv

-----------------------------------------------------------------------------
(* The inductive invariant behind CountIsExact.                            *)

(* The rows of a page that are in the target and not yet in moved.         *)
Uncounted ==
  [w \in Copiers |-> IF todo[w] = {} THEN 0 ELSE Cardinality(page[w] \ todo[w])]

TallyInv ==
  /\ \A w \in Copiers :
       /\ todo[w] \subseteq page[w]
       /\ at[w] \notin {"insert", "err"} => todo[w] = {}
  /\ SumFunction(copies) = SumFunction(moved) + SumFunction(Uncounted)
  /\ result = "ok" => total = SumFunction(copies)

-----------------------------------------------------------------------------
(* The inductive invariant behind NoStableRowMissed with OFFSET pages: the *)
(* rows delivered are the first of the source, as many as were counted, so *)
(* that the next page begins where the last one ended.                     *)
OffsetInv ==
  plan = "offset" /\ touched = {} =>
    /\ \A k \in Keys : copies[k] <= 1
    /\ Arrived \subseteq source /\ \A x \in Arrived, y \in source \ Arrived : x < y
    /\ Cardinality(Arrived) = moved[1] + Uncounted[1]
    /\ todo[1] \subseteq source \ Arrived
    /\ \A x \in todo[1], y \in (source \ Arrived) \ todo[1] : x < y
    /\ at[1] = "insert" =>
         /\ todo[1] # {}
         /\ Cardinality(page[1]) < Chunk => source \ Arrived = todo[1]
    /\ at[1] = "ok" /\ ~stop => Arrived = source
=============================================================================
