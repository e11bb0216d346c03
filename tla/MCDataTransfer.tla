--------------------------- MODULE MCDataTransfer ---------------------------
(***************************************************************************)
(* Instances of DataTransfer for TLC.                                      *)
(***************************************************************************)
EXTENDS DataTransfer, TLC

CONSTANTS w1, w2

(* Two jobs, the first with two tables, so that two workers can hold a     *)
(* table each and a failure finds one more table behind it; one table is   *)
(* empty and one has two chunks.                                           *)
MCJobSize == <<2, 1>>
MCBatches == (<<1, 1>> :> 2) @@ (<<1, 2>> :> 0) @@ (<<2, 1>> :> 1)

WorkerSymmetry == Permutations(Workers)
=============================================================================
