----------------------------- MODULE MCSqlDump -----------------------------
(***************************************************************************)
(* An instance of SqlDump for TLC: three tables, one in two shards, one    *)
(* empty, one in a single shard; two of them with secondary indexes; two   *)
(* workers.                                                                *)
(***************************************************************************)
EXTENDS SqlDump, TLC

CONSTANTS w1, w2

MCShards == <<2, 0, 1>>
MCIndexed == {1, 2}

WorkerSymmetry == Permutations(Workers)
=============================================================================
