---------------------------- MODULE MCSqlImport ----------------------------
(***************************************************************************)
(* Instances of SqlImport for TLC.                                         *)
(***************************************************************************)
EXTENDS SqlImport, TLC

CONSTANTS w1, w2

(* A BaseMaster dump of one table with a deferred index, and one of two    *)
(* tables, as sql_dump.rs writes them.                                     *)
OneTable ==
  <<"Header", "Ddl", "other", "Data", "insert", "insert", "Indexes", "other">>
TwoTables ==
  <<"Ddl", "other", "Data", "insert", "Ddl", "other", "Data", "insert", "Footer">>

(* A foreign dump: a full batch, one that a DDL statement cuts short, and  *)
(* a trailing one.                                                         *)
ForeignDump == <<"insert", "insert", "insert", "other", "skip", "insert">>

MCDumps == {OneTable, TwoTables}
MCForeign == {ForeignDump}

WorkerSymmetry == Permutations(Workers)
=============================================================================
