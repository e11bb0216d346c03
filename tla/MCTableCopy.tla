---------------------------- MODULE MCTableCopy ----------------------------
(***************************************************************************)
(* An instance of TableCopy for TLC: five keys around zero, of which any   *)
(* may be missing, pages of two, three ranges (so that the last takes a    *)
(* longer rest, and with few keys one is empty), two writes by other       *)
(* clients.                                                                *)
(***************************************************************************)
EXTENDS TableCopy

MCKeys == -1..3
=============================================================================
