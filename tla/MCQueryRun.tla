----------------------------- MODULE MCQueryRun -----------------------------
(***************************************************************************)
(* A script of two statements and one of one that may be cancelled, beside *)
(* a statement without a request id, over a pool of three connections.     *)
(***************************************************************************)
EXTENDS QueryRun

CONSTANTS script, single, explain

MCLength == [r \in Requests |-> IF r = script THEN 2 ELSE 1]
=============================================================================
