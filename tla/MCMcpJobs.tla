----------------------------- MODULE MCMcpJobs -----------------------------
(***************************************************************************)
(* Two jobs of the MCP server, a query and a transfer, with a call of      *)
(* job_status, a history of one, and in the window a transfer, a dump and  *)
(* an import.                                                              *)
(***************************************************************************)
EXTENDS McpJobs
=============================================================================
