---------------------------- MODULE MCConnections ----------------------------
(***************************************************************************)
(* Two opens and a close of the window, two opens and a close of the MCP   *)
(* server, and a delete, at any time.                                      *)
(***************************************************************************)
EXTENDS Connections, TLC

OpensAreAlike == Permutations(WindowOpens) \cup Permutations(McpOpens)
=============================================================================
