----------------------------- MODULE MCHostKeys -----------------------------
(***************************************************************************)
(* Two hosts, two keys and two handshakes, of the window or of scheduled   *)
(* runs with either policy, with a removal in the settings at a time, any  *)
(* file of an earlier session and restarts.                                *)
(***************************************************************************)
EXTENDS HostKeys, TLC

NamesAreAlike ==
  Permutations(Hosts) \cup Permutations(Keys) \cup Permutations(Handshakes)
=============================================================================
