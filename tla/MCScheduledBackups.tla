------------------------- MODULE MCScheduledBackups -------------------------
(***************************************************************************)
(* Two schedules, "db" that keeps the newest backup and "db-prod" that     *)
(* keeps those no older than a second, whose files begin like those of     *)
(* "db"; three runs within three seconds.                                  *)
(***************************************************************************)
EXTENDS ScheduledBackups, TLC

CONSTANTS db, prod

MCNameOf == [s \in Schedules |-> IF s = db THEN 1 ELSE 2]
MCClaims == [s \in Schedules |-> IF s = db THEN {1, 2} ELSE {2}]
MCKeep == [s \in Schedules |-> IF s = db THEN 1 ELSE None]
MCMaxAge == [s \in Schedules |-> IF s = db THEN None ELSE 1]
MCConnOf == [s \in Schedules |-> CHOOSE c \in Connections : c \notin Tunnelled]

RunsAreAlike == Permutations(Runs)
=============================================================================
