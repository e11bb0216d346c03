---------------------------- MODULE RowDelivery ----------------------------
(***************************************************************************)
(* What the copy of a table promises to the transfer that asks for it      *)
(* (run_table_copy and run_table_copy_ranges of data_transfer.rs), with no *)
(* word of pages, ranges, copiers or keys: rows of the source arrive in    *)
(* the target some at a time and, if the copy can follow a key, none of    *)
(* them twice; then there is one answer, after which nothing arrives.      *)
(***************************************************************************)
CONSTANT Rows

VARIABLES
  source,     \* rows of the source table
  touched,    \* rows other clients inserted or deleted since the call
  stop,       \* the run was told to stop
  keyed,      \* the pages follow a key
  delivered,  \* rows that reached the target
  answer      \* "none" yet, "ok" or "err"

vars == <<source, touched, stop, keyed, delivered, answer>>

Init ==
  /\ source \subseteq Rows
  /\ touched = {}
  /\ stop = FALSE
  /\ keyed \in BOOLEAN
  /\ delivered = {}
  /\ answer = "none"

(* Other clients insert and delete a row during the copy.                  *)
Write(r) ==
  /\ answer = "none"
  /\ source' = IF r \in source THEN source \ {r} ELSE source \cup {r}
  /\ touched' = touched \cup {r}
  /\ UNCHANGED <<stop, keyed, delivered, answer>>

Stop ==
  /\ answer = "none"
  /\ stop' = TRUE
  /\ UNCHANGED <<source, touched, keyed, delivered, answer>>

(* Some rows arrive: each was in the source at some time of the copy.      *)
Deliver(S) ==
  /\ answer = "none"
  /\ S \subseteq source \cup touched
  /\ keyed => S \cap delivered = {}
  /\ delivered' = delivered \cup S
  /\ UNCHANGED <<source, touched, stop, keyed, answer>>

(* Ok, unless the copy was stopped, says that every row that was there all *)
(* along has arrived.                                                      *)
Answer(a) ==
  /\ answer = "none"
  /\ a = "ok" /\ keyed /\ ~stop => source \ touched \subseteq delivered
  /\ answer' = a
  /\ UNCHANGED <<source, touched, stop, keyed, delivered>>

Next ==
  \/ \E r \in Rows : Write(r)
  \/ Stop
  \/ \E S \in SUBSET Rows : Deliver(S)
  \/ \E a \in {"ok", "err"} : Answer(a)

Spec == Init /\ [][Next]_vars
=============================================================================
