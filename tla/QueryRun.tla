------------------------------ MODULE QueryRun ------------------------------
(***************************************************************************)
(* Running the statements of an editor and cancelling them (query_run and  *)
(* query_cancel of commands.rs, cancel_by_marker of the MySQL driver).  A  *)
(* request runs its statements one after another, each with a watcher that *)
(* waits for the cancel flag, looks the statement up in the server's       *)
(* process list by the marker in its text, and has it killed.  Statements, *)
(* lookups and kills all go through the one pool of the driver.            *)
(*                                                                         *)
(* A statement is named by its request and its place there; the server is  *)
(* given by what it runs on each connection.  A KILL names a connection    *)
(* and no statement, so it ends whatever runs there when it arrives.       *)
(***************************************************************************)
EXTENDS Naturals

CONSTANTS
  Requests,   \* calls of query_run
  Unnamed,    \* those without a request id, which nothing can cancel
  Length,     \* Length[r]: how many statements split_statements found
  Conns,      \* the connections of the pool, at most 8
  None

ASSUME QueryAssumption ==
  /\ Unnamed \subseteq Requests
  /\ Length \in [Requests -> Nat]
  /\ None \notin Conns

Named == Requests \ Unnamed

VARIABLES
  pc,          \* pc[r]: where query_run is
  at,          \* at[r]: the statement it is at
  registered,  \* AppState::running_queries
  flag,        \* requests whose watch channel holds true
  conn,        \* conn[r]: the connection of its statement or None
  watcher,     \* watcher[r]: where the watcher of that statement is
  side,        \* side[r]: the connection of the watcher or None
  found,       \* found[r]: the connections its lookup found and it has to kill
  kills,       \* KILL QUERY commands under way
  killed,      \* requests whose statement the server has interrupted
  missed       \* history: requests whose watcher failed its statement

runVars == <<pc, at, registered, flag>>
watchVars == <<watcher, side, found>>
serverVars == <<kills, killed>>
queryVars == <<runVars, conn, watchVars, serverVars, missed>>

Points == {"idle", "called", "next", "acquire", "sent", "running", "return", "done"}
WatchPoints == {"none", "wait", "sleep", "acquire", "look", "kill", "killing", "over"}

KillCommands == [req : Named, stmt : Nat, conn : Conns]

QueryTypeOK ==
  /\ pc \in [Requests -> Points]
  /\ at \in [Requests -> Nat] /\ \A r \in Requests : at[r] <= Length[r]
  /\ registered \subseteq Named
  /\ flag \subseteq Named
  /\ conn \in [Requests -> Conns \cup {None}]
  /\ watcher \in [Requests -> WatchPoints]
  /\ side \in [Requests -> Conns \cup {None}]
  /\ found \in [Requests -> SUBSET Conns]
  /\ kills \subseteq KillCommands
  /\ killed \subseteq Requests
  /\ missed \subseteq Named

QueryInit ==
  /\ pc = [r \in Requests |-> "idle"]
  /\ at = [r \in Requests |-> 0]
  /\ registered = {} /\ flag = {}
  /\ conn = [r \in Requests |-> None]
  /\ watcher = [r \in Requests |-> "none"]
  /\ side = [r \in Requests |-> None]
  /\ found = [r \in Requests |-> {}]
  /\ kills = {} /\ killed = {} /\ missed = {}

-----------------------------------------------------------------------------
(* The pool.                                                               *)

Free == {c \in Conns : \A r \in Requests : c # conn[r] /\ c # side[r]}

Goes(r, from, to) == pc[r] = from /\ pc' = [pc EXCEPT ![r] = to]

Watches(r, from, to) ==
  watcher[r] = from /\ watcher' = [watcher EXCEPT ![r] = to]

-----------------------------------------------------------------------------
(* query_run.                                                              *)

Call(r) ==
  /\ Goes(r, "idle", "called")
  /\ UNCHANGED <<at, registered, flag, conn, watchVars, serverVars, missed>>

(* driver_for, which fails when the connection is not open, and the        *)
(* channel put in running_queries.                                         *)
Register(r) ==
  /\ \/ /\ Goes(r, "called", "next")
        /\ registered' = registered \cup ({r} \cap Named)
     \/ /\ Goes(r, "called", "done")
        /\ UNCHANGED registered
  /\ UNCHANGED <<at, flag, conn, watchVars, serverVars, missed>>

(* Mutant: a watcher that sees only the changes after its own start.       *)
WatchChanges(r) == IF r \in Named \ flag THEN "wait" ELSE "none"

WatchFrom(r) == IF r \in Named THEN "wait" ELSE "none"

(* The loop takes a statement; it does not look at the flag.               *)
NextStatement(r) ==
  /\ at[r] < Length[r]
  /\ Goes(r, "next", "acquire")
  /\ at' = [at EXCEPT ![r] = @ + 1]
  /\ watcher' = [watcher EXCEPT ![r] = WatchFrom(r)]
  /\ UNCHANGED <<registered, flag, conn, side, found, serverVars, missed>>

Acquire(r) ==
  /\ Goes(r, "acquire", "sent")
  /\ \E c \in Free : conn' = [conn EXCEPT ![r] = c]
  /\ UNCHANGED <<at, registered, flag, watchVars, serverVars, missed>>

(* The statement reaches the server, which lists it from now on.           *)
Arrive(r) ==
  /\ Goes(r, "sent", "running")
  /\ UNCHANGED <<at, registered, flag, conn, watchVars, serverVars, missed>>

(* Either way the call to the driver comes back: the connection is free    *)
(* and the watcher aborted, with all that it has not sent.                 *)
Ends(r) ==
  /\ conn' = [conn EXCEPT ![r] = None]
  /\ watcher' = [watcher EXCEPT ![r] = "none"]
  /\ side' = [side EXCEPT ![r] = None]
  /\ found' = [found EXCEPT ![r] = {}]
  /\ killed' = killed \ {r}
  /\ missed' = missed \ {r}
  /\ UNCHANGED <<at, flag, registered, kills>>

Succeed(r) ==
  /\ r \notin killed
  /\ Goes(r, "running", "next")
  /\ Ends(r)

(* An error while the flag is set is taken for the cancel and ends the     *)
(* loop; after any other the next statement follows.                       *)
Break(r, from) ==
  /\ Goes(r, from, IF r \in flag THEN "return" ELSE "next")
  /\ Ends(r)

Fail(r) == Break(r, "running")

(* acquire_timeout: 15 s without a free connection.                        *)
AcquireTimeout(r) ==
  /\ Free = {}
  /\ Break(r, "acquire")

Return(r) ==
  /\ \/ pc[r] = "return"
     \/ pc[r] = "next" /\ at[r] = Length[r]
  /\ pc' = [pc EXCEPT ![r] = "done"]
  /\ registered' = registered \ {r}
  /\ UNCHANGED <<at, flag, conn, watchVars, serverVars, missed>>

(* query_cancel; for a request that is not registered it answers false.    *)
QueryCancel(r) ==
  /\ r \in registered
  /\ flag' = flag \cup {r}
  /\ UNCHANGED <<pc, at, registered, conn, watchVars, serverVars, missed>>

-----------------------------------------------------------------------------
(* The watcher of a statement, and the server.                             *)

Notice(r) ==
  /\ r \in flag
  /\ Watches(r, "wait", "sleep")
  /\ UNCHANGED <<runVars, conn, side, found, serverVars, missed>>

(* The 50 ms are over.                                                     *)
WakeWatcher(r) ==
  /\ Watches(r, "sleep", "acquire")
  /\ UNCHANGED <<runVars, conn, side, found, serverVars, missed>>

AcquireSide(r) ==
  /\ Watches(r, "acquire", "look")
  /\ \E c \in Free : side' = [side EXCEPT ![r] = c]
  /\ UNCHANGED <<runVars, conn, found, serverVars, missed>>

Miss(r) == missed' = missed \cup {r}

(* No connection within acquire_timeout: the error is dropped.             *)
SideTimeout(r) ==
  /\ Free = {}
  /\ Watches(r, "acquire", "over")
  /\ Miss(r)
  /\ UNCHANGED <<runVars, conn, side, found, serverVars>>

(* Mutant: the pattern names no request.                                   *)
MatchesAny(r) == {conn[s] : s \in {q \in Named : pc[q] = "running"}}

(* The connections whose statement bears the marker.                       *)
Matches(r) == {conn[s] : s \in {q \in {r} : pc[q] = "running"}}

Lookup(r) ==
  /\ \/ /\ Matches(r) # {}
        /\ Watches(r, "look", "kill")
        /\ found' = [found EXCEPT ![r] = Matches(r)]
        /\ UNCHANGED missed
     \/ /\ Watches(r, "look", "over")
        /\ Miss(r)
        /\ UNCHANGED found
  /\ side' = [side EXCEPT ![r] = None]
  /\ UNCHANGED <<runVars, conn, serverVars>>

(* KILL QUERY for each of them; its errors are ignored.                    *)
SendKill(r) ==
  /\ Watches(r, "kill", "killing")
  /\ \E c \in found[r], p \in Free :
        /\ kills' = kills \cup {[req |-> r, stmt |-> at[r], conn |-> c]}
        /\ side' = [side EXCEPT ![r] = p]
        /\ found' = [found EXCEPT ![r] = @ \ {c}]
  /\ UNCHANGED <<runVars, conn, killed, missed>>

KillTimeout(r) ==
  /\ Free = {}
  /\ \E c \in found[r] :
        /\ found' = [found EXCEPT ![r] = @ \ {c}]
        /\ Watches(r, "kill", IF found[r] = {c} THEN "over" ELSE "kill")
  /\ Miss(r)
  /\ UNCHANGED <<runVars, conn, side, serverVars>>

(* Whether the statement a KILL was sent for is running yet.               *)
ForRunning(k) == pc[k.req] = "running" /\ at[k.req] = k.stmt

(* The watcher goes on, unless it was aborted since.                       *)
KillReturns(k) ==
  IF watcher[k.req] = "killing" /\ at[k.req] = k.stmt
  THEN /\ watcher' = [watcher EXCEPT ![k.req] = IF found[k.req] = {} THEN "over" ELSE "kill"]
       /\ side' = [side EXCEPT ![k.req] = None]
  ELSE UNCHANGED <<watcher, side>>

(* The server interrupts what runs on the connection by now.               *)
Deliver(k) ==
  /\ kills' = kills \ {k}
  /\ killed' = killed \cup {s \in Requests : conn[s] = k.conn /\ pc[s] = "running"}
  /\ KillReturns(k)
  /\ UNCHANGED <<runVars, conn, found, missed>>

(* Refused, for want of the privilege.                                     *)
Refuse(k) ==
  /\ kills' = kills \ {k}
  /\ missed' = IF ForRunning(k) THEN missed \cup {k.req} ELSE missed
  /\ KillReturns(k)
  /\ UNCHANGED <<runVars, conn, found, killed>>

-----------------------------------------------------------------------------
(* Everybody is back.                                                      *)
Returned ==
  /\ \A r \in Requests : pc[r] = "done"
  /\ kills = {}
  /\ UNCHANGED queryVars

Watcher(r) ==
  \/ Notice(r) \/ WakeWatcher(r) \/ AcquireSide(r) \/ SideTimeout(r) \/ Lookup(r)
  \/ SendKill(r) \/ KillTimeout(r)

Ready(r) ==
  \/ Register(r) \/ NextStatement(r) \/ Acquire(r) \/ AcquireTimeout(r) \/ Arrive(r)
  \/ Return(r)

QueryNext ==
  \/ \E r \in Requests :
        Call(r) \/ Ready(r) \/ Succeed(r) \/ Fail(r) \/ QueryCancel(r) \/ Watcher(r)
  \/ \E k \in kills : Deliver(k) \/ Refuse(k)
  \/ Returned

QuerySpec == QueryInit /\ [][QueryNext]_queryVars

(* The tasks are scheduled, timers run out and the network delivers; how   *)
(* long the server works on a statement is nobody's promise.               *)
FairQuerySpec ==
  /\ QuerySpec
  /\ \A r \in Requests :
        /\ WF_queryVars(Ready(r)) /\ WF_queryVars(Watcher(r))
        /\ WF_queryVars(r \in killed /\ Fail(r))
        /\ WF_queryVars(\E k \in kills : k.req = r /\ (Deliver(k) \/ Refuse(k)))

-----------------------------------------------------------------------------
(* Properties.                                                             *)

(* A statement that a KILL interrupts is of the request the KILL was sent  *)
(* for, or it took over the connection after the statement that was meant  *)
(* had ended: between the lookup and the kill of cancel_by_marker.         *)
KillsAreOwed ==
  [][\A r \in killed' \ killed : \E k \in kills \ kills' :
        k.conn = conn[r] /\ (k.req = r \/ ~ForRunning(k))]_queryVars

(* A cancelled request ends, however long its statements would take,       *)
(* unless the watcher of one of them has failed: looked before the server  *)
(* listed it, found no free connection, or was refused the kill.  The      *)
(* watchers of later statements see a flag that was set before them.       *)
CancelEndsTheRequest ==
  \A r \in Named : r \in flag ~> (pc[r] = "done" \/ [](r \in missed))
=============================================================================
