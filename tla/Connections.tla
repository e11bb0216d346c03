----------------------------- MODULE Connections -----------------------------
(***************************************************************************)
(* One saved connection and the two maps of AppState that hold it while it *)
(* is open: `active` with its driver and `tunnels` with the tunnel the     *)
(* driver goes through.  The window opens, closes and deletes it           *)
(* (commands.rs), and so do MCP tools (mcp_server.rs), all at once.        *)
(*                                                                         *)
(* A driver and a tunnel are named by the call that opened them.  Each map *)
(* has a lock of its own; an action stands for what a call does between    *)
(* two awaits.  How long a disconnect takes is left open: it waits for the *)
(* statements that run.  A tool call runs in the future of its HTTP        *)
(* request, and is dropped at whatever it awaits when the client goes.     *)
(***************************************************************************)
CONSTANTS
  WindowOpens, McpOpens,     \* calls of connection_open, open_connection_impl
  WindowCloses, McpCloses,   \* calls of connection_close, close_connection
  Deletes,                   \* calls of connection_delete
  None

Opens == WindowOpens \cup McpOpens
Closes == WindowCloses \cup McpCloses \cup Deletes
Calls == Opens \cup Closes

ASSUME CallsAssumption ==
  /\ WindowOpens \cap McpOpens = {}
  /\ Opens \cap Closes = {}
  /\ Deletes \cap (WindowCloses \cup McpCloses) = {}
  /\ WindowCloses \cap McpCloses = {}
  /\ None \notin Calls

VARIABLES
  tunnelled,   \* the profile asks for a tunnel
  saved,       \* the profile is in the store
  pc,          \* pc[c]: where call c is
  active,      \* AppState::active, the driver of the connection or None
  tunnels,     \* AppState::tunnels, its tunnel or None
  activeBy,    \* the call that holds the lock on active across an await
  tunnelsBy,   \* the call that holds the lock on tunnels across an await
  driver,      \* driver[o]: the driver opened by o
  tunnel,      \* tunnel[o]: the tunnel opened by o
  taken,       \* taken[c]: the driver, then the tunnel, that c has removed
  letGo,       \* history: drivers let go of without being disconnected
  torn         \* history: a call has parted a driver from its tunnel

maps == <<active, tunnels>>
locks == <<activeBy, tunnelsBy>>
things == <<driver, tunnel>>
history == <<letGo, torn>>
vars == <<tunnelled, saved, pc, maps, locks, things, taken, history>>

Points == {"start", "profile", "tunnel", "connect", "giveUp", "insert", "putTunnel",
           "discard", "discardTunnel", "disconnect", "takeTunnel", "closeTunnel",
           "deleteRow", "done"}

TypeOK ==
  /\ tunnelled \in BOOLEAN /\ saved \in BOOLEAN /\ torn \in BOOLEAN
  /\ pc \in [Calls -> Points]
  /\ active \in Opens \cup {None} /\ tunnels \in Opens \cup {None}
  /\ activeBy \in Closes \cup {None} /\ tunnelsBy \in Closes \cup {None}
  /\ driver \in [Opens -> {"none", "connected", "closed"}]
  /\ tunnel \in [Opens -> {"none", "open", "closed"}]
  /\ taken \in [Closes -> Opens \cup {None}]
  /\ letGo \subseteq Opens

Init ==
  /\ tunnelled \in BOOLEAN
  /\ saved = TRUE
  /\ pc = [c \in Calls |-> "start"]
  /\ active = None /\ tunnels = None
  /\ activeBy = None /\ tunnelsBy = None
  /\ driver = [o \in Opens |-> "none"]
  /\ tunnel = [o \in Opens |-> "none"]
  /\ taken = [c \in Closes |-> None]
  /\ letGo = {}
  /\ torn = FALSE

Goes(c, from, to) ==
  /\ pc[c] = from
  /\ pc' = [pc EXCEPT ![c] = to]

-----------------------------------------------------------------------------
(* Opening: both calls look whether the connection is open already, and    *)
(* share open_driver_with_tunnel.                                          *)

Look(o) ==
  /\ activeBy = None
  /\ Goes(o, "start", IF active # None THEN "done" ELSE "profile")
  /\ UNCHANGED <<tunnelled, saved, maps, locks, things, taken, history>>

(* store.get and the secrets of the keyring; both fail without the row.    *)
GetProfile(o) ==
  /\ Goes(o, "profile", IF saved THEN "tunnel" ELSE "done")
  /\ UNCHANGED <<tunnelled, saved, maps, locks, things, taken, history>>

OpenTunnel(o) ==
  /\ \/ /\ Goes(o, "tunnel", "connect")
        /\ tunnel' = [tunnel EXCEPT ![o] = IF tunnelled THEN "open" ELSE "none"]
     \/ /\ tunnelled
        /\ Goes(o, "tunnel", "done")
        /\ UNCHANGED tunnel
  /\ UNCHANGED <<tunnelled, saved, maps, locks, driver, taken, history>>

Connect(o) ==
  /\ \/ /\ Goes(o, "connect", "insert")
        /\ driver' = [driver EXCEPT ![o] = "connected"]
     \/ /\ Goes(o, "connect", "giveUp")
        /\ UNCHANGED driver
  /\ UNCHANGED <<tunnelled, saved, maps, locks, tunnel, taken, history>>

(* Mutant: the tunnel is left open when the driver does not connect.       *)
GiveUpTunnelOpen(o) ==
  /\ Goes(o, "giveUp", "done")
  /\ UNCHANGED <<tunnelled, saved, maps, locks, things, taken, history>>

(* connect failed: the tunnel is closed, so that it does not leak.         *)
GiveUp(o) ==
  /\ Goes(o, "giveUp", "done")
  /\ tunnel' = [tunnel EXCEPT ![o] = IF @ = "open" THEN "closed" ELSE @]
  /\ UNCHANGED <<tunnelled, saved, maps, locks, driver, taken, history>>

(* Where a call goes once its driver is in the map.                        *)
AfterInsert == IF tunnelled THEN "putTunnel" ELSE "done"

(* connection_open: insert, whatever is there by now.                      *)
Insert(o) ==
  /\ activeBy = None
  /\ Goes(o, "insert", AfterInsert)
  /\ active' = o
  /\ letGo' = letGo \cup ({active} \ {None})
  /\ torn' = (torn \/ active # None)
  /\ UNCHANGED <<tunnelled, saved, tunnels, locks, things, taken>>

(* Mutant: no second look, as before the MCP server had to share.          *)
InsertUnseen(o) ==
  /\ activeBy = None
  /\ Goes(o, "insert", AfterInsert)
  /\ active' = o
  /\ UNCHANGED <<tunnelled, saved, tunnels, locks, things, taken, history>>

(* open_connection_impl: look again under the lock, keep the first.        *)
InsertFirst(o) ==
  /\ activeBy = None
  /\ IF active = None
     THEN /\ Goes(o, "insert", AfterInsert)
          /\ active' = o
     ELSE /\ Goes(o, "insert", "discard")
          /\ UNCHANGED active
  /\ UNCHANGED <<tunnelled, saved, tunnels, locks, things, taken, history>>

(* The tunnel follows, after the lock on active was let go.  One that it   *)
(* replaces is dropped, which stops its listener.                          *)
PutTunnel(o) ==
  /\ tunnelsBy = None
  /\ Goes(o, "putTunnel", "done")
  /\ tunnels' = o
  /\ tunnel' = [t \in Opens |-> IF t = tunnels THEN "closed" ELSE tunnel[t]]
  /\ UNCHANGED <<tunnelled, saved, active, locks, driver, taken, history>>

(* The second of two opens disconnects its driver and closes its tunnel.   *)
Discard(o) ==
  /\ Goes(o, "discard", IF tunnelled THEN "discardTunnel" ELSE "done")
  /\ driver' = [driver EXCEPT ![o] = "closed"]
  /\ UNCHANGED <<tunnelled, saved, maps, locks, tunnel, taken, history>>

DiscardTunnel(o) ==
  /\ Goes(o, "discardTunnel", "done")
  /\ tunnel' = [tunnel EXCEPT ![o] = "closed"]
  /\ UNCHANGED <<tunnelled, saved, maps, locks, driver, taken, history>>

-----------------------------------------------------------------------------
(* Closing and deleting.                                                   *)

(* What follows once the driver is out of the map and disconnected.        *)
Then(c) == IF c \in Deletes THEN "deleteRow" ELSE "takeTunnel"

(* The calls of the window hold the lock on active until the driver is     *)
(* disconnected; close_connection lets it go first.  Taking a driver whose *)
(* tunnel is not in the map yet, or deleting it, leaves the tunnel.        *)
TakeDriver(c) ==
  /\ activeBy = None
  /\ IF active = None
     THEN /\ Goes(c, "start", Then(c))
          /\ UNCHANGED <<activeBy, taken, torn>>
     ELSE /\ Goes(c, "start", "disconnect")
          /\ activeBy' = IF c \in McpCloses THEN None ELSE c
          /\ taken' = [taken EXCEPT ![c] = active]
          /\ torn' = (torn \/ pc[active] = "putTunnel" \/ c \in Deletes)
  /\ active' = None
  /\ UNCHANGED <<tunnelled, saved, tunnels, tunnelsBy, things, letGo>>

Disconnect(c) ==
  /\ Goes(c, "disconnect", Then(c))
  /\ driver' = [driver EXCEPT ![taken[c]] = "closed"]
  /\ activeBy' = IF activeBy = c THEN None ELSE activeBy
  /\ UNCHANGED <<tunnelled, saved, maps, tunnelsBy, tunnel, taken, history>>

(* Whatever tunnel is there, be it another driver's.                       *)
TakeTunnel(c) ==
  /\ tunnelsBy = None
  /\ IF tunnels = None
     THEN /\ Goes(c, "takeTunnel", "done")
          /\ UNCHANGED <<tunnelsBy, taken, torn>>
     ELSE /\ Goes(c, "takeTunnel", "closeTunnel")
          /\ tunnelsBy' = IF c \in McpCloses THEN None ELSE c
          /\ taken' = [taken EXCEPT ![c] = tunnels]
          /\ torn' = (torn \/ tunnels # taken[c])
  /\ tunnels' = None
  /\ UNCHANGED <<tunnelled, saved, active, activeBy, things, letGo>>

CloseTunnel(c) ==
  /\ Goes(c, "closeTunnel", "done")
  /\ tunnel' = [tunnel EXCEPT ![taken[c]] = "closed"]
  /\ tunnelsBy' = IF tunnelsBy = c THEN None ELSE tunnelsBy
  /\ UNCHANGED <<tunnelled, saved, maps, activeBy, driver, taken, history>>

(* The secrets and the row.                                                *)
DeleteRow(c) ==
  /\ Goes(c, "deleteRow", "done")
  /\ saved' = FALSE
  /\ UNCHANGED <<tunnelled, maps, locks, things, taken, history>>

-----------------------------------------------------------------------------
(* A tool call is dropped, and with it the driver and the tunnel it has    *)
(* not put into their maps.  A dropped tunnel stops its listener; a        *)
(* dropped driver is disconnected by nobody.                               *)

(* open_connection_impl: a driver that is in the map stays there, though   *)
(* its tunnel never will be.                                               *)
DropOpen(o) ==
  /\ pc[o] # "done"
  /\ Goes(o, pc[o], "done")
  /\ tunnel' = [tunnel EXCEPT ![o] = IF @ = "open" THEN "closed" ELSE @]
  /\ letGo' = IF pc[o] \in {"insert", "discard"} THEN letGo \cup {o} ELSE letGo
  /\ torn' = (torn \/ pc[o] = "putTunnel")
  /\ UNCHANGED <<tunnelled, saved, maps, locks, driver, taken>>

(* close_connection: what it has taken goes, and the tunnel it would have  *)
(* taken stays.                                                            *)
DropClose(c) ==
  /\ pc[c] # "done"
  /\ Goes(c, pc[c], "done")
  /\ tunnel' = [t \in Opens |->
                  IF pc[c] = "closeTunnel" /\ t = taken[c] THEN "closed" ELSE tunnel[t]]
  /\ letGo' = IF pc[c] = "disconnect" THEN letGo \cup ({taken[c]} \ {None}) ELSE letGo
  /\ torn' = \/ torn
             \/ /\ pc[c] \in {"disconnect", "takeTunnel"}
                /\ tunnels # None /\ tunnels = taken[c]
  /\ UNCHANGED <<tunnelled, saved, maps, locks, driver, taken>>

-----------------------------------------------------------------------------
Open(o) ==
  \/ Look(o) \/ GetProfile(o) \/ OpenTunnel(o) \/ Connect(o) \/ GiveUp(o)
  \/ o \in WindowOpens /\ Insert(o)
  \/ o \in McpOpens /\ InsertFirst(o)
  \/ PutTunnel(o) \/ Discard(o) \/ DiscardTunnel(o)
  \/ o \in McpOpens /\ DropOpen(o)

Close(c) ==
  \/ TakeDriver(c) \/ Disconnect(c) \/ TakeTunnel(c) \/ CloseTunnel(c) \/ DeleteRow(c)
  \/ c \in McpCloses /\ DropClose(c)

(* All calls have returned; that they can, two locks or no, is what the    *)
(* check for deadlock is about.                                            *)
Returned == (\A c \in Calls : pc[c] = "done") /\ UNCHANGED vars

Next ==
  \/ \E o \in Opens : Open(o)
  \/ \E c \in Closes : Close(c)
  \/ Returned

Spec == Init /\ [][Next]_vars

-----------------------------------------------------------------------------
(* open_connection_impl, connection_close, connection_delete: a connected  *)
(* driver is in the map, or in the hands of a call that will put it there  *)
(* or disconnect it.  Two are let go of instead, and are the code's: one   *)
(* that the window inserts another one over, and one in the hands of a     *)
(* tool call that is dropped.                                              *)
NoDriverIsLost ==
  \A o \in Opens :
    driver[o] = "connected" =>
      \/ active = o
      \/ pc[o] \in {"insert", "discard"}
      \/ \E c \in Closes : pc[c] = "disconnect" /\ taken[c] = o
      \/ o \in letGo

(* state.rs on tunnels: kept alive while the driver is connected and       *)
(* closed together with it.  This holds whenever no call is under way,     *)
(* unless                                                                  *)
(*   - the window has inserted a driver over another one,                  *)
(*   - a close took the driver before its tunnel was in the map, or the    *)
(*     tunnel of a later open,                                             *)
(*   - the connection was deleted while it was open,                       *)
(*   - a tool call was dropped between the two maps.                       *)
AtRest == \A c \in Calls : pc[c] \in {"start", "done"}
TunnelFollowsDriver ==
  AtRest /\ ~torn /\ tunnelled =>
    /\ tunnels = active
    /\ \A o \in Opens : tunnel[o] = "open" <=> active = o
=============================================================================
