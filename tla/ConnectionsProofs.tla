-------------------------- MODULE ConnectionsProofs --------------------------
(***************************************************************************)
(* Proofs about Connections, for any number of calls of every kind, and    *)
(* about the host keys their tunnels trust (HostKeys), for any hosts,      *)
(* keys, handshakes and removals.                                          *)
(***************************************************************************)
EXTENDS Connections, HostKeys, TLAPS

(* None names no call.                                                     *)
LEMMA NoneIsNoCall == None \notin Opens /\ None \notin Closes
BY CallsAssumption DEF Calls

(* A call is an open or a close, not both.                                 *)
LEMMA OpensAreNoCloses ==
  /\ \A o \in Opens : o \in Calls /\ o \notin Closes
  /\ \A c \in Closes : c \in Calls /\ c \notin Opens
BY CallsAssumption DEF Calls

(* The types hold at the start.                                            *)
LEMMA InitType == Init => TypeOK
<1> SUFFICES ASSUME Init PROVE TypeOK
  OBVIOUS
<1>1. /\ pc \in [Calls -> Points]
      /\ driver \in [Opens -> {"none", "connected", "closed"}]
      /\ tunnel \in [Opens -> {"none", "open", "closed"}]
      /\ taken \in [Closes -> Opens \cup {None}]
  BY DEF Init, Points
<1> QED
  BY <1>1 DEF Init, TypeOK

(* Wherever a call goes, it goes to one of the points.                     *)
LEMMA GoesType ==
  ASSUME TypeOK, NEW c \in Calls, NEW from, NEW to \in Points, Goes(c, from, to)
  PROVE  pc' \in [Calls -> Points]
BY DEF Goes, TypeOK

(* A step of an open keeps the types.                                      *)
LEMMA OpenType == ASSUME TypeOK, NEW o \in Opens, Open(o) PROVE TypeOK'
<1>1. o \in Calls
  BY DEF Calls
<1> USE DEF maps, locks, things, history
<1>2. pc' \in [Calls -> Points]
  <2>1. PICK from, to : Goes(o, from, to) /\ to \in Points
    BY DEF Open, Look, GetProfile, OpenTunnel, Connect, GiveUp, Insert, InsertFirst,
      PutTunnel, Discard, DiscardTunnel, DropOpen, AfterInsert, Points
  <2> QED
    BY <1>1, <2>1, GoesType
<1> USE <1>2 DEF TypeOK
<1>3. CASE Look(o) \/ GetProfile(o)
  BY <1>3 DEF Look, GetProfile
<1>4. CASE OpenTunnel(o)
  BY <1>4 DEF OpenTunnel
<1>5. CASE Connect(o)
  BY <1>5 DEF Connect
<1>6. CASE GiveUp(o)
  BY <1>6 DEF GiveUp
<1>7. CASE Insert(o)
  BY <1>7 DEF Insert
<1>8. CASE InsertFirst(o)
  BY <1>8 DEF InsertFirst
<1>9. CASE PutTunnel(o)
  <2>1. tunnel' \in [Opens -> {"none", "open", "closed"}]
    BY <1>9 DEF PutTunnel
  <2> QED
    BY <1>9, <2>1 DEF PutTunnel
<1>10. CASE Discard(o)
  BY <1>10 DEF Discard
<1>11. CASE DiscardTunnel(o)
  BY <1>11 DEF DiscardTunnel
<1>12. CASE DropOpen(o)
  BY <1>12 DEF DropOpen
<1> QED
  BY <1>3, <1>4, <1>5, <1>6, <1>7, <1>8, <1>9, <1>10, <1>11, <1>12 DEF Open

(* A step of a close or a delete keeps the types.                          *)
LEMMA CloseType == ASSUME TypeOK, NEW c \in Closes, Close(c) PROVE TypeOK'
<1>1. c \in Calls
  BY DEF Calls
<1> USE DEF maps, locks, things, history
<1>2. pc' \in [Calls -> Points]
  <2>1. PICK from, to : Goes(c, from, to) /\ to \in Points
    BY DEF Close, TakeDriver, Disconnect, TakeTunnel, CloseTunnel, DeleteRow, DropClose,
      Then, Points
  <2> QED
    BY <1>1, <2>1, GoesType
<1> USE <1>2 DEF TypeOK
<1>3. CASE TakeDriver(c)
  <2>1. /\ activeBy' \in Closes \cup {None}
        /\ taken' \in [Closes -> Opens \cup {None}]
        /\ torn' \in BOOLEAN
    BY <1>3 DEF TakeDriver
  <2> QED
    BY <1>3, <2>1 DEF TakeDriver
<1>4. CASE Disconnect(c)
  BY <1>4 DEF Disconnect
<1>5. CASE TakeTunnel(c)
  <2>1. /\ tunnelsBy' \in Closes \cup {None}
        /\ taken' \in [Closes -> Opens \cup {None}]
        /\ torn' \in BOOLEAN
    BY <1>5 DEF TakeTunnel
  <2> QED
    BY <1>5, <2>1 DEF TakeTunnel
<1>6. CASE CloseTunnel(c)
  BY <1>6 DEF CloseTunnel
<1>7. CASE DeleteRow(c)
  BY <1>7 DEF DeleteRow
<1>8. CASE DropClose(c)
  <2>1. letGo' \subseteq Opens
    BY <1>8 DEF DropClose
  <2>2. tunnel' \in [Opens -> {"none", "open", "closed"}]
    BY <1>8 DEF DropClose
  <2>3. torn' \in BOOLEAN
    BY <1>8 DEF DropClose
  <2> QED
    BY <1>8, <2>1, <2>2, <2>3 DEF DropClose
<1> QED
  BY <1>3, <1>4, <1>5, <1>6, <1>7, <1>8 DEF Close

(* Every variable keeps its type, whatever calls there are.                *)
THEOREM TypeCorrect == Spec => []TypeOK
<1>1. Init => TypeOK
  BY InitType
<1>2. TypeOK /\ [Next]_vars => TypeOK'
  <2> SUFFICES ASSUME TypeOK, [Next]_vars PROVE TypeOK'
    OBVIOUS
  <2>1. CASE UNCHANGED vars
    BY <2>1 DEF vars, maps, locks, things, history, TypeOK
  <2> QED
    BY <2>1, OpenType, CloseType DEF Next, Returned
<1> QED
  BY <1>1, <1>2, PTL DEF Spec

-----------------------------------------------------------------------------
(* What a driver is in the hands of, other than the map.                   *)
Held(o) ==
  \/ pc[o] \in {"insert", "discard"}
  \/ \E c \in Closes : pc[c] = "disconnect" /\ taken[c] = o
  \/ o \in letGo

(* A step of the open of o moves no other driver out of other hands.       *)
LEMMA OthersStayHeld ==
  ASSUME TypeOK, NEW o \in Opens, NEW p \in Opens, p # o, Held(p),
         Open(o)
  PROVE  Held(p)'
<1>1. \A c \in Calls : c # o => pc'[c] = pc[c]
  BY DEF Open, Look, GetProfile, OpenTunnel, Connect, GiveUp, Insert, InsertFirst,
    PutTunnel, Discard, DiscardTunnel, DropOpen, Goes, TypeOK
<1>2. taken' = taken /\ letGo \subseteq letGo'
  BY DEF Open, Look, GetProfile, OpenTunnel, Connect, GiveUp, Insert, InsertFirst,
    PutTunnel, Discard, DiscardTunnel, DropOpen, history
<1> QED
  BY <1>1, <1>2, OpensAreNoCloses DEF Held, Calls

(* An open hands its driver to the map, disconnects it or lets go of it.   *)
LEMMA OpenLosesNone ==
  ASSUME TypeOK, NoDriverIsLost, NEW o \in Opens, Open(o) PROVE NoDriverIsLost'
<1> SUFFICES ASSUME NEW p \in Opens, driver'[p] = "connected"
             PROVE  active' = p \/ Held(p)'
  BY DEF NoDriverIsLost, Held
<1> USE DEF maps, locks, things, history
<1>1. o \in Calls
  BY DEF Calls
<1>2. CASE p # o
  <2>1. driver'[p] = driver[p]
    BY <1>2 DEF Open, Look, GetProfile, OpenTunnel, Connect, GiveUp, Insert,
      InsertFirst, PutTunnel, Discard, DiscardTunnel, DropOpen, TypeOK
  <2>2. active = p \/ Held(p)
    BY <2>1 DEF NoDriverIsLost, Held
  <2>3. active' = active \/ active \in {None} \cup letGo'
    BY DEF Open, Look, GetProfile, OpenTunnel, Connect, GiveUp, Insert, InsertFirst,
      PutTunnel, Discard, DiscardTunnel, DropOpen
  <2>4. CASE active = p
    BY <2>3, <2>4, NoneIsNoCall DEF Held
  <2>5. CASE Held(p)
    BY <1>2, <2>5, OthersStayHeld
  <2> QED
    BY <2>2, <2>4, <2>5
<1>3. CASE p = o
  <2>1. CASE Connect(o)
    BY <1>1, <1>3, <2>1, OpensAreNoCloses DEF Connect, Goes, TypeOK, NoDriverIsLost, Held
  <2>2. CASE Insert(o)
    BY <1>3, <2>2 DEF Insert
  <2>3. CASE InsertFirst(o)
    BY <1>1, <1>3, <2>3 DEF InsertFirst, Goes, TypeOK, Held
  <2>4. CASE Discard(o)
    BY <1>3, <2>4 DEF Discard, TypeOK
  <2>5. CASE \/ Look(o) \/ GetProfile(o) \/ OpenTunnel(o) \/ GiveUp(o) \/ PutTunnel(o)
             \/ DiscardTunnel(o)
    <3>1. /\ driver' = driver /\ active' = active /\ taken' = taken
          /\ letGo' = letGo
          /\ pc[o] \notin {"insert", "discard"}
          /\ \A c \in Calls : c # o => pc'[c] = pc[c]
      BY <2>5 DEF Look, GetProfile, OpenTunnel, GiveUp, PutTunnel, DiscardTunnel, Goes,
        TypeOK
    <3>2. active = o \/ Held(o)
      BY <1>3, <3>1 DEF NoDriverIsLost, Held
    <3> QED
      BY <1>3, <3>1, <3>2, OpensAreNoCloses DEF Held
  <2>6. CASE DropOpen(o)
    <3>1. /\ driver' = driver /\ active' = active /\ taken' = taken
          /\ letGo \subseteq letGo'
          /\ pc[o] \in {"insert", "discard"} => o \in letGo'
          /\ \A c \in Calls : c # o => pc'[c] = pc[c]
      BY <2>6 DEF DropOpen, Goes, TypeOK
    <3>2. active = o \/ Held(o)
      BY <1>3, <3>1 DEF NoDriverIsLost, Held
    <3> QED
      BY <1>3, <3>1, <3>2, OpensAreNoCloses DEF Held
  <2> QED
    BY <2>1, <2>2, <2>3, <2>4, <2>5, <2>6 DEF Open
<1> QED
  BY <1>2, <1>3

(* A close takes the driver out of the map into its hands and disconnects  *)
(* it or lets go of it.                                                    *)
LEMMA CloseLosesNone ==
  ASSUME TypeOK, NoDriverIsLost, NEW c \in Closes, Close(c) PROVE NoDriverIsLost'
<1> SUFFICES ASSUME NEW p \in Opens, driver'[p] = "connected"
             PROVE  active' = p \/ Held(p)'
  BY DEF NoDriverIsLost, Held
<1> USE DEF maps, locks, things, history
<1>1. /\ \A x \in Calls : x # c => pc'[x] = pc[x]
      /\ \A x \in Closes : x # c => taken'[x] = taken[x]
      /\ letGo \subseteq letGo'
  BY DEF Close, TakeDriver, Disconnect, TakeTunnel, CloseTunnel, DeleteRow, DropClose, Goes,
    TypeOK
<1>2. driver[p] = "connected"
  BY DEF Close, TakeDriver, Disconnect, TakeTunnel, CloseTunnel, DeleteRow, DropClose, TypeOK
<1>3. active = p \/ Held(p)
  BY <1>2 DEF NoDriverIsLost, Held
<1>4. ASSUME active' = active, pc[c] # "disconnect" PROVE active' = p \/ Held(p)'
  BY <1>1, <1>3, <1>4, OpensAreNoCloses DEF Held
<1>5. CASE TakeDriver(c)
  <2>1. pc[c] = "start" /\ active' = None
    BY <1>5 DEF TakeDriver, Goes
  <2>2. CASE active = p
    <3>1. pc'[c] = "disconnect" /\ taken'[c] = p
      BY <1>5, <2>2, NoneIsNoCall, OpensAreNoCloses DEF TakeDriver, Goes, TypeOK
    <3> QED
      BY <3>1 DEF Held
  <2>3. CASE Held(p)
    BY <1>1, <2>1, <2>3, OpensAreNoCloses DEF Held
  <2> QED
    BY <1>3, <2>2, <2>3
<1>6. CASE Disconnect(c)
  <2>1. taken[c] # p /\ active' = active
    BY <1>6 DEF Disconnect, TypeOK
  <2> QED
    BY <1>1, <1>3, <2>1, OpensAreNoCloses DEF Held
<1>7. CASE TakeTunnel(c) \/ CloseTunnel(c) \/ DeleteRow(c)
  BY <1>4, <1>7 DEF TakeTunnel, CloseTunnel, DeleteRow, Goes
<1>8. CASE DropClose(c)
  <2>1. active' = active /\ taken' = taken
    BY <1>8 DEF DropClose
  <2>2. pc[c] = "disconnect" /\ taken[c] = p => p \in letGo'
    BY <1>8, NoneIsNoCall DEF DropClose
  <2> QED
    BY <1>1, <1>3, <2>1, <2>2, OpensAreNoCloses DEF Held
<1> QED
  BY <1>5, <1>6, <1>7, <1>8 DEF Close

(* No connected driver is ever out of reach but those the window's open    *)
(* has inserted another one over and those in the hands of a tool call     *)
(* that is dropped, however many calls race.                               *)
THEOREM NoDriverIsEverLost == Spec => []NoDriverIsLost
<1>1. Init => NoDriverIsLost
  BY DEF Init, NoDriverIsLost
<1>2. TypeOK /\ NoDriverIsLost /\ [Next]_vars => NoDriverIsLost'
  <2> SUFFICES ASSUME TypeOK, NoDriverIsLost, [Next]_vars PROVE NoDriverIsLost'
    OBVIOUS
  <2>1. CASE UNCHANGED vars
    BY <2>1 DEF vars, maps, things, history, NoDriverIsLost
  <2> QED
    BY <2>1, OpenLosesNone, CloseLosesNone DEF Next, Returned
<1> QED
  BY <1>1, <1>2, TypeCorrect, PTL DEF Spec

-----------------------------------------------------------------------------
(* As long as nothing was torn, the way of a tunnel: open from before its  *)
(* driver connects, in the map right after the driver, out of it after the *)
(* driver, in the same hands.                                              *)
OnTheWay == {"connect", "giveUp", "insert", "putTunnel", "discard", "discardTunnel"}

(* A close has the tunnel of o out of the map, or is about to take it.     *)
Closing(o) == \E c \in Closes : pc[c] = "closeTunnel" /\ taken[c] = o
AboutToClose(o) ==
  \E c \in Closes : pc[c] \in {"disconnect", "takeTunnel"} /\ taken[c] = o

OpenInv(o) ==
  /\ pc[o] \in {"start", "profile", "tunnel"} => tunnel[o] = "none"
  /\ pc[o] \in OnTheWay => tunnel[o] = "open"
  /\ pc[o] = "done" => (tunnel[o] = "open" <=> tunnels = o \/ Closing(o))
  /\ active = o => pc[o] = "putTunnel" \/ (pc[o] = "done" /\ tunnels = o)
  /\ pc[o] = "putTunnel" => active = o
  /\ tunnels = o => pc[o] = "done" /\ (active = o \/ AboutToClose(o))
CloseInv(c) ==
  /\ pc[c] = "closeTunnel" => taken[c] # None /\ taken[c] # tunnels
  /\ pc[c] = "disconnect" => taken[c] # None /\ c \notin Deletes
  /\ taken[c] # None => pc[taken[c]] = "done" /\ active # taken[c]
  /\ \A d \in Closes : taken[c] = taken[d] /\ taken[c] # None => c = d

WayInv == (\A o \in Opens : OpenInv(o)) /\ (\A c \in Closes : CloseInv(c))
TunnelInv == ~torn /\ tunnelled => WayInv

(* A step of an open that ends its way or goes on along it, with the maps  *)
(* and the other tunnels as they are.                                      *)
LEMMA OpenFrame ==
  ASSUME TypeOK, WayInv, NEW o \in Opens, active # o, tunnels # o, ~Closing(o),
         \A c \in Closes : taken[c] # o,
         NEW x \in {"profile", "tunnel", "done"} \cup (OnTheWay \ {"putTunnel"}),
         pc' = [pc EXCEPT ![o] = x], UNCHANGED <<maps, taken>>,
         \A p \in Opens \ {o} : tunnel'[p] = tunnel[p],
         x \in OnTheWay <=> tunnel'[o] = "open",
         x \in {"profile", "tunnel"} => tunnel'[o] = "none"
  PROVE  WayInv'
<1>1. /\ o \in Calls /\ \A c \in Closes : pc'[c] = pc[c]
      /\ pc'[o] = x /\ \A p \in Opens \ {o} : pc'[p] = pc[p]
      /\ UNCHANGED <<active, tunnels>>
  BY OpensAreNoCloses DEF TypeOK, maps, Calls
<1>2. \A p \in Opens : Closing(p)' = Closing(p) /\ AboutToClose(p)' = AboutToClose(p)
  BY <1>1 DEF Closing, AboutToClose
<1>3. ASSUME NEW p \in Opens PROVE OpenInv(p)'
  BY <1>1, <1>2, <1>3 DEF WayInv, OpenInv, OnTheWay
<1>4. ASSUME NEW c \in Closes PROVE CloseInv(c)'
  BY <1>1, <1>4 DEF WayInv, CloseInv, TypeOK
<1> QED
  BY <1>3, <1>4 DEF WayInv

(* A driver that goes into an empty map is followed by its tunnel.         *)
LEMMA InsertKeepsWay ==
  ASSUME TypeOK, WayInv, tunnelled, NEW o \in Opens, pc[o] = "insert", active = None,
         active' = o, pc' = [pc EXCEPT ![o] = "putTunnel"],
         UNCHANGED <<tunnels, tunnel, taken>>
  PROVE  WayInv'
<1>1. /\ o \in Calls /\ \A c \in Closes : pc'[c] = pc[c]
      /\ pc'[o] = "putTunnel" /\ \A p \in Opens \ {o} : pc'[p] = pc[p]
  BY OpensAreNoCloses DEF TypeOK, Calls
<1>2. \A p \in Opens : Closing(p)' = Closing(p) /\ AboutToClose(p)' = AboutToClose(p)
  BY <1>1 DEF Closing, AboutToClose
<1>3. ASSUME NEW p \in Opens PROVE OpenInv(p)'
  BY <1>1, <1>2, <1>3, NoneIsNoCall DEF WayInv, OpenInv, OnTheWay
<1>4. ASSUME NEW c \in Closes PROVE CloseInv(c)'
  BY <1>1, <1>4 DEF WayInv, CloseInv, TypeOK
<1> QED
  BY <1>3, <1>4 DEF WayInv

(* The tunnel is put into the map; one that it drops was being closed.     *)
LEMMA PutKeepsWay ==
  ASSUME TypeOK, WayInv, NEW o \in Opens, PutTunnel(o) PROVE WayInv'
<1>1. /\ pc[o] = "putTunnel"
      /\ o \in Calls /\ \A c \in Closes : pc'[c] = pc[c]
      /\ pc'[o] = "done" /\ \A p \in Opens \ {o} : pc'[p] = pc[p]
      /\ tunnels' = o /\ UNCHANGED <<active, taken>>
      /\ \A p \in Opens : tunnel'[p] = IF p = tunnels THEN "closed" ELSE tunnel[p]
  BY OpensAreNoCloses DEF PutTunnel, Goes, TypeOK, Calls
<1>2. \A p \in Opens : Closing(p)' = Closing(p) /\ AboutToClose(p)' = AboutToClose(p)
  BY <1>1 DEF Closing, AboutToClose
<1>3. active = o /\ tunnels # o /\ tunnel[o] = "open"
  BY <1>1 DEF WayInv, OpenInv, OnTheWay
<1>4. \A p \in Opens : p = tunnels => ~Closing(p)
  BY DEF WayInv, CloseInv, Closing
<1>5. ASSUME NEW p \in Opens PROVE OpenInv(p)'
  <2>1. OpenInv(p)
    BY DEF WayInv
  <2>2. CASE p = o
    BY <1>1, <1>2, <1>3, <2>2 DEF OpenInv, OnTheWay
  <2>3. CASE p # o
    BY <1>1, <1>2, <1>3, <1>4, <2>1, <2>3 DEF OpenInv, OnTheWay
  <2> QED
    BY <2>2, <2>3
<1>6. ASSUME NEW c \in Closes PROVE CloseInv(c)'
  BY <1>1, <1>6 DEF WayInv, CloseInv, TypeOK
<1> QED
  BY <1>5, <1>6 DEF WayInv

(* An open keeps the way of every tunnel.                                  *)
LEMMA OpenKeepsWay ==
  ASSUME TypeOK, WayInv, tunnelled, ~torn', NEW o \in Opens, Open(o) PROVE WayInv'
<1> USE DEF maps, locks, things, history, Goes
<1>1. pc[o] \notin {"putTunnel", "done"} =>
        /\ active # o /\ tunnels # o /\ ~Closing(o)
        /\ \A c \in Closes : taken[c] # o
  BY NoneIsNoCall DEF WayInv, OpenInv, CloseInv, Closing, TypeOK
<1>2. /\ pc[o] \in {"start", "profile", "tunnel"} => tunnel[o] = "none"
      /\ pc[o] \in OnTheWay => tunnel[o] = "open"
  BY DEF WayInv, OpenInv
<1>3. CASE Look(o) \/ GetProfile(o)
  <2>1. PICK x \in {"profile", "tunnel", "done"} : pc' = [pc EXCEPT ![o] = x]
    BY <1>3 DEF Look, GetProfile
  <2> QED
    BY <1>1, <1>2, <1>3, <2>1, OpenFrame DEF Look, GetProfile, OnTheWay
<1>4. CASE OpenTunnel(o)
  <2>1. PICK x \in {"connect", "done"} :
          pc' = [pc EXCEPT ![o] = x] /\ (x = "connect" <=> tunnel'[o] = "open")
    BY <1>2, <1>4 DEF OpenTunnel, TypeOK
  <2>2. \A p \in Opens \ {o} : tunnel'[p] = tunnel[p]
    BY <1>4 DEF OpenTunnel, TypeOK
  <2> QED
    BY <1>1, <1>4, <2>1, <2>2, OpenFrame DEF OpenTunnel, OnTheWay
<1>5. CASE Connect(o)
  <2>1. PICK x \in {"insert", "giveUp"} : pc' = [pc EXCEPT ![o] = x]
    BY <1>5 DEF Connect
  <2> QED
    BY <1>1, <1>2, <1>5, <2>1, OpenFrame DEF Connect, OnTheWay
<1>6. CASE GiveUp(o)
  <2>1. tunnel'[o] = "closed" /\ \A p \in Opens \ {o} : tunnel'[p] = tunnel[p]
    BY <1>2, <1>6 DEF GiveUp, OnTheWay, TypeOK
  <2> QED
    BY <1>1, <1>6, <2>1, OpenFrame DEF GiveUp, OnTheWay
<1>7. CASE Insert(o)
  BY <1>7, InsertKeepsWay DEF Insert, AfterInsert
<1>8. CASE InsertFirst(o)
  <2>1. CASE active = None
    BY <1>8, <2>1, InsertKeepsWay DEF InsertFirst, AfterInsert
  <2>2. CASE active # None
    BY <1>1, <1>2, <1>8, <2>2, OpenFrame DEF InsertFirst, OnTheWay
  <2> QED
    BY <2>1, <2>2
<1>9. CASE PutTunnel(o)
  BY <1>9, PutKeepsWay
<1>10. CASE Discard(o)
  BY <1>1, <1>2, <1>10, OpenFrame DEF Discard, OnTheWay
<1>11. CASE DiscardTunnel(o)
  <2>1. tunnel'[o] = "closed" /\ \A p \in Opens \ {o} : tunnel'[p] = tunnel[p]
    BY <1>11 DEF DiscardTunnel, TypeOK
  <2> QED
    BY <1>1, <1>11, <2>1, OpenFrame DEF DiscardTunnel, OnTheWay
<1>12. CASE DropOpen(o)
  <2>1. /\ pc[o] \notin {"putTunnel", "done"}
        /\ pc' = [pc EXCEPT ![o] = "done"] /\ tunnel'[o] # "open"
        /\ \A p \in Opens \ {o} : tunnel'[p] = tunnel[p]
        /\ UNCHANGED <<maps, taken>>
    BY <1>12 DEF DropOpen, TypeOK
  <2> QED
    BY <1>1, <2>1, OpenFrame DEF OnTheWay
<1> QED
  BY <1>3, <1>4, <1>5, <1>6, <1>7, <1>8, <1>9, <1>10, <1>11, <1>12 DEF Open

(* A close takes the tunnel it has taken the driver of.                    *)
LEMMA CloseKeepsWay ==
  ASSUME TypeOK, WayInv, tunnelled, ~torn', NEW c \in Closes, Close(c) PROVE WayInv'
<1> USE DEF maps, locks, things, history, Goes
<1>1. /\ c \in Calls /\ \A o \in Opens : pc'[o] = pc[o]
      /\ \A d \in Closes \ {c} : pc'[d] = pc[d] /\ taken'[d] = taken[d]
  BY OpensAreNoCloses DEF Close, TakeDriver, Disconnect, TakeTunnel, CloseTunnel, DeleteRow,
    DropClose, TypeOK, Calls
<1>2. (\A o \in Opens : OpenInv(o)) /\ (\A d \in Closes : CloseInv(d))
  BY DEF WayInv
<1>3. CASE (TakeDriver(c) /\ active = None) \/ DeleteRow(c)
  <2>1. /\ pc[c] \in {"start", "deleteRow"} /\ pc'[c] \in {"takeTunnel", "deleteRow", "done"}
        /\ UNCHANGED <<active, tunnels, tunnel, taken>>
    BY <1>1, <1>3 DEF TakeDriver, DeleteRow, Then, TypeOK
  <2>2. \A o \in Opens : /\ Closing(o)' = Closing(o)
                         /\ AboutToClose(o) => AboutToClose(o)'
    BY <1>1, <2>1 DEF Closing, AboutToClose
  <2>3. ASSUME NEW o \in Opens PROVE OpenInv(o)'
    BY <1>1, <1>2, <2>1, <2>2, <2>3 DEF OpenInv
  <2>4. ASSUME NEW d \in Closes PROVE CloseInv(d)'
    BY <1>1, <1>2, <2>1, <2>4 DEF CloseInv, TypeOK
  <2> QED
    BY <2>3, <2>4 DEF WayInv
<1>4. CASE TakeDriver(c) /\ active # None
  <2>1. /\ pc[c] = "start" /\ pc'[c] = "disconnect" /\ c \notin Deletes
        /\ active \in Opens /\ taken'[c] = active /\ active' = None
        /\ UNCHANGED <<tunnels, tunnel>>
        /\ pc[active] # "putTunnel"
    BY <1>1, <1>4 DEF TakeDriver, TypeOK
  <2>2. pc[active] = "done" /\ tunnels = active
    BY <1>2, <2>1 DEF OpenInv
  <2>3. \A o \in Opens : /\ Closing(o)' = Closing(o)
                         /\ AboutToClose(o) => AboutToClose(o)'
    BY <1>1, <2>1 DEF Closing, AboutToClose
  <2>4. AboutToClose(active) \/ \E d \in Closes : pc'[d] = "disconnect" /\ taken'[d] = active
    BY <2>1
  <2>5. ASSUME NEW o \in Opens PROVE OpenInv(o)'
    <3>1. o = active => AboutToClose(o)'
      BY <2>1 DEF AboutToClose
    <3> QED
      BY <1>1, <1>2, <2>1, <2>2, <2>3, <2>5, <3>1, NoneIsNoCall DEF OpenInv
  <2>6. ASSUME NEW d \in Closes PROVE CloseInv(d)'
    BY <1>1, <1>2, <2>1, <2>2, <2>6, NoneIsNoCall DEF CloseInv, TypeOK
  <2> QED
    BY <2>5, <2>6 DEF WayInv
<1>5. CASE Disconnect(c)
  <2>1. /\ pc[c] = "disconnect" /\ pc'[c] = "takeTunnel"
        /\ UNCHANGED <<active, tunnels, tunnel, taken>>
    BY <1>1, <1>2, <1>5 DEF Disconnect, Then, CloseInv, TypeOK
  <2>2. \A o \in Opens : /\ Closing(o)' = Closing(o)
                         /\ AboutToClose(o) => AboutToClose(o)'
    BY <1>1, <2>1 DEF Closing, AboutToClose
  <2>3. ASSUME NEW o \in Opens PROVE OpenInv(o)'
    BY <1>1, <1>2, <2>1, <2>2, <2>3 DEF OpenInv
  <2>4. ASSUME NEW d \in Closes PROVE CloseInv(d)'
    BY <1>1, <1>2, <2>1, <2>4 DEF CloseInv, TypeOK
  <2> QED
    BY <2>3, <2>4 DEF WayInv
<1>6. CASE TakeTunnel(c)
  <2>1. /\ pc[c] = "takeTunnel" /\ active' = active /\ tunnel' = tunnel
        /\ tunnels' = None /\ taken' = taken
        /\ tunnels # None => tunnels = taken[c] /\ tunnels \in Opens
        /\ pc'[c] = IF tunnels = None THEN "done" ELSE "closeTunnel"
    <3>1. CASE tunnels = None
      BY <1>1, <1>6, <3>1 DEF TakeTunnel, TypeOK
    <3>2. CASE tunnels # None
      <4>1. tunnels = taken[c] /\ tunnels \in Opens
        BY <1>6, <3>2 DEF TakeTunnel, TypeOK
      <4>2. taken' = taken
        BY <1>6, <3>2, <4>1 DEF TakeTunnel, TypeOK
      <4> QED
        BY <1>1, <1>6, <3>2, <4>1, <4>2 DEF TakeTunnel, TypeOK
    <3> QED
      BY <3>1, <3>2
  <2>2. \A o \in Opens : Closing(o)' <=> Closing(o) \/ tunnels = o
    BY <1>1, <2>1, NoneIsNoCall DEF Closing
  <2>3. ASSUME NEW o \in Opens PROVE OpenInv(o)'
    <3>1. tunnels' # o /\ (active = o => tunnels # o)
      BY <1>2, <2>1, NoneIsNoCall DEF CloseInv
    <3> QED
      BY <1>1, <1>2, <2>1, <2>2, <2>3, <3>1 DEF OpenInv
  <2>4. ASSUME NEW d \in Closes PROVE CloseInv(d)'
    BY <1>1, <1>2, <2>1, <2>4 DEF CloseInv, TypeOK
  <2> QED
    BY <2>3, <2>4 DEF WayInv
<1>7. CASE CloseTunnel(c) \/ (DropClose(c) /\ pc[c] = "closeTunnel")
  <2>1. /\ pc[c] = "closeTunnel" /\ pc'[c] = "done"
        /\ UNCHANGED <<active, tunnels, taken>>
        /\ taken[c] \in Opens /\ tunnel'[taken[c]] = "closed"
        /\ \A o \in Opens : o # taken[c] => tunnel'[o] = tunnel[o]
    BY <1>1, <1>2, <1>7 DEF CloseTunnel, DropClose, CloseInv, TypeOK
  <2>2. \A o \in Opens : /\ Closing(o)' <=> Closing(o) /\ o # taken[c]
                         /\ AboutToClose(o)' = AboutToClose(o)
    <3>1. \A d \in Closes : taken[d] = taken[c] => d = c
      BY <1>2, <2>1, NoneIsNoCall DEF CloseInv
    <3> QED
      BY <1>1, <2>1, <3>1 DEF Closing, AboutToClose
  <2>3. ASSUME NEW o \in Opens PROVE OpenInv(o)'
    <3>1. CASE o = taken[c]
      <4>1. pc[o] = "done" /\ tunnels # o /\ active # o
        BY <1>2, <2>1, <3>1, NoneIsNoCall DEF CloseInv
      <4> QED
        BY <1>1, <2>1, <2>2, <3>1, <4>1 DEF OpenInv, OnTheWay
    <3>2. CASE o # taken[c]
      BY <1>1, <1>2, <2>1, <2>2, <2>3, <3>2 DEF OpenInv
    <3> QED
      BY <3>1, <3>2
  <2>4. ASSUME NEW d \in Closes PROVE CloseInv(d)'
    BY <1>1, <1>2, <2>1, <2>4 DEF CloseInv, TypeOK
  <2> QED
    BY <2>3, <2>4 DEF WayInv
<1>8. CASE DropClose(c) /\ pc[c] # "closeTunnel"
  <2>1. /\ pc'[c] = "done" /\ UNCHANGED <<active, tunnels, taken>>
        /\ \A o \in Opens : tunnel'[o] = tunnel[o]
        /\ pc[c] \in {"disconnect", "takeTunnel"} => tunnels = None \/ tunnels # taken[c]
    BY <1>1, <1>8 DEF DropClose, TypeOK
  <2>2. \A o \in Opens : /\ Closing(o)' = Closing(o)
                         /\ AboutToClose(o) /\ tunnels = o => AboutToClose(o)'
    BY <1>1, <1>8, <2>1, NoneIsNoCall DEF Closing, AboutToClose
  <2>3. ASSUME NEW o \in Opens PROVE OpenInv(o)'
    BY <1>1, <1>2, <2>1, <2>2, <2>3 DEF OpenInv
  <2>4. ASSUME NEW d \in Closes PROVE CloseInv(d)'
    BY <1>1, <1>2, <2>1, <2>4 DEF CloseInv, TypeOK
  <2> QED
    BY <2>3, <2>4 DEF WayInv
<1> QED
  BY <1>3, <1>4, <1>5, <1>6, <1>7, <1>8 DEF Close

(* Nothing torn is ever mended, and a profile keeps its kind.              *)
LEMMA HistoryStays ==
  ASSUME [Next]_vars PROVE tunnelled' = tunnelled /\ (torn => torn')
<1> USE DEF history
<1>1. ASSUME NEW o \in Opens, Open(o) PROVE tunnelled' = tunnelled /\ (torn => torn')
  <2>1. CASE Insert(o)
    BY <2>1 DEF Insert
  <2>2. CASE \/ Look(o) \/ GetProfile(o) \/ OpenTunnel(o) \/ Connect(o) \/ GiveUp(o)
             \/ InsertFirst(o) \/ PutTunnel(o) \/ Discard(o) \/ DiscardTunnel(o)
    BY <2>2 DEF Look, GetProfile, OpenTunnel, Connect, GiveUp, InsertFirst, PutTunnel,
      Discard, DiscardTunnel
  <2>3. CASE DropOpen(o)
    BY <2>3 DEF DropOpen
  <2> QED
    BY <1>1, <2>1, <2>2, <2>3 DEF Open
<1>2. ASSUME NEW c \in Closes, Close(c) PROVE tunnelled' = tunnelled /\ (torn => torn')
  <2>1. CASE TakeDriver(c)
    BY <2>1 DEF TakeDriver
  <2>2. CASE TakeTunnel(c)
    BY <2>2 DEF TakeTunnel
  <2>3. CASE Disconnect(c) \/ CloseTunnel(c) \/ DeleteRow(c)
    BY <2>3 DEF Disconnect, CloseTunnel, DeleteRow
  <2>4. CASE DropClose(c)
    BY <2>4 DEF DropClose
  <2> QED
    BY <1>2, <2>1, <2>2, <2>3, <2>4 DEF Close
<1>3. CASE UNCHANGED vars
  BY <1>3 DEF vars
<1> QED
  BY <1>1, <1>2, <1>3 DEF Next, Returned

(* When no call is under way, the tunnel in the map is the driver's, and   *)
(* no other tunnel is open, unless a call has torn the two apart.          *)
THEOREM TunnelsFollowDrivers == Spec => []TunnelFollowsDriver
<1>1. Init => TunnelInv
  <2> SUFFICES ASSUME Init PROVE WayInv
    BY DEF TunnelInv
  <2>1. ASSUME NEW o \in Opens PROVE OpenInv(o)
    BY <2>1, NoneIsNoCall DEF Init, OpenInv, OnTheWay, Calls
  <2>2. ASSUME NEW c \in Closes PROVE CloseInv(c)
    BY <2>2 DEF Init, CloseInv, Calls
  <2> QED
    BY <2>1, <2>2 DEF WayInv
<1>2. TypeOK /\ TunnelInv /\ [Next]_vars => TunnelInv'
  <2> SUFFICES ASSUME TypeOK, TunnelInv, [Next]_vars, ~torn', tunnelled' PROVE WayInv'
    BY DEF TunnelInv
  <2>1. WayInv /\ tunnelled
    BY HistoryStays DEF TunnelInv
  <2>2. CASE UNCHANGED vars
    BY <2>1, <2>2 DEF vars, maps, things, WayInv, OpenInv, CloseInv, Closing, AboutToClose
  <2> QED
    BY <2>1, <2>2, OpenKeepsWay, CloseKeepsWay DEF Next, Returned
<1>3. TypeOK /\ TunnelInv => TunnelFollowsDriver
  <2> SUFFICES ASSUME TypeOK, WayInv, AtRest
               PROVE  /\ tunnels = active
                      /\ \A o \in Opens : tunnel[o] = "open" <=> active = o
    BY DEF TunnelInv, TunnelFollowsDriver
  <2>1. /\ \A c \in Calls : pc[c] \in {"start", "done"}
        /\ \A o \in Opens : OpenInv(o) /\ ~Closing(o) /\ ~AboutToClose(o)
    BY OpensAreNoCloses DEF AtRest, WayInv, Closing, AboutToClose, Calls
  <2>2. \A o \in Opens : active = o <=> tunnels = o
    BY <2>1, OpensAreNoCloses DEF OpenInv
  <2>3. tunnels = active
    BY <2>2 DEF TypeOK
  <2>4. ASSUME NEW o \in Opens PROVE tunnel[o] = "open" <=> active = o
    BY <2>1, <2>2, <2>4, OpensAreNoCloses DEF OpenInv
  <2> QED
    BY <2>3, <2>4
<1> QED
  BY <1>1, <1>2, <1>3, TypeCorrect, PTL DEF Spec

-----------------------------------------------------------------------------
(* Consent is there wherever a yes is on its way, and wherever an entry is *)
(* on its way to the file.                                                 *)
ConsentInv ==
  /\ OnlyConsentedAreTrusted
  /\ \A h \in Handshakes : answer[h] = "yes" => offer[h] \in consented
  /\ sender # <<>> /\ sender[2] => offer[sender[1]] \in consented
  /\ \A r \in Removals : snapshot[r] \subseteq consented

(* As long as no writer has overlapped with a removal and none of the      *)
(* window has failed, the window's memory and what scheduled runs have     *)
(* added are the file and what the window is appending to it, or memory is *)
(* what is being written.                                                  *)
Appending == {h \in Handshakes : process[h] = Window /\ stage[h] = "append"}
FileInv ==
  ~parted =>
    /\ rewriting = {} =>
         memory[Window] \cup unseen = file \cup {offer[h] : h \in Appending}
    /\ rewriting # {} =>
         /\ Appending = {}
         /\ \A r \in rewriting : rewriting = {r} /\ snapshot[r] = memory[Window]

(* What the window still shows are prompts of handshakes.                  *)
LEMMA HeadIsHandshake ==
  ASSUME KeysTypeOK, dialog # <<>>
  PROVE  Head(dialog) \in Handshakes /\ Tail(dialog) \in Seq(Handshakes)
BY DEF KeysTypeOK

(* The types hold at the start.                                            *)
LEMMA KeysInitType == KeysInit => KeysTypeOK
<1> SUFFICES ASSUME KeysInit PROVE KeysTypeOK
  OBVIOUS
<1>1. /\ stage \in [Handshakes -> HandshakePoints]
      /\ answer \in [Handshakes -> {"none", "yes", "no"}]
      /\ snapshot \in [Removals -> SUBSET Entries]
      /\ memory \in [Processes -> SUBSET Entries]
  BY DEF KeysInit, HandshakePoints
<1>2. dialog \in Seq(Handshakes)
  BY DEF KeysInit
<1> QED
  BY <1>1, <1>2 DEF KeysInit, KeysTypeOK

(* A step of a handshake keeps the types.                                  *)
LEMMA HandshakeType ==
  ASSUME KeysTypeOK, NEW h \in Handshakes, Handshake(h) PROVE KeysTypeOK'
<1> USE DEF inputs, removalVars
<1>1. stage' \in [Handshakes -> HandshakePoints]
  BY DEF KeysTypeOK, HandshakePoints, Advances, Handshake, Verify, Emit, Hear, TimeOut, AddToMemory,
    AppendToFile
<1>2. offer[h] \in Entries /\ process[h] \in Processes
  BY DEF KeysTypeOK
<1>3. Append(dialog, h) \in Seq(Handshakes)
  BY DEF KeysTypeOK
<1> USE <1>1, <1>2 DEF KeysTypeOK
<1>4. CASE Verify(h)
  <2>1. prompts' \subseteq Handshakes /\ consented' \subseteq Entries
    BY <1>4 DEF Verify
  <2> QED
    BY <1>4, <2>1 DEF Verify
<1>5. CASE Emit(h)
  <2>1. dialog' = dialog \/ dialog' = Append(dialog, h)
    BY <1>5 DEF Emit
  <2>2. dialog' \in Seq(Handshakes)
    BY <1>3, <2>1
  <2> QED
    BY <1>5, <2>2 DEF Emit
<1>6. CASE Hear(h) \/ TimeOut(h)
  BY <1>6 DEF Hear, TimeOut
<1>7. CASE AddToMemory(h)
  <2>1. memory' \in [Processes -> SUBSET Entries]
    BY <1>7 DEF AddToMemory
  <2>2. parted' \in BOOLEAN
    BY <1>7 DEF AddToMemory
  <2> QED
    BY <1>7, <2>1, <2>2 DEF AddToMemory
<1>8. CASE AppendToFile(h)
  <2>1. parted' \in BOOLEAN
    BY <1>8 DEF AppendToFile
  <2>2. file' \subseteq Entries /\ unseen' \subseteq Entries
    BY <1>8 DEF AppendToFile
  <2> QED
    BY <1>8, <2>1, <2>2 DEF AppendToFile
<1> QED
  BY <1>4, <1>5, <1>6, <1>7, <1>8 DEF Handshake

(* A step of the window keeps the types.                                   *)
LEMMA WindowType ==
  ASSUME KeysTypeOK, \/ \E yes \in BOOLEAN : Respond(yes)
                     \/ Send
                     \/ \E r \in Removals : Removal(r)
                     \/ Restart
                     \/ \E p \in Headless : NextRun(p)
  PROVE  KeysTypeOK'
<1> USE DEF inputs, handshakeVars, removalVars
<1>1. CASE \E yes \in BOOLEAN : Respond(yes)
  <2>1. PICK yes \in BOOLEAN : Respond(yes)
    BY <1>1
  <2>2. /\ Head(dialog) \in Handshakes
        /\ dialog' \in Seq(Handshakes)
    BY <2>1, HeadIsHandshake DEF Respond
  <2>3. /\ sender' \in (Handshakes \X BOOLEAN) \cup {<<>>}
        /\ consented' \subseteq Entries
    BY <2>1, <2>2 DEF Respond, KeysTypeOK
  <2> QED
    BY <2>1, <2>2, <2>3 DEF Respond, KeysTypeOK
<1>2. CASE Send
  <2>1. answer' \in [Handshakes -> {"none", "yes", "no"}]
    BY <1>2 DEF Send, KeysTypeOK
  <2> QED
    BY <1>2, <2>1 DEF Send, KeysTypeOK
<1>3. ASSUME NEW r \in Removals, NEW e \in Entries, Remove(r, e) PROVE KeysTypeOK'
  <2>1. /\ memory' \in [Processes -> SUBSET Entries]
        /\ snapshot' \in [Removals -> SUBSET Entries]
    BY <1>3 DEF Remove, Processes, KeysTypeOK
  <2>2. parted' \in BOOLEAN
    BY <1>3 DEF Remove, Writing, KeysTypeOK
  <2> QED
    BY <1>3, <2>1, <2>2 DEF Remove, KeysTypeOK
<1>4. ASSUME NEW r \in Removals, Rewrite(r) PROVE KeysTypeOK'
  BY <1>4 DEF Rewrite, KeysTypeOK
<1>5. CASE Restart
  <2>1. /\ stage' \in [Handshakes -> HandshakePoints]
        /\ snapshot' \in [Removals -> SUBSET Entries]
        /\ dialog' \in Seq(Handshakes)
    BY <1>5 DEF Restart, Interrupted, HandshakePoints, KeysTypeOK
  <2>2. memory' \in [Processes -> SUBSET Entries]
    BY <1>5 DEF Restart, KeysTypeOK
  <2> QED
    BY <1>5, <2>1, <2>2 DEF Restart, KeysTypeOK
<1>6. ASSUME NEW p \in Headless, NextRun(p) PROVE KeysTypeOK'
  <2>1. stage' \in [Handshakes -> HandshakePoints]
    BY <1>6 DEF NextRun, Interrupted, HandshakePoints, KeysTypeOK
  <2>2. PICK loaded \in {file, {}} : memory' = [memory EXCEPT ![p] = loaded]
    BY <1>6 DEF NextRun
  <2>3. memory' \in [Processes -> SUBSET Entries]
    BY <2>2 DEF KeysTypeOK
  <2> QED
    BY <1>6, <2>1, <2>3 DEF NextRun, KeysTypeOK
<1> QED
  BY <1>1, <1>2, <1>3, <1>4, <1>5, <1>6 DEF Removal

(* Every step keeps the types.                                             *)
LEMMA KeysTypeStep == KeysTypeOK /\ [KeysNext]_keysVars => KeysTypeOK'
<1> SUFFICES ASSUME KeysTypeOK, [KeysNext]_keysVars PROVE KeysTypeOK'
  OBVIOUS
<1>1. CASE UNCHANGED keysVars
  BY <1>1 DEF keysVars, inputs, handshakeVars, removalVars, KeysTypeOK
<1> QED
  BY <1>1, HandshakeType, WindowType DEF KeysNext

(* Every variable keeps its type.                                          *)
THEOREM KeysTypeCorrect == KeysSpec => []KeysTypeOK
BY KeysInitType, KeysTypeStep, PTL DEF KeysSpec

-----------------------------------------------------------------------------
(* Each step that makes a key trusted finds a consent that was given.      *)
LEMMA ConsentStep == KeysTypeOK /\ ConsentInv /\ [KeysNext]_keysVars => ConsentInv'
<1> SUFFICES ASSUME KeysTypeOK, ConsentInv, [KeysNext]_keysVars PROVE ConsentInv'
  OBVIOUS
<1> USE DEF inputs, handshakeVars, removalVars
<1>1. ASSUME NEW h \in Handshakes, Handshake(h) PROVE ConsentInv'
  <2> USE DEF ConsentInv, OnlyConsentedAreTrusted, Advances, KeysTypeOK
  <2>1. CASE Verify(h)
    BY <2>1 DEF Verify, Verdict
  <2>2. CASE Emit(h)
    BY <2>2 DEF Emit
  <2>3. CASE Hear(h) \/ TimeOut(h)
    BY <2>3 DEF Hear, TimeOut
  <2>4. CASE AddToMemory(h)
    <3>1. \A p \in Processes : memory'[p] \subseteq memory[p] \cup {offer[h]}
      BY <2>4 DEF AddToMemory
    <3> QED
      BY <2>4, <3>1 DEF AddToMemory
  <2>5. CASE AppendToFile(h)
    BY <2>5 DEF AppendToFile
  <2> QED
    BY <1>1, <2>1, <2>2, <2>3, <2>4, <2>5 DEF Handshake
<1>2. ASSUME NEW yes \in BOOLEAN, Respond(yes) PROVE ConsentInv'
  <2>1. /\ consented \subseteq consented'
        /\ sender' # <<>> /\ sender'[2] => offer[sender'[1]] \in consented'
        /\ UNCHANGED <<memory, file, stage, answer, offer, snapshot>>
    BY <1>2 DEF Respond
  <2> QED
    BY <2>1 DEF ConsentInv, OnlyConsentedAreTrusted
<1>3. CASE Send
  <2>1. \A h \in Handshakes : answer'[h] = "yes" => offer[h] \in consented
    BY <1>3 DEF Send, ConsentInv, KeysTypeOK
  <2> QED
    BY <1>3, <2>1 DEF Send, ConsentInv, OnlyConsentedAreTrusted
<1>4. ASSUME NEW r \in Removals, NEW e \in Entries, Remove(r, e) PROVE ConsentInv'
  <2>1. /\ \A p \in Processes : memory'[p] \subseteq memory[p]
        /\ \A q \in Removals : snapshot'[q] \subseteq snapshot[q] \cup memory[Window]
        /\ Window \in Processes
    BY <1>4 DEF Remove, Processes, KeysTypeOK
  <2>2. UNCHANGED <<file, stage, offer, answer, sender, consented>>
    BY <1>4 DEF Remove
  <2> QED
    BY <2>1, <2>2 DEF ConsentInv, OnlyConsentedAreTrusted
<1>5. ASSUME NEW r \in Removals, Rewrite(r) PROVE ConsentInv'
  BY <1>5 DEF Rewrite, ConsentInv, OnlyConsentedAreTrusted, KeysTypeOK
<1>6. CASE Restart \/ \E p \in Headless : NextRun(p)
  <2>1. /\ file' \subseteq file
        /\ \A p \in Processes : memory'[p] = memory[p] \/ memory'[p] \subseteq file
    BY <1>6 DEF Restart, NextRun, KeysTypeOK
  <2>2. \A h \in Handshakes : stage'[h] = stage[h] \/ stage'[h] = "rejected"
    BY <1>6 DEF Restart, NextRun, Interrupted
  <2>3. /\ UNCHANGED <<offer, answer, consented>>
        /\ sender' \in {<<>>, sender}
        /\ snapshot' = snapshot \/ \A r \in Removals : snapshot'[r] = {}
    BY <1>6 DEF Restart, NextRun
  <2> QED
    BY <2>1, <2>2, <2>3 DEF ConsentInv, OnlyConsentedAreTrusted
<1>7. CASE UNCHANGED keysVars
  BY <1>7 DEF keysVars, ConsentInv, OnlyConsentedAreTrusted
<1> QED
  BY <1>1, <1>2, <1>3, <1>4, <1>5, <1>6, <1>7 DEF KeysNext, Removal

(* check_server_key: nothing is ever trusted without a consent.            *)
THEOREM TrustNeedsConsent == KeysSpec => []OnlyConsentedAreTrusted
<1>1. KeysInit => ConsentInv
  BY DEF KeysInit, ConsentInv, OnlyConsentedAreTrusted
<1>2. KeysTypeOK /\ ConsentInv /\ [KeysNext]_keysVars => ConsentInv'
  BY ConsentStep
<1>3. ConsentInv => OnlyConsentedAreTrusted
  BY DEF ConsentInv
<1> QED
  BY <1>1, <1>2, <1>3, KeysTypeCorrect, PTL DEF KeysSpec

-----------------------------------------------------------------------------
(* Appends and rewrites bring the file to where memory is, one at a time.  *)
LEMMA FileStep == KeysTypeOK /\ FileInv /\ [KeysNext]_keysVars => FileInv'
<1> SUFFICES ASSUME KeysTypeOK, FileInv, [KeysNext]_keysVars, ~parted' PROVE FileInv'
  BY DEF FileInv
<1> USE DEF inputs, handshakeVars, removalVars
<1>1. ASSUME UNCHANGED <<file, offer, rewriting, snapshot, unseen, parted>>,
             memory'[Window] = memory[Window], Appending' = Appending
      PROVE  FileInv'
  BY <1>1 DEF FileInv
<1>2. Window \in Processes
  BY DEF Processes
<1>3. ASSUME NEW h \in Handshakes, Handshake(h) PROVE FileInv'
  <2>1. CASE Verify(h) \/ Emit(h) \/ Hear(h) \/ TimeOut(h)
    <3>1. Appending' = Appending
      BY <2>1 DEF Appending, Verify, Emit, Hear, TimeOut, Advances, KeysTypeOK
    <3> QED
      BY <1>1, <2>1, <3>1 DEF Verify, Emit, Hear, TimeOut
  <2>2. CASE AddToMemory(h) /\ process[h] = Window
    <3>1. Appending' = Appending \cup {h}
      BY <2>2 DEF Appending, AddToMemory, Advances, KeysTypeOK
    <3>2. ~parted /\ rewriting = {} /\ rewriting' = {}
      BY <2>2 DEF AddToMemory
    <3>3. memory[Window] \cup unseen = file \cup {offer[g] : g \in Appending}
      BY <3>2 DEF FileInv
    <3>4. memory'[Window] = memory[Window] \cup {offer[h]} /\ UNCHANGED <<file, offer, unseen>>
      BY <1>2, <2>2 DEF AddToMemory, KeysTypeOK
    <3>5. {offer'[g] : g \in Appending'} = {offer[g] : g \in Appending} \cup {offer[h]}
      BY <3>1, <3>4
    <3> QED
      BY <3>2, <3>3, <3>4, <3>5 DEF FileInv
  <2>3. CASE AddToMemory(h) /\ process[h] # Window
    <3>1. Appending' = Appending
      BY <2>3 DEF Appending, AddToMemory, Advances, KeysTypeOK
    <3>2. memory'[Window] = memory[Window]
      BY <1>2, <2>3 DEF AddToMemory, KeysTypeOK
    <3>3. UNCHANGED <<file, offer, rewriting, snapshot, unseen>> /\ ~parted
      BY <2>3 DEF AddToMemory
    <3> QED
      BY <3>1, <3>2, <3>3 DEF FileInv
  <2>4. CASE AppendToFile(h)
    <3>1. /\ ~parted /\ UNCHANGED <<memory, offer, rewriting, snapshot, process>>
          /\ stage' = [stage EXCEPT ![h] = "trusted"] /\ stage[h] = "append"
      BY <2>4 DEF AppendToFile, Advances
    <3>2. CASE process[h] = Window
      <4>1. Appending' = Appending \ {h} /\ h \in Appending
        BY <3>1, <3>2 DEF Appending, KeysTypeOK
      <4>2. rewriting = {} /\ file' = file \cup {offer[h]} /\ unseen' = unseen
        BY <2>4, <3>1, <3>2, <4>1 DEF AppendToFile, FileInv
      <4>3. memory[Window] \cup unseen = file \cup {offer[g] : g \in Appending}
        BY <3>1, <4>2 DEF FileInv
      <4>4. file' \cup {offer'[g] : g \in Appending'} = file \cup {offer[g] : g \in Appending}
        BY <3>1, <4>1, <4>2
      <4> QED
        BY <3>1, <4>2, <4>3, <4>4 DEF FileInv
    <3>3. CASE process[h] # Window
      <4>1. Appending' = Appending
        BY <3>1, <3>3 DEF Appending, KeysTypeOK
      <4>2. CASE UNCHANGED <<file, unseen>>
        BY <3>1, <4>1, <4>2 DEF FileInv
      <4>3. CASE /\ file' = file \cup {offer[h]} /\ rewriting = {}
                 /\ unseen' = unseen \cup {offer[h]}
        BY <3>1, <4>1, <4>3 DEF FileInv
      <4> QED
        BY <2>4, <3>3, <4>2, <4>3 DEF AppendToFile
    <3> QED
      BY <3>2, <3>3
  <2> QED
    BY <1>3, <2>1, <2>2, <2>3, <2>4 DEF Handshake
<1>4. CASE Send \/ \E yes \in BOOLEAN : Respond(yes)
  <2>1. /\ UNCHANGED <<memory, file, offer, rewriting, snapshot, unseen, parted>>
        /\ stage' = stage /\ process' = process
    BY <1>4 DEF Send, Respond
  <2>2. Appending' = Appending
    BY <2>1 DEF Appending
  <2> QED
    BY <1>1, <2>1, <2>2
<1>5. ASSUME NEW r \in Removals, NEW e \in Entries, Remove(r, e) PROVE FileInv'
  <2>1. ~Writing /\ rewriting' = {r} /\ stage' = stage /\ process' = process
    BY <1>5 DEF Remove, Writing
  <2>2. Appending' = {}
    BY <2>1 DEF Writing, Appending
  <2>3. snapshot'[r] = memory'[Window]
    BY <1>2, <1>5 DEF Remove, KeysTypeOK
  <2> QED
    BY <2>1, <2>2, <2>3 DEF FileInv
<1>6. ASSUME NEW r \in Removals, Rewrite(r) PROVE FileInv'
  <2>1. /\ ~parted /\ file' = snapshot[r] /\ r \in rewriting /\ unseen' = {}
        /\ stage' = stage /\ process' = process /\ memory' = memory
    BY <1>6 DEF Rewrite
  <2>2. Appending = {} /\ rewriting = {r} /\ snapshot[r] = memory[Window]
    BY <2>1 DEF FileInv
  <2>3. Appending' = {}
    BY <2>1, <2>2 DEF Appending
  <2>4. rewriting' = {} /\ memory'[Window] = file'
    BY <1>6, <2>1, <2>2 DEF Rewrite
  <2> QED
    BY <2>1, <2>3, <2>4 DEF FileInv
<1>7. CASE Restart
  <2>1. Appending' = {}
    BY <1>7 DEF Restart, Interrupted, Appending
  <2>2. rewriting' = {} /\ memory'[Window] = file' /\ unseen' = {}
    BY <1>2, <1>7 DEF Restart, KeysTypeOK
  <2> QED
    BY <2>1, <2>2 DEF FileInv
<1>8. ASSUME NEW p \in Headless, NextRun(p) PROVE FileInv'
  <2>1. Appending' = Appending
    BY <1>8, ProcessAssumption DEF NextRun, Interrupted, Appending
  <2>2. memory'[Window] = memory[Window]
    BY <1>2, <1>8, ProcessAssumption DEF NextRun, KeysTypeOK
  <2> QED
    BY <1>1, <1>8, <2>1, <2>2 DEF NextRun
<1>9. CASE UNCHANGED keysVars
  BY <1>1, <1>9 DEF keysVars, Appending
<1> QED
  BY <1>3, <1>4, <1>5, <1>6, <1>7, <1>8, <1>9 DEF KeysNext, Removal

(* add and remove: a file whose writers neither overlapped nor failed says *)
(* what the window's memory says and scheduled runs have added, however    *)
(* many of them there are.                                                 *)
THEOREM FileAgreesWithMemory == KeysSpec => []FileFollowsMemory
<1>1. KeysInit => FileInv
  <2> SUFFICES ASSUME KeysInit PROVE FileInv
    OBVIOUS
  <2>1. memory[Window] = file /\ Appending = {} /\ unseen = {} /\ rewriting = {}
    BY DEF KeysInit, Processes, Appending
  <2> QED
    BY <2>1 DEF FileInv
<1>2. KeysTypeOK /\ FileInv /\ [KeysNext]_keysVars => FileInv'
  BY FileStep
<1>3. FileInv => FileFollowsMemory
  BY DEF FileInv, FileFollowsMemory, Writing, Appending
<1> QED
  BY <1>1, <1>2, <1>3, KeysTypeCorrect, PTL DEF KeysSpec
=============================================================================
