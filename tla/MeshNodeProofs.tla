--------------------------- MODULE MeshNodeProofs ---------------------------
(***************************************************************************)
(* Proofs about MeshNode, for any set of servers and any number of         *)
(* commands.  Registered is why a connection may be reopened without       *)
(* looking at it: while the mesh is up, g_ser_conn was set up completely,  *)
(* since the one failure that leaves it half done disables the mesh.       *)
(* Retargeted is why a connection to an old server does not survive: an    *)
(* answer of type ONLINE is still to come, and it sets up g_ser_conn from  *)
(* nothing.                                                                *)
(***************************************************************************)
EXTENDS MeshNode, TLAPS

Registered ==
  /\ mesh = "up" => g_ser_conn.recv /\ g_ser_conn.remote # NoTcp
  /\ g_ser_conn.open => mesh = "up"

Retargeted ==
  applied =>
    /\ meshServer = g_server
    /\ "ONLINE" \in enabling \/ g_ser_conn.remote = g_server

IInv == TypeOK /\ SmartconfigGuarded /\ Registered /\ Retargeted

Conns == [remote : Servers \cup {NoServer, NoTcp}, recv : BOOLEAN, open : BOOLEAN]

(* Steps that keep the three, by what they do to g_ser_conn and mesh.      *)
LEMMA CutConnKeeps ==
  ASSUME TypeOK, Registered, CutConn, UNCHANGED mesh
  PROVE  /\ g_ser_conn' \in Conns
         /\ g_ser_conn'.remote = g_ser_conn.remote
         /\ Registered'
  BY DEF TypeOK, Registered, CutConn, Conns

LEMMA ReconnectKeeps ==
  ASSUME TypeOK, Registered, Reconnect, UNCHANGED mesh
  PROVE  /\ g_ser_conn' \in Conns
         /\ g_ser_conn'.remote = g_ser_conn.remote
         /\ Registered'
  BY DEF TypeOK, Registered, Reconnect, Reconnectable, Conns

LEMMA CloseKeeps ==
  ASSUME TypeOK, Registered,
         g_ser_conn' = [g_ser_conn EXCEPT !.open = FALSE],
         mesh' \in {mesh, "off"}
  PROVE  /\ g_ser_conn' \in Conns
         /\ g_ser_conn'.remote = g_ser_conn.remote
         /\ Registered'
  BY DEF TypeOK, Registered, Conns

LEMMA EsptouchInitKeeps ==
  ASSUME TypeOK, SmartconfigGuarded, EsptouchInit, router' = "configured"
  PROVE  TouchTypeOK' /\ SmartconfigGuarded'
<1> USE DEF TypeOK, TouchTypeOK, SmartconfigGuarded
<1>1. smart' \in {"off", "find"} \/ smart' = smart
  BY DEF EsptouchInit, SmartconfigStart
<1> QED
  BY <1>1 DEF EsptouchInit

LEMMA TouchStepKeeps ==
  ASSUME TypeOK, SmartconfigGuarded, TouchStep
  PROVE  TouchTypeOK' /\ SmartconfigGuarded'
<1> USE EspTouchAssumption DEF TypeOK, TouchTypeOK, SmartconfigGuarded
<1>1. CASE Getting
  BY <1>1 DEF Getting
<1>2. CASE LookAgain
  BY <1>2 DEF LookAgain
<1>3. CASE Link
  BY <1>3 DEF Link
<1>4. CASE Associate
  BY <1>4 DEF Associate
<1>5. CASE LinkOver
  BY <1>5 DEF LinkOver
<1>6. CASE Timeout
  BY <1>6 DEF Timeout
<1> QED
  BY <1>1, <1>2, <1>3, <1>4, <1>5, <1>6 DEF TouchStep

LEMMA UnchangedTouch ==
  ASSUME TypeOK, SmartconfigGuarded, UNCHANGED touchVars
  PROVE  TouchTypeOK' /\ SmartconfigGuarded'
  BY DEF TypeOK, TouchTypeOK, SmartconfigGuarded, touchVars

LEMMA InitIInv == Init => IInv
<1> SUFFICES ASSUME Init PROVE IInv
  OBVIOUS
<1>. 0 \in 0..MaxRestarts /\ 0 \in 0..MaxInits
  BY EspTouchAssumption, MeshNodeAssumption
<1>1. TouchTypeOK /\ SmartconfigGuarded
  BY DEF Init, TouchInit, TouchTypeOK, SmartconfigGuarded
<1>2. g_ser_conn \in Conns /\ Registered
  BY DEF Init, Conn, Conns, Registered
<1>3. TypeOK
  BY <1>1, <1>2 DEF Init, TypeOK, Conns
<1> QED
  BY <1>1, <1>2, <1>3 DEF Init, IInv, Retargeted

(* One answer of the library.                                              *)
LEMMA AnswerKeeps ==
  ASSUME IInv, NEW type \in {"LOCAL", "ONLINE"}, Answer(type)
  PROVE  IInv'
<1> USE DEF IInv
<1>1. TouchTypeOK' /\ SmartconfigGuarded'
  BY UnchangedTouch
  DEF Answer, EnableFailed, JoinKept, RecvRefused, ConnectRefused, Joined, EnableDone
<1>2. CASE EnableFailed(type)
  <2>1. g_ser_conn' \in Conns /\ g_ser_conn'.remote = g_ser_conn.remote /\ Registered'
    BY <1>2, CloseKeeps DEF EnableFailed
  <2> QED
    BY <1>1, <1>2, <2>1 DEF EnableFailed, TypeOK, Conns, Retargeted
<1>3. CASE JoinKept(type)
  BY <1>1, <1>3 DEF JoinKept, EnableDone, KeepsConn, TypeOK, Registered, Retargeted
<1>4. CASE RecvRefused(type)
  BY <1>1, <1>4 DEF RecvRefused, EnableDone, Conn, TypeOK, Registered, Retargeted
<1>5. CASE ConnectRefused(type)
  <2>1. g_server # NoTcp
    BY MeshNodeAssumption DEF TypeOK
  <2> QED
    BY <1>1, <1>5, <2>1
    DEF ConnectRefused, EnableDone, Conn, TypeOK, Registered, Retargeted
<1>6. CASE Joined(type)
  <2>1. g_server # NoTcp
    BY MeshNodeAssumption DEF TypeOK
  <2> QED
    BY <1>1, <1>6, <2>1 DEF Joined, EnableDone, Conn, TypeOK, Registered, Retargeted
<1> QED
  BY <1>2, <1>3, <1>4, <1>5, <1>6 DEF Answer

LEMMA StepIInv == IInv /\ [Next]_vars => IInv'
<1> SUFFICES ASSUME IInv, [Next]_vars PROVE IInv'
  OBVIOUS
<1> USE DEF IInv
<1>1. ASSUME NEW s \in Servers, ServerAddrSet(s) PROVE IInv'
  <2>1. TouchTypeOK' /\ SmartconfigGuarded'
    BY <1>1, UnchangedTouch DEF ServerAddrSet
  <2> QED
    BY <1>1, <2>1 DEF ServerAddrSet, TypeOK, Registered, Retargeted
<1>2. CASE MeshInitRefused
  <2>1. TouchTypeOK' /\ SmartconfigGuarded'
    BY <1>2, UnchangedTouch, EsptouchInitKeeps DEF MeshInitRefused
  <2>2. g_ser_conn' \in Conns /\ g_ser_conn'.remote = g_ser_conn.remote /\ Registered'
    <3>1. CASE UNCHANGED g_ser_conn
      BY <1>2, <3>1 DEF MeshInitRefused, TypeOK, Registered, Conns
    <3>2. CASE CutConn
      BY <1>2, <3>2, CutConnKeeps DEF MeshInitRefused
    <3> QED
      BY <1>2, <3>1, <3>2 DEF MeshInitRefused
  <2>3. inits' \in 0..MaxInits
    BY <1>2, MeshNodeAssumption DEF MeshInitRefused, TypeOK
  <2> QED
    BY <1>2, <2>1, <2>2, <2>3 DEF MeshInitRefused, TypeOK, Conns, Retargeted
<1>3. CASE MeshInit
  <2>1. TouchTypeOK' /\ SmartconfigGuarded'
    BY <1>3, EsptouchInitKeeps DEF MeshInit
  <2>2. g_ser_conn' \in Conns /\ Registered'
    BY <1>3, CutConnKeeps DEF MeshInit
  <2>3. inits' \in 0..MaxInits
    BY <1>3, MeshNodeAssumption DEF MeshInit, TypeOK
  <2> QED
    BY <1>3, <2>1, <2>2, <2>3 DEF MeshInit, TypeOK, Conns, Retargeted
<1>4. CASE Touch
  <2>1. TouchTypeOK' /\ SmartconfigGuarded'
    BY <1>4, TouchStepKeeps DEF Touch
  <2>2. g_ser_conn' \in Conns /\ g_ser_conn'.remote = g_ser_conn.remote /\ Registered'
    BY <1>4, CutConnKeeps DEF Touch
  <2> QED
    BY <1>4, <2>1, <2>2 DEF Touch, TypeOK, Conns, Retargeted
<1>5. CASE MeshLinks
  BY <1>5 DEF MeshLinks, nodeVars, TypeOK, TouchTypeOK, SmartconfigGuarded,
              Registered, Retargeted
<1>6. ASSUME NEW type \in {"LOCAL", "ONLINE"}, Answer(type) PROVE IInv'
  BY <1>6, AnswerKeeps
<1>7. CASE RebuildFail
  <2>1. TouchTypeOK' /\ SmartconfigGuarded'
    BY <1>7, UnchangedTouch DEF RebuildFail
  <2>2. g_ser_conn' \in Conns /\ g_ser_conn'.remote = g_ser_conn.remote /\ Registered'
    BY <1>7, CloseKeeps DEF RebuildFail
  <2> QED
    BY <1>7, <2>1, <2>2 DEF RebuildFail, TypeOK, Conns, Retargeted
<1>8. CASE DataSendBusy
  <2>1. TouchTypeOK' /\ SmartconfigGuarded'
    BY <1>8, UnchangedTouch DEF DataSendBusy
  <2>2. g_ser_conn' \in Conns /\ g_ser_conn'.remote = g_ser_conn.remote /\ Registered'
    BY <1>8, ReconnectKeeps DEF DataSendBusy
  <2> QED
    BY <1>8, <2>1, <2>2 DEF DataSendBusy, TypeOK, Conns, Retargeted
<1>9. CASE TopoBusy
  <2>1. TouchTypeOK' /\ SmartconfigGuarded'
    BY <1>9, UnchangedTouch DEF TopoBusy
  <2>2. g_ser_conn' \in Conns /\ g_ser_conn'.remote = g_ser_conn.remote /\ Registered'
    BY <1>9, ReconnectKeeps DEF TopoBusy
  <2> QED
    BY <1>9, <2>1, <2>2 DEF TopoBusy, TypeOK, Conns, Retargeted
<1>10. CASE ConnLost
  <2>1. TouchTypeOK' /\ SmartconfigGuarded'
    BY <1>10, UnchangedTouch DEF ConnLost
  <2>2. g_ser_conn' \in Conns /\ g_ser_conn'.remote = g_ser_conn.remote /\ Registered'
    BY <1>10, CloseKeeps DEF ConnLost
  <2> QED
    BY <1>10, <2>1, <2>2 DEF ConnLost, TypeOK, Conns, Retargeted
<1>11. CASE RootChange
  <2>1. TouchTypeOK' /\ SmartconfigGuarded'
    BY <1>11, UnchangedTouch DEF RootChange
  <2> QED
    BY <1>11, <2>1 DEF RootChange, TypeOK, Registered, Retargeted
<1>12. CASE UNCHANGED vars
  <2>1. TouchTypeOK' /\ SmartconfigGuarded'
    BY <1>12, UnchangedTouch DEF vars
  <2> QED
    BY <1>12, <2>1 DEF vars, nodeVars, TypeOK, Registered, Retargeted
<1> QED
  BY <1>1, <1>2, <1>3, <1>4, <1>5, <1>6, <1>7, <1>8, <1>9, <1>10, <1>11, <1>12 DEF Next

THEOREM Invariant == Spec => []IInv
  BY InitIInv, StepIInv, PTL DEF Spec

(* Every variable keeps its type.                                          *)
THEOREM NodeTypeCorrect == Spec => []TypeOK
  BY Invariant, PTL DEF IInv

(* esp_touch.c: smartconfig is never on without a pending time-out, and no *)
(* time-out is pending when ESP-TOUCH does not run.                        *)
THEOREM NoStaleTimeout == Spec => []SmartconfigGuarded
  BY Invariant, PTL DEF IInv

(* mesh_demo.c: a connection, however it was reopened, has its address and *)
(* its receive callback.                                                   *)
THEOREM NeverDeaf == Spec => []RecvReady
<1>1. IInv => RecvReady
  BY DEF IInv, Registered, RecvReady
<1> QED
  BY <1>1, Invariant, PTL

(* mesh_demo.c: after CMD_MESH_INIT the node ends up at the server that    *)
(* was set last, with every other enabling, retry and reconnection in      *)
(* between.                                                                *)
THEOREM Follows == Spec => []OneServer
<1>1. IInv => OneServer
  BY DEF IInv, Retargeted, OneServer
<1> QED
  BY <1>1, Invariant, PTL

(* esp_touch.c: a station that ESP-TOUCH reported as connected is not      *)
(* disconnected by it before it is started again.                          *)
THEOREM LinkKept == Spec => LinkTakenWhileRunning
<1> DEFINE Taken == station = "up" /\ station' # "up"
<1>1. ASSUME IInv, [Next]_vars, Taken
      PROVE  esptouch_running \/ esptouch_running'
  <2>1. CASE MeshInitRefused \/ MeshInit
    BY <1>1, <2>1 DEF MeshInitRefused, MeshInit, EsptouchInit, touchVars
  <2>2. CASE Touch
    <3>1. CASE Link
      BY <1>1, <3>1 DEF Link, IInv, SmartconfigGuarded
    <3>2. CASE Timeout
      BY <1>1, <3>2 DEF Timeout, IInv, SmartconfigGuarded
    <3>3. CASE Getting \/ LookAgain \/ Associate \/ LinkOver
      BY <1>1, <3>3 DEF Getting, LookAgain, Associate, LinkOver
    <3> QED
      BY <2>2, <3>1, <3>2, <3>3 DEF Touch, TouchStep
  <2>3. ASSUME NEW type \in {"LOCAL", "ONLINE"}, Answer(type) PROVE FALSE
    BY <1>1, <2>3
    DEF Answer, EnableFailed, JoinKept, RecvRefused, ConnectRefused, Joined,
        EnableDone, touchVars
  <2>4. ASSUME NEW s \in Servers, ServerAddrSet(s) PROVE FALSE
    BY <1>1, <2>4 DEF ServerAddrSet, touchVars
  <2>5. CASE MeshLinks \/ RebuildFail \/ DataSendBusy \/ TopoBusy \/ ConnLost
               \/ RootChange \/ UNCHANGED vars
    BY <1>1, <2>5
    DEF MeshLinks, RebuildFail, DataSendBusy, TopoBusy, ConnLost, RootChange,
        vars, touchVars
  <2> QED
    BY <1>1, <2>1, <2>2, <2>3, <2>4, <2>5 DEF Next
<1>2. IInv /\ [Next]_vars =>
        [Taken => esptouch_running \/ esptouch_running']_vars
  BY <1>1
<1> QED
  BY <1>2, Invariant, PTL DEF Spec, LinkTakenWhileRunning
=============================================================================
