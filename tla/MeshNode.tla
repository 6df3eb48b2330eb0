------------------------------ MODULE MeshNode ------------------------------
(***************************************************************************)
(* How a node joins the mesh and keeps its connection to the server:       *)
(* mesh_init, mesh_enable_cb, esp_mesh_rebuild_fail and esp_mesh_data_send *)
(* of src/mesh_demo/demo/mesh_demo.c, the topology timer of mesh_none.c,   *)
(* and ESP-TOUCH, which mesh_init starts and which takes the station's     *)
(* link away from the mesh.  The MCU drives it by three commands; the mesh *)
(* library answers espconn_mesh_enable by a callback, one for each type    *)
(* that was asked for.  Each handler runs to completion.  The state of the *)
(* connection is in g_ser_conn, so that clearing g_ser_conn ends it.       *)
(* Operators named Mut... are plausible mistakes in the operator that      *)
(* follows them.                                                           *)
(***************************************************************************)
EXTENDS EspTouch

CONSTANTS
  Servers,     \* addresses and ports of servers
  NoServer,    \* what g_server_ip and g_server_port are at the start
  NoTcp,       \* g_ser_conn.proto.tcp is NULL
  MaxInits     \* bound: CMD_MESH_INIT commands

ASSUME MeshNodeAssumption ==
  NoServer \notin Servers /\ NoTcp \notin Servers \cup {NoServer} /\ MaxInits \in Nat

VARIABLES
  g_server,    \* g_server_ip and g_server_port
  g_ser_conn,  \* remote (the address in ser_tcp, or NoTcp), recv
               \* (esp_recv_entrance is registered), open
  enabling,    \* types asked for by espconn_mesh_enable, not yet answered
  mesh,        \* the mesh library: off, up, or disabled by this code
  isRoot,      \* espconn_mesh_is_root
  topo,        \* topo_timer is armed
  meshServer,  \* espconn_mesh_server_init
  inits,
  \* history
  applied      \* CMD_MESH_INIT was executed since the last change of g_server

nodeVars == <<g_server, g_ser_conn, enabling, mesh, isRoot, topo, meshServer,
              inits, applied>>
vars == <<touchVars, nodeVars>>

Conn(remote, recv, open) == [remote |-> remote, recv |-> recv, open |-> open]

Init ==
  /\ TouchInit
  /\ g_server = NoServer /\ meshServer = NoServer
  /\ g_ser_conn = Conn(NoTcp, FALSE, FALSE)
  /\ enabling = {} /\ mesh = "off" /\ isRoot = FALSE /\ topo = FALSE
  /\ inits = 0 /\ applied = FALSE

(* CMD_SERVER_ADDR_SET (command.c).                                        *)
ServerAddrSet(s) ==
  /\ g_server' = s /\ applied' = FALSE
  /\ UNCHANGED <<touchVars, g_ser_conn, enabling, mesh, isRoot, topo,
                 meshServer, inits>>

(* Losing the station's link ends the connection.                          *)
CutConn == g_ser_conn' = [g_ser_conn EXCEPT !.open = @ /\ station' = "up"]

(* CMD_MESH_INIT: mesh_init.  It returns early if the library refuses the  *)
(* router, before ESP-TOUCH starts, or one of the settings that            *)
(* esp_mesh_demo_init makes, the last of them the server.                  *)
MeshInitRefused ==
  /\ inits < MaxInits
  /\ inits' = inits + 1
  /\ UNCHANGED <<g_server, enabling, mesh, isRoot, topo, meshServer, applied>>
  /\ \/ UNCHANGED <<touchVars, g_ser_conn>>
     \/ router' = "configured" /\ EsptouchInit /\ CutConn

MeshInit ==
  /\ inits < MaxInits
  /\ inits' = inits + 1
  /\ router' = "configured" /\ EsptouchInit /\ CutConn
  /\ meshServer' = g_server
  /\ enabling' = enabling \cup {"ONLINE"}
  /\ applied' = TRUE
  /\ UNCHANGED <<g_server, mesh, isRoot, topo>>

(* ESP-TOUCH on its own.                                                   *)
Touch ==
  /\ TouchStep /\ CutConn
  /\ UNCHANGED <<g_server, enabling, mesh, isRoot, topo, meshServer, inits, applied>>

(* The library connects the station to the router or to a parent.          *)
MeshLinks ==
  /\ enabling # {} \/ mesh = "up"
  /\ station # "up"
  /\ station' = "up"
  /\ UNCHANGED <<nodeVars, esptouch_running, tout, opmode, router, smart, restarts>>

(* mesh_enable_cb(MESH_OP_FAILURE).                                        *)
MutEnableFailed(type) ==
  /\ type \in enabling
  /\ mesh' = "off" /\ g_ser_conn' = [g_ser_conn EXCEPT !.open = FALSE]
  /\ enabling' = enabling \ {type}
  /\ UNCHANGED <<touchVars, g_server, isRoot, topo, meshServer, inits, applied>>
EnableFailed(type) ==
  /\ type \in enabling
  /\ mesh' = "off" /\ g_ser_conn' = [g_ser_conn EXCEPT !.open = FALSE]
  /\ enabling' = (enabling \ {type}) \cup {"ONLINE"}
  /\ UNCHANGED <<touchVars, g_server, isRoot, topo, meshServer, inits, applied>>

(* mesh_enable_cb with success.  A root that has its connection keeps it   *)
(* when it asked for the local mesh.                                       *)
MutKeepsConn(type) == g_ser_conn.open /\ isRoot
KeepsConn(type) == g_ser_conn.open /\ isRoot /\ type = "LOCAL"

EnableDone(type) ==
  /\ type \in enabling /\ station = "up"
  /\ UNCHANGED <<touchVars, g_server, isRoot, meshServer, inits, applied>>

JoinKept(type) ==
  /\ EnableDone(type) /\ KeepsConn(type)
  /\ enabling' = enabling \ {type}
  /\ mesh' = "up" /\ topo' = TRUE
  /\ UNCHANGED g_ser_conn

(* Otherwise g_ser_conn is set up from nothing, the callback registered    *)
(* and the connection opened; either call may fail.                        *)
MutRecvRefused(type) ==
  /\ EnableDone(type) /\ ~KeepsConn(type)
  /\ g_ser_conn' = Conn(g_server, FALSE, FALSE)
  /\ enabling' = enabling \ {type}
  /\ mesh' = "up"
  /\ UNCHANGED topo
RecvRefused(type) ==
  /\ EnableDone(type) /\ ~KeepsConn(type)
  /\ g_ser_conn' = Conn(g_server, FALSE, FALSE)
  /\ enabling' = enabling \ {type}
  /\ mesh' = "disabled"
  /\ UNCHANGED topo

ConnectRefused(type) ==
  /\ EnableDone(type) /\ ~KeepsConn(type)
  /\ g_ser_conn' = Conn(g_server, TRUE, FALSE)
  /\ enabling' = (enabling \ {type}) \cup {IF isRoot THEN "LOCAL" ELSE "ONLINE"}
  /\ mesh' = "up"
  /\ UNCHANGED topo

Joined(type) ==
  /\ EnableDone(type) /\ ~KeepsConn(type)
  /\ g_ser_conn' = Conn(g_server, TRUE, TRUE)
  /\ enabling' = enabling \ {type}
  /\ mesh' = "up" /\ topo' = TRUE

(* esp_mesh_rebuild_fail.                                                  *)
MutRebuildFail ==
  /\ mesh = "up"
  /\ mesh' = "off" /\ g_ser_conn' = [g_ser_conn EXCEPT !.open = FALSE]
  /\ enabling' = enabling \cup {"SOFTAP"}
  /\ UNCHANGED <<touchVars, g_server, isRoot, topo, meshServer, inits, applied>>
RebuildFail ==
  /\ mesh = "up"
  /\ mesh' = "off" /\ g_ser_conn' = [g_ser_conn EXCEPT !.open = FALSE]
  /\ enabling' = enabling \cup {"ONLINE"}
  /\ UNCHANGED <<touchVars, g_server, isRoot, topo, meshServer, inits, applied>>

(* espconn_mesh_connect(&g_ser_conn) after a failed espconn_mesh_sent; its *)
(* result is not looked at.                                                *)
Reconnectable == mesh = "up" /\ station = "up" /\ g_ser_conn.remote # NoTcp
Reconnect ==
  \/ UNCHANGED g_ser_conn
  \/ Reconnectable /\ g_ser_conn' = [g_ser_conn EXCEPT !.open = TRUE]

(* esp_mesh_data_send whose packet the library does not take; a packet it  *)
(* takes changes nothing here.                                             *)
DataSendBusy ==
  /\ enabling' = enabling \cup {"ONLINE"}
  /\ Reconnect
  /\ UNCHANGED <<touchVars, g_server, mesh, isRoot, topo, meshServer, inits, applied>>

(* mesh_topo_test on a node that is not the root: the request is not       *)
(* taken.  The root asks the library (MeshDevice) and sends nothing.       *)
MutTopoBusy ==
  /\ topo /\ ~isRoot
  /\ UNCHANGED <<touchVars, nodeVars>>
TopoBusy ==
  /\ topo /\ ~isRoot
  /\ Reconnect
  /\ UNCHANGED <<touchVars, g_server, enabling, mesh, isRoot, topo, meshServer,
                 inits, applied>>

(* The server or the network closes the connection.                        *)
ConnLost ==
  /\ g_ser_conn.open
  /\ g_ser_conn' = [g_ser_conn EXCEPT !.open = FALSE]
  /\ UNCHANGED <<touchVars, g_server, enabling, mesh, isRoot, topo, meshServer,
                 inits, applied>>

(* The mesh elects another root.                                           *)
RootChange ==
  /\ isRoot' = ~isRoot
  /\ UNCHANGED <<touchVars, g_server, g_ser_conn, enabling, mesh, topo,
                 meshServer, inits, applied>>

Answer(type) ==
  EnableFailed(type) \/ JoinKept(type) \/ RecvRefused(type)
    \/ ConnectRefused(type) \/ Joined(type)

Next ==
  \/ \E s \in Servers : ServerAddrSet(s)
  \/ MeshInitRefused \/ MeshInit \/ Touch \/ MeshLinks
  \/ \E type \in {"LOCAL", "ONLINE"} : Answer(type)
  \/ RebuildFail \/ DataSendBusy \/ TopoBusy \/ ConnLost \/ RootChange

Spec == Init /\ [][Next]_vars

(* The timers fire: esptouch's is armed anew only by finitely many         *)
(* commands and reports of smartconfig, the topology timer repeats.  The   *)
(* network is not for ever against the node: an enabling that is tried     *)
(* again and again succeeds at last, and so does a connection.             *)
Fairness ==
  /\ WF_vars(Touch /\ Timeout)
  /\ WF_vars(MeshLinks)
  /\ SF_vars(\E type \in {"LOCAL", "ONLINE"} : JoinKept(type) \/ Joined(type))
  /\ SF_vars(TopoBusy /\ g_ser_conn'.open)

FairSpec == Spec /\ Fairness

-----------------------------------------------------------------------------
(* Every variable has its type.                                            *)
TypeOK ==
  /\ TouchTypeOK
  /\ g_server \in Servers \cup {NoServer} /\ meshServer \in Servers \cup {NoServer}
  /\ g_ser_conn \in [remote : Servers \cup {NoServer, NoTcp},
                     recv : BOOLEAN, open : BOOLEAN]
  /\ enabling \subseteq {"LOCAL", "ONLINE"}
  /\ mesh \in {"off", "up", "disabled"}
  /\ isRoot \in BOOLEAN /\ topo \in BOOLEAN /\ applied \in BOOLEAN
  /\ inits \in 0..MaxInits

(* ESP-TOUCH takes the station's link away only while it is running or     *)
(* when it is started: a late time-out never disconnects a station that    *)
(* ESP-TOUCH has already reported as connected (esp_touch.c:32-36, 46).    *)
LinkTakenWhileRunning ==
  [][station = "up" /\ station' # "up" => esptouch_running \/ esptouch_running']_vars

(* ESP-TOUCH ends, whatever the phone does (esp_touch.c:137-141).          *)
EspTouchEnds == esptouch_running ~> ~esptouch_running

(* An open connection always has esp_recv_entrance registered and an       *)
(* address, although g_ser_conn is cleared by every new enabling, each of  *)
(* its steps can fail, and two other handlers reopen it at any time        *)
(* (mesh_demo.c:144-177, 478; mesh_none.c:147): no packet of the server    *)
(* arrives at a connection that drops it.                                  *)
RecvReady == g_ser_conn.open => g_ser_conn.recv /\ g_ser_conn.remote # NoTcp

(* Once CMD_MESH_INIT has followed the last CMD_SERVER_ADDR_SET and all is *)
(* settled, the connection, the mesh library and the packets to come agree *)
(* on the server (mesh_demo.c:147, 313, 437): no shortcut of the root and  *)
(* no retry keeps a connection to the old one.                             *)
OneServer ==
  g_ser_conn.open /\ enabling = {} /\ applied =>
    g_ser_conn.remote = g_server /\ meshServer = g_server

(* A node that has asked for the mesh gets its connection, unless its own  *)
(* code disables the mesh: no failure on the way ends the attempts         *)
(* (mesh_demo.c:126-130, 170-177, 259, 477).                               *)
Joins == enabling # {} ~> g_ser_conn.open \/ mesh = "disabled"

(* A node in the mesh that is not the root gets a lost connection back by  *)
(* the topology timer alone (mesh_none.c:145-148).                         *)
Reconnects ==
  topo /\ mesh = "up" /\ ~g_ser_conn.open ~>
    g_ser_conn.open \/ isRoot \/ mesh # "up"
=============================================================================
