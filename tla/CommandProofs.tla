--------------------------- MODULE CommandProofs ---------------------------
(***************************************************************************)
(* Proofs about Command: its type invariant; that it implements Mailbox as *)
(* long as nothing is received into recv_pack while a frame that points    *)
(* there waits, which patience of the MCU or never using CMD_RETURN_RECV   *)
(* ensures; and that until the mesh delivers its first packet commands and *)
(* replies take turns, and each command that promises a reply gets it.     *)
(* The invariant of the mailbox says that a queued event stands for the    *)
(* frame completed last: what wifi_pack_send leads to now is what it was   *)
(* meant to be when it was filled in.                                      *)
(***************************************************************************)
EXTENDS Command, SequenceTheorems, FiniteSetTheorems, TLAPS

Waiting == Frame(wifi_pack_send.cmd, Deref(wifi_pack_send.ptr))
Coherent == sendQ > 0 => made # <<>> /\ Waiting = made[Len(made)]
NoAlias == wifi_pack_send.ptr = "recv_pack" =>
             "RETURN_RECV" \in Accepted /\ wifi_pack_send.cmd # "SEND_DATA_TO_MCU"
Inv == TypeOK /\ Coherent /\ NoAlias

Filled(cmd, ptr, data) ==
  /\ wifi_pack_send' = [cmd |-> cmd, ptr |-> ptr]
  /\ wifi_pack_send' \in [cmd : SendCmds, ptr : Buffers \cup Texts]
  /\ sendQ' \in 0..QueueLen /\ sendQ' > 0
  /\ made' \in Seq(Frames) /\ made' # <<>> /\ made'[Len(made')] = Frame(cmd, data)
  /\ unsent' \in BOOLEAN

(* A handler that has filled in wifi_pack_send leaves an event queued,     *)
(* also when its own event was dropped.                                    *)
LEMMA ReplyFills ==
  ASSUME TypeOK,
         NEW cmd \in SendCmds, NEW ptr \in Buffers \cup Texts, NEW data \in Contents,
         Reply(cmd, ptr, data)
  PROVE  Filled(cmd, ptr, data)
<1> USE CommandAssumption
<1>1. Frame(cmd, data) \in Frames
  BY DEF Frame, Frames
<1>2. made \in Seq(Frames) /\ made' = Append(made, Frame(cmd, data))
  BY DEF TypeOK, Reply
<1>3. made' \in Seq(Frames) /\ made' # <<>> /\ made'[Len(made')] = Frame(cmd, data)
  BY <1>1, <1>2
<1>4. sendQ' \in 0..QueueLen /\ sendQ' > 0
  BY DEF TypeOK, Reply, Post
<1>5. wifi_pack_send' \in [cmd : SendCmds, ptr : Buffers \cup Texts]
  BY DEF Reply
<1> QED BY <1>3, <1>4, <1>5 DEF Filled, Reply

(* The same at the end of command_execute.                                 *)
LEMMA AckFills ==
  ASSUME TypeOK, NEW c \in Commands, Execute(c),
         NEW ptr \in Buffers \cup Texts, NEW data \in Contents, Ack(c, ptr, data)
  PROVE  /\ Filled(c, ptr, data)
         /\ recv_pack' = recv_pack /\ received' = FALSE /\ sent' = sent
         /\ nCmd' = nCmd /\ nMesh' = nMesh /\ acked' \in Seq(Commands)
<1>1. Filled(c, ptr, data)
  BY ReplyFills DEF Ack, SendCmds
<1>2. acked' \in Seq(Commands)
  BY DEF Ack, TypeOK
<1> QED BY <1>1, <1>2 DEF Ack, Execute, inputs

(* What a command with a reply amounts to.                                 *)
Acks ==
  \E c \in Commands, ptr \in Buffers \cup Texts, data \in Contents :
    /\ Execute(c) /\ Ack(c, ptr, data) /\ Deref(ptr)' = data
    /\ "RETURN_RECV" \notin Accepted => ptr # "recv_pack"
    /\ send_buffer' \in Contents /\ config' \in [Setters -> Nat]

LEMMA AckPreserves == ASSUME TypeOK, Acks PROVE Inv'
<1>0. PICK c \in Commands, ptr \in Buffers \cup Texts, data \in Contents :
        /\ Execute(c) /\ Ack(c, ptr, data) /\ Deref(ptr)' = data
        /\ "RETURN_RECV" \notin Accepted => ptr # "recv_pack"
        /\ send_buffer' \in Contents /\ config' \in [Setters -> Nat]
  BY DEF Acks
<1>1. /\ Filled(c, ptr, data)
      /\ recv_pack' = recv_pack /\ received' = FALSE /\ sent' = sent
      /\ nCmd' = nCmd /\ nMesh' = nMesh /\ acked' \in Seq(Commands)
  BY <1>0, AckFills
<1>2. TypeOK'
  BY <1>0, <1>1 DEF TypeOK, Filled
<1>3. Waiting' = Frame(c, data)
  BY <1>0, <1>1 DEF Filled, Waiting, Deref, Frame
<1>4. Coherent'
  BY <1>1, <1>3 DEF Filled, Coherent
<1>5. NoAlias'
  <2>1. wifi_pack_send' = [cmd |-> c, ptr |-> ptr] /\ c # "SEND_DATA_TO_MCU"
    BY <1>1 DEF Filled, Commands, Setters, Queries
  <2> QED
    BY <1>0, <2>1 DEF NoAlias
<1> QED BY <1>2, <1>4, <1>5 DEF Inv

LEMMA DataTypes ==
  /\ \A n \in 0..(NCommands + NMesh), k \in Kinds : Data(k, n) \in Contents
  /\ \A t \in Texts \cup {"version"} : Data(t, 0) \in Contents
BY CommandAssumption DEF Data, Contents, Kinds, Texts

-----------------------------------------------------------------------------
(* Every command but CMD_SEND_MESH_DATA ends with a reply, whose data      *)
(* pointer leads to the data it is meant to.                               *)
LEMMA RecvTaskReplies == ASSUME TypeOK, RecvTask PROVE Acks \/ SendMeshData
<1> USE CommandAssumption
<1>t. /\ recv_pack.data \in Contents /\ recv_pack.data.n \in 0..(NCommands + NMesh)
      /\ send_buffer \in Contents /\ config \in [Setters -> Nat]
      /\ received => recv_pack.cmd \in Accepted
  BY DEF TypeOK, Contents
<1>1. CASE ReturnRecv
  <2>1. Execute("RETURN_RECV") /\ Ack("RETURN_RECV", "recv_pack", recv_pack.data)
    BY <1>1 DEF ReturnRecv
  <2>2. "RETURN_RECV" \in Accepted
    BY <2>1, <1>t DEF Execute
  <2>3. Deref("recv_pack")' = recv_pack.data
    BY <2>1 DEF Ack, Deref
  <2>4. send_buffer' \in Contents /\ config' \in [Setters -> Nat]
    BY <1>1, <1>t DEF ReturnRecv
  <2>5. "RETURN_RECV" \in Commands /\ "recv_pack" \in Buffers \cup Texts
    BY DEF Commands, Buffers
  <2> QED BY <1>t, <2>1, <2>2, <2>3, <2>4, <2>5 DEF Acks
<1>2. CASE GetSdkVersion
  <2>1. Execute("GET_SDK_VERSION")
        /\ Ack("GET_SDK_VERSION", "sdk_version", Data("version", 0))
    BY <1>2 DEF GetSdkVersion
  <2>2. Deref("sdk_version")' = Data("version", 0)
    BY DEF Deref
  <2>3. send_buffer' \in Contents /\ config' \in [Setters -> Nat]
    BY <1>2, <1>t DEF GetSdkVersion
  <2>4. "GET_SDK_VERSION" \in Commands /\ "sdk_version" \in Buffers \cup Texts
    BY DEF Commands, Buffers
  <2> QED BY <2>1, <2>2, <2>3, <2>4, DataTypes DEF Acks
<1>3. ASSUME NEW c \in Queries, Query(c) PROVE Acks
  <2>0. c \in Commands /\ c \in Kinds /\ Execute(c) /\ config' \in [Setters -> Nat]
    BY <1>3, <1>t DEF Query, Commands, Kinds
  <2>1. CASE Answer(c)
    <3>1. send_buffer' = Data(c, recv_pack.data.n) /\ send_buffer' \in Contents
      BY <2>0, <2>1, <1>t, DataTypes DEF Answer
    <3>2. Ack(c, "send_buffer", send_buffer')
      BY <2>1 DEF Answer
    <3>3. Deref("send_buffer")' = send_buffer' /\ "send_buffer" \in Buffers \cup Texts
      BY DEF Deref, Buffers
    <3>4. PICK data \in Contents : data = send_buffer'
      BY <3>1
    <3> QED BY <2>0, <3>1, <3>2, <3>3, <3>4 DEF Acks
  <2>2. CASE Fail(c)
    <3>1. send_buffer' \in Contents
      BY <2>2, <1>t, DataTypes DEF Fail, Kinds
    <3>2. Ack(c, "error", Data("error", 0))
      BY <2>2 DEF Fail
    <3>3. Deref("error")' = Data("error", 0) /\ "error" \in Buffers \cup Texts
      BY DEF Deref, Texts
    <3> QED BY <2>0, <3>1, <3>2, <3>3, DataTypes DEF Acks, Texts
  <2> QED BY <1>3, <2>1, <2>2 DEF Query
<1>4. ASSUME NEW c \in Setters, Set(c) PROVE Acks
  <2>1. Execute(c) /\ Ack(c, "success", Data("success", 0)) /\ c \in Commands
    BY <1>4 DEF Set, Commands
  <2>2. Deref("success")' = Data("success", 0) /\ "success" \in Buffers \cup Texts
    BY DEF Deref, Texts
  <2>3. send_buffer' \in Contents /\ config' \in [Setters -> Nat]
    BY <1>4, <1>t DEF Set
  <2> QED BY <2>1, <2>2, <2>3, DataTypes DEF Acks, Texts
<1>6. CASE MeshInit
  <2>1. Execute("MESH_INIT") /\ Ack("MESH_INIT", "success", Data("success", 0))
        /\ "MESH_INIT" \in Commands
    BY <1>6 DEF MeshInit, Commands
  <2>2. Deref("success")' = Data("success", 0) /\ "success" \in Buffers \cup Texts
    BY DEF Deref, Texts
  <2>3. send_buffer' \in Contents /\ config' \in [Setters -> Nat]
    BY <1>6, <1>t DEF MeshInit
  <2> QED BY <2>1, <2>2, <2>3, DataTypes DEF Acks, Texts
<1>7. CASE Unknown
  <2>1. Execute("OTHER") /\ Ack("OTHER", "unknown", Data("unknown", 0))
        /\ "OTHER" \in Commands
    BY <1>7 DEF Unknown, Commands
  <2>2. Deref("unknown")' = Data("unknown", 0) /\ "unknown" \in Buffers \cup Texts
    BY DEF Deref, Texts
  <2>3. send_buffer' \in Contents /\ config' \in [Setters -> Nat]
    BY <1>7, <1>t DEF Unknown
  <2> QED BY <2>1, <2>2, <2>3, DataTypes DEF Acks, Texts
<1> QED BY <1>1, <1>2, <1>3, <1>4, <1>6, <1>7 DEF RecvTask

LEMMA SendMeshDataStep ==
  ASSUME TypeOK, SendMeshData
  PROVE  TypeOK' /\ Coherent' /\ (NoAlias => NoAlias')
<1>1. recv_pack' \in [cmd : Commands \cup {"none"}, data : Contents]
  <2>1. recv_pack \in [cmd : Commands \cup {"none"}, data : Contents]
    BY DEF TypeOK
  <2>2. [recv_pack EXCEPT !.data.kind = "routed"]
          \in [cmd : Commands \cup {"none"}, data : Contents]
    BY <2>1 DEF Contents, Kinds
  <2> QED BY <2>1, <2>2 DEF SendMeshData
<1>2. received' = FALSE /\ sendQ = 0 /\ sendQ' = sendQ
  BY DEF SendMeshData, Execute
<1>3. UNCHANGED <<wifi_pack_send, send_buffer, config, nCmd, nMesh, made, acked,
                  unsent, sent>>
  BY DEF SendMeshData, inputs
<1>4. TypeOK'
  BY <1>1, <1>2, <1>3 DEF TypeOK
<1> QED BY <1>2, <1>3, <1>4 DEF Coherent, NoAlias

(* The mesh callback: its data pointer is send_buffer, just written.       *)
LEMMA MeshBinStep ==
  ASSUME TypeOK, MeshBin
  PROVE  Inv' /\ Filled("SEND_DATA_TO_MCU", "send_buffer", send_buffer') /\ sent' = sent
         /\ Frame("SEND_DATA_TO_MCU", send_buffer') \in Frames
<1> USE CommandAssumption
<1>1. nMesh' \in 0..NMesh /\ send_buffer' = Data("mesh", nMesh')
  BY DEF MeshBin, TypeOK
<1>2. send_buffer' \in Contents
  BY <1>1, DataTypes DEF TypeOK, Kinds
<1>3. PICK data \in Contents : data = send_buffer'
  BY <1>2
<1>4. Filled("SEND_DATA_TO_MCU", "send_buffer", data)
  BY <1>3, ReplyFills DEF MeshBin, SendCmds, Buffers
<1>5. UNCHANGED <<recv_pack, received, config, nCmd, acked, sent>>
  BY DEF MeshBin
<1>6. TypeOK'
  BY <1>1, <1>2, <1>4, <1>5 DEF TypeOK, Filled
<1>7. Waiting' = Frame("SEND_DATA_TO_MCU", data)
  BY <1>3, <1>4 DEF Filled, Waiting, Deref, Frame
<1>8. Coherent' /\ NoAlias'
  BY <1>4, <1>7 DEF Filled, Coherent, NoAlias
<1>9. Frame("SEND_DATA_TO_MCU", data) \in Frames
  BY DEF Frame, Frames, SendCmds
<1> QED BY <1>3, <1>4, <1>5, <1>6, <1>8, <1>9 DEF Inv

(* What a data pointer leads to is of the right type, whatever was written *)
(* there since the frame was filled in.                                    *)
LEMMA WaitingType == ASSUME TypeOK PROVE Waiting \in Frames
<1>1. wifi_pack_send.cmd \in SendCmds /\ wifi_pack_send.ptr \in Buffers \cup Texts
  BY DEF TypeOK
<1>2. recv_pack.data \in Contents /\ send_buffer \in Contents
  BY DEF TypeOK
<1>3. \A ptr \in Buffers \cup Texts : Deref(ptr) \in Contents
  <2>1. /\ Deref("recv_pack") = recv_pack.data
        /\ Deref("send_buffer") = send_buffer
        /\ Deref("sdk_version") = Data("version", 0)
        /\ \A text \in Texts : Deref(text) = Data(text, 0)
    BY DEF Deref, Texts
  <2> QED BY <1>2, <2>1, DataTypes DEF Buffers
<1> QED BY <1>1, <1>3 DEF Waiting, Frame, Frames

LEMMA SendTaskStep ==
  ASSUME TypeOK, SendTask
  PROVE  TypeOK' /\ (Coherent => Coherent') /\ (NoAlias => NoAlias')
<1> USE CommandAssumption
<1>1. UNCHANGED <<recv_pack, received, wifi_pack_send, send_buffer, config, nCmd,
                  nMesh, made, acked>>
  BY DEF SendTask, inputs
<1>2. sendQ > 0 /\ sendQ' = sendQ - 1 /\ unsent' = FALSE
  BY DEF SendTask
<1>3. sent' \in Seq(Frames)
  <2>1. sent \in Seq(Frames) /\ (sent' = Append(sent, Waiting) \/ sent' = sent)
    BY DEF SendTask, TypeOK, Waiting
  <2> QED BY <2>1, WaitingType
<1>4. sendQ' \in 0..QueueLen /\ sendQ \in Nat
  BY <1>2 DEF TypeOK
<1>5. TypeOK'
  BY <1>1, <1>2, <1>3, <1>4 DEF TypeOK
<1>6. Waiting' = Waiting
  BY <1>1 DEF Waiting, Deref
<1> QED BY <1>1, <1>2, <1>4, <1>5, <1>6 DEF Coherent, NoAlias

(* The interrupt handler may write recv_pack while an event is queued; if  *)
(* the MCU is patient, or uses no command that points there, no frame      *)
(* changes by that.                                                        *)
LEMMA ReceivingStep ==
  ASSUME TypeOK, Fragment \/ \E c \in Accepted : Arrive(c)
  PROVE  /\ TypeOK' /\ (NoAlias => NoAlias')
         /\ Patient \/ "RETURN_RECV" \notin Accepted => (Coherent /\ NoAlias => Coherent')
<1> USE CommandAssumption
<1>1. PICK pack : Receiving(pack)
  BY DEF Fragment, Arrive
<1>2. UNCHANGED <<wifi_pack_send, send_buffer, sendQ, config, nMesh, made, acked,
                  unsent, sent>>
  BY <1>1 DEF Receiving
<1>3. nCmd \in Nat /\ nCmd < NCommands /\ nCmd + 1 \in 0..(NCommands + NMesh)
  BY <1>1 DEF Receiving, TypeOK
<1>4. /\ recv_pack' \in [cmd : Commands \cup {"none"}, data : Contents]
      /\ received' \in BOOLEAN /\ (received' => recv_pack'.cmd \in Accepted)
      /\ nCmd' \in 0..NCommands
  <2>1. CASE Fragment
    <3>1. recv_pack' = Frame(recv_pack.cmd, Data("torn", nCmd + 1))
          /\ received' = FALSE /\ nCmd' = nCmd
      BY <2>1 DEF Fragment, Receiving, TypeOK
    <3>2. Data("torn", nCmd + 1) \in Contents
      BY <1>3, DataTypes DEF Kinds
    <3> QED BY <1>3, <3>1, <3>2 DEF Frame, TypeOK
  <2>2. CASE \E c \in Accepted : Arrive(c)
    <3>1. PICK c \in Accepted : recv_pack' = Frame(c, Data("payload", nCmd + 1))
                                /\ received' = TRUE /\ nCmd' = nCmd + 1
      BY <2>2 DEF Arrive, Receiving
    <3>2. Data("payload", nCmd + 1) \in Contents
      BY <1>3, DataTypes DEF Kinds
    <3> QED BY <1>3, <3>1, <3>2 DEF Frame
  <2> QED BY <2>1, <2>2
<1>5. TypeOK'
  BY <1>2, <1>4 DEF TypeOK
<1>6. NoAlias => NoAlias'
  BY <1>2 DEF NoAlias
<1>7. ASSUME Patient \/ "RETURN_RECV" \notin Accepted, Coherent, NoAlias
      PROVE  Coherent'
  <2>1. sendQ > 0 => wifi_pack_send.ptr # "recv_pack"
    BY <1>1, <1>7 DEF Receiving, ReplyQueued, TypeOK, NoAlias
  <2>2. sendQ > 0 => Waiting' = Waiting
    BY <1>2, <2>1 DEF Waiting, Deref
  <2> QED BY <1>2, <1>7, <2>2 DEF Coherent
<1> QED BY <1>5, <1>6, <1>7

LEMMA InitInv == Init => Inv
<1> SUFFICES ASSUME Init PROVE Inv
  OBVIOUS
<1>1. Data("none", 0) \in Contents
  BY CommandAssumption DEF Data, Contents, Kinds
<1>3. recv_pack \in [cmd : Commands \cup {"none"}, data : Contents]
  BY <1>1 DEF Init, Frame
<1>4. wifi_pack_send \in [cmd : SendCmds, ptr : Buffers \cup Texts]
  BY DEF Init, SendCmds, Buffers
<1>5. send_buffer \in Contents /\ config \in [Setters -> Nat]
  BY <1>1 DEF Init
<1>6. /\ sendQ \in 0..QueueLen /\ nCmd \in 0..NCommands /\ nMesh \in 0..NMesh
      /\ made \in Seq(Frames) /\ acked \in Seq(Commands) /\ sent \in Seq(Frames)
  BY CommandAssumption DEF Init
<1>2. TypeOK
  BY <1>3, <1>4, <1>5, <1>6 DEF Init, TypeOK
<1> QED BY <1>2 DEF Init, Inv, Coherent, NoAlias

LEMMA StutterStep ==
  ASSUME UNCHANGED vars
  PROVE  (TypeOK => TypeOK') /\ (Coherent => Coherent') /\ (NoAlias => NoAlias')
<1>1. UNCHANGED <<recv_pack, received, wifi_pack_send, send_buffer, sendQ, config,
                  nCmd, nMesh, made, acked, unsent, sent>>
  BY DEF vars, inputs
<1>2. TypeOK => TypeOK'
  BY <1>1 DEF TypeOK
<1>3. Waiting' = Waiting
  BY <1>1 DEF Waiting, Deref
<1> QED BY <1>1, <1>2, <1>3 DEF Coherent, NoAlias

LEMMA TypeStep == ASSUME TypeOK, [Next]_vars PROVE TypeOK'
<1>1. CASE Fragment \/ \E c \in Accepted : Arrive(c)
  BY <1>1, ReceivingStep
<1>2. CASE RecvTask
  BY <1>2, RecvTaskReplies, AckPreserves, SendMeshDataStep DEF Inv
<1>3. CASE MeshBin
  BY <1>3, MeshBinStep DEF Inv
<1>4. CASE SendTask
  BY <1>4, SendTaskStep
<1>5. CASE UNCHANGED vars
  BY <1>5, StutterStep
<1> QED BY <1>1, <1>2, <1>3, <1>4, <1>5 DEF Next, Rest

(* Every variable keeps its type, whatever the MCU does: also a frame that *)
(* was spoilt before it was sent is one that exists.                       *)
THEOREM CommandTypeCorrect == Spec => []TypeOK
<1>1. Init => TypeOK
  BY InitInv DEF Inv
<1>2. TypeOK /\ [Next]_vars => TypeOK'
  BY TypeStep
<1> QED BY <1>1, <1>2, PTL DEF Spec

LEMMA InvStep ==
  ASSUME Patient \/ "RETURN_RECV" \notin Accepted, Inv, [Next]_vars
  PROVE  Inv'
<1>1. CASE Fragment \/ \E c \in Accepted : Arrive(c)
  BY <1>1, ReceivingStep DEF Inv
<1>2. CASE RecvTask
  BY <1>2, RecvTaskReplies, AckPreserves, SendMeshDataStep DEF Inv
<1>3. CASE MeshBin
  BY <1>3, MeshBinStep DEF Inv
<1>4. CASE SendTask
  BY <1>4, SendTaskStep DEF Inv
<1>5. CASE UNCHANGED vars
  BY <1>5, StutterStep DEF Inv
<1> QED BY <1>1, <1>2, <1>3, <1>4, <1>5 DEF Next, Rest

LEMMA Invariant ==
  ASSUME Patient \/ "RETURN_RECV" \notin Accepted
  PROVE  Spec => []Inv
<1>1. Inv /\ [Next]_vars => Inv'
  BY InvStep
<1> QED BY InitInv, <1>1, PTL DEF Spec

-----------------------------------------------------------------------------
(* A handler that replies puts its frame into the mailbox.                 *)
LEMMA FilledPuts ==
  ASSUME TypeOK, NEW cmd \in SendCmds, NEW ptr, NEW data \in Contents,
         Reply(cmd, ptr, data), Filled(cmd, ptr, data), sent' = sent
  PROVE  Box!Put
<1>1. Frame(cmd, data) \in Frames /\ made' = Append(made, Frame(cmd, data))
  BY DEF Frame, Frames, Reply
<1>2. (sendQ > 0)' = TRUE
  BY DEF Filled
<1> QED BY <1>1, <1>2 DEF Box!Put

LEMMA AckPuts == ASSUME Inv, Acks PROVE Box!Put
<1>0. PICK c \in Commands, ptr \in Buffers \cup Texts, data \in Contents :
        Execute(c) /\ Ack(c, ptr, data)
  BY DEF Acks
<1>1. Filled(c, ptr, data) /\ sent' = sent
  BY <1>0, AckFills DEF Inv
<1>2. Reply(c, ptr, data) /\ c \in SendCmds
  BY <1>0 DEF Ack, SendCmds
<1> QED BY <1>1, <1>2, FilledPuts DEF Inv

(* Every step of the handlers is a step of the mailbox or none.            *)
LEMMA BoxStep ==
  ASSUME Inv, [Next]_vars
  PROVE  [Box!Next]_<<made, sendQ > 0, sent>>
<1>1. CASE RecvTask
  <2>1. CASE Acks
    BY <2>1, AckPuts DEF Box!Next
  <2>2. CASE SendMeshData
    BY <2>2 DEF SendMeshData
  <2> QED BY <1>1, <2>1, <2>2, RecvTaskReplies DEF Inv
<1>2. CASE MeshBin
  <2>1. PICK data \in Contents : data = send_buffer'
    BY <1>2, MeshBinStep DEF Inv, TypeOK
  <2>2. Filled("SEND_DATA_TO_MCU", "send_buffer", data) /\ sent' = sent
    BY <1>2, <2>1, MeshBinStep DEF Inv
  <2>3. Reply("SEND_DATA_TO_MCU", "send_buffer", data)
    BY <1>2, <2>1 DEF MeshBin
  <2>4. Box!Put
    BY <2>2, <2>3, FilledPuts DEF Inv, SendCmds
  <2> QED BY <2>4 DEF Box!Next
<1>3. CASE SendTask
  <2>1. sendQ > 0 /\ made' = made /\ (sendQ > 0)' \in BOOLEAN
    BY <1>3 DEF SendTask
  <2>2. sent' = Append(sent, Waiting) \/ sent' = sent
    BY <1>3 DEF SendTask, Waiting
  <2>3. Waiting = made[Len(made)]
    BY <2>1 DEF Inv, Coherent
  <2>4. Box!Send \/ Box!GiveUp
    BY <2>1, <2>2, <2>3 DEF Box!Send, Box!GiveUp
  <2> QED BY <2>4 DEF Box!Next
<1>4. CASE Fragment \/ \E c \in Accepted : Arrive(c)
  BY <1>4 DEF Fragment, Arrive, Receiving
<1>5. CASE UNCHANGED vars
  BY <1>5 DEF vars
<1> QED BY <1>1, <1>2, <1>3, <1>4, <1>5 DEF Next, Rest

(* The globals that command_execute, mesh_bin_proto_parser and             *)
(* hspi_send_task share implement the mailbox, for every number of         *)
(* commands, mesh packets and queue places: system_os_post may drop        *)
(* events, wifi_send may lack memory, and still no frame is spoilt and     *)
(* none is forgotten without having been tried, unless another replaced it.*)
THEOREM ImplementsMailbox ==
  ASSUME Patient \/ "RETURN_RECV" \notin Accepted
  PROVE  Spec => IsMailbox
<1>1. Init => Box!Init
  BY DEF Init, Box!Init
<1>2. Inv /\ [Next]_vars => [Box!Next]_<<made, sendQ > 0, sent>>
  BY BoxStep
<1> QED BY Invariant, <1>1, <1>2, PTL DEF Spec, IsMailbox, Box!Spec
-----------------------------------------------------------------------------
(* Until the first mesh packet arrives there is one event queued, or none, *)
(* and it belongs to the reply that was made last: the send task has the   *)
(* higher priority, so it runs before the next command can be executed.    *)
Turns ==
  nMesh = 0 =>
    /\ sendQ <= 1 /\ (sendQ > 0 => unsent) /\ (unsent => sendQ > 0)
    /\ unsent => acked # <<>> /\ wifi_pack_send.cmd = acked[Len(acked)]

LEMMA AckTurns == ASSUME TypeOK, Acks PROVE Turns'
<1>0. PICK c \in Commands, ptr \in Buffers \cup Texts, data \in Contents :
        Execute(c) /\ Ack(c, ptr, data)
  BY DEF Acks
<1>1. sendQ' = 1 /\ unsent' = TRUE
  BY <1>0, CommandAssumption DEF Execute, Ack, Reply, Post
<1>2. acked' = Append(acked, c) /\ wifi_pack_send'.cmd = c /\ acked \in Seq(Commands)
  BY <1>0 DEF Ack, Reply, TypeOK
<1>3. acked' # <<>> /\ acked'[Len(acked')] = c
  BY <1>2
<1> QED BY <1>1, <1>2, <1>3 DEF Turns

LEMMA SendTurns == ASSUME TypeOK, Turns, SendTask PROVE Turns'
<1>1. sendQ > 0 /\ sendQ' = sendQ - 1 /\ unsent' = FALSE /\ nMesh' = nMesh
  BY DEF SendTask, inputs
<1>2. nMesh = 0 => ~(sendQ' > 0) /\ sendQ' <= 1
  BY <1>1 DEF Turns, TypeOK
<1> QED BY <1>1, <1>2 DEF Turns

LEMMA TurnsStep == ASSUME TypeOK, Turns, [Next]_vars PROVE Turns'
<1>1. CASE RecvTask
  <2>1. CASE Acks
    BY <2>1, AckTurns
  <2>2. CASE SendMeshData
    BY <2>2 DEF SendMeshData, inputs, Turns
  <2> QED BY <1>1, <2>1, <2>2, RecvTaskReplies
<1>2. CASE MeshBin
  <2>1. nMesh' # 0
    BY <1>2 DEF MeshBin, TypeOK
  <2> QED BY <2>1 DEF Turns
<1>3. CASE SendTask
  BY <1>3, SendTurns
<1>4. CASE Fragment \/ \E c \in Accepted : Arrive(c)
  BY <1>4 DEF Fragment, Arrive, Receiving, Turns
<1>5. CASE UNCHANGED vars
  BY <1>5 DEF vars, inputs, Turns
<1> QED BY <1>1, <1>2, <1>3, <1>4, <1>5 DEF Next, Rest

(* Without mesh packets every reply is sent at most once and before the    *)
(* next one is made, under the number of the command it answers.           *)
THEOREM RepliesTakeTurns == Spec => OneReplyEach
<1>1. Init => Turns
  BY CommandAssumption DEF Init, Turns
<1>2. TypeOK /\ Turns /\ [Next]_vars => Turns'
  BY TurnsStep
<1>3. ASSUME TypeOK, Turns, [Next]_vars, nMesh' = 0
      PROVE  /\ sent' # sent => unsent /\ sent'[Len(sent')].cmd = acked[Len(acked)]
             /\ made' # made => ~unsent
  <2>1. nMesh = 0
    BY <1>3 DEF Next, RecvTask, ReturnRecv, GetSdkVersion, Query, Answer, Fail, Set,
                SendMeshData, MeshInit, Unknown, Ack, inputs, MeshBin, SendTask,
                Fragment, Arrive, Receiving, Rest, vars, TypeOK
  <2>2. CASE SendTask
    <3>1. sendQ > 0 /\ made' = made
      BY <2>2 DEF SendTask
    <3>2. unsent /\ wifi_pack_send.cmd = acked[Len(acked)]
      BY <1>3, <2>1, <3>1 DEF Turns
    <3>3. ASSUME sent' # sent
          PROVE  sent'[Len(sent')].cmd = wifi_pack_send.cmd
      <4>1. sent' = Append(sent, Waiting) /\ sent \in Seq(Frames)
        BY <1>3, <2>2, <3>3 DEF SendTask, Waiting, TypeOK
      <4>2. sent'[Len(sent')] = Waiting
        BY <4>1
      <4> QED BY <4>2 DEF Waiting, Frame
    <3> QED BY <3>1, <3>2, <3>3
  <2>3. CASE RecvTask
    <3>1. sent' = sent /\ sendQ = 0
      BY <2>3 DEF RecvTask, ReturnRecv, GetSdkVersion, Query, Answer, Fail, Set,
                  SendMeshData, MeshInit, Unknown, Ack, Execute
    <3>2. ~unsent
      BY <1>3, <2>1, <3>1 DEF Turns
    <3> QED BY <3>1, <3>2
  <2>4. CASE MeshBin
    BY <1>3, <2>4 DEF MeshBin, TypeOK
  <2>5. CASE Fragment \/ (\E c \in Accepted : Arrive(c)) \/ UNCHANGED vars
    BY <2>5 DEF Fragment, Arrive, Receiving, vars
  <2> QED BY <1>3, <2>2, <2>3, <2>4, <2>5 DEF Next, Rest
<1>4. TypeOK /\ Turns /\ [Next]_vars =>
        [nMesh' = 0 => /\ sent' # sent => unsent /\ sent'[Len(sent')].cmd = acked[Len(acked)]
                       /\ made' # made => ~unsent]_vars
  BY <1>3
<1> QED BY CommandTypeCorrect, <1>1, <1>2, <1>4, PTL DEF Spec, OneReplyEach

-----------------------------------------------------------------------------
(* Until the first mesh packet arrives, every frame is a reply, and there  *)
(* is one for each command that promises it, sent already or queued.       *)
Counted ==
  nMesh = 0 =>
    /\ wifi_pack_send.cmd # "SEND_DATA_TO_MCU"
    /\ \A k \in 1..Len(sent) : IsReply(sent[k])
    /\ Len(sent) + sendQ = Len(acked)

LEMMA AckCounted == ASSUME TypeOK, Counted, Acks PROVE Counted'
<1>0. PICK c \in Commands, ptr \in Buffers \cup Texts, data \in Contents :
        Execute(c) /\ Ack(c, ptr, data)
  BY DEF Acks
<1>1. sendQ = 0 /\ sendQ' = 1 /\ sent' = sent /\ nMesh' = nMesh
  BY <1>0, CommandAssumption DEF Execute, Ack, Reply, Post, inputs
<1>2. wifi_pack_send'.cmd = c /\ c # "SEND_DATA_TO_MCU"
  BY <1>0 DEF Ack, Reply, Commands, Setters, Queries
<1>3. Len(acked') = Len(acked) + 1 /\ Len(sent) \in Nat /\ Len(acked) \in Nat
  <2>1. acked \in Seq(Commands) /\ acked' = Append(acked, c) /\ sent \in Seq(Frames)
    BY <1>0 DEF Ack, TypeOK
  <2> QED BY <2>1
<1> QED BY <1>1, <1>2, <1>3 DEF Counted

LEMMA SendCounted == ASSUME ~LowHeap, TypeOK, Counted, SendTask PROVE Counted'
<1>1. /\ sendQ > 0 /\ sendQ' = sendQ - 1 /\ sent' = Append(sent, Waiting)
      /\ UNCHANGED <<wifi_pack_send, acked, nMesh>>
  BY DEF SendTask, Waiting, inputs
<1>2. sent \in Seq(Frames) /\ acked \in Seq(Commands) /\ sendQ \in Nat
  BY DEF TypeOK
<1>3. /\ Len(sent') = Len(sent) + 1 /\ Len(sent) \in Nat /\ sent'[Len(sent')] = Waiting
      /\ \A k \in 1..Len(sent) : sent'[k] = sent[k]
  <2>1. Waiting \in Frames /\ Len(sent) \in Nat
    BY <1>2, WaitingType, LenProperties
  <2> QED BY <1>1, <1>2, <2>1, AppendProperties
<1>4. ASSUME nMesh = 0
      PROVE  /\ Len(sent') + sendQ' = Len(acked)
             /\ \A k \in 1..Len(sent') : IsReply(sent'[k])
  <2>1. Len(sent') + sendQ' = Len(acked)
    <3>1. Len(sent) + sendQ = Len(acked)
      BY <1>4 DEF Counted
    <3>2. Len(sent') + sendQ' = Len(sent) + sendQ
      BY <1>1, <1>2, <1>3
    <3> QED BY <3>1, <3>2
  <2>2. IsReply(Waiting)
    BY <1>4 DEF Counted, IsReply, Waiting, Frame
  <2>3. \A k \in 1..Len(sent') : k = Len(sent') \/ k \in 1..Len(sent)
    BY <1>3
  <2> QED BY <1>3, <1>4, <2>1, <2>2, <2>3 DEF Counted
<1> QED BY <1>1, <1>4 DEF Counted

LEMMA CountedStep == ASSUME ~LowHeap, TypeOK, Counted, [Next]_vars PROVE Counted'
<1>1. CASE RecvTask
  <2>1. CASE Acks
    BY <2>1, AckCounted
  <2>2. CASE SendMeshData
    BY <2>2 DEF SendMeshData, inputs, Counted
  <2> QED BY <1>1, <2>1, <2>2, RecvTaskReplies
<1>2. CASE MeshBin
  <2>1. nMesh' # 0
    BY <1>2 DEF MeshBin, TypeOK
  <2> QED BY <2>1 DEF Counted
<1>3. CASE SendTask
  BY <1>3, SendCounted
<1>4. CASE Fragment \/ \E c \in Accepted : Arrive(c)
  BY <1>4 DEF Fragment, Arrive, Receiving, Counted
<1>5. CASE UNCHANGED vars
  BY <1>5 DEF vars, inputs, Counted
<1> QED BY <1>1, <1>2, <1>3, <1>4, <1>5 DEF Next, Rest

(* "Send the ACK" (command.c:198) holds until the first packet from the    *)
(* mesh: with memory to spare, whatever the MCU sends and when, each       *)
(* command that promises a reply has one when nothing is left to send.     *)
(* The run with a mesh packet shows that the packet can break it.          *)
THEOREM AckedWithoutMesh ==
  ASSUME ~LowHeap
  PROVE  Spec => [](nMesh = 0 => EveryCommandAcked)
<1>1. Init => Counted
  BY DEF Init, Counted
<1>2. TypeOK /\ Counted /\ [Next]_vars => Counted'
  BY CountedStep
<1>3. TypeOK /\ Counted => (nMesh = 0 => EveryCommandAcked)
  <2> SUFFICES ASSUME TypeOK, Counted, nMesh = 0, sendQ = 0
               PROVE  Cardinality(Replies) >= Len(acked)
    BY DEF EveryCommandAcked
  <2>1. Len(sent) \in Nat /\ Len(sent) = Len(acked)
    <3>1. Len(sent) \in Nat
      BY LenProperties DEF TypeOK
    <3>2. Len(sent) + sendQ = Len(acked)
      BY DEF Counted
    <3> QED BY <3>1, <3>2
  <2>2. Replies = 1..Len(sent)
    BY DEF Counted, Replies
  <2>3. Cardinality(1..Len(sent)) = Len(sent)
    <3>1. Len(sent) \in Int /\ 1 \in Int
      BY <2>1
    <3>2. Cardinality(1..Len(sent)) = IF 1 > Len(sent) THEN 0 ELSE Len(sent) - 1 + 1
      BY <3>1, FS_Interval
    <3> QED BY <2>1, <3>2
  <2> QED BY <2>1, <2>2, <2>3
<1> QED BY CommandTypeCorrect, <1>1, <1>2, <1>3, PTL DEF Spec
=============================================================================
