------------------------------ MODULE Command ------------------------------
(***************************************************************************)
(* The command interpreter of src/mesh_demo/demo/command.c and the other   *)
(* user of its send path, mesh_bin_proto_parser (mesh_bin.c).  Both fill   *)
(* in the one global wifi_pack_send, whose data pointer leads to a buffer  *)
(* they share, and post an event that carries nothing; hspi_send_task      *)
(* (user_hspi.c) later sends whatever wifi_pack_send says by then.         *)
(*                                                                         *)
(* Handlers are tasks and run to completion: hspi_send_task before         *)
(* hspi_recv_task (priority), the SDK's mesh callbacks at any time between *)
(* two of them.  The interrupt handler may put the next command into       *)
(* recv_pack as soon as the last one has been executed.  How the bytes get *)
(* over the wire is the subject of Hspi.  Operators named Mut... are       *)
(* plausible mistakes in the operator that follows them.                   *)
(***************************************************************************)
EXTENDS Integers, Sequences, FiniteSets

CONSTANTS
  NCommands,   \* bound: commands the MCU sends
  NMesh,       \* bound: packets the mesh delivers for the MCU
  Accepted,    \* the commands the MCU uses
  QueueLen,    \* HSPI_SEND_QUEUE_LEN
  Patient,     \* the MCU sends a command only when no reply is on its way
  LowHeap      \* os_malloc in wifi_send may fail

Setters == {"SERVER_ADDR_SET", "MESH_GROUP_ID_SET", "ROUTER_SET", "MESH_WIFI_SET"}
Queries == {"GET_FLASH_SIZE_MAP", "GET_IP_INFO", "GET_MACADDR", "GET_DEVICE_LIST"}
Commands == Setters \cup Queries \cup
  {"RETURN_RECV", "GET_SDK_VERSION", "SEND_MESH_DATA", "MESH_INIT", "OTHER"}

ASSUME CommandAssumption ==
  /\ NCommands \in Nat /\ NMesh \in Nat /\ QueueLen \in Nat \ {0}
  /\ Accepted \subseteq Commands /\ Patient \in BOOLEAN /\ LowHeap \in BOOLEAN

(* The contents of a buffer: the kind of data, and the number of the       *)
(* command or mesh packet they came with.                                  *)
Kinds == Queries \cup {"half", "torn", "payload", "routed", "mesh", "version",
                       "error", "success", "unknown", "none"}
Data(kind, n) == [kind |-> kind, n |-> n]
Contents == [kind : Kinds, n : 0..(NCommands + NMesh)]

(* wifi_pack_send.data: one of three buffers, or a constant string.        *)
Buffers == {"recv_pack", "send_buffer", "sdk_version"}
Texts == {"error", "success", "unknown"}

SendCmds == Commands \cup {"none", "SEND_DATA_TO_MCU"}
Frame(cmd, data) == [cmd |-> cmd, data |-> data]
Frames == [cmd : SendCmds, data : Contents]

VARIABLES
  recv_pack,       \* the command in the receive buffer: cmd and data
  received,        \* it is complete and not executed yet
  wifi_pack_send,  \* cmd and data pointer of the frame to send
  send_buffer,
  sendQ,           \* events in the queue of hspi_send_task
  config,          \* number of the command each setting was copied from
  nCmd, nMesh,     \* commands and mesh packets so far
  \* history
  made,            \* frames filled in, with the data they had then
  acked,           \* executed commands that promise a reply
  unsent,          \* the frame filled in last was not picked up yet
  sent             \* frames handed to spi_send_data

inputs == <<nCmd, nMesh>>
vars == <<recv_pack, received, wifi_pack_send, send_buffer, sendQ, config,
          inputs, made, acked, unsent, sent>>

(* system_os_post: a full queue drops the event, which nobody notices.     *)
Post(q) == IF q < QueueLen THEN q + 1 ELSE q

(* What a data pointer leads to.                                           *)
MutDeref(ptr) == Data(ptr, 0)
Deref(ptr) ==
  CASE ptr = "recv_pack" -> recv_pack.data
    [] ptr = "send_buffer" -> send_buffer
    [] ptr = "sdk_version" -> Data("version", 0)
    [] OTHER -> Data(ptr, 0)

-----------------------------------------------------------------------------
Init ==
  /\ recv_pack = Frame("none", Data("none", 0)) /\ received = FALSE
  /\ wifi_pack_send = [cmd |-> "none", ptr |-> "send_buffer"]
  /\ send_buffer = Data("none", 0) /\ sendQ = 0
  /\ config = [s \in Setters |-> 0]
  /\ nCmd = 0 /\ nMesh = 0
  /\ made = <<>> /\ acked = <<>> /\ unsent = FALSE /\ sent = <<>>

(* The interrupt handler writes into recv_pack: the first fragments of a   *)
(* command, then the whole of it, that passes hspi_data_process.  A frame  *)
(* of the mesh, of which a patient MCU knows nothing, may be in the queue. *)
ReplyQueued == sendQ > 0 /\ wifi_pack_send.cmd # "SEND_DATA_TO_MCU"
Receiving(pack) ==
  /\ ~received /\ nCmd < NCommands
  /\ Patient => ~ReplyQueued
  /\ recv_pack' = pack
  /\ UNCHANGED <<wifi_pack_send, send_buffer, sendQ, config, nMesh, made,
                 acked, unsent, sent>>

Fragment ==
  /\ Receiving(Frame(recv_pack.cmd, Data("torn", nCmd + 1)))
  /\ UNCHANGED <<received, nCmd>>

Arrive(c) ==
  /\ Receiving(Frame(c, Data("payload", nCmd + 1)))
  /\ received' = TRUE /\ nCmd' = nCmd + 1

(* The recv task runs command_execute when the send task has no events.    *)
Execute(c) == received /\ sendQ = 0 /\ recv_pack.cmd = c /\ received' = FALSE

(* Fill in wifi_pack_send with a pointer to `data' and post the event.     *)
MutReply(cmd, ptr, data) ==
  /\ wifi_pack_send' = [wifi_pack_send EXCEPT !.ptr = ptr]
  /\ sendQ' = Post(sendQ)
  /\ made' = Append(made, Frame(cmd, data)) /\ unsent' = TRUE
MutReplySilent(cmd, ptr, data) ==
  /\ wifi_pack_send' = [cmd |-> cmd, ptr |-> ptr]
  /\ made' = Append(made, Frame(cmd, data)) /\ unsent' = TRUE
  /\ UNCHANGED sendQ
Reply(cmd, ptr, data) ==
  /\ wifi_pack_send' = [cmd |-> cmd, ptr |-> ptr]
  /\ sendQ' = Post(sendQ)
  /\ made' = Append(made, Frame(cmd, data)) /\ unsent' = TRUE

(* The end of command_execute, for all commands but CMD_SEND_MESH_DATA.    *)
Ack(c, ptr, data) ==
  /\ Reply(c, ptr, data)
  /\ acked' = Append(acked, c)
  /\ UNCHANGED <<recv_pack, inputs, sent>>

(* The reply is in place already: the payload itself, or the SDK version,  *)
(* fetched once.                                                           *)
ReturnRecv ==
  /\ Execute("RETURN_RECV")
  /\ Ack("RETURN_RECV", "recv_pack", recv_pack.data)
  /\ UNCHANGED <<send_buffer, config>>

GetSdkVersion ==
  /\ Execute("GET_SDK_VERSION")
  /\ Ack("GET_SDK_VERSION", "sdk_version", Data("version", 0))
  /\ UNCHANGED <<send_buffer, config>>

(* The answer is written to send_buffer.  All but the first query may fail *)
(* -- for the IP and MAC addresses also after half of it was written --    *)
(* and then reply with a text.                                             *)
Answer(c) ==
  /\ send_buffer' = Data(c, recv_pack.data.n)
  /\ Ack(c, "send_buffer", send_buffer')

Fail(c) ==
  /\ c # "GET_FLASH_SIZE_MAP"
  /\ \/ UNCHANGED send_buffer
     \/ /\ c \in {"GET_IP_INFO", "GET_MACADDR"}
        /\ send_buffer' = Data("half", recv_pack.data.n)
  /\ Ack(c, "error", Data("error", 0))

Query(c) == Execute(c) /\ (Answer(c) \/ Fail(c)) /\ UNCHANGED config

Set(c) ==
  /\ Execute(c)
  /\ config' = [config EXCEPT ![c] = recv_pack.data.n]
  /\ Ack(c, "success", Data("success", 0))
  /\ UNCHANGED send_buffer

MutSendMeshData ==
  /\ Execute("SEND_MESH_DATA")
  /\ sendQ' = Post(sendQ)
  /\ UNCHANGED <<recv_pack, wifi_pack_send, send_buffer, config, inputs, made,
                 acked, unsent, sent>>
(* Data for the mesh (external) and no reply.  The destination 0 stands    *)
(* for the server: its address is written into recv_pack.                  *)
SendMeshData ==
  /\ Execute("SEND_MESH_DATA")
  /\ recv_pack' \in {recv_pack, [recv_pack EXCEPT !.data.kind = "routed"]}
  /\ UNCHANGED <<wifi_pack_send, send_buffer, sendQ, config, inputs, made,
                 acked, unsent, sent>>

(* mesh_init hands the settings to the mesh library (external).            *)
MeshInit ==
  /\ Execute("MESH_INIT")
  /\ Ack("MESH_INIT", "success", Data("success", 0))
  /\ UNCHANGED <<send_buffer, config>>

Unknown ==
  /\ Execute("OTHER")
  /\ Ack("OTHER", "unknown", Data("unknown", 0))
  /\ UNCHANGED <<send_buffer, config>>

(* mesh_bin_proto_parser: a packet from the mesh for the MCU.              *)
MeshBin ==
  /\ nMesh < NMesh
  /\ nMesh' = nMesh + 1
  /\ send_buffer' = Data("mesh", nMesh')
  /\ Reply("SEND_DATA_TO_MCU", "send_buffer", send_buffer')
  /\ UNCHANGED <<recv_pack, received, config, nCmd, acked, sent>>

(* hspi_send_task: wifi_send copies the frame and has it sent, or gives up *)
(* because there is no memory for the copy.                                *)
SendTask ==
  /\ sendQ > 0
  /\ sendQ' = sendQ - 1 /\ unsent' = FALSE
  /\ \/ sent' = Append(sent, Frame(wifi_pack_send.cmd, Deref(wifi_pack_send.ptr)))
     \/ LowHeap /\ UNCHANGED sent
  /\ UNCHANGED <<recv_pack, received, wifi_pack_send, send_buffer, config,
                 inputs, made, acked>>

RecvTask == ReturnRecv \/ GetSdkVersion \/ (\E c \in Queries : Query(c))
              \/ (\E c \in Setters : Set(c)) \/ SendMeshData \/ MeshInit \/ Unknown

(* Every command and packet has been dealt with.                           *)
Rest == nCmd = NCommands /\ ~received /\ nMesh = NMesh /\ sendQ = 0 /\ UNCHANGED vars

Next == Fragment \/ (\E c \in Accepted : Arrive(c)) \/ RecvTask \/ MeshBin
          \/ SendTask \/ Rest

Spec == Init /\ [][Next]_vars

(* The CPU runs the tasks that have events.                                *)
FairSpec == Spec /\ WF_vars(RecvTask) /\ WF_vars(SendTask)

-----------------------------------------------------------------------------
TypeOK ==
  /\ recv_pack \in [cmd : Commands \cup {"none"}, data : Contents]
  /\ received \in BOOLEAN /\ (received => recv_pack.cmd \in Accepted)
  /\ wifi_pack_send \in [cmd : SendCmds, ptr : Buffers \cup Texts]
  /\ send_buffer \in Contents /\ sendQ \in 0..QueueLen
  /\ config \in [Setters -> Nat]
  /\ nCmd \in 0..NCommands /\ nMesh \in 0..NMesh
  /\ made \in Seq(Frames) /\ acked \in Seq(Commands) /\ unsent \in BOOLEAN
  /\ sent \in Seq(Frames)

(* The globals shared by the two handlers and the send task keep the       *)
(* promise of a mailbox: whatever is sent is the frame some handler        *)
(* completed last, never the command of one with the data of another, and  *)
(* an event that system_os_post drops never makes a frame forgotten.       *)
Box == INSTANCE Mailbox WITH full <- sendQ > 0
IsMailbox == Box!Spec

(* The frame filled in last is picked up.                                  *)
LatestSent == unsent ~> ~unsent

IsReply(frame) == frame.cmd # "SEND_DATA_TO_MCU"
Replies == {k \in 1..Len(sent) : IsReply(sent[k])}

(* Without mesh traffic commands and replies take turns: no reply is sent  *)
(* twice, none is replaced before it was picked up, and each carries the   *)
(* number of the command executed last that promises one, although the     *)
(* event says nothing of all that.                                         *)
OneReplyEach ==
  [][nMesh' = 0 => /\ sent' # sent => unsent /\ sent'[Len(sent')].cmd = acked[Len(acked)]
                   /\ made' # made => ~unsent]_vars

(* "Send the ACK" (command.c:198), with memory to spare: when nothing is   *)
(* left to send, there were as many replies as commands that promise one.  *)
EveryCommandAcked == sendQ = 0 => Cardinality(Replies) >= Len(acked)
=============================================================================
