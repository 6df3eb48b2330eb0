------------------------------ MODULE MeshJson ------------------------------
(***************************************************************************)
(* The periodic test packets of src/mesh_demo/demo/mesh_json.c, sent to    *)
(* all devices, to one of the table of MeshDevice and to a group made of   *)
(* it.  A multicast carries its group in options of at most PerOp          *)
(* addresses: first the list, PerOp at a time, then the root with what is  *)
(* left of the list.  A timer runs a test between two other callbacks.     *)
(***************************************************************************)
EXTENDS MeshDevice

CONSTANTS
  PerOp,   \* ESP_MESH_DEV_MAX_PER_OP (42)
  Rooms    \* options that may fit into a packet beside its data (4 here)

ASSUME MeshJsonAssumption == PerOp \in Nat /\ PerOp > 1 /\ Rooms \subseteq Nat \ {0}

VARIABLE packet  \* the packet a test has just sent

jsonVars == <<vars, packet>>

NoPacket == [kind |-> "none", to |-> {}, options |-> <<>>, unused |-> 0, room |-> 1]

JsonInit == Init /\ packet = NoPacket

(* mesh_device_get_mac_list.                                               *)
ListCount == IF scale < 2 THEN 0 ELSE scale - 1

At(k) == IF k \in DOMAIN list THEN list[k] ELSE "outside"

DevCount(room) == IF ListCount + 1 > room * PerOp THEN room * PerOp ELSE ListCount + 1
OpCount(room) == DevCount(room) \div PerOp
RestCount(room) == DevCount(room) - OpCount(room) * PerOp

MutRestOption(room) ==
  IF RestCount(room) = 0 THEN <<>>
  ELSE <<[j \in 1..RestCount(room) |->
            IF j = 1 THEN root ELSE At(OpCount(room) * PerOp + j - 1)]>>

(* The root is the first address of the last option, ...                   *)
RestOption(room) ==
  IF RestCount(room) = 0 THEN <<>>
  ELSE <<[j \in 1..RestCount(room) |->
            IF j = 1 THEN root ELSE At(OpCount(room) * PerOp + j - 2)]>>

(* ... which is missing if DevCount devices fill whole options: then they  *)
(* hold the list, and one entry more than it has.                          *)
McastOptions(room) ==
  [i \in 1..OpCount(room) |-> [j \in 1..PerOp |-> At((i - 1) * PerOp + j - 1)]]
    \o RestOption(room)

(* ot_len less the options added: a header of two bytes of a last option.  *)
Unused(room) == IF RestCount(room) = 0 THEN 2 ELSE 0

(* A test calls back into the mesh library: no packet, when one of its     *)
(* calls fails (and the packet is freed); and a reconnection, if the       *)
(* packet is not taken (see MeshNode).                                     *)
Send(p) ==
  /\ pc = "idle"
  /\ packet' \in {p, NoPacket, [NoPacket EXCEPT !.kind = "reconnect"]}
  /\ UNCHANGED vars

BcastTest == Send([NoPacket EXCEPT !.kind = "bcast"])

(* os_random selects the root or a device, if there are two in the list.   *)
P2pTest ==
  /\ init
  /\ \E k \in 0..ListCount :
       /\ k # 0 => ListCount > 1
       /\ k = 0 => scale # 0
       /\ Send([NoPacket EXCEPT !.kind = "p2p", !.to = {IF k = 0 THEN root ELSE At(k - 1)}])

McastTest ==
  /\ init /\ scale # 0
  /\ \E room \in Rooms : Send([kind |-> "mcast", to |-> {}, options |-> McastOptions(room),
                               unused |-> Unused(room), room |-> room])

JsonNext ==
  \/ Next /\ packet' = NoPacket
  \/ BcastTest \/ P2pTest \/ McastTest

JsonSpec == JsonInit /\ [][JsonNext]_jsonVars

-----------------------------------------------------------------------------
(* A single packet goes to the root or to a device of the list.  A group   *)
(* has all listed devices that fit, each once, and the root, in options    *)
(* that fit and use the length announced: whatever the number of devices,  *)
(* unless it is a multiple of PerOp, root included (mesh_json.c:183-273).  *)
PacketReaches ==
  LET group == UNION {{packet.options[i][j] : j \in DOMAIN packet.options[i]} :
                      i \in DOMAIN packet.options}
      named == {list[k] : k \in 0..(DevCount(packet.room) - 2)}
  IN /\ packet.kind = "p2p" => \A m \in packet.to : m = root \/ Listed(m)
     /\ packet.kind = "mcast" =>
          /\ Len(packet.options) <= packet.room
          /\ \A i \in DOMAIN packet.options : Len(packet.options[i]) <= PerOp
          /\ named \subseteq group
          /\ RestCount(packet.room) # 0 => group = named \cup {root} /\ packet.unused = 0
=============================================================================
