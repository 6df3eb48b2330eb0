----------------------------- MODULE MeshDevice -----------------------------
(***************************************************************************)
(* The table of mesh devices of src/mesh_demo/demo/mesh_device.c: g_node_  *)
(* list, a root and a growing array of the other devices, and the two ways *)
(* it is filled from (mesh_none.c): a topology response handled by         *)
(* mesh_none_proto_parser, which adds the devices of one option after      *)
(* another, and mesh_topo_test on the root device, which adds all devices  *)
(* at once.  Both call mesh_device_set_root first.  All of it runs in one  *)
(* task; the loops are modelled iteration by iteration.  Operators named   *)
(* Mut... are plausible mistakes in the operator that follows them.        *)
(***************************************************************************)
EXTENDS Integers, Sequences

CONSTANTS
  Macs,        \* MAC addresses of devices
  NoMac,       \* six bytes of zero
  Step,        \* MESH_DEV_STEP (10)
  MaxBatch,    \* bound: devices of one option, or that the root knows
  UseDel,      \* mesh_device_del is called (nothing in src/ does)
  LowHeap      \* os_zalloc may fail

ASSUME MeshDeviceAssumption ==
  /\ NoMac \notin Macs /\ Step \in Nat \ {0} /\ MaxBatch \in Nat
  /\ UseDel \in BOOLEAN /\ LowHeap \in BOOLEAN

VARIABLES
  init,   \* g_mesh_device_init
  root, scale, size,
  list,   \* the array by index; an index beyond the allocated ones is a
          \* write outside of it
  pc,     \* the function that runs: adding, deleting, between two options
  batch,  \* its parameter nodes, and idx its counter
  idx

table == <<init, root, scale, size, list>>
vars == <<table, pc, batch, idx>>

Batches == UNION {[1..n -> Macs] : n \in 0..MaxBatch}

Init ==
  /\ init = FALSE /\ root = NoMac /\ scale = 0 /\ size = 0 /\ list = <<>>
  /\ pc = "idle" /\ batch = <<>> /\ idx = 0

Entries == 0..(scale - 2)
Listed(m) == \E k \in Entries : list[k] = m

(* mesh_search_device: list is NULL exactly when size is 0.                *)
MutKnown(m) == scale # 0 /\ size # 0 /\ Listed(m)
Known(m) == scale # 0 /\ (m = root \/ (size # 0 /\ Listed(m)))

(* mesh_device_list_release frees the array and clears g_node_list.        *)
Release(newRoot, newScale) ==
  root' = newRoot /\ scale' = newScale /\ size' = 0 /\ list' = <<>>

MutSetRoot(r) ==
  /\ init' = TRUE
  /\ root' = r /\ scale' = IF scale = 0 THEN 1 ELSE scale
  /\ UNCHANGED <<size, list>>
SetRoot(r) ==
  /\ init' = TRUE
  /\ \/ scale = 0 /\ root' = r /\ scale' = 1 /\ UNCHANGED <<size, list>>
     \/ scale # 0 /\ r = root /\ UNCHANGED <<root, scale, size, list>>
     \/ scale # 0 /\ r # root /\ Release(r, 1)

(* A topology packet, or the timer on the root device, names the root.     *)
Topology(r) ==
  /\ pc = "idle"
  /\ SetRoot(r)
  /\ pc' = "options"
  /\ UNCHANGED <<batch, idx>>

(* mesh_device_add(nodes, count), up to its loop.                          *)
MutRest == IF size = 0 THEN 0 ELSE size + 2 - scale
Rest == IF size = 0 THEN 0 ELSE size + 1 - scale

MutGrow(n) ==
  /\ size' = n
  /\ list' = [k \in 0..(n - 1) |-> IF k \in Entries THEN list[k] ELSE "garbage"]
Grow(n) ==
  /\ size' = n
  /\ list' = [k \in 0..(n - 1) |-> IF k \in Entries THEN list[k] ELSE NoMac]

NewSize == size + Rest + Step

AddBegin(nodes) ==
  /\ pc = "options"
  /\ batch' = nodes /\ idx' = 0
  /\ \/ /\ Rest < Len(nodes)
        /\ \/ Grow(NewSize) /\ pc' = "add"
           \/ LowHeap /\ UNCHANGED <<size, list, pc>>
     \/ /\ Rest >= Len(nodes)
        /\ pc' = "add" /\ UNCHANGED <<size, list>>
  /\ UNCHANGED <<init, root, scale>>

Write(k, m) == [j \in DOMAIN list \cup {k} |-> IF j = k THEN m ELSE list[j]]

MutAppendMac(m) == list' = Write(scale, m) /\ scale' = scale + 1
AppendMac(m) == list' = Write(scale - 1, m) /\ scale' = scale + 1

AddNext ==
  /\ pc = "add" /\ idx < Len(batch)
  /\ IF Known(batch[idx + 1]) THEN UNCHANGED <<list, scale>>
                              ELSE AppendMac(batch[idx + 1])
  /\ idx' = idx + 1
  /\ UNCHANGED <<init, root, size, pc, batch>>

AddEnd ==
  /\ pc = "add" /\ idx = Len(batch)
  /\ pc' = "options"
  /\ UNCHANGED <<table, batch, idx>>

NoMoreOptions ==
  /\ pc = "options"
  /\ pc' = "idle"
  /\ UNCHANGED <<table, batch, idx>>

(* mesh_device_del(nodes, count) on a table with a root.                   *)
DelBegin(nodes) ==
  /\ UseDel /\ pc = "idle" /\ scale # 0 /\ nodes # <<>>
  /\ pc' = "del" /\ batch' = nodes /\ idx' = 0
  /\ UNCHANGED table

(* The entries behind the k-th move down; the entry then cleared is the    *)
(* one after the gap, and for a full list that lies outside of the array.  *)
MutTakeOut(k) ==
  /\ scale' = scale - 1
  /\ list' = [j \in DOMAIN list \cup {scale - 1} |->
                CASE j = scale - 1 -> NoMac
                  [] j \in k..(scale - 4) -> list[j + 1]
                  [] OTHER -> list[j]]
TakeOut(k) ==
  /\ scale' = scale - 1
  /\ list' = [j \in DOMAIN list \cup {scale - 1} |->
                CASE j = scale - 1 -> NoMac
                  [] j \in k..(scale - 3) -> list[j + 1]
                  [] OTHER -> list[j]]

DelNext ==
  LET m == batch[idx + 1]
  IN /\ pc = "del" /\ idx < Len(batch)
     /\ \/ /\ ~Known(m)
           /\ idx' = idx + 1 /\ UNCHANGED <<root, scale, size, list, pc>>
        \/ /\ Known(m) /\ m = root
           /\ Release(NoMac, 0)
           /\ pc' = "idle" /\ UNCHANGED idx
        \/ /\ Known(m) /\ m # root
           /\ \E k \in Entries : /\ list[k] = m
                                 /\ \A j \in 0..(k - 1) : list[j] # m
                                 /\ TakeOut(k)
           /\ idx' = idx + 1 /\ UNCHANGED <<root, size, pc>>
     /\ UNCHANGED <<init, batch>>

DelEnd ==
  /\ pc = "del" /\ idx = Len(batch)
  /\ pc' = "idle"
  /\ UNCHANGED <<table, batch, idx>>

Next ==
  \/ \E r \in Macs : Topology(r)
  \/ \E nodes \in Batches : AddBegin(nodes) \/ DelBegin(nodes)
  \/ AddNext \/ AddEnd \/ NoMoreOptions \/ DelNext \/ DelEnd

Spec == Init /\ [][Next]_vars

-----------------------------------------------------------------------------
TypeOK ==
  /\ init \in BOOLEAN /\ root \in Macs \cup {NoMac}
  /\ scale \in Nat /\ size \in Nat
  /\ DOMAIN list \subseteq Nat /\ \A k \in DOMAIN list : list[k] \in Macs \cup {NoMac}
  /\ pc \in {"idle", "options", "add", "del"}
  /\ batch \in Seq(Macs) /\ idx \in 0..Len(batch)

(* No device is listed twice, and the root is not listed, however often    *)
(* options repeat devices and the root changes to a device of the list:    *)
(* scale is the number of devices.                                         *)
NoDuplicates ==
  /\ scale # 0 => ~Listed(root)
  /\ \A j \in Entries, k \in Entries : list[j] = list[k] => j = k

(* The devices mesh_device_add has appended lie inside the array that was  *)
(* allocated for them ("current list is limited / we need to re-allocate   *)
(* buffer for mac list", mesh_device.c:174-175).                           *)
WritesInside == Entries \subseteq 0..(size - 1)

(* When mesh_device_add returns true, mesh_search_device finds all nodes.  *)
AllAdded ==
  [][pc = "add" /\ pc' = "options" => \A k \in 1..Len(batch) : Known(batch[k])']_vars

(* The table is a set of devices with a root.                              *)
Set == INSTANCE DeviceSet WITH
         root <- IF scale = 0 THEN NoMac ELSE root,
         members <- {list[k] : k \in Entries}
IsDeviceSet == Set!Spec
=============================================================================
