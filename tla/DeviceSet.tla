----------------------------- MODULE DeviceSet -----------------------------
(***************************************************************************)
(* What mesh_device.c promises: a set of mesh devices with a root.  The    *)
(* set is empty while there is no root, never contains the root and starts *)
(* anew with every other root.                                             *)
(***************************************************************************)
CONSTANTS Macs, NoMac

VARIABLES root, members

Init == root = NoMac /\ members = {}

SetRoot(r) == root' = r /\ members' = IF root = r THEN members ELSE {}

Insert(m) == root # NoMac /\ members' = members \cup ({m} \ {root}) /\ UNCHANGED root

Remove(m) ==
  \/ m # root /\ members' = members \ {m} /\ UNCHANGED root
  \/ m = root /\ members' = {} /\ root' = NoMac

Next == \E m \in Macs : SetRoot(m) \/ Insert(m) \/ Remove(m)

Spec == Init /\ [][Next]_<<root, members>>
=============================================================================
