-------------------------- MODULE MeshDeviceProofs --------------------------
(***************************************************************************)
(* Proofs about MeshDevice and, at the end, the test packets of MeshJson   *)
(* that read its table.  mesh_device_add may write outside of its array    *)
(* when an option is longer than MESH_DEV_STEP (NewSize is wrong); what    *)
(* memory holds then is nobody's promise.  So the theorems are about every *)
(* behaviour that has no such write, []WritesInside, with options of any   *)
(* length; and InsideTheArray says when there is none: Fits, for options   *)
(* of at most Step devices.                                                *)
(***************************************************************************)
EXTENDS MeshJson, SequenceTheorems, TLAPS

Room ==
  /\ scale # 0 => scale - 1 <= size
  /\ scale = 0 => size = 0
  /\ scale # 0 => root \in Macs
  /\ 0..(size - 1) \subseteq DOMAIN list
  /\ pc # "idle" => scale # 0
  /\ pc = "del" => UseDel

(* The free part of the array holds every node still to be looked at.      *)
Fits == pc = "add" => (scale - 1) + (Len(batch) - idx) <= size

Processed == pc = "add" => \A k \in 1..idx : Known(batch[k])

Inv == TypeOK /\ Room /\ NoDuplicates /\ Processed

(* What the loop of mesh_device_add needs of the code before it.           *)
LEMMA RestFits ==
  ASSUME TypeOK, Room, pc = "options"
  PROVE  /\ Rest \in Nat /\ NewSize \in Nat /\ NewSize > size
         /\ \A n \in 0..MaxBatch :
              /\ Rest >= n => (scale - 1) + n <= size
              /\ MaxBatch <= Step /\ Rest < n => (scale - 1) + n <= NewSize
BY MeshDeviceAssumption DEF TypeOK, Room, Rest, NewSize

LEMMA InitInv == Init => Inv
<1> SUFFICES ASSUME Init PROVE Inv
  OBVIOUS
<1>1. TypeOK
  <2>1. init \in BOOLEAN
    BY DEF Init
  <2>2. root \in Macs \cup {NoMac} /\ scale \in Nat /\ size \in Nat
        /\ pc \in {"idle", "options", "add", "del"}
    BY DEF Init
  <2>3. batch \in Seq(Macs) /\ idx \in 0..Len(batch)
    BY DEF Init
  <2>4. DOMAIN list = {}
    BY DEF Init
  <2> QED BY <2>1, <2>2, <2>3, <2>4 DEF TypeOK
<1>2. Room
  BY DEF Init, Room
<1>3. NoDuplicates /\ Processed
  BY DEF Init, NoDuplicates, Processed, Listed, Entries
<1> QED BY <1>1, <1>2, <1>3 DEF Inv

LEMMA TopologyStep == ASSUME Inv, NEW r \in Macs, Topology(r) PROVE Inv'
<1>1. batch' = batch /\ idx' = idx /\ pc' = "options" /\ init' = TRUE
  BY DEF Topology, SetRoot
<1>2. CASE scale # 0 /\ r = root /\ UNCHANGED <<root, scale, size, list>>
  BY <1>1, <1>2 DEF Inv, TypeOK, Room, NoDuplicates, Processed, Listed, Entries
<1>3. CASE \/ scale = 0 /\ root' = r /\ scale' = 1 /\ UNCHANGED <<size, list>>
           \/ scale # 0 /\ r # root /\ Release(r, 1)
  <2>1. root' = r /\ scale' = 1 /\ size' = 0
    BY <1>3 DEF Release, Inv, Room
  <2>2. DOMAIN list' \subseteq DOMAIN list /\ (list' = list \/ list' = <<>>)
        /\ (scale # 0 => list' = <<>>)
    BY <1>3 DEF Release
  <2>3. TypeOK'
    BY <1>1, <2>1, <2>2 DEF Inv, TypeOK
  <2>4. Room'
    BY <1>1, <2>1, <2>2 DEF Inv, Room
  <2>5. NoDuplicates' /\ Processed'
    BY <1>1, <2>1 DEF NoDuplicates, Processed, Listed, Entries
  <2> QED BY <2>3, <2>4, <2>5 DEF Inv
<1> QED BY <1>2, <1>3 DEF Topology, SetRoot

LEMMA AddBeginStep ==
  ASSUME Inv, NEW nodes \in Batches, AddBegin(nodes)
  PROVE  Inv'
<1> USE MeshDeviceAssumption
<1>1. nodes \in Seq(Macs) /\ Len(nodes) \in 0..MaxBatch
  BY DEF Batches
<1>2. pc = "options" /\ batch' = nodes /\ idx' = 0 /\ UNCHANGED <<init, root, scale>>
  BY DEF AddBegin
<1>3. Rest \in Nat /\ NewSize \in Nat /\ NewSize > size
  BY <1>2, RestFits DEF Inv
<1>4. scale \in Nat /\ scale # 0 /\ size \in Nat /\ scale - 1 <= size
  BY <1>2 DEF Inv, TypeOK, Room
<1>5. CASE UNCHANGED <<size, list>> /\ pc' \in {"options", "add"}
  <2>1. TypeOK'
    BY <1>1, <1>2, <1>5 DEF Inv, TypeOK
  <2>2. Room'
    BY <1>1, <1>2, <1>3, <1>4, <1>5 DEF Inv, Room
  <2>3. NoDuplicates' /\ Processed'
    BY <1>2, <1>5 DEF Inv, NoDuplicates, Processed, Listed, Entries
  <2> QED BY <2>1, <2>2, <2>3 DEF Inv
<1>6. CASE Rest < Len(nodes) /\ Grow(NewSize) /\ pc' = "add"
  <2>1. size' = NewSize /\ DOMAIN list' = 0..(size' - 1)
        /\ \A k \in DOMAIN list' : list'[k] = IF k \in Entries THEN list[k] ELSE NoMac
    BY <1>6 DEF Grow
  <2>2. Entries \subseteq DOMAIN list /\ Entries \subseteq DOMAIN list'
    BY <1>3, <1>4, <2>1 DEF Inv, Room, Entries
  <2>3. \A k \in DOMAIN list' : list'[k] \in Macs \cup {NoMac}
    BY <2>1, <2>2 DEF Inv, TypeOK
  <2>4. TypeOK'
    BY <1>1, <1>2, <1>3, <1>6, <2>1, <2>3 DEF Inv, TypeOK
  <2>5. Room'
    BY <1>1, <1>2, <1>3, <1>4, <1>6, <2>1 DEF Inv, Room
  <2>6. Entries' = Entries /\ \A k \in Entries : list'[k] = list[k]
    BY <1>2, <2>1, <2>2 DEF Entries
  <2>7. NoDuplicates'
    BY <1>2, <2>6 DEF Inv, NoDuplicates, Listed
  <2>8. Processed'
    BY <1>2 DEF Processed
  <2> QED BY <2>4, <2>5, <2>7, <2>8 DEF Inv
<1> QED BY <1>2, <1>5, <1>6 DEF AddBegin

(* Appending a device that is not known: it goes to a free place of the    *)
(* array and leaves the others where they are.                             *)
LEMMA AppendFacts ==
  ASSUME TypeOK, Room, pc = "add", NEW m \in Macs, AppendMac(m),
         UNCHANGED size, WritesInside'
  PROVE  /\ scale' = scale + 1 /\ scale - 1 \in 0..(size - 1)
         /\ scale - 1 \notin Entries
         /\ DOMAIN list' = DOMAIN list
         /\ list'[scale - 1] = m
         /\ \A k \in DOMAIN list : k # scale - 1 => list'[k] = list[k]
         /\ Entries \subseteq DOMAIN list
         /\ Entries' = Entries \cup {scale - 1}
<1>1. scale \in Nat \ {0} /\ size \in Nat /\ 0..(size - 1) \subseteq DOMAIN list
  BY DEF TypeOK, Room
<1>2. scale - 1 \in 0..(size - 1)
  <2>1. Entries' = 0..(scale - 1) /\ Entries' \subseteq 0..(size - 1)
    BY <1>1 DEF AppendMac, Entries, WritesInside
  <2> QED BY <1>1, <2>1
<1>3. scale' = scale + 1 /\ list' = [j \in DOMAIN list \cup {scale - 1} |->
                                       IF j = scale - 1 THEN m ELSE list[j]]
  BY DEF AppendMac, Write
<1>4. DOMAIN list \cup {scale - 1} = DOMAIN list
  BY <1>1, <1>2
<1>5. Entries \subseteq DOMAIN list /\ Entries' = Entries \cup {scale - 1}
      /\ scale - 1 \notin Entries
  BY <1>1, <1>2, <1>3 DEF Entries
<1> QED BY <1>2, <1>3, <1>4, <1>5

LEMMA AddNextStep == ASSUME Inv, AddNext, WritesInside' PROVE Inv'
<1>1. /\ pc = "add" /\ idx < Len(batch) /\ idx' = idx + 1
      /\ UNCHANGED <<init, root, size, pc, batch>>
  BY DEF AddNext
<1>2. /\ batch \in Seq(Macs) /\ idx \in Nat /\ Len(batch) \in Nat
      /\ scale \in Nat \ {0} /\ size \in Nat
  BY <1>1 DEF Inv, TypeOK, Room
<1>3. idx' \in 0..Len(batch)
  BY <1>1, <1>2
<1>m. PICK m \in Macs : m = batch[idx + 1]
  BY <1>1, <1>2
<1>4. CASE Known(m) /\ UNCHANGED <<list, scale>>
  <2>1. TypeOK' /\ Room'
    BY <1>1, <1>2, <1>3, <1>4 DEF Inv, TypeOK, Room
  <2>2. NoDuplicates'
    BY <1>1, <1>4 DEF Inv, NoDuplicates, Listed, Entries
  <2>3. \A d : Known(d)' = Known(d)
    BY <1>1, <1>4 DEF Known, Listed, Entries
  <2>4. Processed'
    <3>1. ASSUME NEW k \in 1..idx' PROVE Known(batch[k])
      BY <1>1, <1>2, <1>m, <1>4 DEF Inv, Processed
    <3> QED BY <1>1, <2>3, <3>1 DEF Processed
  <2> QED BY <2>1, <2>2, <2>4 DEF Inv
<1>5. CASE ~Known(m) /\ AppendMac(m)
  <2>1. /\ scale' = scale + 1 /\ scale - 1 \in 0..(size - 1)
        /\ scale - 1 \notin Entries
        /\ DOMAIN list' = DOMAIN list
        /\ list'[scale - 1] = m
        /\ \A k \in DOMAIN list : k # scale - 1 => list'[k] = list[k]
        /\ Entries \subseteq DOMAIN list
        /\ Entries' = Entries \cup {scale - 1}
    BY <1>1, <1>3, <1>5, AppendFacts DEF Inv
  <2>2. \A k \in DOMAIN list' : list'[k] \in Macs \cup {NoMac}
    BY <1>3, <2>1 DEF Inv, TypeOK
  <2>3. TypeOK'
    BY <1>1, <1>2, <1>3, <2>1, <2>2 DEF Inv, TypeOK
  <2>4. Room'
    BY <1>1, <1>2, <2>1 DEF Inv, Room
  <2>5. \A k \in Entries : list'[k] = list[k]
    BY <2>1
  <2>6. m # root /\ \A k \in Entries : list[k] # m
    BY <1>2, <1>5, <2>1 DEF Known, Listed
  <2>7. NoDuplicates'
    <3>1. ~Listed(root)'
      BY <1>1, <1>2, <2>1, <2>5, <2>6 DEF Inv, NoDuplicates, Listed
    <3>2. ASSUME NEW j \in Entries', NEW k \in Entries', list'[j] = list'[k]
          PROVE  j = k
      <4>1. CASE j \in Entries /\ k \in Entries
        BY <3>2, <4>1, <2>5 DEF Inv, NoDuplicates
      <4>2. CASE j = scale - 1 /\ k = scale - 1
        BY <4>2
      <4>3. CASE j \in Entries /\ k = scale - 1
        BY <3>2, <4>3, <2>1, <2>5, <2>6
      <4>4. CASE j = scale - 1 /\ k \in Entries
        BY <3>2, <4>4, <2>1, <2>5, <2>6
      <4> QED BY <2>1, <4>1, <4>2, <4>3, <4>4
    <3> QED BY <3>1, <3>2 DEF NoDuplicates
  <2>8. \A d : Listed(d) => Listed(d)'
    BY <2>1, <2>5 DEF Listed
  <2>9. \A d : Known(d) => Known(d)'
    BY <1>1, <1>2, <2>1, <2>8 DEF Known
  <2>10. Known(m)'
    <3>1. Listed(m)' /\ scale' # 0 /\ size' # 0
      BY <1>1, <1>2, <2>1 DEF Listed
    <3> QED BY <3>1 DEF Known
  <2>11. Processed'
    <3>1. ASSUME NEW k \in 1..idx' PROVE Known(batch[k])'
      <4>1. CASE k = idx + 1
        BY <1>1, <1>m, <4>1, <2>10
      <4>2. CASE k \in 1..idx
        BY <1>1, <4>2, <2>9 DEF Inv, Processed
      <4> QED BY <1>1, <1>2, <4>1, <4>2
    <3> QED BY <1>1, <3>1 DEF Processed
  <2> QED BY <2>3, <2>4, <2>7, <2>11 DEF Inv
<1> QED BY <1>4, <1>5, <1>m DEF AddNext
-----------------------------------------------------------------------------
(* Taking out entry k: the entries behind it move down.                    *)
LEMMA TakeOutFacts ==
  ASSUME TypeOK, Room, scale # 0, NEW k \in Entries, TakeOut(k)
  PROVE  /\ scale' = scale - 1 /\ Entries' = 0..(scale - 3)
         /\ DOMAIN list' = DOMAIN list \cup {scale - 1}
         /\ \A j \in Entries' : /\ j < k => list'[j] = list[j]
                                /\ j >= k => list'[j] = list[j + 1]
         /\ Entries \subseteq DOMAIN list
<1>1. scale \in Nat \ {0} /\ size \in Nat /\ scale - 1 <= size
      /\ 0..(size - 1) \subseteq DOMAIN list /\ k \in 0..(scale - 2)
  BY DEF TypeOK, Room, Entries
<1>2. scale' = scale - 1 /\ Entries' = 0..(scale - 3) /\ Entries \subseteq DOMAIN list
  BY <1>1 DEF TakeOut, Entries
<1>3. list' = [j \in DOMAIN list \cup {scale - 1} |->
                CASE j = scale - 1 -> NoMac
                  [] j \in k..(scale - 3) -> list[j + 1]
                  [] OTHER -> list[j]]
  BY DEF TakeOut
<1>4. ASSUME NEW j \in 0..(scale - 3)
      PROVE  (j < k => list'[j] = list[j]) /\ (j >= k => list'[j] = list[j + 1])
  <2>1. j \in DOMAIN list /\ j # scale - 1
    BY <1>1
  <2>2. CASE j < k
    BY <1>1, <1>3, <2>1, <2>2
  <2>3. CASE j >= k
    BY <1>1, <1>3, <2>1, <2>3
  <2> QED BY <1>1, <2>2, <2>3
<1> QED BY <1>2, <1>3, <1>4

LEMMA DelNextStep == ASSUME Inv, DelNext PROVE Inv'
<1>1. /\ pc = "del" /\ idx < Len(batch) /\ UseDel /\ scale # 0
      /\ UNCHANGED <<init, batch>>
      /\ batch \in Seq(Macs) /\ idx \in Nat /\ Len(batch) \in Nat
      /\ scale \in Nat \ {0} /\ size \in Nat
  BY DEF DelNext, Inv, TypeOK, Room
<1>2. CASE idx' = idx + 1 /\ UNCHANGED <<root, scale, size, list, pc>>
  <2>1. TypeOK'
    BY <1>1, <1>2 DEF Inv, TypeOK
  <2>2. Room'
    BY <1>1, <1>2 DEF Inv, Room
  <2>3. NoDuplicates' /\ Processed'
    BY <1>1, <1>2 DEF Inv, NoDuplicates, Listed, Entries, Processed
  <2> QED BY <2>1, <2>2, <2>3 DEF Inv
<1>3. CASE Release(NoMac, 0) /\ pc' = "idle" /\ UNCHANGED idx
  <2>1. root' = NoMac /\ scale' = 0 /\ size' = 0 /\ DOMAIN list' = {}
    BY <1>3 DEF Release
  <2>2. TypeOK'
    BY <1>1, <1>3, <2>1 DEF Inv, TypeOK
  <2>3. Room' /\ NoDuplicates' /\ Processed'
    BY <1>3, <2>1 DEF Room, NoDuplicates, Listed, Entries, Processed
  <2> QED BY <2>2, <2>3 DEF Inv
<1>4. ASSUME NEW k \in Entries, TakeOut(k), idx' = idx + 1, UNCHANGED <<root, size, pc>>
      PROVE  Inv'
  <2>1. /\ scale' = scale - 1 /\ Entries' = 0..(scale - 3)
        /\ DOMAIN list' = DOMAIN list \cup {scale - 1}
        /\ \A j \in Entries' : /\ j < k => list'[j] = list[j]
                               /\ j >= k => list'[j] = list[j + 1]
        /\ Entries \subseteq DOMAIN list
    BY <1>1, <1>4, TakeOutFacts DEF Inv
  <2>2. k \in 0..(scale - 2) /\ Entries = 0..(scale - 2)
    BY <1>4 DEF Entries
  <2>8. \A j \in Entries' : /\ j \in Nat
                            /\ j < k => j \in Entries /\ list'[j] = list[j]
                            /\ j >= k => j + 1 \in Entries /\ list'[j] = list[j + 1]
    <3>1. ASSUME NEW j \in Entries'
          PROVE  /\ j \in Nat
                 /\ j < k => j \in Entries /\ list'[j] = list[j]
                 /\ j >= k => j + 1 \in Entries /\ list'[j] = list[j + 1]
      <4>1. j \in 0..(scale - 3)
        BY <2>1
      <4>2. j \in Nat /\ j \in Entries /\ j + 1 \in Entries
        BY <1>1, <2>2, <4>1
      <4>3. j < k => list'[j] = list[j]
        BY <2>1
      <4>4. j >= k => list'[j] = list[j + 1]
        BY <2>1
      <4> QED BY <4>2, <4>3, <4>4
    <3> QED BY <3>1
  <2>3. \A j \in DOMAIN list' : list'[j] \in Macs \cup {NoMac}
    <3>1. \A j \in DOMAIN list : list[j] \in Macs \cup {NoMac}
      BY DEF Inv, TypeOK
    <3>2. ASSUME NEW j \in DOMAIN list' PROVE list'[j] \in Macs \cup {NoMac}
      <4>1. list'[j] = CASE j = scale - 1 -> NoMac
                         [] j \in k..(scale - 3) -> list[j + 1]
                         [] OTHER -> list[j]
        BY <1>4, <2>1 DEF TakeOut
      <4>2. j \in k..(scale - 3) => j + 1 \in DOMAIN list
        <5>1. j \in k..(scale - 3) => j + 1 \in Entries
          BY <1>1, <2>2
        <5> QED BY <2>1, <5>1
      <4>3. CASE j = scale - 1
        BY <1>1, <2>2, <4>1, <4>3
      <4>4. CASE j # scale - 1 /\ j \in k..(scale - 3)
        BY <3>1, <4>1, <4>2, <4>4
      <4>5. CASE j # scale - 1 /\ j \notin k..(scale - 3)
        BY <2>1, <3>1, <4>1, <4>5
      <4> QED BY <4>3, <4>4, <4>5
    <3> QED BY <3>2
  <2>4. TypeOK'
    BY <1>1, <1>4, <2>1, <2>2, <2>3 DEF Inv, TypeOK
  <2>5. Room'
    BY <1>1, <1>4, <2>1, <2>2 DEF Inv, Room
  <2>6. NoDuplicates'
    <3>1. ~Listed(root)'
      <4>1. \A j \in Entries : list[j] # root
        BY <1>1 DEF Inv, NoDuplicates, Listed
      <4>2. \A j \in Entries' : list'[j] # root
        BY <2>2, <2>8, <4>1
      <4> QED BY <1>4, <4>2 DEF Listed
    <3>2. ASSUME NEW j \in Entries', NEW l \in Entries', list'[j] = list'[l]
          PROVE  j = l
      <4>1. \A a \in Entries, b \in Entries : list[a] = list[b] => a = b
        BY DEF Inv, NoDuplicates
      <4>2. j \in Nat /\ l \in Nat /\ k \in Nat
        BY <2>2, <2>8
      <4>3. CASE j < k /\ l < k
        BY <2>8, <3>2, <4>1, <4>2, <4>3
      <4>4. CASE j >= k /\ l >= k
        BY <2>8, <3>2, <4>1, <4>2, <4>4
      <4>5. CASE j < k /\ l >= k
        BY <2>8, <3>2, <4>1, <4>2, <4>5
      <4>6. CASE j >= k /\ l < k
        BY <2>8, <3>2, <4>1, <4>2, <4>6
      <4> QED BY <4>2, <4>3, <4>4, <4>5, <4>6
    <3> QED BY <3>1, <3>2 DEF NoDuplicates
  <2>7. Processed'
    BY <1>1, <1>4 DEF Processed
  <2> QED BY <2>4, <2>5, <2>6, <2>7 DEF Inv
<1> QED BY <1>2, <1>3, <1>4 DEF DelNext

THEOREM InvStep == ASSUME Inv, [Next]_vars, WritesInside' PROVE Inv'
<1>1. CASE \E r \in Macs : Topology(r)
  BY <1>1, TopologyStep
<1>2. CASE \E nodes \in Batches : AddBegin(nodes)
  BY <1>2, AddBeginStep
<1>3. CASE \E nodes \in Batches : DelBegin(nodes)
  <2>1. PICK nodes \in Seq(Macs) : DelBegin(nodes)
    BY <1>3 DEF Batches
  <2>2. /\ pc' = "del" /\ batch' = nodes /\ idx' = 0 /\ UseDel /\ scale # 0
        /\ UNCHANGED <<init, root, scale, size, list>>
    BY <2>1 DEF DelBegin, table
  <2>3. TypeOK'
    BY <2>1, <2>2 DEF Inv, TypeOK
  <2>4. Room' /\ NoDuplicates' /\ Processed'
    BY <2>2 DEF Inv, Room, NoDuplicates, Listed, Entries, Processed
  <2> QED BY <2>3, <2>4 DEF Inv
<1>4. CASE AddNext
  BY <1>4, AddNextStep
<1>5. CASE DelNext
  BY <1>5, DelNextStep
<1>6. CASE AddEnd \/ NoMoreOptions \/ DelEnd \/ UNCHANGED vars
  <2>1. UNCHANGED <<init, root, scale, size, list, batch, idx>>
        /\ pc' \in {"options", "idle", pc} /\ (pc' = "options" => pc # "idle" \/ pc' = pc)
    BY <1>6 DEF AddEnd, NoMoreOptions, DelEnd, vars, table
  <2>2. TypeOK'
    BY <2>1 DEF Inv, TypeOK
  <2>3. Room' /\ NoDuplicates' /\ Processed'
    BY <2>1 DEF Inv, Room, NoDuplicates, Listed, Entries, Processed, Known
  <2> QED BY <2>2, <2>3 DEF Inv
<1> QED BY <1>1, <1>2, <1>3, <1>4, <1>5, <1>6 DEF Next

LEMMA Invariant == Spec /\ []WritesInside => []Inv
<1>1. Inv /\ [Next]_vars /\ WritesInside' => Inv'
  BY InvStep
<1> QED BY InitInv, <1>1, PTL DEF Spec

(* As long as every write lies inside the array, with options of any       *)
(* length: whatever topology packets say, with repeated devices, changing  *)
(* roots, allocations that fail, and when mesh_device_del is used too, no  *)
(* device is listed twice (mesh_device.c:156-263).                         *)
THEOREM ListedOnce == Spec /\ []WritesInside => []NoDuplicates
<1>1. Inv => NoDuplicates
  BY DEF Inv
<1> QED BY Invariant, <1>1, PTL

LEMMA Inside ==
  ASSUME NEW n \in Nat, NEW k \in Nat, n # 0 => n - 1 <= k
  PROVE  0..(n - 2) \subseteq 0..(k - 1)
OBVIOUS

(* Options of at most Step devices: the room found, or made, is enough,    *)
(* and every append takes one of the places counted.                       *)
LEMMA FitsStep ==
  ASSUME MaxBatch <= Step, Inv, Fits, [Next]_vars
  PROVE  WritesInside' /\ Fits'
<1> USE MeshDeviceAssumption
<1>1. /\ scale \in Nat /\ size \in Nat /\ idx \in Nat /\ Len(batch) \in Nat
      /\ (scale # 0 => scale - 1 <= size) /\ (scale = 0 => size = 0)
      /\ (pc # "idle" => scale # 0)
  BY DEF Inv, TypeOK, Room
<1>2. ASSUME NEW r \in Macs, Topology(r) PROVE WritesInside' /\ Fits'
  <2>1. pc' = "options" /\ scale' \in Nat /\ size' \in Nat
        /\ (scale' # 0 => scale' - 1 <= size')
    BY <1>1, <1>2 DEF Topology, SetRoot, Release
  <2> QED BY <2>1, Inside DEF WritesInside, Fits, Entries
<1>3. ASSUME NEW nodes \in Batches, AddBegin(nodes) PROVE WritesInside' /\ Fits'
  <2>1. pc = "options" /\ batch' = nodes /\ idx' = 0 /\ scale' = scale
    BY <1>3 DEF AddBegin
  <2>2. Len(nodes) \in 0..MaxBatch
    BY DEF Batches
  <2>3. /\ Rest \in Nat /\ NewSize \in Nat /\ NewSize > size
        /\ Rest >= Len(nodes) => (scale - 1) + Len(nodes) <= size
        /\ Rest < Len(nodes) => (scale - 1) + Len(nodes) <= NewSize
    BY <2>1, <2>2, RestFits DEF Inv
  <2>4. \/ size' = NewSize /\ Rest < Len(nodes)
        \/ size' = size /\ (pc' = "add" => Rest >= Len(nodes))
    BY <1>3, <2>1 DEF AddBegin, Grow
  <2> QED BY <1>1, <2>1, <2>2, <2>3, <2>4 DEF WritesInside, Fits, Entries
<1>4. CASE AddNext
  <2>1. /\ pc = "add" /\ pc' = "add" /\ idx < Len(batch) /\ idx' = idx + 1
        /\ batch' = batch /\ size' = size /\ scale' \in {scale, scale + 1}
    BY <1>4 DEF AddNext, AppendMac
  <2>2. scale # 0 /\ (scale - 1) + (Len(batch) - idx) <= size /\ scale <= size
    BY <1>1, <2>1 DEF Fits
  <2>3. scale' \in Nat /\ size' \in Nat /\ scale' - 1 <= size'
    <3>1. CASE scale' = scale
      BY <1>1, <2>1, <2>2, <3>1
    <3>2. CASE scale' = scale + 1
      BY <1>1, <2>1, <2>2, <3>2
    <3> QED BY <2>1, <3>1, <3>2
  <2>4. (scale' - 1) + (Len(batch') - idx') <= size'
    BY <1>1, <2>1, <2>2
  <2>5. Entries' \subseteq 0..(size' - 1)
    <3>1. 0..(scale' - 2) \subseteq 0..(size' - 1)
      BY <2>3, Inside
    <3> QED BY <3>1 DEF Entries
  <2> QED BY <2>4, <2>5 DEF WritesInside, Fits
<1>5. CASE DelNext
  <2>1. pc = "del" /\ pc' \in {"del", "idle"}
    BY <1>5 DEF DelNext
  <2>2. \/ scale' = scale /\ size' = size
        \/ scale' = 0 /\ size' = 0
        \/ scale' = scale - 1 /\ size' = size
    BY <1>5 DEF DelNext, Release, TakeOut
  <2> QED BY <1>1, <2>1, <2>2 DEF WritesInside, Fits, Entries
<1>6. CASE (\E nodes \in Batches : DelBegin(nodes)) \/ AddEnd \/ NoMoreOptions \/ DelEnd
  <2>1. pc' # "add" /\ scale' = scale /\ size' = size
    BY <1>6 DEF DelBegin, AddEnd, NoMoreOptions, DelEnd, table
  <2> QED BY <1>1, <2>1 DEF WritesInside, Fits, Entries
<1>7. CASE UNCHANGED vars
  BY <1>1, <1>7 DEF WritesInside, Fits, Entries, vars, table
<1> QED BY <1>2, <1>3, <1>4, <1>5, <1>6, <1>7 DEF Next

LEMMA ShortOptions == ASSUME MaxBatch <= Step PROVE Spec => [](Inv /\ Fits)
<1>1. Init => Fits
  BY DEF Init, Fits
<1>2. Inv /\ Fits /\ [Next]_vars => Inv' /\ Fits'
  BY InvStep, FitsStep
<1> QED BY InitInv, <1>1, <1>2, PTL DEF Spec

(* mesh_device_add never appends outside of its array, if no option has    *)
(* more devices than MESH_DEV_STEP.                                        *)
THEOREM InsideTheArray ==
  ASSUME MaxBatch <= Step
  PROVE  Spec => []WritesInside
<1>1. Inv => WritesInside
  BY DEF Inv, TypeOK, Room, WritesInside, Entries
<1> QED BY ShortOptions, <1>1, PTL

(* With options of at most Step devices every variable keeps its type: the *)
(* array holds addresses or zeros, the counters do not become negative.    *)
THEOREM DeviceTypeCorrect == ASSUME MaxBatch <= Step PROVE Spec => []TypeOK
<1>1. Inv => TypeOK
  BY DEF Inv
<1> QED BY ShortOptions, <1>1, PTL

(* As long as every write lies inside the array, mesh_device_add loses no  *)
(* device of its parameter, however long that is.                          *)
THEOREM AddComplete == Spec /\ []WritesInside => AllAdded
<1>1. ASSUME Inv, [Next]_vars
      PROVE  [pc = "add" /\ pc' = "options" => \A k \in 1..Len(batch) : Known(batch[k])']_vars
  <2> SUFFICES ASSUME Next, pc = "add", pc' = "options"
               PROVE  \A k \in 1..Len(batch) : Known(batch[k])'
    BY <1>1
  <2>1. AddEnd
    BY DEF Next, Topology, AddBegin, DelBegin, AddNext, NoMoreOptions, DelNext, DelEnd
  <2>2. idx = Len(batch) /\ UNCHANGED <<root, scale, size, list, batch>>
    BY <2>1 DEF AddEnd, table
  <2>3. \A d : Known(d)' = Known(d)
    BY <2>2 DEF Known, Listed, Entries
  <2> QED BY <1>1, <2>2, <2>3 DEF Inv, Processed
<1> QED BY Invariant, <1>1, PTL DEF Spec, AllAdded

-----------------------------------------------------------------------------
AbsRoot == IF scale = 0 THEN NoMac ELSE root
Members == {list[k] : k \in Entries}

LEMMA SameMembers ==
  ASSUME UNCHANGED <<root, scale>>, \A k \in Entries : list'[k] = list[k]
  PROVE  UNCHANGED <<AbsRoot, Members>>
<1>1. Entries' = Entries
  BY DEF Entries
<1>2. Members' = Members
  BY <1>1 DEF Members
<1> QED BY <1>2 DEF AbsRoot

LEMMA TopologyAbs ==
  ASSUME Inv, NEW r \in Macs, Topology(r)
  PROVE  Set!SetRoot(r)
<1>1. CASE scale = 0 /\ root' = r /\ scale' = 1
  <2>1. Members' = {} /\ AbsRoot' = r /\ AbsRoot # r
    BY <1>1, MeshDeviceAssumption DEF Members, Entries, AbsRoot
  <2> QED BY <2>1 DEF Set!SetRoot, AbsRoot, Members
<1>2. CASE scale # 0 /\ r = root /\ UNCHANGED <<root, scale, list>>
  <2>1. UNCHANGED <<AbsRoot, Members>>
    BY <1>2, SameMembers
  <2>2. AbsRoot = r
    BY <1>2 DEF AbsRoot
  <2> QED BY <2>1, <2>2 DEF Set!SetRoot, AbsRoot, Members
<1>3. CASE scale # 0 /\ r # root /\ Release(r, 1)
  <2>1. Members' = {} /\ AbsRoot' = r /\ AbsRoot # r
    BY <1>3 DEF Members, Entries, AbsRoot, Release
  <2> QED BY <2>1 DEF Set!SetRoot, AbsRoot, Members
<1> QED BY <1>1, <1>2, <1>3 DEF Topology, SetRoot

LEMMA AddNextAbs ==
  ASSUME Inv, AddNext, WritesInside'
  PROVE  (\E m \in Macs : Set!Insert(m)) \/ UNCHANGED <<AbsRoot, Members>>
<1>1. pc = "add" /\ idx < Len(batch) /\ root' = root
  BY DEF AddNext
<1>2. PICK m \in Macs : m = batch[idx + 1]
  BY <1>1 DEF Inv, TypeOK
<1>3. CASE UNCHANGED <<list, scale>>
  BY <1>1, <1>3, SameMembers
<1>4. CASE ~Known(m) /\ AppendMac(m)
  <2>1. /\ scale' = scale + 1 /\ scale - 1 \notin Entries
        /\ list'[scale - 1] = m
        /\ \A k \in DOMAIN list : k # scale - 1 => list'[k] = list[k]
        /\ Entries \subseteq DOMAIN list
        /\ Entries' = Entries \cup {scale - 1}
    BY <1>1, <1>4, AppendFacts DEF Inv, AddNext
  <2>2. \A k \in Entries : list'[k] = list[k]
    BY <2>1
  <2>3. Members' = Members \cup {m}
    BY <2>1, <2>2 DEF Members
  <2>4. scale \in Nat \ {0} /\ root \in Macs /\ m # root
    BY <1>1, <1>4 DEF Inv, TypeOK, Room, Known
  <2>5. AbsRoot = root /\ AbsRoot' = root /\ AbsRoot # NoMac
    BY <1>1, <2>1, <2>4, MeshDeviceAssumption DEF AbsRoot
  <2>6. Set!Insert(m)
    BY <2>3, <2>4, <2>5 DEF Set!Insert, AbsRoot, Members
  <2> QED BY <2>6
<1> QED BY <1>2, <1>3, <1>4 DEF AddNext

LEMMA DelNextAbs ==
  ASSUME Inv, DelNext
  PROVE  (\E m \in Macs : Set!Remove(m)) \/ UNCHANGED <<AbsRoot, Members>>
<1>1. pc = "del" /\ idx < Len(batch) /\ scale \in Nat \ {0}
  BY DEF DelNext, Inv, TypeOK, Room
<1>2. PICK m \in Macs : m = batch[idx + 1]
  BY <1>1 DEF Inv, TypeOK
<1>3. CASE UNCHANGED <<root, scale, list>>
  BY <1>3, SameMembers
<1>4. CASE m = root /\ Release(NoMac, 0)
  <2>1. AbsRoot = m /\ AbsRoot' = NoMac /\ Members' = {}
    BY <1>1, <1>4 DEF AbsRoot, Members, Entries, Release
  <2>2. Set!Remove(m)
    BY <2>1 DEF Set!Remove, AbsRoot, Members
  <2> QED BY <2>2
<1>5. ASSUME m # root, root' = root,
             NEW k \in Entries, list[k] = m, TakeOut(k)
      PROVE  \E d \in Macs : Set!Remove(d)
  <2>1. /\ scale' = scale - 1 /\ Entries' = 0..(scale - 3)
        /\ \A j \in Entries' : /\ j < k => list'[j] = list[j]
                               /\ j >= k => list'[j] = list[j + 1]
    BY <1>1, <1>5, TakeOutFacts DEF Inv
  <2>2. k \in 0..(scale - 2) /\ Entries = 0..(scale - 2)
    BY <1>5 DEF Entries
  <2>3. \A a \in Entries, b \in Entries : list[a] = list[b] => a = b
    BY DEF Inv, NoDuplicates
  <2>4. ASSUME NEW j \in Entries' PROVE list'[j] \in Members \ {m}
    <3>1. j \in Nat /\ j \in Entries /\ j + 1 \in Entries /\ k \in Nat
      <4>1. j \in 0..(scale - 3)
        BY <2>1
      <4> QED BY <1>1, <2>2, <4>1
    <3>2. CASE j < k
      <4>1. list'[j] = list[j] /\ j # k
        BY <2>1, <3>1, <3>2
      <4> QED BY <1>5, <2>3, <3>1, <4>1 DEF Members
    <3>3. CASE j >= k
      <4>1. list'[j] = list[j + 1] /\ j + 1 # k
        BY <2>1, <3>1, <3>3
      <4> QED BY <1>5, <2>3, <3>1, <4>1 DEF Members
    <3> QED BY <3>1, <3>2, <3>3
  <2>5. ASSUME NEW j \in Entries, list[j] # m PROVE list[j] \in Members'
    <3>1. j \in Nat /\ k \in Nat /\ j # k /\ j <= scale - 2
      BY <1>1, <1>5, <2>2, <2>5
    <3>2. CASE j < k
      <4>1. j \in Entries'
        BY <1>1, <2>1, <2>2, <3>1, <3>2
      <4>2. list'[j] = list[j]
        BY <2>1, <3>2, <4>1
      <4> QED BY <4>1, <4>2 DEF Members
    <3>3. CASE j > k
      <4>1. j - 1 \in Entries' /\ j - 1 >= k
        BY <1>1, <2>1, <2>2, <3>1, <3>3
      <4>2. list'[j - 1] = list[(j - 1) + 1]
        BY <2>1, <4>1
      <4>3. list'[j - 1] = list[j]
        BY <3>1, <4>2
      <4> QED BY <4>1, <4>3 DEF Members
    <3> QED BY <3>1, <3>2, <3>3
  <2>6. Members' = Members \ {m}
    BY <2>4, <2>5 DEF Members
  <2>7. AbsRoot = root /\ AbsRoot' = root
    BY <1>1, <1>5, <2>1, <2>2 DEF AbsRoot
  <2>8. Set!Remove(m)
    BY <1>5, <2>6, <2>7 DEF Set!Remove, AbsRoot, Members
  <2> QED BY <2>8
<1> QED BY <1>2, <1>3, <1>4, <1>5 DEF DelNext

LEMMA SetStep ==
  ASSUME Inv, [Next]_vars, WritesInside'
  PROVE  [Set!Next]_<<AbsRoot, Members>>
<1>1. CASE \E r \in Macs : Topology(r)
  BY <1>1, TopologyAbs DEF Set!Next, AbsRoot, Members
<1>2. CASE \E nodes \in Batches : AddBegin(nodes)
  <2>1. PICK nodes \in Batches : AddBegin(nodes)
    BY <1>2
  <2>2. UNCHANGED <<root, scale>> /\ pc = "options"
    BY <2>1 DEF AddBegin
  <2>3. CASE list' = list
    BY <2>2, <2>3, SameMembers
  <2>4. CASE Grow(NewSize)
    <3>1. scale \in Nat \ {0} /\ size \in Nat /\ scale - 1 <= size
          /\ NewSize \in Nat /\ NewSize > size
      BY <2>2, RestFits, MeshDeviceAssumption DEF Inv, TypeOK, Room
    <3>2. \A k \in Entries : list'[k] = list[k]
      BY <2>4, <3>1 DEF Grow, Entries
    <3> QED BY <2>2, <3>2, SameMembers
  <2> QED BY <2>1, <2>3, <2>4 DEF AddBegin
<1>3. CASE AddNext
  BY <1>3, AddNextAbs DEF Set!Next, AbsRoot, Members
<1>4. CASE DelNext
  BY <1>4, DelNextAbs DEF Set!Next, AbsRoot, Members
<1>5. CASE UNCHANGED <<root, scale, list>>
  BY <1>5, SameMembers
<1> QED BY <1>1, <1>2, <1>3, <1>4, <1>5
        DEF Next, DelBegin, AddEnd, NoMoreOptions, DelEnd, vars, table

(* As long as every write lies inside the array, it behaves with its two   *)
(* counters as a set of devices with a root, through growing, appending,   *)
(* taking out and changing the root, with options of any length.           *)
THEOREM ImplementsDeviceSet == Spec /\ []WritesInside => IsDeviceSet
<1>1. Init => Set!Init
  BY DEF Init, Set!Init, Entries
<1>2. Inv /\ [Next]_vars /\ WritesInside' => [Set!Next]_<<AbsRoot, Members>>
  BY SetStep
<1> QED BY Invariant, <1>1, <1>2, PTL DEF Spec, IsDeviceSet, Set!Spec, AbsRoot, Members

-----------------------------------------------------------------------------
(* The test packets.  Between them the table behaves as it did.            *)
LEMMA JsonKeepsTable == JsonSpec => Spec
<1>1. JsonInit => Init
  BY DEF JsonInit
<1>2. [JsonNext]_jsonVars => [Next]_vars
  BY DEF JsonNext, jsonVars, BcastTest, P2pTest, McastTest, Send
<1> QED BY <1>1, <1>2, PTL DEF JsonSpec, Spec

LEMMA Monotone ==
  ASSUME NEW a \in Nat, NEW b \in Nat, NEW p \in Nat, a <= b
  PROVE  a * p <= b * p
<1>1. PICK d \in Nat : b = a + d
  <2>1. b - a \in Nat /\ b = a + (b - a)
    OBVIOUS
  <2> QED BY <2>1
<1>2. d * p >= 0
  OBVIOUS
<1>3. b * p = a * p + d * p
  BY <1>1
<1> QED BY <1>2, <1>3

LEMMA Division ==
  ASSUME NEW n \in Nat, NEW p \in Nat \ {0}
  PROVE  n \div p \in Nat /\ (n \div p) * p <= n /\ n - (n \div p) * p < p
<1>1. n \div p \in Nat
  OBVIOUS
<1>2. (n \div p) * p <= n
  OBVIOUS
<1>3. n - (n \div p) * p < p
  OBVIOUS
<1> QED BY <1>1, <1>2, <1>3

(* How the addresses are dealt out to options of p: no place of a full     *)
(* option lies behind the last of q * p, and every one up to it has one.   *)
LEMMA Place ==
  ASSUME NEW q \in Nat, NEW p \in Nat \ {0}, NEW i \in 1..q, NEW j \in 1..p
  PROVE  (i - 1) * p + j - 1 \in 0..(q * p - 1)
<1> DEFINE a == i - 1
<1>1. a \in Nat /\ a + 1 \in Nat /\ a + 1 <= q
  OBVIOUS
<1> HIDE DEF a
<1>2. (a + 1) * p <= q * p /\ (a + 1) * p = a * p + p /\ a * p \in Nat /\ q * p \in Nat
  BY <1>1, Monotone
<1>3. a * p + j - 1 \in 0..(q * p - 1)
  BY <1>2
<1> QED BY <1>3 DEF a

LEMMA PlaceOf ==
  ASSUME NEW q \in Nat, NEW p \in Nat \ {0}, NEW k \in Nat, k < q * p
  PROVE  \E i \in 1..q, j \in 1..p : (i - 1) * p + j - 1 = k
<1> DEFINE a == k \div p
           j == k - a * p + 1
<1>1. a \in Nat /\ a * p <= k /\ k - a * p < p
  BY Division
<1> HIDE DEF a
<1>2. a < q
  <2>1. ASSUME q <= a PROVE FALSE
    <3>1. q * p <= a * p
      BY <1>1, <2>1, Monotone
    <3>2. q * p \in Nat /\ a * p \in Nat
      BY <1>1
    <3> QED BY <1>1, <3>1, <3>2
  <2> QED BY <1>1, <2>1
<1>3. a * p \in Nat
  BY <1>1
<1>4. a + 1 \in 1..q /\ j \in 1..p /\ (a + 1) - 1 = a
  BY <1>1, <1>2, <1>3
<1>5. a * p + j - 1 = k
  BY <1>1, <1>3
<1>6. ((a + 1) - 1) * p + j - 1 = k
  BY <1>4, <1>5
<1> HIDE DEF j
<1> QED BY <1>4, <1>6

(* The counts of a group: as many devices as fit, the root among them.     *)
LEMMA Counts ==
  ASSUME Inv, scale # 0, NEW room \in Nat \ {0}
  PROVE  /\ DevCount(room) \in Nat \ {0} /\ OpCount(room) \in Nat /\ PerOp \in Nat \ {0}
         /\ RestCount(room) \in 0..(PerOp - 1)
         /\ DevCount(room) = OpCount(room) * PerOp + RestCount(room)
         /\ OpCount(room) * PerOp \in Nat
         /\ 0..(DevCount(room) - 2) \subseteq Entries
         /\ OpCount(room) + (IF RestCount(room) = 0 THEN 0 ELSE 1) <= room
<1> DEFINE n == DevCount(room)
           q == OpCount(room)
<1>1. scale \in Nat \ {0} /\ PerOp \in Nat \ {0} /\ room * PerOp \in Nat
  BY MeshJsonAssumption DEF Inv, TypeOK
<1>2. room * PerOp >= 1
  BY <1>1
<1>3. ListCount = scale - 1 /\ ListCount \in Nat
  BY <1>1 DEF ListCount
<1>4. n \in Nat \ {0} /\ n <= ListCount + 1 /\ n <= room * PerOp
  BY <1>1, <1>2, <1>3 DEF DevCount
<1>5. 0..(n - 2) \subseteq Entries
  BY <1>1, <1>3, <1>4 DEF Entries
<1> HIDE DEF n
<1>6. q \in Nat /\ q * PerOp <= n /\ n - q * PerOp < PerOp
  BY <1>1, <1>4, Division DEF OpCount, n
<1> HIDE DEF q
<1>7. q * PerOp \in Nat
  BY <1>1, <1>6
<1>8. RestCount(room) = n - q * PerOp
  BY DEF RestCount, n, q
<1>9. RestCount(room) \in 0..(PerOp - 1) /\ n = q * PerOp + RestCount(room)
  BY <1>1, <1>4, <1>6, <1>7, <1>8
<1>10. q + (IF RestCount(room) = 0 THEN 0 ELSE 1) <= room
  <2>1. ASSUME q > room PROVE FALSE
    <3>1. room + 1 \in Nat /\ room + 1 <= q
      BY <1>6, <2>1
    <3>2. (room + 1) * PerOp <= q * PerOp
      BY <1>1, <1>6, <3>1, Monotone
    <3>3. (room + 1) * PerOp = room * PerOp + PerOp
      BY <1>1
    <3> QED BY <1>1, <1>4, <1>6, <1>7, <3>2, <3>3
  <2>2. ASSUME q = room, RestCount(room) # 0 PROVE FALSE
    BY <1>1, <1>4, <1>7, <1>9, <2>2
  <2> QED BY <1>6, <2>1, <2>2
<1> QED BY <1>1, <1>4, <1>5, <1>6, <1>7, <1>9, <1>10 DEF n, q

Addresses == Macs \cup {NoMac, "outside"}

LEMMA AddressesAt == ASSUME Inv, NEW k PROVE At(k) \in Addresses
BY DEF Inv, TypeOK, At, Addresses

(* PacketReaches, said of any packet.                                      *)
Reaches(sent) ==
  LET group == UNION {{sent.options[i][j] : j \in DOMAIN sent.options[i]} :
                      i \in DOMAIN sent.options}
      named == {list[k] : k \in 0..(DevCount(sent.room) - 2)}
  IN /\ sent.kind = "p2p" => \A m \in sent.to : m = root \/ Listed(m)
     /\ sent.kind = "mcast" =>
          /\ Len(sent.options) <= sent.room
          /\ \A i \in DOMAIN sent.options : Len(sent.options[i]) <= PerOp
          /\ named \subseteq group
          /\ RestCount(sent.room) # 0 => group = named \cup {root} /\ sent.unused = 0

LEMMA SameTable ==
  ASSUME UNCHANGED <<root, scale, list>>, Reaches(packet')
  PROVE  PacketReaches'
<1>1. ListCount' = ListCount /\ \A m : Listed(m)' = Listed(m)
  BY DEF ListCount, Listed, Entries
<1>2. \A room : DevCount(room)' = DevCount(room) /\ RestCount(room)' = RestCount(room)
  BY <1>1 DEF DevCount, RestCount, OpCount
<1> QED BY <1>1, <1>2 DEF PacketReaches, Reaches

(* A packet to a group.                                                    *)
LEMMA GroupReached ==
  ASSUME Inv, scale # 0, NEW room \in Nat \ {0}, NEW sent,
         sent = [kind |-> "mcast", to |-> {}, options |-> McastOptions(room),
                 unused |-> Unused(room), room |-> room]
  PROVE  Reaches(sent)
<1> DEFINE n == DevCount(room)
           q == OpCount(room)
           r == RestCount(room)
           p == PerOp
           full == [i \in 1..q |-> [j \in 1..p |-> At((i - 1) * p + j - 1)]]
           last == [j \in 1..r |-> IF j = 1 THEN root ELSE At(q * p + j - 2)]
           options == sent.options
           group == UNION {{options[i][j] : j \in DOMAIN options[i]} : i \in DOMAIN options}
           named == {list[k] : k \in 0..(n - 2)}
<1>1. /\ n \in Nat \ {0} /\ q \in Nat /\ p \in Nat \ {0} /\ r \in 0..(p - 1)
      /\ n = q * p + r /\ q * p \in Nat /\ 0..(n - 2) \subseteq Entries
      /\ q + (IF r = 0 THEN 0 ELSE 1) <= room
  BY Counts
<1>2. sent.kind = "mcast" /\ sent.room = room /\ sent.unused = (IF r = 0 THEN 2 ELSE 0)
      /\ options = full \o (IF r = 0 THEN <<>> ELSE <<last>>)
  BY DEF McastOptions, RestOption, Unused
<1>3. \A k \in 0..(n - 2) : At(k) = list[k]
  <2>1. Entries \subseteq DOMAIN list
    BY DEF Inv, TypeOK, Room, Entries
  <2> QED BY <1>1, <2>1 DEF At
<1> HIDE DEF n, q, r, p
<1>4. full \in Seq(Seq(Addresses)) /\ Len(full) = q /\ \A i \in 1..q : Len(full[i]) = p
  <2>1. ASSUME NEW i \in 1..q
        PROVE  full[i] \in Seq(Addresses) /\ Len(full[i]) = p
    <3> DEFINE a(j) == At((i - 1) * p + j - 1)
    <3>1. full[i] = [j \in 1..p |-> a(j)]
      OBVIOUS
    <3>2. \A j \in 1..p : a(j) \in Addresses
      BY AddressesAt
    <3> HIDE DEF a, full
    <3>3. full[i] \in [1..p -> Addresses]
      BY <3>1, <3>2
    <3> QED BY <1>1, <3>3
  <2>2. full \in [1..q -> Seq(Addresses)]
    BY <2>1
  <2> HIDE DEF full
  <2> QED BY <1>1, <2>1, <2>2
<1>5. last \in Seq(Addresses) /\ Len(last) = r
  <2>1. \A j \in 1..r : At(q * p + j - 2) \in Addresses
    BY AddressesAt
  <2>2. root \in Addresses
    BY DEF Inv, TypeOK, Addresses
  <2>3. last \in [1..r -> Addresses]
    BY <2>1, <2>2
  <2>4. r \in Nat
    BY <1>1
  <2> HIDE DEF last
  <2> QED BY <2>3, <2>4
<1> HIDE DEF full, last, options
(* Option i is a full one up to q, the last one behind them.               *)
<1>6. /\ DOMAIN options = 1..(IF r = 0 THEN q ELSE q + 1)
      /\ Len(options) = (IF r = 0 THEN q ELSE q + 1)
      /\ \A i \in 1..q : options[i] = full[i]
      /\ r # 0 => options[q + 1] = last
  <2>1. CASE r = 0
    <3>1. options = full
      BY <1>2, <1>4, <2>1, ConcatEmptySeq
    <3> QED BY <1>1, <1>4, <2>1, <3>1
  <2>2. CASE r # 0
    <3>1. options = Append(full, last)
      BY <1>2, <1>4, <1>5, <2>2, AppendIsConcat
    <3>2. options \in Seq(Seq(Addresses)) /\ Len(options) = q + 1
          /\ (\A i \in 1..q : options[i] = full[i]) /\ options[q + 1] = last
      BY <1>4, <1>5, <3>1, AppendProperties
    <3> QED BY <2>2, <3>2, LenProperties
  <2> QED BY <2>1, <2>2
<1>7. Len(options) <= room
  BY <1>1, <1>6
<1>8. \A i \in DOMAIN options : Len(options[i]) <= p
  <2> SUFFICES ASSUME NEW i \in DOMAIN options PROVE Len(options[i]) <= p
    OBVIOUS
  <2>1. i \in 1..q \/ (r # 0 /\ i = q + 1)
    BY <1>1, <1>6
  <2> QED BY <1>1, <1>4, <1>5, <1>6, <2>1
<1>9. ASSUME NEW i \in 1..q, NEW j \in 1..p
      PROVE  /\ i \in DOMAIN options /\ j \in DOMAIN options[i]
             /\ options[i][j] = At((i - 1) * p + j - 1)
  <2> DEFINE a(k) == At((i - 1) * p + k - 1)
  <2>1. full[i] = [k \in 1..p |-> a(k)]
    BY DEF full
  <2>2. options[i] = full[i] /\ i \in DOMAIN options
    BY <1>1, <1>6
  <2> HIDE DEF a
  <2>3. j \in DOMAIN options[i] /\ options[i][j] = a(j)
    BY <2>1, <2>2
  <2> QED BY <2>2, <2>3 DEF a
<1>10. ASSUME r # 0, NEW j \in 1..r
       PROVE  /\ q + 1 \in DOMAIN options /\ j \in DOMAIN options[q + 1]
              /\ options[q + 1][j] = IF j = 1 THEN root ELSE At(q * p + j - 2)
  BY <1>1, <1>5, <1>6, <1>10 DEF last
<1>11. named \subseteq group
  <2> SUFFICES ASSUME NEW k \in 0..(n - 2) PROVE list[k] \in group
    OBVIOUS
  <2>1. At(k) = list[k] /\ k \in Nat /\ k <= n - 2
    BY <1>1, <1>3
  <2>2. CASE k < q * p
    <3>1. PICK i \in 1..q, j \in 1..p : (i - 1) * p + j - 1 = k
      <4>1. q \in Nat /\ p \in Nat \ {0} /\ k \in Nat
        BY <1>1, <2>1
      <4> QED BY <2>2, <4>1, PlaceOf, Zenon
    <3> QED BY <1>9, <2>1, <3>1
  <2>3. CASE ~(k < q * p)
    <3> DEFINE j == k - q * p + 2
    <3>1. r # 0 /\ j \in 1..r /\ j # 1 /\ q * p + j - 2 = k
      BY <1>1, <2>1, <2>3
    <3> HIDE DEF j
    <3>2. q + 1 \in DOMAIN options /\ j \in DOMAIN options[q + 1]
          /\ options[q + 1][j] = At(q * p + j - 2)
      BY <1>10, <3>1
    <3> QED BY <2>1, <3>1, <3>2
  <2> QED BY <2>2, <2>3
<1>12. ASSUME r # 0 PROVE group = named \cup {root}
  <2>1. root \in group
    <3>1. 1 \in 1..r
      BY <1>1, <1>12
    <3> QED BY <1>10, <1>12, <3>1
  <2>2. ASSUME NEW i \in DOMAIN options, NEW j \in DOMAIN options[i]
        PROVE  options[i][j] \in named \cup {root}
    <3>1. CASE i \in 1..q
      <4>1. j \in 1..p
        BY <1>4, <1>6, <3>1, LenProperties, ElementOfSeq
      <4>2. (i - 1) * p + j - 1 \in 0..(q * p - 1)
        BY <1>1, <3>1, <4>1, Place
      <4>3. (i - 1) * p + j - 1 \in 0..(n - 2)
        BY <1>1, <1>12, <4>2
      <4>4. options[i][j] = At((i - 1) * p + j - 1)
        BY <1>9, <3>1, <4>1
      <4> QED BY <1>3, <4>3, <4>4
    <3>2. CASE i = q + 1
      <4>1. j \in 1..r
        BY <1>5, <1>6, <1>12, <3>2, LenProperties
      <4>2. options[i][j] = IF j = 1 THEN root ELSE At(q * p + j - 2)
        BY <1>10, <1>12, <3>2, <4>1
      <4>3. j # 1 => q * p + j - 2 \in 0..(n - 2)
        BY <1>1, <4>1
      <4> QED BY <1>3, <4>2, <4>3
    <3> QED BY <1>1, <1>6, <3>1, <3>2
  <2> QED BY <1>11, <2>1, <2>2
<1> QED BY <1>2, <1>7, <1>8, <1>11, <1>12 DEF Reaches, n, r, p, options

(* As long as every write to the table lies inside its array: whatever the *)
(* table looks like when a test runs, a single packet goes to one of its   *)
(* devices, and a group is the root with all listed devices that fit,      *)
(* however many they are and however long the options were that named      *)
(* them: only if they fill whole options the root is not certain           *)
(* (mesh_json.c:183-273).                                                  *)
THEOREM GroupsReached == JsonSpec /\ []WritesInside => []PacketReaches
<1>1. JsonInit => PacketReaches
  BY DEF JsonInit, NoPacket, PacketReaches
<1>2. ASSUME Inv, PacketReaches, [JsonNext]_jsonVars PROVE PacketReaches'
  <2>1. CASE packet'.kind \notin {"p2p", "mcast"}
    BY <2>1 DEF PacketReaches
  <2>2. CASE UNCHANGED jsonVars
    <3>1. Reaches(packet)
      BY <1>2 DEF PacketReaches, Reaches
    <3>2. UNCHANGED <<root, scale, list>> /\ packet' = packet
      BY <2>2 DEF jsonVars, vars, table
    <3>3. Reaches(packet')
      BY <3>1, <3>2, Zenon
    <3> QED BY <3>2, <3>3, SameTable
  <2>3. NoPacket.kind = "none" /\ [NoPacket EXCEPT !.kind = "reconnect"].kind = "reconnect"
        /\ [NoPacket EXCEPT !.kind = "bcast"].kind = "bcast"
    BY DEF NoPacket
  <2>4. CASE P2pTest /\ packet'.kind = "p2p"
    <3>1. PICK k \in 0..ListCount :
            /\ k # 0 => ListCount > 1
            /\ packet' = [NoPacket EXCEPT !.kind = "p2p", !.to = {IF k = 0 THEN root ELSE At(k - 1)}]
      BY <2>3, <2>4 DEF P2pTest, Send
    <3>2. packet'.kind = "p2p" /\ packet'.to = {IF k = 0 THEN root ELSE At(k - 1)}
          /\ UNCHANGED <<root, scale, list>>
      BY <2>4, <3>1 DEF NoPacket, P2pTest, Send, vars, table
    <3>3. k # 0 => k - 1 \in Entries /\ At(k - 1) = list[k - 1]
      <4>1. scale \in Nat /\ (scale # 0 => scale - 1 <= size) /\ size \in Nat
            /\ 0..(size - 1) \subseteq DOMAIN list
        BY <1>2 DEF Inv, TypeOK, Room
      <4> QED BY <3>1, <4>1 DEF ListCount, Entries, At
    <3>4. Reaches(packet')
      BY <3>2, <3>3 DEF Reaches, Listed
    <3> QED BY <3>2, <3>4, SameTable
  <2>5. CASE McastTest /\ packet'.kind = "mcast"
    <3>1. PICK room \in Rooms :
            packet' = [kind |-> "mcast", to |-> {}, options |-> McastOptions(room),
                       unused |-> Unused(room), room |-> room]
      BY <2>3, <2>5 DEF McastTest, Send
    <3>2. scale # 0 /\ room \in Nat \ {0} /\ UNCHANGED <<root, scale, list>>
      BY <2>5, MeshJsonAssumption DEF McastTest, Send, vars, table
    <3>3. Reaches(packet')
      BY <1>2, <3>1, <3>2, GroupReached
    <3> QED BY <3>2, <3>3, SameTable
  <2> QED
    <3>1. CASE Next /\ packet' = NoPacket
      BY <2>1, <2>3, <3>1
    <3>2. CASE BcastTest
      BY <2>1, <2>3, <3>2 DEF BcastTest, Send
    <3>3. CASE P2pTest
      <4>1. packet'.kind \in {"p2p", "none", "reconnect"}
        BY <2>3, <3>3 DEF P2pTest, Send, NoPacket
      <4> QED BY <2>1, <2>4, <3>3, <4>1
    <3>4. CASE McastTest
      <4>1. packet'.kind \in {"mcast", "none", "reconnect"}
        <5>1. PICK room \in Rooms :
                packet' \in {[kind |-> "mcast", to |-> {}, options |-> McastOptions(room),
                               unused |-> Unused(room), room |-> room],
                             NoPacket, [NoPacket EXCEPT !.kind = "reconnect"]}
          BY <3>4 DEF McastTest, Send
        <5>2. CASE packet' = [kind |-> "mcast", to |-> {}, options |-> McastOptions(room),
                              unused |-> Unused(room), room |-> room]
          BY <5>2
        <5>3. CASE packet' = NoPacket \/ packet' = [NoPacket EXCEPT !.kind = "reconnect"]
          BY <2>3, <5>3
        <5> QED BY <5>1, <5>2, <5>3, Zenon
      <4> QED BY <2>1, <2>5, <3>4, <4>1
    <3> QED BY <1>2, <2>2, <3>1, <3>2, <3>3, <3>4 DEF JsonNext
<1> QED BY <1>1, <1>2, JsonKeepsTable, Invariant, PTL DEF JsonSpec
=============================================================================
