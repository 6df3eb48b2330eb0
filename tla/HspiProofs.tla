----------------------------- MODULE HspiProofs -----------------------------
(***************************************************************************)
(* Proofs about Hspi, for every number and length of packs, every queue    *)
(* length and every time limit.                                            *)
(***************************************************************************)
EXTENDS HspiInv, SequenceTheorems, TLAPS

(* spi_send_data cuts a pack of `lenth' bytes into fragments that hold     *)
(* exactly its bytes, none of them empty (user_hspi.c:62-68).              *)
THEOREM FragmentationExact ==
  ASSUME NEW lenth \in Nat \ {0}
  PROVE  /\ Num(lenth) \in Nat \ {0}
         /\ LastByte(lenth) \in 1..Chunk
         /\ (Num(lenth) - 1) * Chunk + LastByte(lenth) = lenth
  BY DEF Num, LastByte, Chunk

(* What a fragment's command byte says is well defined.                    *)
LEMMA CommandByte ==
  ASSUME NEW f \in Fragments, NEW lens \in [Packs -> Nat \ 0..(Header - 1)]
  PROVE  /\ Bytes(f, lens) \in Nat
         /\ EndBit(f, lens) => f.pack \in Packs
<1>1. f.pack # 0 => f.pack \in Packs /\ lens[f.pack] \in Nat \ {0}
  BY DEF Fragments, Packs, Header
<1>2. EndBit(f, lens) => f.pack \in Packs /\ LastByte(lens[f.pack]) \in Nat
  <2>1. EndBit(f, lens) => f.pack # 0
    BY DEF EndBit
  <2>2. \A n \in Nat \ {0} : LastByte(n) \in Nat
    BY DEF LastByte, Chunk
  <2> QED
    BY <1>1, <2>1, <2>2
<1>3. Bytes(f, lens) \in Nat
  BY <1>2 DEF Bytes, Chunk
<1> QED
  BY <1>2, <1>3

LEMMA FragType ==
  ASSUME NEW p \in 0..NPacks, NEW k \in Nat
  PROVE  Frag(p, k) \in Fragments
  BY DEF Frag, Fragments

LEMMA TornType == Torn \in Fragments /\ Torn \in Offers
  BY HspiAssumption DEF Torn, Frag, Fragments, Offers

(* The same of the fragments that the slave sends.                         *)
LEMMA OfferType ==
  ASSUME NEW p \in 0..(NPacks + NMesh), NEW k \in Nat
  PROVE  Frag(p, k) \in Offers
  BY DEF Frag, Offers

LEMMA OutgoingType ==
  /\ Packs \subseteq Outgoing /\ 0..NPacks \subseteq 0..(NPacks + NMesh)
  /\ Outgoing \subseteq 0..(NPacks + NMesh)
  BY HspiAssumption DEF Packs, Outgoing

LEMMA PostType ==
  ASSUME NEW q \in 0..QueueLen
  PROVE  Post(q) \in 0..QueueLen /\ Post(q) > 0
  BY HspiAssumption DEF Post

-----------------------------------------------------------------------------
LEMMA InitLink == Init => LinkInv
<1> SUFFICES ASSUME Init PROVE LinkInv
  OBVIOUS
<1>1. HwType /\ HandlerType
  BY TornType DEF Init, HwType, HandlerType
<1>2. RxType
  <2>1. DOMAIN recv_pack = {} /\ recv_lenth = 0 /\ recvQ = 0 /\ hdr = 0
    BY DEF Init
  <2>2. is_recv_pack \in BOOLEAN
    BY DEF Init
  <2>3. 0 \in 0..QueueLen /\ 0 \in 0..NPacks
    BY HspiAssumption
  <2> QED
    BY <2>1, <2>2, <2>3 DEF RxType
<1>3. TxType
  BY HspiAssumption DEF Init, TxType
<1>4. MasterType /\ HistoryType
  <2>1. MasterType
    <3>1. mst = "idle" /\ nextPack = 1 /\ nextFrag = 0 /\ snap \in Offers /\ mbuf = <<>>
      BY TornType DEF Init
    <3>2. nextPack \in 1..(NPacks + 1) /\ rereads \in 0..MaxRereads
      BY HspiAssumption DEF Init
    <3> QED
      BY <3>1, <3>2 DEF MasterType
  <2>2. fresh \in BOOLEAN /\ clean \in BOOLEAN /\ spoilt = {}
    BY DEF Init
  <2>4. nMesh \in 0..NMesh
    BY HspiAssumption DEF Init
  <2>3. executed = <<>> /\ sentOk = <<>> /\ replies = <<>>
    BY DEF Init
  <2> QED
    BY <2>1, <2>2, <2>3, <2>4 DEF HistoryType
<1>5. NoWedge /\ HeaderThere /\ WritingPack /\ cpu = "idle"
  BY DEF Init, NoWedge, HeaderThere, WritingPack, RecvPcs
<1> QED
  BY <1>1, <1>2, <1>3, <1>4, <1>5 DEF LinkInv, TypeOK

(* One step of the handler, of a task or of the master keeps the types of  *)
(* the groups of variables it does not write; what follows looks at the    *)
(* others, and at the three control facts of LinkInv.                      *)
LEMMA IsrLink ==
  ASSUME LinkInv, Isr
  PROVE  LinkInv'
<1> USE DEF LinkInv, TypeOK, hw, rx, tx, master, history, handler
<1>1. CASE IsrEnter
  <2>1. HwType' /\ HandlerType'
    BY <1>1 DEF IsrEnter, HwType, HandlerType
  <2>2. RxType' /\ TxType' /\ MasterType' /\ HistoryType'
    BY <1>1 DEF IsrEnter, RxType, TxType, MasterType, HistoryType
  <2>3. NoWedge' /\ HeaderThere' /\ WritingPack'
    BY <1>1 DEF IsrEnter, NoWedge, HeaderThere, WritingPack
  <2> QED
    BY <1>1, <2>1, <2>2, <2>3 DEF IsrEnter
<1>2. CASE IsrClear
  <2>1. HwType' /\ HandlerType'
    BY <1>2 DEF IsrClear, HwType, HandlerType
  <2>2. RxType' /\ TxType' /\ MasterType' /\ HistoryType'
    BY <1>2 DEF IsrClear, RxType, TxType, MasterType, HistoryType
  <2>3. NoWedge' /\ HeaderThere' /\ WritingPack'
    BY <1>2 DEF IsrClear, NoWedge, HeaderThere, WritingPack
  <2> QED
    BY <1>2, <2>1, <2>2, <2>3 DEF IsrClear
<1>3. CASE IsrRead0
  <2>1. HwType' /\ HandlerType'
    BY <1>3 DEF IsrRead0, HwType, HandlerType
  <2>2. RxType' /\ TxType' /\ MasterType' /\ HistoryType'
    BY <1>3 DEF IsrRead0, RxType, TxType, MasterType, HistoryType
  <2>3. NoWedge' /\ HeaderThere' /\ WritingPack'
    BY <1>3 DEF IsrRead0, NoWedge, HeaderThere, WritingPack
  <2> QED
    BY <1>3, <2>1, <2>2, <2>3 DEF IsrRead0
<1>4. CASE IsrStore
  <2> DEFINE slot == Slot(StartBit(buf0))
             data == IF buf0 = w0 THEN w0 ELSE Torn
  <2>1. slot \in Nat /\ data \in Fragments /\ Bytes(buf0, ReqLen) \in Nat
    BY TornType, CommandByte, HspiAssumption DEF HwType, HandlerType, Slot
  <2>2. LengthSoFar(StartBit(buf0)) \in Nat
    BY DEF RxType, LengthSoFar
  <2>3. HwType' /\ TxType' /\ MasterType' /\ HistoryType' /\ cpu' = cpu /\ WritingPack'
    BY <1>4 DEF IsrStore, HwType, TxType, MasterType, HistoryType, WritingPack
  <2>4. CASE ~is_recv_pack /\ (isReceive \/ StartBit(buf0))
    <3>1. /\ recv_pack' = StoreSlot(slot, data)
          /\ recv_lenth' = LengthSoFar(StartBit(buf0)) + Bytes(buf0, ReqLen)
          /\ \/ pack_counter' = slot /\ isReceive' = FALSE /\ is_recv_pack' = TRUE
                  /\ recvQ' = Post(recvQ)
             \/ pack_counter' = slot + 1 /\ isReceive' = TRUE
                  /\ UNCHANGED <<is_recv_pack, recvQ>>
          /\ isr' = "leave"
          /\ UNCHANGED <<regWr, regRd, buf0, hdr>>
      BY <1>4, <2>4 DEF IsrStore
    <3>2. /\ DOMAIN recv_pack' = DOMAIN recv_pack \cup {slot}
          /\ \A s \in DOMAIN recv_pack' : recv_pack'[s] \in Fragments
      BY <3>1, <2>1 DEF StoreSlot, RxType
    <3>3. 0 \in DOMAIN recv_pack'
      BY <3>2, <2>4 DEF Slot, HeaderThere
    <3>4. HandlerType'
      <4>1. isReceive' \in BOOLEAN
        BY <3>1
      <4>2. pack_counter' \in Nat
        BY <3>1, <2>1
      <4> QED
        BY <3>1, <4>1, <4>2 DEF HandlerType
    <3>5. RxType'
      <4>1. Post(recvQ) \in 0..QueueLen
        BY PostType DEF RxType
      <4>2. is_recv_pack' \in BOOLEAN /\ recvQ' \in 0..QueueLen
        BY <3>1, <4>1 DEF RxType
      <4>3. recv_lenth' \in Nat
        BY <3>1, <2>1, <2>2
      <4> QED
        BY <3>1, <3>2, <2>1, <4>2, <4>3 DEF RxType
    <3>6. NoWedge'
      <4>1. Post(recvQ) > 0
        BY PostType DEF RxType
      <4> QED
        BY <3>1, <2>3, <4>1 DEF NoWedge
    <3> QED
      BY <3>3, <3>4, <3>5, <3>6, <2>3 DEF HeaderThere
  <2>5. CASE ~(~is_recv_pack /\ (isReceive \/ StartBit(buf0)))
    <3>1. /\ isr' = "leave"
          /\ UNCHANGED <<recv_lenth, recv_pack, isReceive, pack_counter,
                         is_recv_pack, recvQ, regWr, regRd, buf0, hdr>>
      BY <1>4, <2>5 DEF IsrStore
    <3>2. HandlerType' /\ RxType'
      BY <3>1 DEF HandlerType, RxType
    <3>3. NoWedge' /\ HeaderThere'
      BY <3>1, <2>3 DEF NoWedge, HeaderThere
    <3> QED
      BY <3>2, <3>3, <2>3
  <2> QED
    BY <2>4, <2>5
<1>5. CASE IsrLeave
  <2>1. HwType' /\ HandlerType' /\ TxType'
    BY <1>5 DEF IsrLeave, HwType, HandlerType, TxType
  <2>2. RxType' /\ MasterType' /\ HistoryType'
    BY <1>5 DEF IsrLeave, RxType, MasterType, HistoryType
  <2>3. NoWedge' /\ HeaderThere' /\ WritingPack'
    BY <1>5 DEF IsrLeave, NoWedge, HeaderThere, WritingPack
  <2> QED
    BY <1>5, <2>1, <2>2, <2>3 DEF IsrLeave
<1> QED
  BY <1>1, <1>2, <1>3, <1>4, <1>5 DEF Isr

LEMMA RecvLink ==
  ASSUME LinkInv, RecvTask
  PROVE  LinkInv'
<1> USE DEF LinkInv, TypeOK, hw, rx, tx, master, history, handler
<1>1. CASE RecvTake
  <2>1. HwType' /\ HandlerType' /\ TxType' /\ MasterType' /\ HistoryType' /\ WritingPack'
    BY <1>1 DEF RecvTake, HwType, HandlerType, TxType, MasterType, HistoryType, WritingPack
  <2>2. RxType'
    <3>1. recvQ' \in 0..QueueLen
      BY <1>1, HspiAssumption DEF RecvTake, RxType
    <3> QED
      BY <1>1, <3>1 DEF RecvTake, RxType
  <2>3. cpu' \in RecvPcs
    BY <1>1 DEF RecvTake, RecvPcs
  <2>4. HeaderThere'
    BY <1>1 DEF RecvTake, HeaderThere, RxType
  <2> QED
    BY <2>1, <2>2, <2>3, <2>4 DEF NoWedge
<1>2. CASE RecvHeader
  <2>1. HwType' /\ HandlerType' /\ TxType' /\ MasterType' /\ HistoryType' /\ WritingPack'
    BY <1>2 DEF RecvHeader, HwType, HandlerType, TxType, MasterType, HistoryType, WritingPack
  <2>2. cpu \in RecvPcs /\ cpu' \in RecvPcs
    BY <1>2 DEF RecvHeader, RecvPcs
  <2>3. recv_pack[0].pack \in 0..NPacks
    BY <2>2 DEF HeaderThere, RxType, Fragments
  <2>4. RxType' /\ HeaderThere'
    BY <1>2, <2>2, <2>3 DEF RecvHeader, RxType, HeaderThere
  <2> QED
    BY <2>1, <2>2, <2>4 DEF NoWedge
<1>3. ASSUME NEW ok, NEW here \in RecvPcs, NEW next \in RecvPcs, Check(ok, here, next)
      PROVE  LinkInv'
  <2>1. HwType' /\ HandlerType' /\ TxType' /\ MasterType' /\ HistoryType' /\ WritingPack'
    BY <1>3 DEF Check, HwType, HandlerType, TxType, MasterType, HistoryType, WritingPack
  <2>2. cpu \in RecvPcs /\ cpu' \in RecvPcs
    BY <1>3 DEF Check, RecvPcs
  <2>3. is_recv_pack' \in BOOLEAN
    BY <1>3 DEF Check, RxType
  <2>4. RxType' /\ HeaderThere'
    BY <1>3, <2>2, <2>3 DEF Check, RxType, HeaderThere
  <2> QED
    BY <2>1, <2>2, <2>4 DEF NoWedge
<1>4. CASE RecvLength
  BY <1>3, <1>4 DEF RecvLength, RecvPcs
<1>5. CASE RecvCrc
  BY <1>3, <1>5 DEF RecvCrc, RecvPcs
<1>6. CASE RecvExecute
  <2>1. HwType' /\ HandlerType' /\ RxType' /\ MasterType' /\ WritingPack'
    BY <1>6 DEF RecvExecute, HwType, HandlerType, RxType, MasterType, WritingPack
  <2>2. executed' \in Seq(0..NPacks)
    <3>1. (IF Holds(hdr) THEN hdr ELSE 0) \in 0..NPacks
      BY HspiAssumption DEF RxType
    <3> QED
      BY <1>6, <3>1 DEF RecvExecute, HistoryType
  <2>3. HistoryType'
    BY <1>6, <2>2 DEF RecvExecute, HistoryType
  <2>4. Post(sendQ) \in 0..QueueLen
    BY PostType DEF TxType
  <2>5. wifi_pack_send' \in 0..(NPacks + NMesh) /\ sendQ' \in 0..QueueLen
    BY <1>6, <2>4, OutgoingType DEF RecvExecute, TxType, RxType
  <2>6. TxType'
    BY <1>6, <2>5 DEF RecvExecute, TxType
  <2>7. cpu \in RecvPcs /\ cpu' \in RecvPcs /\ recv_pack' = recv_pack
    BY <1>6 DEF RecvExecute, RecvPcs
  <2> QED
    BY <2>1, <2>3, <2>6, <2>7 DEF NoWedge, HeaderThere
<1>7. ASSUME NEW here \in RecvPcs, NEW next \in RecvPcs \cup {"idle"}, Reopen(here, next)
      PROVE  LinkInv'
  <2>1. HwType' /\ HandlerType' /\ TxType' /\ MasterType' /\ HistoryType' /\ WritingPack'
    BY <1>7 DEF Reopen, HwType, HandlerType, TxType, MasterType, HistoryType, WritingPack
  <2>2. RxType' /\ ~is_recv_pack'
    BY <1>7 DEF Reopen, RxType
  <2>3. HeaderThere' /\ cpu' \in {"idle"} \cup RecvPcs
    BY <1>7 DEF Reopen, HeaderThere
  <2> QED
    BY <2>1, <2>2, <2>3 DEF NoWedge
<1>8. CASE RecvDone
  BY <1>7, <1>8 DEF RecvDone, RecvPcs
<1>9. CASE RecvReset
  BY <1>7, <1>9 DEF RecvReset, RecvPcs
<1> QED
  BY <1>1, <1>2, <1>4, <1>5, <1>6, <1>8, <1>9 DEF RecvTask

LEMMA MeshLink ==
  ASSUME LinkInv, MeshPacket
  PROVE  LinkInv'
<1> USE DEF LinkInv, TypeOK, hw, rx, tx, master, history, handler
<1>1. HwType' /\ HandlerType' /\ RxType' /\ MasterType' /\ WritingPack' /\ cpu' = cpu
  BY DEF MeshPacket, HwType, HandlerType, RxType, MasterType, WritingPack
<1>2. NPacks + nMesh' \in 0..(NPacks + NMesh) /\ nMesh' \in 0..NMesh
  BY HspiAssumption DEF MeshPacket, HistoryType
<1>3. TxType'
  <2>1. Post(sendQ) \in 0..QueueLen
    BY PostType DEF TxType
  <2> QED
    BY <1>2, <2>1 DEF MeshPacket, TxType
<1>4. HistoryType'
  <2>1. spoilt' \subseteq 0..(NPacks + NMesh)
    BY DEF MeshPacket, TxType, HistoryType
  <2> QED
    BY <1>2, <2>1 DEF MeshPacket, HistoryType
<1>5. NoWedge' /\ HeaderThere'
  BY DEF MeshPacket, NoWedge, HeaderThere
<1> QED
  BY <1>1, <1>3, <1>4, <1>5

LEMMA SendLink ==
  ASSUME LinkInv, SendTask
  PROVE  LinkInv'
<1> USE DEF LinkInv, TypeOK, hw, rx, tx, master, history, handler
<1> SUFFICES HwType' /\ TxType' /\ HistoryType' /\ cpu' \in {"idle"} \cup SendPcs
  <2>1. UNCHANGED <<handler, rx, master>> /\ cpu \in {"idle"} \cup SendPcs
    BY DEF SendTask, SendTake, SendFragment, SendSpin, SendClaim, SendLoad, SendRaise, SendPcs
  <2>2. HandlerType' /\ RxType' /\ MasterType' /\ WritingPack'
    BY <2>1 DEF HandlerType, RxType, MasterType, WritingPack
  <2>3. ({"idle"} \cup SendPcs) \cap RecvPcs = {}
    BY DEF RecvPcs, SendPcs
  <2>4. NoWedge' /\ HeaderThere'
    BY <2>1, <2>3 DEF NoWedge, HeaderThere
  <2> QED
    BY <2>2, <2>4
<1>1. CASE SendTake
  <2>1. HwType' /\ HistoryType' /\ cpu' \in {"idle"} \cup SendPcs
    BY <1>1 DEF SendTake, HwType, HistoryType, SendPcs
  <2>2. sendQ' \in 0..QueueLen
    BY <1>1, HspiAssumption DEF SendTake, TxType
  <2>3. send_pack' \in 0..(NPacks + NMesh) /\ i' \in Nat
    BY <1>1 DEF SendTake, TxType
  <2>4. TxType'
    BY <1>1, <2>2, <2>3 DEF SendTake, TxType
  <2> QED
    BY <2>1, <2>4
<1>2. CASE SendFragment
  <2>1. HwType' /\ cpu' \in {"idle"} \cup SendPcs
    BY <1>2 DEF SendFragment, HwType, SendPcs
  <2>2. wr_rdy' \in BOOLEAN
    BY <1>2 DEF SendFragment, TxType
  <2>5. HistoryType'
    <3>1. w8.pack \in 0..(NPacks + NMesh) /\ send_pack \in 0..(NPacks + NMesh)
      BY DEF HwType, TxType, Offers
    <3>2. spoilt' \subseteq 0..(NPacks + NMesh) /\ clean' \in BOOLEAN
      BY <1>2, <3>1 DEF SendFragment, Begin, Offered, HistoryType
    <3>3. <<>> \in Seq(0..(NPacks + NMesh))
      OBVIOUS
    <3>4. sentOk' \in Seq(0..(NPacks + NMesh)) /\ replies' \in Seq(0..(NPacks + NMesh))
      BY <1>2, <3>3 DEF SendFragment, Begin, HistoryType
    <3> QED
      BY <1>2, <3>2, <3>4 DEF SendFragment, HistoryType
  <2>3. TMax \in 0..TMax
    BY HspiAssumption
  <2>4. TxType'
    BY <1>2, <2>2, <2>3 DEF SendFragment, TxType
  <2> QED
    BY <2>1, <2>4, <2>5
<1>3. CASE SendSpin
  BY <1>3, HspiAssumption DEF SendSpin, HwType, TxType, HistoryType, SendPcs
<1>4. CASE SendClaim
  <2>1. HistoryType' /\ cpu' \in {"idle"} \cup SendPcs
    BY <1>4 DEF SendClaim, HistoryType, SendPcs
  <2>2. gpio5' \in BOOLEAN
    BY <1>4 DEF SendClaim, HwType
  <2>3. HwType'
    BY <1>4, <2>2 DEF SendClaim, HwType
  <2>4. TxType'
    BY <1>4 DEF SendClaim, TxType
  <2> QED
    BY <2>1, <2>3, <2>4
<1>5. CASE SendLoad
  <2>1. Frag(send_pack, i) \in Offers
    BY OfferType DEF TxType
  <2>2. HwType' /\ TxType' /\ cpu' \in {"idle"} \cup SendPcs
    BY <1>5, <2>1 DEF SendLoad, HwType, TxType, SendPcs
  <2>3. HistoryType'
    BY <1>5 DEF SendLoad, HistoryType
  <2> QED
    BY <2>2, <2>3
<1>6. CASE SendRaise
  <2>1. HwType'
    BY <1>6 DEF SendRaise, HwType
  <2>2. TxType' /\ cpu' \in {"idle"} \cup SendPcs
    BY <1>6 DEF SendRaise, TxType, SendPcs
  <2>3. sentOk' \in Seq(0..(NPacks + NMesh))
    <3>1. send_pack \in 0..(NPacks + NMesh) /\ sentOk \in Seq(0..(NPacks + NMesh))
      BY DEF TxType, HistoryType
    <3>2. sentOk' = Append(sentOk, send_pack) \/ sentOk' = sentOk
      BY <1>6 DEF SendRaise
    <3>3. Append(sentOk, send_pack) \in Seq(0..(NPacks + NMesh))
      BY <3>1
    <3> QED
      BY <3>1, <3>2, <3>3
  <2>4. HistoryType'
    BY <1>6, <2>3 DEF SendRaise, HistoryType
  <2> QED
    BY <2>1, <2>2, <2>4
<1> QED
  BY <1>1, <1>2, <1>3, <1>4, <1>5, <1>6 DEF SendTask


(* The pack a non-empty sequence of fragments amounts to is a pack, or 0.  *)
LEMMA WholeType ==
  ASSUME NEW fs \in Seq(Offers), Len(fs) > 0
  PROVE  Whole(fs) \in 0..(NPacks + NMesh)
<1>1. fs[1] \in Offers
  OBVIOUS
<1>2. fs[1].pack \in 0..(NPacks + NMesh)
  BY <1>1 DEF Offers
<1>3. 0 \in 0..(NPacks + NMesh)
  BY HspiAssumption
<1> QED
  BY <1>2, <1>3 DEF Whole

LEMMA MasterLink ==
  ASSUME LinkInv, Master
  PROVE  LinkInv'
<1> USE DEF LinkInv, TypeOK, hw, rx, tx, master, history, handler
<1> SUFFICES HwType' /\ MasterType' /\ HistoryType' /\ WritingPack'
  <2>1. UNCHANGED <<handler, rx, tx, cpu>>
    BY DEF Master, WriteBegin, WriteEnd, ReadBegin, ReadEnd
  <2>2. HandlerType' /\ RxType' /\ TxType' /\ NoWedge' /\ HeaderThere'
    BY <2>1 DEF HandlerType, RxType, TxType, NoWedge, HeaderThere
  <2> QED
    BY <2>1, <2>2
<1>1. CASE WriteBegin
  BY <1>1 DEF WriteBegin, HwType, MasterType, HistoryType, WritingPack
<1>2. CASE WriteEnd
  <2>1. nextPack \in 1..NPacks
    BY <1>2, HspiAssumption DEF WriteEnd, MasterType, WritingPack
  <2>2. Frag(nextPack, nextFrag) \in Fragments
    BY <2>1, FragType DEF MasterType
  <2>3. HwType' /\ HistoryType' /\ WritingPack'
    BY <1>2, <2>2 DEF WriteEnd, HwType, HistoryType, WritingPack
  <2>4. nextPack' \in 1..(NPacks + 1) /\ nextFrag' \in Nat
    BY <1>2, <2>1, HspiAssumption DEF WriteEnd, MasterType
  <2>5. MasterType'
    BY <1>2, <2>4 DEF WriteEnd, MasterType
  <2> QED
    BY <2>3, <2>5
<1>3. CASE ReadBegin
  <2>1. HwType' /\ HistoryType' /\ WritingPack'
    BY <1>3 DEF ReadBegin, HwType, HistoryType, WritingPack
  <2>2. rereads' \in 0..MaxRereads
    BY <1>3, HspiAssumption DEF ReadBegin, MasterType
  <2>3. MasterType'
    BY <1>3, <2>2 DEF ReadBegin, MasterType, HwType
  <2> QED
    BY <2>1, <2>3
<1>4. CASE ReadEnd
  <2> DEFINE got == IF snap = w8 THEN w8 ELSE Torn
             fs == IF StartBit(snap) THEN <<got>> ELSE Append(mbuf, got)
  <2>1. HwType' /\ WritingPack'
    BY <1>4 DEF ReadEnd, HwType, WritingPack
  <2>2. got \in Offers /\ mbuf \in Seq(Offers)
    BY TornType DEF HwType, MasterType
  <2> HIDE DEF got
  <2>3. fs \in Seq(Offers) /\ Len(fs) > 0
    BY <2>2
  <2>4. Whole(fs) \in 0..(NPacks + NMesh)
    BY <2>3, WholeType
  <2> HIDE DEF fs
  <2>5. /\ mbuf' = <<>> \/ mbuf' = fs
        /\ replies' = Append(replies, Whole(fs)) \/ replies' = replies
        /\ mst' = "idle" /\ fresh' \in {fresh, FALSE}
        /\ UNCHANGED <<nextPack, nextFrag, snap, rereads, nMesh, executed, clean, spoilt,
                       sentOk>>
    BY <1>4 DEF ReadEnd, fs, got
  <2>6. MasterType'
    <3>1. <<>> \in Seq(Offers)
      OBVIOUS
    <3>2. mbuf' \in Seq(Offers)
      BY <2>3, <2>5, <3>1
    <3> QED
      BY <2>5, <3>2 DEF MasterType
  <2>7. Append(replies, Whole(fs)) \in Seq(0..(NPacks + NMesh))
    BY <2>4 DEF HistoryType
  <2>8. HistoryType'
    <3>1. fresh' \in BOOLEAN /\ replies' \in Seq(0..(NPacks + NMesh))
      BY <2>5, <2>7 DEF HistoryType
    <3> QED
      BY <2>5, <3>1 DEF HistoryType
  <2> QED
    BY <2>1, <2>6, <2>8
<1> QED
  BY <1>1, <1>2, <1>3, <1>4 DEF Master

LEMMA StutterLink ==
  ASSUME LinkInv, UNCHANGED vars
  PROVE  LinkInv'
<1>1. HwType' /\ HandlerType' /\ RxType' /\ TxType' /\ MasterType' /\ HistoryType'
  <2>1. UNCHANGED <<hw, rx, tx, master, history, handler>>
    BY DEF vars
  <2> QED
    BY <2>1 DEF LinkInv, TypeOK, hw, rx, tx, master, history, handler,
            HwType, HandlerType, RxType, TxType, MasterType, HistoryType
<1> QED
  BY <1>1 DEF LinkInv, TypeOK, vars, hw, rx, tx, master, history, handler,
              NoWedge, HeaderThere, WritingPack

LEMMA LinkInvariant == Spec => []LinkInv
<1>1. LinkInv /\ [Next]_vars => LinkInv'
  BY IsrLink, RecvLink, MeshLink, SendLink, MasterLink, StutterLink DEF Next, Rest
<1> QED
  BY InitLink, <1>1, PTL DEF Spec

(* Every variable keeps its type, whatever the master does.                *)
THEOREM TypeCorrect == Spec => []TypeOK
<1>1. LinkInv => TypeOK
  BY DEF LinkInv
<1> QED
  BY LinkInvariant, <1>1, PTL

(* The receive buffer never stays closed with nobody to open it, although  *)
(* events are posted to queues of any length without looking whether they  *)
(* were taken (user_hspi.c:208-211, 299-310).                              *)
THEOREM NeverWedged == Spec => []NoWedge
<1>1. LinkInv => NoWedge
  BY DEF LinkInv
<1> QED
  BY LinkInvariant, <1>1, PTL

-----------------------------------------------------------------------------
(* With a patient master, command_execute runs only on whole packs, each   *)
(* at most once and in order -- for every number and length of packs, and  *)
(* whatever the fragments the master's speed makes the handler miss.       *)

(* The parts of PatientInv beside LinkInv.                                 *)
Parts == HandlerShape /\ TasksWait /\ GateInv /\ FlightInv
           /\ OrderInv /\ ReceivingInv /\ CompleteInv /\ HistoryInv

LEMMA InitPatient == Init => Parts
<1> SUFFICES ASSUME Init PROVE Parts
  OBVIOUS
<1>1. HandlerShape /\ TasksWait
  BY DEF Init, HandlerShape, TasksWait, Sending, WrPending
<1>2. GateInv
  BY DEF Init, GateInv, Sending, RecvPcs
<1>3. FlightInv
  BY DEF Init, FlightInv, Raised
<1>4. OrderInv
  <2>1. DOMAIN recv_pack = {}
    BY DEF Init
  <2> QED
    BY <2>1 DEF Init, OrderInv, Before, Torn, Frag
<1>5. ReceivingInv
  BY DEF Init, ReceivingInv
<1>6. CompleteInv
  BY DEF Init, CompleteInv
<1>7. HistoryInv
  <2>1. Len(executed) = 0
    BY DEF Init
  <2> QED
    BY <2>1 DEF HistoryInv
<1> QED
  BY <1>1, <1>2, <1>3, <1>4, <1>5, <1>6, <1>7 DEF Parts

-----------------------------------------------------------------------------
(* Steps of the send task, packets of the mesh and reads of the master     *)
(* change nothing that the parts speak of but cpu, sendQ, wifi_pack_send   *)
(* and mst.                                                                *)
LEMMA Aside ==
  ASSUME Parts, TasksWait',
         UNCHANGED <<w0, wrDone, isr, regWr, buf0, isReceive, pack_counter, rx,
                     nextPack, nextFrag, executed>>,
         Sending' <=> Sending,
         cpu' = cpu \/ (cpu \notin RecvPcs /\ cpu' \notin RecvPcs)
  PROVE  Parts'
<1> USE DEF Parts, rx
<1>1. Cur' = Cur
  BY DEF Cur
<1>2. HandlerShape'
  BY DEF HandlerShape
<1>3. GateInv'
  BY <1>1 DEF GateInv
<1>4. FlightInv'
  BY <1>1 DEF FlightInv, Raised, EndBit
<1>5. OrderInv'
  BY DEF OrderInv, Before
<1>6. ReceivingInv'
  BY DEF ReceivingInv
<1>7. CompleteInv'
  <2>1. \A p : Holds(p)' <=> Holds(p)
    BY DEF Holds
  <2>2. /\ cpu' \in {"header", "length", "crc", "execute"}
             => cpu \in {"header", "length", "crc", "execute"}
        /\ cpu' = "execute" => cpu = "execute"
    BY DEF RecvPcs
  <2> QED
    BY <1>1, <2>1, <2>2 DEF CompleteInv
<1>8. HistoryInv'
  <2>1. NotYet' => NotYet
    BY <1>1 DEF NotYet, WrPending, RecvPcs
  <2> QED
    BY <1>1, <2>1 DEF HistoryInv
<1> QED
  BY <1>2, <1>3, <1>4, <1>5, <1>6, <1>7, <1>8

LEMMA SendPatient ==
  ASSUME Parts, SendTask
  PROVE  Parts'
<1> USE DEF hw, handler, rx, master, history
<1>1. /\ UNCHANGED <<w0, wrDone, isr, regWr, buf0, isReceive, pack_counter, rx,
                     nextPack, nextFrag, executed, mst>>
      /\ cpu \notin RecvPcs /\ cpu' \notin RecvPcs
      /\ wifi_pack_send' = wifi_pack_send /\ (sendQ' = sendQ \/ sendQ > 0)
  BY DEF SendTask, SendTake, SendFragment, SendSpin, SendClaim, SendLoad, SendRaise, RecvPcs,
         tx
<1>2. (Sending' <=> Sending) /\ (WrPending' <=> WrPending)
  BY <1>1 DEF Sending, WrPending
<1>3. ReplyQueued' => ReplyQueued
  BY <1>1 DEF ReplyQueued
<1>4. TasksWait'
  BY <1>1, <1>2, <1>3 DEF Parts, TasksWait
<1> QED
  BY <1>1, <1>2, <1>4, Aside

LEMMA MeshPatient ==
  ASSUME LinkInv, Parts, MeshPacket
  PROVE  Parts'
<1>1. /\ UNCHANGED <<w0, wrDone, isr, regWr, buf0, isReceive, pack_counter, rx,
                     nextPack, nextFrag, executed, mst, cpu>>
      /\ wifi_pack_send' = NPacks + nMesh' /\ nMesh' = nMesh + 1
  BY DEF MeshPacket, hw, handler, rx, master
<1>2. (Sending' <=> Sending) /\ (WrPending' <=> WrPending)
  BY <1>1 DEF Sending, WrPending
<1>3. ~ReplyQueued'
  BY <1>1, HspiAssumption DEF ReplyQueued, Packs, LinkInv, TypeOK, HistoryType
<1>4. TasksWait'
  BY <1>1, <1>2, <1>3 DEF Parts, TasksWait
<1> QED
  BY <1>1, <1>2, <1>4, Aside

LEMMA ReadPatient ==
  ASSUME Parts, ReadBegin \/ ReadEnd
  PROVE  Parts'
<1> USE DEF hw, handler, rx, tx, history
<1>1. /\ UNCHANGED <<w0, wrDone, isr, regWr, buf0, isReceive, pack_counter, rx,
                     nextPack, nextFrag, executed, cpu, sendQ,
                     wifi_pack_send>>
      /\ mst # "write" /\ mst' # "write"
  BY DEF ReadBegin, ReadEnd
<1>2. Sending' <=> Sending
  BY <1>1 DEF Sending
<1>3. TasksWait'
  BY <1>1, <1>2 DEF Parts, TasksWait, WrPending, ReplyQueued
<1> QED
  BY <1>1, <1>2, <1>3, Aside

LEMMA StutterPatient ==
  ASSUME Parts, UNCHANGED vars
  PROVE  Parts'
<1>1. /\ UNCHANGED <<w0, wrDone, isr, regWr, buf0, isReceive, pack_counter, rx,
                     nextPack, nextFrag, executed, cpu, sendQ, wifi_pack_send, mst>>
  BY DEF vars, hw, handler, rx, tx, master, history
<1>2. Sending' <=> Sending
  BY <1>1 DEF Sending
<1>3. TasksWait'
  BY <1>1, <1>2 DEF Parts, TasksWait, WrPending, ReplyQueued
<1> QED
  BY <1>1, <1>2, <1>3, Aside

-----------------------------------------------------------------------------
(* The steps of the handler that take no fragment out of the registers.    *)
LEMMA HandlerAside ==
  ASSUME Parts, HandlerShape', isr' # "store", Raised' => Raised, WrPending' => WrPending,
         UNCHANGED <<w0, buf0, isReceive, pack_counter, rx, sendQ, wifi_pack_send, cpu,
                     mst, nextPack, nextFrag, executed>>
  PROVE  Parts'
<1> USE DEF Parts, rx
<1>1. /\ Sending' <=> Sending
      /\ Cur' = Cur
      /\ \A p : Holds(p)' <=> Holds(p)
  BY DEF Sending, Cur, Holds
<1>2. TasksWait' /\ GateInv'
  BY <1>1 DEF TasksWait, GateInv, ReplyQueued
<1>3. FlightInv'
  BY <1>1 DEF FlightInv, EndBit
<1>4. OrderInv' /\ ReceivingInv'
  BY DEF OrderInv, Before, ReceivingInv
<1>5. CompleteInv'
  BY <1>1 DEF CompleteInv
<1>6. HistoryInv'
  BY <1>1 DEF HistoryInv, NotYet
<1> QED
  BY <1>2, <1>3, <1>4, <1>5, <1>6

LEMMA EnterPatient ==
  ASSUME Parts, IsrEnter
  PROVE  Parts'
<1>1. /\ isr = "off" /\ isr' = "clear" /\ regWr' = wrDone /\ wrDone' = wrDone
      /\ UNCHANGED <<w0, buf0, isReceive, pack_counter, rx, sendQ, wifi_pack_send, cpu,
                     mst, nextPack, nextFrag, executed>>
  BY DEF IsrEnter, hw, tx, master, history
<1> QED
  BY <1>1, HandlerAside DEF HandlerShape, Raised, WrPending

LEMMA ClearPatient ==
  ASSUME Parts, IsrClear
  PROVE  Parts'
<1>1. /\ isr = "clear" /\ regWr' = regWr /\ wrDone' = FALSE
      /\ isr' \in {"read0", "leave"} /\ (isr' = "read0" => regWr)
      /\ UNCHANGED <<w0, buf0, isReceive, pack_counter, rx, sendQ, wifi_pack_send, cpu,
                     mst, nextPack, nextFrag, executed>>
  BY DEF IsrClear, tx, master, history
<1> QED
  BY <1>1, HandlerAside DEF HandlerShape, Raised, WrPending

LEMMA LeavePatient ==
  ASSUME Parts, IsrLeave
  PROVE  Parts'
<1>1. /\ isr = "leave" /\ isr' = "off" /\ regWr' = regWr /\ wrDone' = wrDone
      /\ UNCHANGED <<w0, buf0, isReceive, pack_counter, rx, sendQ, wifi_pack_send, cpu,
                     mst, nextPack, nextFrag, executed>>
  BY DEF IsrLeave, master, history
<1> QED
  BY <1>1, HandlerAside DEF HandlerShape, Raised, WrPending

LEMMA Read0Patient ==
  ASSUME LinkInv, Parts, IsrRead0
  PROVE  Parts'
<1> USE DEF Parts, hw, rx, tx, master, history
<1>1. /\ isr = "read0" /\ isr' = "store" /\ buf0' = w0
      /\ UNCHANGED <<w0, wrDone, regWr, isReceive, pack_counter, recv_pack, recv_lenth,
                     is_recv_pack, recvQ, hdr, sendQ, wifi_pack_send, cpu, mst, nextPack, nextFrag, executed>>
  BY DEF IsrRead0
<1>2. regWr /\ Raised
  BY <1>1 DEF HandlerShape, Raised
<1>3. /\ Sending' <=> Sending
      /\ Cur' = Cur
      /\ WrPending' => WrPending
      /\ \A p : Holds(p)' <=> Holds(p)
  BY <1>1 DEF Sending, Cur, WrPending, Holds
<1>4. HandlerShape' /\ TasksWait' /\ GateInv'
  BY <1>1, <1>2, <1>3 DEF HandlerShape, TasksWait, GateInv, ReplyQueued
<1>5. FlightInv'
  <2>1. w0.pack = Cur /\ Cur # 0 /\ (EndBit(w0, ReqLen) => ~Sending)
    BY <1>2 DEF FlightInv
  <2>2. EndBit(w0, ReqLen)' <=> EndBit(w0, ReqLen)
    BY <1>1 DEF EndBit
  <2>3. EndBit(buf0, ReqLen)' <=> EndBit(w0, ReqLen)
    BY <1>1 DEF EndBit
  <2> QED
    BY <1>1, <1>3, <2>1, <2>2, <2>3 DEF FlightInv
<1>6. OrderInv'
  <2>1. w0.pack \in Int /\ w0.idx \in Int
    BY DEF LinkInv, TypeOK, HwType, Fragments
  <2> QED
    BY <1>1, <2>1 DEF OrderInv, Before
<1>7. ReceivingInv'
  BY <1>1 DEF ReceivingInv
<1>8. CompleteInv'
  BY <1>1, <1>3 DEF CompleteInv
<1>9. HistoryInv'
  BY <1>1, <1>3 DEF HistoryInv, NotYet
<1> QED
  BY <1>4, <1>5, <1>6, <1>7, <1>8, <1>9

(* The step that stores a fragment, by cases: it is dropped, it is the     *)
(* last one of its pack, or another one.                                   *)
LEMMA StorePatient ==
  ASSUME LinkInv, Parts, IsrStore
  PROVE  Parts'
<1> USE DEF Parts
<1> DEFINE start == StartBit(buf0)
           slot == Slot(start)
           data == IF buf0 = w0 THEN w0 ELSE Torn
<1>1. /\ isr = "store" /\ isr' = "leave" /\ regWr
      /\ UNCHANGED <<w0, wrDone, regWr, buf0, sendQ, wifi_pack_send, cpu, mst, nextPack,
                     nextFrag, executed>>
  BY DEF IsrStore, HandlerShape, hw, tx, master, history
<1>2. cpu \notin RecvPcs /\ ~ReplyQueued /\ WrPending
  BY <1>1 DEF TasksWait, WrPending
<1>3. /\ Sending' <=> Sending
      /\ Cur' = Cur
      /\ Raised' => Raised
      /\ WrPending' => WrPending
  BY <1>1 DEF Sending, Cur, Raised, WrPending
<1>4. HandlerShape'
  BY <1>1 DEF HandlerShape
<1>5. CASE ~(~is_recv_pack /\ (isReceive \/ start))
  <2>1. UNCHANGED <<rx, isReceive, pack_counter>>
    BY <1>5 DEF IsrStore, rx
  <2> QED
    BY <1>1, <1>3, <1>4, <2>1, HandlerAside
<1>6. CASE ~is_recv_pack /\ (isReceive \/ start)
  <2>1. /\ buf0 \in Fragments /\ w0 \in Fragments
        /\ buf0.pack = Cur /\ Cur \in Packs /\ (EndBit(buf0, ReqLen) => ~Sending)
    <3>1. buf0 \in Fragments /\ w0 \in Fragments
      BY DEF LinkInv, TypeOK, HwType, HandlerType
    <3>2. buf0.pack = Cur /\ Cur # 0 /\ (EndBit(buf0, ReqLen) => ~Sending)
      BY <1>1 DEF FlightInv
    <3>3. buf0.pack \in 0..NPacks
      BY <3>1 DEF Fragments
    <3> QED
      BY <3>1, <3>2, <3>3, HspiAssumption DEF Packs
  <2>2. recvQ = 0
    BY <1>6 DEF GateInv, LinkInv, TypeOK, RxType
  <2>3. /\ recv_pack' = StoreSlot(slot, data)
        /\ \/ /\ EndBit(buf0, ReqLen) /\ isReceive' = FALSE
              /\ is_recv_pack' = TRUE /\ recvQ' = Post(recvQ)
           \/ /\ ~EndBit(buf0, ReqLen) /\ isReceive' = TRUE /\ pack_counter' = slot + 1
              /\ UNCHANGED <<is_recv_pack, recvQ>>
    BY <1>6 DEF IsrStore
  <2>4. /\ DOMAIN recv_pack' = DOMAIN recv_pack \cup {slot}
        /\ recv_pack'[slot] = data
        /\ \A s \in DOMAIN recv_pack : s # slot => recv_pack'[s] = recv_pack[s]
    BY <2>3 DEF StoreSlot
  <2>5. data = buf0 \/ data = Torn
    OBVIOUS
  <2>6. \/ start /\ slot = 0
        \/ ~start /\ isReceive /\ slot = pack_counter /\ slot >= 1
             /\ 0 \in DOMAIN recv_pack /\ slot # 0
    BY <1>6 DEF Slot, ReceivingInv, LinkInv, HeaderThere
  <2> HIDE DEF slot, data
  <2>7. TasksWait'
    BY <1>1, <1>2 DEF TasksWait, ReplyQueued
  <2>8. GateInv'
    <3>1. Post(recvQ) = 1
      BY <2>2, HspiAssumption DEF Post
    <3>2. CASE EndBit(buf0, ReqLen)
      BY <1>1, <1>2, <1>3, <2>1, <2>3, <3>1, <3>2 DEF GateInv, RecvPcs
    <3>3. CASE ~EndBit(buf0, ReqLen)
      BY <1>1, <1>3, <2>3, <3>3 DEF GateInv
    <3> QED
      BY <3>2, <3>3
  <2>9. FlightInv'
    BY <1>1, <1>3 DEF FlightInv, EndBit
  <2>10. OrderInv'
    <3>1. Before(data, w0)
      BY <2>1, <2>5 DEF OrderInv, Before, Torn, Frag, Fragments
    <3>2. \A s \in DOMAIN recv_pack' : Before(recv_pack'[s], w0)
      BY <2>4, <3>1 DEF OrderInv
    <3> QED
      BY <1>1, <3>2 DEF OrderInv, Before
  <2>11. ReceivingInv'
    <3>1. CASE EndBit(buf0, ReqLen)
      BY <2>3, <3>1 DEF ReceivingInv
    <3>2. CASE ~EndBit(buf0, ReqLen)
      <4>1. pack_counter' >= 1
        <5>1. slot \in Nat
          BY <2>6 DEF LinkInv, TypeOK, HandlerType
        <5> QED
          BY <2>3, <3>2, <5>1
      <4>2. data # LastFrag(Cur) /\ Cur # 0
        BY <2>1, <2>5, <3>2, HspiAssumption DEF EndBit, LastFrag, Frag, Torn, Fragments, Packs
      <4>3. \A q : data = LastFrag(q) /\ q # 0 => q = Cur
        BY <2>1, <2>5 DEF LastFrag, Frag, Torn
      <4>4. ASSUME NEW s \in DOMAIN recv_pack', recv_pack'[0].pack # 0
            PROVE  recv_pack'[s] # LastFrag(recv_pack'[0].pack)
        <5>1. CASE start
          <6>1. recv_pack'[0] = buf0 /\ data = buf0
            BY <2>4, <2>5, <2>6, <4>4, <5>1 DEF Torn, Frag
          <6>2. CASE s = slot
            BY <2>1, <2>4, <4>2, <6>1, <6>2
          <6>3. CASE s # slot
            <7>1. Before(recv_pack[s], buf0) /\ recv_pack'[s] = recv_pack[s]
              BY <1>1, <2>4, <6>3 DEF OrderInv
            <7>2. Num(ReqLen[Cur]) - 1 > 0
              <8>1. ReqLen[Cur] \in Nat \ {0}
                BY <2>1, HspiAssumption DEF Header
              <8>2. Num(ReqLen[Cur]) \in Nat \ {0}
                BY <8>1, FragmentationExact
              <8> QED
                BY <2>1, <3>2, <5>1, <8>2 DEF EndBit, StartBit, Packs
            <7>3. buf0.idx = 0
              BY <5>1 DEF StartBit
            <7>4. recv_pack[s] \in Fragments
              BY <2>4, <4>4, <6>3 DEF LinkInv, TypeOK, RxType
            <7>5. recv_pack[s].pack # Cur \/ recv_pack[s].idx <= 0
              BY <2>1, <7>1, <7>3, <7>4 DEF Before, Fragments, Packs
            <7>6. LastFrag(Cur).pack = Cur /\ LastFrag(Cur).idx > 0
              BY <7>2 DEF LastFrag, Frag
            <7> QED
              BY <2>1, <6>1, <7>1, <7>5, <7>6, <7>4 DEF Fragments
          <6> QED
            BY <6>2, <6>3
        <5>2. CASE ~start
          <6>1. recv_pack'[0] = recv_pack[0]
            BY <2>4, <2>6, <5>2
          <6>2. CASE s = slot
            <7>1. data = LastFrag(recv_pack'[0].pack) => recv_pack'[0].pack = Cur
              BY <4>3, <4>4
            <7> QED
              BY <2>4, <4>2, <6>2, <7>1
          <6>3. CASE s # slot
            BY <2>4, <2>6, <4>4, <5>2, <6>1, <6>3 DEF ReceivingInv
          <6> QED
            BY <6>2, <6>3
        <5> QED
          BY <5>1, <5>2
      <4> QED
        BY <4>1, <4>4 DEF ReceivingInv
    <3> QED
      BY <3>1, <3>2
  <2>12. CompleteInv'
    <3>1. ASSUME NEW p \in Packs, Holds(p)'
          PROVE  p = Cur
      <4>1. Num(ReqLen[p]) \in Nat \ {0}
        <5>1. ReqLen[p] \in Nat \ {0}
          BY HspiAssumption DEF Header
        <5> QED
          BY <5>1, FragmentationExact
      <4>2. p # 0 /\ 0 \in 0..(Num(ReqLen[p]) - 1)
              /\ Num(ReqLen[p]) - 1 \in 0..(Num(ReqLen[p]) - 1)
        BY <4>1 DEF Packs
      <4>3. /\ recv_pack'[0] = Frag(p, 0)
            /\ Num(ReqLen[p]) - 1 \in DOMAIN recv_pack'
            /\ recv_pack'[Num(ReqLen[p]) - 1] = LastFrag(p)
        BY <3>1, <4>2 DEF Holds, LastFrag
      <4>4. \A k : data = Frag(p, k) => p = Cur
        BY <2>1, <2>5, <4>2 DEF Frag, Torn
      <4>5. CASE start
        BY <2>4, <2>6, <4>3, <4>4, <4>5
      <4>6. CASE ~start
        <5>1. recv_pack[0] = Frag(p, 0)
          BY <2>4, <2>6, <4>3, <4>6
        <5>2. \A s \in DOMAIN recv_pack : recv_pack[s] # LastFrag(p)
          BY <2>6, <4>2, <4>6, <5>1 DEF ReceivingInv, Frag
        <5>3. Num(ReqLen[p]) - 1 = slot
          BY <2>4, <4>3, <5>2
        <5> QED
          BY <2>4, <4>3, <4>4, <5>3 DEF LastFrag
      <4> QED
        BY <4>5, <4>6
    <3>2. cpu' \notin {"header", "length", "crc", "execute"}
      BY <1>1, <1>2 DEF RecvPcs
    <3> QED
      BY <1>3, <3>1, <3>2 DEF CompleteInv
  <2>13. HistoryInv'
    BY <1>1, <1>2, <1>3 DEF HistoryInv, NotYet, RecvPcs
  <2> QED
    BY <1>4, <2>7, <2>8, <2>9, <2>10, <2>11, <2>12, <2>13
<1> QED
  BY <1>5, <1>6
LEMMA IsrPatient ==
  ASSUME LinkInv, Parts, Isr
  PROVE  Parts'
BY EnterPatient, ClearPatient, Read0Patient, StorePatient, LeavePatient DEF Isr

-----------------------------------------------------------------------------
(* The master writes.  Only here it matters that it is patient.            *)
LEMMA WriteBeginPatient ==
  ASSUME Patient, LinkInv, Parts, WriteBegin
  PROVE  Parts'
<1> USE DEF Parts
<1>1. /\ mst = "idle" /\ mst' = "write"
      /\ UNCHANGED <<w0, wrDone, isr, regWr, buf0, isReceive, pack_counter, rx,
                     nextPack, nextFrag, executed, cpu, sendQ,
                     wifi_pack_send>>
  BY DEF WriteBegin, hw, handler, tx, history
<1>2. Sending'
  BY <1>1 DEF Sending
<1>3. nextFrag \in Nat /\ nextPack \in Int
  BY DEF LinkInv, TypeOK, MasterType
<1>4. CASE nextFrag > 0
  <2>1. Sending
    BY <1>4 DEF Sending
  <2>2. TasksWait'
    BY <1>1, <2>1 DEF TasksWait, ReplyQueued
  <2> QED
    BY <1>1, <1>2, <2>1, <2>2, Aside
<1>5. CASE nextFrag = 0
  <2>1. isr = "off" /\ ~wrDone /\ cpu \notin RecvPcs /\ recvQ = 0 /\ ~ReplyQueued
    BY <1>5 DEF WriteBegin, DoneWith, Answering
  <2>2. ~is_recv_pack
    BY <2>1 DEF LinkInv, NoWedge
  <2>3. Cur = nextPack - 1 /\ Cur' = nextPack
    BY <1>1, <1>2, <1>5 DEF Cur, Sending
  <2>4. HandlerShape' /\ TasksWait' /\ GateInv' /\ FlightInv' /\ CompleteInv'
    BY <1>1, <2>1, <2>2 DEF rx, HandlerShape, TasksWait, GateInv, FlightInv, Raised,
                            CompleteInv, RecvPcs, ReplyQueued
  <2>5. OrderInv' /\ ReceivingInv'
    BY <1>1 DEF rx, OrderInv, Before, ReceivingInv
  <2>6. HistoryInv'
    <3>1. \A k \in 1..Len(executed) : executed[k] \in Int
      <4>1. executed \in Seq(0..NPacks)
        BY DEF LinkInv, TypeOK, HistoryType
      <4>2. \A k \in 1..Len(executed) : executed[k] \in 0..NPacks
        BY <4>1, ElementOfSeq
      <4> QED
        BY <4>2
    <3> QED
      BY <1>1, <1>3, <2>3, <3>1 DEF HistoryInv
  <2> QED
    BY <2>4, <2>5, <2>6
<1> QED
  BY <1>3, <1>4, <1>5

LEMMA WriteEndPatient ==
  ASSUME LinkInv, Parts, WriteEnd
  PROVE  Parts'
<1> USE DEF Parts
<1>1. /\ mst = "write" /\ mst' = "idle" /\ wrDone' = TRUE
      /\ w0' = Frag(nextPack, nextFrag)
      /\ \/ /\ EndBit(Frag(nextPack, nextFrag), ReqLen)
            /\ nextPack' = nextPack + 1 /\ nextFrag' = 0
         \/ /\ ~EndBit(Frag(nextPack, nextFrag), ReqLen)
            /\ nextPack' = nextPack /\ nextFrag' = nextFrag + 1
      /\ UNCHANGED <<isr, regWr, buf0, isReceive, pack_counter, rx, executed, cpu, sendQ,
                     wifi_pack_send>>
  BY DEF WriteEnd, handler, tx, history
<1>2. nextFrag \in Nat /\ nextPack \in Nat \ {0}
  BY DEF LinkInv, TypeOK, MasterType
<1>3. Sending /\ Cur = nextPack /\ Cur' = nextPack
  BY <1>1, <1>2 DEF Sending, Cur
<1>4. cpu \notin RecvPcs /\ ~ReplyQueued /\ recvQ = 0 /\ ~is_recv_pack
  BY <1>3 DEF TasksWait, GateInv
<1>5. EndBit(Frag(nextPack, nextFrag), ReqLen) => ~Sending'
  BY <1>1 DEF Sending
<1>6. HandlerShape' /\ TasksWait' /\ GateInv' /\ CompleteInv'
  BY <1>1, <1>4 DEF rx, HandlerShape, TasksWait, GateInv, CompleteInv, RecvPcs, ReplyQueued
<1>7. FlightInv'
  <2>1. w0'.pack = nextPack
    BY <1>1 DEF Frag
  <2>2. EndBit(w0, ReqLen)' <=> EndBit(Frag(nextPack, nextFrag), ReqLen)
    BY <1>1 DEF EndBit
  <2>3. EndBit(buf0, ReqLen)' <=> EndBit(buf0, ReqLen)
    BY <1>1 DEF EndBit
  <2> QED
    BY <1>1, <1>2, <1>3, <1>5, <2>1, <2>2, <2>3 DEF FlightInv
<1>8. OrderInv'
  <2>1. w0 \in Fragments
    BY DEF LinkInv, TypeOK, HwType
  <2>2. ASSUME NEW f \in Fragments, Before(f, w0)
        PROVE  Before(f, w0')
    BY <1>1, <1>2, <2>1, <2>2 DEF OrderInv, Before, Frag, Fragments
  <2>3. Before(buf0, w0)'
    BY <1>1, <2>2 DEF OrderInv, LinkInv, TypeOK, HandlerType, Before
  <2>4. w0'.pack < nextPack' \/ (w0'.pack = nextPack' /\ w0'.idx < nextFrag')
    BY <1>1, <1>2 DEF Frag
  <2>5. \A s \in DOMAIN recv_pack :
          Before(recv_pack[s], w0') /\ (isr = "store" => Before(recv_pack[s], buf0))
    BY <2>2 DEF OrderInv, LinkInv, TypeOK, RxType
  <2> QED
    BY <1>1, <2>3, <2>4, <2>5 DEF rx, OrderInv, Before
<1>9. ReceivingInv'
  BY <1>1 DEF rx, ReceivingInv
<1>10. HistoryInv'
  BY <1>1, <1>3 DEF HistoryInv, NotYet
<1> QED
  BY <1>6, <1>7, <1>8, <1>9, <1>10

-----------------------------------------------------------------------------
(* The receive task.                                                       *)
LEMMA TakePatient ==
  ASSUME LinkInv, Parts, RecvTake
  PROVE  Parts'
<1> USE DEF Parts
<1>1. /\ isr = "off" /\ ~wrDone /\ cpu = "idle" /\ recvQ > 0
      /\ recvQ' = recvQ - 1 /\ cpu' = "header"
      /\ UNCHANGED <<w0, wrDone, isr, regWr, buf0, isReceive, pack_counter, recv_pack,
                     recv_lenth, is_recv_pack, hdr, mst, nextPack, nextFrag, executed>>
  BY DEF RecvTake, TaskRuns, hw, handler, tx, master, history
<1>2. recvQ = 1 /\ is_recv_pack /\ ~Sending
  BY <1>1 DEF GateInv, LinkInv, TypeOK, RxType
<1>3. ~Sending' /\ ~WrPending' /\ Cur' = Cur /\ \A p : Holds(p)' <=> Holds(p)
  BY <1>1, <1>2 DEF Sending, WrPending, Cur, Holds
<1>4. HandlerShape' /\ TasksWait' /\ GateInv' /\ FlightInv'
  BY <1>1, <1>2, <1>3 DEF HandlerShape, TasksWait, GateInv, FlightInv, Raised
<1>5. OrderInv' /\ ReceivingInv'
  BY <1>1 DEF OrderInv, Before, ReceivingInv
<1>6. CompleteInv'
  BY <1>1, <1>3 DEF CompleteInv
<1>7. HistoryInv'
  BY <1>1, <1>3 DEF HistoryInv, NotYet
<1> QED
  BY <1>4, <1>5, <1>6, <1>7

(* The steps from the header copy to the second reset leave the buffer and *)
(* what is in flight alone.                                                *)
LEMMA ProcessingAside ==
  ASSUME LinkInv, Parts, HistoryInv', isr = "off", ~wrDone, cpu \in RecvPcs,
         UNCHANGED <<w0, wrDone, isr, regWr, buf0, isReceive, pack_counter, recv_pack,
                     recvQ, mst, nextPack, nextFrag>>,
         cpu' \in RecvPcs \ {"reset"} => is_recv_pack',
         cpu' \in {"header", "length", "crc", "execute"}
           => cpu \in {"header", "length", "crc", "execute"},
         cpu' = "execute" => Holds(hdr)'
  PROVE  Parts'
<1> USE DEF Parts
<1>1. ~Sending /\ ~WrPending /\ recvQ = 0
  BY DEF TasksWait, GateInv, RecvPcs, LinkInv, TypeOK, RxType
<1>2. ~Sending' /\ ~WrPending' /\ Cur' = Cur /\ \A p : Holds(p)' <=> Holds(p)
  BY <1>1 DEF Sending, WrPending, Cur, Holds
<1>3. HandlerShape' /\ TasksWait' /\ GateInv' /\ FlightInv'
  BY <1>1, <1>2 DEF HandlerShape, TasksWait, GateInv, FlightInv, Raised
<1>4. OrderInv' /\ ReceivingInv'
  BY DEF OrderInv, Before, ReceivingInv
<1>5. CompleteInv'
  BY <1>1, <1>2 DEF CompleteInv
<1> QED
  BY <1>3, <1>4, <1>5


LEMMA ExecutePatient ==
  ASSUME LinkInv, Parts, RecvExecute
  PROVE  Parts'
<1>1. /\ isr = "off" /\ ~wrDone /\ cpu = "execute" /\ cpu' = "done"
      /\ executed' = Append(executed, IF Holds(hdr) THEN hdr ELSE 0)
      /\ UNCHANGED <<w0, wrDone, isr, regWr, buf0, isReceive, pack_counter, recv_pack,
                     recv_lenth, is_recv_pack, recvQ, hdr, mst, nextPack, nextFrag>>
  BY DEF RecvExecute, TaskRuns, hw, handler, rx, master
<1>2. is_recv_pack /\ cpu \in RecvPcs
  BY <1>1 DEF Parts, GateInv, RecvPcs
<1>3. Holds(hdr) /\ hdr # 0 /\ hdr = Cur
  <2>1. Holds(hdr)
    BY <1>1 DEF Parts, CompleteInv
  <2>2. hdr \in 0..NPacks
    BY DEF LinkInv, TypeOK, RxType
  <2>3. hdr \in Packs
    BY <2>1, <2>2, HspiAssumption DEF Holds, Packs
  <2> QED
    BY <1>1, <2>1, <2>3 DEF Parts, CompleteInv, Holds
<1>4. HistoryInv'
  <2>1. executed \in Seq(0..NPacks) /\ executed' = Append(executed, hdr)
    BY <1>1, <1>3 DEF LinkInv, TypeOK, HistoryType
  <2>2. /\ Len(executed') = Len(executed) + 1
        /\ executed'[Len(executed) + 1] = hdr
        /\ \A k \in 1..Len(executed) : executed'[k] = executed[k]
        /\ Len(executed) \in Nat
    BY <2>1
  <2>3. \A k \in 1..Len(executed) : /\ executed[k] # 0 /\ executed[k] < Cur
                                     /\ \A j \in 1..(k - 1) : executed[j] < executed[k]
    BY <1>1 DEF Parts, HistoryInv, NotYet
  <2>4. ~Sending /\ ~WrPending /\ recvQ = 0
    BY <1>1, <1>2 DEF Parts, TasksWait, GateInv, LinkInv, TypeOK, RxType
  <2>5. ~NotYet' /\ Cur' = Cur
    BY <1>1, <2>4 DEF NotYet, Sending, WrPending, Cur
  <2>6. Cur \in Int
    BY <1>3, HspiAssumption DEF LinkInv, TypeOK, RxType
  <2>7. ASSUME NEW k \in 1..Len(executed')
        PROVE  /\ executed'[k] # 0 /\ executed'[k] <= Cur
               /\ \A j \in 1..(k - 1) : executed'[j] < executed'[k]
    <3>1. CASE k = Len(executed) + 1
      <4>1. \A j \in 1..(k - 1) : executed'[j] = executed[j] /\ j \in 1..Len(executed)
        BY <2>2, <3>1
      <4> QED
        BY <1>3, <2>2, <2>3, <2>6, <3>1, <4>1
    <3>2. CASE k # Len(executed) + 1
      <4>1. k \in 1..Len(executed)
        BY <2>2, <3>2
      <4>2. \A j \in 1..(k - 1) : executed'[j] = executed[j]
        BY <2>2, <4>1
      <4>3. executed[k] \in 0..NPacks
        BY <2>1, <4>1, ElementOfSeq
      <4> QED
        BY <2>2, <2>3, <2>6, <4>1, <4>2, <4>3
    <3> QED
      BY <3>1, <3>2
  <2> QED
    BY <2>5, <2>7 DEF HistoryInv
<1>5. Holds(hdr)' <=> Holds(hdr)
  BY <1>1 DEF Holds
<1> QED
  BY <1>1, <1>2, <1>4, <1>5, ProcessingAside

LEMMA RecvPatient ==
  ASSUME LinkInv, Parts, RecvTask
  PROVE  Parts'
<1> USE DEF hw, handler, rx, tx, master, history, TaskRuns
<1>1. CASE RecvTake
  BY <1>1, TakePatient
<1>2. CASE RecvExecute
  BY <1>2, ExecutePatient
<1>3. ASSUME cpu \in RecvPcs, executed' = executed, recvQ' = recvQ,
             UNCHANGED <<wrDone, isr, regWr, mst, nextPack, nextFrag>>,
             cpu' \in {"header", "length", "crc", "execute"}
               => cpu \in {"header", "length", "crc", "execute"}
      PROVE  HistoryInv'
  <2>1. NotYet' => NotYet
    BY <1>3 DEF NotYet, Sending, WrPending
  <2>2. Cur' = Cur
    BY <1>3 DEF Cur, Sending
  <2> QED
    BY <1>3, <2>1, <2>2 DEF Parts, HistoryInv
<1>4. CASE RecvHeader
  <2>1. cpu \in RecvPcs /\ is_recv_pack
    BY <1>4 DEF RecvHeader, RecvPcs, Parts, GateInv
  <2>2. HistoryInv'
    BY <1>3, <1>4, <2>1 DEF RecvHeader
  <2> QED
    BY <1>4, <2>1, <2>2, ProcessingAside DEF RecvHeader
<1>5. CASE RecvLength
  <2>1. cpu \in RecvPcs /\ is_recv_pack
    BY <1>5 DEF RecvLength, Check, RecvPcs, Parts, GateInv
  <2>2. HistoryInv'
    BY <1>3, <1>5, <2>1 DEF RecvLength, Check
  <2> QED
    BY <1>5, <2>1, <2>2, ProcessingAside DEF RecvLength, Check
<1>6. CASE RecvCrc
  <2>1. cpu \in RecvPcs /\ is_recv_pack
    BY <1>6 DEF RecvCrc, Check, RecvPcs, Parts, GateInv
  <2>2. HistoryInv'
    BY <1>3, <1>6, <2>1 DEF RecvCrc, Check
  <2>3. cpu' = "execute" => Holds(hdr)
    BY <1>6 DEF RecvCrc, Check
  <2>4. Holds(hdr)' <=> Holds(hdr)
    BY <1>6 DEF RecvCrc, Check, Holds
  <2> QED
    BY <1>6, <2>1, <2>2, <2>3, <2>4, ProcessingAside DEF RecvCrc, Check
<1>7. CASE RecvDone \/ RecvReset
  <2>1. cpu \in RecvPcs /\ cpu' \in {"reset", "idle"}
    BY <1>7 DEF RecvDone, RecvReset, Reopen, RecvPcs
  <2>2. HistoryInv'
    BY <1>3, <1>7, <2>1 DEF RecvDone, RecvReset, Reopen
  <2> QED
    BY <1>7, <2>1, <2>2, ProcessingAside DEF RecvDone, RecvReset, Reopen, RecvPcs
<1> QED
  BY <1>1, <1>2, <1>4, <1>5, <1>6, <1>7 DEF RecvTask

-----------------------------------------------------------------------------
LEMMA PatientInvariant ==
  ASSUME Patient
  PROVE  Spec => []PatientInv
<1>1. LinkInv /\ Parts <=> PatientInv
  BY DEF Parts, PatientInv
<1>2. Init => Parts
  BY InitPatient
<1>3. LinkInv /\ Parts /\ [Next]_vars => Parts'
  BY IsrPatient, RecvPatient, MeshPatient, SendPatient, WriteBeginPatient, WriteEndPatient,
     ReadPatient, StutterPatient
  DEF Next, Master, Rest
<1> QED
  BY <1>1, <1>2, <1>3, LinkInvariant, PTL DEF Spec

(* A patient master's commands are executed faithfully: only packs that    *)
(* were sent whole, each at most once, in the order they were sent, for    *)
(* all lengths and numbers of packs and although fragments may be missed,  *)
(* torn, or read twice by the handler (user_hspi.c:128-225, 299-355).      *)
THEOREM Faithful ==
  ASSUME Patient
  PROVE  Spec => []FaithfulExecution
<1>1. PatientInv => FaithfulExecution
  <2> SUFFICES ASSUME PatientInv, NEW k \in 1..Len(executed)
               PROVE  executed[k] < nextPack
    BY DEF PatientInv, HistoryInv, FaithfulExecution
  <2>1. executed[k] \in Int
    <3>1. executed \in Seq(0..NPacks)
      BY DEF PatientInv, LinkInv, TypeOK, HistoryType
    <3>2. executed[k] \in 0..NPacks
      BY <3>1, ElementOfSeq
    <3> QED
      BY <3>2
  <2>2. nextPack \in Int
    BY DEF PatientInv, LinkInv, TypeOK, MasterType
  <2>3. executed[k] <= Cur /\ (Sending => executed[k] < Cur)
    BY DEF PatientInv, HistoryInv, NotYet
  <2> QED
    BY <2>1, <2>2, <2>3 DEF Cur
<1> QED
  BY <1>1, PatientInvariant, PTL

(* Command's steps Fragment and Arrive stand for the handler's writes to   *)
(* recv_pack.  Their guards are what a patient master, paced or not, makes *)
(* true: the handler writes only when the last command has been executed   *)
(* (is_recv_pack), when no task is half-way through recv_pack, and, what   *)
(* Command calls patience, when no reply waits to be copied -- although    *)
(* packets of the mesh may be queued, copied and sent at that time         *)
(* (user_hspi.c:166-215, mesh_bin.c:26-33).                                *)
THEOREM RecvPackQuiet ==
  ASSUME Patient
  PROVE  Spec => QuietArrival
<1> DEFINE Quiet == recv_pack' # recv_pack => ~is_recv_pack /\ cpu \notin RecvPcs /\ ~ReplyQueued
<1>1. PatientInv /\ [Next]_vars => [Quiet]_vars
  <2> SUFFICES ASSUME PatientInv, [Next]_vars, recv_pack' # recv_pack
               PROVE  ~is_recv_pack /\ cpu \notin RecvPcs /\ ~ReplyQueued
    OBVIOUS
  <2>1. IsrStore
    BY DEF Next, Isr, IsrEnter, IsrClear, IsrRead0, IsrLeave,
           RecvTask, RecvTake, RecvHeader, RecvLength, RecvCrc, Check, RecvExecute, RecvDone,
           RecvReset, Reopen, MeshPacket, SendTask, SendTake, SendFragment, SendSpin, SendClaim, SendLoad,
           SendRaise, Master, WriteBegin, WriteEnd, ReadBegin, ReadEnd, Rest, vars, rx
  <2>2. isr = "store" /\ ~is_recv_pack
    BY <2>1 DEF IsrStore
  <2>3. WrPending
    BY <2>2 DEF PatientInv, HandlerShape, WrPending
  <2> QED
    BY <2>2, <2>3 DEF PatientInv, TasksWait
<1>2. Spec => [][Quiet]_vars
  BY <1>1, PatientInvariant, PTL DEF Spec
<1> QED
  BY <1>2 DEF QuietArrival
=============================================================================
