--------------------------- MODULE HspiPacedProofs ---------------------------
(***************************************************************************)
(* With a paced master no fragment is missed or torn.  From that follow    *)
(* the bound of the receive buffer, for a master that is patient too that  *)
(* no command is lost, and what a result of spi_send_data is worth while   *)
(* no sending begins next to an unread fragment -- for every number and    *)
(* length of packs, replies and packets of the mesh.                       *)
(***************************************************************************)
EXTENDS HspiProofs

PacedParts == PaceInv /\ PlaceInv /\ CountInv /\ BufferBound

(* The length of a pack amounts to at least one fragment, and so does that *)
(* of what is sent.                                                        *)
LEMMA NumPositive ==
  ASSUME NEW p \in Packs
  PROVE  Num(ReqLen[p]) \in Nat \ {0}
<1>1. ReqLen[p] \in Nat \ {0}
  BY HspiAssumption DEF Header
<1> QED
  BY <1>1, FragmentationExact

LEMMA SentNumPositive ==
  ASSUME NEW p \in Outgoing
  PROVE  Num(RepLen[p]) \in Nat \ {0}
<1>1. RepLen[p] \in Nat \ {0}
  BY HspiAssumption DEF Header
<1> QED
  BY <1>1, FragmentationExact

LEMMA InitPaced == Init => PacedParts
<1> SUFFICES ASSUME Init PROVE PacedParts
  OBVIOUS
<1>1. PaceInv /\ CountInv
  BY DEF Init, PaceInv, CountInv
<1>2. PlaceInv
  <2>1. 1 <= NPacks => 0 < Num(ReqLen[1])
    BY NumPositive, HspiAssumption DEF Packs
  <2> QED
    BY <2>1 DEF Init, PlaceInv, Unstored
<1>3. BufferBound
  <2>1. DOMAIN recv_pack = {}
    BY DEF Init
  <2> QED
    BY <2>1 DEF BufferBound
<1> QED
  BY <1>1, <1>2, <1>3 DEF PacedParts

-----------------------------------------------------------------------------
(* A step that neither moves a fragment nor stores one.                    *)
LEMMA PacedAside ==
  ASSUME PacedParts, PaceInv', Unstored' <=> Unstored,
         isReceive' => isReceive, is_recv_pack' => is_recv_pack,
         UNCHANGED <<w0, nextPack, nextFrag, pack_counter, recv_pack>>
  PROVE  PacedParts'
<1>1. Exp' = Exp
  BY DEF Exp
<1>2. CountInv'
  BY <1>1 DEF PacedParts, CountInv
<1>3. PlaceInv'
  BY DEF PacedParts, PlaceInv, EndBit
<1>4. BufferBound'
  BY DEF PacedParts, BufferBound
<1> QED
  BY <1>2, <1>3, <1>4 DEF PacedParts

LEMMA TaskPaced ==
  ASSUME PacedParts, RecvTask \/ MeshPacket \/ SendTask
  PROVE  PacedParts'
<1>1. /\ UNCHANGED <<w0, wrDone, rdDone, isr, regWr, regRd, buf0, isReceive, pack_counter,
                     recv_pack, mst, nextPack, nextFrag>>
      /\ is_recv_pack' => is_recv_pack
  BY DEF RecvTask, RecvTake, RecvHeader, RecvLength, RecvCrc, Check, RecvExecute, RecvDone,
         RecvReset, Reopen, MeshPacket, SendTask, SendTake, SendFragment, SendSpin, SendClaim,
         SendLoad, SendRaise, hw, handler, rx, master
<1>2. PaceInv'
  BY <1>1 DEF PacedParts, PaceInv
<1>3. Unstored' <=> Unstored
  BY <1>1 DEF Unstored
<1> QED
  BY <1>1, <1>2, <1>3, PacedAside

LEMMA StutterPaced ==
  ASSUME PacedParts, UNCHANGED vars
  PROVE  PacedParts'
<1>1. UNCHANGED <<w0, wrDone, rdDone, isr, regWr, regRd, buf0, isReceive, pack_counter,
                  recv_pack, is_recv_pack, mst, nextPack, nextFrag>>
  BY DEF vars, hw, handler, rx, master
<1>2. PaceInv' /\ (Unstored' <=> Unstored)
  BY <1>1 DEF PacedParts, PaceInv, Unstored
<1> QED
  BY <1>1, <1>2, PacedAside

LEMMA HandlerPaced ==
  ASSUME LinkInv, PacedParts, IsrEnter \/ IsrClear \/ IsrRead0 \/ IsrLeave
  PROVE  PacedParts'
<1> USE DEF PacedParts
<1>1. CASE IsrEnter
  <2>1. /\ isr = "off" /\ (wrDone \/ rdDone) /\ isr' = "clear"
        /\ (regWr' <=> wrDone) /\ (regRd' <=> rdDone)
        /\ UNCHANGED <<w0, wrDone, rdDone, isReceive, pack_counter, recv_pack,
                       is_recv_pack, mst, nextPack, nextFrag>>
    BY <1>1 DEF IsrEnter, hw, rx, master
  <2>2. PaceInv'
    BY <2>1 DEF PaceInv
  <2>3. Unstored' <=> Unstored
    BY <2>1 DEF Unstored
  <2> QED
    BY <2>1, <2>2, <2>3, PacedAside
<1>2. CASE IsrClear
  <2>1. /\ isr = "clear" /\ ~wrDone' /\ ~rdDone' /\ isr' \in {"read0", "leave"}
        /\ isr' = "read0" <=> regWr
        /\ UNCHANGED <<w0, regWr, regRd, isReceive, pack_counter, recv_pack,
                       is_recv_pack, mst, nextPack, nextFrag>>
    BY <1>2 DEF IsrClear, rx, master
  <2>2. PaceInv'
    BY <2>1 DEF PaceInv
  <2>3. Unstored' <=> Unstored
    BY <2>1 DEF Unstored, PaceInv
  <2> QED
    BY <2>1, <2>2, <2>3, PacedAside
<1>3. CASE IsrRead0
  <2>1. /\ isr = "read0" /\ isr' = "store" /\ buf0' = w0
        /\ UNCHANGED <<w0, wrDone, rdDone, regWr, regRd, isReceive, pack_counter, recv_pack,
                       is_recv_pack, mst, nextPack, nextFrag>>
    BY <1>3 DEF IsrRead0, hw, rx, master
  <2>2. PaceInv'
    BY <2>1 DEF PaceInv
  <2>3. Unstored' <=> Unstored
    BY <2>1 DEF Unstored
  <2> QED
    BY <2>1, <2>2, <2>3, PacedAside
<1>4. CASE IsrLeave
  <2>1. /\ isr = "leave" /\ isr' = "off"
        /\ UNCHANGED <<w0, wrDone, rdDone, regWr, regRd, isReceive, pack_counter, recv_pack,
                       is_recv_pack, mst, nextPack, nextFrag>>
    BY <1>4 DEF IsrLeave, rx, master
  <2>2. PaceInv'
    BY <2>1 DEF PaceInv
  <2>3. Unstored' <=> Unstored
    BY <2>1 DEF Unstored
  <2> QED
    BY <2>1, <2>2, <2>3, PacedAside
<1> QED
  BY <1>1, <1>2, <1>3, <1>4

(* What the handler does with a fragment that is neither missed nor torn:  *)
(* it is dropped, or it goes to the slot of its own number.                *)
LEMMA StoreExact ==
  ASSUME LinkInv, PacedParts, IsrStore
  PROVE  /\ isr = "store" /\ isr' = "leave" /\ regWr /\ ~wrDone /\ ~rdDone /\ mst = "idle"
         /\ Unstored /\ ~Unstored' /\ w0.pack \in Packs /\ w0.idx \in Nat
         /\ w0.idx < Num(ReqLen[w0.pack]) /\ Exp = w0 /\ Exp' = Frag(nextPack, nextFrag)
         /\ UNCHANGED <<hw, regWr, regRd, hdr, tx, cpu, master, history>>
         /\ \/ /\ is_recv_pack \/ (~isReceive /\ w0.idx # 0)
               /\ UNCHANGED <<recv_lenth, recv_pack, isReceive, pack_counter,
                              is_recv_pack, recvQ>>
            \/ /\ ~is_recv_pack /\ (isReceive \/ w0.idx = 0)
               /\ recv_pack' = StoreSlot(w0.idx, w0)
               /\ recv_lenth' = LengthSoFar(w0.idx = 0) + Bytes(w0, ReqLen)
               /\ \/ /\ EndBit(w0, ReqLen) /\ ~isReceive' /\ is_recv_pack'
                     /\ recvQ' = Post(recvQ)
                  \/ /\ ~EndBit(w0, ReqLen) /\ isReceive' /\ pack_counter' = w0.idx + 1
                     /\ UNCHANGED <<is_recv_pack, recvQ>>
<1>1. /\ isr = "store" /\ isr' = "leave"
      /\ UNCHANGED <<hw, regWr, regRd, hdr, tx, cpu, master, history>>
  BY DEF IsrStore
<1>2. regWr /\ ~wrDone /\ ~rdDone /\ mst = "idle" /\ buf0 = w0
  BY <1>1 DEF PacedParts, PaceInv
<1>3. Unstored /\ ~Unstored' /\ w0.pack \in Packs /\ w0.idx < Num(ReqLen[w0.pack])
  BY <1>1, <1>2 DEF Unstored, PacedParts, PlaceInv, hw
<1>4. w0.idx \in Nat
  BY DEF LinkInv, TypeOK, HwType, Fragments
<1>5. Exp = w0 /\ Exp' = Frag(nextPack, nextFrag)
  BY <1>1, <1>3 DEF Exp, master
<1>6. isReceive => pack_counter = w0.idx /\ ~is_recv_pack
  BY <1>5 DEF PacedParts, CountInv
<1>7. /\ StartBit(buf0) <=> w0.idx = 0
      /\ isReceive \/ w0.idx = 0 => Slot(StartBit(buf0)) = w0.idx
  BY <1>2, <1>6 DEF StartBit, Slot
<1>8. LengthSoFar(StartBit(buf0)) = LengthSoFar(w0.idx = 0)
  BY <1>7 DEF LengthSoFar
<1>9. CASE ~is_recv_pack /\ (isReceive \/ w0.idx = 0)
  BY <1>1, <1>2, <1>3, <1>4, <1>5, <1>7, <1>8, <1>9 DEF IsrStore
<1>10. CASE ~(~is_recv_pack /\ (isReceive \/ w0.idx = 0))
  BY <1>1, <1>2, <1>3, <1>4, <1>5, <1>7, <1>10 DEF IsrStore
<1> QED
  BY <1>9, <1>10

LEMMA StorePaced ==
  ASSUME LinkInv, PacedParts, IsrStore
  PROVE  PacedParts'
<1>1. /\ isr' = "leave" /\ ~wrDone' /\ ~rdDone' /\ mst' = "idle"
      /\ UNCHANGED <<nextPack, nextFrag>>
  BY StoreExact DEF hw, master
<1>2. PaceInv'
  BY <1>1 DEF PaceInv
<1>3. PlaceInv'
  BY <1>1, StoreExact DEF PacedParts, PlaceInv
<1>4. CountInv' /\ BufferBound'
  <2>1. CASE UNCHANGED <<recv_pack, isReceive, is_recv_pack, pack_counter>>
               /\ (is_recv_pack \/ ~isReceive)
    <3>1. ~isReceive
      BY <2>1 DEF PacedParts, CountInv
    <3> QED
      BY <2>1, <3>1 DEF PacedParts, CountInv, BufferBound
  <2>2. CASE /\ recv_pack' = StoreSlot(w0.idx, w0)
             /\ \/ EndBit(w0, ReqLen) /\ ~isReceive'
                \/ ~EndBit(w0, ReqLen) /\ pack_counter' = w0.idx + 1 /\ ~is_recv_pack'
    <3>1. DOMAIN recv_pack' = DOMAIN recv_pack \cup {w0.idx}
      BY <2>2 DEF StoreSlot
    <3>2. BufferBound'
      BY <3>1, StoreExact DEF PacedParts, BufferBound
    <3>3. CASE EndBit(w0, ReqLen) /\ ~isReceive'
      BY <3>2, <3>3 DEF CountInv
    <3>4. CASE ~EndBit(w0, ReqLen) /\ pack_counter' = w0.idx + 1 /\ ~is_recv_pack'
      <4>1. nextFrag = w0.idx + 1
        BY <3>4, StoreExact DEF PacedParts, PlaceInv
      <4>2. Exp'.idx = nextFrag
        BY StoreExact DEF Frag
      <4> QED
        BY <3>2, <3>4, <4>1, <4>2 DEF CountInv
    <3> QED
      BY <2>2, <3>3, <3>4
  <2> QED
    BY <2>1, <2>2, StoreExact
<1> QED
  BY <1>2, <1>3, <1>4 DEF PacedParts

-----------------------------------------------------------------------------
(* The master.                                                             *)
LEMMA BeginPaced ==
  ASSUME Paced, PacedParts, WriteBegin \/ ReadBegin
  PROVE  PacedParts'
<1>1. /\ isr = "off" /\ ~wrDone /\ ~rdDone
      /\ UNCHANGED <<w0, wrDone, rdDone, isr, regWr, regRd, buf0, isReceive, pack_counter,
                     recv_pack, is_recv_pack, nextPack, nextFrag>>
  BY DEF WriteBegin, ReadBegin, Settled, hw, handler, rx
<1>2. PaceInv' /\ (Unstored' <=> Unstored)
  BY <1>1 DEF PaceInv, Unstored
<1> QED
  BY <1>1, <1>2, PacedAside

LEMMA ReadEndPaced ==
  ASSUME PacedParts, ReadEnd
  PROVE  PacedParts'
<1>1. /\ mst = "read" /\ mst' = "idle"
      /\ UNCHANGED <<w0, wrDone, isr, regWr, regRd, buf0, isReceive, pack_counter,
                     recv_pack, is_recv_pack, nextPack, nextFrag>>
  BY DEF ReadEnd, handler, rx
<1>2. isr = "off"
  BY <1>1 DEF PacedParts, PaceInv
<1>3. PaceInv' /\ (Unstored' <=> Unstored)
  BY <1>1, <1>2 DEF PaceInv, Unstored
<1> QED
  BY <1>1, <1>3, PacedAside

(* What a write does when the handler was done with the one before.        *)
LEMMA WriteExact ==
  ASSUME LinkInv, PacedParts, WriteEnd
  PROVE  /\ mst = "write" /\ mst' = "idle" /\ isr = "off" /\ ~wrDone /\ ~rdDone
         /\ wrDone' /\ w0' = Frag(nextPack, nextFrag)
         /\ nextPack \in Packs /\ nextFrag \in Nat /\ nextFrag < Num(ReqLen[nextPack])
         /\ ~Unstored /\ Unstored' /\ Exp' = Exp /\ Exp = Frag(nextPack, nextFrag)
         /\ EndBit(w0', ReqLen) <=> nextFrag = Num(ReqLen[nextPack]) - 1
         /\ IF nextFrag = Num(ReqLen[nextPack]) - 1
            THEN nextPack' = nextPack + 1 /\ nextFrag' = 0
            ELSE nextPack' = nextPack /\ nextFrag' = nextFrag + 1
         /\ UNCHANGED <<w8, rdDone, gpio4, gpio5, handler, rx, tx, cpu, snap, rereads,
                        mbuf, history>>
<1>1. /\ mst = "write" /\ mst' = "idle" /\ wrDone' /\ w0' = Frag(nextPack, nextFrag)
      /\ UNCHANGED <<w8, rdDone, gpio4, gpio5, handler, rx, tx, cpu, snap, rereads,
                     mbuf, history>>
  BY DEF WriteEnd
<1>2. isr = "off" /\ ~wrDone /\ ~rdDone
  BY <1>1 DEF PacedParts, PaceInv
<1>3. nextPack \in Packs /\ nextFrag \in Nat
  BY <1>1, HspiAssumption DEF LinkInv, WritingPack, TypeOK, MasterType, Packs
<1>4. nextFrag < Num(ReqLen[nextPack])
  BY <1>3 DEF PacedParts, PlaceInv, Packs
<1>5. ~Unstored /\ Unstored'
  BY <1>1, <1>2 DEF Unstored
<1>6. Exp' = Exp /\ Exp = Frag(nextPack, nextFrag)
  BY <1>1, <1>5 DEF Exp
<1>7. EndBit(Frag(nextPack, nextFrag), ReqLen) <=> nextFrag = Num(ReqLen[nextPack]) - 1
  BY <1>3 DEF EndBit, Frag, Packs
<1>8. IF nextFrag = Num(ReqLen[nextPack]) - 1
      THEN nextPack' = nextPack + 1 /\ nextFrag' = 0
      ELSE nextPack' = nextPack /\ nextFrag' = nextFrag + 1
  BY <1>7 DEF WriteEnd
<1> QED
  BY <1>1, <1>2, <1>3, <1>4, <1>5, <1>6, <1>7, <1>8

LEMMA WriteEndPaced ==
  ASSUME LinkInv, PacedParts, WriteEnd
  PROVE  PacedParts'
<1>1. UNCHANGED <<isr, regWr, regRd, isReceive, pack_counter, recv_pack, is_recv_pack>>
  BY WriteExact DEF handler, rx
<1>2. PaceInv'
  BY <1>1, WriteExact DEF PaceInv
<1>3. CountInv' /\ BufferBound'
  BY <1>1, WriteExact DEF PacedParts, CountInv, BufferBound
<1>4. PlaceInv'
  <2>1. /\ w0'.pack = nextPack /\ w0'.idx = nextFrag
        /\ nextPack \in Packs /\ nextFrag \in Nat /\ nextFrag < Num(ReqLen[nextPack])
        /\ EndBit(w0', ReqLen) <=> nextFrag = Num(ReqLen[nextPack]) - 1
    BY WriteExact DEF Frag
  <2>2. Num(ReqLen[nextPack]) \in Nat
    BY <2>1, NumPositive
  <2>3. CASE nextFrag = Num(ReqLen[nextPack]) - 1
    <3>1. nextPack' = nextPack + 1 /\ nextFrag' = 0 /\ EndBit(w0', ReqLen)
      BY <2>1, <2>3, WriteExact
    <3>2. nextPack' <= NPacks => nextFrag' < Num(ReqLen[nextPack'])
      <4>1. nextPack' <= NPacks => nextPack' \in Packs
        BY <2>1, <3>1, HspiAssumption DEF Packs
      <4> QED
        BY <3>1, <4>1, NumPositive
    <3> QED
      BY <2>1, <3>1, <3>2 DEF PlaceInv, EndBit
  <2>4. CASE nextFrag # Num(ReqLen[nextPack]) - 1
    <3>1. nextPack' = nextPack /\ nextFrag' = nextFrag + 1 /\ ~EndBit(w0', ReqLen)
      BY <2>1, <2>4, WriteExact
    <3>2. nextFrag + 1 < Num(ReqLen[nextPack])
      BY <2>1, <2>2, <2>4
    <3>3. nextPack <= NPacks /\ ~(nextPack > NPacks)
      BY <2>1, HspiAssumption DEF Packs
    <3> QED
      BY <2>1, <3>1, <3>2, <3>3 DEF PlaceInv, EndBit
  <2> QED
    BY <2>3, <2>4
<1> QED
  BY <1>2, <1>3, <1>4 DEF PacedParts

LEMMA PacedInvariant ==
  ASSUME Paced
  PROVE  Spec => []PacedInv
<1>1. LinkInv /\ PacedParts <=> PacedInv
  BY DEF PacedParts, PacedInv
<1>2. Init => PacedParts
  BY InitPaced
<1>3. LinkInv /\ PacedParts /\ [Next]_vars => PacedParts'
  BY HandlerPaced, StorePaced, TaskPaced, BeginPaced, ReadEndPaced, WriteEndPaced, StutterPaced
  DEF Next, Isr, Master, Rest
<1> QED
  BY <1>1, <1>2, <1>3, LinkInvariant, PTL DEF Spec

(* Whatever a paced master sends while the handler drops fragments of a    *)
(* closed buffer, the fragments of two commands are never counted as one   *)
(* pack: the handler writes no slot beyond those of the longest command    *)
(* (user_hspi.c:166-215).                                                  *)
THEOREM BufferNeverOverrun ==
  ASSUME Paced
  PROVE  Spec => []BufferBound
<1>1. PacedInv => BufferBound
  BY DEF PacedInv
<1> QED
  BY <1>1, PacedInvariant, PTL

-----------------------------------------------------------------------------
(* A master that is both patient and paced.                                *)
WholeParts == IncomingInv /\ ArrivedInv /\ ExecutedInv

LEMMA InitWhole == Init => WholeParts
<1> SUFFICES ASSUME Init PROVE WholeParts
  OBVIOUS
<1>1. /\ ~Sending /\ ~Unstored /\ ~Processing /\ recvQ = 0 /\ ~isReceive
      /\ nextPack = 1 /\ nextFrag = 0 /\ executed = <<>>
      /\ cpu = "idle"
  BY DEF Init, Sending, Unstored, Processing
<1>2. Exp.idx = 0
  BY <1>1 DEF Exp, Frag
<1>3. IncomingInv
  BY <1>1, <1>2 DEF IncomingInv
<1>4. ArrivedInv
  BY <1>1 DEF ArrivedInv, Processing
<1>5. ExecutedInv
  BY <1>1 DEF ExecutedInv, NotExecuted, Cur
<1> QED
  BY <1>3, <1>4, <1>5 DEF WholeParts

(* Steps that neither move nor process a fragment.                         *)
LEMMA WholeAside ==
  ASSUME WholeParts, UNCHANGED <<w0, rx, nextPack, nextFrag, executed>>,
         Unstored' <=> Unstored, Sending' <=> Sending, isReceive' <=> isReceive,
         \/ cpu' = cpu
         \/ cpu \notin RecvPcs /\ cpu' \notin RecvPcs
  PROVE  WholeParts'
<1> USE DEF WholeParts, rx
<1>1. Exp' = Exp /\ Cur' = Cur
  BY DEF Exp, Cur
<1>2. /\ Processing' <=> Processing
      /\ cpu' \in {"length", "crc", "execute"} => cpu' = cpu
  BY DEF Processing, RecvPcs
<1>3. \A p : Holds(p)' <=> Holds(p)
  BY DEF Holds
<1>4. IncomingInv'
  BY <1>1 DEF IncomingInv
<1>5. ArrivedInv'
  BY <1>1, <1>2, <1>3 DEF ArrivedInv
<1>6. ExecutedInv'
  BY <1>1, <1>2 DEF ExecutedInv, NotExecuted
<1> QED
  BY <1>4, <1>5, <1>6

LEMMA HandlerWhole ==
  ASSUME PacedInv, WholeParts, IsrEnter \/ IsrClear \/ IsrRead0 \/ IsrLeave
  PROVE  WholeParts'
<1>1. UNCHANGED <<w0, rx, nextPack, nextFrag, mst, executed, isReceive, cpu>>
  BY DEF IsrEnter, IsrClear, IsrRead0, IsrLeave, hw, rx, master, history
<1>2. Sending' <=> Sending
  BY <1>1 DEF Sending
<1>3. Unstored' <=> Unstored
  BY DEF IsrEnter, IsrClear, IsrRead0, IsrLeave, hw, Unstored, PacedInv, PaceInv
<1> QED
  BY <1>1, <1>2, <1>3, WholeAside

LEMMA SendWhole ==
  ASSUME WholeParts, MeshPacket \/ SendTask
  PROVE  WholeParts'
<1>1. /\ UNCHANGED <<w0, wrDone, isr, regWr, rx, nextPack, nextFrag, mst, executed, isReceive>>
      /\ cpu \notin RecvPcs /\ cpu' \notin RecvPcs
  BY DEF MeshPacket, SendTask, SendTake, SendFragment, SendSpin, SendClaim, SendLoad,
         SendRaise, RecvPcs, hw, handler, rx, master, history
<1>2. (Sending' <=> Sending) /\ (Unstored' <=> Unstored)
  BY <1>1 DEF Sending, Unstored
<1> QED
  BY <1>1, <1>2, WholeAside

LEMMA ReadWhole ==
  ASSUME WholeParts, ReadBegin \/ ReadEnd
  PROVE  WholeParts'
<1>1. /\ UNCHANGED <<w0, wrDone, isr, regWr, rx, nextPack, nextFrag, executed, isReceive, cpu>>
      /\ mst # "write" /\ mst' # "write"
  BY DEF ReadBegin, ReadEnd, hw, handler, rx, history
<1>2. (Sending' <=> Sending) /\ (Unstored' <=> Unstored)
  BY <1>1 DEF Sending, Unstored
<1> QED
  BY <1>1, <1>2, WholeAside

LEMMA StutterWhole ==
  ASSUME WholeParts, UNCHANGED vars
  PROVE  WholeParts'
<1>1. UNCHANGED <<w0, wrDone, isr, regWr, rx, nextPack, nextFrag, mst, executed, isReceive, cpu>>
  BY DEF vars, hw, handler, rx, master, history
<1>2. (Sending' <=> Sending) /\ (Unstored' <=> Unstored)
  BY <1>1 DEF Sending, Unstored
<1> QED
  BY <1>1, <1>2, WholeAside

(* The master begins a command when the buffer is open and empty.          *)
LEMMA WriteBeginWhole ==
  ASSUME Paced, Patient, LinkInv, WholeParts, WriteBegin
  PROVE  WholeParts'
<1> USE DEF WholeParts
<1>1. /\ mst = "idle" /\ mst' = "write" /\ isr = "off" /\ ~wrDone
      /\ UNCHANGED <<w0, wrDone, isr, regWr, rx, nextPack, nextFrag, executed, isReceive, cpu>>
  BY DEF WriteBegin, Settled, hw, handler, rx, history
<1>2. Sending' /\ ~Unstored /\ ~Unstored'
  BY <1>1 DEF Sending, Unstored
<1>3. nextFrag \in Nat
  BY DEF LinkInv, TypeOK, MasterType
<1>4. CASE nextFrag > 0
  BY <1>1, <1>2, <1>4, WholeAside DEF Sending
<1>5. CASE nextFrag = 0
  <2>1. cpu \notin RecvPcs /\ recvQ = 0
    BY <1>5 DEF WriteBegin, DoneWith
  <2>2. ~is_recv_pack /\ ~Processing /\ ~Processing'
    BY <1>1, <2>1 DEF LinkInv, NoWedge, RecvPcs, Processing
  <2>3. ~Sending /\ Cur = nextPack - 1 /\ Cur' = nextPack
    BY <1>1, <1>2, <1>5 DEF Cur, Sending
  <2>4. Exp' = Exp
    BY <1>1, <1>2 DEF Exp
  <2>5. IncomingInv'
    BY <1>1, <2>1, <2>2, <2>4 DEF IncomingInv, rx
  <2>6. ArrivedInv'
    BY <1>1, <2>1, <2>2 DEF ArrivedInv, Processing, rx
  <2>7. ExecutedInv'
    <3>1. ~NotExecuted /\ NotExecuted'
      BY <1>2, <2>1, <2>2, <2>3 DEF NotExecuted
    <3> QED
      BY <1>1, <2>3, <3>1 DEF ExecutedInv
  <2> QED
    BY <2>5, <2>6, <2>7
<1> QED
  BY <1>3, <1>4, <1>5

LEMMA WriteEndWhole ==
  ASSUME PacedInv, WholeParts, WriteEnd
  PROVE  WholeParts'
<1> USE DEF WholeParts
<1>1. PacedParts /\ LinkInv
  BY DEF PacedInv, PacedParts
<1>2. Sending /\ Cur = nextPack /\ Cur' = nextPack /\ Unstored' /\ Exp' = Exp
  <2>1. Sending /\ Cur = nextPack /\ Unstored' /\ Exp' = Exp
    BY <1>1, WriteExact DEF Sending, Cur
  <2>2. nextPack \in Int /\ nextFrag \in Nat /\ mst' = "idle"
    BY <1>1, WriteExact DEF Packs
  <2>3. CASE nextFrag = Num(ReqLen[nextPack]) - 1
    BY <1>1, <2>2, <2>3, WriteExact DEF Sending, Cur
  <2>4. CASE nextFrag # Num(ReqLen[nextPack]) - 1
    BY <1>1, <2>2, <2>4, WriteExact DEF Sending, Cur
  <2> QED
    BY <2>1, <2>3, <2>4
<1>3. UNCHANGED <<rx, executed, isReceive, cpu>>
  BY <1>1, WriteExact DEF handler, history
<1>4. ~is_recv_pack /\ recvQ = 0 /\ cpu \notin RecvPcs
  BY <1>2 DEF IncomingInv
<1>5. IncomingInv'
  BY <1>2, <1>3, <1>4 DEF IncomingInv, rx
<1>6. ArrivedInv'
  BY <1>3, <1>4 DEF ArrivedInv, Processing, RecvPcs, rx
<1>7. ExecutedInv'
  <2>1. NotExecuted /\ NotExecuted'
    BY <1>2 DEF NotExecuted
  <2> QED
    BY <1>2, <1>3, <2>1 DEF ExecutedInv
<1> QED
  BY <1>5, <1>6, <1>7

-----------------------------------------------------------------------------
(* The fragment the handler stores is the next one of the command that     *)
(* comes in, and the last one makes it whole.                              *)
LEMMA StoreWhole ==
  ASSUME PacedInv, WholeParts, IsrStore
  PROVE  WholeParts'
<1> USE DEF WholeParts
<1>1. PacedParts /\ LinkInv
  BY DEF PacedInv, PacedParts
<1>2. /\ Unstored /\ ~Unstored' /\ w0.pack \in Packs /\ w0.idx \in Nat
      /\ w0.idx < Num(ReqLen[w0.pack]) /\ Exp = w0 /\ Exp' = Frag(nextPack, nextFrag)
      /\ mst = "idle"
      /\ UNCHANGED <<w0, hdr, cpu, mst, nextPack, nextFrag, executed>>
  BY <1>1, StoreExact DEF hw, master, history
<1>3. ~is_recv_pack /\ recvQ = 0 /\ cpu \notin RecvPcs /\ (isReceive <=> w0.idx > 0)
  BY <1>2 DEF IncomingInv
<1>4. /\ recv_pack' = StoreSlot(w0.idx, w0)
      /\ recv_lenth' = LengthSoFar(w0.idx = 0) + Bytes(w0, ReqLen)
      /\ \/ /\ EndBit(w0, ReqLen) /\ ~isReceive' /\ is_recv_pack' /\ recvQ' = Post(recvQ)
         \/ /\ ~EndBit(w0, ReqLen) /\ isReceive' /\ UNCHANGED <<is_recv_pack, recvQ>>
  BY <1>1, <1>2, <1>3, StoreExact
<1>5. /\ DOMAIN recv_pack' = DOMAIN recv_pack \cup {w0.idx}
      /\ recv_pack'[w0.idx] = w0
      /\ \A s \in DOMAIN recv_pack : s # w0.idx => recv_pack'[s] = recv_pack[s]
  BY <1>4 DEF StoreSlot
<1>6. w0 = Frag(w0.pack, w0.idx)
  BY <1>1 DEF LinkInv, TypeOK, HwType, Fragments, Frag
<1>7. \A s \in 0..w0.idx : s \in DOMAIN recv_pack' /\ recv_pack'[s] = Frag(w0.pack, s)
  BY <1>2, <1>5, <1>6 DEF IncomingInv
<1>8. LengthSoFar(w0.idx = 0) = Chunk * w0.idx
  BY <1>2 DEF IncomingInv, LengthSoFar, Chunk
<1>9. Cur' = Cur /\ (Sending' <=> Sending)
  BY <1>2 DEF Cur, Sending
<1>10. EndBit(w0, ReqLen) <=> w0.idx = Num(ReqLen[w0.pack]) - 1
  BY <1>2 DEF EndBit, Packs
<1>11. CASE EndBit(w0, ReqLen)
  <2>1. nextPack = w0.pack + 1 /\ nextFrag = 0
    BY <1>1, <1>2, <1>11 DEF PacedParts, PlaceInv
  <2>2. ~Sending' /\ Cur' = w0.pack
    BY <1>2, <1>9, <2>1 DEF Sending, Cur, Packs
  <2>3. Exp'.idx = 0
    BY <1>2, <2>1 DEF Frag
  <2>4. ~isReceive' /\ recvQ' > 0
    <3>1. Post(recvQ) > 0
      BY <1>3, HspiAssumption DEF Post
    <3> QED
      BY <1>4, <1>11, <3>1
  <2>5. IncomingInv'
    BY <1>2, <2>2, <2>3, <2>4 DEF IncomingInv
  <2>6. recv_lenth' = ReqLen[w0.pack]
    <3>1. ReqLen[w0.pack] \in Nat \ {0}
      BY <1>2, HspiAssumption DEF Header
    <3>2. (Num(ReqLen[w0.pack]) - 1) * Chunk + LastByte(ReqLen[w0.pack]) = ReqLen[w0.pack]
      BY <3>1, FragmentationExact
    <3>3. Bytes(w0, ReqLen) = LastByte(ReqLen[w0.pack])
      BY <1>11 DEF Bytes
    <3>4. recv_lenth' = Chunk * w0.idx + LastByte(ReqLen[w0.pack])
      BY <1>4, <1>8, <3>3
    <3>5. Chunk * w0.idx = (Num(ReqLen[w0.pack]) - 1) * Chunk
      BY <1>2, <1>10, <1>11 DEF Chunk
    <3> QED
      BY <3>2, <3>4, <3>5
  <2>7. Holds(Cur)'
    <3>1. w0.pack # 0
      BY <1>2 DEF Packs
    <3>2. \A s \in 0..(Num(ReqLen[w0.pack]) - 1) :
            s \in DOMAIN recv_pack' /\ recv_pack'[s] = Frag(w0.pack, s)
      BY <1>7, <1>10, <1>11
    <3> QED
      BY <2>2, <3>1, <3>2 DEF Holds
  <2>8. ~Processing'
    BY <1>2, <1>3 DEF Processing, RecvPcs
  <2>9. ArrivedInv'
    BY <1>2, <2>2, <2>6, <2>7, <2>8 DEF ArrivedInv, Processing
  <2>10. ExecutedInv'
    <3>1. NotExecuted /\ NotExecuted'
      BY <1>2, <2>4 DEF NotExecuted
    <3> QED
      BY <1>2, <1>9, <3>1 DEF ExecutedInv
  <2> QED
    BY <2>5, <2>9, <2>10
<1>12. CASE ~EndBit(w0, ReqLen)
  <2>1. nextPack = w0.pack /\ nextFrag = w0.idx + 1
    BY <1>1, <1>2, <1>12 DEF PacedParts, PlaceInv
  <2>2. Sending' /\ isReceive' /\ ~is_recv_pack' /\ recvQ' = 0 /\ cpu' \notin RecvPcs
    BY <1>2, <1>3, <1>4, <1>12, <2>1 DEF Sending
  <2>3. Exp'.idx = w0.idx + 1 /\ Exp'.pack = w0.pack
    BY <1>2, <2>1 DEF Frag
  <2>4. recv_lenth' = Chunk * (w0.idx + 1)
    BY <1>2, <1>4, <1>8, <1>12 DEF Bytes, Chunk
  <2>5. IncomingInv'
    <3>1. \A s \in 0..(Exp'.idx - 1) : s \in 0..w0.idx
      BY <1>2, <2>3
    <3>2. \A s \in 0..(Exp'.idx - 1) :
            s \in DOMAIN recv_pack' /\ recv_pack'[s] = Frag(Exp'.pack, s)
      BY <1>7, <2>3, <3>1
    <3>3. Exp'.idx > 0 /\ recv_lenth' = Chunk * Exp'.idx
      BY <1>2, <2>3, <2>4
    <3>4. \A s : Frag(Exp'.pack, s) = Frag(Exp.pack, s)'
      BY DEF Frag
    <3> QED
      BY <2>2, <3>2, <3>3, <3>4 DEF IncomingInv, Frag
  <2>6. ArrivedInv'
    BY <2>2 DEF ArrivedInv, Processing, RecvPcs
  <2>7. ExecutedInv'
    <3>1. NotExecuted /\ NotExecuted'
      BY <1>2, <2>2 DEF NotExecuted
    <3> QED
      BY <1>2, <1>9, <3>1 DEF ExecutedInv
  <2> QED
    BY <2>5, <2>6, <2>7
<1> QED
  BY <1>11, <1>12

-----------------------------------------------------------------------------
(* While a task processes the pack, nothing comes in.                      *)
LEMMA ProcessingAlone ==
  ASSUME LinkInv, PatientInv, WholeParts, RecvTask
  PROVE  /\ ~Sending /\ ~Unstored /\ ~Sending' /\ ~Unstored'
         /\ Cur' = Cur /\ recvQ' = 0 /\ (cpu # "idle" => recvQ = 0)
         /\ UNCHANGED <<w0, isReceive, recv_pack, recv_lenth, nextPack, nextFrag>>
<1>1. /\ \/ cpu = "idle" /\ recvQ > 0 /\ recvQ' = recvQ - 1
         \/ cpu \in RecvPcs /\ recvQ' = recvQ
      /\ UNCHANGED <<w0, wrDone, isr, regWr, isReceive, recv_pack, recv_lenth, mst,
                     nextPack, nextFrag>>
  BY DEF RecvTask, RecvTake, RecvHeader, RecvLength, RecvCrc, Check, RecvExecute, RecvDone,
         RecvReset, Reopen, RecvPcs, hw, handler, rx, master
<1>2. recvQ \in Nat /\ recvQ <= 1 /\ (recvQ = 1 => cpu \notin RecvPcs)
  BY DEF PatientInv, GateInv, LinkInv, TypeOK, RxType
<1>3. ~Sending /\ ~Unstored
  <2>1. recvQ > 0 \/ cpu \in RecvPcs
    BY <1>1
  <2> QED
    BY <1>2, <2>1 DEF WholeParts, IncomingInv
<1>4. ~Sending' /\ ~Unstored' /\ Cur' = Cur
  BY <1>1, <1>3 DEF Sending, Unstored, Cur
<1>5. cpu # "idle" => recvQ = 0
  BY <1>1, <1>2 DEF RecvPcs
<1>6. recvQ' = 0
  BY <1>1, <1>2
<1> QED
  BY <1>1, <1>3, <1>4, <1>5, <1>6

LEMMA RecvWhole ==
  ASSUME LinkInv, PatientInv, WholeParts, RecvTask
  PROVE  WholeParts'
<1> USE DEF WholeParts
<1>1. /\ ~Sending /\ ~Unstored /\ ~Sending' /\ ~Unstored'
      /\ Cur' = Cur /\ recvQ' = 0 /\ (cpu # "idle" => recvQ = 0)
      /\ UNCHANGED <<w0, isReceive, recv_pack, recv_lenth, nextPack, nextFrag>>
  BY ProcessingAlone
<1>2. Exp' = Exp /\ \A p : Holds(p)' <=> Holds(p)
  BY <1>1 DEF Exp, Holds
<1>3. IncomingInv'
  BY <1>1, <1>2 DEF IncomingInv
<1>5. CASE RecvTake
  <2>1. cpu = "idle" /\ cpu' = "header" /\ recvQ > 0 /\ executed' = executed
    BY <1>5 DEF RecvTake, history
  <2>2. ArrivedInv'
    BY <1>1, <1>2, <2>1 DEF ArrivedInv, Processing
  <2>3. NotExecuted /\ NotExecuted'
    BY <2>1 DEF NotExecuted, Processing
  <2>4. ExecutedInv'
    BY <1>1, <2>1, <2>3 DEF ExecutedInv
  <2> QED
    BY <1>3, <2>2, <2>4
<1>6. CASE RecvHeader
  <2>1. cpu = "header" /\ cpu' = "length" /\ hdr' = recv_pack[0].pack /\ executed' = executed
    BY <1>6 DEF RecvHeader, history
  <2>2. Cur \in Packs /\ Holds(Cur) /\ recv_lenth = ReqLen[Cur]
    BY <2>1 DEF ArrivedInv, Processing
  <2>3. recv_pack[0] = Frag(Cur, 0)
    BY <2>2, NumPositive DEF Holds
  <2>4. ArrivedInv'
    BY <1>1, <1>2, <2>1, <2>2, <2>3 DEF ArrivedInv, Processing, Frag
  <2>5. NotExecuted /\ NotExecuted'
    BY <2>1 DEF NotExecuted, Processing
  <2>6. ExecutedInv'
    BY <1>1, <2>1, <2>5 DEF ExecutedInv
  <2> QED
    BY <1>3, <2>4, <2>6
<1>7. CASE RecvLength
  <2>1. cpu = "length" /\ UNCHANGED <<hdr, executed>>
    BY <1>7 DEF RecvLength, Check, history
  <2>2. Cur \in Packs /\ Holds(Cur) /\ recv_lenth = ReqLen[Cur] /\ hdr = Cur
    BY <2>1 DEF ArrivedInv, Processing
  <2>3. LengthOk
    BY <2>2 DEF LengthOk, Packs
  <2>4. cpu' = "crc"
    BY <1>7, <2>3 DEF RecvLength, Check
  <2>5. ArrivedInv'
    BY <1>1, <1>2, <2>1, <2>2, <2>4 DEF ArrivedInv, Processing
  <2>6. NotExecuted /\ NotExecuted'
    BY <2>1, <2>4 DEF NotExecuted, Processing
  <2>7. ExecutedInv'
    BY <1>1, <2>1, <2>6 DEF ExecutedInv
  <2> QED
    BY <1>3, <2>5, <2>7
<1>8. CASE RecvCrc
  <2>1. cpu = "crc" /\ UNCHANGED <<hdr, executed>>
    BY <1>8 DEF RecvCrc, Check, history
  <2>2. Cur \in Packs /\ Holds(Cur) /\ recv_lenth = ReqLen[Cur] /\ hdr = Cur
    BY <2>1 DEF ArrivedInv, Processing
  <2>3. cpu' = "execute"
    BY <1>8, <2>2 DEF RecvCrc, Check
  <2>4. ArrivedInv'
    BY <1>1, <1>2, <2>1, <2>2, <2>3 DEF ArrivedInv, Processing
  <2>5. NotExecuted /\ NotExecuted'
    BY <2>1, <2>3 DEF NotExecuted, Processing
  <2>6. ExecutedInv'
    BY <1>1, <2>1, <2>5 DEF ExecutedInv
  <2> QED
    BY <1>3, <2>4, <2>6
<1>9. CASE RecvExecute
  <2>1. /\ cpu = "execute" /\ cpu' = "done"
        /\ executed' = Append(executed, IF Holds(hdr) THEN hdr ELSE 0)
    BY <1>9 DEF RecvExecute
  <2>2. Cur \in Nat \ {0} /\ Holds(Cur) /\ hdr = Cur
    BY <2>1 DEF ArrivedInv, Processing, Packs
  <2>3. NotExecuted /\ ~NotExecuted'
    BY <1>1, <2>1 DEF NotExecuted, Processing
  <2>4. executed = [k \in 1..(Cur - 1) |-> k] /\ executed' = Append(executed, Cur)
    BY <2>1, <2>2, <2>3 DEF ExecutedInv
  <2>5. executed' = [k \in 1..Cur |-> k]
    <3>1. Len(executed) = Cur - 1
      BY <2>2, <2>4
    <3> QED
      BY <2>2, <2>4, <3>1
  <2>6. ExecutedInv'
    BY <1>1, <2>3, <2>5 DEF ExecutedInv
  <2>7. ArrivedInv'
    BY <1>1, <2>1 DEF ArrivedInv, Processing
  <2> QED
    BY <1>3, <2>6, <2>7
<1>10. CASE RecvDone \/ RecvReset
  <2>1. cpu \in {"done", "reset"} /\ cpu' \in {"reset", "idle"} /\ executed' = executed
    BY <1>10 DEF RecvDone, RecvReset, Reopen, history
  <2>2. ~NotExecuted /\ ~NotExecuted'
    BY <1>1, <2>1 DEF NotExecuted, Processing
  <2>3. ArrivedInv' /\ ExecutedInv'
    BY <1>1, <2>1, <2>2 DEF ArrivedInv, ExecutedInv, Processing
  <2> QED
    BY <1>3, <2>3
<1> QED
  BY <1>5, <1>6, <1>7, <1>8, <1>9, <1>10 DEF RecvTask

LEMMA WholeInvariant ==
  ASSUME Paced, Patient
  PROVE  Spec => []WholeInv
<1>1. PacedInv /\ PatientInv /\ WholeParts <=> WholeInv
  BY DEF WholeParts, WholeInv
<1>2. Init => WholeParts
  BY InitWhole
<1>3. PacedInv /\ PatientInv /\ WholeParts /\ [Next]_vars => WholeParts'
  <2>1. PacedInv => LinkInv
    BY DEF PacedInv
  <2> QED
    BY <2>1, HandlerWhole, StoreWhole, RecvWhole, SendWhole, WriteBeginWhole, WriteEndWhole,
       ReadWhole, StutterWhole
    DEF Next, Isr, Master, Rest
<1> QED
  BY <1>1, <1>2, <1>3, PacedInvariant, PatientInvariant, PTL DEF Spec

(* With a master that is patient and paced no command is lost: each one is *)
(* executed exactly once, in the order of sending, although the handler    *)
(* drops what arrives at a closed buffer and events are posted without     *)
(* looking (user_hspi.c:166-215, 299-310).                                 *)
THEOREM NothingLost ==
  ASSUME Paced, Patient
  PROVE  Spec => []Lossless
<1>1. WholeInv => Lossless
  <2> SUFFICES ASSUME WholeInv, AtRest, mst = "idle", nextFrag = 0
               PROVE  executed = [k \in 1..(nextPack - 1) |-> k]
    BY DEF Lossless
  <2>1. ~Sending /\ ~Unstored /\ recvQ = 0 /\ ~Processing
    BY DEF AtRest, Sending, Unstored, Processing
  <2>2. ~NotExecuted /\ Cur = nextPack - 1
    BY <2>1 DEF NotExecuted, Cur
  <2> QED
    BY <2>2 DEF WholeInv, ExecutedInv
<1> QED
  BY <1>1, WholeInvariant, PTL

-----------------------------------------------------------------------------
(* What the master puts together.                                          *)
LEMMA FirstFragsGrow ==
  ASSUME NEW p, NEW n \in Nat
  PROVE  /\ <<Frag(p, 0)>> = FirstFrags(p, 1)
         /\ Append(FirstFrags(p, n), Frag(p, n)) = FirstFrags(p, n + 1)
<1>1. <<Frag(p, 0)>> = FirstFrags(p, 1)
  BY DEF FirstFrags
<1>2. Append(FirstFrags(p, n), Frag(p, n)) = FirstFrags(p, n + 1)
  <2>1. FirstFrags(p, n) \in Seq({Frag(p, k) : k \in Nat}) /\ Len(FirstFrags(p, n)) = n
    BY DEF FirstFrags
  <2> QED
    BY <2>1 DEF FirstFrags
<1> QED
  BY <1>1, <1>2

LEMMA WholeExact ==
  ASSUME NEW p \in Outgoing
  PROVE  Whole(FirstFrags(p, Num(RepLen[p]))) = p /\ p # 0
<1>1. FirstFrags(p, Num(RepLen[p]))[1] = Frag(p, 0)
  BY SentNumPositive DEF FirstFrags
<1>2. p # 0 /\ Frag(p, 0).pack = p
  BY DEF Outgoing, Frag
<1> QED
  BY <1>1, <1>2 DEF Whole, FirstFrags

LEMMA InitBack == Init => BackInv
<1> SUFFICES ASSUME Init PROVE BackInv
  OBVIOUS
<1>1. OfferInv
  BY DEF Init, OfferInv, RdPending, WayFree, Offered
<1>2. SendInv
  BY DEF Init, SendInv, SendPcs
<1>3. TransitInv
  BY DEF Init, TransitInv
<1>4. ReplyInv
  BY DEF Init, ReplyInv
<1>5. UnreadInv
  BY DEF Init, UnreadInv
<1> QED
  BY <1>1, <1>2, <1>3, <1>4, <1>5 DEF BackInv, CleanInv

(* What is sent is a reply or a packet of the mesh, and i is one of its    *)
(* fragments.                                                              *)
LEMMA SendKept ==
  ASSUME LinkInv, SendInv, [Next]_vars
  PROVE  SendInv'
<1>1. CASE RecvExecute
  <2>1. /\ wifi_pack_send' \in Packs \/ UNCHANGED <<wifi_pack_send, sendQ>>
        /\ cpu' = "done"
    BY <1>1, HspiAssumption DEF RecvExecute
  <2> QED
    BY <2>1, OutgoingType DEF SendInv, SendPcs
<1>2. CASE MeshPacket
  <2>1. nMesh' \in 1..NMesh
    BY <1>2, HspiAssumption DEF MeshPacket, LinkInv, TypeOK, HistoryType
  <2>2. NPacks + nMesh' \in Outgoing
    <3>1. \A m \in 1..NMesh : NPacks + m \in 1..(NPacks + NMesh)
      <4>1. NPacks \in Nat /\ NMesh \in Nat
        BY HspiAssumption
      <4> QED
        BY <4>1
    <3> QED
      BY <2>1, <3>1 DEF Outgoing
  <2> QED
    BY <1>2, <2>2 DEF MeshPacket, SendInv, SendPcs
<1>3. CASE SendTake
  <2>1. sendQ > 0 /\ wifi_pack_send \in Outgoing /\ wifi_pack_send' = wifi_pack_send
    BY <1>3 DEF SendTake, SendInv
  <2>2. CASE send_pack' = wifi_pack_send /\ i' = 0
    BY <2>1, <2>2, SentNumPositive DEF SendInv
  <2>3. CASE cpu' = "idle"
    BY <2>1, <2>3 DEF SendInv, SendPcs
  <2> QED
    BY <1>3, <2>2, <2>3 DEF SendTake
<1>4. CASE SendRaise
  <2>1. /\ cpu \in SendPcs /\ UNCHANGED <<wifi_pack_send, sendQ, send_pack>>
        /\ \/ cpu' = "idle"
           \/ ~EndBit(Frag(send_pack, i), RepLen) /\ i' = i + 1
    BY <1>4 DEF SendRaise, SendPcs
  <2>2. send_pack \in Outgoing /\ i < Num(RepLen[send_pack]) /\ i \in Nat
    BY <2>1 DEF SendInv, LinkInv, TypeOK, TxType
  <2>3. Num(RepLen[send_pack]) \in Nat
    BY <2>2, SentNumPositive
  <2>4. ~EndBit(Frag(send_pack, i), RepLen) => i + 1 < Num(RepLen[send_pack])
    BY <2>2, <2>3 DEF EndBit, Frag, Outgoing
  <2> QED
    BY <2>1, <2>2, <2>4 DEF SendInv, SendPcs
<1>5. CASE SendFragment \/ SendSpin \/ SendClaim \/ SendLoad
  <2>1. cpu \in SendPcs /\ UNCHANGED <<wifi_pack_send, sendQ, send_pack, i>>
    BY <1>5 DEF SendFragment, SendSpin, SendClaim, SendLoad, SendPcs, tx
  <2> QED
    BY <2>1 DEF SendInv
<1>6. ASSUME UNCHANGED <<wifi_pack_send, sendQ, send_pack, i>>, cpu' = cpu \/ cpu' \notin SendPcs
      PROVE  SendInv'
  BY <1>6 DEF SendInv
<1>7. CASE Isr \/ Master \/ Rest \/ UNCHANGED vars
  <2>1. UNCHANGED <<wifi_pack_send, sendQ, send_pack, i, cpu>>
    BY <1>7 DEF Isr, IsrEnter, IsrClear, IsrRead0, IsrStore, IsrLeave, Master, WriteBegin,
                WriteEnd, ReadBegin, ReadEnd, Rest, vars, tx
  <2> QED
    BY <1>6, <2>1
<1>8. CASE RecvTake \/ RecvHeader \/ RecvLength \/ RecvCrc \/ RecvDone \/ RecvReset
  <2>1. UNCHANGED <<wifi_pack_send, sendQ, send_pack, i>> /\ cpu' \notin SendPcs
    BY <1>8 DEF RecvTake, RecvHeader, RecvLength, RecvCrc, Check, RecvDone, RecvReset, Reopen,
                SendPcs, tx
  <2> QED
    BY <1>6, <2>1
<1> QED
  BY <1>1, <1>2, <1>3, <1>4, <1>5, <1>7, <1>8 DEF Next, RecvTask, SendTask

(* Steps that leave the way back alone.                                    *)
LEMMA BackAside ==
  ASSUME CleanInv,
         UNCHANGED <<w8, gpio5, snap, mbuf, fresh, replies, sentOk, send_pack, i, wr_rdy>>,
         RdPending' <=> RdPending, mst' = "read" <=> mst = "read",
         cpu' = cpu \/ (cpu \notin SendPcs /\ cpu' \notin SendPcs)
  PROVE  CleanInv'
<1> USE DEF CleanInv
<1>1. (WayFree' <=> WayFree) /\ (Offered' <=> Offered)
  BY DEF WayFree, Offered
<1>2. \A c \in SendPcs : cpu' = c <=> cpu = c
  OBVIOUS
<1>3. OfferInv'
  BY <1>1, <1>2 DEF OfferInv, SendPcs
<1>4. TransitInv'
  BY <1>1, <1>2 DEF TransitInv, EndBit, SendPcs
<1>5. ReplyInv'
  BY <1>1 DEF ReplyInv, EndBit
<1>6. UnreadInv'
  BY <1>1, <1>2 DEF UnreadInv, EndBit, SendPcs
<1> QED
  BY <1>3, <1>4, <1>5, <1>6

LEMMA StutterBack ==
  ASSUME CleanInv, UNCHANGED vars
  PROVE  CleanInv'
<1>1. UNCHANGED <<w8, gpio5, snap, mbuf, fresh, replies, sentOk, send_pack, i, wr_rdy, cpu,
                  rdDone, isr, regRd, mst>>
  BY DEF vars, hw, handler, tx, master, history
<1>2. RdPending' <=> RdPending
  BY <1>1 DEF RdPending
<1> QED
  BY <1>1, <1>2, BackAside

(* The receive task, the mesh and the master's writes.                     *)
LEMMA OtherBack ==
  ASSUME CleanInv, RecvTask \/ MeshPacket \/ WriteBegin \/ WriteEnd
  PROVE  CleanInv'
<1>1. /\ UNCHANGED <<w8, gpio5, snap, mbuf, fresh, replies, sentOk, send_pack, i, wr_rdy,
                     rdDone, isr, regRd>>
      /\ mst' = "read" <=> mst = "read"
      /\ cpu' = cpu \/ (cpu \notin SendPcs /\ cpu' \notin SendPcs)
  BY DEF RecvTask, RecvTake, RecvHeader, RecvLength, RecvCrc, Check, RecvExecute, RecvDone,
         RecvReset, Reopen, MeshPacket, WriteBegin, WriteEnd, SendPcs, hw, handler, tx, master,
         history
<1>2. RdPending' <=> RdPending
  BY <1>1 DEF RdPending
<1> QED
  BY <1>1, <1>2, BackAside

(* The handler lowers GPIO5 only when the fragment has been read.          *)
LEMMA HandlerBack ==
  ASSUME PaceInv, CleanInv, Isr
  PROVE  CleanInv'
<1> USE DEF PaceInv
<1>1. CASE IsrEnter \/ IsrClear \/ IsrRead0 \/ IsrStore
  <2>1. UNCHANGED <<w8, gpio5, snap, mbuf, fresh, replies, sentOk, send_pack, i, wr_rdy, cpu,
                    mst>>
    BY <1>1 DEF IsrEnter, IsrClear, IsrRead0, IsrStore, hw, tx, master, history
  <2>2. RdPending' <=> RdPending
    <3>1. CASE IsrEnter
      BY <3>1 DEF IsrEnter, hw, RdPending
    <3>2. CASE IsrClear
      BY <3>2 DEF IsrClear, RdPending
    <3>3. CASE IsrRead0
      BY <3>3 DEF IsrRead0, hw, RdPending
    <3>4. CASE IsrStore
      BY <3>4 DEF IsrStore, hw, RdPending
    <3> QED
      BY <1>1, <3>1, <3>2, <3>3, <3>4
  <2> QED
    BY <2>1, <2>2, BackAside
<1>2. CASE IsrLeave
  <2>1. /\ isr = "leave" /\ isr' = "off" /\ ~wrDone /\ ~rdDone
        /\ UNCHANGED <<w8, snap, mbuf, fresh, replies, sentOk, send_pack, i, cpu, mst, rdDone>>
    BY <1>2 DEF IsrLeave, rx, master, history
  <2>2. ~RdPending'
    BY <2>1 DEF RdPending
  <2>3. CASE ~regRd
    <3>1. ~RdPending /\ UNCHANGED <<gpio5, wr_rdy>>
      BY <1>2, <2>1, <2>3 DEF IsrLeave, RdPending
    <3> QED
      BY <2>1, <2>2, <3>1, BackAside
  <2>4. CASE regRd
    <3>1. RdPending /\ ~gpio5' /\ wr_rdy'
      BY <1>2, <2>1, <2>4 DEF IsrLeave, RdPending
    <3>2. ~fresh /\ mst # "read" /\ cpu \notin {"load", "raise"}
      BY <3>1 DEF CleanInv, OfferInv, WayFree
    <3>3. WayFree' /\ ~Offered'
      BY <2>1, <2>2, <3>1, <3>2 DEF WayFree, Offered
    <3>4. OfferInv'
      BY <2>1, <2>2, <3>1, <3>2, <3>3 DEF OfferInv
    <3>5. TransitInv'
      BY <2>1, <3>2, <3>3 DEF CleanInv, TransitInv, EndBit
    <3>6. ReplyInv'
      BY <2>1, <3>2, <3>3 DEF CleanInv, ReplyInv
    <3>7. UnreadInv'
      BY <2>1, <3>2 DEF UnreadInv
    <3> QED
      BY <3>4, <3>5, <3>6, <3>7 DEF CleanInv
  <2> QED
    BY <2>3, <2>4
<1> QED
  BY <1>1, <1>2 DEF Isr

-----------------------------------------------------------------------------
(* A task runs only when the handler has nothing to do.                    *)
LEMMA SendingQuiet ==
  ASSUME SendTask
  PROVE  ~RdPending /\ ~RdPending' /\ UNCHANGED <<snap, mbuf, mst>>
<1>1. /\ isr = "off" /\ ~rdDone
      /\ UNCHANGED <<isr, rdDone, snap, mbuf, mst>>
  BY DEF SendTask, SendTake, SendFragment, SendSpin, SendClaim, SendLoad, SendRaise, TaskRuns,
         hw, handler, tx, master
<1> QED
  BY <1>1 DEF RdPending

(* A sending that begins with nothing on offer finds the way free, or      *)
(* makes it so: whatever came before is no longer counted.                 *)
LEMMA FreshStart ==
  ASSUME BackInv, SendFragment, i = 0, clean'
  PROVE  CleanInv'
<1>1. /\ cpu = "fragment" /\ cpu' = "spin" /\ wr_rdy' /\ ~Offered
      /\ \/ clean /\ UNCHANGED <<sentOk, replies>>
         \/ sentOk' = <<>> /\ replies' = <<>>
      /\ UNCHANGED <<w8, gpio5, fresh, send_pack, i>>
  BY DEF SendFragment, Begin, hw
<1>2. ~RdPending /\ ~RdPending' /\ UNCHANGED <<snap, mbuf, mst>>
  BY SendingQuiet DEF SendTask
<1>3. ~Offered' /\ WayFree' /\ ~gpio5' /\ mst' # "read"
  BY <1>1, <1>2 DEF Offered, WayFree
<1>4. OfferInv'
  BY <1>1, <1>2, <1>3 DEF OfferInv
<1>5. TransitInv'
  BY <1>1, <1>3 DEF TransitInv
<1>6. ReplyInv'
  <2>1. clean => replies = sentOk
    BY <1>1 DEF BackInv, CleanInv, ReplyInv
  <2> QED
    BY <1>1, <1>3, <2>1 DEF ReplyInv
<1>7. UnreadInv'
  <2>1. clean /\ fresh => ~EndBit(w8, RepLen) \/ sentOk = <<>>
    BY <1>1 DEF BackInv, CleanInv, UnreadInv
  <2> QED
    BY <1>1, <1>3, <2>1 DEF UnreadInv, EndBit
<1> QED
  BY <1>4, <1>5, <1>6, <1>7 DEF CleanInv

LEMMA FragmentBack ==
  ASSUME CleanInv, SendFragment, i # 0
  PROVE  CleanInv'
<1> USE DEF CleanInv
<1>1. /\ cpu = "fragment" /\ cpu' = "spin"
      /\ UNCHANGED <<w8, gpio5, fresh, sentOk, replies, send_pack, i, wr_rdy>>
  BY DEF SendFragment, hw
<1>2. ~RdPending /\ ~RdPending' /\ UNCHANGED <<snap, mbuf, mst>>
  BY SendingQuiet DEF SendTask
<1>3. (WayFree' <=> WayFree) /\ (Offered' <=> Offered)
  BY <1>1, <1>2 DEF WayFree, Offered
<1>4. OfferInv'
  BY <1>1, <1>2, <1>3 DEF OfferInv
<1>5. TransitInv'
  BY <1>1, <1>2, <1>3 DEF TransitInv, EndBit
<1>6. ReplyInv' /\ UnreadInv'
  BY <1>1, <1>2, <1>3 DEF ReplyInv, UnreadInv, EndBit
<1> QED
  BY <1>4, <1>5, <1>6

LEMMA TakeBack ==
  ASSUME CleanInv, SendTake
  PROVE  CleanInv'
<1> USE DEF CleanInv
<1>1. /\ cpu = "idle"
      /\ \/ send_pack' = wifi_pack_send /\ i' = 0 /\ cpu' = "fragment"
         \/ UNCHANGED <<send_pack, i, cpu>>
      /\ UNCHANGED <<w8, gpio5, fresh, sentOk, replies, wr_rdy>>
  BY DEF SendTake, hw, history
<1>2. ~RdPending /\ ~RdPending' /\ UNCHANGED <<snap, mbuf, mst>>
  BY SendingQuiet DEF SendTask
<1>3. (WayFree' <=> WayFree) /\ (Offered' <=> Offered)
  BY <1>1, <1>2 DEF WayFree, Offered
<1>4. OfferInv' /\ TransitInv'
  BY <1>1, <1>2, <1>3 DEF OfferInv, TransitInv
<1>5. ReplyInv' /\ UnreadInv'
  BY <1>1, <1>2, <1>3 DEF ReplyInv, UnreadInv, EndBit
<1> QED
  BY <1>4, <1>5

LEMMA SpinBack ==
  ASSUME CleanInv, SendSpin
  PROVE  CleanInv'
<1>1. UNCHANGED <<w8, gpio5, fresh, sentOk, replies, send_pack, i, wr_rdy, cpu>>
  BY DEF SendSpin, hw, history
<1> QED
  BY <1>1, SendingQuiet, BackAside DEF SendTask

(* The wait ends because the fragment before was read, or by the timeout,  *)
(* which takes back a fragment that is not the last one of its pack.       *)
LEMMA ClaimBack ==
  ASSUME LinkInv, CleanInv, SendClaim
  PROVE  CleanInv'
<1> USE DEF CleanInv
<1>1. ~RdPending /\ ~RdPending' /\ UNCHANGED <<snap, mbuf, mst>>
  BY SendingQuiet DEF SendTask
<1>2. /\ cpu = "spin" /\ ~wr_rdy'
      /\ \/ ~gpio5' /\ cpu' = "idle"
         \/ wr_rdy /\ gpio5' = gpio5 /\ cpu' = "load"
      /\ UNCHANGED <<w8, fresh, sentOk, replies, send_pack, i>>
  BY DEF SendClaim, history
<1>3. i \in Nat
  BY DEF LinkInv, TypeOK, TxType
<1>4. wr_rdy => WayFree
  BY DEF OfferInv
<1>5. /\ Offered => i > 0 /\ ~EndBit(w8, RepLen)
      /\ Offered' => Offered
  <2>1. i = 0 => ~Offered
    BY <1>2, <1>4 DEF OfferInv, WayFree
  <2>2. i > 0 => ~EndBit(w8, RepLen)
    BY <1>2 DEF TransitInv
  <2>3. Offered' => Offered
    BY <1>1, <1>2 DEF Offered
  <2> QED
    BY <1>3, <2>1, <2>2, <2>3
<1>6. cpu' = "load" => WayFree'
  BY <1>1, <1>2, <1>4 DEF WayFree, Offered
<1>7. OfferInv'
  <2>1. gpio5' => gpio5
    BY <1>2
  <2> QED
    BY <1>1, <1>2, <1>6, <2>1 DEF OfferInv
<1>8. wr_rdy /\ i > 0 => mbuf = FirstFrags(send_pack, i) /\ ~fresh
  BY <1>2 DEF TransitInv
<1>9. TransitInv'
  BY <1>1, <1>2, <1>5, <1>8 DEF TransitInv
<1>10. ReplyInv'
  BY <1>1, <1>2, <1>5 DEF ReplyInv, EndBit
<1>11. UnreadInv'
  <2>1. fresh /\ ~Offered => ~EndBit(w8, RepLen) \/ sentOk = <<>>
    BY <1>2 DEF UnreadInv
  <2>2. cpu' = "load" /\ i' > 0 => ~fresh'
    BY <1>2, <1>8
  <2> QED
    BY <1>2, <1>5, <2>1, <2>2 DEF UnreadInv, EndBit
<1> QED
  BY <1>7, <1>9, <1>10, <1>11

LEMMA LoadBack ==
  ASSUME CleanInv, SendLoad
  PROVE  CleanInv'
<1> USE DEF CleanInv
<1>1. ~RdPending /\ ~RdPending' /\ UNCHANGED <<snap, mbuf, mst>>
  BY SendingQuiet DEF SendTask
<1>2. /\ cpu = "load" /\ cpu' = "raise" /\ fresh' /\ w8' = Frag(send_pack, i)
      /\ UNCHANGED <<gpio5, sentOk, replies, send_pack, i, wr_rdy>>
  BY DEF SendLoad, tx
<1>3. WayFree /\ WayFree' /\ ~Offered /\ ~Offered' /\ ~wr_rdy
  <2>1. WayFree /\ ~wr_rdy
    BY <1>2 DEF OfferInv
  <2> QED
    BY <1>1, <1>2, <2>1 DEF WayFree, Offered
<1>4. OfferInv'
  BY <1>1, <1>2, <1>3 DEF OfferInv, Offered
<1>5. TransitInv'
  BY <1>1, <1>2, <1>3 DEF TransitInv, Frag
<1>6. ReplyInv' /\ UnreadInv'
  BY <1>1, <1>2, <1>3 DEF ReplyInv, UnreadInv
<1> QED
  BY <1>4, <1>5, <1>6

LEMMA RaiseBack ==
  ASSUME LinkInv, SendInv, CleanInv, SendRaise
  PROVE  CleanInv'
<1> USE DEF CleanInv
<1>1. ~RdPending /\ ~RdPending' /\ UNCHANGED <<snap, mbuf, mst>>
  BY SendingQuiet DEF SendTask
<1>2. /\ cpu = "raise" /\ gpio5'
      /\ UNCHANGED <<w8, fresh, replies, send_pack, wr_rdy>>
      /\ \/ /\ EndBit(Frag(send_pack, i), RepLen) /\ cpu' = "idle" /\ i' = i
            /\ sentOk' = Append(sentOk, send_pack)
         \/ /\ ~EndBit(Frag(send_pack, i), RepLen) /\ cpu' = "fragment" /\ i' = i + 1
            /\ sentOk' = sentOk
  BY DEF SendRaise
<1>3. send_pack \in Outgoing /\ i \in Nat
  BY <1>2 DEF SendInv, SendPcs, LinkInv, TypeOK, TxType
<1>4. WayFree /\ ~Offered /\ ~wr_rdy /\ fresh /\ w8 = Frag(send_pack, i) /\ Offered'
  BY <1>2 DEF OfferInv, TransitInv, WayFree, Offered
<1>5. replies = sentOk
  BY <1>4 DEF ReplyInv
<1>6. i > 0 => mbuf = FirstFrags(send_pack, i)
  BY <1>2 DEF TransitInv
<1>7. OfferInv'
  <2>1. mst' # "read"
    BY <1>1, <1>4 DEF Offered
  <2> QED
    BY <1>1, <1>2, <1>4, <2>1 DEF OfferInv
<1>8. TransitInv'
  <2>1. w8'.pack = send_pack /\ w8'.idx = i
    BY <1>2, <1>4 DEF Frag
  <2>2. w8'.idx > 0 => mbuf' = FirstFrags(w8.pack, w8.idx)'
    BY <1>1, <1>2, <1>6, <2>1 DEF FirstFrags, Frag
  <2>3. CASE cpu' = "idle"
    BY <2>2, <2>3 DEF TransitInv
  <2>4. CASE cpu' = "fragment" /\ i' = i + 1 /\ ~EndBit(w8, RepLen)
    <3>1. i' - 1 = i
      BY <1>3, <2>4
    <3>2. w8' = Frag(send_pack, i - 1)' /\ ~EndBit(w8, RepLen)'
      BY <1>2, <1>4, <2>4, <3>1 DEF Frag, EndBit
    <3> QED
      BY <1>2, <1>4, <2>2, <2>4, <3>2 DEF TransitInv
  <2> QED
    BY <1>2, <1>4, <2>3, <2>4
<1>9. ReplyInv'
  <2>1. w8'.pack = send_pack /\ (EndBit(w8, RepLen)' <=> EndBit(w8, RepLen))
    BY <1>2, <1>4 DEF Frag, EndBit
  <2> QED
    BY <1>1, <1>2, <1>4, <1>5, <2>1 DEF ReplyInv
<1>10. UnreadInv'
  BY <1>2, <1>4 DEF UnreadInv
<1> QED
  BY <1>7, <1>8, <1>9, <1>10

-----------------------------------------------------------------------------
(* GPIO5 of a paced master is down before it could read a fragment again.  *)
LEMMA ReadBeginBack ==
  ASSUME Paced, CleanInv, ReadBegin
  PROVE  CleanInv'
<1> USE DEF CleanInv
<1>1. /\ mst = "idle" /\ mst' = "read" /\ gpio5 /\ snap' = w8 /\ isr = "off" /\ ~rdDone
      /\ UNCHANGED <<w8, gpio5, mbuf, fresh, replies, sentOk, rdDone, isr, regRd,
                     send_pack, i, wr_rdy, cpu>>
  BY DEF ReadBegin, Settled, hw, handler, tx, history
<1>2. fresh
  BY <1>1 DEF OfferInv, RdPending
<1>3. ~RdPending' /\ Offered /\ Offered' /\ ~WayFree
  BY <1>1 DEF RdPending, Offered, WayFree
<1>4. ~wr_rdy /\ cpu \notin {"load", "raise"}
  BY <1>3 DEF OfferInv
<1>5. OfferInv'
  BY <1>1, <1>2, <1>3, <1>4 DEF OfferInv
<1>6. TransitInv'
  BY <1>1, <1>3 DEF TransitInv, EndBit
<1>7. ReplyInv' /\ UnreadInv'
  BY <1>1, <1>3, <1>4 DEF ReplyInv, UnreadInv, EndBit
<1> QED
  BY <1>5, <1>6, <1>7

LEMMA ReadEndBack ==
  ASSUME LinkInv, CleanInv, ReadEnd
  PROVE  CleanInv'
<1> USE DEF CleanInv
<1>1. snap = w8 /\ mst = "read" /\ fresh /\ Offered /\ ~WayFree /\ ~RdPending
  BY DEF ReadEnd, OfferInv, Offered, WayFree
<1> DEFINE fs == IF w8.idx = 0 THEN <<w8>> ELSE Append(mbuf, w8)
<1>2. /\ rdDone' /\ ~fresh' /\ mst' = "idle"
      /\ IF EndBit(w8, RepLen)
         THEN replies' = IF Whole(fs) # 0 THEN Append(replies, Whole(fs)) ELSE replies
         ELSE mbuf' = fs /\ replies' = replies
      /\ UNCHANGED <<w8, gpio5, snap, sentOk, send_pack, i, wr_rdy, cpu>>
  BY <1>1 DEF ReadEnd, StartBit, tx
<1>3. w8 \in Offers /\ w8.pack \in 0..(NPacks + NMesh) /\ w8.idx \in Nat /\ i \in Nat
  BY DEF LinkInv, TypeOK, HwType, TxType, Offers
<1>4. w8 = Frag(w8.pack, w8.idx)
  BY <1>3 DEF Offers, Frag
<1>5. fs = FirstFrags(w8.pack, w8.idx + 1)
  <2>1. CASE w8.idx = 0
    BY <1>4, <2>1, FirstFragsGrow
  <2>2. CASE w8.idx # 0
    <3>1. mbuf = FirstFrags(w8.pack, w8.idx)
      BY <1>1, <1>3, <2>2 DEF TransitInv
    <3> QED
      BY <1>3, <1>4, <2>2, <3>1, FirstFragsGrow
  <2> QED
    BY <2>1, <2>2
<1> HIDE DEF fs
<1>6. ~wr_rdy /\ cpu \notin {"load", "raise"}
  BY <1>1 DEF OfferInv
<1>7. OfferInv'
  <2>1. RdPending'
    BY <1>2 DEF RdPending
  <2> QED
    BY <1>2, <1>6, <2>1 DEF OfferInv
<1>8. TransitInv'
  <2>1. ASSUME cpu \in {"fragment", "spin"}, i > 0
        PROVE  w8 = Frag(send_pack, i - 1) /\ ~EndBit(w8, RepLen) /\ mbuf' = FirstFrags(send_pack, i)
    <3>1. w8 = Frag(send_pack, i - 1) /\ ~EndBit(w8, RepLen)
      BY <2>1 DEF TransitInv
    <3>2. w8.pack = send_pack /\ w8.idx + 1 = i
      BY <1>3, <3>1 DEF Frag
    <3> QED
      BY <1>2, <1>5, <3>1, <3>2
  <2> QED
    BY <1>2, <1>6, <2>1 DEF TransitInv, Frag, FirstFrags, EndBit
<1>9. ReplyInv'
  <2>1. CASE EndBit(w8, RepLen)
    <3>1. w8.pack \in Outgoing /\ w8.idx + 1 = Num(RepLen[w8.pack])
      <4>1. w8.pack \in Outgoing
        <5>1. NPacks \in Nat /\ NMesh \in Nat
          BY HspiAssumption
        <5> QED
          BY <1>3, <2>1, <5>1 DEF EndBit, Outgoing
      <4>2. Num(RepLen[w8.pack]) \in Nat
        BY <4>1, SentNumPositive
      <4> QED
        BY <1>3, <2>1, <4>1, <4>2 DEF EndBit
    <3>2. Whole(fs) = w8.pack /\ w8.pack # 0
      BY <1>5, <3>1, WholeExact
    <3>3. replies' = Append(replies, w8.pack)
      BY <1>2, <2>1, <3>2
    <3> QED
      BY <1>1, <1>2, <2>1, <3>3 DEF ReplyInv
  <2>2. CASE ~EndBit(w8, RepLen)
    BY <1>2, <2>2 DEF ReplyInv
  <2> QED
    BY <2>1, <2>2
<1>10. UnreadInv'
  BY <1>2, <1>6 DEF UnreadInv
<1> QED
  BY <1>7, <1>8, <1>9, <1>10

LEMMA BackInvariant ==
  ASSUME Paced
  PROVE  Spec => []BackInv
<1>1. PacedInv /\ BackInv /\ [Next]_vars => BackInv'
  <2> SUFFICES ASSUME PacedInv, BackInv, [Next]_vars, clean' PROVE CleanInv'
    BY SendKept DEF PacedInv, BackInv
  <2>1. LinkInv /\ PaceInv /\ SendInv /\ (clean => CleanInv)
    BY DEF PacedInv, BackInv
  <2>2. CASE SendFragment /\ i = 0
    BY <2>2, FreshStart
  <2>3. CASE ~(SendFragment /\ i = 0)
    <3>1. clean
      BY <2>3 DEF Next, Isr, IsrEnter, IsrClear, IsrRead0, IsrStore, IsrLeave,
             RecvTask, RecvTake, RecvHeader, RecvLength, RecvCrc, Check, RecvExecute, RecvDone,
             RecvReset, Reopen, MeshPacket, SendTask, SendTake, SendFragment, SendSpin,
             SendClaim, SendLoad, SendRaise, Master, WriteBegin, WriteEnd, ReadBegin, ReadEnd,
             Rest, vars, history
    <3>2. CleanInv
      BY <2>1, <3>1
    <3> QED
      BY <2>1, <2>3, <3>2, HandlerBack, OtherBack, FragmentBack, TakeBack, SpinBack, ClaimBack,
         LoadBack, RaiseBack, ReadBeginBack, ReadEndBack, StutterBack
      DEF Next, SendTask, Master, Rest
  <2> QED
    BY <2>2, <2>3
<1> QED
  BY InitBack, <1>1, PacedInvariant, PTL DEF Spec

(* While no sending has begun next to a fragment the master had not read,  *)
(* the result of spi_send_data can be believed, by a paced master whether  *)
(* patient or not and however late it reads: with nothing on offer, the    *)
(* replies and mesh packets it has put together are those whose sending    *)
(* returned 0, and one given up after the timeout spoils none after it.  A *)
(* sending that was not clean -- a packet of the mesh makes the next one   *)
(* so at any time, mesh_bin.c:26-33 -- ends that, and the next clean one   *)
(* starts afresh (user_hspi.c:48-126, 216-225).                            *)
THEOREM ResultBelieved ==
  ASSUME Paced
  PROVE  Spec => []RepliesMatchSent
<1>1. BackInv => RepliesMatchSent
  BY DEF BackInv, CleanInv, ReplyInv, RepliesMatchSent
<1> QED
  BY <1>1, BackInvariant, PTL

(* Where the comment on spi_send_data ("0: success", user_hspi.c:48-51)    *)
(* keeps its word: as long as sendings are clean, a pack reported as sent  *)
(* is never overwritten in W8..W15 before a paced master has read it, only *)
(* fragments of packs that were given up are.  That the comment is not     *)
(* true in general, and what makes it untrue, a run shows.                 *)
THEOREM UnreadKept ==
  ASSUME Paced
  PROVE  Spec => [][clean => ~OverwritesReported]_vars
<1>1. BackInv /\ [Next]_vars => [clean => ~OverwritesReported]_vars
  <2> SUFFICES ASSUME BackInv, [Next]_vars, clean, w8' # w8, fresh, EndBit(w8, RepLen),
                      sentOk # <<>>
               PROVE  FALSE
    BY DEF OverwritesReported
  <2>1. cpu = "load"
    BY DEF Next, Isr, IsrEnter, IsrClear, IsrRead0, IsrStore, IsrLeave,
           RecvTask, RecvTake, RecvHeader, RecvLength, RecvCrc, Check, RecvExecute, RecvDone,
           RecvReset, Reopen, MeshPacket, SendTask, SendTake, SendFragment, SendSpin, SendClaim,
           SendLoad, SendRaise, Master, WriteBegin, WriteEnd, ReadBegin, ReadEnd, Rest, vars, hw
  <2>2. ~Offered
    BY <2>1 DEF BackInv, CleanInv, OfferInv, WayFree
  <2> QED
    BY <2>1, <2>2 DEF BackInv, CleanInv, UnreadInv
<1> QED
  BY <1>1, BackInvariant, PTL DEF Spec
=============================================================================
