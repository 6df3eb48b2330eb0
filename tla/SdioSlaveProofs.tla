--------------------------- MODULE SdioSlaveProofs ---------------------------
(***************************************************************************)
(* Proofs about SdioSlave, for every number and size of buffers, every     *)
(* load, an empty one included, and every interleaving of the task, the    *)
(* handler and the host.                                                   *)
(***************************************************************************)
EXTENDS SdioSlaveInv, TLAPS

-----------------------------------------------------------------------------
(* The ring.                                                               *)
LEMMA PosType ==
  ASSUME NEW h \in Buf, NEW j \in 0..Bufs
  PROVE  Pos(h, j) \in Buf
  BY SdioAssumption DEF Buf, Pos

LEMMA PosInjective ==
  ASSUME NEW h \in Buf, NEW j \in 0..(Bufs - 1), NEW m \in 0..(Bufs - 1), Pos(h, j) = Pos(h, m)
  PROVE  j = m
  BY SdioAssumption DEF Buf, Pos

LEMMA PosEnds ==
  ASSUME NEW h \in Buf
  PROVE  Pos(h, 0) = h /\ Pos(h, Bufs) = h
  BY SdioAssumption DEF Buf, Pos

LEMMA PosShift ==
  ASSUME NEW h \in Buf, NEW j \in 0..(Bufs - 1)
  PROVE  Pos(Pos(h, 1), j) = Pos(h, j + 1)
  BY SdioAssumption DEF Buf, Pos

LEMMA PosOnto ==
  ASSUME NEW h \in Buf, NEW b \in Buf
  PROVE  \E j \in 0..(Bufs - 1) : b = Pos(h, j)
<1>1. CASE b >= h
  <2>1. b - h \in 0..(Bufs - 1) /\ b = Pos(h, b - h)
    BY <1>1, SdioAssumption DEF Buf, Pos
  <2> QED
    BY <2>1
<1>2. CASE b < h
  <2>1. b - h + Bufs \in 0..(Bufs - 1) /\ b = Pos(h, b - h + Bufs)
    BY <1>2, SdioAssumption DEF Buf, Pos
  <2> QED
    BY <2>1
<1> QED
  BY <1>1, <1>2 DEF Buf

(* Runs of consecutive bytes.                                              *)
LEMMA RunType ==
  ASSUME NEW f \in Nat, NEW n \in Nat, NEW m \in Nat, f + n <= m
  PROVE  Run(f, n) \in Seq(1..m) /\ Len(Run(f, n)) = n
  BY DEF Run

LEMMA RunGrow ==
  ASSUME NEW f \in Nat, NEW n \in Nat, NEW m \in Nat
  PROVE  Run(f, n) \o Run(f + n, m) = Run(f, n + m)
<1>1. /\ Run(f, n) \in Seq(Nat) /\ Len(Run(f, n)) = n
      /\ Run(f + n, m) \in Seq(Nat) /\ Len(Run(f + n, m)) = m
  BY DEF Run
<1> QED
  BY <1>1 DEF Run

LEMMA RunCut ==
  ASSUME NEW f \in Nat, NEW n \in Nat
  PROVE  SubSeq(Run(f, n), 1, n) = Run(f, n)
<1>1. Run(f, n) \in Seq(Nat) /\ Len(Run(f, n)) = n
  BY DEF Run
<1> QED
  BY <1>1 DEF Run

(* What holds beside the lists.                                            *)
Basic == TypeOK /\ HandlerInv /\ TxInv /\ RxInv

LEMMA InitSdio == Init => SdioInv
<1> SUFFICES ASSUME Init PROVE SdioInv
  OBVIOUS
<1>1. 1 \in Buf /\ Bufs \in Buf /\ 0 \in 0..Bufs
  BY SdioAssumption DEF Buf
<1>2. /\ \A b \in Buf : mem[b] = <<>> /\ tail[b] = 0
      /\ \A b \in Buf : next[b] = IF b < Bufs THEN b + 1 ELSE NULL
  BY DEF Init
<1>3. TypeOK
  <2>1. next \in [Buf -> Ptr]
    BY <1>1, SdioAssumption DEF Init, Buf, Ptr, NULL
  <2>2. mem \in [Buf -> Seq(1..MaxBytes)] /\ tail \in [Buf -> 0..Size]
    <3>1. <<>> \in Seq(1..MaxBytes) /\ 0 \in 0..Size
      BY SdioAssumption
    <3> QED
      BY <3>1 DEF Init
  <2>3. rx \in [buf : Buf, len : 0..Size, on : BOOLEAN]
    BY <1>1, SdioAssumption DEF Init
  <2>4. {pHead_ToSend, pTail_ToSend, pHead_Sended, pTail_Sended} \subseteq Ptr
    BY <1>1 DEF Init, Ptr
  <2>5. has_read \in BOOLEAN /\ txOn \in BOOLEAN /\ toHost \in BOOLEAN
    BY DEF Init
  <2>6. /\ status = {} /\ slc = {} /\ isr = "off" /\ task = "idle" /\ len = 0 /\ left = 0
        /\ taken = 0 /\ got = <<>> /\ written = 0 /\ handled = 0
        /\ lost = {} /\ astray = FALSE
    BY DEF Init
  <2>7. <<>> \in Seq(1..MaxBytes) /\ 0 \in 0..MaxLoad /\ 0 \in 0..Size /\ 0 \in 0..MaxBytes
          /\ 0 \in 0..MaxWrites
    BY SdioAssumption
  <2> QED
    BY <2>1, <2>2, <2>3, <2>4, <2>5, <2>6, <2>7 DEF TypeOK
<1>4. HandlerInv /\ TxInv /\ RxInv /\ ~RxPending
  BY DEF Init, HandlerInv, TxInv, RxInv, RxPending, TxPending, RxAtWork, TxAtWork
<1>5. ListsInv(1, 0)
  <2>1. \A j \in 0..(Bufs - 1) :
          next[Pos(1, j)] = IF j \in {0 - 1, Bufs - 1} THEN NULL ELSE Pos(1, j + 1)
    BY <1>2, SdioAssumption DEF Pos, Buf
  <2>2. /\ pHead_ToSend = NULL /\ pHead_Sended = 1 /\ pTail_Sended = Bufs /\ task = "idle"
    BY DEF Init
  <2>3. Pos(1, 0) = 1 /\ Pos(1, Bufs - 1) = Bufs /\ Bufs # 0
    BY SdioAssumption DEF Pos
  <2>4. OnLists(1, 0)
    BY <2>1, <2>2, <2>3 DEF OnLists
  <2> QED
    BY <2>2, <2>4 DEF ListsInv
<1>6. AnnouncedInv(1, 0)
  BY DEF Init, AnnouncedInv
<1>7. FillInv(1, 0) /\ LoadInv(1, 0)
  <2>1. \A j \in 0..(Bufs - 1) : tail[Pos(1, j)] = 0 /\ mem[Pos(1, j)] = <<>>
    <3>1. \A j \in 0..(Bufs - 1) : Pos(1, j) \in Buf
      BY <1>1, PosType, SdioAssumption
    <3> QED
      BY <1>2, <3>1
  <2>2. task = "idle" /\ 0 \in 0..(Bufs - 1) /\ Size > 0
    BY SdioAssumption DEF Init
  <2>3. FillInv(1, 0)
    BY <2>1, <2>2 DEF FillInv
  <2>4. LoadInv(1, 0)
    BY <1>1, <1>2, <2>2 DEF LoadInv
  <2> QED
    BY <2>3, <2>4
<1>8. BytesInv(1, 0)
  <2>1. Run(0, 0) = <<>>
    BY DEF Run
  <2>2. Len(got) = 0 /\ Base(1) = 0 /\ Extra = 0 /\ First(1, 0) = 0
    BY <1>4 DEF Init, Base, Extra, First
  <2> QED
    BY <1>1, <1>2, <2>1, <2>2, PosEnds, SdioAssumption DEF Init, BytesInv
<1> QED
  BY <1>1, <1>3, <1>4, <1>5, <1>6, <1>7, <1>8 DEF SdioInv, RingInv

-----------------------------------------------------------------------------
(* Steps that leave the lists and the bytes alone.                         *)
LEMMA RingAside ==
  ASSUME NEW h \in Buf, NEW k \in 0..Bufs, RingInv(h, k),
         UNCHANGED <<lists, has_read, rx, task, len, left, taken, got>>,
         RxPending' <=> RxPending
  PROVE  RingInv(h, k)'
<1> USE DEF RingInv, lists
<1>1. ListsInv(h, k)'
  BY DEF ListsInv, Hung, OnLists
<1>2. AnnouncedInv(h, k)' /\ FillInv(h, k)'
  BY DEF AnnouncedInv, FillInv
<1>3. Extra' = Extra /\ Base(h)' = Base(h) /\ \A j : First(h, j)' = First(h, j)
  BY DEF Extra, Base, First
<1>4. LoadInv(h, k)'
  BY <1>3 DEF LoadInv
<1>5. BytesInv(h, k)'
  BY <1>3 DEF BytesInv
<1> QED
  BY <1>1, <1>2, <1>4, <1>5

LEMMA Aside ==
  ASSUME SdioInv, ~astray, Basic',
         UNCHANGED <<lists, has_read, rx, task, len, left, taken, got>>,
         RxPending' <=> RxPending
  PROVE  SdioInv'
  BY RingAside DEF SdioInv, Basic

LEMMA StutterSdio ==
  ASSUME SdioInv, UNCHANGED vars
  PROVE  SdioInv'
<1>1. UNCHANGED <<lists, has_read, rx, txOn, status, toHost, isr, slc, task, len, left,
                  taken, got, written, handled, lost, astray>>
  BY DEF vars, taskVars, hostVars
<1>2. (RxPending' <=> RxPending) /\ (TxPending' <=> TxPending)
      /\ (RxAtWork' <=> RxAtWork) /\ (TxAtWork' <=> TxAtWork)
  BY <1>1 DEF RxPending, TxPending, RxAtWork, TxAtWork
<1>3. TypeOK'
  BY <1>1 DEF SdioInv, TypeOK, lists
<1>4. HandlerInv' /\ TxInv' /\ (~astray => RxInv')
  BY <1>1, <1>2 DEF SdioInv, HandlerInv, TxInv, RxInv
<1>5. CASE astray
  BY <1>1, <1>3, <1>4, <1>5 DEF SdioInv
<1>6. CASE ~astray
  BY <1>1, <1>2, <1>3, <1>4, <1>6, Aside DEF Basic
<1> QED
  BY <1>5, <1>6

LEMMA EnterSdio ==
  ASSUME SdioInv, ~astray, IsrEnter
  PROVE  SdioInv'
<1>1. /\ isr = "off" /\ isr' = "rx" /\ slc' = status /\ status' = {}
      /\ UNCHANGED <<lists, has_read, rx, txOn, toHost, task, len, left, taken,
                     got, written, handled, lost, astray>>
  BY DEF IsrEnter, taskVars, hostVars
<1>2. (RxPending' <=> RxPending) /\ (TxPending' <=> TxPending)
      /\ (RxAtWork' <=> "RX_EOF" \in status) /\ (TxAtWork' <=> "TX_EOF" \in status)
  BY <1>1 DEF RxPending, TxPending, RxAtWork, TxAtWork
<1>3. TypeOK'
  BY <1>1 DEF SdioInv, TypeOK, lists
<1>4. HandlerInv' /\ TxInv' /\ RxInv'
  BY <1>1, <1>2 DEF SdioInv, HandlerInv, TxInv, RxInv
<1> QED
  BY <1>1, <1>2, <1>3, <1>4, Aside DEF Basic

LEMMA IsrTxSdio ==
  ASSUME SdioInv, ~astray, IsrTx
  PROVE  SdioInv'
<1>1. /\ isr = "tx" /\ isr' = "end"
      /\ \/ "TX_EOF" \in slc /\ handled' = handled + 1 /\ txOn' /\ toHost'
         \/ "TX_EOF" \notin slc /\ UNCHANGED <<handled, txOn, toHost>>
      /\ UNCHANGED <<lists, has_read, rx, status, slc, task, len, left, taken, got,
                     written, lost, astray>>
  BY DEF IsrTx, taskVars, hostVars
<1>2. /\ RxPending' <=> RxPending
      /\ RxAtWork' <=> RxAtWork
      /\ TxPending' <=> "TX_EOF" \in status \cup lost
      /\ TxAtWork <=> "TX_EOF" \in slc
      /\ ~TxAtWork'
  BY <1>1 DEF RxPending, TxPending, RxAtWork, TxAtWork
<1>3. TxInv' /\ handled' \in 0..MaxWrites
  <2>1. CASE "TX_EOF" \in slc
    BY <1>1, <1>2, <2>1, SdioAssumption DEF SdioInv, TxInv, TxPending, TypeOK
  <2>2. CASE "TX_EOF" \notin slc
    BY <1>1, <1>2, <2>2, SdioAssumption DEF SdioInv, TxInv, TxPending, TypeOK
  <2> QED
    BY <2>1, <2>2
<1>4. txOn' \in BOOLEAN /\ toHost' \in BOOLEAN
  BY DEF IsrTx, SdioInv, TypeOK
<1>5. TypeOK'
  BY <1>1, <1>3, <1>4 DEF SdioInv, TypeOK, lists
<1>6. HandlerInv' /\ RxInv'
  BY <1>1, <1>2 DEF SdioInv, HandlerInv, RxInv
<1> QED
  BY <1>1, <1>2, <1>3, <1>5, <1>6, Aside DEF Basic

LEMMA IsrEndSdio ==
  ASSUME SdioInv, ~astray, IsrEnd
  PROVE  SdioInv'
<1>1. /\ isr = "end" /\ isr' = "off" /\ status' = {} /\ slc' = {}
      /\ lost' = lost \cup status
      /\ UNCHANGED <<lists, has_read, rx, txOn, toHost, task, len, left, taken,
                     got, written, handled, astray>>
  BY DEF IsrEnd, taskVars, hostVars
<1>2. (RxPending' <=> RxPending) /\ (TxPending' <=> TxPending) /\ ~RxAtWork' /\ ~TxAtWork'
  BY <1>1 DEF RxPending, TxPending, RxAtWork, TxAtWork
<1>3. TypeOK'
  BY <1>1 DEF SdioInv, TypeOK, lists
<1>4. HandlerInv' /\ TxInv' /\ RxInv'
  BY <1>1, <1>2 DEF SdioInv, HandlerInv, TxInv, RxInv
<1> QED
  BY <1>1, <1>2, <1>3, <1>4, Aside DEF Basic

LEMMA WriteSdio ==
  ASSUME SdioInv, ~astray, HostWrite \/ HostAck
  PROVE  SdioInv'
<1>1. CASE HostWrite
  <2>1. /\ txOn /\ ~txOn' /\ written < MaxWrites /\ written' = written + 1
        /\ status' = status \cup {"TX_EOF"}
        /\ UNCHANGED <<lists, has_read, rx, toHost, isr, slc, task, len, left, taken,
                       got, handled, lost, astray>>
    BY <1>1 DEF HostWrite, taskVars
  <2>2. /\ RxPending' <=> RxPending
        /\ RxAtWork' <=> RxAtWork
        /\ TxPending' /\ ~TxPending /\ ~TxAtWork' /\ "TX_EOF" \notin lost
    BY <2>1 DEF RxPending, TxPending, RxAtWork, TxAtWork, SdioInv, TxInv
  <2>3. TxInv' /\ written' \in 0..MaxWrites
    BY <2>1, <2>2, SdioAssumption DEF SdioInv, TxInv, TypeOK
  <2>4. txOn' \in BOOLEAN
    BY <1>1 DEF HostWrite
  <2>5. TypeOK'
    BY <2>1, <2>3, <2>4 DEF SdioInv, TypeOK, lists
  <2>6. HandlerInv' /\ RxInv'
    BY <2>1, <2>2 DEF SdioInv, HandlerInv, RxInv
  <2> QED
    BY <2>1, <2>2, <2>3, <2>5, <2>6, Aside DEF Basic
<1>2. CASE HostAck
  <2>1. UNCHANGED <<lists, has_read, rx, txOn, status, isr, slc, task, len, left, taken,
                    got, written, handled, lost, astray>>
    BY <1>2 DEF HostAck, taskVars, hostVars
  <2>2. (RxPending' <=> RxPending) /\ (TxPending' <=> TxPending)
        /\ (RxAtWork' <=> RxAtWork) /\ (TxAtWork' <=> TxAtWork)
    BY <2>1 DEF RxPending, TxPending, RxAtWork, TxAtWork
  <2>3. toHost' \in BOOLEAN
    BY <1>2 DEF HostAck
  <2>4. TypeOK'
    BY <2>1, <2>3 DEF SdioInv, TypeOK, lists
  <2>5. HandlerInv' /\ TxInv' /\ RxInv'
    BY <2>1, <2>2 DEF SdioInv, HandlerInv, TxInv, RxInv
  <2> QED
    BY <2>1, <2>2, <2>4, <2>5, Aside DEF Basic
<1> QED
  BY <1>1, <1>2

-----------------------------------------------------------------------------
(* What the ring says of one buffer.                                       *)
LEMMA RingFacts ==
  ASSUME Basic, NEW h \in Buf, NEW k \in 0..Bufs, RingInv(h, k)
  PROVE  /\ \A j \in 0..Bufs : Pos(h, j) \in Buf
         /\ \A b \in Buf : tail[b] \in 0..Size
         /\ \A j, m \in 0..(Bufs - 1) : Pos(h, j) = Pos(h, m) => j = m
         /\ Base(h) \in Nat /\ \A j \in 0..Bufs : First(h, j) \in Nat
         /\ taken \in 0..MaxBytes /\ Size \in Nat /\ Len(got) \in Nat /\ Bufs \in Nat
         /\ k = 0 => ~RxPending
<1>1. \A j \in 0..Bufs : Pos(h, j) \in Buf
  BY PosType
<1>2. \A b \in Buf : tail[b] \in 0..Size
  BY DEF Basic, TypeOK
<1>3. \A j, m \in 0..(Bufs - 1) : Pos(h, j) = Pos(h, m) => j = m
  BY PosInjective
<1>4. taken \in 0..MaxBytes /\ Size \in Nat /\ Len(got) \in Nat /\ Bufs \in Nat
  BY SdioAssumption DEF Basic, TypeOK
<1>5. Base(h) \in Nat
  BY <1>2, <1>4 DEF RingInv, BytesInv, Base
<1>6. ASSUME NEW j \in 0..Bufs PROVE First(h, j) \in Nat
  <2>1. tail[h] \in Nat
    BY <1>2
  <2>2. j # 0 => (j - 1) * Size \in Nat
    BY <1>4, SdioAssumption
  <2> QED
    BY <1>5, <2>1, <2>2 DEF First
<1>7. k = 0 => ~RxPending
  BY DEF Basic, RxInv, RingInv, AnnouncedInv
<1> QED
  BY <1>1, <1>2, <1>3, <1>4, <1>5, <1>6, <1>7

(* A step of the task leaves the handler and the host alone.               *)
LEMMA TaskBasic ==
  ASSUME Basic, TypeOK', task # "announced", task' # "announced",
         UNCHANGED <<txOn, status, isr, slc, has_read, rx, written, handled, lost>>
  PROVE  Basic' /\ (RxPending' <=> RxPending)
<1>1. (RxPending' <=> RxPending) /\ (TxPending' <=> TxPending)
      /\ (RxAtWork' <=> RxAtWork) /\ (TxAtWork' <=> TxAtWork)
  BY DEF RxPending, TxPending, RxAtWork, TxAtWork
<1> QED
  BY <1>1 DEF Basic, HandlerInv, TxInv, RxInv

LEMMA LoadSdio ==
  ASSUME SdioInv, ~astray, NEW n \in 0..MaxLoad, Load(n)
  PROVE  SdioInv'
<1>1. /\ isr = "off" /\ task = "idle" /\ pHead_Sended # NULL /\ taken + n <= MaxBytes
      /\ task' = (IF n = 0 THEN "start" ELSE "fill") /\ len' = n
      /\ UNCHANGED <<lists, has_read, rx, txOn, status, toHost, isr, slc, left, taken,
                     got, written, handled, lost, astray>>
  BY DEF Load, TaskRuns, hostVars
<1>2. PICK h \in Buf, k \in 0..Bufs : RingInv(h, k)
  BY DEF SdioInv
<1>3. Basic
  BY DEF SdioInv, Basic
<1>4. TypeOK'
  <2>1. task' \in {"start", "fill"}
    BY <1>1
  <2> QED
    BY <1>1, <1>3, <2>1 DEF Basic, TypeOK, lists
<1>5. Basic' /\ (RxPending' <=> RxPending)
  BY <1>1, <1>3, <1>4, TaskBasic
<1>6. OnLists(h, k) /\ k < Bufs /\ (k = 0 => tail[h] = 0)
  <2>1. OnLists(h, k)
    BY <1>1, <1>2 DEF RingInv, ListsInv
  <2>2. k # Bufs
    BY <1>1, <2>1 DEF OnLists
  <2>3. k = 0 => tail[h] = 0
    BY <1>1, <1>2 DEF RingInv, LoadInv
  <2> QED
    BY <2>1, <2>2, <2>3, SdioAssumption
<1>7. ListsInv(h, k)' /\ AnnouncedInv(h, k)' /\ FillInv(h, k)'
  <2>1. ListsInv(h, k)'
    BY <1>1, <1>6 DEF ListsInv, OnLists, lists
  <2> QED
    BY <1>1, <1>2, <2>1 DEF RingInv, AnnouncedInv, FillInv, lists
<1>8. LoadInv(h, k)'
  BY <1>1, <1>6 DEF LoadInv, lists
<1>9. BytesInv(h, k)'
  <2>1. Extra = 0 /\ Extra' = 0 /\ Base(h)' = Base(h) /\ \A j : First(h, j)' = First(h, j)
    BY <1>1, <1>5 DEF Extra, Base, First, lists
  <2> QED
    BY <1>1, <1>2, <2>1 DEF RingInv, BytesInv, lists
<1> QED
  BY <1>5, <1>7, <1>8, <1>9 DEF SdioInv, Basic, RingInv

(* The bytes that are copied continue those of the buffer.                 *)
LEMMA FillSdio ==
  ASSUME SdioInv, ~astray, Fill
  PROVE  SdioInv' /\ taken' \in (taken + 1)..(taken + Size) /\ got' = got
<1> DEFINE b == pHead_Sended
           room == Size - tail[b]
           n == IF len < room THEN len ELSE room
<1>1. /\ isr = "off" /\ task = "fill" /\ task' = "count" /\ left' = room
      /\ mem' = [mem EXCEPT ![b] = SubSeq(@, 1, tail[b]) \o [m \in 1..n |-> taken + m]]
      /\ taken' = taken + n
      /\ UNCHANGED <<tail, next, pHead_ToSend, pTail_ToSend, pHead_Sended,
                     pTail_Sended, has_read, rx, txOn, status, toHost, isr, slc, len,
                     got, written, handled, lost, astray>>
  BY DEF Fill, TaskRuns, hostVars
<1>2. PICK h \in Buf, k \in 0..Bufs : RingInv(h, k)
  BY DEF SdioInv
<1>3. Basic
  BY DEF SdioInv, Basic
<1>4. /\ OnLists(h, k) /\ k < Bufs /\ b = Pos(h, k) /\ b \in Buf /\ len > 0
      /\ k = 0 => tail[h] = 0
      /\ taken + len <= MaxBytes /\ tail[b] < Size /\ k \in 0..(Bufs - 1)
  <2>1. OnLists(h, k) /\ k < Bufs /\ len > 0 /\ taken + len <= MaxBytes
          /\ (k = 0 => tail[h] = 0)
    BY <1>1, <1>2 DEF RingInv, ListsInv, LoadInv
  <2>2. b = Pos(h, k)
    BY <2>1, SdioAssumption DEF OnLists
  <2>3. tail[b] < Size
    BY <1>1, <1>2, <2>1, <2>2 DEF RingInv, FillInv
  <2> QED
    BY <1>2, <1>3, <2>1, <2>2, <2>3, RingFacts, SdioAssumption
<1>5. len \in 0..MaxLoad /\ tail[b] \in 0..Size /\ mem[b] \in Seq(1..MaxBytes)
      /\ taken \in 0..MaxBytes /\ Size \in Nat /\ MaxBytes \in Nat /\ First(h, k) \in Nat
  BY <1>2, <1>3, <1>4, RingFacts, SdioAssumption DEF Basic, TypeOK
<1>6. n \in 1..Size /\ n <= len /\ room \in 1..Size
  BY <1>4, <1>5
<1>7. Extra = 0 /\ Extra' = n
  BY <1>1 DEF Extra
<1>80. left' = Size - tail[b]
  BY <1>1
<1> HIDE DEF n, room, b
<1>81. mem[b] = Run(First(h, k), tail[b]) /\ taken = First(h, k) + tail[b]
  BY <1>2, <1>4, <1>5, <1>7 DEF RingInv, BytesInv
<1>82. tail[b] \in Nat /\ n \in Nat /\ First(h, k) \in Nat
  BY <1>5, <1>6
<1>8. mem'[b] = Run(First(h, k), tail[b] + n) /\ \A c \in Buf : c # b => mem'[c] = mem[c]
  <2>2. SubSeq(mem[b], 1, tail[b]) = Run(First(h, k), tail[b])
    BY <1>81, <1>82, RunCut
  <2>3. [m \in 1..n |-> taken + m] = Run(First(h, k) + tail[b], n)
    BY <1>81 DEF Run
  <2>4. Run(First(h, k), tail[b]) \o Run(First(h, k) + tail[b], n) = Run(First(h, k), tail[b] + n)
    BY <1>82, RunGrow
  <2>5. mem'[b] = SubSeq(mem[b], 1, tail[b]) \o [m \in 1..n |-> taken + m]
    BY <1>1, <1>3, <1>4 DEF Basic, TypeOK
  <2> QED
    BY <1>1, <1>3, <1>4, <2>2, <2>3, <2>4, <2>5 DEF Basic, TypeOK
<1>9. TypeOK'
  <2>1. First(h, k) + (tail[b] + n) <= MaxBytes
    BY <1>4, <1>5, <1>6, <1>81, <1>82
  <2>2. mem'[b] \in Seq(1..MaxBytes)
    <3>1. tail[b] + n \in Nat /\ MaxBytes \in Nat /\ First(h, k) \in Nat
      BY <1>5, <1>82
    <3>2. Run(First(h, k), tail[b] + n) \in Seq(1..MaxBytes)
      BY <2>1, <3>1, RunType
    <3> QED
      BY <1>8, <3>2
  <2>3. taken' \in 0..MaxBytes /\ left' \in 0..Size
    BY <1>1, <1>4, <1>5, <1>6
  <2>4. mem' \in [Buf -> Seq(1..MaxBytes)]
    BY <1>1, <1>3, <1>4, <1>8, <2>2 DEF Basic, TypeOK
  <2> QED
    BY <1>1, <1>3, <2>3, <2>4 DEF Basic, TypeOK
<1>10. Basic' /\ (RxPending' <=> RxPending)
  BY <1>1, <1>3, <1>9, TaskBasic
<1>11. ListsInv(h, k)' /\ AnnouncedInv(h, k)'
  BY <1>1, <1>2, <1>4 DEF RingInv, ListsInv, OnLists, AnnouncedInv
<1>12. \A j \in 0..(Bufs - 1) : j # k => mem'[Pos(h, j)] = mem[Pos(h, j)]
  <2>1. \A j \in 0..(Bufs - 1) : j # k => Pos(h, j) # b /\ Pos(h, j) \in Buf
    BY <1>2, <1>3, <1>4, RingFacts, SdioAssumption
  <2> QED
    BY <1>8, <2>1
<1>13. FillInv(h, k)'
  <2>1. \A j \in (k + 1)..(Bufs - 1) : mem'[Pos(h, j)] = mem[Pos(h, j)]
    BY <1>12, SdioAssumption
  <2> QED
    BY <1>1, <1>2, <2>1 DEF RingInv, FillInv
<1>14. LoadInv(h, k)'
  <2>1. left' = Size - tail'[Pos(h, k)] /\ taken' + len' - Extra' <= MaxBytes
    BY <1>1, <1>4, <1>5, <1>6, <1>7, <1>80
  <2> QED
    BY <1>1, <1>4, <2>1 DEF LoadInv
<1>15. BytesInv(h, k)'
  <2>1. Base(h)' = Base(h) /\ \A j : First(h, j)' = First(h, j)
    BY <1>1, <1>10 DEF Base, First
  <2>2. \A j \in 0..(k - 1) : mem'[Pos(h, j)] = Run(First(h, j), tail[Pos(h, j)])
    <3>1. \A j \in 0..(k - 1) : mem'[Pos(h, j)] = mem[Pos(h, j)]
      BY <1>4, <1>12, SdioAssumption
    <3> QED
      BY <1>2, <3>1 DEF RingInv, BytesInv
  <2>3. taken' = First(h, k) + (tail[Pos(h, k)] + n)
    BY <1>1, <1>4, <1>81, <1>82
  <2> QED
    BY <1>1, <1>2, <1>4, <1>7, <1>8, <2>1, <2>2, <2>3 DEF RingInv, BytesInv
<1>16. SdioInv'
  BY <1>10, <1>11, <1>13, <1>14, <1>15 DEF SdioInv, Basic, RingInv
<1> QED
  BY <1>1, <1>5, <1>6, <1>16

(* What is counted is what was copied.                                     *)
LEMMA CountSdio ==
  ASSUME SdioInv, ~astray, Count
  PROVE  SdioInv'
<1> DEFINE b == pHead_Sended
           n == IF len < left THEN len ELSE left
<1>1. /\ isr = "off" /\ task = "count" /\ tail' = [tail EXCEPT ![b] = @ + n]
      /\ len' = len - n /\ task' = IF len < left THEN "start" ELSE "link"
      /\ UNCHANGED <<mem, next, pHead_ToSend, pTail_ToSend, pHead_Sended,
                     pTail_Sended, has_read, rx, txOn, status, toHost, isr, slc, left,
                     taken, got, written, handled, lost, astray>>
  BY DEF Count, TaskRuns, hostVars
<1>2. PICK h \in Buf, k \in 0..Bufs : RingInv(h, k)
  BY DEF SdioInv
<1>3. Basic
  BY DEF SdioInv, Basic
<1>4. /\ OnLists(h, k) /\ k < Bufs /\ b = Pos(h, k) /\ b \in Buf /\ len > 0
      /\ k = 0 => tail[h] = 0
      /\ taken + len - n <= MaxBytes /\ left = Size - tail[b] /\ tail[b] < Size
      /\ k \in 0..(Bufs - 1)
  <2>1. /\ OnLists(h, k) /\ k < Bufs /\ len > 0 /\ left = Size - tail[Pos(h, k)]
        /\ taken + len - n <= MaxBytes
        /\ k = 0 => tail[h] = 0
    BY <1>1, <1>2 DEF RingInv, ListsInv, LoadInv, Extra
  <2>2. b = Pos(h, k)
    BY <2>1, SdioAssumption DEF OnLists
  <2>3. tail[b] < Size
    BY <1>1, <1>2, <2>1, <2>2 DEF RingInv, FillInv
  <2> QED
    BY <1>2, <1>3, <2>1, <2>2, <2>3, RingFacts, SdioAssumption
<1>5. /\ len \in 0..MaxLoad /\ tail[b] \in 0..Size /\ left \in 0..Size /\ Size \in Nat
      /\ First(h, k) \in Nat /\ taken \in 0..MaxBytes /\ MaxBytes \in Nat /\ MaxLoad \in Nat
  BY <1>2, <1>3, <1>4, RingFacts, SdioAssumption DEF Basic, TypeOK
<1>6. /\ n \in 1..Size /\ n <= len /\ n <= left /\ Extra = n /\ Extra' = 0
      /\ (task' = "start" => n < left) /\ (task' = "link" => n = left)
  BY <1>1, <1>4, <1>5 DEF Extra
<1> HIDE DEF n, b
<1>7. /\ tail'[b] = tail[b] + n
      /\ \A c \in Buf : c # b => tail'[c] = tail[c]
  BY <1>1, <1>3, <1>4 DEF Basic, TypeOK
<1>8. tail'[b] \in 0..Size
  BY <1>4, <1>5, <1>6, <1>7
<1>9. TypeOK'
  <2>1. tail' \in [Buf -> 0..Size]
    BY <1>1, <1>3, <1>4, <1>7, <1>8 DEF Basic, TypeOK
  <2>2. len' \in 0..MaxLoad /\ task' \in {"start", "link"}
    BY <1>1, <1>5, <1>6
  <2> QED
    BY <1>1, <1>3, <2>1, <2>2 DEF Basic, TypeOK
<1>10. Basic' /\ (RxPending' <=> RxPending)
  BY <1>1, <1>3, <1>9, TaskBasic
<1>11. ListsInv(h, k)'
  BY <1>1, <1>4 DEF ListsInv, OnLists
<1>12. \A j \in 0..(Bufs - 1) : j # k => tail'[Pos(h, j)] = tail[Pos(h, j)]
  <2>1. \A j \in 0..(Bufs - 1) : j # k => Pos(h, j) # b /\ Pos(h, j) \in Buf
    BY <1>2, <1>3, <1>4, RingFacts, SdioAssumption
  <2> QED
    BY <1>7, <2>1
<1>13. k > 0 => tail'[h] = tail[h]
  <2>1. k > 0 => tail'[Pos(h, 0)] = tail[Pos(h, 0)]
    BY <1>4, <1>12, SdioAssumption
  <2> QED
    BY <2>1, PosEnds
<1>14. AnnouncedInv(h, k)'
  <2>1. (has_read <=> k = 0) /\ (rx.on => rx.buf = h /\ rx.len = tail[h])
    BY <1>1, <1>2 DEF RingInv, AnnouncedInv
  <2>2. k = 0 => ~rx.on
    BY <1>1, <1>3, <2>1 DEF Basic, RxInv
  <2> QED
    BY <1>1, <1>13, <2>1, <2>2 DEF AnnouncedInv
<1>15. FillInv(h, k)'
  <2>1. \A j \in 1..(k - 1) : tail'[Pos(h, j)] = tail[Pos(h, j)]
    BY <1>4, <1>12, SdioAssumption
  <2>2. \A j \in (k + 1)..(Bufs - 1) : tail'[Pos(h, j)] = tail[Pos(h, j)]
    BY <1>4, <1>12, SdioAssumption
  <2>3. task' # "link" => tail'[b] < Size
    BY <1>1, <1>4, <1>5, <1>6, <1>7
  <2>4. task' # "unlink" /\ task # "unlink"
    BY <1>1
  <2> QED
    BY <1>1, <1>2, <1>4, <1>13, <2>1, <2>2, <2>3, <2>4 DEF RingInv, FillInv
<1>16. LoadInv(h, k)'
  <2>1. CASE task' = "start"
    BY <2>1 DEF LoadInv
  <2>2. CASE task' = "link"
    <3>1. tail'[b] = Size
      BY <1>1, <1>4, <1>5, <1>6, <1>7, <2>2
    <3>2. taken' + len' <= MaxBytes
      BY <1>1, <1>4, <1>5, <1>6
    <3> QED
      BY <1>4, <2>2, <3>1, <3>2 DEF LoadInv
  <2> QED
    BY <1>1, <2>1, <2>2
<1>17. BytesInv(h, k)'
  <2>1. Base(h)' = Base(h) /\ First(h, k)' = First(h, k)
          /\ \A j \in 0..(k - 1) : First(h, j)' = First(h, j)
    <3>1. k = 0 => ~RxPending
      BY <1>2, <1>3, RingFacts
    <3>2. Base(h)' = Base(h)
      BY <1>1, <1>4, <1>10, <1>13, <3>1 DEF Base
    <3> QED
      BY <1>1, <1>4, <1>13, <3>2 DEF First
  <2>2. \A j \in 0..(k - 1) : tail'[Pos(h, j)] = tail[Pos(h, j)]
    BY <1>4, <1>12, SdioAssumption
  <2>3. /\ \A j \in 0..(k - 1) : mem[Pos(h, j)] = Run(First(h, j), tail[Pos(h, j)])
        /\ mem[b] = Run(First(h, k), tail[b] + n) /\ taken = First(h, k) + (tail[b] + n)
        /\ got = Run(0, Len(got)) /\ Base(h) >= 0
    BY <1>2, <1>4, <1>6 DEF RingInv, BytesInv
  <2>4. tail'[b] + Extra' = tail[b] + n
    BY <1>5, <1>6, <1>7
  <2> QED
    BY <1>1, <1>4, <2>1, <2>2, <2>3, <2>4 DEF BytesInv
<1> QED
  BY <1>10, <1>11, <1>14, <1>15, <1>16, <1>17 DEF SdioInv, Basic, RingInv

(* A full buffer comes to ToSend before it leaves the free ones.           *)
LEMMA LinkSdio ==
  ASSUME SdioInv, ~astray, Link
  PROVE  SdioInv'
<1>1. /\ isr = "off" /\ task = "link" /\ task' = "unlink" /\ pTail_ToSend' = pHead_Sended
      /\ astray' = (pHead_ToSend = NULL)
      /\ pHead_ToSend = NULL => next' = next /\ pHead_ToSend' = pHead_Sended
      /\ pHead_ToSend # NULL =>
           next' = [next EXCEPT ![pTail_ToSend] = pHead_Sended] /\ pHead_ToSend' = pHead_ToSend
      /\ UNCHANGED <<mem, tail, pHead_Sended, pTail_Sended, has_read, rx, txOn, status,
                     toHost, isr, slc, len, left, taken, got, written, handled, lost>>
  BY DEF Link, TaskRuns, hostVars
<1>a. CASE astray'
  <2>1. TypeOK'
    BY <1>a, <1>1 DEF SdioInv, TypeOK
  <2>2. HandlerInv' /\ TxInv'
    BY <1>1 DEF SdioInv, HandlerInv, TxInv, TxPending, TxAtWork
  <2> QED
    BY <1>a, <2>1, <2>2 DEF SdioInv
<1> SUFFICES ASSUME ~astray' PROVE SdioInv'
  BY <1>a
<1>2. PICK h \in Buf, k \in 0..Bufs : RingInv(h, k)
  BY DEF SdioInv
<1>3. Basic
  BY DEF SdioInv, Basic
<1> DEFINE a == Pos(h, k - 1)
           b == Pos(h, k)
<1>4. /\ OnLists(h, k) /\ k > 0 /\ k < Bufs /\ tail[b] = Size /\ taken + len <= MaxBytes
      /\ k \in 1..(Bufs - 1) /\ k + 1 \in 0..Bufs /\ k - 1 \in 0..(Bufs - 1)
  <2>1. OnLists(h, k) /\ k < Bufs /\ tail[b] = Size /\ taken + len <= MaxBytes
    BY <1>1, <1>2 DEF RingInv, ListsInv, LoadInv
  <2>2. k # 0
    BY <1>1, <2>1 DEF OnLists
  <2> QED
    BY <2>1, <2>2, SdioAssumption
<1>5. pHead_ToSend = h /\ pTail_ToSend = a /\ pHead_Sended = b /\ pHead_ToSend # NULL
      /\ a \in Buf /\ b \in Buf
  <2>1. a \in Buf /\ b \in Buf
    BY <1>4, PosType, SdioAssumption
  <2> QED
    BY <1>4, <2>1, SdioAssumption DEF OnLists, Buf, NULL
<1>6. next' = [next EXCEPT ![a] = b] /\ pHead_ToSend' = h /\ pTail_ToSend' = b
  BY <1>1, <1>5
<1>7. TypeOK'
  <2>1. next' \in [Buf -> Ptr]
    BY <1>3, <1>5, <1>6 DEF Basic, TypeOK, Ptr
  <2>2. {pHead_ToSend, pTail_ToSend, pHead_Sended, pTail_Sended}' \subseteq Ptr
    BY <1>1, <1>3, <1>5, <1>6 DEF Basic, TypeOK, Ptr
  <2>3. task' \in {"unlink"}
    BY <1>1
  <2> QED
    BY <1>1, <1>3, <2>1, <2>2, <2>3 DEF Basic, TypeOK
<1>8. Basic' /\ (RxPending' <=> RxPending)
  BY <1>1, <1>3, <1>7, TaskBasic
<1>9. ListsInv(h, k + 1)'
  <2>1. ASSUME NEW j \in 0..(Bufs - 1)
        PROVE  next'[Pos(h, j)] = IF j = Bufs - 1 THEN NULL ELSE Pos(h, j + 1)
    <3>1. Pos(h, j) \in Buf
      BY PosType, SdioAssumption
    <3>2. CASE j = k - 1
      <4>1. Pos(h, j + 1) = b /\ j # Bufs - 1
        BY <1>4, <3>2
      <4> QED
        BY <1>3, <1>5, <1>6, <3>2, <4>1 DEF Basic, TypeOK
    <3>3. CASE j # k - 1
      <4>1. Pos(h, j) # a
        BY <1>4, <3>3, PosInjective
      <4>2. next'[Pos(h, j)] = next[Pos(h, j)]
        BY <1>3, <1>6, <3>1, <4>1 DEF Basic, TypeOK
      <4> QED
        BY <1>4, <3>3, <4>2 DEF OnLists
    <3> QED
      BY <3>2, <3>3
  <2>2. k + 1 > 0 /\ (k + 1) - 1 = k
    BY <1>4
  <2>3. pTail_Sended' = Pos(h, Bufs - 1)
    BY <1>1, <1>4 DEF OnLists
  <2> QED
    BY <1>1, <1>5, <1>6, <2>1, <2>2, <2>3 DEF ListsInv, Hung
<1>10. AnnouncedInv(h, k + 1)'
  <2>1. k + 1 # 0 /\ k # 0
    BY <1>4
  <2>2. has_read <=> k = 0
    BY <1>1, <1>2 DEF RingInv, AnnouncedInv
  <2> QED
    BY <1>1, <1>2, <2>1, <2>2 DEF RingInv, AnnouncedInv
<1>11. FillInv(h, k + 1)'
  <2>1. /\ tail[h] > 0
        /\ \A j \in 1..(k - 1) : tail[Pos(h, j)] = Size
        /\ \A j \in (k + 1)..(Bufs - 1) : tail[Pos(h, j)] = 0 /\ mem[Pos(h, j)] = <<>>
    BY <1>2, <1>4 DEF RingInv, FillInv
  <2>2. \A j \in 1..((k + 1) - 1) : tail[Pos(h, j)] = Size
    BY <1>4, <2>1
  <2>3. \A j \in ((k + 1) + 1)..(Bufs - 1) : tail[Pos(h, j)] = 0 /\ mem[Pos(h, j)] = <<>>
    BY <1>4, <2>1, SdioAssumption
  <2>4. k + 1 < Bufs => tail[Pos(h, k + 1)] = 0 /\ mem[Pos(h, k + 1)] = <<>> /\ 0 < Size
    BY <1>4, <2>1, SdioAssumption
  <2> QED
    BY <1>1, <2>1, <2>2, <2>3, <2>4 DEF FillInv
<1>12. LoadInv(h, k + 1)'
  <2>1. k + 1 # 0
    BY <1>4
  <2> QED
    BY <1>1, <1>4, <2>1 DEF LoadInv
<1>13. BytesInv(h, k + 1)'
  <2>1. /\ Extra = 0 /\ Extra' = 0 /\ Base(h)' = Base(h)
        /\ \A j : First(h, j)' = First(h, j)
    BY <1>1, <1>8 DEF Extra, Base, First
  <2>2. /\ got = Run(0, Len(got)) /\ Base(h) >= 0
        /\ \A j \in 0..(k - 1) : mem[Pos(h, j)] = Run(First(h, j), tail[Pos(h, j)])
        /\ mem[b] = Run(First(h, k), tail[b] + 0) /\ taken = First(h, k) + (tail[b] + 0)
    BY <1>2, <1>4, <2>1 DEF RingInv, BytesInv
  <2>3. First(h, k + 1) = First(h, k) + Size /\ First(h, k) \in Nat /\ First(h, k + 1) \in Nat
    <3>1. Base(h) \in Nat /\ tail[h] \in Nat /\ Size \in Nat
      BY <1>2, <1>3, RingFacts
    <3>2. ((k + 1) - 1) * Size = (k - 1) * Size + Size /\ (k - 1) * Size \in Nat
      BY <1>4, <3>1
    <3> QED
      BY <1>4, <3>1, <3>2 DEF First
  <2>4. \A j \in 0..((k + 1) - 1) : mem[Pos(h, j)] = Run(First(h, j), tail[Pos(h, j)])
    <3>1. tail[b] + 0 = tail[b]
      BY <1>4, SdioAssumption
    <3> QED
      BY <1>4, <2>2, <3>1
  <2>5. k + 1 < Bufs =>
          tail[Pos(h, k + 1)] = 0 /\ mem[Pos(h, k + 1)] = Run(First(h, k + 1), 0 + 0)
    <3>1. k + 1 < Bufs => tail[Pos(h, k + 1)] = 0 /\ mem[Pos(h, k + 1)] = <<>>
      BY <1>2, <1>4, SdioAssumption DEF RingInv, FillInv
    <3>2. Run(First(h, k + 1), 0 + 0) = <<>>
      BY DEF Run
    <3> QED
      BY <3>1, <3>2
  <2>6. taken = First(h, k + 1)
    BY <1>4, <2>2, <2>3, SdioAssumption
  <2>7. First(h, k + 1) = First(h, k + 1) + 0 /\ 0 + 0 = 0
    BY <2>3
  <2> QED
    BY <1>1, <2>1, <2>2, <2>4, <2>5, <2>6, <2>7 DEF BytesInv
<1> QED
  BY <1>4, <1>8, <1>9, <1>10, <1>11, <1>12, <1>13 DEF SdioInv, Basic, RingInv

LEMMA UnlinkSdio ==
  ASSUME SdioInv, ~astray, Unlink
  PROVE  SdioInv'
<1>1. /\ isr = "off" /\ task = "unlink" /\ pHead_Sended' = next[pHead_Sended]
      /\ next' = [next EXCEPT ![pTail_ToSend] = NULL]
      /\ task' = IF pHead_Sended' = NULL \/ len = 0 THEN "start" ELSE "fill"
      /\ UNCHANGED <<mem, tail, pHead_ToSend, pTail_ToSend, pTail_Sended, has_read, rx,
                     txOn, status, toHost, isr, slc, len, left, taken, got, written,
                     handled, lost, astray>>
  BY DEF Unlink, TaskRuns, hostVars
<1>2. PICK h \in Buf, k \in 0..Bufs : RingInv(h, k)
  BY DEF SdioInv
<1>3. Basic
  BY DEF SdioInv, Basic
<1> DEFINE a == Pos(h, k - 1)
<1>4. Hung(h, k) /\ k > 0 /\ taken + len <= MaxBytes /\ k - 1 \in 0..(Bufs - 1)
  <2>1. Hung(h, k) /\ taken + len <= MaxBytes
    BY <1>1, <1>2 DEF RingInv, ListsInv, LoadInv
  <2> QED
    BY <2>1, SdioAssumption DEF Hung
<1>5. pHead_ToSend = h /\ pTail_ToSend = a /\ pHead_Sended = a /\ a \in Buf /\ h # NULL
  BY <1>4, PosType, SdioAssumption DEF Hung, Buf, NULL
<1>6. pHead_Sended' = IF k = Bufs THEN NULL ELSE Pos(h, k)
  BY <1>1, <1>4, <1>5, SdioAssumption DEF Hung
<1>7. TypeOK'
  <2>1. next' \in [Buf -> Ptr] /\ pHead_Sended' \in Ptr
    BY <1>1, <1>3, <1>5 DEF Basic, TypeOK, Ptr
  <2>2. task' \in {"start", "fill"}
    BY <1>1
  <2> QED
    BY <1>1, <1>3, <2>1, <2>2 DEF Basic, TypeOK
<1>8. Basic' /\ (RxPending' <=> RxPending)
  BY <1>1, <1>3, <1>7, TaskBasic
<1>9. ListsInv(h, k)'
  <2>1. ASSUME NEW j \in 0..(Bufs - 1)
        PROVE  next'[Pos(h, j)] = IF j \in {k - 1, Bufs - 1} THEN NULL ELSE Pos(h, j + 1)
    <3>1. Pos(h, j) \in Buf
      BY PosType, SdioAssumption
    <3>2. CASE j = k - 1
      BY <1>1, <1>3, <1>5, <3>2 DEF Basic, TypeOK
    <3>3. CASE j # k - 1
      <4>1. Pos(h, j) # a
        BY <1>4, <3>3, PosInjective
      <4>2. next'[Pos(h, j)] = next[Pos(h, j)]
        BY <1>1, <1>3, <1>5, <3>1, <4>1 DEF Basic, TypeOK
      <4> QED
        BY <1>4, <3>3, <4>2 DEF Hung
    <3> QED
      BY <3>2, <3>3
  <2>2. k # 0 /\ (k < Bufs => pTail_Sended' = Pos(h, Bufs - 1))
    BY <1>1, <1>4 DEF Hung
  <2>3. OnLists(h, k)'
    BY <1>1, <1>5, <1>6, <2>1, <2>2 DEF OnLists
  <2> QED
    BY <1>1, <2>3 DEF ListsInv
<1>10. AnnouncedInv(h, k)' /\ FillInv(h, k)'
  BY <1>1, <1>2, <1>4 DEF RingInv, AnnouncedInv, FillInv
<1>11. LoadInv(h, k)'
  <2>1. k # 0
    BY <1>4
  <2>2. task' = "fill" => k < Bufs /\ len > 0
    BY <1>1, <1>3, <1>6, SdioAssumption DEF Basic, TypeOK
  <2>3. task' \in {"start", "fill"}
    BY <1>1
  <2> QED
    BY <1>1, <1>4, <2>1, <2>2, <2>3 DEF LoadInv
<1>12. BytesInv(h, k)'
  <2>1. /\ Extra = 0 /\ Extra' = 0 /\ Base(h)' = Base(h)
        /\ \A j : First(h, j)' = First(h, j)
    BY <1>1, <1>8 DEF Extra, Base, First
  <2> QED
    BY <1>1, <1>2, <2>1 DEF RingInv, BytesInv
<1> QED
  BY <1>8, <1>9, <1>10, <1>11, <1>12 DEF SdioInv, Basic, RingInv

LEMMA StartSdio ==
  ASSUME SdioInv, ~astray, Start
  PROVE  SdioInv'
<1>1. /\ isr = "off" /\ task = "start" /\ len' = 0
      /\ \/ /\ pHead_ToSend = NULL
            /\ pHead_ToSend' = pHead_Sended /\ pTail_ToSend' = pHead_Sended
            /\ pHead_Sended' = next[pHead_Sended]
            /\ next' = [next EXCEPT ![pHead_Sended] = NULL]
            /\ task' = "announce" /\ astray' = (tail[pHead_Sended] = 0)
         \/ /\ pHead_ToSend # NULL
            /\ UNCHANGED <<pHead_ToSend, pTail_ToSend, pHead_Sended, next, astray>>
            /\ task' = "idle"
      /\ UNCHANGED <<mem, tail, pTail_Sended, has_read, rx, txOn, status, toHost, isr,
                     slc, left, taken, got, written, handled, lost>>
  BY DEF Start, TaskRuns, hostVars
<1>2. PICK h \in Buf, k \in 0..Bufs : RingInv(h, k)
  BY DEF SdioInv
<1>3. Basic
  BY DEF SdioInv, Basic
<1>4. OnLists(h, k) /\ (pHead_ToSend = NULL <=> k = 0) /\ h # NULL
  BY <1>1, <1>2 DEF RingInv, ListsInv, OnLists, Buf, NULL
<1>5. 0 \in 0..MaxLoad
  BY SdioAssumption
<1>6. Extra = 0 /\ Extra' = 0
  BY <1>1 DEF Extra
<1>7. CASE k # 0
  <2>1. /\ task' = "idle"
        /\ UNCHANGED <<pHead_ToSend, pTail_ToSend, pHead_Sended, next>>
    BY <1>1, <1>4, <1>7
  <2>2. TypeOK'
    BY <1>1, <1>3, <1>5, <2>1 DEF Basic, TypeOK
  <2>3. Basic' /\ (RxPending' <=> RxPending)
    BY <1>1, <1>3, <2>2, TaskBasic
  <2>4. ListsInv(h, k)'
    BY <1>1, <1>4, <2>1 DEF ListsInv, OnLists
  <2>5. AnnouncedInv(h, k)' /\ FillInv(h, k)' /\ LoadInv(h, k)'
    BY <1>1, <1>2, <1>7, <2>1 DEF RingInv, AnnouncedInv, FillInv, LoadInv
  <2>6. BytesInv(h, k)'
    <3>1. Base(h)' = Base(h) /\ \A j : First(h, j)' = First(h, j)
      BY <1>1, <2>3 DEF Base, First
    <3> QED
      BY <1>1, <1>2, <1>6, <3>1 DEF RingInv, BytesInv
  <2> QED
    BY <2>3, <2>4, <2>5, <2>6 DEF SdioInv, Basic, RingInv
<1>8. CASE k = 0
  <2>1. /\ pHead_ToSend' = pHead_Sended /\ pTail_ToSend' = pHead_Sended
        /\ pHead_Sended' = next[pHead_Sended]
        /\ next' = [next EXCEPT ![pHead_Sended] = NULL]
        /\ task' = "announce" /\ astray' = (tail[pHead_Sended] = 0)
    BY <1>1, <1>4, <1>8
  <2>2. pHead_Sended = h /\ 0 \in 0..(Bufs - 1) /\ 1 \in 0..Bufs /\ Pos(h, 0) = h
          /\ pTail_Sended = Pos(h, Bufs - 1)
    BY <1>4, <1>8, PosEnds, SdioAssumption DEF OnLists
  <2>3. next[h] = IF Bufs = 1 THEN NULL ELSE Pos(h, 1)
    <3>1. next[Pos(h, 0)] = IF 0 \in {0 - 1, Bufs - 1} THEN NULL ELSE Pos(h, 0 + 1)
      BY <1>4, <1>8, <2>2 DEF OnLists
    <3> QED
      BY <2>2, <3>1, SdioAssumption
  <2>4. TypeOK'
    <3>1. next' \in [Buf -> Ptr]
      BY <1>3, <2>1, <2>2 DEF Basic, TypeOK, Ptr
    <3>2. {pHead_ToSend, pTail_ToSend, pHead_Sended, pTail_Sended}' \subseteq Ptr
      BY <1>1, <1>3, <2>1, <2>2 DEF Basic, TypeOK, Ptr
    <3> QED
      BY <1>1, <1>3, <1>5, <2>1, <3>1, <3>2 DEF Basic, TypeOK
  <2>5. Basic' /\ (RxPending' <=> RxPending)
    BY <1>1, <1>3, <2>4, TaskBasic
  <2>6. ListsInv(h, 1)'
    <3>1. ASSUME NEW j \in 0..(Bufs - 1)
          PROVE  next'[Pos(h, j)] = IF j \in {1 - 1, Bufs - 1} THEN NULL ELSE Pos(h, j + 1)
      <4>1. Pos(h, j) \in Buf
        BY PosType, SdioAssumption
      <4>2. CASE j = 0
        BY <1>3, <2>1, <2>2, <4>2 DEF Basic, TypeOK
      <4>3. CASE j # 0
        <5>1. Pos(h, j) # h
          BY <2>2, <4>3, PosInjective
        <5>2. next'[Pos(h, j)] = next[Pos(h, j)]
          BY <1>3, <2>1, <2>2, <4>1, <5>1 DEF Basic, TypeOK
        <5> QED
          BY <1>4, <1>8, <4>3, <5>2 DEF OnLists
      <4> QED
        BY <4>2, <4>3
    <3>2. pHead_Sended' = IF 1 = Bufs THEN NULL ELSE Pos(h, 1)
      BY <2>1, <2>2, <2>3
    <3>3. OnLists(h, 1)'
      BY <1>1, <2>1, <2>2, <3>1, <3>2 DEF OnLists
    <3> QED
      BY <2>1, <3>3 DEF ListsInv
  <2>13. CASE tail[h] = 0
    BY <2>1, <2>2, <2>5, <2>13 DEF SdioInv, Basic
  <2> SUFFICES ASSUME tail[h] # 0 PROVE SdioInv'
    BY <2>13
  <2>7. AnnouncedInv(h, 1)'
    <3>1. has_read /\ ~rx.on
      BY <1>1, <1>2, <1>3, <1>8 DEF RingInv, AnnouncedInv, Basic, RxInv
    <3> QED
      BY <1>1, <2>1, <3>1 DEF AnnouncedInv
  <2>8. tail[h] > 0 /\ \A j \in 1..(Bufs - 1) : tail[Pos(h, j)] = 0 /\ mem[Pos(h, j)] = <<>>
    <3>1. \A j \in (0 + 1)..(Bufs - 1) : tail[Pos(h, j)] = 0 /\ mem[Pos(h, j)] = <<>>
      BY <1>2, <1>8 DEF RingInv, FillInv
    <3> QED
      BY <1>3, <3>1 DEF Basic, TypeOK
  <2>9. 1 < Bufs => tail[Pos(h, 1)] = 0 /\ mem[Pos(h, 1)] = <<>>
    BY <2>8, SdioAssumption
  <2>10. FillInv(h, 1)'
    <3>1. \A j \in (1 + 1)..(Bufs - 1) : tail[Pos(h, j)] = 0 /\ mem[Pos(h, j)] = <<>>
      BY <2>8, SdioAssumption
    <3>2. 1..(1 - 1) = {} /\ 0 < Size
      BY SdioAssumption
    <3> QED
      BY <1>1, <2>1, <2>8, <2>9, <3>1, <3>2 DEF FillInv
  <2>11. LoadInv(h, 1)'
    BY <2>1 DEF LoadInv
  <2>12. BytesInv(h, 1)'
    <3>1. Base(h)' = Base(h) /\ \A j : First(h, j)' = First(h, j)
      BY <1>1, <2>5 DEF Base, First
    <3>2. /\ got = Run(0, Len(got)) /\ Base(h) >= 0
          /\ mem[h] = Run(First(h, 0), tail[h] + 0) /\ taken = First(h, 0) + (tail[h] + 0)
      BY <1>2, <1>6, <1>8, <2>2, SdioAssumption DEF RingInv, BytesInv
    <3>3. Base(h) \in Nat /\ tail[h] \in Nat
      BY <1>2, <1>3, RingFacts
    <3>4. First(h, 0) = Base(h) /\ First(h, 1) = Base(h) + tail[h]
      BY <3>3, SdioAssumption DEF First
    <3>5. mem[h] = Run(First(h, 0), tail[h])
      BY <3>2, <3>3
    <3>6. taken = First(h, 1) /\ First(h, 1) + (0 + 0) = First(h, 1) /\ First(h, 1) + 0 = First(h, 1)
      BY <3>2, <3>3, <3>4
    <3>7. Run(First(h, 1), 0 + 0) = <<>>
      BY DEF Run
    <3>8. \A j \in 0..(1 - 1) : mem[Pos(h, j)] = Run(First(h, j), tail[Pos(h, j)])
      BY <2>2, <3>5
    <3> QED
      BY <1>1, <1>6, <2>9, <3>1, <3>2, <3>6, <3>7, <3>8 DEF BytesInv
  <2> QED
    BY <2>2, <2>5, <2>6, <2>7, <2>10, <2>11, <2>12 DEF SdioInv, Basic, RingInv
<1> QED
  BY <1>7, <1>8

LEMMA TryToLoadSdio ==
  ASSUME SdioInv, ~astray, TryToLoad
  PROVE  SdioInv'
<1>1. /\ isr = "off" /\ task = "announce"
      /\ has_read /\ pHead_ToSend # NULL => LoadDone(pHead_ToSend) /\ task' = "announced"
      /\ UNCHANGED <<lists, has_read, txOn, status, toHost, isr, slc, len, left, taken, got,
                     written, handled, lost, astray>>
  BY DEF TryToLoad, TaskRuns, hostVars
<1>2. PICK h \in Buf, k \in 0..Bufs : RingInv(h, k)
  BY DEF SdioInv
<1>3. Basic
  BY DEF SdioInv, Basic
<1>4. k = 1 /\ OnLists(h, k) /\ has_read /\ tail[h] > 0 /\ tail[h] \in 0..Size
  BY <1>1, <1>2, <1>3, SdioAssumption
     DEF RingInv, ListsInv, AnnouncedInv, FillInv, Basic, TypeOK
<1>5. pHead_ToSend = h /\ h # NULL
  BY <1>4 DEF OnLists, Buf, NULL
<1>6. rx' = [buf |-> h, len |-> tail[h], on |-> TRUE] /\ task' = "announced"
  BY <1>1, <1>4, <1>5 DEF LoadDone
<1>8. TypeOK'
  <2>1. rx' \in [buf : Buf, len : 0..Size, on : BOOLEAN]
    BY <1>4, <1>6
  <2> QED
    BY <1>1, <1>3, <1>6, <2>1 DEF Basic, TypeOK, lists
<1>9. HandlerInv' /\ TxInv' /\ RxInv' /\ (RxPending' <=> RxPending)
  <2>1. (RxPending' <=> RxPending) /\ (TxPending' <=> TxPending)
        /\ (RxAtWork' <=> RxAtWork) /\ (TxAtWork' <=> TxAtWork)
    BY <1>1 DEF RxPending, TxPending, RxAtWork, TxAtWork
  <2>2. rx'.on
    BY <1>6
  <2> QED
    BY <1>1, <1>3, <1>4, <1>6, <2>1, <2>2 DEF Basic, HandlerInv, TxInv, RxInv
<1>10. ListsInv(h, k)'
  BY <1>1, <1>4, <1>6 DEF ListsInv, OnLists, lists
<1>11. AnnouncedInv(h, k)' /\ FillInv(h, k)' /\ LoadInv(h, k)'
  <2>1. rx'.buf = h /\ rx'.len = tail[h]
    BY <1>6
  <2>2. UNCHANGED <<mem, tail>>
    BY <1>1 DEF lists
  <2> QED
    BY <1>1, <1>2, <1>4, <1>6, <2>1, <2>2 DEF RingInv, AnnouncedInv, FillInv, LoadInv
<1>12. BytesInv(h, k)'
  <2>1. UNCHANGED <<mem, tail>>
    BY <1>1 DEF lists
  <2>2. /\ Extra = 0 /\ Extra' = 0 /\ Base(h)' = Base(h)
        /\ \A j : First(h, j)' = First(h, j)
    BY <1>1, <1>6, <1>9, <2>1 DEF Extra, Base, First
  <2> QED
    BY <1>1, <1>2, <2>1, <2>2 DEF RingInv, BytesInv
<1> QED
  BY <1>8, <1>9, <1>10, <1>11, <1>12 DEF SdioInv, RingInv

LEMMA AnnouncedSdio ==
  ASSUME SdioInv, ~astray, Announced
  PROVE  SdioInv'
<1>1. /\ isr = "off" /\ task = "announced" /\ task' = "idle"
      /\ has_read' = FALSE /\ toHost' = TRUE
      /\ UNCHANGED <<lists, rx, txOn, status, isr, slc, len, left, taken, got, written,
                     handled, lost, astray>>
  BY DEF Announced, TaskRuns, hostVars
<1>2. PICK h \in Buf, k \in 0..Bufs : RingInv(h, k)
  BY DEF SdioInv
<1>3. Basic
  BY DEF SdioInv, Basic
<1>4. k = 1
  BY <1>1, <1>2 DEF RingInv, AnnouncedInv
<1>5. TypeOK'
  BY <1>1, <1>3 DEF Basic, TypeOK, lists
<1>6. /\ HandlerInv' /\ TxInv' /\ RxInv' /\ (RxPending' <=> RxPending)
  <2>1. (RxPending' <=> RxPending) /\ (TxPending' <=> TxPending)
        /\ (RxAtWork' <=> RxAtWork) /\ (TxAtWork' <=> TxAtWork)
    BY <1>1 DEF RxPending, TxPending, RxAtWork, TxAtWork
  <2> QED
    BY <1>1, <1>3, <2>1 DEF Basic, HandlerInv, TxInv, RxInv
<1>7. ListsInv(h, k)'
  BY <1>1, <1>2 DEF RingInv, ListsInv, OnLists, lists
<1>8. AnnouncedInv(h, k)' /\ FillInv(h, k)' /\ LoadInv(h, k)'
  BY <1>1, <1>2, <1>4 DEF RingInv, AnnouncedInv, FillInv, LoadInv, lists
<1>9. BytesInv(h, k)'
  <2>1. /\ Extra = 0 /\ Extra' = 0 /\ Base(h)' = Base(h)
        /\ \A j : First(h, j)' = First(h, j)
    BY <1>1, <1>6 DEF Extra, Base, First, lists
  <2> QED
    BY <1>1, <1>2, <2>1 DEF RingInv, BytesInv, lists
<1> QED
  BY <1>5, <1>6, <1>7, <1>8, <1>9 DEF SdioInv, RingInv

-----------------------------------------------------------------------------
(* The host reads what it has not read yet, as far as it is announced.     *)
LEMMA ReadSdio ==
  ASSUME SdioInv, ~astray, HostRead
  PROVE  /\ SdioInv' /\ taken' = taken
         /\ got = Run(0, Len(got))
         /\ \E n \in (Len(got) + 1)..taken : got' = Run(0, n)
<1>1. /\ rx.on /\ got' = got \o SubSeq(mem[rx.buf], 1, rx.len)
      /\ rx' = [rx EXCEPT !.on = FALSE] /\ toHost' = FALSE
      /\ status' = status \cup {"RX_EOF"}
      /\ UNCHANGED <<lists, has_read, txOn, isr, slc, task, len, left, taken, written,
                     handled, lost, astray>>
  BY DEF HostRead, taskVars
<1>2. PICK h \in Buf, k \in 0..Bufs : RingInv(h, k)
  BY DEF SdioInv
<1>3. Basic
  BY DEF SdioInv, Basic
<1>4. /\ ~RxPending /\ RxPending' /\ (TxPending' <=> TxPending) /\ (TxAtWork' <=> TxAtWork)
      /\ ~RxAtWork' /\ "RX_EOF" \notin lost /\ ~(has_read /\ task # "announced")
      /\ "TX_EOF" \in status' <=> "TX_EOF" \in status
  BY <1>1, <1>3 DEF Basic, RxInv, RxPending, TxPending, RxAtWork, TxAtWork
<1>5. k > 0 /\ task # "announce" /\ rx.buf = h /\ rx.len = tail[h] /\ tail[h] > 0
  BY <1>1, <1>2, <1>4, SdioAssumption DEF RingInv, AnnouncedInv, FillInv
<1> DEFINE n == Len(got) + tail[h]
<1>6. /\ tail[h] \in 0..Size /\ Len(got) \in Nat /\ n \in Nat /\ Base(h) = Len(got)
      /\ mem[h] \in Seq(1..MaxBytes) /\ got \in Seq(1..MaxBytes) /\ Size \in Nat
  BY <1>2, <1>3, <1>4, SdioAssumption DEF Basic, TypeOK, Base
<1>7. /\ got = Run(0, Len(got)) /\ mem[h] = Run(Len(got), tail[h])
      /\ taken >= First(h, k) /\ First(h, k) \in Nat
  <2>1. 0 \in 0..(k - 1) /\ Pos(h, 0) = h
    BY <1>5, PosEnds
  <2>2. mem[h] = Run(First(h, 0), tail[h]) /\ First(h, 0) = Len(got)
    BY <1>2, <1>6, <2>1 DEF RingInv, BytesInv, First
  <2>3. First(h, k) \in Nat
    BY <1>2, <1>3, RingFacts
  <2>4. k < Bufs => tail[Pos(h, k)] \in Nat
    BY <1>2, <1>3, RingFacts
  <2>5. Extra \in Nat
    BY <1>3, SdioAssumption DEF Basic, TypeOK, Extra
  <2>6. taken >= First(h, k)
    BY <1>2, <2>3, <2>4, <2>5 DEF RingInv, BytesInv
  <2> QED
    BY <1>2, <2>2, <2>3, <2>6 DEF RingInv, BytesInv
<1>8. taken >= n /\ taken \in 0..MaxBytes
  <2>1. (k - 1) * Size \in Nat
    BY <1>5, <1>6
  <2>2. First(h, k) = n + (k - 1) * Size
    BY <1>5, <1>6 DEF First
  <2> QED
    BY <1>2, <1>3, <1>6, <1>7, <2>1, <2>2, RingFacts
<1>9. got' = Run(0, n) /\ Len(got') = n /\ got' \in Seq(1..MaxBytes)
  <2>0. tail[h] \in Nat /\ 0 + Len(got) = Len(got) /\ 0 \in Nat /\ MaxBytes \in Nat
    BY <1>6, SdioAssumption
  <2>1. SubSeq(mem[rx.buf], 1, rx.len) = Run(Len(got), tail[h])
    BY <1>5, <1>6, <1>7, <2>0, RunCut
  <2>2. Run(0, Len(got)) \o Run(0 + Len(got), tail[h]) = Run(0, n)
    BY <1>6, <2>0, RunGrow
  <2>3. got' = Run(0, n)
    BY <1>1, <1>7, <2>0, <2>1, <2>2
  <2>4. 0 + n <= MaxBytes
    <3>1. taken <= MaxBytes /\ taken \in Nat
      BY <1>8, <2>0
    <3> QED
      BY <1>6, <1>8, <2>0, <3>1
  <2> QED
    BY <1>6, <2>0, <2>3, <2>4, RunType
<1> HIDE DEF n
<1>10. TypeOK'
  <2>1. rx' \in [buf : Buf, len : 0..Size, on : BOOLEAN]
    BY <1>1, <1>3 DEF Basic, TypeOK
  <2>2. status' \subseteq {"RX_EOF", "TX_EOF"}
    BY <1>1, <1>3 DEF Basic, TypeOK
  <2> QED
    BY <1>1, <1>3, <1>9, <2>1, <2>2 DEF Basic, TypeOK, lists
<1>11. HandlerInv' /\ TxInv' /\ RxInv' /\ ~rx'.on
  <2>1. ~rx'.on
    BY <1>1, <1>3 DEF Basic, TypeOK
  <2> QED
    BY <1>1, <1>3, <1>4, <2>1 DEF Basic, HandlerInv, TxInv, RxInv
<1>12. UNCHANGED <<mem, tail, next, pHead_ToSend, pTail_ToSend, pHead_Sended, pTail_Sended>>
  BY <1>1 DEF lists
<1>13. ListsInv(h, k)'
  BY <1>1, <1>2, <1>12 DEF RingInv, ListsInv, Hung, OnLists
<1>14. AnnouncedInv(h, k)' /\ FillInv(h, k)' /\ LoadInv(h, k)'
  <2>1. Extra' = Extra
    BY <1>1 DEF Extra
  <2> QED
    BY <1>1, <1>2, <1>11, <1>12, <2>1 DEF RingInv, AnnouncedInv, FillInv, LoadInv
<1>15. BytesInv(h, k)'
  <2>1. Base(h)' = Base(h)
    <3>1. Base(h)' = Len(got') - tail[h]
      BY <1>4, <1>12 DEF Base
    <3> QED
      BY <1>6, <1>9, <3>1 DEF n
  <2>2. Extra' = Extra /\ \A j : First(h, j)' = First(h, j)
    BY <1>1, <1>12, <2>1 DEF Extra, First
  <2>3. got' = Run(0, Len(got')) /\ Base(h) >= 0
    BY <1>2, <1>9 DEF RingInv, BytesInv
  <2> QED
    BY <1>1, <1>2, <1>12, <2>1, <2>2, <2>3 DEF RingInv, BytesInv
<1>16. n \in (Len(got) + 1)..taken
  BY <1>5, <1>6, <1>8 DEF n
<1> QED
  BY <1>1, <1>7, <1>9, <1>10, <1>11, <1>13, <1>14, <1>15, <1>16 DEF SdioInv, RingInv

(* The buffer that was read goes to the end of the ring's free part: the   *)
(* ring is seen from the buffer after it.                                  *)
LEMMA FreedRing ==
  ASSUME Basic, NEW h \in Buf, NEW k \in 1..Bufs, OnLists(h, k)
  PROVE  /\ Freed.head = Pos(Pos(h, 1), k - 1) /\ Freed.next \in [Buf -> Ptr]
         /\ \A j \in 0..(Bufs - 1) :
              Freed.next[Pos(Pos(h, 1), j)] =
                IF j \in {k - 2, Bufs - 1} THEN NULL ELSE Pos(Pos(h, 1), j + 1)
<1> DEFINE g == Pos(h, 1)
<1>1. /\ pHead_ToSend = h /\ h # NULL /\ g \in Buf /\ Bufs \in Nat \ {0}
      /\ pHead_Sended = IF k = Bufs THEN NULL ELSE Pos(h, k)
      /\ k < Bufs => pTail_Sended = Pos(h, Bufs - 1)
      /\ \A j \in 0..Bufs : Pos(h, j) \in Buf
  <2>1. \A j \in 0..Bufs : Pos(h, j) \in Buf
    BY PosType
  <2>2. Bufs \in Nat \ {0} /\ k # 0 /\ h # NULL /\ 1 \in 0..Bufs
    BY SdioAssumption DEF Buf, NULL
  <2> QED
    BY <2>1, <2>2 DEF OnLists
<1>2. \A j \in 0..(Bufs - 1) : Pos(g, j) = Pos(h, j + 1)
  BY PosShift
<1>3. Pos(h, Bufs) = h /\ Pos(h, 0) = h
  BY PosEnds
<1>4. pHead_Sended = NULL <=> k = Bufs
  BY <1>1 DEF Buf, NULL
<1>5. Freed.head = Pos(g, k - 1)
  <2>1. Pos(g, k - 1) = Pos(h, k)
    <3>1. k - 1 \in 0..(Bufs - 1) /\ (k - 1) + 1 = k
      BY <1>1
    <3> QED
      BY <1>2, <3>1
  <2> QED
    BY <1>1, <1>3, <1>4, <2>1 DEF Freed
<1>6. Freed.next = [m \in Buf |-> IF m = pTail_Sended /\ pHead_Sended # NULL THEN h
                                  ELSE IF m = h THEN NULL ELSE next[m]]
  BY <1>1 DEF Freed
<1>7. Freed.next \in [Buf -> Ptr]
  BY <1>1, <1>6 DEF Basic, TypeOK, Ptr
<1>8. ASSUME NEW j \in 0..(Bufs - 1)
      PROVE  Freed.next[Pos(g, j)] = IF j \in {k - 2, Bufs - 1} THEN NULL ELSE Pos(g, j + 1)
  <2>1. CASE j = Bufs - 1
    <3>1. Pos(g, j) = h
      BY <1>1, <1>2, <1>3, <2>1
    <3>2. k < Bufs => pTail_Sended # h
      <4>1. k < Bufs => Bufs - 1 # 0 /\ Bufs - 1 \in 0..(Bufs - 1) /\ 0 \in 0..(Bufs - 1)
        BY <1>1
      <4> QED
        BY <1>1, <1>3, <4>1, PosInjective
    <3>3. Freed.next[h] = NULL
      BY <1>1, <1>4, <1>6, <3>2
    <3> QED
      BY <2>1, <3>1, <3>3
  <2>2. CASE j < Bufs - 1
    <3>1. j + 1 \in 1..(Bufs - 1) /\ Pos(g, j) = Pos(h, j + 1) /\ Pos(g, j + 1) = Pos(h, (j + 1) + 1)
      BY <1>1, <1>2, <2>2
    <3>2. Pos(g, j) \in Buf /\ Pos(g, j) # h
      <4>1. j + 1 \in 0..(Bufs - 1) /\ 0 \in 0..(Bufs - 1) /\ j + 1 # 0 /\ j + 1 \in 0..Bufs
        BY <1>1, <3>1
      <4> QED
        BY <1>1, <1>3, <3>1, <4>1, PosInjective
    <3>3. next[Pos(g, j)] =
            IF j + 1 \in {k - 1, Bufs - 1} THEN NULL ELSE Pos(g, j + 1)
      BY <1>1, <3>1 DEF OnLists
    <3>4. CASE k < Bufs /\ j + 1 = Bufs - 1
      <4>1. Pos(g, j) = pTail_Sended /\ pHead_Sended # NULL
        BY <1>1, <1>4, <3>1, <3>4
      <4>2. Pos(g, j + 1) = h
        BY <1>1, <1>3, <3>1, <3>4
      <4>3. j # k - 2 /\ j # Bufs - 1
        BY <1>1, <3>4
      <4> QED
        BY <1>6, <3>2, <4>1, <4>2, <4>3
    <3>5. CASE ~(k < Bufs /\ j + 1 = Bufs - 1)
      <4>1. ~(Pos(g, j) = pTail_Sended /\ pHead_Sended # NULL)
        <5>1. CASE k = Bufs
          BY <1>4, <5>1
        <5>2. CASE k < Bufs
          <6>1. j + 1 # Bufs - 1 /\ j + 1 \in 0..(Bufs - 1) /\ Bufs - 1 \in 0..(Bufs - 1)
            BY <1>1, <3>1, <3>5, <5>2
          <6> QED
            BY <1>1, <3>1, <5>2, <6>1, PosInjective
        <5> QED
          BY <1>1, <5>1, <5>2
      <4>2. Freed.next[Pos(g, j)] = next[Pos(g, j)]
        BY <1>6, <3>2, <4>1
      <4>3. j + 1 \in {k - 1, Bufs - 1} <=> j \in {k - 2, Bufs - 1}
        BY <1>1, <2>2, <3>1, <3>5
      <4> QED
        BY <3>3, <4>2, <4>3
    <3> QED
      BY <3>4, <3>5
  <2> QED
    BY <1>1, <2>1, <2>2
<1> QED
  BY <1>5, <1>7, <1>8

(* The same while the last buffer of ToSend is also the first free one.    *)
LEMMA FreedHung ==
  ASSUME Basic, NEW h \in Buf, NEW k \in 2..Bufs, Hung(h, k)
  PROVE  /\ Freed.head = Pos(h, k - 1)
         /\ \A j \in 0..(Bufs - 1) :
              Freed.next[Pos(Pos(h, 1), j)] =
                IF j = Bufs - 1 THEN NULL ELSE Pos(Pos(h, 1), j + 1)
<1> DEFINE g == Pos(h, 1)
<1>1. /\ pHead_ToSend = h /\ g \in Buf /\ Bufs \in Nat \ {0, 1} /\ h \in Buf
      /\ pHead_Sended = Pos(h, k - 1) /\ pTail_Sended = Pos(h, Bufs - 1)
      /\ \A j \in 0..Bufs : Pos(h, j) \in Buf
      /\ pHead_Sended # NULL
  <2>1. \A j \in 0..Bufs : Pos(h, j) \in Buf
    BY PosType
  <2>2. Bufs \in Nat \ {0, 1} /\ 1 \in 0..Bufs /\ k - 1 \in 0..Bufs
    BY SdioAssumption
  <2> QED
    BY <2>1, <2>2 DEF Hung, Buf, NULL
<1>2. \A j \in 0..(Bufs - 1) : Pos(g, j) = Pos(h, j + 1)
  BY PosShift
<1>3. Pos(h, Bufs) = h /\ Pos(h, 0) = h
  BY PosEnds
<1>4. Freed.next = [m \in Buf |-> IF m = pTail_Sended THEN h
                                  ELSE IF m = h THEN NULL ELSE next[m]]
  BY <1>1 DEF Freed
<1>5. ASSUME NEW j \in 0..(Bufs - 1)
      PROVE  Freed.next[Pos(g, j)] = IF j = Bufs - 1 THEN NULL ELSE Pos(g, j + 1)
  <2>1. CASE j = Bufs - 1
    <3>1. Pos(g, j) = h
      BY <1>1, <1>2, <1>3, <2>1
    <3>2. pTail_Sended # h
      <4>1. Bufs - 1 # 0 /\ Bufs - 1 \in 0..(Bufs - 1) /\ 0 \in 0..(Bufs - 1)
        BY <1>1
      <4> QED
        BY <1>1, <1>3, <4>1, PosInjective
    <3> QED
      BY <1>1, <1>4, <2>1, <3>1, <3>2
  <2>2. CASE j < Bufs - 1
    <3>1. j + 1 \in 1..(Bufs - 1) /\ Pos(g, j) = Pos(h, j + 1) /\ Pos(g, j + 1) = Pos(h, (j + 1) + 1)
      BY <1>1, <1>2, <2>2
    <3>2. Pos(g, j) \in Buf /\ Pos(g, j) # h
      <4>1. j + 1 \in 0..(Bufs - 1) /\ 0 \in 0..(Bufs - 1) /\ j + 1 # 0 /\ j + 1 \in 0..Bufs
        BY <1>1, <3>1
      <4> QED
        BY <1>1, <1>3, <3>1, <4>1, PosInjective
    <3>3. CASE j + 1 = Bufs - 1
      <4>1. Pos(g, j) = pTail_Sended /\ Pos(g, j + 1) = h
        BY <1>1, <1>3, <3>1, <3>3
      <4> QED
        BY <1>4, <2>2, <3>2, <4>1
    <3>4. CASE j + 1 # Bufs - 1
      <4>1. Pos(g, j) # pTail_Sended
        <5>1. j + 1 \in 0..(Bufs - 1) /\ Bufs - 1 \in 0..(Bufs - 1)
          BY <1>1, <3>1
        <5> QED
          BY <1>1, <3>1, <3>4, <5>1, PosInjective
      <4>2. next[Pos(h, j + 1)] = Pos(h, (j + 1) + 1)
        BY <1>1, <3>1, <3>4 DEF Hung
      <4> QED
        BY <1>4, <2>2, <3>1, <3>2, <4>1, <4>2
    <3> QED
      BY <3>3, <3>4
  <2> QED
    BY <1>1, <2>1, <2>2
<1> QED
  BY <1>1, <1>5 DEF Freed

(* Whatever the lists are like, pointers stay pointers.                    *)
LEMMA ReadDoneType ==
  ASSUME TypeOK, ReadDone, pHead_ToSend \in Buf, isr' = "tx", astray' \in BOOLEAN,
         UNCHANGED <<txOn, status, slc, task, len, left, taken, got, written, handled, lost>>
  PROVE  TypeOK'
<1> DEFINE b == pHead_ToSend
<1>1. /\ Freed.next \in [Buf -> Ptr] /\ Freed.head \in Buf
  BY DEF TypeOK, Freed, Ptr, NULL
<1>2. ASSUME NEW c \in Buf, LoadDone(c)
      PROVE  rx' \in [buf : Buf, len : 0..Size, on : BOOLEAN]
  <2>1. tail[c] \in 0..Size /\ rx \in [buf : Buf, len : 0..Size, on : BOOLEAN]
    BY DEF TypeOK
  <2>2. CASE tail[c] = 0
    <3>1. rx' = [rx EXCEPT !.buf = c]
      BY <1>2, <2>2 DEF LoadDone
    <3> QED
      BY <2>1, <3>1
  <2>3. CASE tail[c] # 0
    <3>1. rx' = [buf |-> c, len |-> tail[c], on |-> TRUE]
      BY <1>2, <2>3 DEF LoadDone
    <3> QED
      BY <2>1, <3>1
  <2> QED
    BY <2>2, <2>3
<1>3. /\ mem' = [mem EXCEPT ![b] = <<>>] /\ tail' = [tail EXCEPT ![b] = 0]
      /\ pTail_Sended' = b /\ toHost' = TRUE
      /\ \/ /\ next[b] # NULL
            /\ pHead_ToSend' = next[b] /\ LoadDone(next[b]) /\ has_read' = FALSE
            /\ pHead_Sended' = Freed.head /\ next' = Freed.next /\ pTail_ToSend' = pTail_ToSend
         \/ /\ pHead_ToSend' = Freed.head /\ pTail_ToSend' = Freed.head
            /\ LoadDone(Freed.head) /\ has_read' = FALSE
            /\ pHead_Sended' = Freed.next[Freed.head]
            /\ next' = [Freed.next EXCEPT ![Freed.head] = NULL]
         \/ /\ pHead_ToSend' = NULL /\ has_read' = TRUE
            /\ pHead_Sended' = Freed.head /\ next' = Freed.next
            /\ pTail_ToSend' = pTail_ToSend /\ rx' = rx
  BY DEF ReadDone
<1> HIDE DEF b
<1>4. mem' \in [Buf -> Seq(1..MaxBytes)] /\ tail' \in [Buf -> 0..Size]
  <2>1. <<>> \in Seq(1..MaxBytes) /\ 0 \in 0..Size
    BY SdioAssumption
  <2> QED
    BY <1>3, <2>1 DEF TypeOK
<1>5. next[b] \in Ptr
  BY DEF TypeOK, b
<1>6. rx' \in [buf : Buf, len : 0..Size, on : BOOLEAN] /\ has_read' \in BOOLEAN
  BY <1>1, <1>2, <1>3, <1>5 DEF TypeOK, Ptr
<1>7. next' \in [Buf -> Ptr]
  BY <1>1, <1>3 DEF Ptr
<1>8. {pHead_ToSend, pTail_ToSend, pHead_Sended, pTail_Sended}' \subseteq Ptr
  <2>1. b \in Ptr /\ Freed.head \in Ptr /\ Freed.next[Freed.head] \in Ptr /\ NULL \in Ptr
        /\ pTail_ToSend \in Ptr
    BY <1>1 DEF TypeOK, Ptr, b
  <2> QED
    BY <1>3, <1>5, <2>1
<1> QED
  BY <1>3, <1>4, <1>6, <1>7, <1>8 DEF TypeOK

(* sdio_read_done_process at work, on a ring whose first buffer is h, and  *)
(* not under the hands of the task.                                        *)
ReadAt(h, k) ==
  /\ Basic /\ RingInv(h, k) /\ RxPending /\ ~RxPending' /\ ReadDone /\ ~Collision
  /\ TypeOK' /\ UNCHANGED <<task, len, left, taken, got>>

LEMMA ReadWhere ==
  ASSUME NEW h \in Buf, NEW k \in 1..Bufs, ReadAt(h, k)
  PROVE  /\ task \in {"idle", "fill", "count", "link", "unlink", "start"}
         /\ ~has_read /\ ~rx.on /\ pHead_ToSend = h /\ h # NULL
         /\ task = "unlink" => k > 1
         /\ k = 1 => task # "link" /\ (task = "count" => tail[pHead_Sended] = 0)
<1> USE DEF ReadAt
<1>1. pHead_ToSend = h /\ pTail_ToSend = Pos(h, k - 1) /\ h # NULL
  BY DEF RingInv, ListsInv, OnLists, Hung, Buf, NULL
<1>2. k = 1 => pHead_ToSend = pTail_ToSend
  BY <1>1, PosEnds
<1>3. task # "announced"
  BY <1>2 DEF RingInv, AnnouncedInv, Collision
<1>4. ~has_read /\ ~rx.on
  BY <1>3 DEF Basic, RxInv
<1>5. task # "announce"
  BY <1>4 DEF RingInv, AnnouncedInv
<1>6. ASSUME task = "count", k = 1 PROVE tail[pHead_Sended] = 0
  <2>1. pHead_Sended = Pos(h, k)
    BY <1>6, SdioAssumption DEF RingInv, ListsInv, OnLists, LoadInv
  <2>2. tail[Pos(h, k)] \in 0..Size /\ Size \in Nat
    BY PosType, SdioAssumption DEF Basic, TypeOK
  <2>3. ~(tail[pHead_Sended] > 0)
    BY <1>2, <1>6 DEF Collision
  <2> QED
    BY <2>1, <2>2, <2>3
<1>7. k = 1 => task \notin {"link", "unlink"}
  BY <1>2 DEF Collision
<1>8. k = 1 \/ k > 1
  BY SdioAssumption
<1>9. task \in {"idle", "fill", "count", "link", "unlink", "start"}
  BY <1>3, <1>5 DEF Basic, TypeOK
<1> QED
  BY <1>1, <1>4, <1>6, <1>7, <1>8, <1>9

(* What it finds, seen from the next buffer, g: the bytes of the k - 1     *)
(* buffers from g on are next, those behind them are empty, and what the   *)
(* task has copied but not counted is where it was.                        *)
LEMMA AfterRead ==
  ASSUME NEW h \in Buf, NEW k \in 1..Bufs, ReadAt(h, k)
  PROVE  LET g == Pos(h, 1)
         IN /\ Extra \in Nat /\ Extra' = Extra /\ (k = Bufs => Extra = 0)
            /\ \A j \in 0..(k - 2) : tail'[Pos(g, j)] = Size
            /\ Pos(g, k - 1) = Pos(h, k)
            /\ k < Bufs => tail'[Pos(g, k - 1)] = tail[Pos(h, k)]
            /\ k = Bufs => tail'[Pos(g, k - 1)] = 0 /\ mem'[Pos(g, k - 1)] = <<>>
            /\ \A j \in k..(Bufs - 1) : tail'[Pos(g, j)] = 0 /\ mem'[Pos(g, j)] = <<>>
            /\ First(g, 0)' = Len(got)
            /\ \A j \in 0..(k - 1) : First(g, j)' \in Nat
            /\ \A j \in 0..(k - 2) :
                 mem'[Pos(g, j)] = Run(First(g, j)', tail'[Pos(g, j)])
            /\ mem'[Pos(g, k - 1)] = Run(First(g, k - 1)', tail'[Pos(g, k - 1)] + Extra)
            /\ taken = First(g, k - 1)' + (tail'[Pos(g, k - 1)] + Extra)
            /\ got = Run(0, Len(got)) /\ Base(g)' = Len(got)
<1> DEFINE g == Pos(h, 1)
<1>0. /\ Basic /\ RingInv(h, k) /\ RxPending /\ ~RxPending'
      /\ UNCHANGED <<task, len, left, taken, got>>
      /\ mem' = [mem EXCEPT ![h] = <<>>] /\ tail' = [tail EXCEPT ![h] = 0]
  <2>1. pHead_ToSend = h
    BY ReadWhere
  <2> QED
    BY <2>1 DEF ReadAt, ReadDone
<1>1. /\ Bufs \in Nat \ {0} /\ Size \in Nat /\ g \in Buf /\ Len(got) \in Nat /\ tail[h] \in Nat
      /\ k \in Nat /\ 1 \in 0..Bufs
  <2>1. Bufs \in Nat \ {0} /\ 1 \in 0..Bufs
    BY SdioAssumption
  <2> QED
    BY <1>0, <2>1, RingFacts, SdioAssumption
<1>2. Extra \in Nat /\ Extra' = Extra /\ (k = Bufs => Extra = 0)
  <2>1. len \in Nat /\ left \in Nat
    BY <1>0, SdioAssumption DEF Basic, TypeOK
  <2>2. task = "count" => k < Bufs
    BY <1>0 DEF RingInv, LoadInv
  <2> QED
    BY <1>0, <1>1, <2>1, <2>2 DEF Extra
<1>3. \A j \in 0..(Bufs - 1) : Pos(g, j) = Pos(h, j + 1) /\ Pos(h, j) \in Buf /\ Pos(g, j) \in Buf
  BY <1>1, PosShift, PosType
<1>4. Pos(h, Bufs) = h /\ Pos(h, 0) = h
  BY PosEnds
<1>5. mem'[h] = <<>> /\ tail'[h] = 0
        /\ \A b \in Buf : b # h => mem'[b] = mem[b] /\ tail'[b] = tail[b]
  BY <1>0 DEF Basic, TypeOK
<1>6. \A j \in 0..(Bufs - 2) : Pos(g, j) # h
  <2>1. ASSUME NEW j \in 0..(Bufs - 2), Pos(g, j) = h PROVE FALSE
    <3>1. j \in 0..(Bufs - 1) /\ j + 1 \in 0..(Bufs - 1) /\ 0 \in 0..(Bufs - 1) /\ j + 1 # 0
      BY <1>1
    <3> QED
      BY <1>3, <1>4, <2>1, <3>1, PosInjective
  <2> QED
    BY <2>1
<1>7. \A j \in 0..(Bufs - 2) : tail'[Pos(g, j)] = tail[Pos(h, j + 1)]
                               /\ mem'[Pos(g, j)] = mem[Pos(h, j + 1)]
  BY <1>1, <1>3, <1>5, <1>6
<1>8. Pos(g, Bufs - 1) = h
  BY <1>1, <1>3, <1>4
<1>9. \A j \in 0..(k - 2) : tail'[Pos(g, j)] = Size
  <2>1. \A j \in 1..(k - 1) : tail[Pos(h, j)] = Size
    BY <1>0 DEF RingInv, FillInv
  <2> QED
    BY <1>1, <1>7, <2>1
<1>10. Pos(g, k - 1) = Pos(h, k) /\ (k < Bufs => tail'[Pos(g, k - 1)] = tail[Pos(h, k)])
  <2>1. k - 1 \in 0..(Bufs - 1) /\ (k - 1) + 1 = k /\ (k < Bufs => k - 1 \in 0..(Bufs - 2))
    BY <1>1
  <2> QED
    BY <1>3, <1>7, <2>1
<1>11. k = Bufs => tail'[Pos(g, k - 1)] = 0 /\ mem'[Pos(g, k - 1)] = <<>>
  BY <1>5, <1>8
<1>12. ASSUME NEW j \in k..(Bufs - 1) PROVE tail'[Pos(g, j)] = 0 /\ mem'[Pos(g, j)] = <<>>
  <2>1. CASE j = Bufs - 1
    BY <1>5, <1>8, <2>1
  <2>2. CASE j # Bufs - 1
    <3>1. j \in 0..(Bufs - 2) /\ j + 1 \in (k + 1)..(Bufs - 1)
      BY <1>1, <2>2
    <3> QED
      BY <1>0, <1>7, <3>1 DEF RingInv, FillInv
  <2> QED
    BY <2>1, <2>2
<1>13. Base(g)' = Len(got) /\ Base(h) = Len(got) - tail[h]
  BY <1>0 DEF Base
<1>14. ASSUME NEW j \in 0..(k - 1)
       PROVE  First(g, j)' = First(h, j + 1) /\ First(g, j)' = Len(got) + j * Size
  <2>1. First(h, j + 1) = Base(h) + tail[h] + ((j + 1) - 1) * Size
    BY <1>1 DEF First
  <2>2. ((j + 1) - 1) * Size = j * Size /\ j * Size \in Nat
    BY <1>1
  <2>3. First(h, j + 1) = Len(got) + j * Size
    <3>1. \A m \in Nat : (Len(got) - tail[h]) + tail[h] + m = Len(got) + m
      BY <1>1
    <3> QED
      BY <1>13, <2>1, <2>2, <3>1
  <2>4. CASE j = 0
    BY <1>1, <1>13, <2>2, <2>3, <2>4 DEF First
  <2>5. CASE j # 0
    <3>1. Pos(g, 0) = g /\ 0 \in 0..(k - 2)
      BY <1>1, <2>5, PosEnds
    <3>2. tail'[g] = Size
      BY <1>9, <3>1
    <3>3. (j - 1) * Size + Size = j * Size /\ (j - 1) * Size \in Nat
      BY <1>1, <2>5
    <3>4. First(g, j)' = Len(got) + tail'[g] + (j - 1) * Size
      BY <1>13, <2>5 DEF First
    <3> QED
      BY <1>1, <2>2, <2>3, <3>2, <3>3, <3>4
  <2> QED
    BY <2>4, <2>5
<1>15. First(g, 0)' = Len(got)
  BY <1>13 DEF First
<1>16. ASSUME NEW j \in 0..(k - 1) PROVE First(g, j)' \in Nat
  <2>1. j * Size \in Nat
    BY <1>1
  <2>2. \A m \in Nat : Len(got) + m \in Nat
    BY <1>1
  <2> QED
    BY <1>14, <2>1, <2>2
<1>17. ASSUME NEW j \in 0..(k - 2)
       PROVE  mem'[Pos(g, j)] = Run(First(g, j)', tail'[Pos(g, j)])
  <2>1. j \in 0..(Bufs - 2) /\ j + 1 \in 0..(k - 1) /\ j \in 0..(k - 1)
    BY <1>1
  <2> QED
    BY <1>0, <1>7, <1>14, <2>1 DEF RingInv, BytesInv
<1>18. /\ mem'[Pos(g, k - 1)] = Run(First(g, k - 1)', tail'[Pos(g, k - 1)] + Extra)
       /\ taken = First(g, k - 1)' + (tail'[Pos(g, k - 1)] + Extra)
  <2>1. k - 1 \in 0..(k - 1) /\ (k - 1) + 1 = k /\ k - 1 \in 0..(Bufs - 1)
    BY <1>1
  <2>2. First(g, k - 1)' = First(h, k) /\ First(h, k) \in Nat
    BY <1>14, <1>16, <2>1
  <2>3. CASE k = Bufs
    <3>1. Run(First(h, k), 0 + 0) = <<>>
      BY DEF Run
    <3>2. taken = First(h, k) + 0
      BY <1>0, <2>3 DEF RingInv, BytesInv
    <3> QED
      BY <1>2, <1>11, <2>2, <2>3, <3>1, <3>2
  <2>4. CASE k # Bufs
    <3>1. /\ taken = First(h, k) + (tail[Pos(h, k)] + Extra) /\ k < Bufs
          /\ mem[Pos(h, k)] = Run(First(h, k), tail[Pos(h, k)] + Extra)
      BY <1>0, <1>1, <2>4 DEF RingInv, BytesInv
    <3>2. tail'[Pos(g, k - 1)] = tail[Pos(h, k)] /\ mem'[Pos(g, k - 1)] = mem[Pos(h, k)]
      <4>1. k - 1 \in 0..(Bufs - 2)
        BY <1>1, <3>1
      <4> QED
        BY <1>7, <2>1, <4>1
    <3> QED
      BY <2>2, <3>1, <3>2
  <2> QED
    BY <2>3, <2>4
<1>19. got = Run(0, Len(got))
  BY <1>0 DEF RingInv, BytesInv
<1> QED
  BY <1>2, <1>9, <1>10, <1>11, <1>12, <1>13, <1>15, <1>16, <1>17, <1>18, <1>19

(* The next of ToSend is announced: what the task has counted and copied   *)
(* is where it was, one buffer further on.                                 *)
LEMMA ReadFill ==
  ASSUME NEW h \in Buf, NEW k \in 1..Bufs, ReadAt(h, k),
         k = 1 => tail'[Pos(h, 1)] = 0
  PROVE  /\ FillInv(Pos(h, 1), k - 1)' /\ LoadInv(Pos(h, 1), k - 1)'
         /\ BytesInv(Pos(h, 1), k - 1)'
<1> DEFINE g == Pos(h, 1)
           l == k - 1
<1>1. /\ Basic /\ RingInv(h, k) /\ UNCHANGED <<task, len, left, taken, got>>
      /\ task \in {"idle", "fill", "count", "link", "unlink", "start"}
  BY ReadWhere DEF ReadAt
<1>2. /\ Bufs \in Nat \ {0} /\ Size \in Nat \ {0} /\ l \in 0..(Bufs - 1) /\ g \in Buf
      /\ l \in 0..Bufs /\ l + 1 = k
      /\ Pos(g, 0) = g /\ Pos(g, Bufs - 1) = h /\ Pos(g, l) \in Buf
      /\ \A j \in 0..Bufs : Pos(g, j) \in Buf
      /\ Len(got) \in Nat /\ 1 \in 0..Bufs /\ h \in Buf
  <2>1. Bufs \in Nat \ {0} /\ Size \in Nat \ {0} /\ 1 \in 0..Bufs
    BY SdioAssumption
  <2>2. l \in 0..(Bufs - 1) /\ l \in 0..Bufs /\ l + 1 = k
    BY <2>1
  <2>3. g \in Buf /\ Len(got) \in Nat
    BY <1>1, <2>1, RingFacts
  <2>4. Pos(g, Bufs - 1) = h
    <3>1. Bufs - 1 \in 0..(Bufs - 1) /\ (Bufs - 1) + 1 = Bufs
      BY <2>1
    <3> QED
      BY <3>1, PosShift, PosEnds
  <2> QED
    BY <2>1, <2>2, <2>3, <2>4, PosType, PosEnds
<1>3. /\ Extra \in Nat /\ Extra' = Extra /\ (k = Bufs => Extra = 0)
      /\ \A j \in 0..(l - 1) : tail'[Pos(g, j)] = Size
      /\ Pos(g, l) = Pos(h, k)
      /\ k < Bufs => tail'[Pos(g, l)] = tail[Pos(h, k)]
      /\ k = Bufs => tail'[Pos(g, l)] = 0 /\ mem'[Pos(g, l)] = <<>>
      /\ \A j \in (l + 1)..(Bufs - 1) : tail'[Pos(g, j)] = 0 /\ mem'[Pos(g, j)] = <<>>
      /\ First(g, 0)' = Len(got)
      /\ \A j \in 0..l : First(g, j)' \in Nat
      /\ \A j \in 0..(l - 1) : mem'[Pos(g, j)] = Run(First(g, j)', tail'[Pos(g, j)])
      /\ mem'[Pos(g, l)] = Run(First(g, l)', tail'[Pos(g, l)] + Extra)
      /\ taken = First(g, l)' + (tail'[Pos(g, l)] + Extra)
      /\ got = Run(0, Len(got)) /\ Base(g)' = Len(got)
  <2>1. l - 1 = k - 2 /\ l + 1 = k
    BY <1>2
  <2> QED
    BY <2>1, AfterRead
<1> HIDE DEF g, l
<1>4. l > 0 => tail'[g] = Size
  BY <1>2, <1>3
<1>5. l = 0 => tail'[g] = 0
  BY <1>2 DEF g
<1>6. k < Bufs /\ task # "link" => tail[Pos(h, k)] < Size
  BY <1>1 DEF RingInv, FillInv
<1>7. FillInv(g, l)'
  <2>1. \A j \in 1..(l - 1) : tail'[Pos(g, j)] = Size
    BY <1>2, <1>3
  <2>2. task # "link" => tail'[Pos(g, l)] < Size
    BY <1>2, <1>3, <1>6
  <2>3. task = "unlink" => tail'[Pos(g, l)] = 0 /\ mem'[Pos(g, l)] = <<>>
    <3>1. CASE k < Bufs
      <4>1. task = "unlink" => tail[Pos(h, k)] = 0 /\ Extra = 0
        BY <1>1, <3>1 DEF RingInv, FillInv, Extra
      <4>2. Run(First(g, l)', 0 + 0) = <<>>
        BY DEF Run
      <4> QED
        BY <1>3, <3>1, <4>1, <4>2
    <3>2. CASE k = Bufs
      BY <1>3, <3>2
    <3> QED
      BY <1>2, <3>1, <3>2
  <2> QED
    BY <1>1, <1>2, <1>3, <1>4, <2>1, <2>2, <2>3 DEF FillInv
<1>8. LoadInv(g, l)'
  <2>1. task \in {"fill", "count", "link"} => k < Bufs
    BY <1>1 DEF RingInv, LoadInv
  <2>2. task \in {"fill", "count", "link"} => tail'[Pos(g, l)] = tail[Pos(h, k)]
    BY <1>3, <2>1
  <2>3. /\ task \in {"fill", "count"} => len > 0
        /\ task = "fill" => taken + len <= MaxBytes
        /\ task = "count" => left = Size - tail[Pos(h, k)] /\ taken + len - Extra <= MaxBytes
        /\ task = "link" => tail[Pos(h, k)] = Size
        /\ task \in {"link", "unlink"} => taken + len <= MaxBytes
    BY <1>1 DEF RingInv, LoadInv
  <2>4. l < Bufs
    BY <1>2
  <2>5. UNCHANGED <<task, len, left, taken>> /\ Extra' = Extra
    BY <1>1, <1>3
  <2>6. /\ l = 0 /\ task \notin {"link", "start"} => tail'[g] = 0
        /\ task = "count" => left = Size - tail'[Pos(g, l)]
        /\ task = "link" => tail'[Pos(g, l)] = Size
    BY <1>5, <2>2, <2>3
  <2> HIDE DEF Extra
  <2> QED
    BY <1>5, <2>3, <2>4, <2>5, <2>6 DEF LoadInv
<1>9. BytesInv(g, l)'
  <2>1. Base(g)' >= 0 /\ got' = Run(0, Len(got')) /\ l < Bufs
    BY <1>1, <1>2, <1>3
  <2>2. taken' = First(g, l)' + (tail'[Pos(g, l)] + Extra')
    BY <1>1, <1>3
  <2>3. mem'[Pos(g, l)] = Run(First(g, l)', tail'[Pos(g, l)] + Extra')
    BY <1>3
  <2> QED
    BY <1>3, <2>1, <2>2, <2>3 DEF BytesInv
<1> QED
  BY <1>7, <1>8, <1>9 DEF g, l

(* It is announced, or nothing is.                                         *)
LEMMA ReadAnnounced ==
  ASSUME NEW h \in Buf, NEW k \in 1..Bufs, ReadAt(h, k),
         k > 1 => LoadDone(Pos(h, 1)) /\ ~has_read',
         k = 1 => rx' = rx /\ has_read'
  PROVE  AnnouncedInv(Pos(h, 1), k - 1)' /\ RxInv'
<1> DEFINE g == Pos(h, 1)
           l == k - 1
<1>1. /\ Basic /\ RingInv(h, k) /\ UNCHANGED <<task, len, left, taken, got>> /\ ~RxPending'
      /\ task \in {"idle", "fill", "count", "link", "unlink", "start"} /\ ~rx.on
  BY ReadWhere DEF ReadAt
<1>2. /\ Bufs \in Nat \ {0} /\ Size \in Nat \ {0} /\ l \in 0..(Bufs - 1) /\ g \in Buf
      /\ l \in 0..Bufs /\ l + 1 = k
      /\ Pos(g, 0) = g /\ Pos(g, Bufs - 1) = h /\ Pos(g, l) \in Buf
      /\ \A j \in 0..Bufs : Pos(g, j) \in Buf
      /\ Len(got) \in Nat /\ 1 \in 0..Bufs /\ h \in Buf
  <2>1. Bufs \in Nat \ {0} /\ Size \in Nat \ {0} /\ 1 \in 0..Bufs
    BY SdioAssumption
  <2>2. l \in 0..(Bufs - 1) /\ l \in 0..Bufs /\ l + 1 = k
    BY <2>1
  <2>3. g \in Buf /\ Len(got) \in Nat
    BY <1>1, <2>1, RingFacts
  <2>4. Pos(g, Bufs - 1) = h
    <3>1. Bufs - 1 \in 0..(Bufs - 1) /\ (Bufs - 1) + 1 = Bufs
      BY <2>1
    <3> QED
      BY <3>1, PosShift, PosEnds
  <2> QED
    BY <2>1, <2>2, <2>3, <2>4, PosType, PosEnds
<1>3. /\ Extra \in Nat /\ Extra' = Extra /\ (k = Bufs => Extra = 0)
      /\ \A j \in 0..(l - 1) : tail'[Pos(g, j)] = Size
      /\ Pos(g, l) = Pos(h, k)
      /\ k < Bufs => tail'[Pos(g, l)] = tail[Pos(h, k)]
      /\ k = Bufs => tail'[Pos(g, l)] = 0 /\ mem'[Pos(g, l)] = <<>>
      /\ \A j \in (l + 1)..(Bufs - 1) : tail'[Pos(g, j)] = 0 /\ mem'[Pos(g, j)] = <<>>
      /\ First(g, 0)' = Len(got)
      /\ \A j \in 0..l : First(g, j)' \in Nat
      /\ \A j \in 0..(l - 1) : mem'[Pos(g, j)] = Run(First(g, j)', tail'[Pos(g, j)])
      /\ mem'[Pos(g, l)] = Run(First(g, l)', tail'[Pos(g, l)] + Extra)
      /\ taken = First(g, l)' + (tail'[Pos(g, l)] + Extra)
      /\ got = Run(0, Len(got)) /\ Base(g)' = Len(got)
  <2>1. l - 1 = k - 2 /\ l + 1 = k
    BY <1>2
  <2> QED
    BY <2>1, AfterRead
<1> HIDE DEF g, l
<1>4. ~RxAtWork' /\ "RX_EOF" \notin status' \cup lost'
  BY <1>1 DEF RxPending
<1>5. CASE k > 1
  <2>1. tail'[g] = Size /\ tail[g] = Size
    <3>1. tail[Pos(h, 1)] = Size
      BY <1>1, <1>2, <1>5 DEF RingInv, FillInv
    <3> QED
      BY <1>2, <1>3, <1>5, <3>1 DEF g
  <2>2. rx' = [buf |-> g, len |-> Size, on |-> TRUE] /\ ~has_read'
    BY <1>2, <1>5, <2>1 DEF LoadDone, g
  <2>3. rx'.on /\ rx'.buf = g /\ rx'.len = Size /\ l # 0
    BY <1>2, <1>5, <2>2
  <2> QED
    BY <1>1, <1>4, <2>1, <2>2, <2>3 DEF AnnouncedInv, RxInv, RxPending, g, l
<1>6. CASE k = 1
  <2>1. l = 0 /\ ~rx'.on /\ has_read'
    BY <1>1, <1>2, <1>6
  <2> QED
    BY <1>1, <1>4, <2>1 DEF AnnouncedInv, RxInv, RxPending, g, l
<1> QED
  BY <1>2, <1>5, <1>6

(* Between "link" and "unlink" there is a next of ToSend.                  *)
LEMMA ReadHung ==
  ASSUME NEW h \in Buf, NEW k \in 1..Bufs, ReadAt(h, k), task = "unlink"
  PROVE  RxInv' /\ RingInv(Pos(h, 1), k - 1)'
<1> DEFINE g == Pos(h, 1)
           l == k - 1
           f == Freed
<1>1. /\ Basic /\ RingInv(h, k) /\ UNCHANGED task /\ Hung(h, k) /\ k \in 2..Bufs
      /\ pHead_ToSend = h /\ h # NULL /\ ReadDone
  <2>1. /\ k > 1 /\ pHead_ToSend = h /\ h # NULL
    BY ReadWhere
  <2>2. k \in 2..Bufs
    BY <2>1, SdioAssumption
  <2>3. Basic /\ RingInv(h, k) /\ UNCHANGED task /\ ReadDone
    BY DEF ReadAt
  <2>4. Hung(h, k)
    BY <2>3 DEF RingInv, ListsInv
  <2> QED
    BY <2>1, <2>2, <2>3, <2>4
<1>2. /\ Bufs \in Nat \ {0} /\ l \in 1..(Bufs - 1) /\ l - 1 \in 0..(Bufs - 1) /\ g \in Buf
      /\ g # NULL /\ Pos(g, Bufs - 1) = h /\ Pos(g, l - 1) = Pos(h, k - 1)
  <2>1. Bufs \in Nat \ {0} /\ l \in 1..(Bufs - 1) /\ l - 1 \in 0..(Bufs - 1) /\ 1 \in 0..Bufs
    BY <1>1, SdioAssumption
  <2>2. Bufs - 1 \in 0..(Bufs - 1) /\ (Bufs - 1) + 1 = Bufs /\ (l - 1) + 1 = k - 1
    BY <2>1
  <2>3. Pos(g, Bufs - 1) = h /\ Pos(g, l - 1) = Pos(h, k - 1)
    BY <2>1, <2>2, PosShift, PosEnds
  <2>4. g \in Buf
    BY <2>1, PosType
  <2>5. g # NULL
    BY <2>4 DEF Buf, NULL
  <2> QED
    BY <2>1, <2>3, <2>4, <2>5
<1>3. next[h] = g
  <2>1. next[Pos(h, 0)] = IF 0 = Bufs - 1 THEN NULL ELSE Pos(h, 0 + 1)
    BY <1>1, <1>2 DEF Hung
  <2> QED
    BY <1>2, <2>1, PosEnds
<1>4. /\ f.head = Pos(h, k - 1)
      /\ \A j \in 0..(Bufs - 1) :
           f.next[Pos(g, j)] = IF j = Bufs - 1 THEN NULL ELSE Pos(g, j + 1)
  BY <1>1, FreedHung
<1> HIDE DEF f
<1>5. /\ pTail_Sended' = h /\ pHead_ToSend' = g /\ LoadDone(g) /\ has_read' = FALSE
      /\ pHead_Sended' = f.head /\ next' = f.next /\ pTail_ToSend' = pTail_ToSend
  BY <1>1, <1>2, <1>3 DEF ReadDone, f
<1>6. ListsInv(g, l)'
  <2>1. Hung(g, l)'
    BY <1>1, <1>2, <1>4, <1>5 DEF Hung
  <2> QED
    BY <1>1, <2>1 DEF ListsInv
<1> QED
  BY <1>1, <1>5, <1>6, ReadFill, ReadAnnounced DEF RingInv

(* Otherwise there may be none, and then the first free buffer may be      *)
(* partly filled.                                                          *)
LEMMA ReadListed ==
  ASSUME NEW h \in Buf, NEW k \in 1..Bufs, ReadAt(h, k), task # "unlink"
  PROVE  RxInv' /\ \E m \in {k - 1, 1} : RingInv(Pos(h, 1), m)'
<1> DEFINE g == Pos(h, 1)
           l == k - 1
           f == Freed
<1>1. /\ Basic /\ RingInv(h, k) /\ UNCHANGED <<task, len, left, taken, got>> /\ OnLists(h, k)
      /\ pHead_ToSend = h /\ h # NULL /\ ReadDone /\ ~RxPending' /\ TypeOK' /\ ~rx.on
      /\ task \in {"idle", "fill", "count", "link", "start"}
      /\ k = 1 => task # "link" /\ (task = "count" => tail[pHead_Sended] = 0)
  BY ReadWhere DEF ReadAt, RingInv, ListsInv
<1>2. /\ Bufs \in Nat \ {0} /\ Size \in Nat \ {0} /\ l \in 0..(Bufs - 1) /\ g \in Buf
      /\ l \in 0..Bufs /\ l + 1 = k
      /\ Pos(g, 0) = g /\ Pos(g, Bufs - 1) = h /\ Pos(g, l) \in Buf
      /\ \A j \in 0..Bufs : Pos(g, j) \in Buf
      /\ Len(got) \in Nat /\ 1 \in 0..Bufs /\ h \in Buf
  <2>1. Bufs \in Nat \ {0} /\ Size \in Nat \ {0} /\ 1 \in 0..Bufs
    BY SdioAssumption
  <2>2. l \in 0..(Bufs - 1) /\ l \in 0..Bufs /\ l + 1 = k
    BY <2>1
  <2>3. g \in Buf /\ Len(got) \in Nat
    BY <1>1, <2>1, RingFacts
  <2>4. Pos(g, Bufs - 1) = h
    <3>1. Bufs - 1 \in 0..(Bufs - 1) /\ (Bufs - 1) + 1 = Bufs
      BY <2>1
    <3> QED
      BY <3>1, PosShift, PosEnds
  <2> QED
    BY <2>1, <2>2, <2>3, <2>4, PosType, PosEnds
<1>3. /\ Extra \in Nat /\ Extra' = Extra /\ (k = Bufs => Extra = 0)
      /\ \A j \in 0..(l - 1) : tail'[Pos(g, j)] = Size
      /\ Pos(g, l) = Pos(h, k)
      /\ k < Bufs => tail'[Pos(g, l)] = tail[Pos(h, k)]
      /\ k = Bufs => tail'[Pos(g, l)] = 0 /\ mem'[Pos(g, l)] = <<>>
      /\ \A j \in (l + 1)..(Bufs - 1) : tail'[Pos(g, j)] = 0 /\ mem'[Pos(g, j)] = <<>>
      /\ First(g, 0)' = Len(got)
      /\ \A j \in 0..l : First(g, j)' \in Nat
      /\ \A j \in 0..(l - 1) : mem'[Pos(g, j)] = Run(First(g, j)', tail'[Pos(g, j)])
      /\ mem'[Pos(g, l)] = Run(First(g, l)', tail'[Pos(g, l)] + Extra)
      /\ taken = First(g, l)' + (tail'[Pos(g, l)] + Extra)
      /\ got = Run(0, Len(got)) /\ Base(g)' = Len(got)
  <2>1. l - 1 = k - 2 /\ l + 1 = k
    BY <1>2
  <2> QED
    BY <2>1, AfterRead
<1>4. /\ f.head = Pos(g, l) /\ f.next \in [Buf -> Ptr]
      /\ \A j \in 0..(Bufs - 1) :
           f.next[Pos(g, j)] = IF j \in {l - 1, Bufs - 1} THEN NULL ELSE Pos(g, j + 1)
  <2>1. l - 1 = k - 2
    BY <1>2
  <2> QED
    BY <1>1, <2>1, FreedRing
<1>5. next[h] = IF l = 0 THEN NULL ELSE g
  <2>1. next[Pos(h, 0)] = IF 0 \in {k - 1, Bufs - 1} THEN NULL ELSE Pos(h, 0 + 1)
    BY <1>1, <1>2 DEF OnLists
  <2> QED
    BY <1>2, <2>1, PosEnds
<1>6. g # NULL
  BY <1>2 DEF Buf, NULL
<1>7. /\ mem' = [mem EXCEPT ![h] = <<>>] /\ tail' = [tail EXCEPT ![h] = 0]
      /\ pTail_Sended' = h
      /\ \/ /\ next[h] # NULL
            /\ pHead_ToSend' = next[h] /\ LoadDone(next[h]) /\ has_read' = FALSE
            /\ pHead_Sended' = f.head /\ next' = f.next /\ pTail_ToSend' = pTail_ToSend
         \/ /\ next[h] = NULL /\ Partly(f.head)
            /\ pHead_ToSend' = f.head /\ pTail_ToSend' = f.head
            /\ LoadDone(f.head) /\ has_read' = FALSE
            /\ pHead_Sended' = f.next[f.head] /\ next' = [f.next EXCEPT ![f.head] = NULL]
         \/ /\ next[h] = NULL /\ ~Partly(f.head)
            /\ pHead_ToSend' = NULL /\ has_read' = TRUE
            /\ pHead_Sended' = f.head /\ next' = f.next
            /\ UNCHANGED <<pTail_ToSend, rx>>
  BY <1>1 DEF ReadDone
<1> HIDE DEF g, l, f
<1>8. tail'[h] = 0 /\ \A b \in Buf : b # h => tail'[b] = tail[b]
  BY <1>1, <1>2, <1>7 DEF Basic, TypeOK
<1>9. CASE l > 0 \/ ~Partly(f.head)
  <2>1. /\ pHead_Sended' = Pos(g, l) /\ next' = f.next
        /\ pHead_ToSend' = IF l = 0 THEN NULL ELSE g
        /\ pTail_ToSend' = pTail_ToSend
        /\ l = 0 => rx' = rx /\ has_read' /\ ~Partly(f.head)
        /\ l > 0 => LoadDone(g) /\ ~has_read'
    <3>1. CASE l = 0
      <4>1. next[h] = NULL /\ ~Partly(f.head)
        BY <1>2, <1>5, <1>9, <3>1
      <4> QED
        BY <1>4, <1>7, <3>1, <4>1
    <3>2. CASE l > 0
      <4>1. next[h] = g /\ next[h] # NULL /\ l # 0
        BY <1>2, <1>5, <1>6, <3>2
      <4> QED
        BY <1>4, <1>7, <4>1
    <3> QED
      BY <1>2, <3>1, <3>2
  <2>2. ListsInv(g, l)'
    <3>1. l > 0 => pTail_ToSend' = Pos(g, l - 1)
      <4>1. pTail_ToSend = Pos(h, l)
        BY <1>1 DEF OnLists, l
      <4>2. l > 0 => Pos(g, l - 1) = Pos(h, l)
        <5>1. l > 0 => l - 1 \in 0..(Bufs - 1) /\ (l - 1) + 1 = l
          BY <1>2
        <5> QED
          BY <5>1, PosShift DEF g
      <4> QED
        BY <2>1, <4>1, <4>2
    <3>2. l # Bufs
      BY <1>2
    <3>3. OnLists(g, l)'
      BY <1>2, <1>4, <1>7, <2>1, <3>1, <3>2 DEF OnLists
    <3> QED
      BY <1>1, <3>3 DEF ListsInv
  <2>3. l = 0 => tail'[g] = 0
    <3>1. l = 0 => f.head = g /\ ~Partly(g)
      BY <1>2, <1>4, <2>1
    <3>2. tail[g] \in 0..Size
      BY <1>1, <1>2 DEF Basic, TypeOK
    <3> QED
      BY <1>1, <1>2, <1>8, <3>1, <3>2 DEF Partly
  <2>4. (k = 1 <=> l = 0) /\ (k > 1 <=> l > 0)
    BY <1>2
  <2>5. FillInv(g, l)' /\ LoadInv(g, l)' /\ BytesInv(g, l)'
    BY <2>3, <2>4, ReadFill DEF g, l
  <2>6. AnnouncedInv(g, l)' /\ RxInv'
    BY <2>1, <2>4, ReadAnnounced DEF g, l
  <2> QED
    BY <2>2, <2>5, <2>6 DEF RingInv, g, l
<1>10. CASE l = 0 /\ Partly(f.head)
  <2>1. f.head = g /\ g # h /\ tail[g] > 0 /\ tail'[g] = tail[g] /\ tail[g] \in 0..Size /\ k = 1
    BY <1>1, <1>2, <1>4, <1>8, <1>10 DEF Basic, TypeOK, Partly
  <2>2. Bufs > 1 /\ 1 \in 1..(Bufs - 1) /\ 0 \in 0..(Bufs - 1) /\ k < Bufs
    <3>1. Bufs # 1
      BY <1>2, <2>1
    <3> QED
      BY <1>2, <2>1, <3>1
  <2>3. /\ pHead_ToSend' = g /\ pTail_ToSend' = g /\ ~has_read'
        /\ pHead_Sended' = f.next[g] /\ next' = [f.next EXCEPT ![g] = NULL]
        /\ LoadDone(g)
    BY <1>5, <1>7, <1>10, <2>1
  <2>4. rx' = [buf |-> g, len |-> tail[g], on |-> TRUE]
    BY <1>2, <2>1, <2>3 DEF LoadDone
  <2>5. f.next[g] = Pos(g, 1) /\ Pos(g, 1) \in Buf
    <3>1. f.next[Pos(g, 0)] = IF 0 \in {l - 1, Bufs - 1} THEN NULL ELSE Pos(g, 0 + 1)
      BY <1>4, <2>2
    <3>2. 0 \notin {l - 1, Bufs - 1}
      BY <1>10, <2>2
    <3> QED
      BY <1>2, <3>1, <3>2
  <2>6. task \in {"idle", "fill", "start"} /\ Extra = 0
    <3>1. pHead_Sended = g
      BY <1>1, <1>2, <1>3, <1>10, <2>2 DEF OnLists
    <3>2. task # "count"
      BY <1>1, <2>1, <3>1
    <3> QED
      BY <1>1, <2>1, <3>2 DEF Extra
  <2>7. RxInv' /\ rx'.on
    <3>1. rx'.on /\ ~RxAtWork' /\ "RX_EOF" \notin status' \cup lost'
      BY <1>1, <2>4 DEF RxPending
    <3> QED
      BY <1>1, <2>3, <3>1 DEF RxInv
  <2>8. ListsInv(g, 1)'
    <3>1. ASSUME NEW j \in 0..(Bufs - 1)
          PROVE  next'[Pos(g, j)] = IF j \in {1 - 1, Bufs - 1} THEN NULL ELSE Pos(g, j + 1)
      <4>1. Pos(g, j) \in Buf
        BY <1>2
      <4>2. CASE j = 0
        BY <1>2, <1>4, <2>3, <4>2
      <4>3. CASE j # 0
        <5>1. Pos(g, j) # g
          BY <1>2, <2>2, <4>3, PosInjective
        <5>2. next'[Pos(g, j)] = f.next[Pos(g, j)]
          BY <1>4, <2>3, <4>1, <5>1
        <5>3. j \in {1 - 1, Bufs - 1} <=> j \in {l - 1, Bufs - 1}
          BY <1>10, <4>3
        <5> QED
          BY <1>4, <5>2, <5>3
      <4> QED
        BY <4>2, <4>3
    <3>2. OnLists(g, 1)'
      BY <1>2, <1>7, <2>2, <2>3, <2>5, <3>1 DEF OnLists
    <3> QED
      BY <1>1, <3>2 DEF ListsInv
  <2>9. AnnouncedInv(g, 1)'
    BY <1>1, <2>1, <2>3, <2>4 DEF AnnouncedInv
  <2>10. tail'[Pos(g, 1)] = 0 /\ mem'[Pos(g, 1)] = <<>>
           /\ \A j \in (1 + 1)..(Bufs - 1) : tail'[Pos(g, j)] = 0 /\ mem'[Pos(g, j)] = <<>>
    <3>1. l + 1 = 1
      BY <1>10
    <3> QED
      BY <1>2, <1>3, <2>2, <3>1
  <2>11. FillInv(g, 1)'
    <3>1. 1..(1 - 1) = {} /\ 0 < Size
      BY <1>2
    <3> QED
      BY <1>1, <2>1, <2>6, <2>10, <3>1 DEF FillInv
  <2>12. LoadInv(g, 1)'
    <3>1. task = "fill" => len > 0 /\ taken + len <= MaxBytes
      BY <1>1 DEF RingInv, LoadInv
    <3> QED
      BY <1>1, <2>2, <2>6, <3>1 DEF LoadInv
  <2>13. BytesInv(g, 1)'
    <3>1. First(g, 1)' = Len(got) + tail[g] /\ First(g, 1)' \in Nat
      <4>1. First(g, 1)' = Base(g)' + tail'[g] + (1 - 1) * Size
        BY DEF First
      <4> QED
        BY <1>2, <1>3, <2>1, <4>1
    <3>2. mem'[g] = Run(First(g, 0)', tail'[g]) /\ taken = First(g, 1)' + (0 + 0)
      <4>1. mem'[g] = Run(First(g, 0)', tail[g] + 0) /\ taken = Len(got) + (tail[g] + 0)
        BY <1>2, <1>3, <1>10, <2>1, <2>6
      <4>2. tail[g] + 0 = tail[g]
        BY <2>1
      <4> QED
        BY <1>2, <2>1, <3>1, <4>1, <4>2
    <3>3. \A j \in 0..(1 - 1) : mem'[Pos(g, j)] = Run(First(g, j)', tail'[Pos(g, j)])
      BY <1>2, <3>2
    <3>4. Run(First(g, 1)', 0 + 0) = <<>>
      BY DEF Run
    <3>5. Base(g)' >= 0 /\ got' = Run(0, Len(got')) /\ Extra' = 0
      BY <1>1, <1>2, <1>3, <2>6
    <3> QED
      BY <1>1, <2>2, <2>10, <3>2, <3>3, <3>4, <3>5 DEF BytesInv
  <2> QED
    BY <2>7, <2>8, <2>9, <2>11, <2>12, <2>13 DEF RingInv, g
<1> QED
  BY <1>2, <1>9, <1>10

LEMMA IsrRxSdio ==
  ASSUME SdioInv, ~astray, IsrRx
  PROVE  SdioInv'
<1>1. /\ isr = "rx" /\ isr' = "tx"
      /\ \/ "RX_EOF" \in slc /\ ReadDone /\ astray' = Collision
         \/ "RX_EOF" \notin slc /\ UNCHANGED <<lists, has_read, rx, toHost, astray>>
      /\ UNCHANGED <<txOn, status, slc, task, len, left, taken, got, written, handled, lost>>
  BY DEF IsrRx, taskVars, hostVars
<1>2. Basic
  BY DEF SdioInv, Basic
<1>3. /\ RxAtWork <=> "RX_EOF" \in slc
      /\ ~RxAtWork' /\ (TxPending' <=> TxPending) /\ (TxAtWork' <=> TxAtWork)
      /\ RxPending' <=> "RX_EOF" \in status \cup lost
  BY <1>1 DEF RxPending, TxPending, RxAtWork, TxAtWork
<1>4. HandlerInv' /\ TxInv'
  BY <1>1, <1>2, <1>3 DEF Basic, HandlerInv, TxInv
<1>5. CASE "RX_EOF" \notin slc
  <2>1. UNCHANGED <<lists, has_read, rx, toHost, astray>> /\ (RxPending' <=> RxPending)
    BY <1>1, <1>3, <1>5 DEF RxPending
  <2>2. TypeOK'
    BY <1>1, <1>2, <2>1 DEF Basic, TypeOK, lists
  <2>3. RxInv'
    BY <1>1, <1>2, <1>3, <1>5, <2>1 DEF Basic, RxInv
  <2> QED
    BY <1>1, <1>4, <2>1, <2>2, <2>3, Aside DEF Basic
<1>6. CASE "RX_EOF" \in slc
  <2>1. PICK h \in Buf, k \in 0..Bufs : RingInv(h, k)
    BY DEF SdioInv
  <2>2. RxPending /\ ~RxPending'
    BY <1>2, <1>3, <1>6 DEF RxPending, Basic, RxInv
  <2>3. k \in 1..Bufs
    BY <1>2, <2>1, <2>2, RingFacts, SdioAssumption
  <2>4. pHead_ToSend = h
    BY <2>1, <2>3 DEF RingInv, ListsInv, OnLists, Hung
  <2>5. TypeOK' /\ ReadDone /\ astray' = Collision
    <3>1. Collision \in BOOLEAN
      BY DEF Collision
    <3> QED
      BY <1>1, <1>2, <1>6, <2>4, <3>1, ReadDoneType DEF Basic
  <2>6. CASE Collision
    BY <1>4, <2>5, <2>6 DEF SdioInv
  <2>7. CASE ~Collision
    <3>1. ReadAt(h, k)
      BY <1>1, <1>2, <2>1, <2>2, <2>5, <2>7 DEF ReadAt
    <3>2. PICK m \in {k - 1, 1} : RxInv' /\ RingInv(Pos(h, 1), m)'
      BY <2>3, <3>1, ReadHung, ReadListed
    <3>3. m \in 0..Bufs /\ Pos(h, 1) \in Buf
      BY <2>3, PosType, SdioAssumption
    <3> QED
      BY <1>4, <2>5, <3>2, <3>3 DEF SdioInv
  <2> QED
    BY <2>6, <2>7
<1> QED
  BY <1>1, <1>5, <1>6

-----------------------------------------------------------------------------
LEMMA SdioStep ==
  ASSUME SdioInv, [Next]_vars
  PROVE  SdioInv'
<1>0. ASSUME ~UNCHANGED vars PROVE ~astray /\ Next
  BY <1>0 DEF Next
<1>1. ASSUME ~astray, NEW n \in 0..MaxLoad, Load(n) PROVE SdioInv'
  BY <1>1, LoadSdio
<1>2. CASE ~astray /\ LoadStep
  BY <1>2, FillSdio, CountSdio, LinkSdio, UnlinkSdio, StartSdio, TryToLoadSdio, AnnouncedSdio
     DEF LoadStep
<1>3. CASE ~astray /\ IsrEnter
  BY <1>3, EnterSdio
<1>4. CASE ~astray /\ IsrStep
  BY <1>4, IsrRxSdio, IsrTxSdio, IsrEndSdio DEF IsrStep
<1>5. CASE ~astray /\ HostRead
  BY <1>5, ReadSdio
<1>6. CASE ~astray /\ (HostWrite \/ HostAck)
  BY <1>6, WriteSdio
<1>7. CASE UNCHANGED vars
  BY <1>7, StutterSdio
<1> QED
  BY <1>0, <1>1, <1>2, <1>3, <1>4, <1>5, <1>6, <1>7 DEF Next

LEMMA SdioInvariant == Spec => []SdioInv
<1>1. Init => SdioInv
  BY InitSdio
<1>2. SdioInv /\ [Next]_vars => SdioInv'
  BY SdioStep
<1> QED
  BY <1>1, <1>2, PTL DEF Spec

(* Every variable keeps its type; in particular no tail pointer leaves its *)
(* buffer and no null pointer is written through, up to and including the  *)
(* step that leads astray.                                                 *)
THEOREM SdioTypeCorrect == Spec => []TypeOK
<1>1. SdioInv => TypeOK
  BY DEF SdioInv
<1> QED
  BY <1>1, SdioInvariant, PTL

(* sdio_load_data and sdio_slave_isr take the two lists apart and put them *)
(* together again without losing a buffer, tying a knot or leaving a stale *)
(* end, unless it comes to one of the three situations that astray stands  *)
(* for: a full buffer linked to an empty list (345-347), an empty one      *)
(* (284, 365-372), a handler that takes the task's buffer (Collision).     *)
THEOREM ListsWellFormed == Spec => []OnOneList
<1>1. SdioInv => OnOneList
  <2> SUFFICES ASSUME SdioInv, ~astray, task = "idle", isr = "off"
               PROVE  \E h \in Buf, k \in 0..Bufs :
                        /\ OnLists(h, k)
                        /\ \A j \in (k + 1)..(Bufs - 1) : tail[Pos(h, j)] = 0
                        /\ has_read <=> k = 0
                        /\ ~has_read <=> rx.on \/ "RX_EOF" \in status \cup lost
    BY DEF OnOneList
  <2>1. PICK h \in Buf, k \in 0..Bufs : RingInv(h, k)
    BY DEF SdioInv
  <2>2. OnLists(h, k) /\ (has_read <=> k = 0)
    BY <2>1 DEF RingInv, ListsInv, AnnouncedInv
  <2>3. \A j \in (k + 1)..(Bufs - 1) : tail[Pos(h, j)] = 0
    BY <2>1 DEF RingInv, FillInv
  <2>4. ~has_read <=> rx.on \/ "RX_EOF" \in status \cup lost
    BY DEF SdioInv, RxInv, RxPending, RxAtWork
  <2> QED
    BY <2>2, <2>3, <2>4
<1> QED
  BY <1>1, SdioInvariant, PTL

LEMMA HearsStep ==
  ASSUME HearsInv, [Next]_vars
  PROVE  HearsInv'
<1> USE DEF HearsInv, TxPending, TxAtWork
<1>1. CASE (\E n \in 0..MaxLoad : Load(n)) \/ LoadStep \/ HostAck
  <2>1. UNCHANGED <<txOn, status, isr, slc, lost>>
    BY <1>1 DEF Load, LoadStep, Fill, Count, Link, Unlink, Start, TryToLoad, Announced, HostAck
  <2> QED
    BY <2>1
<1>2. CASE IsrEnter
  BY <1>2 DEF IsrEnter
<1>3. CASE IsrRx
  <2>1. isr = "rx" /\ isr' = "tx" /\ UNCHANGED <<txOn, status, slc, lost>>
    BY <1>3 DEF IsrRx
  <2> QED
    BY <2>1
<1>4. CASE IsrTx
  BY <1>4 DEF IsrTx
<1>5. CASE IsrEnd
  BY <1>5 DEF IsrEnd
<1>6. CASE HostRead \/ HostWrite
  <2>1. /\ UNCHANGED <<isr, slc, lost>>
        /\ \/ txOn' = txOn /\ status \subseteq status'
           \/ "TX_EOF" \in status'
    BY <1>6 DEF HostRead, HostWrite
  <2> QED
    BY <2>1
<1>7. CASE UNCHANGED vars
  BY <1>7 DEF vars
<1> QED
  BY <1>1, <1>2, <1>3, <1>4, <1>5, <1>6, <1>7 DEF Next, IsrStep

(* Whenever the task loads and the host acts, in the middle of the handler *)
(* too, the one thing that can leave the slave deaf is that sdio_slave_isr *)
(* clears the end of a transfer that it has not seen (230-234).            *)
THEOREM SlaveHears == Spec => []NotDeaf
<1>1. Init => HearsInv
  BY DEF Init, HearsInv
<1>2. HearsInv /\ [Next]_vars => HearsInv'
  BY HearsStep
<1>3. HearsInv => NotDeaf
  BY DEF HearsInv, TxPending, TxAtWork, NotDeaf
<1> QED
  BY <1>1, <1>2, <1>3, PTL DEF Spec

(* Every step of the driver is a step of a byte stream, or none: what the  *)
(* host has read is always the first bytes that sdio_load_data accepted,   *)
(* in order, whatever goes astray or is overlooked.  (That all of them     *)
(* come in the end is left to TLC.)                                        *)
THEOREM BytesInOrder == Spec => Stream!Init /\ [][Stream!Next]_<<taken, got>>
<1>1. Init => Stream!Init
  BY DEF Init, Stream!Init
<1>2. ASSUME SdioInv, [Next]_vars PROVE [Stream!Next]_<<taken, got>>
  <2>1. CASE ~astray /\ Fill
    BY <1>2, <2>1, FillSdio DEF Stream!Next, Stream!Put
  <2>2. CASE ~astray /\ HostRead
    <3>1. PICK n \in (Len(got) + 1)..taken : got' = Run(0, n)
      BY <1>2, <2>2, ReadSdio
    <3>2. Run(0, n) = Stream!FirstBytes(n)
      BY DEF Run, Stream!FirstBytes
    <3> QED
      BY <1>2, <2>2, <3>1, <3>2, ReadSdio DEF Stream!Next, Stream!Take
  <2>3. CASE UNCHANGED <<taken, got>>
    BY <2>3
  <2>4. ASSUME NEW n \in 0..MaxLoad, Load(n) PROVE UNCHANGED <<taken, got>>
    BY <2>4 DEF Load, hostVars
  <2>5. CASE Count \/ Link \/ Unlink \/ Start \/ TryToLoad \/ Announced
    BY <2>5 DEF Count, Link, Unlink, Start, TryToLoad, Announced, hostVars
  <2>6. CASE IsrEnter \/ IsrRx \/ IsrTx \/ IsrEnd \/ HostWrite \/ HostAck
    BY <2>6 DEF IsrEnter, IsrRx, IsrTx, IsrEnd, HostWrite, HostAck, hostVars, taskVars
  <2>7. CASE UNCHANGED vars
    BY <2>7 DEF vars, hostVars, taskVars
  <2> QED
    BY <1>2, <2>1, <2>2, <2>3, <2>4, <2>5, <2>6, <2>7 DEF Next, LoadStep, IsrStep
<1> QED
  BY <1>1, <1>2, SdioInvariant, PTL DEF Spec

=============================================================================
