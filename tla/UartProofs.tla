----------------------------- MODULE UartProofs -----------------------------
(***************************************************************************)
(* Proofs about Uart, for both builds and any size of the FIFOs, the ring  *)
(* buffers and the event queue.  The receive interrupt is never masked for *)
(* ever: that is not kept by its own state alone, for a task may hold an   *)
(* old value of the interrupt enable register and write it back, so the    *)
(* same promise must hold of that value (LateStore).  And bytes keep their *)
(* order in both directions: every byte is in one of the FIFOs, a ring     *)
(* buffer or the history, at the place its number says (BytesInv).         *)
(***************************************************************************)
EXTENDS Uart, SequenceTheorems, TLAPS

IsBuffer(b) ==
  /\ b = [bytes |-> b.bytes, pInPos |-> b.pInPos, pOutPos |-> b.pOutPos, Space |-> b.Space]
  /\ b.Space \in Int

UartTypes ==
  /\ taken \in Nat /\ rxFifo \in Seq(Nat) /\ Len(rxFifo) <= FifoLen
  /\ events \in 0..QueueLen
  /\ pRx # NULL => buffered /\ IsBuffer(pRx)

(* What the task has counted is there to be moved.                         *)
Counted ==
  pc \in {"echo", "enq"} =>
    cnt \in 0..Len(rxFifo) /\ (pc = "enq" => buffered /\ pRx # NULL)

Waiting == events > 0 \/ (buffered /\ pRx # NULL /\ pRx.Space <= FifoLen)

(* A value of the register about to be written back has the receive        *)
(* interrupts, or something else will bring them back.                     *)
LateStore ==
  pc = "store" => op = "rxon" \/ (op \in {"txoff", "txon"} /\ (RX \subseteq ena0 \/ Waiting))

UartIInv == UartTypes /\ Counted /\ LateStore /\ NoWedge

LEMMA BufferIsNotNull ==
  ASSUME NEW b, IsBuffer(b)
  PROVE  b # NULL
<1>1. "bytes" \in DOMAIN b
  BY DEF IsBuffer
<1>2. "bytes" \notin DOMAIN NULL
  BY DEF NULL
<1> QED
  BY <1>1, <1>2

LEMMA UartInitInv == Init => UartIInv
<1> SUFFICES ASSUME Init PROVE UartIInv
  OBVIOUS
<1>1. UartTypes
  <2>1. pRx # NULL => buffered /\ IsBuffer(pRx)
    <3>1. pRx # NULL => buffered /\ pRx = NewBuffer
      BY DEF Init
    <3>2. IsBuffer(NewBuffer)
      BY UartAssumption DEF NewBuffer, IsBuffer
    <3> QED
      BY <3>1, <3>2
  <2> QED
    BY <2>1, UartAssumption DEF Init, UartTypes
<1>2. Counted /\ LateStore /\ NoWedge
  BY DEF Init, Counted, LateStore, NoWedge
<1> QED
  BY <1>1, <1>2 DEF UartIInv

(* Steps that leave the receiver, the register and the task alone.         *)
LEMMA ElsewhereInv ==
  ASSUME UartIInv, UNCHANGED <<buffered, rxFifo, taken, ena, events, task, pRx>>
  PROVE  UartIInv'
BY DEF UartIInv, UartTypes, IsBuffer, Counted, Waiting, LateStore, NoWedge, task

LEMMA LineInInv ==
  ASSUME UartIInv, LineIn
  PROVE  UartIInv'
<1>1. UartTypes' /\ Len(rxFifo') = Len(rxFifo) + 1
  BY AppendProperties, UartAssumption DEF LineIn, UartIInv, UartTypes, IsBuffer
<1>2. Counted' /\ LateStore' /\ NoWedge'
  BY <1>1 DEF LineIn, UartIInv, UartTypes, Counted, Waiting, LateStore, NoWedge, task
<1> QED
  BY <1>1, <1>2 DEF UartIInv

(* The handler masks the receive interrupts only with an event in the      *)
(* queue: its own, or the one that made the queue too full for it.         *)
LEMMA IsrInv ==
  ASSUME UartIInv, Isr
  PROVE  UartIInv'
<1>1. CASE IsrRx
  <2>1. events' \in 0..QueueLen /\ events' > 0
    BY <1>1, UartAssumption DEF IsrRx, UartIInv, UartTypes
  <2>2. UNCHANGED <<buffered, rxFifo, taken, task, pRx>>
    BY <1>1 DEF IsrRx, rxHist
  <2> QED
    BY <2>1, <2>2 DEF UartIInv, UartTypes, IsBuffer, Counted, Waiting, LateStore, NoWedge, task
<1>2. CASE IsrTx
  <2>1. UNCHANGED <<buffered, rxFifo, taken, events, task, pRx>>
    BY <1>2 DEF IsrTx, rxHist
  <2>2. ena' = ena \/ ena' = ena \ {"EMPTY"}
    BY <1>2 DEF IsrTx, StartUartBuffer
  <2>3. RX \subseteq ena => RX \subseteq ena'
    BY <2>2 DEF RX
  <2> QED
    BY <2>1, <2>3 DEF UartIInv, UartTypes, IsBuffer, Counted, Waiting, LateStore, NoWedge, task
<1> QED
  BY <1>1, <1>2 DEF Isr

(* An event is dropped only when the ring buffer is too full for the FIFO. *)
LEMMA RecvTaskInv ==
  ASSUME UartIInv, RecvTask
  PROVE  UartIInv'
<1>1. UartTypes'
  BY UartAssumption DEF RecvTask, UartIInv, UartTypes, IsBuffer, rxHist
<1>2. CASE buffered /\ pRx # NULL /\ Len(rxFifo) >= pRx.Space /\ pc' = pc
  <2>1. pRx.Space <= FifoLen /\ pRx' = pRx /\ buffered' /\ pc' = "idle"
    BY <1>2, UartAssumption DEF RecvTask, UartIInv, UartTypes, IsBuffer
  <2> QED
    BY <1>1, <1>2, <2>1 DEF UartIInv, Counted, LateStore, NoWedge
<1>3. CASE /\ ~buffered \/ (pRx # NULL /\ Len(rxFifo) < pRx.Space)
           /\ cnt' = Len(rxFifo) /\ pc' = (IF buffered THEN "enq" ELSE "echo")
  <2>1. /\ cnt' = Len(rxFifo') /\ Len(rxFifo') \in Nat
        /\ pc' = IF buffered THEN "enq" ELSE "echo"
        /\ buffered' = buffered /\ pRx' = pRx
    BY <1>3 DEF RecvTask, UartIInv, UartTypes
  <2>2. Counted'
    BY <1>3, <2>1 DEF Counted
  <2> QED
    BY <1>1, <2>1, <2>2 DEF UartIInv, LateStore, NoWedge
<1>4. CASE buffered /\ pRx = NULL /\ pc' = "crash"
  <2>1. buffered' /\ pRx' = NULL
    BY <1>4 DEF RecvTask
  <2> QED
    BY <1>1, <1>4, <2>1 DEF UartIInv, Counted, LateStore, NoWedge
<1> QED
  BY <1>2, <1>3, <1>4 DEF RecvTask

LEMMA EchoInv ==
  ASSUME UartIInv, Echo
  PROVE  UartIInv'
<1>1. /\ cnt \in 1..Len(rxFifo) /\ rxFifo # <<>>
      /\ rxFifo' = Tail(rxFifo) /\ cnt' = cnt - 1
      /\ UNCHANGED <<buffered, taken, events, pc, pRx>>
  BY DEF Echo, UartIInv, UartTypes, Counted
<1>2. Tail(rxFifo) \in Seq(Nat) /\ Len(Tail(rxFifo)) = Len(rxFifo) - 1
  BY <1>1, HeadTailProperties DEF UartIInv, UartTypes
<1>3. UartTypes'
  BY <1>1, <1>2, UartAssumption DEF UartIInv, UartTypes, IsBuffer
<1> QED
  BY <1>1, <1>2, <1>3 DEF Echo, UartIInv, Counted, LateStore, NoWedge

(* The two ends of the ring buffer leave the interrupt masked only with no *)
(* room for a whole FIFO.                                                  *)
LEMMA RxBuffEnqInv ==
  ASSUME UartIInv, RxBuffEnq
  PROVE  UartIInv'
<1>1. buffered /\ pRx # NULL /\ cnt \in 0..Len(rxFifo) /\ pRx.Space \in Int
  BY DEF RxBuffEnq, UartIInv, UartTypes, IsBuffer, Counted
<1>2. IsBuffer(pRx')
  <2>1. PICK f, p : pRx' = [bytes |-> f, pInPos |-> p, pOutPos |-> pRx.pOutPos,
                            Space |-> pRx.Space - cnt]
    BY Zenon DEF RxBuffEnq
  <2> QED
    BY <1>1, <2>1 DEF IsBuffer
<1>3. rxFifo' \in Seq(Nat) /\ Len(rxFifo') = Len(rxFifo) - cnt
  BY <1>1, SubSeqProperties DEF RxBuffEnq, UartIInv, UartTypes
<1>4. UartTypes'
  <2>1. UNCHANGED <<buffered, taken, events>>
    BY Zenon DEF RxBuffEnq, rxHist
  <2> QED
    BY <1>1, <1>2, <1>3, <2>1, UartAssumption DEF UartIInv, UartTypes
<1>5. pc' = (IF pRx'.Space >= FifoLen THEN "rxon" ELSE "idle") /\ buffered'
  BY <1>1 DEF RxBuffEnq
<1>6. pc' = "rxon" \/ (pc' = "idle" /\ pRx' # NULL /\ pRx'.Space <= FifoLen)
  BY <1>2, <1>5, BufferIsNotNull, UartAssumption DEF IsBuffer
<1> QED
  BY <1>4, <1>5, <1>6 DEF UartIInv, Counted, LateStore, NoWedge

LEMMA RxBuffDeqInv ==
  ASSUME UartIInv, NEW n \in 0..MaxChunk, RxBuffDeq(n)
  PROVE  UartIInv'
<1> DEFINE len == IF n > Held(pRx) THEN Held(pRx) ELSE n
           straight == pRx.pOutPos <= pRx.pInPos
           pos(i) == IF straight THEN pRx.pOutPos + i ELSE (pRx.pOutPos + i) % BuffSize
<1>1. IsBuffer(pRx) /\ len \in Int
  BY UartAssumption DEF RxBuffDeq, UartIInv, UartTypes, IsBuffer, Held
<1>2. /\ pRx' = [pRx EXCEPT !.pOutPos = pos(len), !.Space = @ + len]
      /\ pc' = (IF pRx'.Space >= FifoLen THEN "rxon" ELSE "idle")
      /\ buffered' /\ buffered /\ UNCHANGED <<rxFifo, events, taken>>
  BY DEF RxBuffDeq
<1> HIDE DEF len, pos
<1>3. IsBuffer(pRx')
  <2>1. PICK p : pRx' = [pRx EXCEPT !.pOutPos = p, !.Space = @ + len]
    BY <1>2, Zenon
  <2>2. PICK b, i, o, s : pRx = [bytes |-> b, pInPos |-> i, pOutPos |-> o, Space |-> s]
    BY <1>1, Zenon DEF IsBuffer
  <2>3. pRx' = [bytes |-> b, pInPos |-> i, pOutPos |-> p, Space |-> s + len]
    BY <2>1, <2>2
  <2>4. s \in Int
    BY <1>1, <2>2 DEF IsBuffer
  <2> QED
    BY <1>1, <2>3, <2>4 DEF IsBuffer
<1>4. UartTypes'
  BY <1>2, <1>3 DEF UartIInv, UartTypes
<1>5. pc' = "rxon" \/ (pc' = "idle" /\ pRx' # NULL /\ pRx'.Space <= FifoLen)
  BY <1>2, <1>3, BufferIsNotNull, UartAssumption DEF IsBuffer
<1> QED
  BY <1>2, <1>4, <1>5 DEF UartIInv, Counted, LateStore, NoWedge

(* A task that is not at work on the receiver, and does not become it.     *)
LEMMA OtherTaskInv ==
  ASSUME UartIInv, UNCHANGED <<buffered, rxFifo, taken, ena, events, pRx>>,
         pc \in {"idle", "txoff", "put", "txon", "send", "write"},
         pc' \in {"idle", "txoff", "put", "txon", "send", "write"}
  PROVE  UartIInv'
BY DEF UartIInv, UartTypes, IsBuffer, Counted, LateStore, NoWedge

LEMMA LoadStoreInv ==
  ASSUME UartIInv, LoadEna \/ StoreEna
  PROVE  UartIInv'
<1>1. UartTypes' /\ (Waiting' <=> Waiting)
  BY DEF LoadEna, StoreEna, UartIInv, UartTypes, IsBuffer, Waiting, rxHist
<1>2. CASE LoadEna
  <2>1. pc' = "store" /\ op' = pc /\ ena0' = ena /\ pc \in {"rxon", "txoff", "txon"} /\ ena' = ena
    BY <1>2 DEF LoadEna
  <2>2. pc # "rxon" => RX \subseteq ena \/ Waiting
    BY <2>1 DEF UartIInv, NoWedge, Waiting
  <2>3. LateStore'
    BY <1>1, <2>1, <2>2 DEF LateStore
  <2>4. NoWedge'
    BY <1>1, <2>1, <2>2 DEF NoWedge, Waiting
  <2> QED
    BY <1>1, <2>1, <2>3, <2>4 DEF UartIInv, Counted
<1>3. CASE StoreEna
  <2>1. pc = "store" /\ pc' \in {"put", "idle"}
    BY <1>3 DEF StoreEna
  <2>2. RX \subseteq ena' \/ Waiting
    <3>1. CASE op = "rxon"
      BY <1>3, <3>1 DEF StoreEna
    <3>2. CASE op = "txoff"
      BY <1>3, <2>1, <3>2 DEF StoreEna, UartIInv, LateStore, RX
    <3>3. CASE op = "txon"
      BY <1>3, <2>1, <3>3 DEF StoreEna, UartIInv, LateStore
    <3> QED
      BY <2>1, <3>1, <3>2, <3>3 DEF UartIInv, LateStore
  <2> QED
    BY <1>1, <2>1, <2>2 DEF UartIInv, Counted, LateStore, NoWedge, Waiting
<1> QED
  BY <1>2, <1>3

LEMMA UartNextInv ==
  ASSUME UartIInv, [Next]_vars
  PROVE  UartIInv'
<1>1. CASE LineOut \/ (\E i \in Interrupts : Raise(i)) \/ UNCHANGED vars
  BY <1>1, ElsewhereInv DEF LineOut, Raise, vars, rxHist
<1>2. CASE Echoed
  <2>1. UartTypes' /\ pc' = "rxon"
    BY <1>2 DEF Echoed, UartIInv, UartTypes, IsBuffer, rxHist
  <2> QED
    BY <2>1 DEF UartIInv, Counted, LateStore, NoWedge
<1>3. CASE TxCopy \/ SendByte \/ SendWrite \/ SendDone
  BY <1>3, OtherTaskInv DEF TxCopy, SendByte, SendWrite, SendDone, rxHist
<1>4. ASSUME NEW n \in 0..MaxChunk, TxBuffEnq(n) \/ \E w \in BOOLEAN : Send(n, w)
      PROVE  UartIInv'
  BY <1>4, OtherTaskInv DEF TxBuffEnq, Send, rxHist
<1>5. CASE RxBuffDeqNull
  <2>1. UartTypes' /\ pc' = "crash" /\ buffered' /\ pRx' = NULL
    BY <1>5 DEF RxBuffDeqNull, UartIInv, UartTypes, IsBuffer, rxHist
  <2> QED
    BY <2>1 DEF UartIInv, Counted, LateStore, NoWedge
<1> QED
  BY <1>1, <1>2, <1>3, <1>4, <1>5, LineInInv, IsrInv, RecvTaskInv, EchoInv, RxBuffEnqInv,
     RxBuffDeqInv, LoadStoreInv DEF Next, TaskStep

(* Neither an event lost for a full queue (uart.c:236, 241), nor one that  *)
(* the task drops for a full ring buffer (293-307), nor a value of the     *)
(* interrupt enable register written back late leaves the receive          *)
(* interrupts masked with nothing to bring them back; a receive buffer     *)
(* that could not be allocated (323) ends in a fatal exception instead.    *)
THEOREM ReceiverNeverWedged == Spec => []NoWedge
<1>1. UartIInv => NoWedge
  BY DEF UartIInv
<1> QED
  BY <1>1, UartInitInv, UartNextInv, PTL DEF Spec

-----------------------------------------------------------------------------
(* The bytes.  Wherever a byte is, its number says how many were put in    *)
(* before it.                                                              *)
Wrap(n) == IF n < BuffSize THEN n ELSE n - BuffSize

(* A ring buffer holds the bytes that come after the first `before'.       *)
Holds(b, before) ==
  /\ b \in Buffer /\ b.pInPos = Wrap(b.pOutPos + Held(b))
  /\ \A i \in 0..(Held(b) - 1) : b.bytes[Wrap(b.pOutPos + i)] = before + i + 1

Consecutive(s, before) == \A i \in 1..Len(s) : s[i] = before + i

(* In the transmit FIFO those after `first', up to `last', come in order   *)
(* between the bytes of others: c says how far they are at each place.     *)
Climbs(s, c) ==
  \A i \in 1..Len(s) :
    \/ s[i] = Foreign /\ c[i] = c[i - 1]
    \/ s[i] = c[i] /\ c[i] = c[i - 1] + 1

Carries(s, first, last) ==
  \E c \in [0..Len(s) -> 0..last] : c[0] = first /\ c[Len(s)] = last /\ Climbs(s, c)

InRx == IF pRx # NULL THEN Held(pRx) ELSE 0
InTx == IF pTx # NULL THEN Held(pTx) ELSE 0
Moved == put - InTx  \* have been put into the FIFO

(* What was received lies in out, the ring buffer and the FIFO; the ring   *)
(* buffer is never quite full, which is what rx_buff_deq's straight copy   *)
(* needs.                                                                  *)
RxInv ==
  /\ pRx # NULL => Holds(pRx, Len(out)) /\ pRx.Space > 0
  /\ ~buffered => pRx = NULL /\ pTx = NULL
  /\ Consecutive(out, 0) /\ Consecutive(rxFifo, Len(out) + InRx)
  /\ taken = Len(out) + InRx + Len(rxFifo)

TxInv ==
  /\ pTx # NULL => Holds(pTx, Moved)
  /\ Consecutive(sent, 0) /\ Carries(txFifo, Len(sent), Moved)

TaskInv ==
  /\ pc \in {"echo", "enq"} => cnt \in 0..Len(rxFifo)
  /\ pc = "echo" => ~buffered
  /\ pc = "enq" => buffered /\ pRx # NULL /\ cnt < pRx.Space
  /\ pc \in {"txoff", "put"} \/ (pc = "store" /\ op = "txoff") =>
       buffered /\ cnt <= MaxChunk /\ put + cnt <= MaxTx
  /\ pc \in {"send", "write"} /\ ~buffered => put + cnt <= MaxTx + Len(out)
  /\ pc = "write" => cnt > 0 /\ (~buffered => Len(txFifo) < FifoLen)
  /\ put <= MaxTx + Len(out)

RxTypes ==
  /\ buffered \in BOOLEAN
  /\ rxFifo \in Seq(1..MaxRx) /\ Len(rxFifo) <= FifoLen
  /\ pRx \in Buffer \cup {NULL}
  /\ taken \in 0..MaxRx /\ out \in Seq(0..MaxRx)

TxTypes ==
  /\ txFifo \in Seq(0..MaxRx + MaxTx) /\ Len(txFifo) <= FifoLen
  /\ pTx \in Buffer \cup {NULL} /\ direct \in 0..MaxDirect
  /\ put \in 0..MaxRx + MaxTx /\ sent \in Seq(0..MaxRx + MaxTx)

TaskTypes ==
  /\ ena \subseteq Interrupts /\ raw \subseteq Interrupts /\ ena0 \subseteq Interrupts
  /\ events \in 0..QueueLen
  /\ pc \in {"idle", "echo", "enq", "rxon", "txoff", "put", "txon", "store", "send",
             "write", "crash"}
  /\ op \in {"rxon", "txoff", "txon"} /\ noWait \in BOOLEAN
  /\ cnt \in 0..FifoLen + MaxChunk

RxOK == RxTypes /\ RxInv
TxOK == TxTypes /\ TxInv
TaskOK == TaskTypes /\ TaskInv

BytesInv == RxOK /\ TxOK /\ TaskOK

(* Positions on the ring.                                                  *)
LEMMA Sizes ==
  /\ FifoLen \in Nat \ {0} /\ RxFull \in Nat \ {0} /\ TxRoom \in Nat \ {0}
  /\ TxEmpty \in Nat \ {0} /\ BuffSize \in Nat \ {0} /\ QueueLen \in Nat \ {0}
  /\ TxRoom <= FifoLen /\ FifoLen < BuffSize
  /\ MaxRx \in Nat /\ MaxTx \in Nat /\ MaxDirect \in Nat /\ MaxChunk \in 0..BuffSize
  BY UartAssumption

LEMMA Modulo ==
  ASSUME NEW n \in Int, 0 <= n, n < 2 * BuffSize
  PROVE  n % BuffSize = Wrap(n) /\ n % BuffSize \in Index
<1>1. BuffSize \in Nat \ {0}
  BY Sizes
<1>2. CASE n < BuffSize
  <2>1. n % BuffSize = n
    BY <1>1, <1>2
  <2> QED
    BY <1>1, <1>2, <2>1 DEF Wrap, Index
<1>3. CASE n >= BuffSize
  <2>1. n % BuffSize = n - BuffSize
    BY <1>1, <1>3
  <2> QED
    BY <1>1, <1>3, <2>1 DEF Wrap, Index
<1> QED
  BY <1>1, <1>2, <1>3

LEMMA WrapIn ==
  ASSUME NEW o \in Index, NEW n \in 0..BuffSize
  PROVE  Wrap(o + n) \in Index /\ (o + n) % BuffSize = Wrap(o + n)
<1>1. BuffSize \in Nat \ {0} /\ o \in 0..BuffSize - 1 /\ n \in 0..BuffSize
  BY Sizes DEF Index
<1>2. o + n \in Int /\ 0 <= o + n /\ o + n < 2 * BuffSize
  BY <1>1
<1> QED
  BY <1>2, Modulo

LEMMA WrapAdd ==
  ASSUME NEW o \in Index, NEW m \in Nat, NEW n \in Nat, m + n <= BuffSize
  PROVE  Wrap(Wrap(o + m) + n) = Wrap(o + (m + n))
<1>1. BuffSize \in Nat \ {0} /\ o \in 0..BuffSize - 1
  BY Sizes DEF Index
<1> QED
  BY <1>1 DEF Wrap

(* From the end of h bytes that begin at o, the place of byte i.           *)
LEMMA WrapBack ==
  ASSUME NEW o \in Index, NEW h \in 0..BuffSize, NEW i \in 0..BuffSize - 1
  PROVE  (Wrap(o + i) + BuffSize - Wrap(o + h)) % BuffSize
           = IF i < h THEN i - h + BuffSize ELSE i - h
<1>1. BuffSize \in Nat \ {0} /\ o \in 0..BuffSize - 1
  BY Sizes DEF Index
<1>2. Wrap(o + i) \in 0..BuffSize - 1 /\ Wrap(o + h) \in 0..BuffSize - 1
  BY <1>1 DEF Wrap
<1>3. Wrap(Wrap(o + i) + BuffSize - Wrap(o + h)) = IF i < h THEN i - h + BuffSize ELSE i - h
  BY <1>1 DEF Wrap
<1> DEFINE n == Wrap(o + i) + BuffSize - Wrap(o + h)
<1>4. n \in Int /\ 0 <= n /\ n < 2 * BuffSize
  BY <1>1, <1>2
<1>5. n % BuffSize = Wrap(n)
  <2> HIDE DEF n
  <2> QED
    BY <1>4, Modulo
<1> QED
  BY <1>3, <1>5

LEMMA BufferParts ==
  ASSUME NEW b \in Buffer
  PROVE  /\ b.bytes \in [Index -> 0..MaxRx + MaxTx] /\ b.pInPos \in Index
         /\ b.pOutPos \in Index /\ b.Space \in 0..BuffSize /\ Held(b) \in 0..BuffSize
         /\ Held(b) = BuffSize - b.Space /\ b # NULL
<1>1. /\ b.bytes \in [Index -> 0..MaxRx + MaxTx] /\ b.pInPos \in Index
      /\ b.pOutPos \in Index /\ b.Space \in 0..BuffSize
  BY DEF Buffer
<1>2. b.Space # -1
  BY <1>1, Sizes
<1> QED
  BY <1>1, <1>2, Sizes DEF Held, NULL

LEMMA BufferShape ==
  ASSUME NEW f \in [Index -> 0..MaxRx + MaxTx], NEW p \in Index, NEW o \in Index,
         NEW s \in 0..BuffSize,
         NEW d, d = [bytes |-> f, pInPos |-> p, pOutPos |-> o, Space |-> s]
  PROVE  /\ d \in Buffer /\ d.bytes = f /\ d.pInPos = p /\ d.pOutPos = o /\ d.Space = s
  BY DEF Buffer

(* Putting c bytes in: f has them behind pInPos.                           *)
LEMMA RingPut ==
  ASSUME NEW b, NEW before \in Nat, Holds(b, before), NEW c \in 0..b.Space,
         NEW f \in [Index -> 0..MaxRx + MaxTx],
         \A i \in Index :
           f[i] = LET k == (i + BuffSize - b.pInPos) % BuffSize
                  IN IF k < c THEN before + Held(b) + k + 1 ELSE b.bytes[i],
         NEW d, d = [bytes |-> f, pInPos |-> (b.pInPos + c) % BuffSize,
                     pOutPos |-> b.pOutPos, Space |-> b.Space - c]
  PROVE  Holds(d, before) /\ Held(d) = Held(b) + c /\ d.Space = b.Space - c
<1> DEFINE o == b.pOutPos
           h == Held(b)
<1>1. o \in Index /\ h \in 0..BuffSize /\ b.Space \in 0..BuffSize /\ b.Space = BuffSize - h
      /\ BuffSize \in Nat \ {0} /\ b.pInPos \in Index /\ b.pInPos = Wrap(o + h)
  <2>1. b \in Buffer
    BY DEF Holds
  <2>2. b.Space \in 0..BuffSize /\ h = BuffSize - b.Space /\ BuffSize \in Nat \ {0}
    BY <2>1, BufferParts, Sizes
  <2>3. b.Space = BuffSize - h
    BY <2>2
  <2> QED
    BY <2>1, <2>2, <2>3, BufferParts DEF Holds
<1> HIDE DEF o, h
<1>2. c \in Nat /\ h + c \in 0..BuffSize /\ b.Space - c \in 0..BuffSize /\ h \in Nat
      /\ c \in 0..BuffSize /\ BuffSize - (b.Space - c) = h + c
  BY <1>1
<1>3. (b.pInPos + c) % BuffSize = Wrap(o + (h + c)) /\ Wrap(o + (h + c)) \in Index
  <2>1. (b.pInPos + c) % BuffSize = Wrap(b.pInPos + c)
    BY <1>1, <1>2, WrapIn
  <2>2. Wrap(Wrap(o + h) + c) = Wrap(o + (h + c))
    BY <1>1, <1>2, WrapAdd
  <2>3. Wrap(o + (h + c)) \in Index
    BY <1>1, <1>2, WrapIn
  <2> QED
    BY <1>1, <2>1, <2>2, <2>3
<1>4. /\ d \in Buffer /\ d.bytes = f /\ d.pInPos = Wrap(o + (h + c)) /\ d.pOutPos = o
      /\ d.Space = b.Space - c
  BY <1>1, <1>2, <1>3, BufferShape DEF o
<1>5. Held(d) = h + c
  BY <1>2, <1>4 DEF Held
<1>6. ASSUME NEW i \in 0..(Held(d) - 1)
      PROVE  d.bytes[Wrap(d.pOutPos + i)] = before + i + 1
  <2> DEFINE x == Wrap(o + i)
             k == (x + BuffSize - b.pInPos) % BuffSize
  <2>1. i \in 0..(h + c - 1) /\ i \in 0..BuffSize - 1 /\ i \in 0..BuffSize
    BY <1>1, <1>2, <1>5
  <2>2. x \in Index
    BY <1>1, <2>1, WrapIn
  <2>3. k = IF i < h THEN i - h + BuffSize ELSE i - h
    BY <1>1, <2>1, WrapBack
  <2>4. f[x] = IF k < c THEN before + h + k + 1 ELSE b.bytes[x]
    BY <2>2 DEF h
  <2> HIDE DEF x, k
  <2>5. CASE i < h
    <3>1. k = i - h + BuffSize /\ ~(k < c) /\ i \in 0..(h - 1)
      BY <1>1, <1>2, <2>1, <2>3, <2>5
    <3>2. b.bytes[x] = before + i + 1
      BY <3>1 DEF Holds, x, o, h
    <3> QED
      BY <1>4, <2>4, <3>1, <3>2 DEF x
  <2>6. CASE ~(i < h)
    <3>1. k = i - h /\ k < c /\ before + h + k + 1 = before + i + 1
      BY <1>1, <1>2, <2>1, <2>3, <2>6
    <3> QED
      BY <1>4, <2>4, <3>1 DEF x
  <2> QED
    BY <2>5, <2>6
<1>7. Holds(d, before)
  BY <1>4, <1>5, <1>6 DEF Holds
<1> QED
  BY <1>4, <1>5, <1>7 DEF h

(* Taking n bytes out.                                                     *)
Without(b, n) == [b EXCEPT !.pOutPos = Wrap(@ + n), !.Space = @ + n]

LEMMA RingGet ==
  ASSUME NEW b, NEW before \in Nat, Holds(b, before), NEW n \in 0..Held(b)
  PROVE  /\ Holds(Without(b, n), before + n) /\ Held(Without(b, n)) = Held(b) - n
         /\ Without(b, n).Space = b.Space + n
         /\ \A i \in 1..n : /\ Wrap(b.pOutPos + (i - 1)) \in Index
                            /\ b.bytes[Wrap(b.pOutPos + (i - 1))] = before + i
<1> DEFINE d == Without(b, n)
<1> DEFINE o == b.pOutPos
           h == Held(b)
<1>1. o \in Index /\ h \in 0..BuffSize /\ b.Space \in 0..BuffSize /\ b.Space = BuffSize - h
      /\ BuffSize \in Nat \ {0} /\ b.pInPos \in Index /\ b.pInPos = Wrap(o + h)
  <2>1. b \in Buffer
    BY DEF Holds
  <2>2. b.Space \in 0..BuffSize /\ h = BuffSize - b.Space /\ BuffSize \in Nat \ {0}
    BY <2>1, BufferParts, Sizes
  <2>3. b.Space = BuffSize - h
    BY <2>2
  <2> QED
    BY <2>1, <2>2, <2>3, BufferParts DEF Holds
<1>0. n \in 0..h
  OBVIOUS
<1> HIDE DEF o, h, d
<1>2. n \in Nat /\ n \in 0..BuffSize /\ b.Space + n \in 0..BuffSize /\ h - n \in Nat
      /\ h - n \in 0..BuffSize /\ BuffSize - (b.Space + n) = h - n /\ n + (h - n) = h
      /\ n + (h - n) <= BuffSize
  BY <1>0, <1>1
<1>3. Wrap(o + n) \in Index
  BY <1>1, <1>2, WrapIn
<1>4. /\ d \in Buffer /\ d.bytes = b.bytes /\ d.pInPos = b.pInPos
      /\ d.pOutPos = Wrap(o + n) /\ d.Space = b.Space + n
  <2>1. b \in Buffer
    BY DEF Holds
  <2>2. d = [b EXCEPT !.pOutPos = Wrap(o + n), !.Space = b.Space + n]
    BY DEF o, d, Without
  <2> QED
    BY <1>2, <1>3, <2>1, <2>2 DEF Buffer
<1>5. Held(d) = h - n
  BY <1>2, <1>4 DEF Held
<1>6. d.pInPos = Wrap(d.pOutPos + Held(d))
  BY <1>1, <1>2, <1>4, <1>5, WrapAdd
<1>7. ASSUME NEW i \in 0..(Held(d) - 1)
      PROVE  d.bytes[Wrap(d.pOutPos + i)] = (before + n) + i + 1
  <2>1. i \in Nat /\ n + i <= BuffSize /\ n + i \in 0..(h - 1)
        /\ before + (n + i) + 1 = (before + n) + i + 1
    BY <1>0, <1>1, <1>2, <1>5
  <2>2. Wrap(d.pOutPos + i) = Wrap(o + (n + i))
    BY <1>1, <1>2, <1>4, <2>1, WrapAdd
  <2>3. b.bytes[Wrap(o + (n + i))] = before + (n + i) + 1
    BY <2>1 DEF Holds, o, h
  <2> QED
    BY <1>4, <2>1, <2>2, <2>3
<1>8. ASSUME NEW i \in 1..n
      PROVE  /\ Wrap(b.pOutPos + (i - 1)) \in Index
             /\ b.bytes[Wrap(b.pOutPos + (i - 1))] = before + i
  <2>1. i - 1 \in 0..(h - 1) /\ i - 1 \in 0..BuffSize /\ before + (i - 1) + 1 = before + i
    BY <1>0, <1>1, <1>2
  <2>2. Wrap(o + (i - 1)) \in Index
    BY <1>1, <2>1, WrapIn
  <2>3. b.bytes[Wrap(o + (i - 1))] = before + (i - 1) + 1
    BY <2>1 DEF Holds, o, h
  <2> QED
    BY <2>1, <2>2, <2>3 DEF o
<1> QED
  BY <1>4, <1>5, <1>6, <1>7, <1>8 DEF Holds, h, o, d

(* Runs of bytes.                                                          *)
LEMMA FunctionSeq ==
  ASSUME NEW S, NEW n \in Nat, NEW f \in [1..n -> S]
  PROVE  f \in Seq(S) /\ Len(f) = n
  OBVIOUS

LEMMA ConsecutiveCat ==
  ASSUME NEW S, NEW s \in Seq(S), NEW t \in Seq(S), NEW before \in Nat,
         Consecutive(s, before), Consecutive(t, before + Len(s))
  PROVE  Consecutive(s \o t, before)
  BY ConcatProperties DEF Consecutive

LEMMA ConsecutiveAppend ==
  ASSUME NEW S, NEW s \in Seq(S), NEW e \in S, NEW before \in Nat,
         Consecutive(s, before), e = before + Len(s) + 1
  PROVE  Consecutive(Append(s, e), before)
  BY AppendProperties DEF Consecutive

LEMMA ConsecutiveRest ==
  ASSUME NEW S, NEW s \in Seq(S), NEW n \in 0..Len(s), NEW before \in Nat,
         Consecutive(s, before)
  PROVE  /\ SubSeq(s, n + 1, Len(s)) \in Seq(S) /\ Len(SubSeq(s, n + 1, Len(s))) = Len(s) - n
         /\ Consecutive(SubSeq(s, n + 1, Len(s)), before + n)
<1> DEFINE l == Len(s)
           r == SubSeq(s, n + 1, l)
<1>1. l \in Nat
  BY LenProperties
<1>2. n + 1 \in 1..l + 1 /\ n + 1 \in Nat
  BY <1>1
<1>3. r \in Seq(S) /\ Len(r) = (IF n + 1 <= l THEN l - (n + 1) + 1 ELSE 0)
      /\ \A i \in 1..l - (n + 1) + 1 : r[i] = s[(n + 1) + i - 1]
  BY <1>1, <1>2, SubSeqProperties
<1> HIDE DEF l, r
<1>4. Len(r) = l - n
  BY <1>1, <1>2, <1>3 DEF l
<1>5. ASSUME NEW i \in 1..Len(r) PROVE r[i] = (before + n) + i
  <2>1. i \in 1..l - (n + 1) + 1 /\ (n + 1) + i - 1 = n + i /\ n + i \in 1..l
        /\ before + (n + i) = (before + n) + i
    BY <1>1, <1>4 DEF l
  <2>2. r[i] = s[n + i]
    BY <1>3, <2>1
  <2>3. s[n + i] = before + (n + i)
    BY <2>1 DEF Consecutive, l
  <2> QED
    BY <2>1, <2>2, <2>3
<1> QED
  BY <1>3, <1>4, <1>5 DEF Consecutive, l, r

LEMMA ConsecutiveTail ==
  ASSUME NEW S, NEW s \in Seq(S), s # <<>>, NEW before \in Nat, Consecutive(s, before)
  PROVE  /\ Head(s) = before + 1 /\ Head(s) \in S
         /\ Tail(s) \in Seq(S) /\ Len(Tail(s)) = Len(s) - 1 /\ Len(s) \in Nat \ {0}
         /\ Consecutive(Tail(s), before + 1)
  BY HeadTailProperties, EmptySeq DEF Consecutive

(* Bytes between those of others.                                          *)
LEMMA CarriesNone ==
  ASSUME NEW n \in Nat
  PROVE  Carries(<<>>, n, n)
<1> DEFINE c == [i \in 0..0 |-> n]
<1>1. c \in [0..0 -> 0..n] /\ c[0] = n
  OBVIOUS
<1>2. Climbs(<<>>, c) /\ Len(<<>>) = 0
  BY EmptySeq DEF Climbs
<1> HIDE DEF c
<1> QED
  BY <1>1, <1>2 DEF Carries

LEMMA CarriesAppend ==
  ASSUME NEW S, NEW s \in Seq(S), NEW e \in S, NEW first, NEW n \in Nat, NEW m \in Nat,
         Carries(s, first, n), (e = Foreign /\ m = n) \/ (e = m /\ m = n + 1)
  PROVE  Carries(Append(s, e), first, m)
<1> DEFINE l == Len(s)
           u == Append(s, e)
<1>1. PICK c \in [0..l -> 0..n] : c[0] = first /\ c[l] = n /\ Climbs(s, c)
  BY DEF Carries
<1> DEFINE d == [i \in 0..l + 1 |-> IF i = l + 1 THEN m ELSE c[i]]
<1>2. l \in Nat /\ Len(u) = l + 1 /\ u[l + 1] = e /\ \A i \in 1..l : u[i] = s[i]
  BY AppendProperties, LenProperties
<1>3. d \in [0..l + 1 -> 0..m] /\ d[0] = first /\ d[l + 1] = m
  BY <1>1, <1>2
<1>4. ASSUME NEW i \in 1..l + 1
      PROVE  \/ u[i] = Foreign /\ d[i] = d[i - 1]
             \/ u[i] = d[i] /\ d[i] = d[i - 1] + 1
  <2>1. CASE i = l + 1
    <3>1. d[i] = m /\ d[i - 1] = n /\ u[i] = e
      BY <1>1, <1>2, <2>1
    <3> QED
      BY <3>1
  <2>2. CASE i # l + 1
    <3>1. i \in 1..l /\ d[i] = c[i] /\ d[i - 1] = c[i - 1] /\ u[i] = s[i]
      BY <1>2, <2>2
    <3> HIDE DEF d, u
    <3> QED
      BY <1>1, <3>1 DEF Climbs
  <2> QED
    BY <2>1, <2>2
<1> HIDE DEF d, u
<1>5. Climbs(u, d)
  <2> SUFFICES ASSUME NEW i \in 1..Len(u)
               PROVE  \/ u[i] = Foreign /\ d[i] = d[i - 1]
                      \/ u[i] = d[i] /\ d[i] = d[i - 1] + 1
    BY Zenon DEF Climbs
  <2>1. i \in 1..l + 1
    BY <1>2
  <2> QED
    BY <1>4, <2>1, Zenon
<1> QED
  BY <1>2, <1>3, <1>5 DEF Carries, u

LEMMA CarriesCat ==
  ASSUME NEW S, NEW s \in Seq(S), NEW t \in Seq(S), NEW first, NEW n \in Nat,
         Carries(s, first, n), Consecutive(t, n)
  PROVE  Carries(s \o t, first, n + Len(t))
<1> DEFINE l == Len(s)
           k == Len(t)
           u == s \o t
<1>1. PICK c \in [0..l -> 0..n] : c[0] = first /\ c[l] = n /\ Climbs(s, c)
  BY DEF Carries
<1> DEFINE d == [i \in 0..l + k |-> IF i <= l THEN c[i] ELSE n + (i - l)]
<1>2. l \in Nat /\ k \in Nat /\ Len(u) = l + k
      /\ \A i \in 1..l + k : u[i] = IF i <= l THEN s[i] ELSE t[i - l]
  BY ConcatProperties, LenProperties
<1>3. d \in [0..l + k -> 0..n + k] /\ d[0] = first /\ d[l + k] = n + k
  BY <1>1, <1>2
<1>4. ASSUME NEW i \in 1..l + k
      PROVE  \/ u[i] = Foreign /\ d[i] = d[i - 1]
             \/ u[i] = d[i] /\ d[i] = d[i - 1] + 1
  <2>1. CASE i <= l
    <3>1. i \in 1..l /\ d[i] = c[i] /\ d[i - 1] = c[i - 1] /\ u[i] = s[i]
      BY <1>2, <2>1
    <3> HIDE DEF d, u
    <3> QED
      BY <1>1, <3>1 DEF Climbs
  <2>2. CASE ~(i <= l)
    <3>1. i - l \in 1..k /\ u[i] = t[i - l] /\ d[i] = n + (i - l)
      BY <1>2, <2>2
    <3>2. d[i - 1] = n + (i - 1 - l)
      <4>1. i - 1 \in 0..l + k /\ i - 1 >= l
        BY <1>2, <2>2
      <4>2. CASE i - 1 = l
        <5>1. d[i - 1] = c[l] /\ n + (i - 1 - l) = n
          BY <1>2, <4>1, <4>2
        <5> QED
          BY <1>1, <5>1
      <4>3. CASE i - 1 # l
        BY <1>2, <4>1, <4>3
      <4> QED
        BY <4>2, <4>3
    <3>3. t[i - l] = n + (i - l)
      BY <3>1 DEF Consecutive
    <3> HIDE DEF d, u, l, k
    <3> QED
      BY <1>2, <3>1, <3>2, <3>3
  <2> QED
    BY <2>1, <2>2
<1> HIDE DEF d, u
<1>5. Climbs(u, d)
  <2> SUFFICES ASSUME NEW i \in 1..Len(u)
               PROVE  \/ u[i] = Foreign /\ d[i] = d[i - 1]
                      \/ u[i] = d[i] /\ d[i] = d[i - 1] + 1
    BY Zenon DEF Climbs
  <2>1. i \in 1..l + k
    BY <1>2
  <2> QED
    BY <1>4, <2>1, Zenon
<1> QED
  BY <1>2, <1>3, <1>5 DEF Carries, u

LEMMA CarriesTail ==
  ASSUME NEW S, NEW s \in Seq(S), s # <<>>, NEW first \in Nat, NEW n \in Nat,
         Carries(s, first, n)
  PROVE  /\ Head(s) \in S
         /\ Tail(s) \in Seq(S) /\ Len(Tail(s)) = Len(s) - 1 /\ Len(s) \in Nat \ {0}
         /\ Head(s) = Foreign => Carries(Tail(s), first, n)
         /\ Head(s) # Foreign => /\ Head(s) = first + 1 /\ first + 1 <= n
                                 /\ Carries(Tail(s), first + 1, n)
<1> DEFINE l == Len(s)
           r == Tail(s)
<1>1. PICK c \in [0..l -> 0..n] : c[0] = first /\ c[l] = n /\ Climbs(s, c)
  BY DEF Carries
<1>2. l \in Nat \ {0} /\ Head(s) = s[1] /\ Head(s) \in S /\ r \in Seq(S) /\ Len(r) = l - 1
      /\ \A i \in 1..l - 1 : r[i] = s[i + 1]
  BY HeadTailProperties, EmptySeq, LenProperties
<1>3. \/ Head(s) = Foreign /\ c[1] = first
      \/ Head(s) = first + 1 /\ c[1] = first + 1
  BY <1>1, <1>2 DEF Climbs
<1>4. first + 1 # Foreign /\ c[1] <= n
  BY <1>1, <1>2 DEF Foreign
<1> DEFINE d == [i \in 0..l - 1 |-> c[i + 1]]
<1>5. d \in [0..l - 1 -> 0..n] /\ d[0] = c[1] /\ d[l - 1] = n
  BY <1>1, <1>2
<1>6. ASSUME NEW i \in 1..l - 1
      PROVE  \/ r[i] = Foreign /\ d[i] = d[i - 1]
             \/ r[i] = d[i] /\ d[i] = d[i - 1] + 1
  <2>1. i + 1 \in 1..l /\ (i + 1) - 1 = i /\ r[i] = s[i + 1] /\ d[i] = c[i + 1] /\ d[i - 1] = c[i]
    BY <1>2
  <2>2. \/ s[i + 1] = Foreign /\ c[i + 1] = c[(i + 1) - 1]
        \/ s[i + 1] = c[i + 1] /\ c[i + 1] = c[(i + 1) - 1] + 1
    BY <1>1, <2>1 DEF Climbs
  <2> HIDE DEF d, r, l
  <2> QED
    BY <2>1, <2>2
<1> HIDE DEF d
<1>7. Climbs(r, d)
  <2> SUFFICES ASSUME NEW i \in 1..Len(r)
               PROVE  \/ r[i] = Foreign /\ d[i] = d[i - 1]
                      \/ r[i] = d[i] /\ d[i] = d[i - 1] + 1
    BY Zenon DEF Climbs
  <2>1. i \in 1..l - 1
    BY <1>2
  <2> QED
    BY <1>6, <2>1, Zenon
<1>8. Carries(r, c[1], n)
  BY <1>2, <1>5, <1>7 DEF Carries
<1> QED
  BY <1>2, <1>3, <1>4, <1>8

-----------------------------------------------------------------------------
(* What follows at once from the invariant.                                *)
LEMMA BytesFacts ==
  ASSUME BytesInv
  PROVE  /\ Len(rxFifo) \in Nat /\ Len(out) \in Nat /\ Len(txFifo) \in Nat /\ Len(sent) \in Nat
         /\ InRx \in 0..BuffSize /\ InTx \in 0..BuffSize
         /\ Len(out) <= taken /\ taken \in Nat /\ put \in Nat /\ buffered \in BOOLEAN
         /\ pRx # NULL => pRx \in Buffer /\ InRx = Held(pRx)
         /\ ~buffered => InRx = 0 /\ InTx = 0 /\ pRx = NULL /\ pTx = NULL
         /\ pTx # NULL => pTx \in Buffer /\ InTx = Held(pTx)
         /\ Moved \in Nat /\ put = Moved + InTx /\ direct \in Nat
<1>1. /\ Len(rxFifo) \in Nat /\ Len(out) \in Nat /\ Len(txFifo) \in Nat /\ Len(sent) \in Nat
      /\ taken \in Nat /\ put \in Nat /\ direct \in Nat /\ buffered \in BOOLEAN
  BY LenProperties, Sizes DEF BytesInv, RxOK, TxOK, RxTypes, TxTypes
<1>2. pRx # NULL => pRx \in Buffer /\ InRx = Held(pRx) /\ Held(pRx) \in 0..BuffSize
  BY BufferParts DEF BytesInv, RxOK, RxInv, Holds, InRx
<1>20. pRx = NULL => InRx = 0
  BY DEF InRx
<1>3. ~buffered => InRx = 0 /\ InTx = 0 /\ pRx = NULL /\ pTx = NULL
  BY DEF BytesInv, RxOK, RxInv, InRx, InTx
<1>4. pTx # NULL => pTx \in Buffer /\ InTx = Held(pTx) /\ Held(pTx) \in 0..BuffSize
  BY BufferParts DEF BytesInv, TxOK, TxInv, Holds, InTx
<1>5. pTx = NULL => InTx = 0
  BY DEF InTx
<1>6. InRx \in 0..BuffSize /\ InTx \in 0..BuffSize
  BY <1>2, <1>20, <1>3, <1>4, <1>5, Sizes
<1>8. Moved \in Nat /\ put = Moved + InTx
  <2>1. PICK c \in [0..Len(txFifo) -> 0..Moved] : c[0] = Len(sent)
    BY DEF BytesInv, TxOK, TxInv, Carries
  <2>2. Len(sent) \in 0..Moved
    BY <1>1, <2>1
  <2>3. Moved \in Int /\ put = Moved + InTx
    BY <1>1, <1>6 DEF Moved
  <2> QED
    BY <1>1, <2>2, <2>3
<1>7. Len(out) <= taken
  <2>1. taken = Len(out) + InRx + Len(rxFifo)
    BY DEF BytesInv, RxOK, RxInv
  <2> QED
    BY <1>1, <1>6, <2>1
<1> QED
  BY <1>1, <1>2, <1>3, <1>4, <1>6, <1>7, <1>8

(* The parts that a step leaves alone.                                     *)
LEMMA RxSame ==
  ASSUME RxOK, UNCHANGED <<buffered, rxFifo, pRx, taken, out>>, ~buffered => pTx' = pTx
  PROVE  RxOK'
  BY DEF RxOK, RxTypes, RxInv, InRx

LEMMA TxSame ==
  ASSUME TxOK, UNCHANGED <<txFifo, pTx, put, sent, direct>>
  PROVE  TxOK'
  BY DEF TxOK, TxTypes, TxInv, InTx, Moved

LEMMA TaskSame ==
  ASSUME TaskOK, UNCHANGED <<buffered, task, pRx, rxFifo, put, out>>,
         ~buffered => txFifo' = txFifo,
         ena' \subseteq Interrupts, raw' \subseteq Interrupts, events' \in 0..QueueLen
  PROVE  TaskOK'
  BY DEF TaskOK, TaskTypes, TaskInv, task

LEMMA InitBytes == Init => BytesInv
<1> SUFFICES ASSUME Init PROVE BytesInv
  OBVIOUS
<1>1. NewBuffer \in Buffer /\ Held(NewBuffer) = 0 /\ NewBuffer.Space = BuffSize
      /\ NewBuffer.pInPos = 0 /\ NewBuffer.pOutPos = 0
  BY Sizes DEF NewBuffer, Buffer, Held, Index
<1>2. Holds(NewBuffer, 0)
  BY <1>1, Sizes DEF Holds, Wrap
<1>3. pTx \in {NewBuffer, NULL} /\ (~buffered => pTx = NULL)
      /\ pRx \in {NewBuffer, NULL} /\ (~buffered => pRx = NULL) /\ buffered \in BOOLEAN
  BY UartAssumption DEF Init
<1>4. <<>> \in Seq(0..MaxRx) /\ <<>> \in Seq(1..MaxRx)
      /\ <<>> \in Seq(0..MaxRx + MaxTx) /\ Len(<<>>) = 0
  BY EmptySeq
<1>5. InRx = 0 /\ InTx = 0
  BY <1>1, <1>3 DEF InRx, InTx
<1>50. Moved = 0 /\ Carries(<<>>, 0, 0)
  BY <1>5, CarriesNone DEF Init, Moved
<1>6. Consecutive(<<>>, 0)
  BY <1>4 DEF Consecutive
<1>7. RxOK
  <2>1. RxTypes
    BY <1>1, <1>3, <1>4, Sizes DEF Init, RxTypes
  <2>2. RxInv
    BY <1>1, <1>2, <1>3, <1>4, <1>5, <1>6, Sizes DEF Init, RxInv
  <2> QED
    BY <2>1, <2>2 DEF RxOK
<1>8. TxOK
  <2>1. TxTypes
    BY <1>1, <1>3, <1>4, Sizes DEF Init, TxTypes
  <2>2. TxInv
    BY <1>2, <1>3, <1>4, <1>50, <1>6, Sizes DEF Init, TxInv
  <2> QED
    BY <2>1, <2>2 DEF TxOK
<1>9. TaskOK
  <2>1. TaskTypes
    <3>1. /\ 0 \in 0..QueueLen /\ 0 \in 0..FifoLen + MaxChunk
      BY Sizes
    <3> QED
      BY <3>1 DEF Init, TaskTypes, RX, Interrupts
  <2>2. 0 <= MaxTx + 0
    BY Sizes
  <2>3. TaskInv
    BY <1>4, <2>2 DEF Init, TaskInv
  <2> QED
    BY <2>1, <2>3 DEF TaskOK
<1> QED
  BY <1>7, <1>8, <1>9 DEF BytesInv

(* The lines.                                                              *)
LEMMA LineInBytes ==
  ASSUME BytesInv, LineIn
  PROVE  BytesInv' /\ taken' = taken + 1 /\ out' = out
<1>1. /\ taken < MaxRx /\ Len(rxFifo) < FifoLen /\ rxFifo' = Append(rxFifo, taken + 1)
      /\ taken' = taken + 1
      /\ UNCHANGED <<buffered, txFifo, ena, raw, events, task, pRx, pTx, out, put, sent, direct>>
  BY DEF LineIn, txHist
<1>2. TxOK'
  BY <1>1, TxSame DEF BytesInv
<1>3. taken + 1 \in 1..MaxRx /\ taken + 1 \in 0..MaxRx /\ taken = Len(out) + InRx + Len(rxFifo)
      /\ Len(out) + InRx \in Nat /\ taken + 1 = (Len(out) + InRx) + Len(rxFifo) + 1
  <2>1. taken = Len(out) + InRx + Len(rxFifo)
    BY DEF BytesInv, RxOK, RxInv
  <2>2. Len(out) \in Nat /\ InRx \in Nat /\ Len(rxFifo) \in Nat /\ taken \in Nat
    BY BytesFacts
  <2> QED
    BY <1>1, <2>1, <2>2, Sizes
<1>4. rxFifo \in Seq(1..MaxRx)
  BY DEF BytesInv, RxOK, RxTypes
<1>5. rxFifo' \in Seq(1..MaxRx) /\ Len(rxFifo') = Len(rxFifo) + 1 /\ Len(rxFifo') <= FifoLen
  BY <1>1, <1>3, <1>4, AppendProperties, BytesFacts, Sizes
<1>6. Consecutive(rxFifo', Len(out) + InRx)
  BY <1>1, <1>3, <1>4, ConsecutiveAppend DEF BytesInv, RxOK, RxInv
<1>7. InRx' = InRx
  BY <1>1 DEF InRx
<1>8. RxOK'
  <2>1. RxTypes'
    BY <1>1, <1>3, <1>5 DEF BytesInv, RxOK, RxTypes
  <2>2. taken' = Len(out) + InRx + Len(rxFifo')
    BY <1>1, <1>3, <1>5, BytesFacts
  <2>3. RxInv'
    BY <1>1, <1>6, <1>7, <2>2 DEF BytesInv, RxOK, RxInv
  <2> QED
    BY <2>1, <2>3 DEF RxOK
<1>9. TaskOK'
  BY <1>1, <1>5, BytesFacts DEF BytesInv, TaskOK, TaskTypes, TaskInv, task
<1> QED
  BY <1>1, <1>2, <1>8, <1>9 DEF BytesInv

LEMMA LineOutBytes ==
  ASSUME BytesInv, LineOut
  PROVE  BytesInv' /\ UNCHANGED <<taken, out, put>>
           /\ (sent' = sent \/ (Len(sent') = Len(sent) + 1 /\ Len(sent') <= put))
<1>1. /\ txFifo # <<>> /\ txFifo' = Tail(txFifo)
      /\ sent' = (IF Head(txFifo) = Foreign THEN sent ELSE Append(sent, Head(txFifo)))
      /\ UNCHANGED <<buffered, rxFifo, ena, raw, events, task, pRx, pTx, taken, out, put, direct>>
  BY DEF LineOut, rxHist
<1>2. txFifo \in Seq(0..MaxRx + MaxTx) /\ sent \in Seq(0..MaxRx + MaxTx)
      /\ Carries(txFifo, Len(sent), Moved) /\ Consecutive(sent, 0) /\ Len(txFifo) <= FifoLen
      /\ Len(sent) \in Nat /\ Moved \in Nat /\ put = Moved + InTx /\ InTx \in Nat
  BY BytesFacts DEF BytesInv, TxOK, TxTypes, TxInv
<1>3. /\ Head(txFifo) \in 0..MaxRx + MaxTx
      /\ txFifo' \in Seq(0..MaxRx + MaxTx) /\ Len(txFifo') = Len(txFifo) - 1
      /\ Len(txFifo) \in Nat \ {0}
      /\ Head(txFifo) = Foreign => Carries(txFifo', Len(sent), Moved)
      /\ Head(txFifo) # Foreign => /\ Head(txFifo) = Len(sent) + 1 /\ Len(sent) + 1 <= Moved
                                   /\ Carries(txFifo', Len(sent) + 1, Moved)
  BY <1>1, <1>2, CarriesTail
<1>4. RxOK' /\ TaskOK'
  <2>1. Len(txFifo') < FifoLen
    BY <1>2, <1>3, Sizes
  <2>2. RxOK'
    BY <1>1, RxSame DEF BytesInv
  <2> QED
    BY <1>1, <2>1, <2>2 DEF BytesInv, TaskOK, TaskTypes, TaskInv, task
<1>5. /\ sent' \in Seq(0..MaxRx + MaxTx) /\ Consecutive(sent', 0)
      /\ Carries(txFifo', Len(sent'), Moved)
      /\ sent' = sent \/ (Len(sent') = Len(sent) + 1 /\ Len(sent') <= put)
  <2>1. CASE Head(txFifo) = Foreign
    BY <1>1, <1>2, <1>3, <2>1
  <2>2. CASE Head(txFifo) # Foreign
    <3>1. sent' = Append(sent, Head(txFifo)) /\ Head(txFifo) = 0 + Len(sent) + 1 /\ 0 \in Nat
      BY <1>1, <1>2, <1>3, <2>2
    <3>2. sent' \in Seq(0..MaxRx + MaxTx) /\ Len(sent') = Len(sent) + 1
      BY <1>2, <1>3, <3>1, AppendProperties
    <3>3. Consecutive(sent', 0)
      BY <1>2, <1>3, <3>1, ConsecutiveAppend
    <3>4. Len(sent') <= put
      BY <1>2, <1>3, <2>2, <3>2
    <3> QED
      BY <1>3, <2>2, <3>2, <3>3, <3>4
  <2> QED
    BY <2>1, <2>2
<1>6. InTx' = InTx /\ Moved' = Moved /\ Len(txFifo') <= FifoLen
  BY <1>1, <1>2, <1>3, Sizes DEF InTx, Moved
<1>7. TxOK'
  <2>1. TxTypes'
    BY <1>1, <1>3, <1>5, <1>6 DEF BytesInv, TxOK, TxTypes
  <2>2. TxInv'
    BY <1>1, <1>5, <1>6 DEF BytesInv, TxOK, TxInv
  <2> QED
    BY <2>1, <2>2 DEF TxOK
<1> QED
  BY <1>1, <1>4, <1>5, <1>7 DEF BytesInv

(* The handler.                                                            *)
LEMMA RaiseBytes ==
  ASSUME BytesInv, NEW i \in Interrupts, Raise(i)
  PROVE  BytesInv' /\ UNCHANGED <<taken, out, put, sent>>
<1>1. UNCHANGED <<buffered, rxFifo, txFifo, ena, events, task, pRx, pTx, taken, out, put,
                  sent, direct>>
      /\ raw' \subseteq Interrupts
  BY DEF Raise, rxHist, txHist, BytesInv, TaskOK, TaskTypes
<1> QED
  BY <1>1, RxSame, TxSame, TaskSame DEF BytesInv, TaskOK, TaskTypes

LEMMA IsrRxBytes ==
  ASSUME BytesInv, IsrRx
  PROVE  BytesInv' /\ UNCHANGED <<taken, out, put, sent>>
<1>1. UNCHANGED <<buffered, rxFifo, txFifo, task, pRx, pTx, taken, out, put, sent, direct>>
      /\ raw' \subseteq Interrupts /\ ena' \subseteq Interrupts
  BY DEF IsrRx, rxHist, txHist, BytesInv, TaskOK, TaskTypes
<1>2. events' \in 0..QueueLen
  BY Sizes DEF IsrRx, BytesInv, TaskOK, TaskTypes
<1> QED
  BY <1>1, <1>2, RxSame, TxSame, TaskSame DEF BytesInv

LEMMA IsrTxBytes ==
  ASSUME BytesInv, IsrTx
  PROVE  BytesInv' /\ UNCHANGED <<taken, out, put, sent>>
<1>1. UNCHANGED <<buffered, rxFifo, events, task, pRx, taken, out, put, sent, direct>>
      /\ raw' \subseteq Interrupts /\ ena' \subseteq Interrupts
  BY DEF IsrTx, StartUartBuffer, rxHist, txHist, BytesInv, TaskOK, TaskTypes
<1>2. TaskOK'
  <2>1. ~buffered => pTx = NULL
    BY BytesFacts
  <2>2. ~buffered => txFifo' = txFifo
    BY <2>1 DEF IsrTx
  <2> QED
    BY <1>1, <2>2, TaskSame DEF BytesInv, TaskOK, TaskTypes
<1>3. CASE pTx = NULL
  BY <1>1, <1>2, <1>3, RxSame, TxSame DEF BytesInv, IsrTx
<1>4. CASE pTx # NULL
  <2> DEFINE room == FifoLen - Len(txFifo)
             n == IF Held(pTx) > room THEN room ELSE Held(pTx)
             before == Moved
             b == pTx
  <2>1. txFifo' = txFifo \o Inserted(pTx, n)
        /\ pTx' = [pTx EXCEPT !.pOutPos = (@ + n) % BuffSize, !.Space = @ + n]
    BY <1>4 DEF IsrTx, StartUartBuffer
  <2>2. b \in Buffer /\ Holds(b, before) /\ before \in Nat /\ Held(b) \in 0..BuffSize
        /\ b.pOutPos \in Index /\ InTx = Held(b) /\ Len(txFifo) \in Nat /\ Len(txFifo) <= FifoLen
    BY <1>4, BytesFacts, BufferParts DEF BytesInv, TxOK, TxInv, TxTypes
  <2>3. n \in 0..Held(b) /\ n \in Nat /\ n <= room /\ n \in 0..BuffSize
    BY <2>2, Sizes
  <2> HIDE DEF n
  <2>4. (b.pOutPos + n) % BuffSize = Wrap(b.pOutPos + n)
    BY <2>2, <2>3, WrapIn
  <2>5. pTx' = Without(b, n)
    BY <2>1, <2>4 DEF Without
  <2>6. /\ Holds(pTx', before + n) /\ Held(pTx') = Held(b) - n
        /\ \A i \in 1..n : /\ Wrap(b.pOutPos + (i - 1)) \in Index
                           /\ b.bytes[Wrap(b.pOutPos + (i - 1))] = before + i
    <3> HIDE DEF b, before
    <3> QED
      BY <2>2, <2>3, <2>5, RingGet
  <2> DEFINE t == Inserted(pTx, n)
  <2>7. put = before + Held(b) /\ put \in 0..MaxRx + MaxTx
    BY <2>2, BytesFacts DEF BytesInv, TxOK, TxTypes
  <2>8. ASSUME NEW i \in 1..n
        PROVE  t[i] = before + i /\ t[i] \in 0..MaxRx + MaxTx
    <3>1. i - 1 \in 0..BuffSize /\ i \in Nat /\ i >= 1 /\ i <= Held(b)
          /\ b.pOutPos + i - 1 = b.pOutPos + (i - 1)
      BY <2>2, <2>3, Sizes DEF Index
    <3>2. t[i] = b.bytes[(b.pOutPos + i - 1) % BuffSize]
      BY DEF Inserted
    <3>3. (b.pOutPos + (i - 1)) % BuffSize = Wrap(b.pOutPos + (i - 1))
      BY <2>2, <3>1, WrapIn
    <3>4. t[i] = before + i
      BY <2>6, <3>1, <3>2, <3>3
    <3> HIDE DEF t, b, before
    <3> QED
      BY <2>2, <2>7, <3>1, <3>4, Sizes
  <2>9. t \in Seq(0..MaxRx + MaxTx) /\ Len(t) = n
    <3>1. t = [i \in 1..n |-> t[i]]
      BY DEF Inserted
    <3> HIDE DEF t
    <3>2. t \in [1..n -> 0..MaxRx + MaxTx] /\ DOMAIN t = 1..n
      BY <2>8, <3>1
    <3> QED
      BY <2>3, <3>2, FunctionSeq
  <2>10. Consecutive(t, before)
    BY <2>8, <2>9 DEF Consecutive
  <2> HIDE DEF t
  <2>11. txFifo \in Seq(0..MaxRx + MaxTx) /\ Carries(txFifo, Len(sent), before)
    BY DEF BytesInv, TxOK, TxTypes, TxInv
  <2>12. txFifo' \in Seq(0..MaxRx + MaxTx) /\ Len(txFifo') = Len(txFifo) + n
         /\ Carries(txFifo', Len(sent), before + n)
    <3>1. txFifo' = txFifo \o t
      BY <2>1 DEF t
    <3> HIDE DEF before
    <3>2. Carries(txFifo \o t, Len(sent), before + n)
      BY <2>2, <2>9, <2>10, <2>11, CarriesCat
    <3> QED
      BY <2>2, <2>9, <2>11, <3>1, <3>2, ConcatProperties
  <2>13. pTx' \in Buffer /\ pTx' # NULL
    BY <2>6, BufferParts DEF Holds
  <2>14. Len(txFifo') <= FifoLen /\ put - Held(pTx') = before + n
    <3> HIDE DEF b, before
    <3> QED
      BY <2>2, <2>3, <2>6, <2>7, <2>12, Sizes DEF room
  <2>15. TxOK'
    <3>1. TxTypes'
      BY <1>1, <2>12, <2>13, <2>14 DEF BytesInv, TxOK, TxTypes
    <3>2. Moved' = before + n
      BY <1>1, <2>13, <2>14 DEF InTx, Moved
    <3>3. TxInv'
      BY <1>1, <2>6, <2>12, <3>2 DEF BytesInv, TxOK, TxInv
    <3> QED
      BY <3>1, <3>3 DEF TxOK
  <2>16. buffered
    BY <1>4, BytesFacts
  <2>17. RxOK'
    BY <1>1, <2>16, RxSame DEF BytesInv
  <2> QED
    BY <1>1, <1>2, <2>15, <2>17 DEF BytesInv
<1> QED
  BY <1>3, <1>4

(* The task that serves the receiver.                                      *)
LEMMA RecvTaskBytes ==
  ASSUME BytesInv, RecvTask
  PROVE  BytesInv' /\ UNCHANGED <<taken, out, put, sent>>
<1>1. UNCHANGED <<buffered, rxFifo, txFifo, ena, raw, noWait, op, ena0, pRx, pTx,
                  taken, out, put, sent, direct>>
      /\ pc = "idle" /\ events > 0 /\ events' = events - 1
  BY DEF RecvTask, rxHist, txHist
<1>2. RxOK' /\ TxOK'
  BY <1>1, RxSame, TxSame DEF BytesInv
<1>3. events' \in 0..QueueLen
  BY <1>1, Sizes DEF BytesInv, TaskOK, TaskTypes
<1>4. CASE buffered /\ cnt' = cnt /\ pc' \in {"idle", "crash"}
  BY <1>1, <1>2, <1>3, <1>4 DEF RecvTask, BytesInv, TaskOK, TaskTypes, TaskInv
<1>5. CASE /\ ~buffered \/ (pRx # NULL /\ Len(rxFifo) < pRx.Space)
           /\ cnt' = Len(rxFifo) /\ pc' = IF buffered THEN "enq" ELSE "echo"
  <2>1. cnt' = Len(rxFifo) /\ pc' = IF buffered THEN "enq" ELSE "echo"
    BY <1>5
  <2>2. Len(rxFifo) \in Nat /\ Len(rxFifo) <= FifoLen
    BY BytesFacts DEF BytesInv, RxOK, RxTypes
  <2>3. buffered => pRx # NULL /\ Len(rxFifo) < pRx.Space
    BY <1>5
  <2>4. Len(rxFifo) \in 0..FifoLen + MaxChunk /\ Len(rxFifo) \in 0..Len(rxFifo)
    BY <2>2, Sizes
  <2>5. TaskTypes'
    BY <1>1, <1>3, <2>1, <2>4 DEF BytesInv, TaskOK, TaskTypes
  <2>6. TaskInv'
    BY <1>1, <2>1, <2>3, <2>4 DEF BytesInv, TaskOK, TaskInv
  <2> QED
    BY <1>1, <1>2, <2>5, <2>6 DEF BytesInv, TaskOK
<1> QED
  BY <1>1, <1>4, <1>5 DEF RecvTask

LEMMA EchoBytes ==
  ASSUME BytesInv, Echo
  PROVE  BytesInv' /\ UNCHANGED <<taken, sent>> /\ put' = put + 1
           /\ Len(out') = Len(out) + 1 /\ Len(out') <= taken
<1>1. /\ pc = "echo" /\ cnt > 0 /\ Len(txFifo) < TxRoom
      /\ out' = Append(out, Head(rxFifo)) /\ rxFifo' = Tail(rxFifo)
      /\ put' = put + 1 /\ txFifo' = Append(txFifo, put + 1) /\ cnt' = cnt - 1
      /\ UNCHANGED <<buffered, ena, raw, events, pc, noWait, op, ena0, pRx, pTx, taken, sent,
                     direct>>
  BY DEF Echo, HasRoom
<1>2. ~buffered /\ cnt \in 0..Len(rxFifo) /\ put <= MaxTx + Len(out)
  BY <1>1 DEF BytesInv, TaskOK, TaskInv
<1>3. InRx = 0 /\ InTx = 0 /\ pRx = NULL /\ pTx = NULL /\ InRx' = 0 /\ InTx' = 0
  BY <1>1, <1>2, BytesFacts DEF InRx, InTx
<1>4. /\ Len(rxFifo) \in Nat /\ Len(out) \in Nat /\ Len(txFifo) \in Nat /\ Len(sent) \in Nat
      /\ put \in Nat /\ taken \in Nat
  BY BytesFacts
<1>5. /\ rxFifo \in Seq(1..MaxRx) /\ Consecutive(rxFifo, Len(out)) /\ out \in Seq(0..MaxRx)
      /\ Consecutive(out, 0) /\ taken = Len(out) + Len(rxFifo) /\ taken \in 0..MaxRx
  <2>1. Len(out) + InRx = Len(out)
    BY <1>3, <1>4
  <2> QED
    BY <2>1 DEF BytesInv, RxOK, RxTypes, RxInv
<1>6. rxFifo # <<>>
  BY <1>1, <1>2, <1>4
<1>7. /\ Head(rxFifo) = Len(out) + 1 /\ Head(rxFifo) \in 1..MaxRx
      /\ rxFifo' \in Seq(1..MaxRx) /\ Len(rxFifo') = Len(rxFifo) - 1
      /\ Consecutive(rxFifo', Len(out) + 1)
  BY <1>1, <1>4, <1>5, <1>6, ConsecutiveTail
<1>8. Head(rxFifo) \in 0..MaxRx /\ Head(rxFifo) = 0 + Len(out) + 1 /\ 0 \in Nat
  BY <1>4, <1>7, Sizes
<1>9. out' \in Seq(0..MaxRx) /\ Len(out') = Len(out) + 1 /\ Consecutive(out', 0)
  <2>1. out' \in Seq(0..MaxRx) /\ Len(out') = Len(out) + 1
    BY <1>1, <1>5, <1>8, AppendProperties
  <2>2. Consecutive(out', 0)
    BY <1>1, <1>5, <1>8, ConsecutiveAppend
  <2> QED
    BY <2>1, <2>2
<1>10. RxOK'
  <2>1. RxTypes'
    <3>1. Len(rxFifo') <= FifoLen
      BY <1>4, <1>7, Sizes DEF BytesInv, RxOK, RxTypes
    <3> QED
      BY <1>1, <1>7, <1>9, <3>1 DEF BytesInv, RxOK, RxTypes
  <2>2. /\ taken' = Len(out') + InRx' + Len(rxFifo') /\ Len(out') + InRx' = Len(out) + 1
    BY <1>1, <1>3, <1>4, <1>5, <1>7, <1>9
  <2>3. RxInv'
    BY <1>1, <1>2, <1>3, <1>7, <1>9, <2>2 DEF RxInv
  <2> QED
    BY <2>1, <2>3 DEF RxOK
<1>11. txFifo \in Seq(0..MaxRx + MaxTx) /\ Carries(txFifo, Len(sent), put)
  <2>1. Moved = put
    BY <1>3, <1>4, BytesFacts
  <2> QED
    BY <2>1 DEF BytesInv, TxOK, TxTypes, TxInv
<1>12. put + 1 \in 0..MaxRx + MaxTx /\ put + 1 \in Nat
  BY <1>2, <1>4, <1>5, <1>6, <1>7, Sizes
<1>13. txFifo' \in Seq(0..MaxRx + MaxTx) /\ Len(txFifo') = Len(txFifo) + 1
       /\ Carries(txFifo', Len(sent), put + 1)
  <2>1. txFifo' \in Seq(0..MaxRx + MaxTx) /\ Len(txFifo') = Len(txFifo) + 1
    BY <1>1, <1>11, <1>12, AppendProperties
  <2>2. Carries(txFifo', Len(sent), put + 1)
    BY <1>1, <1>4, <1>11, <1>12, CarriesAppend
  <2> QED
    BY <2>1, <2>2
<1>14. TxOK'
  <2>1. TxTypes'
    <3>1. Len(txFifo') <= FifoLen
      BY <1>1, <1>4, <1>13, Sizes
    <3> QED
      BY <1>1, <1>12, <1>13, <3>1 DEF BytesInv, TxOK, TxTypes
  <2>2. Moved' = put + 1
    BY <1>1, <1>3, <1>4 DEF Moved
  <2>3. TxInv'
    BY <1>1, <1>3, <1>13, <2>2 DEF BytesInv, TxOK, TxInv
  <2> QED
    BY <2>1, <2>3 DEF TxOK
<1>15. TaskOK'
  <2>1. cnt' \in 0..Len(rxFifo') /\ cnt' \in 0..FifoLen + MaxChunk /\ put' <= MaxTx + Len(out')
    BY <1>1, <1>2, <1>4, <1>7, <1>9, Sizes DEF BytesInv, TaskOK, TaskTypes
  <2> QED
    BY <1>1, <1>2, <2>1 DEF BytesInv, TaskOK, TaskTypes, TaskInv
<1>16. Len(out') <= taken
  BY <1>4, <1>5, <1>6, <1>7, <1>9
<1> QED
  BY <1>1, <1>9, <1>10, <1>14, <1>15, <1>16 DEF BytesInv

LEMMA EchoedBytes ==
  ASSUME BytesInv, Echoed
  PROVE  BytesInv' /\ UNCHANGED <<taken, out, put, sent>>
<1>1. UNCHANGED <<buffered, rxFifo, txFifo, ena, events, cnt, noWait, op, ena0, pRx, pTx,
                  taken, out, put, sent, direct>>
      /\ raw' \subseteq raw /\ pc' = "rxon"
  BY DEF Echoed, rxHist, txHist
<1>2. RxOK' /\ TxOK'
  BY <1>1, RxSame, TxSame DEF BytesInv
<1>3. TaskOK'
  BY <1>1 DEF BytesInv, TaskOK, TaskTypes, TaskInv
<1> QED
  BY <1>1, <1>2, <1>3 DEF BytesInv

(* The receive ring buffer, filled ...                                     *)
LEMMA RxBuffEnqBytes ==
  ASSUME BytesInv, RxBuffEnq
  PROVE  BytesInv' /\ UNCHANGED <<taken, out, put, sent>>
<1> DEFINE f == [i \in Index |->
                   LET k == (i + BuffSize - pRx.pInPos) % BuffSize
                   IN IF k < cnt THEN rxFifo[k + 1] ELSE pRx.bytes[i]]
           before == Len(out)
           h == Held(pRx)
           l == Len(rxFifo)
<1>1. /\ pc = "enq" /\ rxFifo' = SubSeq(rxFifo, cnt + 1, Len(rxFifo)) /\ cnt' = 0
      /\ pc' \in {"rxon", "idle"}
      /\ UNCHANGED <<buffered, txFifo, ena, raw, events, noWait, op, ena0, pTx,
                     taken, out, put, sent, direct>>
      /\ pRx' = [bytes |-> f, pInPos |-> (pRx.pInPos + cnt) % BuffSize,
                 pOutPos |-> pRx.pOutPos, Space |-> pRx.Space - cnt]
  BY DEF RxBuffEnq, rxHist, txHist
<1>2. buffered /\ pRx # NULL /\ cnt \in 0..Len(rxFifo) /\ cnt < pRx.Space
  BY <1>1 DEF BytesInv, TaskOK, TaskInv
<1>3. /\ pRx \in Buffer /\ InRx = Held(pRx) /\ Holds(pRx, before) /\ before \in Nat
      /\ Held(pRx) \in 0..BuffSize /\ pRx.Space \in 0..BuffSize /\ Len(rxFifo) \in Nat
      /\ pRx.pInPos \in Index /\ pRx.bytes \in [Index -> 0..MaxRx + MaxTx] /\ taken \in Nat
  BY <1>2, BytesFacts, BufferParts DEF BytesInv, RxOK, RxInv
<1>4. cnt \in 0..pRx.Space /\ cnt \in Nat /\ Held(pRx) \in Nat
  BY <1>2, <1>3, Sizes
<1>5. /\ rxFifo \in Seq(1..MaxRx) /\ Consecutive(rxFifo, before + Held(pRx))
      /\ Len(rxFifo) <= FifoLen /\ taken = before + Held(pRx) + Len(rxFifo)
  BY <1>3 DEF BytesInv, RxOK, RxTypes, RxInv
<1>50. before \in Nat /\ h \in Nat /\ l \in Nat /\ cnt \in Nat /\ cnt <= l /\ taken = before + h + l
       /\ l <= FifoLen
  BY <1>2, <1>3, <1>4, <1>5
<1>6. ASSUME NEW i \in Index
      PROVE  /\ f[i] = LET k == (i + BuffSize - pRx.pInPos) % BuffSize
                       IN IF k < cnt THEN before + Held(pRx) + k + 1 ELSE pRx.bytes[i]
             /\ f[i] \in 0..MaxRx + MaxTx
  <2> DEFINE k == (i + BuffSize - pRx.pInPos) % BuffSize
  <2>1. k \in Nat
    <3>1. i + BuffSize - pRx.pInPos \in Int /\ BuffSize \in Nat \ {0}
      BY <1>3, Sizes DEF Index
    <3> QED
      BY <3>1
  <2>2. f[i] = IF k < cnt THEN rxFifo[k + 1] ELSE pRx.bytes[i]
    OBVIOUS
  <2> HIDE DEF k, f
  <2>3. CASE k < cnt
    <3>1. k + 1 \in 1..Len(rxFifo)
      BY <1>2, <1>3, <1>4, <2>1, <2>3
    <3>2. rxFifo[k + 1] = (before + Held(pRx)) + (k + 1) /\ rxFifo[k + 1] \in 1..MaxRx
      BY <1>5, <3>1, ElementOfSeq DEF Consecutive
    <3>3. f[i] = before + Held(pRx) + k + 1
      <4>1. f[i] = (before + h) + (k + 1)
        BY <2>2, <2>3, <3>2
      <4> HIDE DEF before, h
      <4>2. (before + h) + (k + 1) = before + h + k + 1
        BY <1>50, <2>1
      <4> QED
        BY <4>1, <4>2 DEF h
    <3>4. f[i] \in 0..MaxRx + MaxTx
      BY <2>2, <2>3, <3>2, Sizes
    <3> QED
      BY <2>3, <3>3, <3>4 DEF k
  <2>4. CASE ~(k < cnt)
    BY <1>3, <2>2, <2>4 DEF k
  <2> QED
    BY <2>3, <2>4
<1>7. f \in [Index -> 0..MaxRx + MaxTx]
  BY <1>6
<1> HIDE DEF f, before
<1>8. Holds(pRx', before) /\ Held(pRx') = Held(pRx) + cnt /\ pRx'.Space = pRx.Space - cnt
  <2> DEFINE d == pRx'
  <2>1. d = [bytes |-> f, pInPos |-> (pRx.pInPos + cnt) % BuffSize,
             pOutPos |-> pRx.pOutPos, Space |-> pRx.Space - cnt]
    BY <1>1
  <2> HIDE DEF d
  <2>2. \A i \in Index : f[i] = LET k == (i + BuffSize - pRx.pInPos) % BuffSize
                                IN IF k < cnt THEN before + Held(pRx) + k + 1 ELSE pRx.bytes[i]
    BY <1>6
  <2>3. Holds(d, before) /\ Held(d) = Held(pRx) + cnt /\ d.Space = pRx.Space - cnt
    BY <1>3, <1>4, <1>7, <2>1, <2>2, RingPut
  <2> QED
    BY <2>3 DEF d
<1>9. rxFifo' \in Seq(1..MaxRx) /\ Len(rxFifo') = Len(rxFifo) - cnt
      /\ Consecutive(rxFifo', (before + Held(pRx)) + cnt)
  <2>1. before + Held(pRx) \in Nat
    BY <1>3, <1>4
  <2> QED
    BY <1>1, <1>2, <1>5, <2>1, ConsecutiveRest
<1>10. pRx' \in Buffer /\ pRx' # NULL /\ InRx' = Held(pRx) + cnt
  BY <1>8, BufferParts DEF Holds, InRx
<1>11. /\ taken = before + (Held(pRx) + cnt) + Len(rxFifo')
       /\ (before + Held(pRx)) + cnt = before + (Held(pRx) + cnt)
       /\ Len(rxFifo') <= FifoLen /\ pRx.Space - cnt > 0
  <2> DEFINE sp == pRx.Space
  <2>1. sp \in Int /\ cnt < sp
    BY <1>2, <1>3
  <2>2. Len(rxFifo') = l - cnt /\ FifoLen \in Nat
    BY <1>9, Sizes
  <2> HIDE DEF sp, l, h
  <2>3. /\ taken = before + (h + cnt) + (l - cnt) /\ (before + h) + cnt = before + (h + cnt)
        /\ l - cnt <= FifoLen /\ sp - cnt > 0
    BY <1>50, <2>1, <2>2
  <2> QED
    BY <2>2, <2>3 DEF sp, h
<1>12. RxOK'
  <2>1. RxTypes'
    BY <1>1, <1>9, <1>10, <1>11 DEF BytesInv, RxOK, RxTypes
  <2>2. RxInv'
    BY <1>1, <1>2, <1>8, <1>9, <1>10, <1>11 DEF BytesInv, RxOK, RxInv, before
  <2> QED
    BY <2>1, <2>2 DEF RxOK
<1>13. TxOK'
  BY <1>1, TxSame DEF BytesInv
<1>14. TaskOK'
  <2>1. 0 \in 0..FifoLen + MaxChunk
    BY Sizes
  <2> QED
    BY <1>1, <2>1 DEF BytesInv, TaskOK, TaskTypes, TaskInv
<1> QED
  BY <1>1, <1>12, <1>13, <1>14 DEF BytesInv

(* ... and read.  A straight read ends before the end of the buffer:       *)
(* what it holds does not go round, or there would be no room left.        *)
LEMMA StraightRead ==
  ASSUME NEW o \in Index, NEW h \in 0..BuffSize, h < BuffSize, NEW n \in 0..h,
         o <= Wrap(o + h)
  PROVE  o + n = Wrap(o + n)
<1>1. BuffSize \in Nat \ {0} /\ o \in 0..BuffSize - 1
  BY Sizes DEF Index
<1> QED
  BY <1>1 DEF Wrap

LEMMA RxBuffDeqBytes ==
  ASSUME BytesInv, NEW m \in 0..MaxChunk, RxBuffDeq(m)
  PROVE  BytesInv' /\ UNCHANGED <<taken, put, sent>>
           /\ (out' = out \/ (Len(out') > Len(out) /\ Len(out') <= taken))
<1> DEFINE n == IF m > Held(pRx) THEN Held(pRx) ELSE m
           straight == pRx.pOutPos <= pRx.pInPos
           pos(i) == IF straight THEN pRx.pOutPos + i ELSE (pRx.pOutPos + i) % BuffSize
           At(i) == IF i \in Index THEN pRx.bytes[i] ELSE 0
           t == [i \in 1..n |-> At(pos(i - 1))]
           before == Len(out)
           o == pRx.pOutPos
           h == Held(pRx)
<1>1. /\ buffered /\ pRx # NULL /\ pc = "idle" /\ out' = out \o t
      /\ pRx' = [pRx EXCEPT !.pOutPos = pos(n), !.Space = @ + n]
      /\ pc' \in {"rxon", "idle"}
      /\ UNCHANGED <<buffered, rxFifo, txFifo, ena, raw, events, cnt, noWait, op, ena0, pTx,
                     taken, put, sent, direct>>
  BY DEF RxBuffDeq, txHist
<1>2. /\ pRx \in Buffer /\ InRx = h /\ Holds(pRx, before) /\ before \in Nat
      /\ h \in 0..BuffSize /\ pRx.Space \in 0..BuffSize /\ h = BuffSize - pRx.Space
      /\ Len(rxFifo) \in Nat /\ o \in Index /\ taken \in Nat /\ pRx.Space > 0
      /\ pRx.pInPos = Wrap(o + h)
  BY <1>1, BytesFacts, BufferParts DEF BytesInv, RxOK, RxInv, Holds
<1>3. n \in 0..h /\ n \in Nat /\ h \in Nat /\ h < BuffSize
  BY <1>2, Sizes
<1>40. BuffSize \in Nat \ {0} /\ h <= BuffSize
  BY <1>2, Sizes
<1> HIDE DEF n, h
<1>4. ASSUME NEW i \in 0..n PROVE pos(i) = Wrap(o + i)
  <2>1. i \in 0..h /\ i \in 0..BuffSize
    BY <1>3, <1>40
  <2>2. CASE straight
    BY <1>2, <1>3, <2>1, <2>2, StraightRead
  <2>3. CASE ~straight
    BY <1>2, <2>1, <2>3, WrapIn
  <2> QED
    BY <2>2, <2>3
<1>5. pRx' = Without(pRx, n)
  <2>1. pos(n) = Wrap(pRx.pOutPos + n)
    BY <1>3, <1>4
  <2> HIDE DEF pos
  <2> QED
    BY <1>1, <2>1 DEF Without
<1>6. /\ Holds(pRx', before + n) /\ Held(pRx') = h - n /\ pRx'.Space = pRx.Space + n
      /\ \A i \in 1..n : /\ Wrap(o + (i - 1)) \in Index
                         /\ pRx.bytes[Wrap(o + (i - 1))] = before + i
  <2> HIDE DEF before
  <2> QED
    BY <1>2, <1>3, <1>5, RingGet DEF h
<1>7. taken = before + h + Len(rxFifo) /\ taken \in 0..MaxRx
  BY <1>2 DEF BytesInv, RxOK, RxTypes, RxInv
<1>8. ASSUME NEW i \in 1..n
      PROVE  t[i] = before + i /\ t[i] \in 0..MaxRx
  <2>1. i - 1 \in 0..n /\ i \in Nat /\ i >= 1 /\ i <= h
    BY <1>3
  <2>2. t[i] = At(pos(i - 1))
    OBVIOUS
  <2>3. t[i] = before + i
    BY <1>4, <1>6, <2>1, <2>2
  <2> HIDE DEF t, before, h
  <2>4. before + i \in 0..MaxRx
    <3>1. before \in Nat /\ h \in Nat /\ Len(rxFifo) \in Nat /\ MaxRx \in Nat
      BY <1>2, <1>3, Sizes
    <3> QED
      BY <1>7, <2>1, <3>1
  <2> QED
    BY <2>3, <2>4
<1>9. t \in Seq(0..MaxRx) /\ Len(t) = n
  <2>1. t = [i \in 1..n |-> t[i]]
    OBVIOUS
  <2> HIDE DEF t
  <2>2. t \in [1..n -> 0..MaxRx]
    BY <1>8, <2>1
  <2> QED
    BY <1>3, <2>2, FunctionSeq
<1>10. Consecutive(t, before)
  BY <1>8, <1>9 DEF Consecutive
<1> HIDE DEF t, pos, At, straight, o, h, before
<1>11. out \in Seq(0..MaxRx) /\ Consecutive(out, 0) /\ before = 0 + Len(out)
  BY <1>2 DEF BytesInv, RxOK, RxTypes, RxInv, before
<1>12. out' \in Seq(0..MaxRx) /\ Len(out') = before + n
  BY <1>1, <1>9, <1>11, ConcatProperties DEF before
<1>13. Consecutive(out', 0)
  BY <1>1, <1>9, <1>10, <1>11, ConsecutiveCat
<1>14. pRx' \in Buffer /\ pRx' # NULL /\ InRx' = h - n
  BY <1>6, BufferParts DEF Holds, InRx
<1>15. /\ taken = (before + n) + (h - n) + Len(rxFifo) /\ before + h = (before + n) + (h - n)
       /\ pRx.Space + n > 0
  <2> DEFINE sp == pRx.Space
  <2>1. sp \in Nat /\ sp > 0 /\ before \in Nat /\ Len(rxFifo) \in Nat
    BY <1>2, Sizes
  <2> HIDE DEF sp
  <2>2. /\ taken = (before + n) + (h - n) + Len(rxFifo) /\ before + h = (before + n) + (h - n)
        /\ sp + n > 0
    BY <1>3, <1>7, <2>1
  <2> QED
    BY <2>2 DEF sp
<1>16. RxOK'
  <2>1. RxTypes'
    BY <1>1, <1>12, <1>14 DEF BytesInv, RxOK, RxTypes
  <2>2. RxInv'
    <3>1. Consecutive(rxFifo, before + h)
      BY <1>2 DEF BytesInv, RxOK, RxInv, before, h
    <3> QED
      BY <1>1, <1>6, <1>12, <1>13, <1>14, <1>15, <3>1 DEF RxInv
  <2> QED
    BY <2>1, <2>2 DEF RxOK
<1>17. TxOK'
  BY <1>1, TxSame DEF BytesInv
<1>18. TaskOK'
  <2>1. put <= MaxTx + Len(out')
    BY <1>2, <1>3, <1>12, BytesFacts, Sizes DEF BytesInv, TaskOK, TaskInv, before
  <2> QED
    BY <1>1, <2>1 DEF BytesInv, TaskOK, TaskTypes, TaskInv
<1>19. out' = out \/ (Len(out') > Len(out) /\ Len(out') <= taken)
  <2>1. CASE n = 0
    <3>1. t = <<>>
      BY <1>9, <2>1, EmptySeq
    <3> QED
      BY <1>1, <1>11, <3>1, ConcatEmptySeq
  <2>2. CASE n > 0
    <3>1. before \in Nat /\ Len(rxFifo) \in Nat /\ before + n > before /\ before + n <= taken
      <4>1. before \in Nat /\ Len(rxFifo) \in Nat
        BY <1>2
      <4> QED
        BY <1>3, <1>7, <2>2, <4>1
    <3> QED
      BY <1>12, <3>1 DEF before
  <2> QED
    BY <1>3, <2>1, <2>2
<1> QED
  BY <1>1, <1>16, <1>17, <1>18, <1>19 DEF BytesInv

-----------------------------------------------------------------------------
(* Callers that send.                                                      *)
LEMMA NewBufferHolds ==
  ASSUME NEW before \in Nat
  PROVE  /\ NewBuffer \in Buffer /\ Held(NewBuffer) = 0 /\ NewBuffer.Space = BuffSize
         /\ Holds(NewBuffer, before)
<1>1. /\ NewBuffer \in Buffer /\ NewBuffer.Space = BuffSize
      /\ NewBuffer.pInPos = 0 /\ NewBuffer.pOutPos = 0
  BY Sizes DEF NewBuffer, Buffer, Index
<1>2. Held(NewBuffer) = 0
  BY <1>1, Sizes DEF Held
<1> QED
  BY <1>1, <1>2, Sizes DEF Holds, Wrap

LEMMA TxCopyBytes ==
  ASSUME BytesInv, TxCopy
  PROVE  BytesInv' /\ UNCHANGED <<taken, out, sent>>
           /\ (put' = put \/ put' \in put + 1 .. put + BuffSize)
<1>1. /\ pc = "put" /\ pc' = "txon" /\ cnt' = 0
      /\ UNCHANGED <<buffered, rxFifo, txFifo, ena, raw, events, noWait, op, ena0, pRx,
                     taken, out, sent, direct>>
  BY DEF TxCopy, rxHist
<1>2. /\ buffered /\ cnt <= MaxChunk /\ put + cnt <= MaxTx /\ cnt \in Nat /\ put \in Nat
      /\ 0 \in 0..FifoLen + MaxChunk
  BY <1>1, BytesFacts, Sizes DEF BytesInv, TaskOK, TaskTypes, TaskInv
<1>3. RxOK'
  BY <1>1, <1>2, RxSame DEF BytesInv
<1>4. CASE UNCHANGED <<pTx, put>>
  <2>1. TxOK'
    BY <1>1, <1>4, TxSame DEF BytesInv
  <2>2. TaskOK'
    BY <1>1, <1>2, <1>4 DEF BytesInv, TaskOK, TaskTypes, TaskInv
  <2> QED
    BY <1>1, <1>3, <1>4, <2>1, <2>2 DEF BytesInv
<1>5. CASE ~UNCHANGED <<pTx, put>>
  <2> DEFINE b == IF pTx = NULL THEN NewBuffer ELSE pTx
             before == Moved
             f == [i \in Index |-> LET k == (i + BuffSize - b.pInPos) % BuffSize
                                   IN IF k < cnt THEN put + k + 1 ELSE b.bytes[i]]
             h == Held(b)
  <2>1. (pTx = NULL \/ cnt <= b.Space) /\ pTx' = BufCpy(b) /\ put' = put + cnt
    BY <1>5 DEF TxCopy
  <2>2. before \in Nat
    BY BytesFacts
  <2>3. Holds(b, before) /\ h = InTx /\ b.Space \in 0..BuffSize /\ cnt <= b.Space
        /\ h \in Nat
    <3>1. CASE pTx = NULL
      <4>1. /\ NewBuffer \in Buffer /\ Held(NewBuffer) = 0 /\ NewBuffer.Space = BuffSize
            /\ Holds(NewBuffer, before)
        BY <2>2, NewBufferHolds
      <4>2. b = NewBuffer /\ InTx = 0
        BY <3>1 DEF InTx
      <4>3. cnt <= BuffSize /\ BuffSize \in 0..BuffSize
        BY <1>2, Sizes
      <4> HIDE DEF b, before
      <4> QED
        BY <4>1, <4>2, <4>3
    <3>2. CASE pTx # NULL
      <4>1. b = pTx /\ pTx \in Buffer /\ InTx = Held(pTx)
        BY <3>2, BytesFacts
      <4>2. cnt <= b.Space
        BY <2>1, <3>2
      <4>3. Holds(pTx, before)
        BY <3>2 DEF BytesInv, TxOK, TxInv
      <4>4. pTx.Space \in 0..BuffSize /\ Held(pTx) \in Nat
        BY <4>1, BufferParts, Sizes
      <4> HIDE DEF b, before
      <4> QED
        BY <4>1, <4>2, <4>3, <4>4
    <3> QED
      BY <3>1, <3>2
  <2>4. put = before + h
    BY <2>3, BytesFacts
  <2>5. pTx' = [bytes |-> f, pInPos |-> (b.pInPos + cnt) % BuffSize,
                pOutPos |-> b.pOutPos, Space |-> b.Space - cnt]
    BY <2>1 DEF BufCpy
  <2>6. cnt \in 0..b.Space
    BY <1>2, <2>3, Sizes
  <2>7. b.pInPos \in Index /\ b.bytes \in [Index -> 0..MaxRx + MaxTx]
    <3> HIDE DEF b
    <3> QED
      BY <2>3, BufferParts DEF Holds
  <2>8. ASSUME NEW i \in Index
        PROVE  /\ f[i] = LET k == (i + BuffSize - b.pInPos) % BuffSize
                         IN IF k < cnt THEN before + Held(b) + k + 1 ELSE b.bytes[i]
               /\ f[i] \in 0..MaxRx + MaxTx
    <3> DEFINE k == (i + BuffSize - b.pInPos) % BuffSize
    <3>1. k \in Nat
      <4> DEFINE m == i + BuffSize - b.pInPos
      <4>1. m \in Int /\ BuffSize \in Nat \ {0}
        BY <2>7, Sizes DEF Index
      <4> HIDE DEF m
      <4>2. m % BuffSize \in Nat
        BY <4>1
      <4> QED
        BY <4>2 DEF m
    <3>2. f[i] = IF k < cnt THEN put + k + 1 ELSE b.bytes[i]
      OBVIOUS
    <3> HIDE DEF k, f, b, before
    <3>3. CASE k < cnt
      <4>1. put + k + 1 = before + h + k + 1
        BY <2>4
      <4>2. put + k + 1 \in 0..MaxRx + MaxTx
        BY <1>2, <3>1, <3>3, Sizes
      <4> QED
        BY <3>2, <3>3, <4>1, <4>2 DEF k
    <3>4. CASE ~(k < cnt)
      BY <2>7, <3>2, <3>4 DEF k
    <3> QED
      BY <3>3, <3>4
  <2>9. f \in [Index -> 0..MaxRx + MaxTx]
    BY <2>8
  <2>10. Holds(pTx', before) /\ Held(pTx') = h + cnt
    <3> DEFINE d == pTx'
    <3>1. d = [bytes |-> f, pInPos |-> (b.pInPos + cnt) % BuffSize,
               pOutPos |-> b.pOutPos, Space |-> b.Space - cnt]
      BY <2>5
    <3> HIDE DEF d, f, b, before
    <3>2. \A i \in Index : f[i] = LET k == (i + BuffSize - b.pInPos) % BuffSize
                                  IN IF k < cnt THEN before + Held(b) + k + 1 ELSE b.bytes[i]
      BY <2>8
    <3>3. Holds(d, before) /\ Held(d) = Held(b) + cnt
      BY <2>2, <2>3, <2>6, <2>9, <3>1, <3>2, RingPut
    <3> QED
      BY <3>3 DEF d
  <2> HIDE DEF b, f, h
  <2>11. pTx' \in Buffer /\ pTx' # NULL
    BY <2>10, BufferParts DEF Holds
  <2>12. put + cnt - (h + cnt) = before /\ put + cnt \in 0..MaxRx + MaxTx
         /\ put + cnt <= MaxTx + Len(out)
    <3> HIDE DEF before
    <3>1. Len(out) \in Nat
      BY BytesFacts
    <3> QED
      BY <1>2, <2>2, <2>3, <2>4, <3>1, Sizes
  <2>13. TxOK'
    <3>1. TxTypes'
      BY <1>1, <2>1, <2>11, <2>12 DEF BytesInv, TxOK, TxTypes
    <3>2. Moved' = before
      <4>1. InTx' = h + cnt
        BY <2>10, <2>11 DEF InTx
      <4>2. put' - InTx' = before
        <5>1. put' = put + cnt
          BY <2>1
        <5> HIDE DEF before
        <5> QED
          BY <1>2, <2>3, <2>12, <4>1, <5>1
      <4>3. Moved' = put' - InTx'
        BY DEF Moved
      <4> HIDE DEF before
      <4> QED
        BY <4>2, <4>3
    <3>3. TxInv'
      BY <1>1, <2>10, <3>2 DEF BytesInv, TxOK, TxInv
    <3> QED
      BY <3>1, <3>3 DEF TxOK
  <2>14. TaskOK'
    BY <1>1, <1>2, <2>1, <2>12 DEF BytesInv, TaskOK, TaskTypes, TaskInv
  <2>15. put' = put \/ put' \in put + 1 .. put + BuffSize
    BY <1>2, <2>1, Sizes
  <2> QED
    BY <1>1, <1>3, <2>13, <2>14, <2>15 DEF BytesInv
<1> QED
  BY <1>4, <1>5

LEMMA SendByteBytes ==
  ASSUME BytesInv, SendByte
  PROVE  BytesInv' /\ UNCHANGED <<taken, out, put, sent>>
<1>1. /\ pc = "send" /\ cnt > 0
      /\ UNCHANGED <<buffered, rxFifo, txFifo, ena, raw, events, noWait, op, ena0, pRx, pTx,
                     taken, out, put, sent, direct>>
      /\ \/ Len(txFifo) < TxRoom /\ pc' = "write" /\ cnt' = cnt
         \/ cnt' = cnt - 1 /\ pc' = "send"
  BY DEF SendByte, HasRoom, rxHist, txHist
<1>2. /\ ~buffered => put + cnt <= MaxTx + Len(out)
      /\ cnt \in 0..FifoLen + MaxChunk
  BY <1>1 DEF BytesInv, TaskOK, TaskTypes, TaskInv
<1>3. /\ cnt' \in 0..FifoLen + MaxChunk
      /\ ~buffered => put + cnt' <= MaxTx + Len(out)
      /\ pc' = "write" => cnt' > 0 /\ Len(txFifo) < FifoLen
  <2>1. put \in Nat /\ Len(out) \in Nat /\ Len(txFifo) \in Nat
    BY BytesFacts
  <2> QED
    BY <1>1, <1>2, <2>1, Sizes
<1>4. RxOK' /\ TxOK'
  BY <1>1, RxSame, TxSame DEF BytesInv
<1>5. TaskOK'
  BY <1>1, <1>3 DEF BytesInv, TaskOK, TaskTypes, TaskInv
<1> QED
  BY <1>1, <1>4, <1>5 DEF BytesInv

LEMMA SendWriteBytes ==
  ASSUME BytesInv, SendWrite
  PROVE  BytesInv' /\ UNCHANGED <<taken, out, sent>> /\ put' \in {put, put + 1}
<1> DEFINE e == IF buffered THEN Foreign ELSE put + 1
<1>1. /\ pc = "write" /\ pc' = "send" /\ cnt' = cnt - 1
      /\ put' = (IF buffered THEN put ELSE put + 1)
      /\ txFifo' = (IF Len(txFifo) = FifoLen THEN txFifo ELSE Append(txFifo, e))
      /\ UNCHANGED <<buffered, rxFifo, ena, raw, events, noWait, op, ena0, pRx, pTx,
                     taken, out, sent, direct>>
  BY DEF SendWrite, rxHist
<1>2. /\ cnt > 0 /\ cnt \in 0..FifoLen + MaxChunk /\ put <= MaxTx + Len(out)
      /\ ~buffered => put + cnt <= MaxTx + Len(out) /\ Len(txFifo) < FifoLen
  BY <1>1 DEF BytesInv, TaskOK, TaskTypes, TaskInv
<1>3. /\ Len(txFifo) \in Nat /\ Len(sent) \in Nat /\ Len(out) \in Nat /\ put \in Nat
      /\ Len(out) <= taken /\ taken \in 0..MaxRx /\ Moved \in Nat /\ put = Moved + InTx
      /\ ~buffered => InTx = 0 /\ Moved = put
  BY BytesFacts DEF BytesInv, RxOK, RxTypes
<1>4. /\ txFifo \in Seq(0..MaxRx + MaxTx) /\ Len(txFifo) <= FifoLen
      /\ Carries(txFifo, Len(sent), Moved) /\ put \in 0..MaxRx + MaxTx
  BY DEF BytesInv, TxOK, TxTypes, TxInv
<1>5. /\ cnt' \in 0..FifoLen + MaxChunk /\ put' <= MaxTx + Len(out)
      /\ ~buffered => put' + cnt' <= MaxTx + Len(out)
      /\ put' \in 0..MaxRx + MaxTx /\ put' \in Nat /\ e \in 0..MaxRx + MaxTx
  BY <1>1, <1>2, <1>3, <1>4, Sizes DEF Foreign
<1>6. Moved' = (IF buffered THEN Moved ELSE Moved + 1) /\ Moved' \in Nat /\ InTx' = InTx
  BY <1>1, <1>3 DEF Moved, InTx
<1>7. (e = Foreign /\ Moved' = Moved) \/ (e = Moved' /\ Moved' = Moved + 1)
  BY <1>3, <1>6
<1> HIDE DEF e
<1>8. /\ txFifo' \in Seq(0..MaxRx + MaxTx) /\ Len(txFifo') <= FifoLen
      /\ Carries(txFifo', Len(sent), Moved')
  <2>1. CASE Len(txFifo) = FifoLen
    <3>1. buffered
      BY <1>2, <1>3, <2>1, Sizes
    <3> QED
      BY <1>1, <1>4, <1>6, <2>1, <3>1
  <2>2. CASE Len(txFifo) # FifoLen
    <3>1. txFifo' = Append(txFifo, e)
      BY <1>1, <2>2
    <3>2. Len(Append(txFifo, e)) = Len(txFifo) + 1 /\ Append(txFifo, e) \in Seq(0..MaxRx + MaxTx)
      BY <1>4, <1>5, AppendProperties
    <3>3. Carries(Append(txFifo, e), Len(sent), Moved')
      BY <1>3, <1>4, <1>5, <1>6, <1>7, CarriesAppend
    <3> QED
      BY <1>3, <1>4, <2>2, <3>1, <3>2, <3>3, Sizes
  <2> QED
    BY <2>1, <2>2
<1>9. TxOK'
  <2>1. TxTypes'
    BY <1>1, <1>5, <1>8 DEF BytesInv, TxOK, TxTypes
  <2>2. pTx # NULL => buffered
    BY BytesFacts
  <2>3. TxInv'
    BY <1>1, <1>6, <1>8, <2>2 DEF BytesInv, TxOK, TxInv
  <2> QED
    BY <2>1, <2>3 DEF TxOK
<1>10. RxOK'
  BY <1>1, RxSame DEF BytesInv
<1>11. TaskOK'
  BY <1>1, <1>5 DEF BytesInv, TaskOK, TaskTypes, TaskInv
<1> QED
  BY <1>1, <1>3, <1>9, <1>10, <1>11 DEF BytesInv

(* A call that begins or ends, and the two halves of a read-modify-write.  *)
LEMMA CallBytes ==
  ASSUME BytesInv,
         (\E n \in 0..MaxChunk : TxBuffEnq(n) \/ \E w \in BOOLEAN : Send(n, w))
           \/ SendDone \/ LoadEna \/ StoreEna \/ RxBuffDeqNull
  PROVE  BytesInv' /\ UNCHANGED <<taken, out, put, sent>>
<1>1. UNCHANGED <<buffered, rxFifo, txFifo, raw, events, pRx, pTx, taken, out, put, sent>>
  BY DEF TxBuffEnq, Send, SendDone, LoadEna, StoreEna, RxBuffDeqNull, rxHist, txHist
<1>2. RxOK' /\ TxOK'
  <2>1. direct' \in 0..MaxDirect
    <3>1. direct \in 0..MaxDirect
      BY DEF BytesInv, TxOK, TxTypes
    <3>2. direct' = direct \/ \E n \in 0..MaxChunk : direct' = direct + n /\ direct + n <= MaxDirect
      BY Zenon DEF TxBuffEnq, Send, SendDone, LoadEna, StoreEna, RxBuffDeqNull, txHist
    <3> QED
      BY <3>1, <3>2, Sizes
  <2> QED
    BY <1>1, <2>1, RxSame DEF BytesInv, TxOK, TxTypes, TxInv, InTx, Moved
<1>3. ASSUME NEW n \in 0..MaxChunk, TxBuffEnq(n) \/ \E w \in BOOLEAN : Send(n, w)
      PROVE  TaskOK'
  <2>1. n \in 0..FifoLen + MaxChunk /\ n <= MaxChunk
    BY Sizes
  <2>2. put + n <= MaxTx => put + n <= MaxTx + Len(out)
    BY BytesFacts, Sizes
  <2>3. CASE TxBuffEnq(n)
    BY <1>1, <2>1, <2>2, <2>3 DEF TxBuffEnq, BytesInv, TaskOK, TaskTypes, TaskInv
  <2>4. ASSUME NEW w \in BOOLEAN, Send(n, w) PROVE TaskOK'
    BY <1>1, <2>1, <2>2, <2>4 DEF Send, BytesInv, TaskOK, TaskTypes, TaskInv
  <2> QED
    BY <1>3, <2>3, <2>4
<1>7. CASE RxBuffDeqNull
  <2>1. pc' = "crash" /\ UNCHANGED <<ena, cnt, noWait, op, ena0>>
    BY <1>7 DEF RxBuffDeqNull
  <2>2. TaskTypes'
    BY <1>1, <2>1 DEF BytesInv, TaskOK, TaskTypes
  <2>3. TaskInv'
    BY <1>1, <2>1 DEF BytesInv, TaskOK, TaskInv
  <2> QED
    BY <1>1, <1>2, <2>2, <2>3 DEF BytesInv, TaskOK
<1>4. CASE SendDone
  <2>1. TaskTypes'
    BY <1>1, <1>4 DEF SendDone, BytesInv, TaskOK, TaskTypes
  <2>2. TaskInv'
    BY <1>1, <1>4 DEF SendDone, BytesInv, TaskOK, TaskTypes, TaskInv
  <2> QED
    BY <1>1, <1>2, <2>1, <2>2 DEF BytesInv, TaskOK
<1>5. CASE LoadEna
  <2>1. TaskTypes'
    BY <1>1, <1>5 DEF LoadEna, BytesInv, TaskOK, TaskTypes
  <2>2. TaskInv'
    BY <1>1, <1>5 DEF LoadEna, BytesInv, TaskOK, TaskTypes, TaskInv
  <2> QED
    BY <1>1, <1>2, <2>1, <2>2 DEF BytesInv, TaskOK
<1>6. CASE StoreEna
  <2>1. ena' \subseteq Interrupts
    BY <1>6 DEF StoreEna, BytesInv, TaskOK, TaskTypes, Interrupts
  <2>2. /\ pc = "store" /\ pc' \in {"put", "idle"} /\ (pc' = "put" => op = "txoff")
        /\ op' = "rxon" /\ ena0' = {} /\ cnt' = cnt /\ noWait' = noWait
    BY <1>6 DEF StoreEna
  <2>3. TaskTypes'
    BY <1>1, <2>1, <2>2 DEF BytesInv, TaskOK, TaskTypes
  <2>4. TaskInv'
    BY <1>1, <2>2 DEF BytesInv, TaskOK, TaskInv
  <2> QED
    BY <1>1, <1>2, <2>3, <2>4 DEF BytesInv, TaskOK
<1> QED
  BY <1>1, <1>2, <1>3, <1>4, <1>5, <1>6, <1>7 DEF BytesInv

-----------------------------------------------------------------------------
LEMMA NextBytes ==
  ASSUME BytesInv, [Next]_vars
  PROVE  BytesInv'
<1>1. CASE UNCHANGED vars
  BY <1>1, RxSame, TxSame, TaskSame DEF vars, rxHist, txHist, BytesInv, TaskOK, TaskTypes
<1>2. CASE \E m \in 0..MaxChunk : RxBuffDeq(m) \/ TxBuffEnq(m) \/ \E w \in BOOLEAN : Send(m, w)
  BY <1>2, RxBuffDeqBytes, CallBytes
<1> QED
  BY <1>1, <1>2, LineInBytes, LineOutBytes, RaiseBytes, IsrRxBytes, IsrTxBytes, RecvTaskBytes,
     EchoBytes, EchoedBytes, RxBuffEnqBytes, TxCopyBytes, SendByteBytes,
     SendWriteBytes, CallBytes
     DEF Next, TaskStep, Isr

LEMMA BytesInvariant == Spec => []BytesInv
  BY InitBytes, NextBytes, PTL DEF Spec

(* The FIFOs never hold more than they can, and a position in a ring       *)
(* buffer never leaves it, whichever way the handler comes between         *)
(* (uart.c:423-524).                                                       *)
THEOREM UartTypeCorrect == Spec => []TypeOK
<1>1. BytesInv => TypeOK
  BY DEF BytesInv, RxOK, TxOK, TaskOK, RxTypes, TxTypes, TaskTypes, TypeOK
<1> QED
  BY <1>1, BytesInvariant, PTL

(* A run of bytes from the first one on.                                   *)
LEMMA FirstBytesAre ==
  ASSUME NEW S, NEW s \in Seq(S), Consecutive(s, 0)
  PROVE  Len(s) \in Nat /\ s = [i \in 1..Len(s) |-> i]
<1>1. Len(s) \in Nat /\ s \in [1..Len(s) -> S]
  BY LenProperties
<1>2. \A i \in 1..Len(s) : s[i] = i
  BY <1>1 DEF Consecutive
<1> QED
  BY <1>1, <1>2

(* What the receive FIFO takes is echoed, or read from the ring buffer, in *)
(* order: nothing is lost, repeated or made up on the way (uart.c:282-307, *)
(* 461-524).                                                               *)
THEOREM ReceivedInOrder == Spec => RxStream!Init /\ [][RxStream!Next]_<<taken, out>>
<1>1. Init => RxStream!Init
  BY DEF Init, RxStream!Init
<1>2. ASSUME BytesInv, BytesInv', [Next]_vars PROVE [RxStream!Next]_<<taken, out>>
  <2>1. out' = [i \in 1..Len(out') |-> i] /\ Len(out') \in Nat
    BY <1>2, FirstBytesAre DEF BytesInv, RxOK, RxTypes, RxInv
  <2>2. ASSUME Len(out') > Len(out), Len(out') <= taken, taken' = taken
        PROVE  RxStream!Next
    <3>1. Len(out') \in Len(out) + 1 .. taken
      BY <1>2, <2>1, <2>2, BytesFacts
    <3>2. out' = RxStream!FirstBytes(Len(out'))
      BY <2>1 DEF RxStream!FirstBytes
    <3> QED
      BY <2>2, <3>1, <3>2 DEF RxStream!Next, RxStream!Take
  <2>3. CASE LineIn
    <3>1. taken' \in taken + 1 .. taken + 1 /\ out' = out
      BY <1>2, <2>3, LineInBytes, BytesFacts
    <3> QED
      BY <3>1 DEF RxStream!Next, RxStream!Put
  <2>4. CASE Echo
    <3>1. taken' = taken /\ Len(out') > Len(out) /\ Len(out') <= taken
      BY <1>2, <2>4, EchoBytes, BytesFacts
    <3> QED
      BY <2>2, <3>1
  <2>5. ASSUME NEW m \in 0..MaxChunk, RxBuffDeq(m) PROVE [RxStream!Next]_<<taken, out>>
    BY <1>2, <2>2, <2>5, RxBuffDeqBytes
  <2>6. CASE UNCHANGED vars
    BY <2>6 DEF vars, rxHist
  <2>7. CASE LineOut \/ Isr \/ RecvTask \/ \E i \in Interrupts : Raise(i)
    BY <1>2, <2>7, LineOutBytes, IsrRxBytes, IsrTxBytes, RecvTaskBytes, RaiseBytes DEF Isr
  <2>8. CASE Echoed \/ RxBuffEnq \/ TxCopy \/ SendByte \/ SendWrite
    BY <1>2, <2>8, EchoedBytes, RxBuffEnqBytes, TxCopyBytes, SendByteBytes, SendWriteBytes
  <2>9. CASE (\E n \in 0..MaxChunk : TxBuffEnq(n) \/ \E w \in BOOLEAN : Send(n, w))
               \/ SendDone \/ LoadEna \/ StoreEna \/ RxBuffDeqNull
    BY <1>2, <2>9, CallBytes
  <2> QED
    BY <1>2, <2>3, <2>4, <2>5, <2>6, <2>7, <2>8, <2>9 DEF Next, TaskStep
<1> QED
  BY <1>1, <1>2, BytesInvariant, PTL DEF Spec

(* What is accepted for sending leaves on the line in order: nothing is    *)
(* lost, repeated or made up in the ring buffer or the FIFO (uart.c:       *)
(* 245-254, 423-444, 529-601).  Without buffer these are all the bytes     *)
(* sent, with one the bytes that it takes, whatever callers write past it  *)
(* between them (181, 198, 627).                                           *)
THEOREM SentInOrder == Spec => TxStream!Init /\ [][TxStream!Next]_<<put, sent>>
<1>1. Init => TxStream!Init
  BY DEF Init, TxStream!Init
<1>2. ASSUME BytesInv, BytesInv', [Next]_vars PROVE [TxStream!Next]_<<put, sent>>
  <2>1. sent' = [i \in 1..Len(sent') |-> i] /\ Len(sent') \in Nat
    BY <1>2, FirstBytesAre DEF BytesInv, TxOK, TxTypes, TxInv
  <2>2. ASSUME put' \in put + 1 .. put + BuffSize, sent' = sent
        PROVE  TxStream!Next
    BY <2>2 DEF TxStream!Next, TxStream!Put
  <2>3. CASE LineOut
    <3>1. put' = put /\ (sent' = sent \/ Len(sent') \in Len(sent) + 1 .. put)
      <4>1. put' = put /\ (sent' = sent \/ (Len(sent') = Len(sent) + 1 /\ Len(sent') <= put))
        BY <1>2, <2>3, LineOutBytes
      <4>2. Len(sent) \in Nat /\ put \in Nat
        BY <1>2, BytesFacts
      <4> QED
        BY <4>1, <4>2
    <3>2. sent' = TxStream!FirstBytes(Len(sent'))
      BY <2>1 DEF TxStream!FirstBytes
    <3> QED
      BY <3>1, <3>2 DEF TxStream!Next, TxStream!Take
  <2>4. put + 1 \in put + 1 .. put + BuffSize
    BY <1>2, BytesFacts, Sizes
  <2>5. CASE Echo
    BY <1>2, <2>2, <2>4, <2>5, EchoBytes
  <2>6. CASE TxCopy
    BY <1>2, <2>2, <2>6, TxCopyBytes
  <2>7. CASE SendByte \/ SendWrite
    BY <1>2, <2>2, <2>4, <2>7, SendByteBytes, SendWriteBytes
  <2>8. CASE UNCHANGED vars
    BY <2>8 DEF vars, txHist
  <2>9. CASE LineIn \/ Isr \/ RecvTask \/ \E i \in Interrupts : Raise(i)
    BY <1>2, <2>9, IsrRxBytes, IsrTxBytes, RecvTaskBytes, RaiseBytes DEF Isr, LineIn, txHist
  <2>10. CASE Echoed \/ RxBuffEnq \/ \E m \in 0..MaxChunk : RxBuffDeq(m)
    BY <1>2, <2>10, EchoedBytes, RxBuffEnqBytes, RxBuffDeqBytes
  <2>11. CASE (\E n \in 0..MaxChunk : TxBuffEnq(n) \/ \E w \in BOOLEAN : Send(n, w))
                \/ SendDone \/ LoadEna \/ StoreEna \/ RxBuffDeqNull
    BY <1>2, <2>11, CallBytes
  <2> QED
    BY <1>2, <2>3, <2>5, <2>6, <2>7, <2>8, <2>9, <2>10, <2>11 DEF Next, TaskStep
<1> QED
  BY <1>1, <1>2, BytesInvariant, PTL DEF Spec
=============================================================================
