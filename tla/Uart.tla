-------------------------------- MODULE Uart --------------------------------
(***************************************************************************)
(* UART0 of src/mesh_demo/driver/uart.c in both its builds: without        *)
(* UART_BUFF_EN a task echoes what is received, with it a task moves the   *)
(* receive FIFO to a ring buffer that a reader empties, and the handler    *)
(* moves a second ring buffer to the transmit FIFO.  Tasks (and timers) do *)
(* not preempt one another; the handler comes between any two of their     *)
(* steps, also between the read and the write of a read-modify-write of    *)
(* UART_INT_ENA.  The FIFOs, the lines and the callers are external.       *)
(* UART1, the settings of the line and the two statuses that the handler   *)
(* only prints and clears (FRM_ERR, RXFIFO_OVF) are left out.              *)
(***************************************************************************)
EXTENDS Integers, Sequences

CONSTANTS
  Builds,     \* the values of UART_BUFF_EN looked at
  FifoLen,    \* UART_FIFO_LEN, both FIFOs
  RxFull,     \* the threshold of RXFIFO_FULL
  TxRoom,     \* a byte is sent directly while fewer than these are in the FIFO
  TxEmpty,    \* the threshold of TXFIFO_EMPTY
  BuffSize,   \* UART_RX_BUFFER_SIZE and UART_TX_BUFFER_SIZE
  QueueLen,   \* uart_recvTaskQueueLen
  MaxRx,      \* bound: bytes received
  MaxTx,      \* bound: bytes callers send
  MaxDirect,  \* bound: bytes sent past the ring buffer
  MaxChunk    \* bound: bytes read or sent in a call

ASSUME UartAssumption ==
  /\ Builds \subseteq BOOLEAN
  /\ {FifoLen, RxFull, TxRoom, TxEmpty, BuffSize, QueueLen} \subseteq Nat \ {0}
  /\ RxFull <= FifoLen /\ TxRoom <= FifoLen /\ TxEmpty <= FifoLen
  /\ FifoLen < BuffSize
  /\ MaxRx \in Nat /\ MaxTx \in Nat /\ MaxDirect \in Nat /\ MaxChunk \in 0..BuffSize

VARIABLES
  buffered,         \* UART_BUFF_EN
  rxFifo, txFifo,
  ena, raw,         \* UART_INT_ENA, UART_INT_RAW
  events,           \* in uart_recvTaskQueue
  pc, cnt, noWait,  \* the running task, bytes left in its loop, whether it
                    \* drops a byte when there is no room
  op, ena0,         \* a read-modify-write of ena and what it has read
  pRx, pTx,         \* *pRxBuffer, *pTxBuffer
  \* history
  taken, out,       \* bytes the receive FIFO took; bytes read or echoed
  put, sent,        \* bytes accepted for sending, with a buffer those that
                    \* it takes; those of them on the line
  direct            \* bytes callers send past the ring buffer

rxHist == <<taken, out>>
txHist == <<put, sent, direct>>
task == <<pc, cnt, noWait, op, ena0>>
vars == <<buffered, rxFifo, txFifo, ena, raw, events, task, pRx, pTx, rxHist, txHist>>

Index == 0..BuffSize - 1
RX == {"FULL", "TOUT"}
Interrupts == RX \cup {"EMPTY"}
NULL == [Space |-> -1]

(* Uart_Buf_Init.                                                          *)
NewBuffer == [bytes |-> [i \in Index |-> 0], pInPos |-> 0, pOutPos |-> 0,
              Space |-> BuffSize]

Held(b) == BuffSize - b.Space

(* uart_config and uart_init.  The ring buffers may fail to be allocated,  *)
(* the receive buffer, which is the second of the two and as large, always *)
(* if the transmit buffer fails.                                           *)
Init ==
  /\ buffered \in Builds
  /\ rxFifo = <<>> /\ txFifo = <<>>
  /\ ena = RX /\ raw = {}
  /\ events = 0 /\ pc = "idle" /\ cnt = 0 /\ noWait = FALSE
  /\ op = "rxon" /\ ena0 = {}
  /\ pTx \in IF buffered THEN {NewBuffer, NULL} ELSE {NULL}
  /\ pRx \in {pTx, NULL}
  /\ taken = 0 /\ out = <<>> /\ put = 0 /\ sent = <<>> /\ direct = 0

-----------------------------------------------------------------------------
(* The hardware.  A byte is received (what a full FIFO does not take is    *)
(* lost), a byte is sent; ...                                              *)
Foreign == 0  \* a byte that did not come through the ring buffer

LineIn ==
  /\ taken < MaxRx /\ Len(rxFifo) < FifoLen
  /\ rxFifo' = Append(rxFifo, taken + 1) /\ taken' = taken + 1
  /\ UNCHANGED <<buffered, txFifo, ena, raw, events, task, pRx, pTx, out, txHist>>

LineOut ==
  /\ txFifo # <<>>
  /\ sent' = IF Head(txFifo) = Foreign THEN sent ELSE Append(sent, Head(txFifo))
  /\ txFifo' = Tail(txFifo)
  /\ UNCHANGED <<buffered, rxFifo, ena, raw, events, task, pRx, pTx, rxHist, put, direct>>

(* ... a status that has been cleared comes up again while its reason      *)
(* lasts.                                                                  *)
Reason(i) ==
  \/ i = "FULL" /\ Len(rxFifo) >= RxFull
  \/ i = "TOUT" /\ rxFifo # <<>>
  \/ i = "EMPTY" /\ Len(txFifo) < TxEmpty

Raise(i) ==
  /\ Reason(i) /\ i \notin raw /\ raw' = raw \cup {i}
  /\ UNCHANGED <<buffered, rxFifo, txFifo, ena, events, task, pRx, pTx, rxHist, txHist>>

-----------------------------------------------------------------------------
(* uart0_rx_intr_handler serves one status at a time: FULL, TOUT, EMPTY in *)
(* this order; after a fatal exception it serves none.                     *)
Pending == IF pc = "crash" THEN {} ELSE raw \cap ena

(* A receive status masks both and posts an event, whose loss on a full    *)
(* queue goes unnoticed.                                                   *)
IsrRx ==
  /\ Pending \cap RX # {}
  /\ raw' = raw \ {IF "FULL" \in Pending THEN "FULL" ELSE "TOUT"}
  /\ ena' = ena \ RX
  /\ events' = IF events < QueueLen THEN events + 1 ELSE events
  /\ UNCHANGED <<buffered, rxFifo, txFifo, task, pRx, pTx, rxHist, txHist>>

(* tx_fifo_insert.                                                         *)
Inserted(b, n) == [i \in 1..n |-> b.bytes[(b.pOutPos + i - 1) % BuffSize]]

MutStartUartBuffer ==
  LET room == FifoLen - Len(txFifo)
      n == IF Held(pTx) > room THEN room ELSE Held(pTx)
  IN /\ txFifo' = txFifo \o Inserted(pTx, n)
     /\ pTx' = [pTx EXCEPT !.pOutPos = (@ + n) % BuffSize, !.Space = @ + n]
     /\ ena' = ena \ {"EMPTY"}

(* tx_start_uart_buffer: the transmit interrupt stays on as long as there  *)
(* is more.                                                                *)
StartUartBuffer ==
  LET room == FifoLen - Len(txFifo)
      n == IF Held(pTx) > room THEN room ELSE Held(pTx)
  IN /\ txFifo' = txFifo \o Inserted(pTx, n)
     /\ pTx' = [pTx EXCEPT !.pOutPos = (@ + n) % BuffSize, !.Space = @ + n]
     /\ ena' = IF Held(pTx) > room THEN ena ELSE ena \ {"EMPTY"}

IsrTx ==
  /\ "EMPTY" \in Pending /\ Pending \cap RX = {}
  /\ raw' = raw \ {"EMPTY"}
  /\ IF pTx # NULL THEN StartUartBuffer
                   ELSE ena' = ena \ {"EMPTY"} /\ UNCHANGED <<txFifo, pTx>>
  /\ UNCHANGED <<buffered, rxFifo, events, task, pRx, rxHist, txHist>>

Isr == IsrRx \/ IsrTx

-----------------------------------------------------------------------------
MutRecvTask ==
  /\ pc = "idle" /\ events > 0 /\ events' = events - 1
  /\ \/ buffered /\ pRx = NULL /\ pc' = "crash" /\ UNCHANGED cnt
     \/ buffered /\ pRx # NULL /\ Len(rxFifo) > pRx.Space /\ UNCHANGED <<pc, cnt>>
     \/ /\ ~buffered \/ (pRx # NULL /\ Len(rxFifo) <= pRx.Space)
        /\ cnt' = Len(rxFifo) /\ pc' = IF buffered THEN "enq" ELSE "echo"
  /\ UNCHANGED <<buffered, rxFifo, txFifo, ena, raw, noWait, op, ena0, pRx, pTx,
                 rxHist, txHist>>

(* uart_recvTask.  The bytes to move are counted once; a ring buffer       *)
(* without room for all of them leaves them and the interrupt as they are. *)
(* A ring buffer that could not be allocated is used all the same: the     *)
(* exception ends it all.                                                  *)
RecvTask ==
  /\ pc = "idle" /\ events > 0 /\ events' = events - 1
  /\ \/ buffered /\ pRx = NULL /\ pc' = "crash" /\ UNCHANGED cnt
     \/ buffered /\ pRx # NULL /\ Len(rxFifo) >= pRx.Space /\ UNCHANGED <<pc, cnt>>
     \/ /\ ~buffered \/ (pRx # NULL /\ Len(rxFifo) < pRx.Space)
        /\ cnt' = Len(rxFifo) /\ pc' = IF buffered THEN "enq" ELSE "echo"
  /\ UNCHANGED <<buffered, rxFifo, txFifo, ena, raw, noWait, op, ena0, pRx, pTx,
                 rxHist, txHist>>

(* uart_tx_one_char waits for room, its no_wait variant drops the byte.    *)
HasRoom == Len(txFifo) < TxRoom

(* Without buffer: byte after byte is sent back (in one step: the handler  *)
(* does not touch the FIFO then), ...                                      *)
Echo ==
  /\ pc = "echo" /\ cnt > 0 /\ HasRoom
  /\ out' = Append(out, Head(rxFifo)) /\ rxFifo' = Tail(rxFifo)
  /\ put' = put + 1 /\ txFifo' = Append(txFifo, put + 1)
  /\ cnt' = cnt - 1
  /\ UNCHANGED <<buffered, ena, raw, events, pc, noWait, op, ena0, pRx, pTx, taken, sent,
                 direct>>

(* ... then the status is cleared, whatever has come since.                *)
Echoed ==
  /\ pc = "echo" /\ cnt = 0
  /\ raw' = raw \ RX /\ pc' = "rxon"
  /\ UNCHANGED <<buffered, rxFifo, txFifo, ena, events, cnt, noWait, op, ena0,
                 pRx, pTx, rxHist, txHist>>

MutRxBuffEnq ==
  /\ pc = "enq"
  /\ pRx' = [bytes |-> [i \in Index |->
                          LET k == (i + BuffSize - pRx.pInPos) % BuffSize
                          IN IF k < cnt THEN rxFifo[k + 1] ELSE pRx.bytes[i]],
             pInPos |-> (pRx.pInPos + cnt) % BuffSize,
             pOutPos |-> pRx.pOutPos, Space |-> pRx.Space - cnt]
  /\ rxFifo' = <<>>
  /\ cnt' = 0 /\ pc' = IF pRx'.Space >= FifoLen THEN "rxon" ELSE "idle"
  /\ UNCHANGED <<buffered, txFifo, ena, raw, events, noWait, op, ena0, pTx,
                 rxHist, txHist>>

(* With buffer: Uart_rx_buff_enq.                                          *)
RxBuffEnq ==
  /\ pc = "enq"
  /\ pRx' = [bytes |-> [i \in Index |->
                          LET k == (i + BuffSize - pRx.pInPos) % BuffSize
                          IN IF k < cnt THEN rxFifo[k + 1] ELSE pRx.bytes[i]],
             pInPos |-> (pRx.pInPos + cnt) % BuffSize,
             pOutPos |-> pRx.pOutPos, Space |-> pRx.Space - cnt]
  /\ rxFifo' = SubSeq(rxFifo, cnt + 1, Len(rxFifo))
  /\ cnt' = 0 /\ pc' = IF pRx'.Space >= FifoLen THEN "rxon" ELSE "idle"
  /\ UNCHANGED <<buffered, txFifo, ena, raw, events, noWait, op, ena0, pTx,
                 rxHist, txHist>>

(* rx_buff_deq, called by a reader at any time: only a read that starts    *)
(* above pInPos goes round the end of the buffer.  The interrupt comes     *)
(* back with room for a whole FIFO.                                        *)
RxBuffDeqNull ==
  /\ buffered /\ pc = "idle" /\ pRx = NULL /\ pc' = "crash"
  /\ UNCHANGED <<buffered, rxFifo, txFifo, ena, raw, events, cnt, noWait, op,
                 ena0, pRx, pTx, rxHist, txHist>>

RxBuffDeq(n) ==
  /\ buffered /\ pc = "idle" /\ pRx # NULL
  /\ LET len == IF n > Held(pRx) THEN Held(pRx) ELSE n
         straight == pRx.pOutPos <= pRx.pInPos
         pos(i) == IF straight THEN pRx.pOutPos + i ELSE (pRx.pOutPos + i) % BuffSize
         At(i) == IF i \in Index THEN pRx.bytes[i] ELSE 0
     IN /\ out' = out \o [i \in 1..len |-> At(pos(i - 1))]
        /\ pRx' = [pRx EXCEPT !.pOutPos = pos(len), !.Space = @ + len]
        /\ pc' = IF pRx'.Space >= FifoLen THEN "rxon" ELSE "idle"
  /\ UNCHANGED <<buffered, rxFifo, txFifo, ena, raw, events, cnt, noWait, op,
                 ena0, pTx, taken, txHist>>

-----------------------------------------------------------------------------
(* Callers send: with a buffer by tx_buff_enq, which masks the transmit    *)
(* interrupt, ...                                                          *)
TxBuffEnq(n) ==
  /\ buffered /\ pc = "idle" /\ put + n <= MaxTx
  /\ pc' = "txoff" /\ cnt' = n
  /\ UNCHANGED <<buffered, rxFifo, txFifo, ena, raw, events, noWait, op, ena0,
                 pRx, pTx, rxHist, txHist>>

(* ... creates the buffer if it must and can, takes all of the data or     *)
(* none (Uart_Buf_Cpy), ...                                                *)
BufCpy(b) ==
  [bytes |-> [i \in Index |-> LET k == (i + BuffSize - b.pInPos) % BuffSize
                              IN IF k < cnt THEN put + k + 1 ELSE b.bytes[i]],
   pInPos |-> (b.pInPos + cnt) % BuffSize, pOutPos |-> b.pOutPos,
   Space |-> b.Space - cnt]

TxCopy ==
  /\ pc = "put" /\ pc' = "txon" /\ cnt' = 0
  /\ \/ \E b \in {IF pTx = NULL THEN NewBuffer ELSE pTx} :
          /\ pTx = NULL \/ cnt <= b.Space
          /\ pTx' = BufCpy(b) /\ put' = put + cnt
     \/ /\ pTx = NULL \/ cnt > pTx.Space
        /\ UNCHANGED <<pTx, put>>
  /\ UNCHANGED <<buffered, rxFifo, txFifo, ena, raw, events, noWait, op, ena0,
                 pRx, rxHist, sent, direct>>

MutStoreEna ==
  /\ pc = "store"
  /\ ena' = CASE op = "rxon" -> ena0 \cup RX
              [] op = "txoff" -> ena0 \ ({"EMPTY"} \cup RX)
              [] op = "txon" -> ena0 \cup {"EMPTY"}
  /\ pc' = IF op = "txoff" THEN "put" ELSE "idle"
  /\ op' = "rxon" /\ ena0' = {}
  /\ UNCHANGED <<buffered, rxFifo, txFifo, raw, events, cnt, noWait, pRx, pTx,
                 rxHist, txHist>>

(* ... and unmasks it again.  Masking and unmasking read the register and  *)
(* write it back.                                                          *)
LoadEna ==
  /\ pc \in {"rxon", "txoff", "txon"}
  /\ op' = pc /\ ena0' = ena /\ pc' = "store"
  /\ UNCHANGED <<buffered, rxFifo, txFifo, ena, raw, events, cnt, noWait, pRx,
                 pTx, rxHist, txHist>>

StoreEna ==
  /\ pc = "store"
  /\ ena' = CASE op = "rxon" -> ena0 \cup RX
              [] op = "txoff" -> ena0 \ {"EMPTY"}
              [] op = "txon" -> ena0 \cup {"EMPTY"}
  /\ pc' = IF op = "txoff" THEN "put" ELSE "idle"
  /\ op' = "rxon" /\ ena0' = {}
  /\ UNCHANGED <<buffered, rxFifo, txFifo, raw, events, cnt, noWait, pRx, pTx,
                 rxHist, txHist>>

(* In both builds, past the ring buffer if there is one: uart0_tx_buffer   *)
(* and uart0_sendStr send n bytes, the functions installed by              *)
(* UART_SetPrintPort one, none for a carriage return and two for a         *)
(* newline, waiting for room or not.                                       *)
Send(n, w) ==
  /\ pc = "idle"
  /\ IF buffered THEN direct + n <= MaxDirect /\ direct' = direct + n
                 ELSE put + n <= MaxTx /\ UNCHANGED direct
  /\ pc' = "send" /\ cnt' = n /\ noWait' = w
  /\ UNCHANGED <<buffered, rxFifo, txFifo, ena, raw, events, op, ena0, pRx, pTx,
                 rxHist, put, sent>>

(* uart_tx_one_char, uart_tx_one_char_no_wait look for room, ...           *)
SendByte ==
  /\ pc = "send" /\ cnt > 0
  /\ \/ HasRoom /\ pc' = "write" /\ UNCHANGED cnt
     \/ ~HasRoom /\ noWait /\ cnt' = cnt - 1 /\ UNCHANGED pc
  /\ UNCHANGED <<buffered, rxFifo, txFifo, ena, raw, events, noWait, op, ena0,
                 pRx, pTx, rxHist, txHist>>

(* ... and write the byte: it is lost if the handler has filled the FIFO   *)
(* meanwhile.                                                              *)
SendWrite ==
  /\ pc = "write" /\ pc' = "send" /\ cnt' = cnt - 1
  /\ put' = IF buffered THEN put ELSE put + 1
  /\ txFifo' = IF Len(txFifo) = FifoLen THEN txFifo
               ELSE Append(txFifo, IF buffered THEN Foreign ELSE put + 1)
  /\ UNCHANGED <<buffered, rxFifo, ena, raw, events, noWait, op, ena0, pRx, pTx,
                 rxHist, sent, direct>>

SendDone ==
  /\ pc = "send" /\ cnt = 0 /\ pc' = "idle" /\ noWait' = FALSE
  /\ UNCHANGED <<buffered, rxFifo, txFifo, ena, raw, events, cnt, op, ena0, pRx,
                 pTx, rxHist, txHist>>

TaskStep ==
  \/ Echo \/ Echoed \/ RxBuffEnq
  \/ TxCopy \/ LoadEna \/ StoreEna
  \/ SendByte \/ SendWrite \/ SendDone

Next ==
  \/ LineIn \/ LineOut \/ \E i \in Interrupts : Raise(i)
  \/ Isr
  \/ RecvTask \/ TaskStep \/ RxBuffDeqNull
  \/ \E n \in 0..MaxChunk :
       RxBuffDeq(n) \/ TxBuffEnq(n) \/ \E w \in BOOLEAN : Send(n, w)

(* The hardware, the handler and a task that has begun go on, the handler  *)
(* also between two tasks that mask the transmit interrupt; an event is    *)
(* served in the end, though other tasks may run before; with a buffer a   *)
(* reader reads again and again.                                           *)
Spec ==
  /\ Init /\ [][Next]_vars
  /\ WF_vars(LineOut) /\ WF_vars(Raise("TOUT")) /\ WF_vars(Raise("EMPTY"))
  /\ WF_vars(TaskStep)
  /\ WF_vars(IsrRx) /\ SF_vars(IsrTx)
  /\ SF_vars(RecvTask) /\ SF_vars(RxBuffDeq(MaxChunk))

-----------------------------------------------------------------------------
(* Every variable keeps its type; the FIFOs never hold more than they can, *)
(* and a position in a ring buffer never leaves it.                        *)
Buffer == [bytes : [Index -> 0..MaxRx + MaxTx], pInPos : Index, pOutPos : Index,
           Space : 0..BuffSize]

TypeOK ==
  /\ buffered \in BOOLEAN
  /\ rxFifo \in Seq(1..MaxRx) /\ Len(rxFifo) <= FifoLen
  /\ txFifo \in Seq(0..MaxRx + MaxTx) /\ Len(txFifo) <= FifoLen
  /\ ena \subseteq Interrupts
  /\ raw \subseteq Interrupts
  /\ ena0 \subseteq Interrupts
  /\ events \in 0..QueueLen
  /\ pc \in {"idle", "echo", "enq", "rxon", "txoff", "put", "txon", "store", "send",
             "write", "crash"}
  /\ op \in {"rxon", "txoff", "txon"} /\ noWait \in BOOLEAN
  /\ cnt \in 0..FifoLen + MaxChunk
  /\ pRx \in Buffer \cup {NULL} /\ pTx \in Buffer \cup {NULL}
  /\ taken \in 0..MaxRx /\ put \in 0..MaxRx + MaxTx /\ direct \in 0..MaxDirect
  /\ out \in Seq(0..MaxRx) /\ sent \in Seq(0..MaxRx + MaxTx)

(* A masked receive interrupt has an event queued, the task at work on it, *)
(* or a ring buffer without room for more than a FIFO, whose reader will   *)
(* unmask it: neither an event lost at line 236 or 241 nor a value of the  *)
(* register written back late masks it for ever, unless the ring buffer    *)
(* could not be allocated and a fatal exception has ended it all.          *)
NoWedge ==
  \/ RX \subseteq ena
  \/ events > 0
  \/ pc \in {"echo", "enq", "rxon"} \/ (pc = "store" /\ op = "rxon")
  \/ buffered /\ pRx # NULL /\ pRx.Space <= FifoLen
  \/ buffered /\ pRx = NULL /\ pc = "crash"

(* What the receive FIFO takes is echoed, or read from the ring buffer, in *)
(* order and without loss, in the end all of it (282-307, 461-524), unless *)
(* a ring buffer that could not be allocated is used.                      *)
RxStream == INSTANCE ByteStream WITH Burst <- 1
IsRxStream ==
  /\ RxStream!Init /\ [][RxStream!Next]_<<taken, out>>
  /\ <>[](Len(out) = taken \/ pc = "crash")

(* What is accepted for sending leaves on the line in order, in the end    *)
(* all of it: the transmit interrupt is never left off with bytes in the   *)
(* buffer (245-254, 423-444, 529-601).  Without buffer these are all the   *)
(* bytes sent.  With one they are those that the ring buffer takes: bytes  *)
(* that callers write past it (181, 198, 627) come between them, but lose  *)
(* none of them and leave them in their order.                             *)
TxStream == INSTANCE ByteStream WITH Burst <- BuffSize, taken <- put, out <- sent
IsTxStream ==
  /\ TxStream!Init /\ [][TxStream!Next]_<<put, sent>>
  /\ <>[](Len(sent) = put \/ pc = "crash")
=============================================================================
