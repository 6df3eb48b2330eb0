----------------------------- MODULE SdioSlave -----------------------------
(***************************************************************************)
(* The SDIO slave of src/mesh_demo/driver/sdio_slv.c.  Buffers for the     *)
(* host lie on two linked lists, ToSend and Sended (free, the first partly *)
(* filled), that a task (sdio_load_data) and the interrupt handler         *)
(* (sdio_slave_isr) both take apart.  Nothing keeps the handler out of the *)
(* task (299 and 310 are commented out), nor the host out of the handler.  *)
(* The task is cut where it touches what the handler changes: the handler  *)
(* in the middle of a step does what it does before or after it, or sends  *)
(* the driver astray.  The handler is cut where the host can act.          *)
(* The peripheral and the host are external.  rd_empty and wr_busy, which  *)
(* tell the host what the two links tell the hardware, are not kept apart  *)
(* from rx.on and txOn; comm_cnt and intr_no are left out.                 *)
(* Operators named Mut... are plausible mistakes in the operator that      *)
(* follows them.                                                           *)
(***************************************************************************)
EXTENDS Integers, Sequences

CONSTANTS
  Bufs,         \* the RX_BUFFER_NUM buffers are 1..Bufs, linked in this order
  Size,         \* RX_BUFFER_SIZE
  MaxLoad,      \* bound: the longest load
  MaxBytes,     \* bound: bytes loaded in all
  MaxWrites     \* bound: packs the host writes

ASSUME SdioAssumption ==
  /\ Bufs \in Nat \ {0} /\ Size \in Nat \ {0}
  /\ MaxLoad \in Nat /\ MaxBytes \in Nat /\ MaxWrites \in Nat

NULL == 0
Buf == 1..Bufs
Ptr == Buf \cup {NULL}

VARIABLES
  mem, tail, next,             \* struct sdio_list: buffer, tail - buffer, next
  pHead_ToSend, pTail_ToSend, pHead_Sended, pTail_Sended,
  has_read,
  rx,       \* to the host: descriptor (buf, len) and RXLINK_START (on)
  txOn,     \* from the host: TXLINK_START
  status,   \* SLC_INT_STATUS
  toHost,   \* SLC_INTVEC_TOHOST
  isr, slc, \* where the handler is, and its slc_intr_status
  task,     \* where sdio_load_data is
  len,      \* its bytes still to load
  left,     \* its left_len
  \* history
  taken,    \* bytes copied into buffers
  got,      \* bytes the host has read
  written, handled, \* packs the host has written; that the callback has seen
  lost,     \* events that the handler has cleared without having seen them
  astray    \* a buffer is on ToSend that nothing announces, or the lists are
            \* in disorder: what follows is not modelled

lists == <<mem, tail, next, pHead_ToSend, pTail_ToSend, pHead_Sended, pTail_Sended>>
taskVars == <<task, len, left, taken>>
hostVars == <<got, written>>
vars == <<lists, has_read, rx, txOn, status, toHost, isr, slc, taskVars,
          hostVars, handled, lost, astray>>

(* sdio_slave_init.                                                        *)
Init ==
  /\ mem = [b \in Buf |-> <<>>] /\ tail = [b \in Buf |-> 0]
  /\ next = [b \in Buf |-> IF b < Bufs THEN b + 1 ELSE NULL]
  /\ pHead_ToSend = NULL /\ pTail_ToSend = NULL
  /\ pHead_Sended = 1 /\ pTail_Sended = Bufs
  /\ has_read = TRUE
  /\ rx = [buf |-> 1, len |-> 0, on |-> FALSE] /\ txOn = TRUE
  /\ status = {} /\ toHost = FALSE /\ isr = "off" /\ slc = {}
  /\ task = "idle" /\ len = 0 /\ left = 0
  /\ taken = 0 /\ got = <<>> /\ written = 0 /\ handled = 0
  /\ lost = {} /\ astray = FALSE

(* rx_buff_load_done: an empty buffer is not announced, although its       *)
(* callers go on as if it were.                                            *)
LoadDone(b) ==
  rx' = IF tail[b] = 0 THEN [rx EXCEPT !.buf = b]
                       ELSE [buf |-> b, len |-> tail[b], on |-> TRUE]

-----------------------------------------------------------------------------
(* The task.  The handler may run between any two of its steps.            *)
TaskRuns == isr = "off"

(* sdio_load_data is called; without a free buffer it returns 0 at once.   *)
Load(n) ==
  /\ TaskRuns /\ task = "idle" /\ pHead_Sended # NULL
  /\ taken + n <= MaxBytes
  /\ task' = (IF n = 0 THEN "start" ELSE "fill") /\ len' = n
  /\ UNCHANGED <<lists, has_read, rx, txOn, status, toHost, isr, slc, left,
                 taken, hostVars, handled, lost, astray>>

(* The loop of sdio_load_data: os_memcpy behind the tail of the first free *)
(* buffer, ...                                                             *)
Fill ==
  /\ TaskRuns /\ task = "fill" /\ len > 0
  /\ LET b == pHead_Sended
         room == Size - tail[b]
         n == IF len < room THEN len ELSE room
     IN /\ left' = room
        /\ mem' = [mem EXCEPT ![b] = SubSeq(@, 1, tail[b]) \o [i \in 1..n |-> taken + i]]
        /\ taken' = taken + n
  /\ task' = "count"
  /\ UNCHANGED <<tail, next, pHead_ToSend, pTail_ToSend, pHead_Sended,
                 pTail_Sended, has_read, rx, txOn, status, toHost, isr, slc,
                 len, hostVars, handled, lost, astray>>

MutCount ==
  /\ TaskRuns /\ task = "count"
  /\ tail' = [tail EXCEPT ![pHead_Sended] = @ + len]
  /\ len' = IF len < left THEN 0 ELSE len - left
  /\ task' = IF len < left THEN "start" ELSE "link"
  /\ UNCHANGED <<mem, next, pHead_ToSend, pTail_ToSend, pHead_Sended,
                 pTail_Sended, has_read, rx, txOn, status, toHost, isr, slc,
                 left, taken, hostVars, handled, lost, astray>>

(* ... then the tail of the buffer that is first by now.                   *)
Count ==
  /\ TaskRuns /\ task = "count"
  /\ LET n == IF len < left THEN len ELSE left
     IN /\ tail' = [tail EXCEPT ![pHead_Sended] = @ + n]
        /\ len' = len - n
        /\ task' = IF len < left THEN "start" ELSE "link"
  /\ UNCHANGED <<mem, next, pHead_ToSend, pTail_ToSend, pHead_Sended,
                 pTail_Sended, has_read, rx, txOn, status, toHost, isr, slc,
                 left, taken, hostVars, handled, lost, astray>>

(* A full buffer is hung on the end of ToSend.  On an empty list nobody    *)
(* will ever announce it: the call below is for a list that is empty, and  *)
(* there is no block whose end could bring the handler to it.              *)
Link ==
  /\ TaskRuns /\ task = "link" /\ task' = "unlink"
  /\ pTail_ToSend' = pHead_Sended /\ astray' = (pHead_ToSend = NULL)
  /\ IF pHead_ToSend = NULL
     THEN pHead_ToSend' = pHead_Sended /\ UNCHANGED next
     ELSE next' = [next EXCEPT ![pTail_ToSend] = pHead_Sended] /\ UNCHANGED pHead_ToSend
  /\ UNCHANGED <<mem, tail, pHead_Sended, pTail_Sended, has_read, rx, txOn,
                 status, toHost, isr, slc, len, left, taken, hostVars, handled,
                 lost>>

MutUnlink ==
  /\ TaskRuns /\ task = "unlink"
  /\ pHead_Sended' = next[pHead_Sended]
  /\ task' = IF pHead_Sended' = NULL \/ len = 0 THEN "start" ELSE "fill"
  /\ UNCHANGED <<mem, tail, next, pHead_ToSend, pTail_ToSend, pTail_Sended,
                 has_read, rx, txOn, status, toHost, isr, slc, len, left, taken,
                 hostVars, handled, lost, astray>>

(* It leaves the free buffers; with none left the rest is not loaded.      *)
Unlink ==
  /\ TaskRuns /\ task = "unlink"
  /\ pHead_Sended' = next[pHead_Sended]
  /\ next' = [next EXCEPT ![pTail_ToSend] = NULL]
  /\ task' = IF pHead_Sended' = NULL \/ len = 0 THEN "start" ELSE "fill"
  /\ UNCHANGED <<mem, tail, pHead_ToSend, pTail_ToSend, pTail_Sended, has_read,
                 rx, txOn, status, toHost, isr, slc, len, left, taken, hostVars,
                 handled, lost, astray>>

(* The end of sdio_load_data: only if no buffer is to be sent, full ones   *)
(* of this very call included, the first free one is ...  If it is empty   *)
(* -- nothing was loaded, or the handler has sent it all by now --, it     *)
(* will not be announced (284), but has_read will say that it is.          *)
Start ==
  /\ TaskRuns /\ task = "start" /\ len' = 0
  /\ IF pHead_ToSend = NULL
     THEN /\ pHead_ToSend' = pHead_Sended /\ pTail_ToSend' = pHead_Sended
          /\ pHead_Sended' = next[pHead_Sended]
          /\ next' = [next EXCEPT ![pHead_Sended] = NULL]
          /\ task' = "announce" /\ astray' = (tail[pHead_Sended] = 0)
     ELSE /\ UNCHANGED <<pHead_ToSend, pTail_ToSend, pHead_Sended, next, astray>>
          /\ task' = "idle"
  /\ UNCHANGED <<mem, tail, pTail_Sended, has_read, rx, txOn, status, toHost,
                 isr, slc, left, taken, hostVars, handled, lost>>

(* ... given to the host, sdio_try_to_load, ...                            *)
TryToLoad ==
  /\ TaskRuns /\ task = "announce"
  /\ IF has_read /\ pHead_ToSend # NULL
     THEN LoadDone(pHead_ToSend) /\ task' = "announced"
     ELSE UNCHANGED rx /\ task' = "idle"
  /\ UNCHANGED <<lists, has_read, txOn, status, toHost, isr, slc, len, left,
                 taken, hostVars, handled, lost, astray>>

(* ... and only then has_read is reset.                                    *)
Announced ==
  /\ TaskRuns /\ task = "announced" /\ task' = "idle"
  /\ has_read' = FALSE /\ toHost' = TRUE
  /\ UNCHANGED <<lists, rx, txOn, status, isr, slc, len, left, taken, hostVars,
                 handled, lost, astray>>

LoadStep == Fill \/ Count \/ Link \/ Unlink \/ Start \/ TryToLoad \/ Announced

-----------------------------------------------------------------------------
(* The interrupt handler, sdio_slave_isr: it reads and clears the status,  *)
(* then works through what it has read.                                    *)
IsrEnter ==
  /\ isr = "off" /\ status # {}
  /\ isr' = "rx" /\ slc' = status /\ status' = {}
  /\ UNCHANGED <<lists, has_read, rx, txOn, toHost, taskVars, hostVars, handled,
                 lost, astray>>

(* sdio_read_done_process: the buffer that was read goes to the end of the *)
(* free ones, which may be none ...                                        *)
Freed ==
  LET b == pHead_ToSend
  IN [next |-> [n \in Buf |-> IF n = pTail_Sended /\ pHead_Sended # NULL THEN b
                              ELSE IF n = b THEN NULL ELSE next[n]],
      head |-> IF pHead_Sended = NULL THEN b ELSE pHead_Sended]

MutPartly(b) == b # pHead_ToSend /\ tail[b] > 1

(* ... and the next of ToSend, or else a partly filled free buffer, is     *)
(* announced.                                                              *)
Partly(b) == b # pHead_ToSend /\ tail[b] > 0

ReadDone ==
  LET b == pHead_ToSend
      f == Freed
      partly == Partly(f.head)
  IN /\ mem' = [mem EXCEPT ![b] = <<>>]
     /\ tail' = [tail EXCEPT ![b] = 0]
     /\ pTail_Sended' = b
     /\ toHost' = TRUE
     /\ \/ /\ next[b] # NULL
           /\ pHead_ToSend' = next[b] /\ LoadDone(next[b]) /\ has_read' = FALSE
           /\ pHead_Sended' = f.head /\ next' = f.next /\ UNCHANGED pTail_ToSend
        \/ /\ next[b] = NULL /\ partly
           /\ pHead_ToSend' = f.head /\ pTail_ToSend' = f.head
           /\ LoadDone(f.head) /\ has_read' = FALSE
           /\ pHead_Sended' = f.next[f.head] /\ next' = [f.next EXCEPT ![f.head] = NULL]
        \/ /\ next[b] = NULL /\ ~partly
           /\ pHead_ToSend' = NULL /\ has_read' = TRUE
           /\ pHead_Sended' = f.head /\ next' = f.next /\ UNCHANGED <<pTail_ToSend, rx>>

(* The handler takes the last buffer of ToSend under the hands of the task,*)
(* which is about to hang another one behind it, has bytes in the next one *)
(* that it has not counted, or has not yet noted that it announced it.     *)
Collision ==
  /\ pHead_ToSend = pTail_ToSend
  /\ \/ task \in {"link", "unlink", "announced"}
     \/ task = "count" /\ tail[pHead_Sended] > 0

(* RX_EOF: rx_buff_read_done and sdio_read_done_process.                   *)
IsrRx ==
  /\ isr = "rx" /\ isr' = "tx"
  /\ IF "RX_EOF" \in slc
     THEN ReadDone /\ astray' = Collision
     ELSE UNCHANGED <<lists, has_read, rx, toHost, astray>>
  /\ UNCHANGED <<txOn, status, slc, taskVars, hostVars, handled, lost>>

MutIsrTx ==
  /\ isr = "tx" /\ isr' = "end"
  /\ IF "TX_EOF" \in slc /\ "RX_EOF" \notin slc
     THEN handled' = handled + 1 /\ txOn' = TRUE /\ toHost' = TRUE
     ELSE UNCHANGED <<handled, txOn, toHost>>
  /\ UNCHANGED <<lists, has_read, rx, status, slc, taskVars, hostVars, lost, astray>>

(* TX_EOF: tx_buff_write_done, the receive callback, tx_buff_handle_done.  *)
IsrTx ==
  /\ isr = "tx" /\ isr' = "end"
  /\ IF "TX_EOF" \in slc
     THEN handled' = handled + 1 /\ txOn' = TRUE /\ toHost' = TRUE
     ELSE UNCHANGED <<handled, txOn, toHost>>
  /\ UNCHANGED <<lists, has_read, rx, status, slc, taskVars, hostVars, lost, astray>>

(* What came up in the meantime is printed and cleared.                    *)
IsrEnd ==
  /\ isr = "end" /\ isr' = "off" /\ status' = {} /\ slc' = {}
  /\ lost' = lost \cup status
  /\ UNCHANGED <<lists, has_read, rx, txOn, toHost, taskVars, hostVars, handled,
                 astray>>

IsrStep == IsrRx \/ IsrTx \/ IsrEnd

-----------------------------------------------------------------------------
(* The host reads an announced block when it has been interrupted, ...     *)
HostRead ==
  /\ toHost /\ rx.on
  /\ got' = got \o SubSeq(mem[rx.buf], 1, rx.len)
  /\ rx' = [rx EXCEPT !.on = FALSE] /\ toHost' = FALSE
  /\ status' = status \cup {"RX_EOF"}
  /\ UNCHANGED <<lists, has_read, txOn, isr, slc, taskVars, written, handled,
                 lost, astray>>

(* ... writes a pack when the slave takes one, ...                         *)
HostWrite ==
  /\ txOn /\ written < MaxWrites
  /\ written' = written + 1 /\ txOn' = FALSE
  /\ status' = status \cup {"TX_EOF"}
  /\ UNCHANGED <<lists, has_read, rx, toHost, isr, slc, taskVars, got, handled,
                 lost, astray>>

(* ... and takes note of other interrupts.                                 *)
HostAck ==
  /\ toHost /\ ~rx.on /\ toHost' = FALSE
  /\ UNCHANGED <<lists, has_read, rx, txOn, status, isr, slc, taskVars,
                 hostVars, handled, lost, astray>>

Next ==
  /\ ~astray
  /\ \/ \E n \in 0..MaxLoad : Load(n)
     \/ LoadStep \/ IsrEnter \/ IsrStep
     \/ HostRead \/ HostWrite \/ HostAck

Spec == Init /\ [][Next]_vars

(* The task and the handler go on, and the host reads what is announced;   *)
(* nobody has to load or to write.                                         *)
FairSpec ==
  /\ Spec
  /\ WF_vars(~astray /\ LoadStep)
  /\ WF_vars(~astray /\ IsrEnter) /\ WF_vars(~astray /\ IsrStep)
  /\ WF_vars(~astray /\ (HostRead \/ HostAck))

-----------------------------------------------------------------------------
(* Every variable keeps its type.                                          *)
TypeOK ==
  /\ mem \in [Buf -> Seq(1..MaxBytes)] /\ tail \in [Buf -> 0..Size]
  /\ next \in [Buf -> Ptr]
  /\ {pHead_ToSend, pTail_ToSend, pHead_Sended, pTail_Sended} \subseteq Ptr
  /\ has_read \in BOOLEAN /\ txOn \in BOOLEAN /\ toHost \in BOOLEAN
  /\ rx \in [buf : Buf, len : 0..Size, on : BOOLEAN]
  /\ status \subseteq {"RX_EOF", "TX_EOF"} /\ slc \subseteq {"RX_EOF", "TX_EOF"}
  /\ isr \in {"off", "rx", "tx", "end"}
  /\ task \in {"idle", "fill", "count", "link", "unlink", "start", "announce",
              "announced"}
  /\ len \in 0..MaxLoad /\ left \in 0..Size
  /\ taken \in 0..MaxBytes /\ got \in Seq(1..MaxBytes)
  /\ written \in 0..MaxWrites /\ handled \in 0..MaxWrites
  /\ lost \subseteq {"RX_EOF", "TX_EOF"} /\ astray \in BOOLEAN

(* The buffers lie on a ring, 1..Bufs; Pos(h, j) is the j-th after h.      *)
Pos(h, j) == IF h + j > Bufs THEN h + j - Bufs ELSE h + j

(* The k buffers from h on are ToSend, the rest of the ring is Sended, and *)
(* every pointer is where it belongs.                                      *)
OnLists(h, k) ==
  /\ pHead_ToSend = IF k = 0 THEN NULL ELSE h
  /\ k > 0 => pTail_ToSend = Pos(h, k - 1)
  /\ pHead_Sended = IF k = Bufs THEN NULL ELSE Pos(h, k)
  /\ k < Bufs => pTail_Sended = Pos(h, Bufs - 1)
  /\ \A j \in 0..(Bufs - 1) :
       next[Pos(h, j)] = IF j \in {k - 1, Bufs - 1} THEN NULL ELSE Pos(h, j + 1)

(* Between two calls and outside of the handler each buffer is on exactly  *)
(* one of the two lists, the lists keep the order of the ring, each tail   *)
(* pointer is at the end of its list, only the first free buffer holds     *)
(* bytes, and has_read is what it says: no block is announced, waits for   *)
(* the handler or was overlooked by it.  So it is until the driver goes    *)
(* astray (316-425).                                                       *)
OnOneList ==
  ~astray /\ task = "idle" /\ isr = "off" =>
    \E h \in Buf, k \in 0..Bufs :
      /\ OnLists(h, k)
      /\ \A j \in (k + 1)..(Bufs - 1) : tail[Pos(h, j)] = 0
      /\ has_read <=> k = 0
      /\ ~has_read <=> rx.on \/ "RX_EOF" \in status \cup lost

(* The bytes accepted by sdio_load_data reach the host in order, none lost *)
(* or repeated, however calls, reads and the handler are interleaved, and  *)
(* in the end all of them, unless the driver goes astray or overlooks the  *)
(* end of a block.                                                         *)
Stream == INSTANCE ByteStream WITH Burst <- Size, out <- got
IsByteStream ==
  /\ Stream!Init /\ [][Stream!Next]_<<taken, got>>
  /\ <>[](Len(got) = taken \/ astray \/ "RX_EOF" \in lost)

(* "process every intr" (188): the slave is ready for a pack from the host,*)
(* or has an interrupt pending that makes it so.  The one way to lose it   *)
(* is what the handler clears at its end (230-234), unseen.                *)
NotDeaf == txOn \/ "TX_EOF" \in status \cup slc \cup lost

(* Each pack the host writes is handed to the receive callback, with the   *)
(* same exceptions.                                                        *)
PacksHandled ==
  \A n \in 1..MaxWrites :
    written = n ~> handled = n \/ astray \/ "TX_EOF" \in lost
=============================================================================
