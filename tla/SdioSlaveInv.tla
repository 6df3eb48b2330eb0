---------------------------- MODULE SdioSlaveInv ----------------------------
(***************************************************************************)
(* The inductive invariant behind the properties of SdioSlave, stated      *)
(* apart from its proof so that TLC can check it too.  It holds whenever   *)
(* the handler runs and the host acts; of the lists it says nothing once   *)
(* the driver has gone astray.                                             *)
(***************************************************************************)
EXTENDS SdioSlave

(* An end of a transfer that the handler has not dealt with: it waits, is  *)
(* being worked on, or was cleared unseen.                                 *)
RxAtWork == isr = "rx" /\ "RX_EOF" \in slc
TxAtWork == isr \in {"rx", "tx"} /\ "TX_EOF" \in slc
RxPending == "RX_EOF" \in status \cup lost \/ RxAtWork
TxPending == "TX_EOF" \in status \cup lost \/ TxAtWork

(* The way from the host is closed only while the end of a transfer is     *)
(* pending in this sense, whatever the lists are like.                     *)
HearsInv == (~txOn => TxPending) /\ isr \in {"off", "rx", "tx", "end"}

HandlerInv == isr = "off" => slc = {}

(* The way from the host: one pack at a time, none forgotten.              *)
TxInv ==
  /\ txOn <=> ~TxPending
  /\ TxAtWork => "TX_EOF" \notin status \cup lost
  /\ "TX_EOF" \notin status \cap lost
  /\ written = IF TxPending THEN handled + 1 ELSE handled

(* The way to the host: one block at a time.  Between its announcement and *)
(* the reset of has_read the host may have read it.                        *)
RxInv ==
  /\ rx.on => ~RxPending
  /\ RxAtWork => "RX_EOF" \notin status \cup lost
  /\ "RX_EOF" \notin status \cap lost
  /\ has_read /\ task # "announced" <=> ~rx.on /\ ~RxPending

-----------------------------------------------------------------------------
(* The lists.  Between "link" and "unlink" the last buffer of ToSend is    *)
(* still the first of Sended.                                              *)
Hung(h, k) ==
  /\ k > 0
  /\ pHead_ToSend = h /\ pTail_ToSend = Pos(h, k - 1) /\ pHead_Sended = Pos(h, k - 1)
  /\ pTail_Sended = Pos(h, Bufs - 1)
  /\ \A j \in 0..(Bufs - 1) :
       next[Pos(h, j)] = IF j = Bufs - 1 THEN NULL ELSE Pos(h, j + 1)

ListsInv(h, k) == IF task = "unlink" THEN Hung(h, k) ELSE OnLists(h, k)

(* What is announced is the first buffer of ToSend; has_read stays true    *)
(* for the moment that sdio_try_to_load takes to announce the first one.   *)
AnnouncedInv(h, k) ==
  /\ has_read <=> k = 0 \/ task \in {"announce", "announced"}
  /\ rx.on => rx.buf = h /\ rx.len = tail[h]
  /\ task \in {"announce", "announced"} => k = 1

(* How full the buffers are: those of ToSend beside the first one to the   *)
(* brim, the free ones beside the first one empty.                         *)
FillInv(h, k) ==
  /\ k > 0 => tail[h] > 0
  /\ \A j \in 1..(k - 1) : tail[Pos(h, j)] = Size
  /\ \A j \in (k + 1)..(Bufs - 1) : tail[Pos(h, j)] = 0 /\ mem[Pos(h, j)] = <<>>
  /\ k < Bufs /\ task = "unlink" => tail[Pos(h, k)] = 0 /\ mem[Pos(h, k)] = <<>>
  /\ k < Bufs /\ task # "link" => tail[Pos(h, k)] < Size

(* Where sdio_load_data is.                                                *)
Extra == IF task = "count" THEN IF len < left THEN len ELSE left ELSE 0
LoadInv(h, k) ==
  /\ k = 0 /\ task \notin {"link", "start"} => tail[h] = 0
  /\ task \in {"fill", "count"} =>
       /\ k < Bufs /\ len > 0
       /\ k = 0 => tail[h] = 0
  /\ task = "fill" => taken + len <= MaxBytes
  /\ task = "count" => left = Size - tail[Pos(h, k)] /\ taken + len - Extra <= MaxBytes
  /\ task = "link" => k < Bufs /\ tail[Pos(h, k)] = Size
  /\ task \in {"link", "unlink"} => taken + len <= MaxBytes

(* Which bytes the buffers hold: Base(h) is the number of bytes before     *)
(* those of buffer h, First(h, j) of those before the j-th buffer after it.*)
Run(f, n) == [n1 \in 1..n |-> f + n1]
Base(h) == IF RxPending THEN Len(got) - tail[h] ELSE Len(got)
First(h, j) == IF j = 0 THEN Base(h) ELSE Base(h) + tail[h] + (j - 1) * Size

BytesInv(h, k) ==
  /\ got = Run(0, Len(got)) /\ Base(h) >= 0
  /\ \A j \in 0..(k - 1) : mem[Pos(h, j)] = Run(First(h, j), tail[Pos(h, j)])
  /\ k < Bufs => mem[Pos(h, k)] = Run(First(h, k), tail[Pos(h, k)] + Extra)
  /\ taken = First(h, k) + (IF k < Bufs THEN tail[Pos(h, k)] + Extra ELSE 0)

RingInv(h, k) ==
  ListsInv(h, k) /\ AnnouncedInv(h, k) /\ FillInv(h, k) /\ LoadInv(h, k) /\ BytesInv(h, k)

SdioInv ==
  /\ TypeOK /\ HandlerInv /\ TxInv
  /\ ~astray => RxInv /\ \E h \in Buf, k \in 0..Bufs : RingInv(h, k)
=============================================================================
