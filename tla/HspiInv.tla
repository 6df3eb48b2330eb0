------------------------------- MODULE HspiInv -------------------------------
(***************************************************************************)
(* The inductive invariants behind the safety properties of Hspi, stated   *)
(* apart from their proofs so that TLC can check them too.                 *)
(***************************************************************************)
EXTENDS Hspi

(* What holds of every master.  The task reads the header from slot 0 only *)
(* after a start fragment was stored there.                                *)
HeaderThere ==
  (isReceive \/ recvQ > 0 \/ cpu \in RecvPcs) => 0 \in DOMAIN recv_pack

WritingPack == mst = "write" => nextPack <= NPacks

LinkInv == TypeOK /\ NoWedge /\ HeaderThere /\ WritingPack

-----------------------------------------------------------------------------
(* What holds of a patient master.                                         *)

(* The master is in the middle of command nextPack.                        *)
Sending == mst = "write" \/ nextFrag > 0
Cur == IF Sending THEN nextPack ELSE nextPack - 1

(* A fragment waits for the handler, or is being handled.                  *)
Raised == wrDone \/ (isr \in {"clear", "read0"} /\ regWr)
WrPending == wrDone \/ (isr # "off" /\ regWr)

(* The order in which the master writes fragments.                         *)
Before(f, g) == f.pack < g.pack \/ (f.pack = g.pack /\ f.idx <= g.idx)
LastFrag(p) == Frag(p, Num(ReqLen[p]) - 1)

HandlerShape == isr \in {"read0", "store"} => regWr

(* The receive task does not run, and no reply is queued, while a command  *)
(* is coming in.                                                           *)
TasksWait == Sending \/ WrPending => cpu \notin RecvPcs /\ ~ReplyQueued

(* The buffer is open while the master sends; it is closed, with one event *)
(* at most, from the last fragment until the pack has been processed.      *)
GateInv ==
  /\ Sending => recvQ = 0 /\ ~is_recv_pack
  /\ recvQ <= 1
  /\ recvQ = 1 => is_recv_pack /\ cpu \notin RecvPcs
  /\ cpu \in RecvPcs \ {"reset"} => is_recv_pack

(* Fragments in flight belong to the current command, and a last fragment  *)
(* in flight means that the master has finished it.                        *)
FlightInv ==
  /\ Raised => w0.pack = Cur /\ Cur # 0 /\ (EndBit(w0, ReqLen) => ~Sending)
  /\ isr = "store" => buf0.pack = Cur /\ Cur # 0 /\ (EndBit(buf0, ReqLen) => ~Sending)

(* Fragments reach recv_pack in the order they were written.               *)
OrderInv ==
  /\ Before(buf0, w0)
  /\ w0.pack < nextPack \/ (w0.pack = nextPack /\ w0.idx < nextFrag)
  /\ \A s \in DOMAIN recv_pack :
       Before(recv_pack[s], w0) /\ (isr = "store" => Before(recv_pack[s], buf0))

(* While a pack is being received, its last fragment is not in the buffer, *)
(* whatever earlier packs left there.                                      *)
ReceivingInv ==
  isReceive =>
    /\ pack_counter >= 1
    /\ recv_pack[0].pack # 0 =>
         \A s \in DOMAIN recv_pack : recv_pack[s] # LastFrag(recv_pack[0].pack)

(* A completed buffer holds the current command whole, or none.            *)
CompleteInv ==
  /\ (recvQ > 0 \/ cpu \in {"header", "length", "crc", "execute"}) =>
       \A p \in Packs : Holds(p) => p = Cur
  /\ cpu = "execute" => Holds(hdr)

NotYet == Sending \/ WrPending \/ recvQ > 0
            \/ cpu \in {"header", "length", "crc", "execute"}

HistoryInv ==
  \A k \in 1..Len(executed) :
    /\ executed[k] # 0 /\ executed[k] <= Cur
    /\ NotYet => executed[k] < Cur
    /\ \A j \in 1..(k - 1) : executed[j] < executed[k]

PatientInv ==
  /\ LinkInv /\ HandlerShape /\ TasksWait /\ GateInv /\ FlightInv
  /\ OrderInv /\ ReceivingInv /\ CompleteInv /\ HistoryInv

(* What Command takes for granted of the bytes of a command: they reach    *)
(* recv_pack while the pack before them has been dealt with and its reply, *)
(* the data of which may be in recv_pack, is not waiting to be copied.     *)
QuietArrival ==
  [][recv_pack' # recv_pack => ~is_recv_pack /\ cpu \notin RecvPcs /\ ~ReplyQueued]_vars

-----------------------------------------------------------------------------
(* What holds of a paced master.                                           *)

(* A finished read that the handler has not answered by lowering GPIO5.    *)
RdPending == rdDone \/ (isr # "off" /\ regRd)

(* A fragment that the master wrote and that is not in recv_pack yet, and  *)
(* the fragment the handler sees next: that one, or the one to be written. *)
Unstored == wrDone \/ (isr \in {"clear", "read0", "store"} /\ regWr)
Exp == IF Unstored THEN w0 ELSE Frag(nextPack, nextFrag)

(* One transaction at a time, and the handler is done with it before the   *)
(* master begins the next one.                                             *)
PaceInv ==
  /\ mst # "idle" => isr = "off" /\ ~wrDone /\ ~rdDone
  /\ isr = "clear" => (regWr <=> wrDone) /\ (regRd <=> rdDone)
  /\ isr \in {"read0", "store", "leave"} => ~wrDone /\ ~rdDone
  /\ isr \in {"read0", "store"} => regWr
  /\ isr = "store" => buf0 = w0

(* The master's place in its commands, and that of the fragment before it. *)
PlaceInv ==
  /\ nextPack <= NPacks => nextFrag < Num(ReqLen[nextPack])
  /\ nextPack > NPacks => nextFrag = 0
  /\ Unstored =>
       /\ w0.pack \in Packs /\ w0.idx < Num(ReqLen[w0.pack])
       /\ IF EndBit(w0, ReqLen) THEN nextPack = w0.pack + 1 /\ nextFrag = 0
                                ELSE nextPack = w0.pack /\ nextFrag = w0.idx + 1

(* The handler counts the fragments of the pack the master is sending.     *)
CountInv == isReceive => ~is_recv_pack /\ pack_counter = Exp.idx

PacedInv == LinkInv /\ PaceInv /\ PlaceInv /\ CountInv /\ BufferBound

-----------------------------------------------------------------------------
(* What holds of a master that is both patient and paced.                  *)

Processing == cpu \in {"header", "length", "crc", "execute"}
NotExecuted == Sending \/ Unstored \/ recvQ > 0 \/ Processing

(* While a command comes in, every fragment of it so far is in the open    *)
(* buffer, and the receive task does not run.                              *)
IncomingInv ==
  /\ Sending \/ Unstored => ~is_recv_pack /\ recvQ = 0 /\ cpu \notin RecvPcs
  /\ isReceive <=> Exp.idx > 0
  /\ \A s \in 0..(Exp.idx - 1) :
       s \in DOMAIN recv_pack /\ recv_pack[s] = Frag(Exp.pack, s)
  /\ Exp.idx > 0 => recv_lenth = Chunk * Exp.idx

(* From its last fragment to its execution the buffer holds it whole, so   *)
(* that every check of the task succeeds.                                  *)
ArrivedInv ==
  /\ recvQ > 0 \/ Processing => Cur \in Packs /\ Holds(Cur) /\ recv_lenth = ReqLen[Cur]
  /\ cpu \in {"length", "crc", "execute"} => hdr = Cur

ExecutedInv == executed = [k \in 1..(IF NotExecuted THEN Cur - 1 ELSE Cur) |-> k]

WholeInv == PacedInv /\ PatientInv /\ IncomingInv /\ ArrivedInv /\ ExecutedInv

-----------------------------------------------------------------------------
(* The way back, for a paced master.                                       *)

(* There is something to send whenever the send task is called or runs.    *)
SendInv ==
  /\ sendQ > 0 => wifi_pack_send \in Outgoing
  /\ cpu \in SendPcs => send_pack \in Outgoing /\ i < Num(RepLen[send_pack])

(* Nothing of a pack is between slave and master.                          *)
WayFree == ~Offered /\ ~RdPending

FirstFrags(p, n) == [k \in 1..n |-> Frag(p, k - 1)]

(* The handshake: GPIO5 is up until the fragment has been read and the     *)
(* handler knows, and wr_rdy only when nothing is on offer.                *)
OfferInv ==
  /\ gpio5 => fresh \/ RdPending
  /\ mst = "read" => snap = w8 /\ fresh
  /\ RdPending => ~fresh /\ mst # "read"
  /\ wr_rdy => WayFree
  /\ cpu \in {"load", "raise"} => WayFree /\ ~wr_rdy
  /\ cpu = "spin" /\ i = 0 => wr_rdy

(* What the master has put together is what was loaded before.             *)
TransitInv ==
  /\ cpu \in {"fragment", "spin"} /\ i > 0 =>
       /\ w8 = Frag(send_pack, i - 1) /\ ~EndBit(w8, RepLen)
       /\ ~fresh => mbuf = FirstFrags(send_pack, i)
       /\ wr_rdy => ~fresh
  /\ fresh /\ Offered /\ w8.idx > 0 => mbuf = FirstFrags(w8.pack, w8.idx)
  /\ cpu \in {"load", "raise"} /\ i > 0 => mbuf = FirstFrags(send_pack, i)
  /\ cpu = "raise" => w8 = Frag(send_pack, i) /\ fresh

(* The last fragment of a pack may still be on its way.                    *)
ReplyInv ==
  IF fresh /\ Offered /\ EndBit(w8, RepLen) THEN sentOk = Append(replies, w8.pack)
                                             ELSE replies = sentOk

(* A fragment that is unread and no longer on offer is none of a pack that *)
(* was reported as sent since sendings are clean.                          *)
UnreadInv ==
  /\ fresh /\ ~Offered /\ cpu # "raise" => ~EndBit(w8, RepLen) \/ sentOk = <<>>
  /\ cpu = "load" /\ i > 0 => ~fresh

(* All that is lost when a sending begins next to an unread fragment, and  *)
(* holds again when one begins with the way free.                          *)
CleanInv == OfferInv /\ TransitInv /\ ReplyInv /\ UnreadInv

BackInv == SendInv /\ (clean => CleanInv)
=============================================================================
