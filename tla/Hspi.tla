-------------------------------- MODULE Hspi --------------------------------
(***************************************************************************)
(* The HSPI slave link of src/mesh_demo/demo/user_hspi.c: the ESP8266 is   *)
(* the SPI slave of an STM32 (the master).  Commands arrive as fragments   *)
(* of 32 bytes (one command byte, at most 31 data bytes), the interrupt    *)
(* handler puts them together in recv_pack, a task checks and executes the *)
(* pack, another task sends the reply back in fragments of the same form   *)
(* -- and also what mesh_bin_proto_parser (mesh_bin.c) has from the mesh.  *)
(*                                                                         *)
(* Operators named Mut... are plausible mistakes in the operator that      *)
(* follows them; no specification uses them, they serve to see that the    *)
(* properties would notice.                                                *)
(*                                                                         *)
(* The CPU has one core: `cpu' is the program counter of the task that     *)
(* runs (tasks run to completion), `isr' that of the interrupt handler,    *)
(* which suspends the task.  The SPI hardware and the master (`mst') run   *)
(* beside both.  A pack is named by its position in the order the master   *)
(* sends them, and so is the reply to it; the packets of the mesh are      *)
(* numbered after them.  The number 0 stands for bytes of no pack.         *)
(***************************************************************************)
EXTENDS Integers, Sequences

CONSTANTS
  NPacks,      \* number of packs the master sends
  NMesh,       \* bound: packets the mesh delivers for the master
  ReqLen,      \* ReqLen[p]: bytes of command p, its 7 byte header included
  RepLen,      \* RepLen[p]: bytes of the reply to command p, or of the frame
               \* for packet p of the mesh, header included
  Answered,    \* commands with a reply (all but CMD_SEND_MESH_DATA)
  QueueLen,    \* HSPI_RECV_QUEUE_LEN and HSPI_SEND_QUEUE_LEN
  TMax,        \* initial value of the spin counter t (3000000 in the code)
  Paced,       \* the master leaves the handler time after each transaction
  Patient,     \* the master sends a command only when that before it and
               \* its reply are done with, and it has read what is on offer
  Prompt,      \* the master reads a raised fragment before t runs out
  LowHeap,     \* os_malloc may fail
  MaxRereads   \* bound: reads of a fragment that was read before

Packs == 1..NPacks
Outgoing == 1..(NPacks + NMesh)
Header == 7    \* sizeof(struct wifi_pack) without its data pointer
Chunk == 31    \* data bytes of a fragment

ASSUME HspiAssumption ==
  /\ NPacks \in Nat /\ NMesh \in Nat /\ QueueLen \in Nat \ {0} /\ TMax \in Nat \ {0}
  /\ MaxRereads \in Nat
  /\ ReqLen \in [Packs -> Nat \ 0..(Header - 1)]
  /\ RepLen \in [Outgoing -> Nat \ 0..(Header - 1)]
  /\ Answered \subseteq Packs
  /\ {Paced, Patient, Prompt, LowHeap} \subseteq BOOLEAN

(***************************************************************************)
(* How a pack of `lenth' bytes is cut: num fragments, the last one holding *)
(* last_byte bytes.                                                        *)
(***************************************************************************)
LastByte(lenth) == IF lenth % Chunk = 0 THEN Chunk ELSE lenth % Chunk
Num(lenth) == IF lenth % Chunk = 0 THEN lenth \div Chunk
                                   ELSE lenth \div Chunk + 1

(* Fragment i of pack p.  `Torn' is a mixture of two fragments, or none.   *)
Frag(p, i) == [pack |-> p, idx |-> i]
Torn == Frag(0, 0)
Fragments == [pack : 0..NPacks, idx : Nat]
Offers == [pack : 0..(NPacks + NMesh), idx : Nat]

(* The command byte of a fragment, given the lengths of the packs.         *)
StartBit(f) == f.idx = 0
EndBit(f, lens) == f.pack # 0 /\ f.idx = Num(lens[f.pack]) - 1
Bytes(f, lens) == IF EndBit(f, lens) THEN LastByte(lens[f.pack]) ELSE Chunk

VARIABLES
  \* the SPI controller and the two handshake lines
  w0,          \* W0..W7: the fragment the master wrote last
  w8,          \* W8..W15: the fragment loaded for the master to read
  wrDone,      \* SPI_SLV_WR_BUF_DONE
  rdDone,      \* SPI_SLV_RD_BUF_DONE
  gpio4,       \* level of GPIO4: the slave is ready for a fragment
  gpio5,       \* level of GPIO5: a fragment waits for the master
  \* the interrupt handler
  isr, regWr, regRd, buf0, isReceive, pack_counter,
  \* the receive side
  recv_pack, recv_lenth, is_recv_pack, recvQ, hdr,
  \* the send side
  wifi_pack_send, sendQ, send_pack, i, t, wr_rdy,
  \* the task that runs
  cpu,
  \* the master
  mst, nextPack, nextFrag, snap, rereads, mbuf,
  \* what happened: history variables
  nMesh,       \* packets the mesh has delivered
  fresh,       \* the fragment in w8 has not been read yet
  executed,    \* packs command_execute ran on, 0 for bytes of no pack
  clean,       \* the sending that began last found no fragment on offer
  spoilt,      \* packs that were replaced before hspi_send_task took them,
               \* and those before and in a sending that was not clean
  sentOk,      \* packs for which spi_send_data returned 0, and ...
  replies      \* ... packs the master put together, both since the first
               \* clean sending after the last one that was not

hw   == <<w0, w8, wrDone, rdDone, gpio4, gpio5>>
handler == <<isr, regWr, regRd, buf0, isReceive, pack_counter>>
rx   == <<recv_pack, recv_lenth, is_recv_pack, recvQ, hdr>>
tx   == <<wifi_pack_send, sendQ, send_pack, i, t, wr_rdy>>
master == <<mst, nextPack, nextFrag, snap, rereads, mbuf>>
history == <<nMesh, fresh, executed, clean, spoilt, sentOk, replies>>
vars == <<hw, handler, rx, tx, cpu, master, history>>

(* system_os_post: the event is lost when the queue is full, and neither   *)
(* caller looks at the result.  All events of a queue are equal.           *)
MutPost(q) == IF q < QueueLen - 1 THEN q + 1 ELSE q
Post(q) == IF q < QueueLen THEN q + 1 ELSE q

RecvPcs == {"header", "length", "crc", "execute", "done", "reset"}
SendPcs == {"fragment", "spin", "load", "raise"}

-----------------------------------------------------------------------------
(* The state hspi_slave_init leaves.                                       *)
Init ==
  /\ w0 = Torn /\ w8 = Torn /\ wrDone = FALSE /\ rdDone = FALSE
  /\ gpio4 = TRUE /\ gpio5 = FALSE
  /\ isr = "off" /\ regWr = FALSE /\ regRd = FALSE /\ buf0 = Torn
  /\ isReceive = FALSE /\ pack_counter = 0
  /\ recv_pack = <<>> /\ recv_lenth = 0 /\ is_recv_pack = FALSE
  /\ recvQ = 0 /\ hdr = 0
  /\ wifi_pack_send = 0 /\ sendQ = 0 /\ send_pack = 0
  /\ i = 0 /\ t = 0 /\ wr_rdy = TRUE
  /\ cpu = "idle"
  /\ mst = "idle" /\ nextPack = 1 /\ nextFrag = 0 /\ snap = Torn
  /\ rereads = 0 /\ mbuf = <<>>
  /\ nMesh = 0 /\ fresh = FALSE /\ executed = <<>>
  /\ clean = TRUE /\ spoilt = {} /\ sentOk = <<>> /\ replies = <<>>

-----------------------------------------------------------------------------
(* The interrupt handler spi_slave_isr_sta.  The master may raise another  *)
(* flag, or change W0..W7, between any two of its steps.                   *)

IsrEnter ==     \* regvalue = READ_PERI_REG(SPI_SLAVE(SpiNum_HSPI))
  /\ isr = "off" /\ (wrDone \/ rdDone)
  /\ regWr' = wrDone /\ regRd' = rdDone
  /\ isr' = "clear"
  /\ UNCHANGED <<hw, buf0, isReceive, pack_counter, rx, tx, cpu, master, history>>

IsrClear ==     \* SPIIntClear drops every flag, then GPIO4 goes down
  /\ isr = "clear"
  /\ wrDone' = FALSE /\ rdDone' = FALSE
  /\ IF regWr THEN gpio4' = FALSE /\ isr' = "read0"
              ELSE gpio4' = gpio4 /\ isr' = "leave"
  /\ UNCHANGED <<w0, w8, gpio5, regWr, regRd, buf0, isReceive, pack_counter,
                 rx, tx, cpu, master, history>>

IsrRead0 ==     \* the word W0 with the command byte
  /\ isr = "read0"
  /\ buf0' = w0
  /\ isr' = "store"
  /\ UNCHANGED <<hw, regWr, regRd, isReceive, pack_counter, rx, tx, cpu,
                 master, history>>

(* A fragment with the start bit sets both counters back to 0.             *)
MutSlot(start) == pack_counter
Slot(start) == IF start THEN 0 ELSE pack_counter
MutLengthSoFar(start) == recv_lenth
LengthSoFar(start) == IF start THEN 0 ELSE recv_lenth

(* recv_pack with the data bytes of the buffer in one slot; the others     *)
(* keep what earlier packs left there.                                     *)
MutStoreSlot(slot, f) ==
  [s \in DOMAIN recv_pack \cup {slot - 1} |-> IF s = slot - 1 THEN f ELSE recv_pack[s]]
StoreSlot(slot, f) ==
  [s \in DOMAIN recv_pack \cup {slot} |-> IF s = slot THEN f ELSE recv_pack[s]]

IsrStore ==     \* W1..W7 are read; the fragment goes to recv_pack
  LET start == StartBit(buf0)
      receiving == isReceive \/ start
      slot == Slot(start)
      data == IF buf0 = w0 THEN w0 ELSE Torn
  IN /\ isr = "store"
     /\ isr' = "leave"
     /\ IF ~is_recv_pack /\ receiving
        THEN /\ recv_lenth' = LengthSoFar(start) + Bytes(buf0, ReqLen)
             /\ recv_pack' = StoreSlot(slot, data)
             /\ IF EndBit(buf0, ReqLen)
                THEN /\ isReceive' = FALSE /\ pack_counter' = slot
                     /\ is_recv_pack' = TRUE
                     /\ recvQ' = Post(recvQ)
                ELSE /\ isReceive' = TRUE /\ pack_counter' = slot + 1
                     /\ UNCHANGED <<is_recv_pack, recvQ>>
        ELSE UNCHANGED <<recv_lenth, recv_pack, isReceive, pack_counter,
                         is_recv_pack, recvQ>>
     /\ UNCHANGED <<hw, regWr, regRd, buf0, hdr, tx, cpu, master, history>>

IsrLeave ==     \* GPIO4 up again; a finished read frees the send buffer
  /\ isr = "leave"
  /\ IF regWr THEN gpio4' = TRUE ELSE gpio4' = gpio4
  /\ IF regRd THEN gpio5' = FALSE /\ wr_rdy' = TRUE
              ELSE UNCHANGED <<gpio5, wr_rdy>>
  /\ isr' = "off"
  /\ UNCHANGED <<w0, w8, wrDone, rdDone, regWr, regRd, buf0, isReceive,
                 pack_counter, rx, wifi_pack_send, sendQ, send_pack, i, t, cpu,
                 master, history>>

Isr == IsrEnter \/ IsrClear \/ IsrRead0 \/ IsrStore \/ IsrLeave

(* A task instruction runs only when no interrupt is served or pending.    *)
TaskRuns == isr = "off" /\ ~wrDone /\ ~rdDone

-----------------------------------------------------------------------------
(* The receive task: hspi_recv_task and hspi_data_process.  It has the     *)
(* lower priority of the two tasks.                                        *)

RecvTake ==
  /\ TaskRuns /\ cpu = "idle" /\ sendQ = 0 /\ recvQ > 0
  /\ recvQ' = recvQ - 1
  /\ cpu' = "header"
  /\ UNCHANGED <<hw, handler, recv_pack, recv_lenth, is_recv_pack, hdr, tx,
                 master, history>>

RecvHeader ==   \* os_memcpy(&wifi_pack_recv, recv_pack, par_lenth)
  /\ TaskRuns /\ cpu = "header"
  /\ hdr' = recv_pack[0].pack
  /\ cpu' = "length"
  /\ UNCHANGED <<hw, handler, recv_pack, recv_lenth, is_recv_pack, recvQ, tx,
                 master, history>>

(* A failed check opens the buffer at once; hspi_recv_task does so again.  *)
Check(ok, here, next) ==
  /\ TaskRuns /\ cpu = here
  /\ IF ok THEN cpu' = next /\ is_recv_pack' = is_recv_pack
           ELSE cpu' = "reset" /\ is_recv_pack' = FALSE
  /\ UNCHANGED <<hw, handler, recv_pack, recv_lenth, recvQ, hdr, tx, master, history>>

LengthOk == hdr # 0 /\ ReqLen[hdr] = recv_lenth

(* The CRC is taken to be ideal: it fits exactly when the buffer holds the *)
(* fragments of the pack its header came from.                             *)
Holds(p) ==
  /\ p # 0
  /\ \A s \in 0..(Num(ReqLen[p]) - 1) :
       s \in DOMAIN recv_pack /\ recv_pack[s] = Frag(p, s)

RecvLength == Check(LengthOk, "length", "crc")
MutRecvCrc == Check(TRUE, "crc", "execute")
RecvCrc == Check(Holds(hdr), "crc", "execute")

RecvExecute ==  \* command_execute reads its parameters from recv_pack
  /\ TaskRuns /\ cpu = "execute"
  /\ executed' = Append(executed, IF Holds(hdr) THEN hdr ELSE 0)
  /\ IF hdr \in Answered
     THEN wifi_pack_send' = hdr /\ sendQ' = Post(sendQ)
     ELSE UNCHANGED <<wifi_pack_send, sendQ>>
  /\ cpu' = "done"
  /\ UNCHANGED <<hw, handler, rx, send_pack, i, t, wr_rdy, master, nMesh, fresh,
                 clean, spoilt, sentOk, replies>>

MutReopen(here, next) ==
  /\ TaskRuns /\ cpu = here
  /\ cpu' = next
  /\ UNCHANGED <<hw, handler, rx, tx, master, history>>
Reopen(here, next) ==
  /\ TaskRuns /\ cpu = here
  /\ is_recv_pack' = FALSE
  /\ cpu' = next
  /\ UNCHANGED <<hw, handler, recv_pack, recv_lenth, recvQ, hdr, tx, master, history>>

RecvDone == Reopen("done", "reset")     \* the end of hspi_data_process
RecvReset == Reopen("reset", "idle")    \* and once more in hspi_recv_task

RecvTask == RecvTake \/ RecvHeader \/ RecvLength \/ RecvCrc \/ RecvExecute
              \/ RecvDone \/ RecvReset

-----------------------------------------------------------------------------
(* A packet comes from the mesh: mesh_bin_proto_parser, called by the SDK  *)
(* (external) between two tasks, overwrites what is there to be sent.      *)
MeshPacket ==
  /\ TaskRuns /\ cpu = "idle" /\ nMesh < NMesh
  /\ nMesh' = nMesh + 1
  /\ wifi_pack_send' = NPacks + nMesh' /\ sendQ' = Post(sendQ)
  /\ spoilt' = IF sendQ > 0 THEN spoilt \cup {wifi_pack_send} ELSE spoilt
  /\ UNCHANGED <<hw, handler, rx, send_pack, i, t, wr_rdy, cpu, master, fresh,
                 executed, clean, sentOk, replies>>

-----------------------------------------------------------------------------
(* The send task: hspi_send_task, wifi_send and spi_send_data.             *)

SendTake ==     \* wifi_send copies the data; without memory it gives up
  /\ TaskRuns /\ cpu = "idle" /\ sendQ > 0
  /\ sendQ' = sendQ - 1
  /\ \/ /\ send_pack' = wifi_pack_send /\ i' = 0
        /\ cpu' = "fragment"
     \/ /\ LowHeap
        /\ UNCHANGED <<send_pack, i, cpu>>
  /\ UNCHANGED <<hw, handler, rx, wifi_pack_send, t, wr_rdy, master, history>>

(* A fragment is on offer to the master, or the master is reading it.      *)
Offered == gpio5 \/ mst = "read"

Begin ==        \* history: what the sending that begins finds
  /\ clean' = ~Offered
  /\ spoilt' = IF Offered THEN spoilt \cup {send_pack, w8.pack} ELSE spoilt
  /\ IF clean \/ Offered THEN UNCHANGED <<sentOk, replies>>
                         ELSE sentOk' = <<>> /\ replies' = <<>>

SendFragment == \* build fragment i; the first one does not wait
  /\ TaskRuns /\ cpu = "fragment"
  /\ IF i = 0 THEN wr_rdy' = TRUE /\ Begin
              ELSE UNCHANGED <<wr_rdy, clean, spoilt, sentOk, replies>>
  /\ t' = TMax
  /\ cpu' = "spin"
  /\ UNCHANGED <<hw, handler, rx, wifi_pack_send, sendQ, send_pack, i, master,
                 nMesh, fresh, executed>>

MutSendSpin ==
  /\ TaskRuns /\ cpu = "spin" /\ ~wr_rdy /\ t # 0
  /\ Prompt => t > 1
  /\ UNCHANGED vars
SendSpin ==     \* one round of the waiting loop
  /\ TaskRuns /\ cpu = "spin" /\ ~wr_rdy /\ t # 0
  /\ Prompt => t > 1
  /\ t' = t - 1
  /\ UNCHANGED <<hw, handler, rx, wifi_pack_send, sendQ, send_pack, i, wr_rdy,
                 cpu, master, history>>

MutSendClaim ==
  /\ TaskRuns /\ cpu = "spin" /\ (wr_rdy \/ t = 0)
  /\ wr_rdy' = FALSE
  /\ cpu' = "load"
  /\ UNCHANGED <<hw, handler, rx, wifi_pack_send, sendQ, send_pack, i, t, master, history>>
SendClaim ==    \* the loop ends and the flag is taken
  /\ TaskRuns /\ cpu = "spin" /\ (wr_rdy \/ t = 0)
  /\ wr_rdy' = FALSE
  /\ IF t = 0 THEN gpio5' = FALSE /\ cpu' = "idle"
              ELSE gpio5' = gpio5 /\ cpu' = "load"
  /\ UNCHANGED <<w0, w8, wrDone, rdDone, gpio4, handler, rx, wifi_pack_send,
                 sendQ, send_pack, i, t, master, history>>

SendLoad ==     \* SPISlaveSendData
  /\ TaskRuns /\ cpu = "load"
  /\ w8' = Frag(send_pack, i)
  /\ fresh' = TRUE
  /\ cpu' = "raise"
  /\ UNCHANGED <<w0, wrDone, rdDone, gpio4, gpio5, handler, rx, tx, master,
                 nMesh, executed, clean, spoilt, sentOk, replies>>

SendRaise ==    \* GPIO5 up; after the last fragment spi_send_data returns 0
  /\ TaskRuns /\ cpu = "raise"
  /\ gpio5' = TRUE
  /\ IF EndBit(Frag(send_pack, i), RepLen)
     THEN cpu' = "idle" /\ i' = i /\ sentOk' = Append(sentOk, send_pack)
     ELSE cpu' = "fragment" /\ i' = i + 1 /\ sentOk' = sentOk
  /\ UNCHANGED <<w0, w8, wrDone, rdDone, gpio4, handler, rx, wifi_pack_send,
                 sendQ, send_pack, t, wr_rdy, master, nMesh, fresh, executed,
                 clean, spoilt, replies>>

SendTask == SendTake \/ SendFragment \/ SendSpin \/ SendClaim \/ SendLoad \/ SendRaise

-----------------------------------------------------------------------------
(* The master (external).  It performs one transaction at a time, writes   *)
(* only when GPIO4 is up and reads only when GPIO5 is up.                  *)

AtRest == isr = "off" /\ ~wrDone /\ ~rdDone /\ cpu = "idle"
            /\ recvQ = 0 /\ sendQ = 0
Settled == Paced => isr = "off" /\ ~wrDone /\ ~rdDone

(* The last command has been executed, its reply is on its way no more and *)
(* what was on offer has been read; of the mesh the master knows nothing.  *)
ReplyQueued == sendQ > 0 /\ wifi_pack_send \in Packs
Answering == ReplyQueued \/ (cpu \in SendPcs /\ send_pack \in Packs)
DoneWith == /\ isr = "off" /\ ~wrDone /\ ~rdDone
            /\ cpu \notin RecvPcs /\ recvQ = 0 /\ ~Answering
            /\ gpio5 => ~fresh

WriteBegin ==
  /\ mst = "idle" /\ gpio4 /\ nextPack <= NPacks /\ Settled
  /\ Patient /\ nextFrag = 0 => DoneWith
  /\ mst' = "write"
  /\ UNCHANGED <<hw, handler, rx, tx, cpu, nextPack, nextFrag, snap, rereads,
                 mbuf, history>>

WriteEnd ==
  /\ mst = "write"
  /\ w0' = Frag(nextPack, nextFrag)
  /\ wrDone' = TRUE
  /\ mst' = "idle"
  /\ IF EndBit(Frag(nextPack, nextFrag), ReqLen)
     THEN nextPack' = nextPack + 1 /\ nextFrag' = 0
     ELSE nextPack' = nextPack /\ nextFrag' = nextFrag + 1
  /\ UNCHANGED <<w8, rdDone, gpio4, gpio5, handler, rx, tx, cpu, snap, rereads,
                 mbuf, history>>

ReadBegin ==
  /\ mst = "idle" /\ gpio5 /\ Settled
  /\ fresh \/ rereads < MaxRereads
  /\ snap' = w8
  /\ rereads' = IF fresh THEN rereads ELSE rereads + 1
  /\ mst' = "read"
  /\ UNCHANGED <<hw, handler, rx, tx, cpu, nextPack, nextFrag, mbuf, history>>

(* The pack a sequence of fragments amounts to: 0 if it is not one whole   *)
(* reply.                                                                  *)
Whole(fs) ==
  LET p == fs[1].pack
  IN IF p # 0 /\ fs = [k \in 1..Num(RepLen[p]) |-> Frag(p, k - 1)] THEN p ELSE 0

ReadEnd ==      \* the master puts fragments together as the slave does
  LET got == IF snap = w8 THEN w8 ELSE Torn
      fs == IF StartBit(snap) THEN <<got>> ELSE Append(mbuf, got)
  IN /\ mst = "read"
     /\ rdDone' = TRUE /\ mst' = "idle"
     /\ fresh' = IF snap = w8 THEN FALSE ELSE fresh
     /\ IF EndBit(snap, RepLen)
        THEN /\ mbuf' = <<>>
             /\ replies' = IF Whole(fs) # 0 THEN Append(replies, Whole(fs)) ELSE replies
        ELSE mbuf' = fs /\ replies' = replies
     /\ UNCHANGED <<w0, w8, wrDone, gpio4, gpio5, handler, rx, tx, cpu, nextPack,
                    nextFrag, snap, rereads, nMesh, executed, clean, spoilt,
                    sentOk>>

Master == WriteBegin \/ WriteEnd \/ ReadBegin \/ ReadEnd

(* Every command is sent and the slave is at rest: nothing has to happen.  *)
Rest ==
  /\ nextPack > NPacks /\ mst = "idle" /\ AtRest
  /\ UNCHANGED vars

-----------------------------------------------------------------------------
Next == Isr \/ RecvTask \/ MeshPacket \/ SendTask \/ Master \/ Rest

Spec == Init /\ [][Next]_vars

(* The CPU does not stop, and a transaction that began ends.               *)
CpuFairness == WF_vars(Isr) /\ WF_vars(RecvTask) /\ WF_vars(SendTask)
                 /\ WF_vars(WriteEnd \/ ReadEnd)
(* The master has commands to send, and reads what the slave raises.       *)
MasterFairness == WF_vars(WriteBegin) /\ WF_vars(ReadBegin)

FairSpec == Spec /\ CpuFairness
LiveSpec == FairSpec /\ MasterFairness

-----------------------------------------------------------------------------
(* The states every variable stays in.                                     *)
HwType ==
  /\ w0 \in Fragments /\ w8 \in Offers
  /\ wrDone \in BOOLEAN /\ rdDone \in BOOLEAN /\ gpio4 \in BOOLEAN /\ gpio5 \in BOOLEAN
HandlerType ==
  /\ isr \in {"off", "clear", "read0", "store", "leave"}
  /\ regWr \in BOOLEAN /\ regRd \in BOOLEAN
  /\ buf0 \in Fragments /\ isReceive \in BOOLEAN /\ pack_counter \in Nat
RxType ==
  /\ DOMAIN recv_pack \subseteq Nat
  /\ \A s \in DOMAIN recv_pack : recv_pack[s] \in Fragments
  /\ recv_lenth \in Nat /\ is_recv_pack \in BOOLEAN
  /\ recvQ \in 0..QueueLen /\ hdr \in 0..NPacks
TxType ==
  /\ wifi_pack_send \in 0..(NPacks + NMesh) /\ sendQ \in 0..QueueLen
  /\ send_pack \in 0..(NPacks + NMesh) /\ i \in Nat /\ t \in 0..TMax /\ wr_rdy \in BOOLEAN
MasterType ==
  /\ mst \in {"idle", "write", "read"}
  /\ nextPack \in 1..(NPacks + 1) /\ nextFrag \in Nat
  /\ snap \in Offers /\ rereads \in 0..MaxRereads /\ mbuf \in Seq(Offers)
HistoryType ==
  /\ nMesh \in 0..NMesh /\ fresh \in BOOLEAN /\ executed \in Seq(0..NPacks)
  /\ clean \in BOOLEAN /\ spoilt \subseteq 0..(NPacks + NMesh)
  /\ sentOk \in Seq(0..(NPacks + NMesh)) /\ replies \in Seq(0..(NPacks + NMesh))

TypeOK ==
  /\ HwType /\ HandlerType /\ RxType /\ TxType /\ MasterType /\ HistoryType
  /\ cpu \in {"idle"} \cup RecvPcs \cup SendPcs

(* However the interrupt handler interleaves with the receive task, and    *)
(* although nobody looks at the result of system_os_post, a closed receive *)
(* buffer is always going to be opened again: an event for the task is     *)
(* queued, or the task is on its way to one of its two resets.             *)
NoWedge == is_recv_pack => recvQ > 0 \/ cpu \in RecvPcs

(* With a patient master, and however many fragments its speed makes the   *)
(* handler miss or tear, command_execute runs only on whole packs that     *)
(* were sent, on each at most once, and in the order they were sent: the   *)
(* length and CRC checks and the search for the start bit reject the rest. *)
FaithfulExecution ==
  \A k \in 1..Len(executed) :
    /\ executed[k] # 0 /\ executed[k] < nextPack
    /\ \A j \in 1..(k - 1) : executed[j] < executed[k]

(* With a master that is patient and paced no command is lost: whenever    *)
(* the link is at rest, every command sent so far has been executed once.  *)
Lossless ==
  (AtRest /\ mst = "idle" /\ nextFrag = 0) => executed = [k \in 1..(nextPack - 1) |-> k]

(* As long as no sending begins while a fragment is on offer, spi_send_data *)
(* tells the truth to a paced master, patient or not, even one that reads  *)
(* too late: with nothing left to read, the replies and mesh packets the   *)
(* master has put together are those whose sending returned 0, each as     *)
(* often and in order.  A pack given up after the timeout leaves nothing   *)
(* behind that would spoil the next one, and a sending that was not clean  *)
(* spoils no more than the packs in it: the next clean one starts afresh.  *)
RepliesMatchSent == clean /\ ~(Offered /\ fresh) => replies = sentOk

(* No pack of a paced master, pipelined or not, makes the handler write    *)
(* beyond the slots the longest command needs: fragments of two commands   *)
(* are never counted as one pack.                                          *)
BufferBound ==
  \A s \in DOMAIN recv_pack : \E p \in Packs : s < Num(ReqLen[p])

(* The last fragment of the pack reported as sent last is overwritten in   *)
(* W8..W15 although the master has not read it.                            *)
OverwritesReported ==
  /\ w8' # w8 /\ fresh /\ EndBit(w8, RepLen)
  /\ sentOk # <<>> /\ sentOk[Len(sentOk)] = w8.pack

(* A pack whose sending returned 0 stays in W8..W15 until the master has   *)
(* read it ("transmit the given bytes over SPI ... returns -1: failure, 0: *)
(* success", user_hspi.c:48-51).                                           *)
NoUnreadReplyOverwritten == [][~OverwritesReported]_vars

(* The receive buffer does not stay closed, whatever the master does.      *)
Reopens == is_recv_pack ~> ~is_recv_pack

(* spi_send_data returns even if the master never reads.                   *)
SendReturns == (cpu \in SendPcs) ~> (cpu = "idle")

(* A patient, paced master gets the reply to every command that has one,   *)
(* unless spi_send_data gives that reply up after waiting for its time, or *)
(* a packet of the mesh replaces it before it is sent, or one of the two   *)
(* is sent while a fragment of the other is still on offer.                *)
AllAnswered ==
  \A p \in Answered :
    <>(\/ \E k \in 1..Len(replies) : replies[k] = p
       \/ cpu = "spin" /\ t = 0 /\ send_pack = p
       \/ nMesh > 0 /\ p \in spoilt)
=============================================================================
