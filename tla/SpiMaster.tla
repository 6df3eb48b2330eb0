----------------------------- MODULE SpiMaster -----------------------------
(***************************************************************************)
(* An SPI controller as master: src/mesh_demo/driver/spi_interface.c and   *)
(* the byte functions of driver/spi.c.  A call sets up the phases of a     *)
(* transfer bit by bit in SPI_USER, on top of what the calls before have   *)
(* left there, starts it, and waits for its end or not.  The controller    *)
(* and the slave are external.  Clock, pins, the length of command and     *)
(* address and the set-up as slave are left out.                           *)
(***************************************************************************)
EXTENDS Integers

CONSTANTS
  Mixes,        \* ways to use it: inits, what has set it up; calls, those made
  MaxSpiCalls   \* bound: calls

Functions == {"SendData", "RecvData", "SendStatus", "RecvStatus",
              "lcd_9bit_write", "byte_write", "byte_write_espslave",
              "byte_read_espslave"}

(* SpiData: cmd 0 stands for cmdLen 0, data is dataLen in bytes; nullArg   *)
(* is the pointer that is NULL.                                            *)
SpiCall == [f : Functions, cmd : 0..6, addr : BOOLEAN, data : 0..64,
            nullArg : {"none", "addr", "data"}]

ASSUME SpiAssumption ==
  /\ \A m \in Mixes : m.inits \subseteq {"SPIInit", "spi_master_init"}
                     /\ m.calls \subseteq SpiCall
  /\ MaxSpiCalls \in Nat

VARIABLES
  mix,                \* how it is used, of Mixes
  user, command, w0,  \* the bits SPI_USR_... of SPI_USER, the command, SPI_W0...
  len,                \* SPI_USR_MOSI_BITLEN and _MISO_BITLEN, in bytes
  usr, transDone,     \* SPI_USR: a transfer runs; SPI_TRANS_DONE
  spiPc,              \* what the running call waits for
  \* history
  calls,              \* calls made, and so the number of the last
  asked, seen,        \* the last transfer as its call wants it; on the wire
  met,                \* that call found the registers as it takes them to be
  got                 \* what a call read last, and its number

spiVars == <<mix, user, command, w0, len, usr, transDone, spiPc, calls, asked, seen, met, got>>

None == [phases |-> {}, cmd |-> 0, word |-> 0, len |-> 0]

(* SPIInit as master enables MOSI only, spi_master_init the command.       *)
SpiInit ==
  /\ mix \in Mixes
  /\ user = {p \in {"MOSI", "COMMAND"} :
              \/ p = "MOSI" /\ "SPIInit" \in mix.inits
              \/ p = "COMMAND" /\ "spi_master_init" \in mix.inits}
  /\ command = 0 /\ w0 = 0 /\ len = [MOSI |-> 1, MISO |-> 1]
  /\ usr = FALSE /\ transDone = FALSE /\ spiPc = "idle"
  /\ calls = 0 /\ asked = None /\ seen = None /\ met = TRUE /\ got = [call |-> 0, word |-> 0]

With(bits, b, on) == IF on THEN bits \cup {b} ELSE bits \ {b}

(* Command and address of SPIMasterSendData and SPIMasterRecvData.         *)
Header(k) == With(With(user, "COMMAND", k.cmd # 0), "ADDR", k.addr)

MutSendPhases(k) ==
  IF k.data # 0 THEN Header(k) \cup {"MOSI"} ELSE Header(k) \ {"MOSI"}

(* SPIMasterSendData: without data MISO stays as it was.                   *)
SendPhases(k) ==
  IF k.data # 0 THEN (Header(k) \cup {"MOSI"}) \ {"MISO"} ELSE Header(k) \ {"MOSI"}

(* SPIMasterRecvData.                                                      *)
RecvPhases(k) == With(Header(k) \ {"MOSI"}, "MISO", k.data # 0)

(* SPIMasterSendStatus and _RecvStatus, spi_byte_write_espslave and        *)
(* _read_espslave: none of them sets COMMAND.                              *)
Status(on, off) == (user \cup {on}) \ {off, "DUMMY", "ADDR"}

Phases(k) ==
  CASE k.f = "SendData" -> SendPhases(k)
    [] k.f = "RecvData" -> RecvPhases(k)
    [] k.f \in {"SendStatus", "byte_write_espslave"} -> Status("MOSI", "MISO")
    [] k.f \in {"RecvStatus", "byte_read_espslave"} -> Status("MISO", "MOSI")
    [] k.f = "byte_write" -> user \ {"MOSI", "MISO"}
    [] k.f = "lcd_9bit_write" -> user

Command(k) ==
  CASE k.f \in {"SendData", "RecvData"} -> k.cmd
    [] k.f = "SendStatus" -> 1 [] k.f = "RecvStatus" -> 4
    [] k.f = "byte_write_espslave" -> 4 [] k.f = "byte_read_espslave" -> 6
    [] OTHER -> calls + 1   \* the byte to write

(* The espslave functions use the length of the call before.               *)
Lengths(k) ==
  CASE k.f = "SendData" -> [len EXCEPT !.MOSI = k.data]
    [] k.f = "RecvData" -> [len EXCEPT !.MISO = k.data]
    [] k.f = "SendStatus" -> [len EXCEPT !.MOSI = 1]
    [] k.f = "RecvStatus" -> [len EXCEPT !.MISO = 1]
    [] OTHER -> len

Sends(k) == (k.f = "SendData" /\ k.data # 0) \/ k.f \in {"SendStatus", "byte_write_espslave"}
Receives(k) == (k.f = "RecvData" /\ k.data # 0) \/ k.f \in {"RecvStatus", "byte_read_espslave"}

(* The transfer a call is for.                                             *)
Asked(k) ==
  [phases |-> {p \in {"COMMAND", "ADDR", "MOSI", "MISO"} :
                 \/ p = "COMMAND" /\ Command(k) # 0
                 \/ p = "ADDR" /\ k.f \in {"SendData", "RecvData"} /\ k.addr
                 \/ p = "MOSI" /\ Sends(k)
                 \/ p = "MISO" /\ Receives(k)},
   cmd |-> Command(k), word |-> IF Sends(k) THEN calls + 1 ELSE 0,
   len |-> IF k.f \in {"SendData", "RecvData"} THEN k.data
           ELSE IF Sends(k) \/ Receives(k) THEN 1 ELSE 0]

(* What a call takes for granted of what the calls before it have left:    *)
(* only SPIMasterSendData and _RecvData set COMMAND and ADDR, the first    *)
(* without data leaves MISO alone, the espslave functions leave the length *)
(* alone, spi_byte_write ADDR, and spi_lcd_9bit_write every phase.         *)
Relies(k) ==
  /\ k.f \notin {"SendData", "RecvData"} => "COMMAND" \in user
  /\ k.f = "SendData" /\ k.data = 0 => "MISO" \notin user
  /\ k.f = "byte_write_espslave" => len.MOSI = 1
  /\ k.f = "byte_read_espslave" => len.MISO = 1
  /\ k.f = "byte_write" => "ADDR" \notin user
  /\ k.f = "lcd_9bit_write" => user = {"COMMAND"}

-----------------------------------------------------------------------------
(* A call that gets a NULL pointer returns -1 with a part of the set-up    *)
(* done.                                                                   *)
CallFails(k) ==
  /\ spiPc = "idle" /\ ~usr /\ calls < MaxSpiCalls
  /\ k.f \in {"SendData", "RecvData"}
  /\ (k.nullArg = "addr" /\ k.addr) \/ (k.nullArg = "data" /\ k.data # 0)
  /\ user' = IF k.nullArg = "addr" THEN With(user, "COMMAND", k.cmd # 0) ELSE Header(k)
  /\ command' = k.cmd /\ calls' = calls + 1
  /\ UNCHANGED <<mix, w0, len, usr, transDone, spiPc, asked, seen, met, got>>

(* Every call waits for SPI_USR to go down before it sets up and starts    *)
(* its transfer.                                                           *)
Begin(k) ==
  /\ spiPc = "idle" /\ ~usr /\ calls < MaxSpiCalls
  /\ k.nullArg = "none"
  /\ user' = Phases(k) /\ command' = Command(k) /\ len' = Lengths(k)
  /\ w0' = IF Sends(k) THEN calls + 1 ELSE w0
  /\ usr' = TRUE
  /\ spiPc' = CASE k.f = "SendData" -> "trans"
                [] k.f \in {"SendStatus", "byte_write_espslave", "lcd_9bit_write"} -> "idle"
                [] OTHER -> "usr"
  /\ calls' = calls + 1 /\ asked' = Asked(k) /\ met' = Relies(k)
  /\ UNCHANGED <<mix, transDone, seen, got>>

(* The controller has done what the registers say; the slave's answer is a *)
(* word of its own.                                                        *)
Transfer ==
  /\ usr /\ usr' = FALSE /\ transDone' = TRUE
  /\ seen' = [phases |-> user, cmd |-> IF "COMMAND" \in user THEN command ELSE 0,
              word |-> IF "MOSI" \in user THEN w0 ELSE 0,
              len |-> IF "MOSI" \in user THEN len.MOSI
                      ELSE IF "MISO" \in user THEN len.MISO ELSE 0]
  /\ w0' = IF "MISO" \in user THEN -calls ELSE w0
  /\ UNCHANGED <<mix, user, command, len, spiPc, calls, asked, met, got>>

(* SPIMasterSendData returns when SPI_TRANS_DONE is set, which no other    *)
(* call resets.                                                            *)
SendReturns ==
  /\ spiPc = "trans" /\ transDone
  /\ transDone' = FALSE /\ spiPc' = "idle"
  /\ UNCHANGED <<mix, user, command, w0, len, usr, calls, asked, seen, met, got>>

(* The others return when SPI_USR is down, with what is in SPI_W0.         *)
RecvReturns ==
  /\ spiPc = "usr" /\ ~usr
  /\ spiPc' = "idle"
  /\ got' = IF "MISO" \in asked.phases THEN [call |-> calls, word |-> w0] ELSE got
  /\ UNCHANGED <<mix, user, command, w0, len, usr, transDone, calls, asked, seen, met>>

(* SPIIntClear, and SPIIntDisable of the transfer interrupt: it clears the *)
(* flag, not its enable bit.                                               *)
IntClear ==
  /\ spiPc = "idle" /\ transDone /\ transDone' = FALSE
  /\ UNCHANGED <<mix, user, command, w0, len, usr, spiPc, calls, asked, seen, met, got>>

SpiNext ==
  \/ \E k \in mix.calls : Begin(k) \/ CallFails(k)
  \/ Transfer \/ SendReturns \/ RecvReturns \/ IntClear

SpiSpec == SpiInit /\ [][SpiNext]_spiVars

-----------------------------------------------------------------------------
(* A use that keeps what its calls rely on: the status and byte functions, *)
(* which never set COMMAND, find it set by spi_master_init and cleared by  *)
(* no call; after reads nothing is sent without data; next to the espslave *)
(* functions data comes one byte at a time; next to spi_byte_write nothing *)
(* sets ADDR, and next to spi_lcd_9bit_write no other phase at all.        *)
Suited(m) ==
  LET Uses(f) == \E k \in m.calls : k.f = f
  IN /\ (\E f \in Functions \ {"SendData", "RecvData"} : Uses(f)) =>
          /\ "spi_master_init" \in m.inits
          /\ \A k \in m.calls : k.f \in {"SendData", "RecvData"} => k.cmd # 0
     /\ (\E k \in m.calls : k.f = "SendData" /\ k.data = 0) => ~\E k \in m.calls : Receives(k)
     /\ Uses("byte_write_espslave") => \A k \in m.calls : k.f = "SendData" => k.data = 1
     /\ Uses("byte_read_espslave") => \A k \in m.calls : k.f = "RecvData" => k.data = 1
     /\ Uses("byte_write") => \A k \in m.calls : ~k.addr
     /\ Uses("lcd_9bit_write") =>
          /\ "SPIInit" \notin m.inits
          /\ \A k \in m.calls : ~k.addr /\ ~Sends(k) /\ ~Receives(k)

(* Of any use: a transfer has on the wire the phases, the command, the     *)
(* data and the length its call asked for exactly if the registers were as *)
(* that call takes them to be, so that whatever else the calls before have *)
(* left set, and however early they returned, is harmless, and nothing it  *)
(* relies on is made up for; a suited use never breaks it, a call with a   *)
(* NULL pointer included; and a call that reads returns the answer of its  *)
(* own transfer (183-417 of spi_interface.c).  The status functions after  *)
(* SPIInit alone do break it: their command is never sent.                 *)
TransferAsAsked ==
  /\ ~usr => (seen = asked <=> met)
  /\ Suited(mix) => met
  /\ got.word = -got.call
=============================================================================
