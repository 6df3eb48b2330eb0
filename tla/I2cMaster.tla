----------------------------- MODULE I2cMaster -----------------------------
(***************************************************************************)
(* The bit-banged I2C master, src/mesh_demo/driver/i2c_master.c: a call is *)
(* a sequence of half clock cycles, each setting SDA and SCL, some reading *)
(* SDA.  The slave at the other end of the open-drain lines is external.   *)
(* The master may restart in the middle of anything; the slave does not.   *)
(***************************************************************************)
EXTENDS Integers, Sequences

CONSTANT I2cBytes  \* bytes written and answered

ASSUME I2cAssumption == I2cBytes \subseteq 0..255

VARIABLES
  m_nLastSDA, m_nLastSCL,
  sda, scl,       \* what the master drives
  done, retVal,   \* half cycles done of the call, and what it has read
  slave,          \* the slave, see Deaf
  \* history
  op,             \* the call, f and its argument v
  caught          \* the last restart came when the slave had a whole byte and
                  \* was to acknowledge it; up to the end of the next START

i2cVars == <<m_nLastSDA, m_nLastSCL, sda, scl, done, retVal, slave, op, caught>>

(* A slave not spoken to: first, its byte is the address; dir, "recv" or   *)
(* "send"; pos, bits clocked of 9; shift, those bits; out, the byte it     *)
(* sends; drive, its SDA; and, as history, what it has noticed.            *)
Deaf == [on |-> FALSE, first |-> TRUE, dir |-> "recv", pos |-> 0, shift |-> 0,
         out |-> 0, drive |-> 1, heard |-> <<>>]

Bit(w, i) == (w \div 2^i) % 2

-----------------------------------------------------------------------------
(* The half cycles of each function: SDA, SCL, and the weight of the bit   *)
(* read at the end of it, 0 for none.  Only the first of a call depends on *)
(* the lines as they were before.                                          *)
DC(a, c) == <<a, c, 0>>
Get(weight) == <<1, 1, weight>>

Start == <<DC(1, m_nLastSCL), DC(1, 1), DC(0, 1)>>
Stop == <<DC(0, m_nLastSCL), DC(0, 1), DC(1, 1)>>
SetAck(level) == <<DC(m_nLastSDA, 0), DC(level, 0), DC(level, 1), DC(level, 0), DC(1, 0)>>
GetAck == <<DC(m_nLastSDA, 0), DC(1, 0), Get(1), DC(1, 0)>>

(* i2c_master_init: SDA toggled, 28 clocks and a stop.                     *)
Clear ==
  [n \in 1..62 |-> IF n > 59 THEN Stop[n - 59]
                   ELSE DC(IF n = 2 THEN 0 ELSE 1, IF n > 4 /\ n % 2 = 1 THEN 1 ELSE 0)]

(* Bits come in threes, low, high and low, and in twos, low and high.      *)
ReadByte ==
  [n \in 1..18 |-> IF n = 1 THEN DC(m_nLastSDA, 0)
                   ELSE IF n % 2 = 1 THEN Get(2^(8 - n \div 2)) ELSE DC(1, 0)]

MutWriteByte(w) ==
  [n \in 1..24 |-> DC(Bit(w, 7 - (n - 1) \div 3), IF n % 3 = 2 THEN 1 ELSE 0)]

WriteByte(w) ==
  [n \in 1..25 |-> IF n = 1 THEN DC(m_nLastSDA, 0)
                   ELSE DC(Bit(w, 7 - (n - 2) \div 3), IF n % 3 = 0 THEN 1 ELSE 0)]

Steps ==
  CASE op.f = "init" -> Clear
    [] op.f = "start" -> Start
    [] op.f = "stop" -> Stop
    [] op.f = "write" -> WriteByte(op.v)
    [] op.f = "ack" -> GetAck
    [] op.f = "read" -> ReadByte
    [] op.f = "setAck" -> SetAck(op.v)

Over == done = Len(Steps)

-----------------------------------------------------------------------------
(* The slave, external: an edge of SDA with SCL high is START or STOP; it  *)
(* samples when SCL rises, and drives and turns around when SCL falls.     *)
Heard(s, f, v) == [s EXCEPT !.heard = Append(@, [f |-> f, v |-> v])]

Rise(s, bit) ==
  LET t == [s EXCEPT !.pos = @ + 1, !.shift = 2 * @ + bit]
  IN CASE ~s.on -> s
       [] s.on /\ s.pos = 7 -> Heard(t, "byte", IF s.dir = "send" THEN s.out ELSE t.shift)
       [] s.on /\ s.pos = 8 -> Heard(t, "ack", IF s.dir = "send" THEN bit ELSE s.drive)
       [] OTHER -> t

(* After a frame a NACK, of either side, ends the talk.                    *)
NextFrame(s, answer) ==
  IF s.shift % 2 = 1 THEN [Deaf EXCEPT !.heard = s.heard]
  ELSE [s EXCEPT !.pos = 0, !.shift = 0, !.out = answer, !.first = FALSE,
                 !.dir = IF s.first /\ Bit(s.shift, 1) = 1 THEN "send" ELSE @]

Fall(s, answer, ack) ==
  LET t == IF s.on /\ s.pos = 9 THEN NextFrame(s, answer) ELSE s
  IN [t EXCEPT !.drive = CASE t.dir = "send" /\ t.pos < 8 -> Bit(t.out, 7 - t.pos)
                           [] t.dir = "recv" /\ t.pos = 8 -> ack
                           [] OTHER -> 1]

Edge(s, up) ==
  IF up THEN Heard([Deaf EXCEPT !.heard = s.heard], "stop", 0)
  ELSE Heard([Deaf EXCEPT !.heard = s.heard, !.on = TRUE], "start", 0)

(* The master's lines go from a0, c0 to a1, c1.                            *)
Lines(s, a0, c0, a1, c1, answer, ack) ==
  CASE c0 < c1 -> Rise(s, a1 * s.drive)
    [] c0 > c1 -> Fall(s, answer, ack)
    [] c0 = 1 /\ c1 = 1 /\ a0 * s.drive # a1 * s.drive -> Edge(s, a1 = 1)
    [] OTHER -> s

-----------------------------------------------------------------------------
I2cInit ==
  /\ m_nLastSDA = 0 /\ m_nLastSCL = 0 /\ sda = 1 /\ scl = 1
  /\ done = 0 /\ retVal = 0 /\ slave = Deaf
  /\ op = [f |-> "init", v |-> 0] /\ caught = FALSE

(* i2c_master_setDC, and i2c_master_getDC where the function calls it.  If *)
(* both lines changed, which one first were up to gpio_output_set.         *)
Half(answer, ack) ==
  /\ ~Over
  /\ LET a == Steps[done + 1][1]
         c == Steps[done + 1][2]
     IN /\ m_nLastSDA' = a /\ m_nLastSCL' = c
        /\ sda' = a /\ scl' = c
        /\ \/ /\ sda = a \/ scl = c
              /\ slave' = Lines(slave, sda, scl, a, c, answer, ack)
           \/ /\ sda # a /\ scl # c
              /\ slave' = Lines(Lines(slave, sda, scl, a, scl, answer, ack),
                                a, scl, a, c, answer, ack)
           \/ /\ sda # a /\ scl # c
              /\ slave' = Lines(Lines(slave, sda, scl, sda, c, answer, ack),
                                sda, c, a, c, answer, ack)
        /\ retVal' = retVal + Steps[done + 1][3] * (a * slave'.drive)
  /\ done' = done + 1
  /\ UNCHANGED <<op, caught>>

(* A call, one that the protocol allows: after START, and after the bytes  *)
(* and acknowledgements so far.                                            *)
Call(f, v) ==
  /\ Over
  /\ done' = 0 /\ retVal' = 0 /\ op' = [f |-> f, v |-> v]
  /\ slave' = [slave EXCEPT !.heard = <<>>] /\ caught' = (caught /\ f = "start")
  /\ UNCHANGED <<m_nLastSDA, m_nLastSCL, sda, scl>>

Free == op.f \in {"init", "stop", "ack", "setAck"} /\ slave.dir = "recv"
MayWrite == op.f = "start" \/ (op.f = "ack" /\ retVal = 0 /\ slave.dir = "recv")
MayRead == slave.dir = "send" /\ ((op.f = "ack" /\ retVal = 0) \/ (op.f = "setAck" /\ op.v = 0))

Calls ==
  \/ Free /\ Call("start", 0)
  \/ Free /\ op.f \in {"ack", "setAck"} /\ Call("stop", 0)
  \/ \E w \in I2cBytes : MayWrite /\ Call("write", w)
  \/ op.f = "write" /\ Call("ack", 0)
  \/ MayRead /\ Call("read", 0)
  \/ \E level \in 0..1 : op.f = "read" /\ Call("setAck", level)

(* The chip restarts at any moment, which lets go of both lines, and comes *)
(* to i2c_master_gpio_init.                                                *)
Restart ==
  /\ op.f # "init"
  /\ slave' \in {[s EXCEPT !.heard = <<>>] :
                 s \in {Lines(Lines(slave, sda, scl, 1, scl, 0, 1), 1, scl, 1, 1, 0, 1),
                        Lines(Lines(slave, sda, scl, sda, 1, 0, 1), sda, 1, 1, 1, 0, 1)}}
  /\ caught' = (slave'.dir = "recv" /\ slave'.pos = 8)
  /\ sda' = 1 /\ scl' = 1 /\ m_nLastSDA' = 0 /\ m_nLastSCL' = 0
  /\ done' = 0 /\ retVal' = 0 /\ op' = [f |-> "init", v |-> 0]

I2cNext ==
  \/ \E answer \in I2cBytes, ack \in 0..1 : Half(answer, ack)
  \/ Calls \/ Restart

I2cSpec == I2cInit /\ [][I2cNext]_i2cVars

-----------------------------------------------------------------------------
(* After 28 clocks a slave that was to acknowledge is at that point again, *)
(* three bytes of ones later, and may hold SDA low.                        *)
StillHolds == caught /\ slave.on /\ slave.pos = 9 /\ slave.drive = 0

(* What the slave has noticed of a call is what the call stands for, byte, *)
(* acknowledgement, START or STOP and nothing besides, what the call       *)
(* returns is what the slave put on the line, and i2c_master_init leaves a *)
(* slave that lets go of SDA and waits for START, wherever a restart has   *)
(* caught it but for one place.  Caught before its acknowledgement, a      *)
(* slave may outlast the 28 clocks, for which "reset all" (90) is then not *)
(* true: neither the STOP of i2c_master_init nor the START of the next     *)
(* talk is noticed; no other call is spoilt, and what is written after it  *)
(* goes to the slave as data of the talk before the restart (69-316).      *)
BusAsAsked ==
  Over =>
    CASE op.f = "start" -> slave.heard = <<op>> \/ (StillHolds /\ slave.heard = <<>>)
      [] op.f = "stop" -> slave.heard = <<op>>
      [] op.f = "write" -> slave.heard = <<[f |-> "byte", v |-> op.v]>>
      [] op.f = "read" -> slave.heard = <<[f |-> "byte", v |-> retVal]>>
      [] op.f = "ack" -> slave.heard = <<[f |-> "ack", v |-> retVal]>>
      [] op.f = "setAck" -> slave.heard = <<[f |-> "ack", v |-> op.v]>>
      [] op.f = "init" -> (~slave.on /\ slave.drive = 1) \/ StillHolds
=============================================================================
