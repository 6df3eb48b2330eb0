----------------------------- MODULE SpiOverlap -----------------------------
(***************************************************************************)
(* The HSPI master shared by four devices, src/mesh_demo/driver/           *)
(* spi_overlap.c: hspi_dev_sel changes from any device to any other by     *)
(* programming only what it thinks is different, so the registers after a  *)
(* selection come from the whole history of selections.  The waiting for   *)
(* an idle controller is left out.                                         *)
(***************************************************************************)
EXTENDS Integers, FiniteSets

CONSTANTS
  ClkDivs,       \* the clock divisors used
  Speeds,        \* the values BIT8 of PERIPHS_IO_MUX may have
  InitFirst,     \* devices are initialised before the first is selected
  ChipSize,      \* of the flash, in bytes
  BuffByteNum    \* SPI_BUFF_BYTE_NUM

ASSUME OverlapAssumption ==
  /\ ClkDivs \subseteq 0..31 /\ Speeds \subseteq BOOLEAN /\ InitFirst \in BOOLEAN
  /\ ChipSize \in Nat /\ BuffByteNum \in Nat /\ BuffByteNum % 4 = 0 /\ BuffByteNum > 0

HSPI_CS_DEV == 0
SPI_CS1_DEV == 1
SPI_CS2_DEV == 2
SPI_CS0_FLASH == 3
HSPI_IDLE == 4
Dev == 0..3
Shared == {SPI_CS1_DEV, SPI_CS2_DEV, SPI_CS0_FLASH}  \* on the pins of the flash

VARIABLES
  io80M,                     \* BIT8 of PERIPHS_IO_MUX: the SPI pins run at 80 MHz
  conf,                      \* hspi_dev_conf
  selected_dev_num,
  hspi_reg_backup_flag,
  hspi,       \* registers of HSPI: set (whose they are), clock, edge, cs, setup
  overlap,    \* hspi_overlap_init is in force
  csPin,      \* MTDO is HSPI's chip select
  readLeft,   \* temp_length of hspi_overlap_read_flash_data
  readAddr,   \* temp_addr
  \* history
  readWant, readGot, readWords \* bytes wanted, read; words stored

readVars == <<readLeft, readAddr, readWant, readGot, readWords>>
overlapVars == <<io80M, conf, selected_dev_num, hspi_reg_backup_flag, hspi,
                 overlap, csPin, readVars>>

(* The two back-ups: of the registers as they are for reading flash, and   *)
(* as spi_master_init leaves them.                                         *)
FlashBackup == [set |-> "flash", clock |-> IF io80M THEN "sysclk" ELSE "flash",
                edge |-> 0, cs |-> 0, setup |-> FALSE]
DevBackup == [set |-> "dev", clock |-> "init", edge |-> 0, cs |-> 0, setup |-> TRUE]

OverlapInit ==
  /\ io80M \in Speeds
  /\ conf = [d \in Dev |-> [active |-> FALSE, div |-> 0, polar |-> 0]]
  /\ selected_dev_num = HSPI_CS_DEV /\ hspi_reg_backup_flag = FALSE
  /\ hspi = FlashBackup /\ overlap = FALSE /\ csPin = FALSE
  /\ readLeft = 0 /\ readAddr = 0 /\ readWant = {} /\ readGot = {} /\ readWords = 0

(* hspi_master_dev_init; the first one takes the back-ups.                 *)
DevInit(d, polar, div) ==
  /\ readLeft = 0
  /\ InitFirst => ~hspi_reg_backup_flag \/ selected_dev_num = HSPI_IDLE
  /\ conf' = [conf EXCEPT ![d] = [active |-> TRUE, div |-> div, polar |-> polar]]
  /\ hspi_reg_backup_flag' = TRUE
  /\ IF hspi_reg_backup_flag THEN UNCHANGED <<hspi, selected_dev_num>>
                             ELSE hspi' = DevBackup /\ selected_dev_num' = HSPI_IDLE
  /\ csPin' = (csPin \/ d = HSPI_CS_DEV)
  /\ UNCHANGED <<io80M, overlap, readVars>>

-----------------------------------------------------------------------------
(* hspi_dev_sel from device f to d.                                        *)

(* Coming from HSPI's own pins or from nowhere to those of the flash turns *)
(* the overlap on and HSPI's chip select off; the other way round ...      *)
Overlaps(f, d) == f \in {HSPI_CS_DEV, HSPI_IDLE} /\ d \in Shared
Parts(f, d) == f # HSPI_CS_DEV /\ d = HSPI_CS_DEV

(* ... and both change CS_SETUP too.                                       *)
Crossed(f, d) ==
  [hspi EXCEPT !.setup = IF Overlaps(f, d) THEN TRUE ELSE IF Parts(f, d) THEN FALSE ELSE @]

MutRestored(f, d) ==
  IF d = SPI_CS0_FLASH THEN FlashBackup
  ELSE IF f = HSPI_IDLE THEN DevBackup
  ELSE Crossed(f, d)

(* A back-up is written back for the flash, and for a device that follows  *)
(* the flash or comes first.                                               *)
Restored(f, d) ==
  IF d = SPI_CS0_FLASH THEN FlashBackup
  ELSE IF f \in {SPI_CS0_FLASH, HSPI_IDLE} THEN DevBackup
  ELSE Crossed(f, d)

(* CONF_HSPI_CLK_DIV, or 80 MHz on the pins of the flash; from CS1 to CS2  *)
(* and back these 80 MHz are taken for granted.                            *)
Clock(f, d) ==
  CASE d = SPI_CS0_FLASH ->
         IF io80M /\ f \in {HSPI_CS_DEV, HSPI_IDLE} THEN "sysclk" ELSE Restored(f, d).clock
    [] d = HSPI_CS_DEV -> conf[d].div
    [] OTHER -> IF ~io80M THEN conf[d].div
                ELSE IF f \in {SPI_CS1_DEV, SPI_CS2_DEV} THEN hspi.clock ELSE "sysclk"

Selected(f, d) ==
  [Restored(f, d) EXCEPT
     !.clock = Clock(f, d),
     !.edge = IF d = SPI_CS0_FLASH THEN 0 ELSE conf[d].polar,
     !.cs = IF d \in {SPI_CS1_DEV, SPI_CS2_DEV} THEN d ELSE 0]

(* A device without hspi_master_dev_init is not selected; one that is      *)
(* selected is not programmed again.                                       *)
Select(d) ==
  LET f == selected_dev_num
  IN IF ~conf[d].active THEN UNCHANGED <<selected_dev_num, hspi, overlap, csPin>>
     ELSE /\ selected_dev_num' = d
          /\ hspi' = IF f = d THEN hspi ELSE Selected(f, d)
          /\ overlap' = IF Overlaps(f, d) THEN TRUE ELSE IF Parts(f, d) THEN FALSE ELSE overlap
          /\ csPin' = IF Overlaps(f, d) THEN FALSE ELSE IF Parts(f, d) THEN TRUE ELSE csPin

DevSel(d) ==
  /\ readLeft = 0 /\ Select(d)
  /\ UNCHANGED <<io80M, conf, hspi_reg_backup_flag, readVars>>

-----------------------------------------------------------------------------
(* hspi_overlap_read_flash_data, which hspi_overlap_flash_init registers   *)
(* once the flash is a device.  It selects the flash, also for a range it  *)
(* then refuses, and leaves it selected.                                   *)
ReadFlash(addr, length) ==
  /\ readLeft = 0 /\ conf[SPI_CS0_FLASH].active
  /\ Select(SPI_CS0_FLASH)
  /\ IF addr + length > ChipSize
     THEN UNCHANGED readVars
     ELSE /\ readLeft' = length /\ readAddr' = addr
          /\ readWant' = addr..addr + length - 1 /\ readGot' = {} /\ readWords' = 0
  /\ UNCHANGED <<io80M, conf, hspi_reg_backup_flag>>

(* A full buffer at a time, ...                                            *)
ReadFull ==
  /\ readLeft >= BuffByteNum
  /\ readGot' = readGot \cup (readAddr..readAddr + BuffByteNum - 1)
  /\ readWords' = readWords + BuffByteNum \div 4
  /\ readLeft' = readLeft - BuffByteNum /\ readAddr' = readAddr + BuffByteNum
  /\ UNCHANGED <<io80M, conf, selected_dev_num, hspi_reg_backup_flag, hspi, overlap,
                 csPin, readWant>>

(* ... then the rest, in whole words.                                      *)
ReadRest ==
  /\ readLeft \in 1..BuffByteNum - 1
  /\ readGot' = readGot \cup (readAddr..readAddr + readLeft - 1)
  /\ readWords' = readWords + (IF readLeft % 4 = 0 THEN readLeft \div 4 ELSE readLeft \div 4 + 1)
  /\ readLeft' = 0
  /\ UNCHANGED <<io80M, conf, selected_dev_num, hspi_reg_backup_flag, hspi, overlap,
                 csPin, readAddr, readWant>>

OverlapNext ==
  \/ \E d \in Dev, polar \in 0..1, div \in ClkDivs : DevInit(d, polar, div)
  \/ \E d \in Dev : DevSel(d)
  \/ \E addr \in 0..ChipSize, length \in 0..ChipSize : ReadFlash(addr, length)
  \/ ReadFull \/ ReadRest

OverlapSpec == OverlapInit /\ [][OverlapNext]_overlapVars

-----------------------------------------------------------------------------
(* Whatever was selected before, a selected device finds the registers     *)
(* that hspi_master_dev_init asked for: its own clock, edge and chip       *)
(* select, the set of its kind, and the pins of its group (160-326).       *)
(* CS_SETUP is left out for HSPI_CS_DEV: it is off after CS1 and CS2 and   *)
(* on after the flash.                                                     *)
DeviceAsConfigured ==
  LET d == selected_dev_num
  IN hspi_reg_backup_flag /\ d # HSPI_IDLE =>
       /\ conf[d].active
       /\ (overlap <=> d \in Shared) /\ (csPin <=> d = HSPI_CS_DEV)
       /\ hspi.cs = (IF d \in {SPI_CS1_DEV, SPI_CS2_DEV} THEN d ELSE 0)
       /\ hspi.edge = (IF d = SPI_CS0_FLASH THEN 0 ELSE conf[d].polar)
       /\ hspi.set = (IF d = SPI_CS0_FLASH THEN "flash" ELSE "dev")
       /\ hspi.clock = (IF d = SPI_CS0_FLASH THEN FlashBackup.clock
                        ELSE IF io80M /\ d \in Shared THEN "sysclk" ELSE conf[d].div)
       /\ d \in {SPI_CS1_DEV, SPI_CS2_DEV} => hspi.setup

(* A flash read asks the flash, selected all the time, for exactly the     *)
(* bytes wanted, and stores no more than the last word beyond them         *)
(* (336-388).                                                              *)
ReadExact ==
  /\ readLeft > 0 => selected_dev_num = SPI_CS0_FLASH
  /\ readGot \subseteq readWant
  /\ readLeft = 0 => readGot = readWant /\ readWords * 4 < Cardinality(readWant) + 4

FourDevices == DeviceAsConfigured /\ ReadExact
=============================================================================
