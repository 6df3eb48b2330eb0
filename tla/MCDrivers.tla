----------------------------- MODULE MCDrivers -----------------------------
(* The drivers that share no state with anything else, each on its own:    *)
(* driver says which one a behaviour is of, the others stay as they are.   *)
EXTENDS Key, I2cMaster, SpiMaster, SpiOverlap

VARIABLE driver  \* the one that runs

driverVars == <<driver, keyVars, i2cVars, spiVars, overlapVars>>

SpiCallOf(f, cmd, addr, data, nullArg) ==
  [f |-> f, cmd |-> cmd, addr |-> addr, data |-> data, nullArg |-> nullArg]
PlainCall(f) == SpiCallOf(f, 0, FALSE, 0, "none")

(* Data and status, all with a command; single bytes to and from another   *)
(* ESP8266; bytes sent as commands; everything after SPIInit alone, which  *)
(* is not suited.                                                          *)
MCMixes ==
  {[inits |-> {"SPIInit", "spi_master_init"},
    calls |-> {SpiCallOf(f, 2, addr, data, nullArg) :
                 f \in {"SendData", "RecvData"}, addr \in BOOLEAN, data \in {1, 4},
                 nullArg \in {"none", "addr", "data"}}
              \cup {PlainCall(f) : f \in {"SendStatus", "RecvStatus"}}],
   [inits |-> {"SPIInit", "spi_master_init"},
    calls |-> {PlainCall(f) : f \in {"SendStatus", "RecvStatus", "byte_write_espslave",
                                     "byte_read_espslave"}}],
   [inits |-> {"spi_master_init"},
    calls |-> {PlainCall(f) : f \in {"lcd_9bit_write", "byte_write"}}],
   [inits |-> {"SPIInit"},
    calls |-> {SpiCallOf(f, cmd, cmd = 0, data, "none") :
                 f \in {"SendData", "RecvData"}, cmd \in {0, 2}, data \in {0, 4}}
              \cup {PlainCall(f) : f \in Functions \ {"SendData", "RecvData"}}]}

MCInit ==
  /\ driver \in {"key", "i2c", "spi", "overlap"}
  /\ KeyInit /\ I2cInit /\ SpiInit /\ OverlapInit
  /\ driver # "spi" => mix = CHOOSE m \in Mixes : TRUE
  /\ driver # "overlap" => io80M = CHOOSE b \in Speeds : TRUE

MCNext ==
  /\ UNCHANGED driver
  /\ \/ driver = "key" /\ KeyNext /\ UNCHANGED <<i2cVars, spiVars, overlapVars>>
     \/ driver = "i2c" /\ I2cNext /\ UNCHANGED <<keyVars, spiVars, overlapVars>>
     \/ driver = "spi" /\ SpiNext /\ UNCHANGED <<keyVars, i2cVars, overlapVars>>
     \/ driver = "overlap" /\ OverlapNext /\ UNCHANGED <<keyVars, i2cVars, spiVars>>

MCSpec == MCInit /\ [][MCNext]_driverVars
=============================================================================
