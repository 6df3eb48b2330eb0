# Verification of the WiFi access control module (ESP8266)

This directory holds TLA+ models of the firmware in `src/mesh_demo`, the TLC
configurations that check them on small instances, and TLAPS proofs that hold
for every value of the constants. Everything is translated from the C source;
line numbers refer to it.

The firmware makes an ESP8266 the network side of a door controller. An STM32
(the MCU) is the SPI master and sends commands; the ESP8266 executes them,
joins an ESP-MESH network, forwards data to the mesh and hands packets from the
mesh back to the MCU.

## 1. Inventory

| Component | Source | State it keeps | Operations | Interacts through |
|---|---|---|---|---|
| HSPI link | `demo/user_hspi.c`, parts of `driver/spi_interface.c` | `recv_pack`, `recv_lenth`, `is_recv_pack`, `isReceive`, `pack_counter`; `wr_rdy`, the loop variables of `spi_send_data`; the SPI registers, GPIO4 and GPIO5 | `spi_slave_isr_sta` (interrupt), `hspi_recv_task`, `hspi_data_process`, `hspi_send_task`, `wifi_send`, `spi_send_data` | two event queues of 8, the two GPIO lines, shared flags between interrupt and tasks |
| Command interpreter | `demo/command.c`, `demo/mesh_bin.c` | `wifi_pack_send`, `send_buffer`, `sdk_version`, the settings `g_*` | `command_execute` (12 commands), `mesh_bin_proto_parser` | called from the receive task and from mesh callbacks; posts to the send task |
| Mesh device table | `demo/mesh_device.c`, callers in `demo/mesh_none.c` | `g_node_list` (root, list, size, scale), `g_mesh_device_init` | set_root, search, add, del, release, readers | topology responses, the 14 s timer on a root, `CMD_GET_DEVICE_LIST` |
| Mesh node | `demo/mesh_demo.c`, `demo/user_config.c` | `g_ser_conn`, `ser_tcp`, the enabled state inside the SDK | `mesh_init`, `router_init`, `esp_mesh_demo_init`, `mesh_enable_cb`, `esp_mesh_rebuild_fail`, `esp_mesh_data_send` | SDK callbacks; started by `CMD_MESH_INIT` |
| ESP-TOUCH | `demo/esp_touch.c` | `esptouch_running`, the timeout timer | init, the status callback, success and failure callbacks | started by `router_init`; changes the WiFi mode the mesh uses |
| Packet dispatch | `demo/mesh_parser.c`, `mesh_http.c`, `mesh_mqtt.c` | none | table from protocol to parser | called by `esp_recv_entrance` |
| CRC | `demo/stm32_crc.c` | none (a table) | `CRC32Software` | used by the link |
| Key driver | `driver/key.c` | `key_level`, two timers of each key, the edge armed | `key_init`, the handler of the edges, `key_5s_cb`, `key_50ms_cb` | GPIO interrupt, timers |
| UART driver | `driver/uart.c` | two ring buffers, `UART_INT_ENA`, a task queue | `uart0_rx_intr_handler`, `uart_recvTask`, `rx_buff_deq`, `tx_buff_enq`, byte functions | an interrupt and a task share FIFOs, buffers and interrupt mask |
| SDIO slave | `driver/sdio_slv.c` | the lists ToSend and Sended, `has_read`, two links to the hardware | `sdio_load_data`, `sdio_try_to_load`, `sdio_slave_isr` | task, interrupt handler and host |
| I2C master | `driver/i2c_master.c` | the level of SDA and SCL | `init`, `start`, `stop`, `writeByte`, `readByte`, `getAck`, `setAck` | the two lines of the bus |
| SPI masters | `driver/spi_interface.c`, `spi.c`, `spi_overlap.c` | phase bits, lengths, two back-ups of the registers, the device selected | master calls, byte functions, `hspi_dev_sel`, flash reads | registers shared by four devices |
| Timer, GPIO16 | `driver/hw_timer.c`, `gpio16.c` | single registers | - | - |
| JSON tests | `demo/mesh_json.c` | test timers, never started | broadcast, single and group packet | the device table |
| Device discovery | `demo/devicefind.c` | a UDP socket, never opened | - | - |
| Echo server | `demo_server.py` | TCP connections | echo | the mesh's server connection |
| SDK, build, tools | `include/`, `lib/`, `ld/`, `tools/`, `scripts/` | - | - | external |

What makes each component correct:

- **link**: a closed receive buffer opens again; only whole commands are
  executed, once and in order; no command of a well-behaved master is lost;
  `spi_send_data` returns and its result is true; fragments of two packs do not
  overrun `recv_pack`.
- **command interpreter**: what is sent is a frame some handler completed, with
  its own data; no frame is forgotten without an attempt; one reply per command.
- **device table**: a set with a root: no duplicates, nothing lost by `add`,
  nothing written outside of the array.
- **mesh node and ESP-TOUCH**: a failure leads to another attempt; a connection
  that is reopened is complete and leads to the server set last; ESP-TOUCH ends,
  and its time-out never outlives it.
- **drivers**: an interrupt that is masked is unmasked again; a buffer has one
  owner; bytes arrive in order and all of them; a press is reported once; what is
  on a bus is what the call asked for, whatever the calls before have left set.
- **JSON tests**: a group packet reaches all listed devices and the root.

Where the difficulty lies: the interrupt handler preempts the receive task
between any two of its instructions and shares plain variables with it; the
master is another processor; events are posted to bounded queues without a look
at the result; one global frame is filled in by two independent callers and read
later by a third; a spin loop with a limit races the reader it waits for.
`PROJECT.json` lists every hazard at its line with the properties aimed at it.

## 2. Plan

1. *(done)* `Hspi`: the link, its invariants and proofs.
2. *(done)* `Command` refining `Mailbox`; proofs.
3. *(done)* `MeshDevice` refining `DeviceSet`; proofs.
4. *(done)* `MeshNode` composed with `EspTouch` (`mesh_demo.c`, `esp_touch.c`, the
   timer of `mesh_none.c`), the SDK and the server as environment; proofs.
5. *(done)* `SdioSlave` refining `ByteStream`: the buffer lists between task and
   interrupt handler.
6. *(done)* `Uart` refining `ByteStream` twice, `Key`; proofs of `NoWedge` and
   `KeysFollowed`.
7. *(done)* `I2cMaster`, `SpiMaster`, `SpiOverlap`; a proof of `FourDevices`.
   `MeshJson` on top of `MeshDevice`.
8. *(done)* Proofs about what a paced master sees (`BufferBound`, `Lossless`,
   `RepliesMatchSent`), about the buffer ring and the bytes of the SDIO slave, about
   the bytes of the UART, about `TransferAsAsked` and `PacketReaches`.
9. *(done)* What `Command` takes for granted of the link (who may write
   `recv_pack`, and when) derived from `Hspi` as a theorem, `RecvPackQuiet`; the two
   sentences of the source that runs refute, proved under what makes them true
   (`UnreadKept`, `AckedWithoutMesh`).
10. *(done)* `BusAsAsked` proved, one half cycle at a time. Left: `Crc` as a pure
   operator against a bitwise reference.

One passing run asks one question of the system; where a comment or a doc is
contradicted in a way that matters, one more run shows it.

## 3. Modules and how they correspond to the code

### `Hspi` - the link

One core: `cpu` is the program counter of the running task (tasks run to
completion), `isr` that of the interrupt handler, which suspends the task; a
task instruction runs only when no interrupt is served or pending. `mst` is the
master.

| Action | Code (`user_hspi.c` unless said otherwise) |
|---|---|
| `IsrEnter`, `IsrClear` | 144-168: the status is read, *then* all flags are cleared, then GPIO4 goes down. A flag raised between the two is lost, as in the code |
| `IsrRead0`, `IsrStore` | 170-212: W0 is read before W1..W7; a write in between gives a torn fragment |
| `IsrLeave` | 214-223 |
| `RecvTake`, `RecvHeader`, `RecvLength`, `RecvCrc`, `RecvExecute` | 299-343 |
| `RecvDone`, `RecvReset` | 354 and 306: the two resets of `is_recv_pack` |
| `MeshPacket` | `mesh_bin.c:16-34`, called by the SDK between two tasks: a packet from the mesh takes the place of what is there to be sent |
| `SendTake` ... `SendRaise` | 357-396 and 76-119; `SendLoad` is `SPISlaveSendData` |
| `WriteBegin` ... `ReadEnd` | the master (external): it writes when GPIO4 is up, reads when GPIO5 is up, one transaction at a time |

Abstractions: a pack is a number, a fragment a pack and an index; the CRC is
ideal (it fits exactly when the buffer holds the fragments of the pack the
header came from) and packs have distinct contents; the bytes of one transaction
land in the registers at one instant; read-modify-write of an SPI register is
one step; the fixed header is 7 bytes; a word is either of the old or of the new
fragment, and any mixture is `Torn`. Handing over `SPIIntClear` and the fall of
GPIO4 as one step loses nothing, for the master does not look at the flags.

The master is described by three constants that the runs and theorems name as
assumptions: `Paced` (it leaves the handler time after each transaction),
`Patient` (it starts a command only when the last one has been executed, its reply
is neither queued nor being sent, and what is on offer has been read: `DoneWith`),
`Prompt` (it reads a raised fragment before the spin loop
ends). No constant means no assumption. No master knows
when a packet of the mesh comes: `wifi_pack_send` may be replaced by one before
`SendTake` copies it, and a sending may begin next to a fragment that is still on
offer, because line 87 does not wait for the first fragment. What that costs is kept in
two history variables. `clean` says that the sending that began last found nothing on
offer; `sentOk` and `replies` start afresh with the first clean sending after one that
was not. `spoilt` has the packs hit: those replaced before they were sent, and those
on either side of a sending that was not clean.

`HspiInv` states the inductive invariants, `HspiProofs` (any master, then a
patient one) and `HspiPacedProofs` prove with them.

### `Mailbox` and `Command` - the shared frame

`Mailbox` is the promise: one place, a new frame replaces the old, what is sent
is the frame put last and unspoilt, and a frame is not forgotten without an
attempt to send it. `Command` is the code: every command of `command_execute`
with its error paths (`Answer`, `Fail`, with the half-written buffer of the
queries that ask the SDK twice), `mesh_bin_proto_parser`, and `hspi_send_task`.
`wifi_pack_send` holds a command number and a *pointer*; `Deref` says what it
leads to at the time of sending. The frames that exist are kept in the history
variable `made`; the refinement maps `full` to "an event is queued".
Handlers are atomic because tasks are not preempted by one another;
`hspi_send_task` has the higher priority, so `Execute` needs an empty send
queue. Mesh callbacks come between tasks at any time. `Patient` says that
the MCU begins no command while a reply waits to be copied (`ReplyQueued`); it does not
know of mesh frames, and one that is queued does not hold it back. `esp_mesh_data_send`
writes the server's address into `recv_pack` (mesh_demo.c:436-439): `routed`.

### `DeviceSet` and `MeshDevice` - the device table

`DeviceSet` is a set with a root. `MeshDevice` has the array by index, `scale`
(root and entries together) and `size` (entries allocated), the growth rule of
lines 163-193, the loop of `mesh_device_add` and of `mesh_device_del` step by
step. A function from indices to addresses models the array; an index that was
never allocated can appear in it, which is how a write outside becomes visible.
`mesh_device_del` has no caller in `src/`; the constant `UseDel` says whether it
is used. The 16 bit counters are integers: the mesh library's limit on hops
keeps the number of devices far below 2^16.

### `EspTouch` and `MeshNode` - joining the mesh

`EspTouch` is `esp_touch.c`: each report of smartconfig to `esptouch_proc_cb` is an
action (`Getting`, `LookAgain`, `Link`, `LinkOver`), so is the timer (`Timeout`,
`esptouch_fail_cb`), and `EsptouchInit` is the part that `router_init` calls. The
timer is the interval it is armed with. `MeshNode` extends it with
`mesh_demo.c` and the topology timer of `mesh_none.c`:

| Action | Code |
|---|---|
| `ServerAddrSet`, `MeshInit`, `MeshInitRefused`, `DataSendBusy` | three commands of the MCU: `command.c:138-146`, `mesh_init` with its early returns (`mesh_demo.c:269-385`, 513-534), `esp_mesh_data_send` when its packet is not taken (471-480) |
| `EnableFailed`, `JoinKept`, `RecvRefused`, `ConnectRefused`, `Joined` | the five ways through `mesh_enable_cb` (122-185) |
| `RebuildFail`, `TopoBusy` | 257-260; `mesh_none.c:64-160` on a node that is not the root |
| `Touch` | a step of ESP-TOUCH; losing the station's link closes the connection (`CutConn`) |
| `MeshLinks`, `ConnLost`, `RootChange` | the mesh library and the network (external) |

What is assumed of the mesh library, whose source is not here: it answers each
type asked for by `espconn_mesh_enable` once, `MESH_LOCAL` with `MESH_LOCAL_SUC`
or failure and `MESH_ONLINE` with `MESH_ONLINE_SUC` or failure; its user context
is the open connection, which lives in `g_ser_conn`, so that the `memset` of line
144 ends it; `espconn_mesh_connect` fails while the mesh is not up or
`proto.tcp` is NULL; `smartconfig_start` is refused while smartconfig runs. A
server is an address with its port. Settings other than the server are not told
apart. A packet that the library takes changes nothing in this model.

### `MeshJson` - group packets

Extends `MeshDevice` with the three tests of `mesh_json.c`, which read the table
while `mesh_device_add` and `_del` change it (never in the middle of one: a test
is a timer's callback, and `Send` needs `pc = "idle"`). `McastOptions` is the loop
that cuts the list into options of `PerOp` addresses, `RestOption` the last one,
which starts with the root. `At` gives `"outside"` for an entry behind the array.
The timers that would run the tests are never armed in this build.

### `ByteStream` - what a driver that carries bytes promises

Bytes are numbered in the order they are put in; they come out in that order,
none lost, repeated or made up, and all of them in the end. `SdioSlave` refines
it once, `Uart` twice (receiving and sending).

### `SdioSlave` - the SDIO slave

| Action | Code (`sdio_slv.c`) |
|---|---|
| `Load`, `Fill`, `Count`, `Link`, `Unlink`, `Start`, `TryToLoad`, `Announced` | `sdio_load_data` and `sdio_try_to_load` (316-388), cut where they touch what the handler changes |
| `IsrEnter`, `IsrRx`, `IsrTx`, `IsrEnd` | `sdio_slave_isr` (175-240) with `sdio_read_done_process` (382-427), cut where the host can act |
| `HostRead`, `HostWrite`, `HostAck` | the host (external) |

The lists are the `next` pointers of the code. The handler runs between any two
steps of a load, the host acts while the handler runs, and loads have any length,
zero included. What goes wrong then is recorded, not excluded: `lost` has the
events that the handler has cleared at its end without seeing them (230-234), and
`astray` says that `ToSend` holds a buffer nothing announces or that the lists are
in disorder; nothing is modelled after that. The driver goes astray when

- a load fills a buffer while `ToSend` is empty (345-347): the call at the end of
  `sdio_load_data`, which would announce it, finds `pHead_ToSend` set (365);
- a load of no bytes, or one whose bytes the handler has all sent by now, puts an
  empty buffer on an empty `ToSend` (365-372): `rx_buff_load_done` returns (284),
  yet `has_read` is reset (384) and nothing is ever announced again;
- the handler takes the last buffer of `ToSend` in the midst of a step of the task
  that relies on it (`Collision`): while another one is hung behind it, while bytes
  are copied but not counted behind others in the next one, or between
  `RXLINK_START` and the reset of `has_read`.

In all other interleavings it does not. `OnOneList` says what the three states of the
lists are: an arc of the ring is on `ToSend`, the rest on `Sended`. `SdioSlaveInv`
states the inductive invariant.

### `Uart` - UART0

`pc` is where the running task is; tasks do not preempt one another, the handler
(`IsrRx`, `IsrTx`) comes between any two of their steps. A read-modify-write of
`UART_INT_ENA` in a task is two steps, `LoadEna` and `StoreEna`, so that the
handler can come between. `RecvTask`, `Echo`, `Echoed`, `RxBuffEnq` are
`uart_recvTask`; `RxBuffDeq` is `rx_buff_deq`; `TxBuffEnq` and `TxCopy` are
`tx_buff_enq`. `buffered` is the build option `UART_BUFF_EN`. Both ring buffers have
the positions and wrap rules of the code; the copy of a block is one step, since
only the other side of the buffer moves meanwhile.

`Send`, `SendByte` and `SendWrite` are the functions that write the FIFO themselves,
waiting for room or not. They exist in both builds. With a buffer their bytes
(`Foreign`) overtake those in the ring buffer, and one is lost when the handler fills
the FIFO between the look at it and the write. So with a buffer `IsTxStream` speaks of
the bytes that the ring buffer takes only: they keep their order, whatever others come
between. Without, it speaks of all bytes.

`Uart_Buf_Init` may fail. `tx_buff_enq` tries again, but nobody looks at `pRxBuffer`:
`uart_recvTask` and `rx_buff_deq` read it all the same, which is a fatal exception
(`pc = "crash"`). What the SDK does then, a restart, is not modelled; the properties
say "unless it has crashed" where that matters.

### `Key`, `I2cMaster`, `SpiMaster`, `SpiOverlap` - four drivers on their own

- `Key`: pins that bounce; `Mask` and `Serve` are the two halves of the handler
  for one key (disarm and clear, then start a timer), `Expire5s`/`LongPress` and
  `Expire50ms`/`Release` the two callbacks, each cut after it has read the pin.
  `missed` has the keys that moved while no edge was armed for them.
- `I2cMaster`: a call is a sequence of half clock cycles (`Start`, `Stop`,
  `WriteByte`, ...; `Steps` is the one of the call that runs), each one call of
  `i2c_master_setDC`; `done` counts them. When both lines change the slave may
  see either first. The slave is external: it receives, sends, acknowledges or
  not, and does not notice when the master restarts. `caught` remembers, up to the
  end of the next START, that a restart found it about to acknowledge.
- `SpiMaster`: the phases a call sets in `SPI_USER` on top of those left there,
  the two ways of waiting (`SPI_USR`, `SPI_TRANS_DONE`) and the calls that do not
  wait. `seen` is what the controller does, `asked` what the call is for.
  `Relies` is what a call takes for granted of the registers, `met` whether the
  last one found them so, and `Suited` says which calls may be mixed.
- `SpiOverlap`: `hspi_dev_sel` from any device to any other: which back-up is
  restored (`Restored`), which clock (`Clock`), which pins (`Overlaps`, `Parts`);
  `ReadFlash`, `ReadFull`, `ReadRest` are `hspi_overlap_read_flash_data`.

`MCDrivers` runs them side by side in one run, one at a time: they share nothing.

## 4. Runs

| Run | Bounds | What it shows |
|---|---|---|
| `MCHspi_link` | 4 commands of 20, 62, 70, 31 bytes; replies of 63, 31, 93; 2 mesh packets of 50, 20 bytes at any time; queue 2; `TMax` 2; paced, patient; master fair | `TypeOK`; `Lossless`; `RepliesMatchSent` although replies may be read too late and overwritten by the mesh; every command answered, given up or hit by a mesh packet (`AllAnswered`) |
| `MCHspi_unpaced` | the same packs, 1 mesh packet; an unpaced, patient master, one re-read | `FaithfulExecution`: lost, merged and torn fragments never lead to a wrong or repeated execution |
| `MCHspi_impatient` | 4 short commands, 1 mesh packet; paced, not patient; queue 1; allocation may fail | `BufferBound`, `NoWedge`, `Reopens`; `SendReturns` even if the master never reads |
| `MCHspi_unread` | 4 short commands, 1 mesh packet; paced, patient, prompt | violated: `NoUnreadReplyOverwritten` |
| `MCCommand_patient` | 2 commands of all kinds, 2 mesh packets, queue 2, failing allocations | `TypeOK`, `IsMailbox`, `OneReplyEach`, `LatestSent` |
| `MCCommand_ack` | 1 command, 1 mesh packet, queue 8, no failures | violated: `EveryCommandAcked` |
| `MCMeshDevice_table` | 5 addresses (symmetric), growth step 2, options of up to 2, deletion and failing allocations; packets of 1 or 2 options of 3 | `TypeOK`, `NoDuplicates`, `WritesInside`, `AllAdded`, `IsDeviceSet`, `PacketReaches` |
| `MCMeshDevice_batch` | options of up to 3 with step 2 | violated: `WritesInside` |
| `MCMeshNode_join` | 2 `CMD_MESH_INIT`, 2 servers set at any time, one new search of smartconfig; any number of failures, losses and changes of the root | `TypeOK`, `SmartconfigGuarded`, `RecvReady`, `OneServer`, `LinkTakenWhileRunning`; `EspTouchEnds`, `Joins`, `Reconnects` |
| `MCSdioSlave_stream` | 3 buffers of 3 bytes, loads of 0 to 7, 11 bytes in all, 2 packs of the host | `TypeOK`, `OnOneList`, `NotDeaf`; `IsByteStream`, `PacksHandled` |
| `MCUart_console` | both builds; FIFOs of 2, ring buffers of 3, a queue of 1; 4 bytes received, 3 sent, 1 past the ring buffer, 2 in a call; ring buffers that cannot be allocated | `TypeOK`, `NoWedge`; `IsRxStream`, `IsTxStream` |
| `MCDrivers_apart` | 2 keys; I2C with 2 byte values; 4 SPI calls of 4 mixes; 2 clock divisors, a flash of 5 bytes read 4 at a time | `KeysFollowed`, `BusAsAsked`, `TransferAsAsked`, `FourDevices` |

Why the bounds are enough. The lengths give packs of one, two and three
fragments with a partial and with a full last fragment (31, 62, 93), followed by
longer and by shorter ones, so that a pack meets every kind of leftover in
`recv_pack`. Two mesh packets can hit the same reply, or each other; what comes after
is a clean sending again. `TMax` = 2 stands for 3000000: the loop can end at once, after
waiting, and by the limit. Queues of 1 and 2 overflow with the traffic of the
runs; 8 would not with so few packs (the proofs cover every length).
`MaxRereads` bounds reads of a fragment already read. A growth step of 2 with
five addresses makes the table grow twice and fill exactly; the code has a step
of 10 and options of up to 42 devices (`olen` is a byte), of which 2 and 2, and
2 and 3, keep the two relations that matter.

Five devices give groups of one option, of two, and of exactly one (the multiple
of `PerOp`, 42 in the code). Three SDIO buffers are the fewest with a first, an
inner and a last; a load of 7 fills two and leaves a byte over; 11 bytes fill all three and go once round. A UART
ring of 3 over a FIFO of 2 is the smallest that the assumption `FifoLen <
BuffSize` allows, wraps at every position, and is too full for a FIFO after one
byte; a queue of 1 overflows with the second event. Two keys share handler and
callbacks; the values 165 and 90 (10100101 and 01011010) have every pair of
neighbouring bits and, as addresses, both directions. Four SPI calls are enough
for a call that does not wait, one that leaves a flag set and one that finds it.

Two `CMD_MESH_INIT` start ESP-TOUCH again at each of its stages and enable a mesh
that is already up; two servers can be set, used, changed and set back.

**Fairness.** `CpuFairness`: the processor runs pending handlers and tasks, and
a transaction that began ends; interrupts cannot keep the tasks from running for
ever because the traffic is finite. `MasterFairness`, used in `MCHspi_link`
only: the master goes on sending its commands and reads what is raised, which is
what the STM32 is for; without it nothing need ever be answered. In `Command`
weak fairness of the two tasks is the scheduler's. In `MeshNode` ESP-TOUCH's
timer fires: it is armed anew only by commands and by new searches, and both are
bounded. Strong fairness of the successful answer and of the successful
reconnection says that the network is not for ever against a node that keeps
trying; without it no node need ever join. The topology timer repeats for ever
once it is armed. In `SdioSlave` (`FairSpec`) task and handler go on and the host
reads what is announced, as an SDIO host does on the interrupt; nobody has to
load or to write. In `Uart` the hardware, the handler and a task that has begun
go on; strong fairness of `RecvTask` says that the scheduler serves an event in
the end though other tasks run before, of `RxBuffDeq` that with a buffer somebody
reads (nothing else empties it), of `IsrTx` that the interrupt is not masked by
new calls of `tx_buff_enq` exactly each time it comes up. `MCDrivers_apart`
checks safety only.

**Assumptions that are constants.** Where a property needs something of the
environment, a constant says so, and with the other value the property fails:

- `InitFirst` (SPI overlap): all devices are initialised before the first is
  selected. Otherwise `hspi_master_dev_init` changes settings or pins of a device
  that stays selected and is not programmed again.

**Where a driver fails its callers,** its property says where, and what it still
keeps:

- `KeysFollowed`: an edge that comes between 141 and 152, while its interrupt is
  off, is lost, and the driver waits for one that does not come (`missed`). It is
  in step again after the next debouncing, and no push it has seen goes unreported
  or is reported twice.
- `BusAsAsked`: `i2c_master_init` gives 28 clocks, three frames of nine and one
  clock, and a slave that takes the ones on SDA for bytes acknowledges each. One
  that a restart caught with eight bits of a byte is left acknowledging and holds
  SDA (`StillHolds`), whatever line 90 says of "reset all": the stop is none, and the
  next START is none either. A slave caught at any other bit is free.
- `TransferAsAsked`: a status call after `SPIInit` alone, or after a call without a
  command, sends no command; `SPIMasterSendData` without data leaves MISO enabled;
  the byte functions use the length of the call before. A transfer is as asked if
  and only if none of this has happened (`met`), and of a use that is `Suited` it
  never has. The last of `MCMixes` is not.

**The runs that find a violation** each check one sentence of the source:

- `user_hspi.c:48-51` says 0 means success. `wr_rdy = 1` at 87 lets the next
  pack overwrite the last fragment of one that was reported as sent. A master that
  waits for its reply is not safe: the next pack may come from the mesh.
- `command.c:198` says an ACK is sent. A mesh packet that arrives before the
  send task runs replaces it, and is sent twice.
- `mesh_device.c:174-175` says the list is re-allocated because it is limited.
  It grows by `rest + 10` however many devices have to be added.

**What else does not hold,** found while modelling, and left without a run of its
own:

- `user_hspi.c:306` resets `is_recv_pack` a second time after 354: a pack that
  arrived between the two loses its protection. `NoWedge` and `Reopens` hold all
  the same, and no pack of a patient master is lost by it (`Lossless`).
- The reply to `CMD_RETURN_RECV` points into `recv_pack` (`command.c:41`), which is
  open again before the reply is copied; hence the assumption `Patient`.
- `mesh_init` enables the mesh in the call that starts ESP-TOUCH (`mesh_demo.c:533`),
  although `mesh_demo.c:389` says it is enabled when ESP-TOUCH is over;
  `wait_esptouch_over` has no caller.
- `CMD_MESH_INIT` replies success although `mesh_init` may have returned early, and
  `CMD_SEND_MESH_DATA` before it enables a mesh that was never set up
  (`mesh_demo.c:477`): `MeshNode` has both (`MeshInitRefused`, `DataSendBusy`).
- A group of a multiple of 42 devices has no option left for the root, reads one
  entry past the list and leaves two bytes of the announced length unused
  (`mesh_json.c:203`); `PacketReaches` promises the list only for these numbers.
- `sdio_load_data` adds `len` to its result after setting it to 0
  (`sdio_slv.c:334`): the bytes of the last buffer are not in the count.

## 5. Proofs

| Theorem | Statement | Assumes |
|---|---|---|
| `HspiProofs!TypeCorrect` | `Spec => []TypeOK` | - |
| `HspiProofs!NeverWedged` | `Spec => []NoWedge` | - |
| `HspiProofs!FragmentationExact` | fragments cover a pack of any length exactly | - |
| `HspiProofs!Faithful` | `Spec => []FaithfulExecution` | `Patient` |
| `HspiPacedProofs!BufferNeverOverrun` | `Spec => []BufferBound` | `Paced` |
| `HspiPacedProofs!NothingLost` | `Spec => []Lossless` | `Paced`, `Patient` |
| `HspiPacedProofs!ResultBelieved` | `Spec => []RepliesMatchSent` | `Paced` |
| `HspiPacedProofs!UnreadKept` | `Spec => [][clean => ~OverwritesReported]_vars` | `Paced` |
| `HspiProofs!RecvPackQuiet` | `Spec => QuietArrival` | `Patient` |
| `CommandProofs!CommandTypeCorrect` | `Spec => []TypeOK` | - |
| `CommandProofs!ImplementsMailbox` | `Spec => IsMailbox` | `Patient`, or no `CMD_RETURN_RECV` |
| `CommandProofs!RepliesTakeTurns` | `Spec => OneReplyEach` | - |
| `CommandProofs!AckedWithoutMesh` | `Spec => [](nMesh = 0 => EveryCommandAcked)` | `~LowHeap` |
| `MeshDeviceProofs!InsideTheArray`, `DeviceTypeCorrect` | `WritesInside`, `TypeOK` | `MaxBatch <= Step` |
| `MeshDeviceProofs!ListedOnce`, `AddComplete`, `ImplementsDeviceSet` | `Spec /\ []WritesInside =>` `NoDuplicates`, `AllAdded`, `IsDeviceSet` | - |
| `MeshNodeProofs!NodeTypeCorrect`, `NoStaleTimeout`, `LinkKept`, `NeverDeaf`, `Follows` | `TypeOK`, `SmartconfigGuarded`, `LinkTakenWhileRunning`, `RecvReady`, `OneServer` | - |
| `MeshDeviceProofs!GroupsReached` | `JsonSpec /\ []WritesInside => []PacketReaches` | - |
| `SdioSlaveProofs!SdioTypeCorrect`, `ListsWellFormed` | `TypeOK`, `OnOneList` | - |
| `SdioSlaveProofs!BytesInOrder` | every step is one of `ByteStream` or a stutter | - |
| `SdioSlaveProofs!SlaveHears` | `Spec => []NotDeaf` | - |
| `UartProofs!ReceiverNeverWedged`, `UartTypeCorrect` | `NoWedge`, `TypeOK` | - |
| `UartProofs!ReceivedInOrder`, `SentInOrder` | every step is one of `RxStream`, of `TxStream` (with a buffer: the bytes it takes), or a stutter | - |
| `DriversProofs!KeysAreFollowed` | `KeySpec => []KeysFollowed` | - |
| `DriversProofs!BusObeyed` | `I2cSpec => []BusAsAsked` | - |
| `DriversProofs!TransfersAsAsked` | `SpiSpec => []TransferAsAsked` | - |
| `DriversProofs!EveryDeviceServed` | `OverlapSpec => []FourDevices` | `InitFirst` |

The constants' assumptions (`HspiAssumption`, `CommandAssumption`,
`MeshDeviceAssumption`, `EspTouchAssumption`, `MeshNodeAssumption`,
`MeshJsonAssumption`, `SdioAssumption`, `UartAssumption`, `KeyAssumption`,
`I2cAssumption`, `SpiAssumption`, `OverlapAssumption`) say only that they have their types, that a
pack is no shorter than its header, that an option has room for two addresses, that
a UART ring buffer is larger than a FIFO and that the SPI buffer is made of words. A missing assumption in the table means: for every
master, queue length, time limit and set of packs.

The arguments:

- **NeverWedged.** `NoWedge` relates `is_recv_pack` to the queue and the program
  counter, and is inductive together with the types: the buffer is closed only
  in the step that posts an event, a post on a full queue finds an event there,
  and the task that takes the last event has both resets before it.
- **Faithful.** `FaithfulExecution` alone says nothing of buffers. `PatientInv`
  adds that fragments reach `recv_pack` in the order they were written
  (`OrderInv`), that while a pack is being received its last fragment cannot be
  in the buffer already (`ReceivingInv`), that a completed buffer can only hold
  the current pack whole (`CompleteInv`), and that this pack has not been
  executed yet (`HistoryInv`). Lost flags only skip fragments, which the CRC
  then notices.
- **BufferNeverOverrun.** The handler checks neither index nor room. What bounds the
  index is that it counts the fragments the master sends (`CountInv`), which needs
  that the master never writes while the handler is at work on the fragment before
  (`PaceInv`) and that its own place in the pack is known (`PlaceInv`).
- **NothingLost.** With patience as well, no fragment is lost or spoilt: those so far
  are in the open buffer and nothing else runs (`IncomingInv`), the whole pack stays
  there until it is executed, so that every check of the task succeeds
  (`ArrivedInv`), and what has been executed is exactly 1, 2, 3 ... (`ExecutedInv`).
- **ResultBelieved.** While sendings are clean, what `hspi_send_data` reports as sent is
  what the master puts together. GPIO5 is up until the fragment is read and the
  handler knows, and `wr_rdy` is 1 only when nothing is on offer (`OfferInv`); so the
  next fragment is loaded only when the one before has been taken (`TransitInv`), but
  for the last one, which may still be on its way when 0 is returned (`ReplyInv`).
  Nothing of this survives a sending that is not clean, so the invariant is
  `clean => CleanInv`; what restores it is the next clean one: it finds nothing on
  offer, sets `wr_rdy` itself and starts with a start bit (`FreshStart`). Nothing is
  asked of the master but pace. A second read of the last fragment would be taken for
  another reply by a master that counts; a paced master cannot make one, for GPIO5
  is down before it looks again.
- **UnreadKept.** Only `SendLoad` writes W8..W15, and after a clean beginning nothing is
  on offer then (`OfferInv`). A fragment that is unread and yet not on offer is one
  that was given up, which is never the last of a pack reported as sent
  (`UnreadInv`). Without `clean` the statement is `NoUnreadReplyOverwritten`, which
  `MCHspi_unread` refutes.
- **RecvPackQuiet.** The handler stores a fragment only while one is pending, and a
  patient master has none pending while the receive task runs or a reply is queued
  (`TasksWait`); packets of the mesh may be queued or on their way all the while.
  `Command` says the same of its `Fragment` and `Arrive` in their guards.
- **ImplementsMailbox.** `Coherent`: if an event is queued, what
  `wifi_pack_send` leads to *now* is the frame completed last. `NoAlias` is where
  the assumption enters: without patience only frames that do not point into
  `recv_pack` keep it.
- **RepliesTakeTurns.** `Turns`: before the first mesh packet there is at most
  one event, exactly when the last reply is unsent, since the send task outranks
  the receive task. None of it looks at what the frames contain, so an MCU that is
  not patient may spoil a reply but not its turn.
- **AckedWithoutMesh.** `Counted`: frames sent and events queued together are as many
  as commands that promise a reply, and none of them is a mesh packet.
- **MeshDevice.** Options may be longer than `MESH_DEV_STEP`, and then the code may
  write past its array (`MCMeshDevice_batch`). Once it has, nothing is promised; as
  long as it has not (`[]WritesInside`), the theorems hold with options of any length
  and whether or not an allocation fails. `AppendFacts` is where the hypothesis is
  used: an append goes to a place of the array that is free. When no option is longer
  than the step, the hypothesis holds: `Fits`, while `add` runs the free part of the
  array holds every device still to be looked at, which `RestFits` derives from the
  growth rule. `Processed` carries `AddComplete` through the loop.
- **GroupsReached.** Every test starts from a table that `Inv` describes. `Place` and
  `PlaceOf` are the division with remainder behind the two loops of `mesh_json.c`:
  a place in an option is a place in the list, and every place in the list before
  the last full option is one in an option; the option of the rest, which begins with
  the root, has the others. For a whole number of options there is no such option, and
  the theorem promises the listed devices only.
- **MeshNode.** `Registered`: while the mesh is up, `g_ser_conn` is complete, for the
  one failure that leaves it half set up disables the mesh; so whoever reopens it
  may do so without a look. `Retargeted`: after `CMD_MESH_INIT` an answer of type
  ONLINE is still to come or the connection has the right server, since only an
  answer of type LOCAL may skip the set-up and a failed one is asked for again.
- **KeysAreFollowed.** A key is in one of three places: at rest, with an edge latched
  that the handler has not served, or being debounced with its interrupt off
  (`Placed`); each place says what is armed and what the user is owed, and
  `LongPending` ties the 5 s timer to the push. `KeysFollowed` follows for keys at
  rest; it is not inductive because it says nothing of the others. What is promised
  of a key's level and edge is promised of keys outside of `missed` only; what is
  promised of reports, of all.
- **ReceiverNeverWedged.** The promise of `NoWedge` must hold too of a value of the
  interrupt enable register that a task has read and not yet written back
  (`LateStore`): either the receive interrupts are in it, or an event is queued
  since, or the ring buffer is too full and its reader unmasks.
- **SDIO.** There is one cut of the ring (`h`, `k`) at every moment: the `k` buffers from
  `h` on are on `ToSend` in this order, the others on `Sended` (`ListsInv`); between
  the two halves of moving a buffer the last of `ToSend` is still the first of
  `Sended` (`Hung`). The buffers of `ToSend` but the first are full, the free ones but
  the first are empty (`FillInv`), and the bytes in them are one run of numbers that
  goes on from those the host has got (`BytesInv`). An action keeps the cut or moves
  one end of it by one, or sets `astray`; with a partly filled free buffer the handler
  moves both ends. That is the long case of the proof: it takes the last block while a
  load is anywhere (`ReadAt`), and outside of a `Collision` it leaves a ring that the
  load can go on with. `NotDeaf` needs none of this: the link from the host is off only
  while an end of transfer is pending or was cleared unseen (`HearsInv`).
- **UART bytes.** `BytesInv`: the bytes received lie in `out`, the ring buffer and the
  FIFO, numbered without a gap, and those to be sent likewise, but for the bytes of
  others between them in the FIFO (`Carries`: a function says how far the numbers have
  come at each place). That `rx_buff_deq` may
  copy without a wrap when `pOutPos` is before `pInPos` needs more: equal positions
  have to mean an empty buffer. They do, since `uart_recvTask` takes bytes only when
  more room is left than it takes (`cnt < pRx.Space` in `TaskInv`), which keeps
  the receive buffer from ever being quite full.
- **BusObeyed.** `BusAsAsked` speaks of the end of a call. The invariant gives, for
  each call and each number of half cycles done, both lines and the place of the
  slave: in `writeByte` it has the first `done \div 3` bits of the byte, in
  `readByte` the call has those above the bit the slave sends, and it drives SDA
  only where it should, so that no edge of SDA meets SCL high but those of START
  and STOP (`StartInv` to `SetAckInv`). `NextBit` and `NextRead` are the shifts of
  the two loops. For `i2c_master_init`, `Swept` counts modulo 9 from the bit where
  the restart caught the slave: a sender reads a NACK in its second frame at the
  latest and lets go, a receiver that goes on has had 28 clocks, and lies in the
  ninth of a frame only if it began in the ninth (`caught`). `Unheard` and `Resumed`
  follow such a slave through the START it does not notice into the first byte,
  whose first falling edge ends its acknowledgement.
- **TransfersAsAsked.** What a call finds in `SPI_USER` depends on all calls before.
  `BeginPhases` shows for every call that the phases it ends up with are those it is
  for if and only if it found them as it takes them to be. For suited uses,
  `Prepared` states, for each kind of call in use, what every call leaves for it.
- **EveryDeviceServed.** `BackedUp`: nothing is selected before the back-ups are
  taken, so the first selection starts from what `spi_master_init` left. A selection
  from *any* device in order (`DeviceAsConfigured`) leaves the new one in order
  (`SelectInv`). `ReadSoFar` has the bytes up to `temp_addr` for the flash reads.

Every safety property of the runs is proved. Only model-checked is liveness, which
the prover does not handle under fairness: `AllAnswered`, `SendReturns`, `Reopens`, `LatestSent`,
`EspTouchEnds`, `Joins`, `Reconnects`, `PacksHandled`, and the half of the byte
streams (`IsByteStream`, `IsRxStream`, `IsTxStream`) that says every byte comes out
in the end. `BytesInOrder`, `ReceivedInOrder` and `SentInOrder` prove the other half.

## 6. Not modelled

Of the drivers: the settings of the line of `uart.c` (639-689, 752-786) and UART1;
clock, pins and slave set-up of `spi.c` and `spi_interface.c` (no state but
registers that are set once), and the slave example of `spi.c` (152-463), which
prints what it receives and repeats the handler that `Hspi` models; `hw_timer.c`
and `gpio16.c`, single register accesses. `Crc` is planned (section 2). README item 2
(a packet every 7 s) describes `esp_mesh_demo_test`, whose registration is
commented out (`mesh_demo.c:152-156`): nothing runs it and nothing models it. The byte layout of commands is not modelled, so the setters
that copy fixed sizes whatever `lenth` says and the unchecked `lenth - 6` of
`CMD_SEND_MESH_DATA` are listed as hazards without a property. The SDK is
external throughout. The packet dispatch is a stateless
table; device discovery is never started; build
files and tools have no behaviour at run time.
