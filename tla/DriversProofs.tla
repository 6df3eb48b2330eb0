--------------------------- MODULE DriversProofs ----------------------------
(***************************************************************************)
(* Proofs about the small drivers that MCDrivers checks side by side.      *)
(***************************************************************************)
EXTENDS Key, I2cMaster, SpiMaster, SpiOverlap, FiniteSetTheorems, TLAPS
-----------------------------------------------------------------------------
(* Key, for any number of keys, with pins that move at any time.  A key is *)
(* in one of three places: at rest, with an edge latched that the handler  *)
(* has not served yet, or being debounced with its interrupt off; each     *)
(* says what is armed and what the user is owed, and where the pin is if   *)
(* no edge of it has been missed.                                          *)

KeyTypeOK ==
  /\ pin \in [Keys -> 0..1] /\ key_level \in [Keys -> 0..1]
  /\ intr \in [Keys -> {"neg", "pos", "off"}]
  /\ gpio_status \subseteq Keys /\ key_5s \subseteq Keys /\ key_50ms \subseteq Keys
  /\ handler \in [at : {"idle", "mask", "serve"}, i : Nat, status : SUBSET Keys]
  /\ callback \in [at : {"idle", "5s", "50ms"}, key : Nat, up : BOOLEAN]
  /\ callback.at # "idle" => callback.key \in Keys
  /\ owed \in [Keys -> 0..1] /\ longs \in [Keys -> 0..1] /\ missed \subseteq Keys

(* What the handler has read it serves in order, and what it has not come  *)
(* to is still latched.                                                    *)
HandlerInOrder ==
  /\ handler.at = "idle" => handler.status = {}
  /\ handler.at = "serve" => handler.i \in handler.status \ gpio_status
  /\ \A k \in handler.status :
       \/ k \in gpio_status /\ k >= handler.i
       \/ handler.at = "serve" /\ k = handler.i

Debounced(k) == callback.at = "50ms" /\ callback.key = k
Latched(k) == k \in gpio_status \cup handler.status
EdgeFrom(level) == IF level = 1 THEN "neg" ELSE "pos"

AtRest(k) ==
  /\ ~Latched(k) /\ k \notin key_50ms /\ ~Debounced(k)
  /\ owed[k] = 1 - key_level[k] /\ intr[k] = EdgeFrom(key_level[k])
  /\ k \notin missed => key_level[k] = pin[k]

EdgeSeen(k) ==
  /\ Latched(k) /\ k \notin key_50ms /\ ~Debounced(k)
  /\ owed[k] = 1 /\ (k \notin missed => key_level[k] = 1 - pin[k])
  /\ intr[k] = IF k \in gpio_status THEN EdgeFrom(key_level[k]) ELSE "off"

Debouncing(k) ==
  /\ ~Latched(k) /\ intr[k] = "off" /\ key_level[k] = 0 /\ owed[k] = 1
  /\ \/ k \in key_50ms /\ ~Debounced(k)
     \/ /\ k \notin key_50ms /\ Debounced(k)
        /\ k \notin missed => (callback.up <=> pin[k] = 1)

Placed(k) == AtRest(k) \/ EdgeSeen(k) \/ Debouncing(k)

(* A long press is still to come only while its push lasts.                *)
LongPending(k) ==
  /\ k \in key_5s => key_level[k] = 0 /\ owed[k] = 1 /\ longs[k] = 0
  /\ callback.at = "5s" /\ callback.key = k =>
       k \notin key_5s /\ key_level[k] = 0 /\ owed[k] = 1 /\ longs[k] = 0
  /\ key_level[k] = 1 /\ owed[k] = 1 => longs[k] = 0

KeyIInv ==
  /\ KeyTypeOK /\ HandlerInOrder
  /\ \A k \in Keys : Placed(k) /\ LongPending(k)

LEMMA KeyInitInv == KeyInit => KeyIInv
<1> SUFFICES ASSUME KeyInit PROVE KeyIInv
  OBVIOUS
<1>1. KeyTypeOK /\ HandlerInOrder
  BY DEF KeyInit, KeyTypeOK, HandlerInOrder, NoHandler, NoCallback
<1>2. ASSUME NEW k \in Keys PROVE Placed(k) /\ LongPending(k)
  BY DEF KeyInit, Placed, AtRest, Latched, Debounced, LongPending, NoHandler,
         NoCallback, EdgeFrom
<1> QED
  BY <1>1, <1>2 DEF KeyIInv

(* The places of a key, opened.                                            *)
LEMMA PinEdgeInv ==
  ASSUME KeyIInv, NEW j \in Keys, PinEdge(j)
  PROVE  KeyIInv'
<1> USE DEF KeyIInv, PinEdge
<1>1. j \in gpio_status' <=> j \in gpio_status \/ intr[j] = EdgeFrom(pin[j])
  BY DEF EdgeFrom
<1>2. \A k \in Keys \ {j} : k \in gpio_status' <=> k \in gpio_status
  OBVIOUS
<1>3. KeyTypeOK'
  BY DEF KeyTypeOK
<1>4. Resting(j) <=> AtRest(j)
  BY DEF Resting, Placed, AtRest, EdgeSeen, Debouncing, Latched, Debounced
<1>m. j \notin missed' <=> j \notin missed /\ (AtRest(j) \/ j \in key_50ms)
  BY <1>4
<1>5. HandlerInOrder'
  <2>1. handler.at = "serve" /\ handler.i = j => j \notin gpio_status'
    <3>1. ASSUME handler.at = "serve", handler.i = j PROVE intr[j] = "off"
      BY <3>1 DEF HandlerInOrder, Placed, AtRest, EdgeSeen, Debouncing, Latched
    <3> QED BY <1>1, <3>1 DEF HandlerInOrder, EdgeFrom
  <2> QED BY <1>1, <1>2, <2>1 DEF HandlerInOrder, KeyTypeOK
<1>6. ASSUME NEW k \in Keys, k # j PROVE Placed(k)' /\ LongPending(k)'
  BY <1>2, <1>6 DEF Placed, AtRest, EdgeSeen, Debouncing, Latched, Debounced,
                    LongPending, KeyTypeOK
<1>p. pin[j] \in 0..1 /\ pin'[j] = 1 - pin[j] /\ key_level[j] \in 0..1
  BY DEF KeyTypeOK
<1>7. CASE AtRest(j)
  <2>0. missed' = missed
    BY <1>4, <1>7
  <2>1. LongPending(j)'
    BY <1>4, <1>7, <1>p DEF AtRest, LongPending, KeyTypeOK
  <2>2. CASE pin[j] = key_level[j]
    <3>1. j \in gpio_status' /\ owed'[j] = 1
      BY <1>1, <1>4, <1>7, <1>p, <2>2 DEF AtRest, EdgeFrom, KeyTypeOK
    <3>2. EdgeSeen(j)'
      BY <1>7, <1>p, <2>0, <2>2, <3>1 DEF AtRest, EdgeSeen, Latched, Debounced, EdgeFrom
    <3> QED
      BY <1>3, <1>5, <1>6, <2>1, <3>2 DEF Placed
  <2>3. CASE pin[j] # key_level[j]
    <3>1. j \notin gpio_status' /\ owed'[j] = 1 - key_level[j] /\ j \in missed
      BY <1>1, <1>4, <1>7, <1>p, <2>3 DEF AtRest, Latched, EdgeFrom, KeyTypeOK
    <3>2. AtRest(j)'
      BY <1>7, <2>0, <3>1 DEF AtRest, Latched, Debounced
    <3> QED
      BY <1>3, <1>5, <1>6, <2>1, <3>2 DEF Placed
  <2> QED BY <2>2, <2>3
<1>8. CASE EdgeSeen(j)
  <2>0. ~Resting(j) /\ j \in missed' /\ UNCHANGED <<owed, longs>>
    BY <1>8 DEF EdgeSeen, Resting, Latched
  <2>1. j \in gpio_status' <=> j \in gpio_status
    BY <1>1, <1>8 DEF EdgeSeen, EdgeFrom
  <2>2. EdgeSeen(j)' /\ LongPending(j)'
    BY <1>8, <2>0, <2>1 DEF EdgeSeen, Latched, Debounced, LongPending
  <2> QED
    BY <1>3, <1>5, <1>6, <2>2 DEF Placed
<1>9. CASE Debouncing(j)
  <2>0. ~Resting(j) /\ UNCHANGED <<owed, longs>>
    BY <1>9 DEF Debouncing, Resting, Latched, Debounced
  <2>1. j \notin gpio_status'
    BY <1>1, <1>9 DEF Debouncing, Latched, EdgeFrom
  <2>2. Debouncing(j)' /\ LongPending(j)'
    BY <1>9, <2>0, <2>1 DEF Debouncing, Latched, Debounced, LongPending
  <2> QED
    BY <1>3, <1>5, <1>6, <2>2 DEF Placed
<1> QED
  BY <1>7, <1>8, <1>9 DEF Placed

LEMMA HandlerEnterInv ==
  ASSUME KeyIInv, HandlerEnter
  PROVE  KeyIInv'
<1> USE DEF KeyIInv, HandlerEnter
<1>1. KeyTypeOK' /\ HandlerInOrder'
  BY DEF KeyTypeOK, HandlerInOrder, Keys
<1>2. ASSUME NEW k \in Keys PROVE Placed(k)' /\ LongPending(k)'
  BY DEF Placed, AtRest, EdgeSeen, Debouncing, Latched, Debounced, LongPending,
         HandlerInOrder
<1> QED
  BY <1>1, <1>2

LEMMA MaskInv ==
  ASSUME KeyIInv, Mask
  PROVE  KeyIInv'
<1> USE KeyAssumption DEF KeyIInv, Mask
<1>1. handler.i \in Keys
  BY DEF KeyTypeOK, Keys
<1>2. CASE handler.i \in handler.status
  <2>1. KeyTypeOK'
    BY <1>1, <1>2 DEF KeyTypeOK
  <2>2. HandlerInOrder'
    BY <1>1, <1>2 DEF HandlerInOrder, KeyTypeOK
  <2>3. ASSUME NEW k \in Keys PROVE Placed(k)' /\ LongPending(k)'
    BY <1>1, <1>2 DEF Placed, AtRest, EdgeSeen, Debouncing, Latched, Debounced,
                      LongPending, KeyTypeOK, HandlerInOrder
  <2> QED
    BY <2>1, <2>2, <2>3
<1>3. CASE handler.i \notin handler.status
  <2>1. KeyTypeOK' /\ HandlerInOrder'
    <3>1. handler' = [handler EXCEPT !.i = @ + 1] /\ handler.i + 1 \in Nat
      BY <1>1, <1>3 DEF Keys
    <3>2. KeyTypeOK'
      BY <1>3, <3>1 DEF KeyTypeOK
    <3>3. HandlerInOrder'
      BY <1>1, <1>3, <3>1 DEF KeyTypeOK, HandlerInOrder, Keys
    <3> QED
      BY <3>2, <3>3
  <2>2. ASSUME NEW k \in Keys PROVE Placed(k)' /\ LongPending(k)'
    BY <1>1, <1>3 DEF Placed, AtRest, EdgeSeen, Debouncing, Latched, Debounced,
                      LongPending, KeyTypeOK
  <2> QED
    BY <2>1, <2>2
<1> QED
  BY <1>2, <1>3

LEMMA ServeInv ==
  ASSUME KeyIInv, Serve
  PROVE  KeyIInv'
<1> USE KeyAssumption DEF KeyIInv
<1>1. PICK j \in Keys : j = handler.i /\ j \in handler.status /\ j \notin gpio_status
  BY DEF Serve, KeyTypeOK, HandlerInOrder
<1>2. EdgeSeen(j) /\ LongPending(j)
  BY <1>1 DEF Placed, AtRest, Debouncing, Latched
<1>3. /\ handler' = [at |-> "mask", i |-> j + 1, status |-> handler.status \ {j}]
      /\ UNCHANGED <<pin, gpio_status, callback, owed, longs, missed>>
  BY <1>1 DEF Serve
<1>4. HandlerInOrder' /\ handler' \in [at : {"idle", "mask", "serve"}, i : Nat, status : SUBSET Keys]
  BY <1>1, <1>3 DEF Serve, HandlerInOrder, KeyTypeOK, Keys
<1>5. CASE key_level[j] = 1
  <2>1. /\ key_5s' = key_5s \cup {j} /\ key_level' = [key_level EXCEPT ![j] = 0]
        /\ intr' = [intr EXCEPT ![j] = "pos"] /\ UNCHANGED key_50ms
    BY <1>1, <1>5 DEF Serve
  <2>2. KeyTypeOK'
    BY <1>3, <1>4, <2>1 DEF KeyTypeOK
  <2>3. ASSUME NEW k \in Keys, k # j PROVE Placed(k)' /\ LongPending(k)'
    BY <1>1, <1>3, <2>1, <2>3 DEF Placed, AtRest, EdgeSeen, Debouncing, Latched,
       Debounced, LongPending, KeyTypeOK
  <2>4. AtRest(j)'
    BY <1>1, <1>2, <1>3, <1>5, <2>1 DEF AtRest, EdgeSeen, Latched, Debounced, EdgeFrom, KeyTypeOK
  <2>5. LongPending(j)'
    BY <1>1, <1>2, <1>3, <1>5, <2>1 DEF EdgeSeen, LongPending, KeyTypeOK
  <2> QED
    BY <1>4, <2>2, <2>3, <2>4, <2>5 DEF Placed
<1>6. CASE key_level[j] # 1
  <2>1. key_50ms' = key_50ms \cup {j} /\ UNCHANGED <<key_5s, key_level, intr>>
    BY <1>1, <1>6 DEF Serve
  <2>2. KeyTypeOK'
    BY <1>3, <1>4, <2>1 DEF KeyTypeOK
  <2>3. ASSUME NEW k \in Keys, k # j PROVE Placed(k)' /\ LongPending(k)'
    BY <1>1, <1>3, <2>1, <2>3 DEF Placed, AtRest, EdgeSeen, Debouncing, Latched,
       Debounced, LongPending, KeyTypeOK
  <2>4. Debouncing(j)'
    BY <1>1, <1>2, <1>3, <1>6, <2>1 DEF Debouncing, EdgeSeen, Latched, Debounced, KeyTypeOK
  <2>5. LongPending(j)'
    BY <1>2, <1>3, <2>1 DEF LongPending
  <2> QED
    BY <1>4, <2>2, <2>3, <2>4, <2>5 DEF Placed
<1> QED
  BY <1>5, <1>6

LEMMA HandlerLeaveInv ==
  ASSUME KeyIInv, HandlerLeave
  PROVE  KeyIInv'
<1> USE KeyAssumption DEF KeyIInv, HandlerLeave, NoHandler
<1>1. handler.status = {}
  BY DEF KeyTypeOK, HandlerInOrder, Keys
<1>2. KeyTypeOK' /\ HandlerInOrder'
  BY DEF KeyTypeOK, HandlerInOrder
<1>3. ASSUME NEW k \in Keys PROVE Placed(k)' /\ LongPending(k)'
  BY <1>1 DEF Placed, AtRest, EdgeSeen, Debouncing, Latched, Debounced, LongPending
<1> QED
  BY <1>2, <1>3

LEMMA ExpireInv ==
  ASSUME KeyIInv, NEW j \in Keys, Expire5s(j) \/ Expire50ms(j)
  PROVE  KeyIInv'
<1> USE DEF KeyIInv, Expire
<1>1. CASE Expire5s(j)
  <2>1. KeyTypeOK' /\ HandlerInOrder'
    BY <1>1 DEF Expire5s, KeyTypeOK, HandlerInOrder, Keys
  <2>2. ASSUME NEW k \in Keys PROVE Placed(k)' /\ LongPending(k)'
    BY <1>1 DEF Expire5s, Placed, AtRest, EdgeSeen, Debouncing, Latched, Debounced,
                LongPending, KeyTypeOK
  <2> QED
    BY <2>1, <2>2
<1>2. CASE Expire50ms(j)
  <2>1. KeyTypeOK' /\ HandlerInOrder'
    BY <1>2 DEF Expire50ms, KeyTypeOK, HandlerInOrder, Keys
  <2>2. ASSUME NEW k \in Keys PROVE Placed(k)' /\ LongPending(k)'
    BY <1>2 DEF Expire50ms, Placed, AtRest, EdgeSeen, Debouncing, Latched, Debounced,
                LongPending, KeyTypeOK
  <2> QED
    BY <2>1, <2>2
<1> QED
  BY <1>1, <1>2

LEMMA LongPressInv ==
  ASSUME KeyIInv, LongPress
  PROVE  KeyIInv'
<1> USE DEF KeyIInv, LongPress, NoCallback
<1>1. KeyTypeOK' /\ HandlerInOrder'
  BY DEF KeyTypeOK, HandlerInOrder, LongPending
<1>2. ASSUME NEW k \in Keys PROVE Placed(k)' /\ LongPending(k)'
  BY DEF Placed, AtRest, EdgeSeen, Debouncing, Latched, Debounced, LongPending, KeyTypeOK
<1> QED
  BY <1>1, <1>2

LEMMA ReleaseInv ==
  ASSUME KeyIInv, Release
  PROVE  KeyIInv'
<1> USE DEF KeyIInv
<1>1. PICK j \in Keys : j = callback.key /\ Debounced(j)
  BY DEF Release, KeyTypeOK, Debounced
<1>2. /\ Debouncing(j) /\ LongPending(j) /\ j \notin key_50ms
      /\ j \notin missed => (callback.up <=> pin[j] = 1)
  BY <1>1 DEF Placed, AtRest, EdgeSeen, Debouncing
<1>3. /\ handler.at = "idle" /\ callback.at = "50ms" /\ callback' = NoCallback
      /\ UNCHANGED <<pin, gpio_status, key_50ms, handler, longs, missed>>
  BY DEF Release
<1>4. HandlerInOrder' /\ callback' \in [at : {"idle", "5s", "50ms"}, key : Nat, up : BOOLEAN]
  BY <1>3 DEF HandlerInOrder, NoCallback
<1>5. CASE callback.up
  <2>1. /\ key_5s' = key_5s \ {j} /\ key_level' = [key_level EXCEPT ![j] = 1]
        /\ intr' = [intr EXCEPT ![j] = "neg"] /\ owed' = [owed EXCEPT ![j] = @ - 1]
    BY <1>1, <1>5 DEF Release
  <2>2. owed[j] - 1 = 0
    BY <1>2 DEF Debouncing
  <2>3. KeyTypeOK'
    BY <1>3, <1>4, <2>1, <2>2 DEF KeyTypeOK, NoCallback
  <2>4. ASSUME NEW k \in Keys, k # j PROVE Placed(k)' /\ LongPending(k)'
    BY <1>1, <1>3, <2>1, <2>4 DEF Placed, AtRest, EdgeSeen, Debouncing, Latched,
       Debounced, LongPending, KeyTypeOK, NoCallback
  <2>5. AtRest(j)' /\ LongPending(j)'
    BY <1>1, <1>2, <1>3, <1>5, <2>1, <2>2 DEF AtRest, Debouncing, Latched, Debounced,
       LongPending, EdgeFrom, KeyTypeOK, NoCallback
  <2> QED
    BY <1>4, <2>3, <2>4, <2>5 DEF Placed
<1>6. CASE ~callback.up
  <2>1. intr' = [intr EXCEPT ![j] = "pos"] /\ UNCHANGED <<key_5s, key_level, owed>>
    BY <1>1, <1>6 DEF Release
  <2>2. KeyTypeOK'
    BY <1>3, <1>4, <2>1 DEF KeyTypeOK, NoCallback
  <2>3. ASSUME NEW k \in Keys, k # j PROVE Placed(k)' /\ LongPending(k)'
    BY <1>1, <1>3, <2>1, <2>3 DEF Placed, AtRest, EdgeSeen, Debouncing, Latched,
       Debounced, LongPending, KeyTypeOK, NoCallback
  <2>4. AtRest(j)' /\ LongPending(j)'
    BY <1>1, <1>2, <1>3, <1>6, <2>1 DEF AtRest, Debouncing, Latched, Debounced,
       LongPending, EdgeFrom, KeyTypeOK, NoCallback
  <2> QED
    BY <1>4, <2>2, <2>3, <2>4 DEF Placed
<1> QED
  BY <1>5, <1>6

LEMMA KeyNextInv ==
  ASSUME KeyIInv, [KeyNext]_keyVars
  PROVE  KeyIInv'
<1>1. CASE UNCHANGED keyVars
  BY <1>1 DEF keyVars, KeyIInv, KeyTypeOK, HandlerInOrder, Placed, AtRest, EdgeSeen,
              Debouncing, Latched, Debounced, LongPending
<1>2. CASE KeyNext
  BY <1>2, PinEdgeInv, HandlerEnterInv, MaskInv, ServeInv, HandlerLeaveInv, ExpireInv,
     LongPressInv, ReleaseInv DEF KeyNext
<1> QED
  BY <1>1, <1>2

(* However keys bounce and callbacks interleave, with any number of keys:  *)
(* a key at rest waits for the edge that comes next, unless an edge has    *)
(* been missed since it was debounced last; every push seen is answered by *)
(* one short press, and a long press is reported at most once and during   *)
(* the push, whatever has been missed (key.c:89-161).                      *)
THEOREM KeysAreFollowed == KeySpec => []KeysFollowed
<1>1. KeyIInv => KeysFollowed
  BY DEF KeyIInv, KeysFollowed, KeyTypeOK, Placed, AtRest, EdgeSeen, Debouncing,
         Latched, Debounced, LongPending, Resting, EdgeFrom
<1>2. KeyIInv /\ [KeyNext]_keyVars => KeyIInv'
  BY KeyNextInv
<1> QED
  BY <1>1, <1>2, KeyInitInv, PTL DEF KeySpec

-----------------------------------------------------------------------------
(* SpiOverlap, for any clock divisors, any size of the flash and of the    *)
(* buffer, and any number of selections and reads, if devices are          *)
(* initialised before the first is selected.                               *)

Devices == [active : BOOLEAN, div : ClkDivs \cup {0}, polar : 0..1]
Clocks == ClkDivs \cup {0, "sysclk", "flash", "init"}
Registers == [set : {"flash", "dev"}, clock : Clocks,
              edge : 0..1, cs : 0..2, setup : BOOLEAN]

OverlapTypeOK ==
  /\ io80M \in BOOLEAN /\ conf \in [Dev -> Devices]
  /\ selected_dev_num \in 0..4 /\ hspi_reg_backup_flag \in BOOLEAN
  /\ hspi \in Registers /\ overlap \in BOOLEAN /\ csPin \in BOOLEAN
  /\ readLeft \in Nat /\ readAddr \in Nat

(* Nothing is selected without a back-up, and the first selection starts   *)
(* from what spi_master_init has left.                                     *)
BackedUp ==
  ~hspi_reg_backup_flag =>
    selected_dev_num = HSPI_CS_DEV /\ \A d \in Dev : ~conf[d].active

(* A read under way has the bytes up to readAddr.                          *)
ReadSoFar ==
  readLeft > 0 =>
    /\ selected_dev_num = SPI_CS0_FLASH
    /\ \E a \in Nat :
         /\ a <= readAddr /\ readWant = a..readAddr + readLeft - 1
         /\ readGot = a..readAddr - 1
         /\ readWords \in Nat /\ readWords * 4 = readAddr - a

ReadDone ==
  readLeft = 0 =>
    readGot = readWant /\ readWords * 4 < Cardinality(readWant) + 4

OverlapIInv ==
  /\ OverlapTypeOK /\ BackedUp /\ DeviceAsConfigured
  /\ ReadSoFar /\ ReadDone

LEMMA BackupsAreRegisters == FlashBackup \in Registers /\ DevBackup \in Registers
  BY DEF FlashBackup, DevBackup, Registers, Clocks

LEMMA OverlapInitInv == OverlapInit => OverlapIInv
<1> SUFFICES ASSUME OverlapInit PROVE OverlapIInv
  OBVIOUS
<1> USE OverlapAssumption DEF OverlapInit
<1>1. OverlapTypeOK
  <2>1. conf \in [Dev -> Devices]
    BY DEF Devices
  <2>2. hspi \in Registers
    BY BackupsAreRegisters
  <2>3. io80M \in BOOLEAN
    OBVIOUS
  <2>4. selected_dev_num \in 0..4 /\ readLeft \in Nat /\ readAddr \in Nat
    BY DEF HSPI_CS_DEV
  <2>5. hspi_reg_backup_flag \in BOOLEAN /\ overlap \in BOOLEAN /\ csPin \in BOOLEAN
    OBVIOUS
  <2> HIDE OverlapAssumption DEF OverlapInit
  <2> QED
    BY <2>1, <2>2, <2>3, <2>4, <2>5, Zenon DEF OverlapTypeOK
<1>3. BackedUp /\ DeviceAsConfigured
  BY DEF BackedUp, DeviceAsConfigured
<1>2. ReadSoFar /\ ReadDone
  BY FS_EmptySet DEF ReadSoFar, ReadDone
<1> QED
  BY <1>1, <1>2, <1>3 DEF OverlapIInv

(* hspi_master_dev_init changes the settings of no device in use.          *)
LEMMA DevInitInv ==
  ASSUME InitFirst, OverlapIInv,
         NEW d \in Dev, NEW polar \in 0..1, NEW div \in ClkDivs, DevInit(d, polar, div)
  PROVE  OverlapIInv'
<1> USE OverlapAssumption DEF OverlapIInv, DevInit
<1>1. hspi_reg_backup_flag' /\ selected_dev_num' = HSPI_IDLE
  OBVIOUS
<1>2. OverlapTypeOK'
  <2>1. conf' \in [Dev -> Devices]
    BY DEF OverlapTypeOK, Devices
  <2>2. hspi' \in Registers
    BY BackupsAreRegisters DEF OverlapTypeOK
  <2> QED
    BY <2>1, <2>2 DEF OverlapTypeOK, HSPI_IDLE, HSPI_CS_DEV, readVars
<1>3. BackedUp' /\ DeviceAsConfigured'
  BY <1>1 DEF BackedUp, DeviceAsConfigured
<1>4. ReadSoFar' /\ ReadDone'
  BY DEF ReadSoFar, ReadDone, readVars
<1> QED
  BY <1>2, <1>3, <1>4

(* A selection of d from any f leaves what d needs.                        *)
LEMMA SelectInv ==
  ASSUME OverlapIInv, NEW d \in Dev, Select(d), readLeft = 0,
         UNCHANGED <<io80M, conf, hspi_reg_backup_flag>>
  PROVE  /\ BackedUp' /\ DeviceAsConfigured'
         /\ selected_dev_num' \in 0..4 /\ hspi' \in Registers
         /\ overlap' \in BOOLEAN /\ csPin' \in BOOLEAN
         /\ conf[d].active => selected_dev_num' = d
<1> DEFINE f == selected_dev_num
<1> USE OverlapAssumption DEF OverlapIInv, HSPI_CS_DEV, SPI_CS1_DEV, SPI_CS2_DEV,
        SPI_CS0_FLASH, HSPI_IDLE, Dev, Shared
<1>1. CASE ~conf[d].active \/ (conf[d].active /\ f = d)
  <2>1. UNCHANGED <<selected_dev_num, hspi>>
    BY <1>1 DEF Select
  <2>2. UNCHANGED <<overlap, csPin>>
    <3>1. ~Overlaps(d, d) /\ ~Parts(d, d)
      BY DEF Overlaps, Parts
    <3> QED
      BY <1>1, <3>1 DEF Select
  <2> QED
    BY <1>1, <2>1, <2>2 DEF BackedUp, DeviceAsConfigured, FlashBackup, OverlapTypeOK, Select
<1>2. CASE conf[d].active /\ f # d
  <2>1. hspi_reg_backup_flag /\ f \in 0..4
    BY <1>2 DEF BackedUp, OverlapTypeOK
  <2>2. /\ selected_dev_num' = d /\ hspi' = Selected(f, d)
        /\ overlap' = IF Overlaps(f, d) THEN TRUE ELSE IF Parts(f, d) THEN FALSE ELSE overlap
        /\ csPin' = IF Overlaps(f, d) THEN FALSE ELSE IF Parts(f, d) THEN TRUE ELSE csPin
    BY <1>2 DEF Select
  <2>3. (overlap' <=> d \in Shared) /\ (csPin' <=> d = HSPI_CS_DEV)
    BY <1>2, <2>1, <2>2 DEF Overlaps, Parts, DeviceAsConfigured
  <2>4. Restored(f, d) \in Registers
    <3>1. Crossed(f, d) \in Registers
      BY DEF Crossed, Registers, OverlapTypeOK
    <3> QED
      BY <3>1, BackupsAreRegisters DEF Restored
  <2>5. Clock(f, d) \in Clocks
    <3>1. hspi.clock \in Clocks /\ Restored(f, d).clock \in Clocks
      BY <2>4 DEF OverlapTypeOK, Registers
    <3>2. conf[d].div \in Clocks
      BY DEF OverlapTypeOK, Devices, Clocks
    <3> QED
      BY <3>1, <3>2 DEF Clock, Clocks
  <2>6. Restored(f, d).set = IF d = SPI_CS0_FLASH THEN "flash" ELSE "dev"
    BY <1>2, <2>1 DEF Restored, FlashBackup, DevBackup, Crossed, DeviceAsConfigured,
       OverlapTypeOK, Registers
  <2>7. d \in {SPI_CS1_DEV, SPI_CS2_DEV} => Restored(f, d).setup
    <3>1. CASE f \in {SPI_CS0_FLASH, HSPI_IDLE}
      BY <3>1 DEF Restored, DevBackup
    <3>2. CASE f = HSPI_CS_DEV
      BY <3>2 DEF Restored, Crossed, Overlaps, OverlapTypeOK, Registers
    <3>3. CASE f \in {SPI_CS1_DEV, SPI_CS2_DEV}
      <4>1. hspi.setup
        BY <2>1, <3>3 DEF DeviceAsConfigured
      <4>2. ~Overlaps(f, d) /\ (d # HSPI_CS_DEV => ~Parts(f, d))
        BY <3>3 DEF Overlaps, Parts
      <4>3. d # HSPI_CS_DEV => Crossed(f, d).setup
        BY <4>1, <4>2 DEF Crossed, OverlapTypeOK, Registers
      <4> QED
        BY <3>3, <4>3 DEF Restored
    <3> QED
      BY <2>1, <3>1, <3>2, <3>3
  <2>8. Clock(f, d) = IF d = SPI_CS0_FLASH THEN FlashBackup.clock
                      ELSE IF io80M /\ d \in Shared THEN "sysclk" ELSE conf[d].div
    <3>1. CASE d = SPI_CS0_FLASH
      BY <3>1 DEF Clock, Restored, FlashBackup
    <3>2. CASE d = HSPI_CS_DEV
      BY <3>2 DEF Clock
    <3>3. CASE d \in {SPI_CS1_DEV, SPI_CS2_DEV}
      BY <2>1, <3>3 DEF Clock, DeviceAsConfigured
    <3> QED
      BY <3>1, <3>2, <3>3
  <2>9. /\ hspi' \in Registers
        /\ hspi'.set = Restored(f, d).set /\ hspi'.setup = Restored(f, d).setup
        /\ hspi'.clock = Clock(f, d)
        /\ hspi'.edge = (IF d = SPI_CS0_FLASH THEN 0 ELSE conf[d].polar)
        /\ hspi'.cs = (IF d \in {SPI_CS1_DEV, SPI_CS2_DEV} THEN d ELSE 0)
    <3>1. conf[d].polar \in 0..1
      BY DEF OverlapTypeOK, Devices
    <3>2. PICK r \in Registers : r = Restored(f, d)
      BY <2>4
    <3>3. PICK c \in Clocks : c = Clock(f, d)
      BY <2>5
    <3>4. hspi' = [r EXCEPT !.clock = c,
                            !.edge = IF d = SPI_CS0_FLASH THEN 0 ELSE conf[d].polar,
                            !.cs = IF d \in {SPI_CS1_DEV, SPI_CS2_DEV} THEN d ELSE 0]
      BY <2>2, <3>2, <3>3 DEF Selected
    <3>5. hspi' = [set |-> r.set, clock |-> c, setup |-> r.setup,
                   edge |-> IF d = SPI_CS0_FLASH THEN 0 ELSE conf[d].polar,
                   cs |-> IF d \in {SPI_CS1_DEV, SPI_CS2_DEV} THEN d ELSE 0]
      BY <3>4 DEF Registers
    <3>6. r.set \in {"flash", "dev"} /\ r.setup \in BOOLEAN
      BY DEF Registers
    <3>7. hspi' \in Registers
      BY <3>1, <3>5, <3>6 DEF Registers
    <3>8. /\ hspi'.set = r.set /\ hspi'.clock = c /\ hspi'.setup = r.setup
          /\ hspi'.edge = (IF d = SPI_CS0_FLASH THEN 0 ELSE conf[d].polar)
          /\ hspi'.cs = (IF d \in {SPI_CS1_DEV, SPI_CS2_DEV} THEN d ELSE 0)
      BY <3>5
    <3> HIDE OverlapAssumption DEF OverlapIInv, HSPI_CS_DEV, SPI_CS1_DEV, SPI_CS2_DEV,
             SPI_CS0_FLASH, HSPI_IDLE, Dev, Shared
    <3> QED
      BY <3>2, <3>3, <3>7, <3>8, Zenon
  <2>10. DeviceAsConfigured'
    <3>1. FlashBackup'.clock = FlashBackup.clock
      BY DEF FlashBackup
    <3> QED
      BY <1>2, <2>1, <2>2, <2>3, <2>6, <2>7, <2>8, <2>9, <3>1 DEF DeviceAsConfigured
  <2>11. overlap' \in BOOLEAN /\ csPin' \in BOOLEAN
    BY <2>2 DEF OverlapTypeOK
  <2>12. BackedUp'
    BY <2>1 DEF BackedUp
  <2>13. selected_dev_num' \in 0..4 /\ (conf[d].active => selected_dev_num' = d)
    BY <2>2
  <2> HIDE OverlapAssumption DEF OverlapIInv, HSPI_CS_DEV, SPI_CS1_DEV, SPI_CS2_DEV,
           SPI_CS0_FLASH, HSPI_IDLE, Dev, Shared
  <2> QED
    BY <2>9, <2>10, <2>11, <2>12, <2>13, Zenon
<1> QED
  BY <1>1, <1>2

(* Three ways a read goes on.                                              *)
LEMMA ReadFlashInv ==
  ASSUME OverlapIInv, NEW addr \in 0..ChipSize, NEW length \in 0..ChipSize,
         ReadFlash(addr, length)
  PROVE  OverlapIInv'
<1> USE OverlapAssumption DEF OverlapIInv, ReadFlash, SPI_CS0_FLASH
<1>1. /\ BackedUp' /\ DeviceAsConfigured' /\ selected_dev_num' = SPI_CS0_FLASH
      /\ selected_dev_num' \in 0..4 /\ hspi' \in Registers
      /\ overlap' \in BOOLEAN /\ csPin' \in BOOLEAN
  BY SelectInv DEF Dev
<1>2. CASE addr + length > ChipSize
  BY <1>1, <1>2 DEF OverlapTypeOK, ReadSoFar, ReadDone, readVars
<1>3. CASE ~(addr + length > ChipSize)
  <2>1. /\ readLeft' = length /\ readAddr' = addr
        /\ readWant' = addr..addr + length - 1 /\ readGot' = {} /\ readWords' = 0
    BY <1>3
  <2>2. OverlapTypeOK'
    BY <1>1, <2>1 DEF OverlapTypeOK
  <2>3. ReadSoFar'
    BY <1>1, <2>1 DEF ReadSoFar
  <2>4. ReadDone'
    BY <2>1, FS_EmptySet DEF ReadDone
  <2> QED
    BY <1>1, <2>2, <2>3, <2>4
<1> QED
  BY <1>2, <1>3

LEMMA ReadOnInv ==
  ASSUME OverlapIInv, ReadFull \/ ReadRest
  PROVE  OverlapIInv'
<1> USE OverlapAssumption DEF OverlapIInv
<1> DEFINE n == IF readLeft >= BuffByteNum THEN BuffByteNum ELSE readLeft
           words == IF n % 4 = 0 THEN n \div 4 ELSE n \div 4 + 1
<1>1. /\ readLeft > 0 /\ n \in Nat /\ n > 0 /\ n <= readLeft
      /\ n < readLeft => n = BuffByteNum
  BY DEF ReadFull, ReadRest, OverlapTypeOK
<1>2. /\ readGot' = readGot \cup (readAddr..readAddr + n - 1)
      /\ readWords' = readWords + words
      /\ readLeft' = readLeft - n
      /\ readLeft' > 0 => readAddr' = readAddr + n
      /\ readAddr' \in Nat
      /\ UNCHANGED <<io80M, conf, selected_dev_num, hspi_reg_backup_flag, hspi, overlap,
                     csPin, readWant>>
  BY <1>1 DEF ReadFull, ReadRest, OverlapTypeOK
<1>3. words \in Nat /\ words * 4 >= n /\ words * 4 < n + 4 /\ (n < readLeft => words * 4 = n)
  <2>1. n % 4 = n - 4 * (n \div 4) /\ n % 4 \in 0..3 /\ n \div 4 \in Nat
    <3> HIDE DEF n
    <3> QED
      BY <1>1
  <2>2. n < readLeft => n % 4 = 0
    BY <1>1
  <2> HIDE DEF n
  <2> QED
    BY <1>1, <2>1, <2>2
<1> HIDE DEF n, words
<1>4. OverlapTypeOK' /\ BackedUp'
  BY <1>1, <1>2 DEF OverlapTypeOK, BackedUp
<1>5. DeviceAsConfigured'
  BY <1>2 DEF DeviceAsConfigured, FlashBackup
<1>6. PICK a \in Nat :
        /\ a <= readAddr /\ readWant = a..readAddr + readLeft - 1
        /\ readGot = a..readAddr - 1
        /\ readWords \in Nat /\ readWords * 4 = readAddr - a
  BY <1>1 DEF ReadSoFar
<1>7. readGot' = a..readAddr + n - 1
  BY <1>1, <1>2, <1>6 DEF OverlapTypeOK
<1>8. ReadSoFar'
  <2> SUFFICES ASSUME readLeft' > 0 PROVE ReadSoFar'
    BY DEF ReadSoFar
  <2>1. n < readLeft /\ readAddr' = readAddr + n
    BY <1>1, <1>2 DEF OverlapTypeOK
  <2>2. selected_dev_num' = SPI_CS0_FLASH
    BY <1>1, <1>2 DEF ReadSoFar
  <2>3. readWant' = a..readAddr' + readLeft' - 1 /\ readGot' = a..readAddr' - 1
    BY <1>1, <1>2, <1>6, <1>7, <2>1 DEF OverlapTypeOK
  <2>4. readWords' \in Nat /\ readWords' * 4 = readAddr' - a /\ a <= readAddr'
    BY <1>1, <1>2, <1>3, <1>6, <2>1 DEF OverlapTypeOK
  <2> QED
    BY <2>2, <2>3, <2>4 DEF ReadSoFar
<1>9. ReadDone'
  <2> SUFFICES ASSUME readLeft' = 0 PROVE ReadDone'
    BY DEF ReadDone
  <2>1. n = readLeft
    BY <1>1, <1>2 DEF OverlapTypeOK
  <2>2. readGot' = readWant'
    BY <1>2, <1>6, <1>7, <2>1
  <2>3. Cardinality(readWant') = readAddr + readLeft - a
    BY <1>1, <1>2, <1>6, FS_Interval DEF OverlapTypeOK
  <2>4. readWords' * 4 < readAddr + readLeft - a + 4
    BY <1>1, <1>2, <1>3, <1>6, <2>1 DEF OverlapTypeOK
  <2> QED
    BY <2>2, <2>3, <2>4 DEF ReadDone
<1> QED
  BY <1>4, <1>5, <1>8, <1>9

LEMMA OverlapNextInv ==
  ASSUME InitFirst, OverlapIInv, [OverlapNext]_overlapVars
  PROVE  OverlapIInv'
<1>1. ASSUME NEW d \in Dev, DevSel(d) PROVE OverlapIInv'
  <2>1. Select(d) /\ readLeft = 0
        /\ UNCHANGED <<io80M, conf, hspi_reg_backup_flag, readVars>>
    BY <1>1 DEF DevSel
  <2>2. /\ BackedUp' /\ DeviceAsConfigured'
        /\ selected_dev_num' \in 0..4 /\ hspi' \in Registers
        /\ overlap' \in BOOLEAN /\ csPin' \in BOOLEAN
    BY <2>1, SelectInv
  <2> QED
    BY <2>1, <2>2 DEF OverlapIInv, OverlapTypeOK, ReadSoFar, ReadDone, readVars
<1>2. CASE UNCHANGED overlapVars
  BY <1>2 DEF overlapVars, readVars, OverlapIInv, OverlapTypeOK, BackedUp,
     DeviceAsConfigured, ReadSoFar, ReadDone, FlashBackup
<1> QED
  BY <1>1, <1>2, DevInitInv, ReadFlashInv, ReadOnInv DEF OverlapNext

(* Whatever was selected before, a selected device finds its own clock,    *)
(* edge, chip select, pins and set of registers (spi_overlap.c:157-328),   *)
(* and a read of the flash gets its bytes and no more (338-390), if the    *)
(* devices are initialised first.                                          *)
THEOREM EveryDeviceServed == InitFirst => (OverlapSpec => []FourDevices)
<1>1. OverlapIInv => FourDevices
  <2> SUFFICES ASSUME OverlapIInv PROVE ReadExact
    BY DEF OverlapIInv, FourDevices
  <2>1. CASE readLeft = 0
    BY <2>1 DEF OverlapIInv, ReadDone, ReadExact
  <2>2. CASE readLeft # 0
    <3>1. readLeft > 0 /\ readAddr \in Nat
      BY <2>2 DEF OverlapIInv, OverlapTypeOK
    <3>2. PICK a \in Nat : readWant = a..readAddr + readLeft - 1 /\ readGot = a..readAddr - 1
      BY <3>1 DEF OverlapIInv, ReadSoFar
    <3>3. readGot \subseteq readWant
      BY <2>2, <3>1, <3>2 DEF OverlapIInv, OverlapTypeOK
    <3> QED
      BY <2>2, <3>1, <3>3 DEF OverlapIInv, ReadSoFar, ReadExact
  <2> QED
    BY <2>1, <2>2
<1>2. InitFirst /\ OverlapIInv /\ [OverlapNext]_overlapVars => OverlapIInv'
  BY OverlapNextInv
<1>3. ASSUME InitFirst PROVE OverlapSpec => []FourDevices
  BY <1>1, <1>2, <1>3, OverlapInitInv, PTL DEF OverlapSpec
<1> QED
  BY <1>3

-----------------------------------------------------------------------------
(* SpiMaster, for any ways to use it.  Suited speaks of the calls of a way *)
(* to use the driver; what these keep in the registers between two         *)
(* transfers is Prepared.                                                  *)

Uses(f) == \E k \in mix.calls : k.f = f
Data == {"SendData", "RecvData"}

Prepared ==
  /\ (\E f \in Functions \ Data : Uses(f)) => "COMMAND" \in user
  /\ (\E k \in mix.calls : k.f = "SendData" /\ k.data = 0) => "MISO" \notin user
  /\ Uses("byte_write_espslave") => len.MOSI = 1
  /\ Uses("byte_read_espslave") => len.MISO = 1
  /\ Uses("byte_write") => "ADDR" \notin user
  /\ Uses("lcd_9bit_write") => user = {"COMMAND"}

SpiTypeOK ==
  /\ mix \in Mixes /\ user \subseteq {"COMMAND", "ADDR", "MOSI", "MISO"}
  /\ len \in [MOSI : Nat, MISO : Nat] /\ calls \in Nat /\ usr \in BOOLEAN
  /\ met \in BOOLEAN

(* What Transfer will have put on the wire.                                *)
Wire ==
  [phases |-> user, cmd |-> IF "COMMAND" \in user THEN command ELSE 0,
   word |-> IF "MOSI" \in user THEN w0 ELSE 0,
   len |-> IF "MOSI" \in user THEN len.MOSI ELSE IF "MISO" \in user THEN len.MISO ELSE 0]

SpiIInv ==
  /\ SpiTypeOK
  /\ Suited(mix) => Prepared /\ met
  /\ met <=> (IF usr THEN Wire ELSE seen) = asked
  /\ usr /\ "MISO" \in asked.phases => "MISO" \in user
  /\ spiPc = "usr" /\ ~usr /\ "MISO" \in asked.phases => w0 = -calls
  /\ got.word = -got.call

LEMMA CallTypes ==
  ASSUME NEW m \in Mixes, NEW k \in m.calls
  PROVE  k \in SpiCall
  BY SpiAssumption

LEMMA SpiInitInv ==
  ASSUME SpiInit
  PROVE  SpiIInv
<1>1. mix \in Mixes
  BY DEF SpiInit
<1>2. user \subseteq {"MOSI", "COMMAND"} /\ len = [MOSI |-> 1, MISO |-> 1]
        /\ ("spi_master_init" \in mix.inits => "COMMAND" \in user)
        /\ ("SPIInit" \notin mix.inits => "MOSI" \notin user)
  BY DEF SpiInit
<1>3. SpiTypeOK
  <2>1. len \in [MOSI : Nat, MISO : Nat]
    BY <1>2
  <2>2. calls = 0 /\ usr = FALSE /\ met = TRUE
    BY DEF SpiInit
  <2> QED
    BY <1>1, <1>2, <2>1, <2>2 DEF SpiTypeOK
<1>4. ASSUME Suited(mix) PROVE Prepared
  <2>1. \A k \in mix.calls : k.f \in Functions
    BY <1>1, CallTypes DEF SpiCall
  <2>2. Uses("lcd_9bit_write") => user = {"COMMAND"}
    <3>1. "lcd_9bit_write" \in Functions \ {"SendData", "RecvData"}
      BY DEF Functions
    <3> QED
      BY <1>1, <1>2, <1>4, <3>1 DEF Suited, Uses
  <2>3. (\E f \in Functions \ Data : Uses(f)) => "COMMAND" \in user
    BY <1>1, <1>2, <1>4 DEF Suited, Uses, Data
  <2> QED
    BY <1>2, <2>2, <2>3 DEF Prepared
<1>5. got.word = -got.call /\ seen = asked /\ ~usr /\ spiPc = "idle" /\ met
  <2>1. got = [call |-> 0, word |-> 0] /\ seen = None /\ asked = None /\ usr = FALSE /\ spiPc = "idle"
        /\ met = TRUE
    BY DEF SpiInit
  <2>2. got.word = 0 /\ got.call = 0
    BY <2>1
  <2>3. got.call \in Int /\ 0 - got.call = got.word
    BY <2>2
  <2>4. -got.call = 0 - got.call
    <3>1. \A n \in Int : -n = 0 - n
      OBVIOUS
    <3> QED
      BY <2>3, <3>1
  <2> QED
    BY <2>1, <2>3, <2>4, Zenon
<1> QED
  BY <1>3, <1>4, <1>5 DEF SpiIInv

(* What SendData and RecvData do to the phases.                            *)
LEMMA HeaderPhases ==
  ASSUME NEW k \in SpiCall, user \subseteq {"COMMAND", "ADDR", "MOSI", "MISO"}
  PROVE  /\ Header(k) \subseteq {"COMMAND", "ADDR", "MOSI", "MISO"}
         /\ "COMMAND" \in Header(k) <=> k.cmd # 0
         /\ "ADDR" \in Header(k) <=> k.addr
         /\ \A p \in {"MOSI", "MISO"} : p \in Header(k) <=> p \in user
  BY DEF Header, With

(* The types of what a call starts from.                                   *)
LEMMA CallFacts ==
  ASSUME SpiIInv, NEW k \in mix.calls
  PROVE  /\ mix \in Mixes /\ k \in SpiCall /\ k.f \in Functions
         /\ user \subseteq {"COMMAND", "ADDR", "MOSI", "MISO"} /\ calls \in Nat
         /\ len \in [MOSI : Nat, MISO : Nat] /\ k.cmd \in 0..6 /\ k.addr \in BOOLEAN
         /\ k.data \in 0..64 /\ Uses(k.f)
  BY CallTypes DEF SpiIInv, SpiTypeOK, SpiCall, Uses

(* The phases of what a call relies on.                                    *)
PhasesMet(k) ==
  /\ k.f \notin Data => "COMMAND" \in user
  /\ k.f = "SendData" /\ k.data = 0 => "MISO" \notin user
  /\ k.f = "byte_write" => "ADDR" \notin user
  /\ k.f = "lcd_9bit_write" => user = {"COMMAND"}

(* The phases set are those the call is for if and only if they were so,   *)
(* ...                                                                     *)
LEMMA BeginPhases ==
  ASSUME SpiIInv, NEW k \in mix.calls
  PROVE  /\ Phases(k) = Asked(k).phases <=> PhasesMet(k)
         /\ Phases(k) \subseteq {"COMMAND", "ADDR", "MOSI", "MISO"}
         /\ Receives(k) => "MISO" \in Phases(k)
<1>1. /\ mix \in Mixes /\ k \in SpiCall /\ k.f \in Functions
      /\ user \subseteq {"COMMAND", "ADDR", "MOSI", "MISO"} /\ calls \in Nat
      /\ k.cmd \in 0..6 /\ k.data \in 0..64 /\ Uses(k.f)
  BY CallFacts
<1>2. Command(k) # 0 <=> (k.f \in Data => k.cmd # 0)
  BY <1>1 DEF Command, Data, Functions
<1>3. ASSUME NEW A, NEW B, A \subseteq {"COMMAND", "ADDR", "MOSI", "MISO"},
             B \subseteq {"COMMAND", "ADDR", "MOSI", "MISO"}
      PROVE  A = B <=> /\ "COMMAND" \in A <=> "COMMAND" \in B
                       /\ "ADDR" \in A <=> "ADDR" \in B
                       /\ "MOSI" \in A <=> "MOSI" \in B
                       /\ "MISO" \in A <=> "MISO" \in B
  <2>1. ASSUME /\ "COMMAND" \in A <=> "COMMAND" \in B
               /\ "ADDR" \in A <=> "ADDR" \in B
               /\ "MOSI" \in A <=> "MOSI" \in B
               /\ "MISO" \in A <=> "MISO" \in B
        PROVE  A = B
    <3>1. \A p : p \in A <=> p \in B
      BY <1>3, <2>1
    <3> QED
      BY <3>1
  <2>2. ASSUME A = B, NEW p PROVE p \in A <=> p \in B
    BY <2>2
  <2> QED
    BY <2>1, <2>2
<1>4. /\ Asked(k).phases \subseteq {"COMMAND", "ADDR", "MOSI", "MISO"}
      /\ "COMMAND" \in Asked(k).phases <=> Command(k) # 0
      /\ "ADDR" \in Asked(k).phases <=> k.f \in Data /\ k.addr
      /\ "MOSI" \in Asked(k).phases <=> Sends(k)
      /\ "MISO" \in Asked(k).phases <=> Receives(k)
  BY DEF Asked, Data
<1>5. CASE k.f \in Data
  <2>1. /\ Phases(k) \subseteq {"COMMAND", "ADDR", "MOSI", "MISO"}
        /\ "COMMAND" \in Phases(k) <=> k.cmd # 0
        /\ "ADDR" \in Phases(k) <=> k.addr
        /\ "MOSI" \in Phases(k) <=> k.f = "SendData" /\ k.data # 0
        /\ "MISO" \in Phases(k) <=> IF k.f = "SendData" THEN k.data = 0 /\ "MISO" \in user
                                    ELSE k.data # 0
    <3>1. CASE k.f = "SendData"
      <4>1. Phases(k) = SendPhases(k)
        BY <3>1 DEF Phases
      <4> QED
        BY <1>1, <3>1, <4>1, HeaderPhases DEF SendPhases
    <3>2. CASE k.f = "RecvData"
      <4>1. Phases(k) = RecvPhases(k)
        BY <3>2 DEF Phases
      <4> QED
        BY <1>1, <3>2, <4>1, HeaderPhases DEF RecvPhases, With
    <3> QED
      BY <1>5, <3>1, <3>2 DEF Data
  <2>2. /\ Sends(k) <=> k.f = "SendData" /\ k.data # 0
        /\ Receives(k) <=> k.f = "RecvData" /\ k.data # 0
        /\ PhasesMet(k) <=> (k.f = "SendData" /\ k.data = 0 => "MISO" \notin user)
    BY <1>5 DEF Sends, Receives, PhasesMet, Data
  <2>3. Phases(k) = Asked(k).phases <=>
          /\ "COMMAND" \in Phases(k) <=> "COMMAND" \in Asked(k).phases
          /\ "ADDR" \in Phases(k) <=> "ADDR" \in Asked(k).phases
          /\ "MOSI" \in Phases(k) <=> "MOSI" \in Asked(k).phases
          /\ "MISO" \in Phases(k) <=> "MISO" \in Asked(k).phases
    BY <1>3, <1>4, <2>1
  <2>4. "COMMAND" \in Phases(k) <=> "COMMAND" \in Asked(k).phases
    BY <1>2, <1>4, <1>5, <2>1
  <2>5. "ADDR" \in Phases(k) <=> "ADDR" \in Asked(k).phases
    BY <1>4, <1>5, <2>1
  <2>6. "MOSI" \in Phases(k) <=> "MOSI" \in Asked(k).phases
    BY <1>4, <2>1, <2>2
  <2>7. ("MISO" \in Phases(k) <=> "MISO" \in Asked(k).phases) <=> PhasesMet(k)
    <3>1. CASE k.f = "SendData"
      BY <1>4, <2>1, <2>2, <3>1
    <3>2. CASE k.f = "RecvData"
      BY <1>4, <2>1, <2>2, <3>2
    <3> QED
      BY <1>5, <3>1, <3>2 DEF Data
  <2>8. Receives(k) => "MISO" \in Phases(k)
    BY <2>1, <2>2
  <2> QED
    BY <2>1, <2>3, <2>4, <2>5, <2>6, <2>7, <2>8
<1>6. CASE k.f \notin Data
  <2>1. k.f \in {"SendStatus", "RecvStatus", "byte_write_espslave", "byte_read_espslave",
                 "byte_write", "lcd_9bit_write"}
    BY <1>1, <1>6 DEF Functions, Data
  <2>2. Phases(k) = CASE Sends(k) -> (user \cup {"MOSI"}) \ {"MISO", "DUMMY", "ADDR"}
                      [] Receives(k) -> (user \cup {"MISO"}) \ {"MOSI", "DUMMY", "ADDR"}
                      [] k.f = "byte_write" -> user \ {"MOSI", "MISO"}
                      [] k.f = "lcd_9bit_write" -> user
    BY <2>1 DEF Phases, Status, Sends, Receives
  <2>3. /\ PhasesMet(k) <=> /\ "COMMAND" \in user
                            /\ k.f = "byte_write" => "ADDR" \notin user
                            /\ k.f = "lcd_9bit_write" => user = {"COMMAND"}
        /\ Asked(k).phases = CASE Sends(k) -> {"COMMAND", "MOSI"}
                               [] Receives(k) -> {"COMMAND", "MISO"}
                               [] OTHER -> {"COMMAND"}
        /\ k.f \in {"byte_write", "lcd_9bit_write"} <=> ~Sends(k) /\ ~Receives(k)
        /\ ~(Sends(k) /\ Receives(k))
    <3>1. "COMMAND" \in Asked(k).phases /\ "ADDR" \notin Asked(k).phases
      BY <1>2, <1>4, <1>6
    <3>2. /\ k.f \in {"byte_write", "lcd_9bit_write"} <=> ~Sends(k) /\ ~Receives(k)
          /\ ~(Sends(k) /\ Receives(k))
      BY <2>1 DEF Sends, Receives
    <3>3. PhasesMet(k) <=> /\ "COMMAND" \in user
                           /\ k.f = "byte_write" => "ADDR" \notin user
                           /\ k.f = "lcd_9bit_write" => user = {"COMMAND"}
      BY <1>6, <2>1 DEF PhasesMet
    <3> QED
      BY <1>4, <3>1, <3>2, <3>3
  <2>4. CASE Sends(k)
    BY <1>1, <2>1, <2>2, <2>3, <2>4
  <2>5. CASE Receives(k)
    BY <1>1, <2>1, <2>2, <2>3, <2>5
  <2>6. CASE k.f = "byte_write"
    BY <1>1, <2>2, <2>3, <2>6
  <2>7. CASE k.f = "lcd_9bit_write"
    BY <1>1, <2>2, <2>3, <2>7
  <2> QED
    BY <2>3, <2>4, <2>5, <2>6, <2>7
<1> QED
  BY <1>5, <1>6

(* A suited use keeps what a call relies on, ...                           *)
LEMMA Reliable ==
  ASSUME SpiIInv, Suited(mix), NEW k \in mix.calls
  PROVE  Relies(k) /\ PhasesMet(k)
<1>1. k.f \in Functions /\ Uses(k.f) /\ Prepared
  BY CallFacts DEF SpiIInv
<1> QED
  BY <1>1 DEF Prepared, Relies, PhasesMet, Data

(* ... and has it still so after the call.                                 *)
LEMMA BeginPrepared ==
  ASSUME SpiIInv, Suited(mix), NEW k \in mix.calls, Begin(k)
  PROVE  Prepared'
<1>1. /\ mix \in Mixes /\ k \in SpiCall /\ k.f \in Functions
      /\ len \in [MOSI : Nat, MISO : Nat] /\ k.cmd \in 0..6 /\ k.data \in 0..64 /\ Uses(k.f)
      /\ k.addr \in BOOLEAN /\ calls \in Nat
  BY CallFacts
<1>2. user' = Asked(k).phases /\ len' = Lengths(k) /\ mix' = mix
  BY BeginPhases, Reliable DEF Begin
<1>3. \A f : Uses(f)' <=> Uses(f)
  BY <1>2 DEF Uses
<1>4. Command(k) # 0 <=> (k.f \in Data => k.cmd # 0)
  BY <1>1 DEF Command, Data, Functions
<1>5. user' = {p \in {"COMMAND", "ADDR", "MOSI", "MISO"} :
                \/ p = "COMMAND" /\ (k.f \in Data => k.cmd # 0)
                \/ p = "ADDR" /\ k.f \in Data /\ k.addr
                \/ p = "MOSI" /\ Sends(k)
                \/ p = "MISO" /\ Receives(k)}
  BY <1>2, <1>4 DEF Asked, Data
<1>6. (\E f \in Functions \ Data : Uses(f)) => "COMMAND" \in user'
  BY <1>1, <1>5 DEF Suited, Uses, Data
<1>7. (\E m \in mix.calls : m.f = "SendData" /\ m.data = 0) => "MISO" \notin user'
  BY <1>1, <1>5 DEF Suited
<1>8. Uses("byte_write") => "ADDR" \notin user'
  BY <1>1, <1>5 DEF Suited, Uses
<1>9. Uses("lcd_9bit_write") => user' = {"COMMAND"}
  <2>1. Uses("lcd_9bit_write") => "COMMAND" \in user'
    BY <1>6 DEF Functions, Data
  <2> QED
    BY <1>1, <1>5, <2>1 DEF Suited, Uses
<1>10. Uses("byte_write_espslave") => len'.MOSI = 1
  <2>1. Uses("byte_write_espslave") => len.MOSI = 1 /\ (k.f = "SendData" => k.data = 1)
    BY <1>1 DEF SpiIInv, Prepared, Suited, Uses
  <2> QED
    BY <1>1, <1>2, <2>1 DEF Lengths
<1>11. Uses("byte_read_espslave") => len'.MISO = 1
  <2>1. Uses("byte_read_espslave") => len.MISO = 1 /\ (k.f = "RecvData" => k.data = 1)
    BY <1>1 DEF SpiIInv, Prepared, Suited, Uses
  <2> QED
    BY <1>1, <1>2, <2>1 DEF Lengths
<1> QED
  BY <1>2, <1>3, <1>6, <1>7, <1>8, <1>9, <1>10, <1>11 DEF Prepared

LEMMA BeginInv ==
  ASSUME SpiIInv, NEW k \in mix.calls, Begin(k)
  PROVE  SpiIInv'
<1>1. /\ mix \in Mixes /\ k \in SpiCall /\ k.f \in Functions
      /\ len \in [MOSI : Nat, MISO : Nat] /\ k.cmd \in 0..6 /\ k.data \in 0..64 /\ Uses(k.f)
      /\ k.addr \in BOOLEAN /\ calls \in Nat
  BY CallFacts
<1>2. /\ user' = Phases(k) /\ command' = Command(k) /\ len' = Lengths(k)
      /\ w0' = (IF Sends(k) THEN calls + 1 ELSE w0) /\ usr' = TRUE
      /\ calls' = calls + 1 /\ asked' = Asked(k) /\ met' = Relies(k)
      /\ UNCHANGED <<mix, seen, got>>
  BY DEF Begin
<1>3. /\ user' = Asked(k).phases <=> PhasesMet(k)
      /\ user' \subseteq {"COMMAND", "ADDR", "MOSI", "MISO"}
      /\ Receives(k) => "MISO" \in user'
      /\ "COMMAND" \in Asked(k).phases <=> Command(k) # 0
      /\ "MOSI" \in Asked(k).phases <=> Sends(k)
      /\ "MISO" \in Asked(k).phases <=> Receives(k)
  BY <1>2, BeginPhases DEF Asked
<1>4. len' \in [MOSI : Nat, MISO : Nat]
  BY <1>1, <1>2 DEF Lengths
<1>5. SpiTypeOK'
  BY <1>1, <1>2, <1>3, <1>4 DEF SpiTypeOK, Relies
<1>6. (IF Sends(k) THEN len'.MOSI ELSE IF Receives(k) THEN len'.MISO ELSE 0) = Asked(k).len
        <=> /\ k.f = "byte_write_espslave" => len.MOSI = 1
            /\ k.f = "byte_read_espslave" => len.MISO = 1
  <2>1. Asked(k).len = IF k.f \in {"SendData", "RecvData"} THEN k.data
                       ELSE IF Sends(k) \/ Receives(k) THEN 1 ELSE 0
    BY DEF Asked
  <2> QED
    BY <1>1, <1>2, <2>1 DEF Lengths, Sends, Receives, Functions
<1>7. Wire' = asked' <=> met'
  <2>1. /\ Asked(k).cmd = Command(k) /\ Asked(k).word = IF Sends(k) THEN calls + 1 ELSE 0
        /\ Asked(k) = [phases |-> Asked(k).phases, cmd |-> Asked(k).cmd,
                       word |-> Asked(k).word, len |-> Asked(k).len]
    BY DEF Asked
  <2>2. Wire' = [phases |-> user', cmd |-> IF "COMMAND" \in user' THEN command' ELSE 0,
                 word |-> IF "MOSI" \in user' THEN w0' ELSE 0,
                 len |-> IF "MOSI" \in user' THEN len'.MOSI
                         ELSE IF "MISO" \in user' THEN len'.MISO ELSE 0]
    BY DEF Wire
  <2>3. Relies(k) <=> /\ PhasesMet(k)
                      /\ k.f = "byte_write_espslave" => len.MOSI = 1
                      /\ k.f = "byte_read_espslave" => len.MISO = 1
    BY DEF Relies, PhasesMet, Data
  <2>4. CASE ~PhasesMet(k)
    <3>1. user' # Asked(k).phases
      BY <1>3, <2>4
    <3>2. Wire'.phases = user' /\ asked'.phases = Asked(k).phases
      BY <1>2, <2>2
    <3> QED
      BY <1>2, <2>3, <2>4, <3>1, <3>2
  <2>5. CASE PhasesMet(k)
    <3>1. user' = Asked(k).phases
      BY <1>3, <2>5
    <3>2. /\ (IF "COMMAND" \in user' THEN command' ELSE 0) = Asked(k).cmd
          /\ (IF "MOSI" \in user' THEN w0' ELSE 0) = Asked(k).word
      BY <1>2, <1>3, <2>1, <3>1
    <3> DEFINE l == IF Sends(k) THEN len'.MOSI ELSE IF Receives(k) THEN len'.MISO ELSE 0
    <3>3. Wire' = [phases |-> Asked(k).phases, cmd |-> Asked(k).cmd,
                   word |-> Asked(k).word, len |-> l]
      BY <1>3, <2>2, <3>1, <3>2
    <3>4. l = Asked(k).len <=> Relies(k)
      BY <1>6, <2>3, <2>5
    <3> HIDE DEF l
    <3>5. Wire' = Asked(k) <=> l = Asked(k).len
      BY <2>1, <3>3
    <3> QED
      BY <1>2, <3>4, <3>5
  <2> QED
    BY <2>4, <2>5
<1>8. Suited(mix') => Prepared' /\ met'
  BY <1>2, BeginPrepared, Reliable
<1>9. "MISO" \in asked'.phases => "MISO" \in user'
  BY <1>2, <1>3
<1> QED
  BY <1>2, <1>5, <1>7, <1>8, <1>9 DEF SpiIInv

LEMMA CallFailsInv ==
  ASSUME SpiIInv, NEW k \in mix.calls, CallFails(k)
  PROVE  SpiIInv'
<1>1. /\ mix \in Mixes /\ k \in SpiCall /\ k.f \in Data
      /\ user \subseteq {"COMMAND", "ADDR", "MOSI", "MISO"} /\ k.addr \in BOOLEAN
      /\ k.cmd \in 0..6 /\ k.data \in 0..64 /\ calls \in Nat
  BY CallFacts DEF CallFails, Data
<1>2. /\ spiPc = "idle" /\ ~usr /\ calls' = calls + 1
      /\ (k.nullArg = "addr" /\ k.addr) \/ k.data # 0
      /\ user' = IF k.nullArg = "addr" THEN With(user, "COMMAND", k.cmd # 0) ELSE Header(k)
      /\ UNCHANGED <<mix, w0, len, usr, spiPc, asked, seen, met, got>>
  BY DEF CallFails
<1>3. /\ user' \subseteq {"COMMAND", "ADDR", "MOSI", "MISO"}
      /\ "COMMAND" \in user' <=> k.cmd # 0
      /\ "ADDR" \in user' => "ADDR" \in user \/ k.addr
      /\ \A p \in {"MOSI", "MISO"} : p \in user' <=> p \in user
  BY <1>1, <1>2, HeaderPhases DEF With
<1>4. \A f : Uses(f)' <=> Uses(f)
  BY <1>2 DEF Uses
<1>5. ASSUME Suited(mix) PROVE Prepared'
  <2>1. (\E f \in Functions \ Data : Uses(f)) => "COMMAND" \in user'
    BY <1>1, <1>3, <1>5 DEF Suited, Uses, Data
  <2>2. Uses("byte_write") => "ADDR" \notin user'
    BY <1>1, <1>3, <1>5 DEF Suited, Uses, SpiIInv, Prepared
  <2>3. Uses("lcd_9bit_write") => user' = {"COMMAND"}
    <3>1. Uses("lcd_9bit_write") => user = {"COMMAND"} /\ ~k.addr
      BY <1>1, <1>5 DEF Suited, Uses, SpiIInv, Prepared
    <3>2. Uses("lcd_9bit_write") => "COMMAND" \in user'
      BY <2>1 DEF Functions, Data
    <3> QED
      BY <1>3, <3>1, <3>2
  <2> QED
    BY <1>2, <1>3, <1>4, <1>5, <2>1, <2>2, <2>3 DEF SpiIInv, Prepared
<1>8. Suited(mix') => Prepared' /\ met'
  BY <1>2, <1>5 DEF SpiIInv
<1>9. SpiTypeOK'
  <2>1. met' \in BOOLEAN /\ usr' \in BOOLEAN /\ mix' \in Mixes
    BY <1>2, Zenon DEF SpiIInv, SpiTypeOK
  <2>2. len' \in [MOSI : Nat, MISO : Nat] /\ calls' \in Nat
    BY <1>2 DEF SpiIInv, SpiTypeOK
  <2> QED
    BY <1>3, <2>1, <2>2 DEF SpiTypeOK
<1> QED
  BY <1>2, <1>8, <1>9 DEF SpiIInv

LEMMA SpiStep ==
  ASSUME SpiIInv, [SpiNext]_spiVars
  PROVE  SpiIInv'
<1>1. ASSUME UNCHANGED <<mix, user, len, calls, asked, met>>,
             usr' \in BOOLEAN, usr' => usr,
             met <=> (IF usr' THEN Wire' ELSE seen') = asked,
             spiPc' = "usr" /\ ~usr' /\ "MISO" \in asked.phases => w0' = -calls,
             got'.word = -got'.call
      PROVE  SpiIInv'
  BY <1>1 DEF SpiIInv, SpiTypeOK, Prepared, Uses
<1>2. CASE Transfer
  <2>1. /\ usr /\ usr' = FALSE /\ seen' = Wire
        /\ w0' = IF "MISO" \in user THEN -calls ELSE w0
        /\ UNCHANGED <<mix, user, len, spiPc, calls, asked, met, got>>
    BY <1>2 DEF Transfer, Wire
  <2>2. (met <=> asked = Wire) /\ ("MISO" \in asked.phases => "MISO" \in user)
    BY <2>1 DEF SpiIInv
  <2> QED
    BY <1>1, <2>1, <2>2 DEF SpiIInv
<1>3. CASE RecvReturns
  <2>1. /\ spiPc = "usr" /\ ~usr /\ spiPc' = "idle"
        /\ got' = IF "MISO" \in asked.phases THEN [call |-> calls, word |-> w0] ELSE got
        /\ UNCHANGED <<mix, user, len, usr, calls, asked, seen, met>>
    BY <1>3 DEF RecvReturns
  <2>2. got'.word = -got'.call
    BY <2>1 DEF SpiIInv
  <2> QED
    BY <1>1, <2>1, <2>2 DEF SpiIInv, SpiTypeOK
<1>4. CASE SendReturns \/ IntClear \/ UNCHANGED spiVars
  <2>1. /\ UNCHANGED <<mix, user, command, w0, len, usr, calls, asked, seen, met, got>>
        /\ spiPc' \in {spiPc, "idle"}
    BY <1>4 DEF SendReturns, IntClear, spiVars
  <2>2. Wire' = Wire
    BY <2>1 DEF Wire
  <2> QED
    BY <1>1, <2>1, <2>2 DEF SpiIInv, SpiTypeOK
<1> QED
  BY <1>2, <1>3, <1>4, BeginInv, CallFailsInv DEF SpiNext

(* For every way to use the driver, suited or not: a transfer is what its  *)
(* call asked for exactly if SPI_USER and the length registers were, when  *)
(* it was called, as it takes them to be, however early the call before it *)
(* returned; suited uses keep them so; and a read returns the answer to    *)
(* itself (spi_interface.c:183-417).                                       *)
THEOREM TransfersAsAsked == SpiSpec => []TransferAsAsked
<1>1. SpiIInv => TransferAsAsked
  BY DEF SpiIInv, TransferAsAsked
<1>2. SpiInit => SpiIInv
  BY SpiInitInv
<1>3. SpiIInv /\ [SpiNext]_spiVars => SpiIInv'
  BY SpiStep
<1> QED
  BY <1>1, <1>2, <1>3, PTL DEF SpiSpec

-----------------------------------------------------------------------------
(* I2cMaster, for any bytes written and answered.  The invariant says, for *)
(* each call and each number of half cycles done, what the lines are and   *)
(* where the slave is: in which bit of which frame, what it has shifted in *)
(* and noticed so far, and whether it drives SDA.                          *)

Talks == Seq([f : {"start", "stop", "byte", "ack"}, v : Nat])
Slaves == [on : BOOLEAN, first : BOOLEAN, dir : {"recv", "send"}, pos : 0..9, shift : Nat,
           out : 0..255, drive : 0..1,
           heard : Talks]

(* A slave not spoken to keeps nothing but what it has noticed.            *)
SlaveOK(s) ==
  /\ s \in Slaves
  /\ ~s.on => s = [Deaf EXCEPT !.heard = s.heard]
  /\ s.first => s.dir = "recv"

(* The globals hold what the master drives, but for i2c_master_init's      *)
(* first half cycle; the ninth bit of a frame ends with SCL low.           *)
LinesOK ==
  /\ sda \in 0..1 /\ scl \in 0..1
  /\ (op.f = "init" /\ done = 0) \/ (m_nLastSDA = sda /\ m_nLastSCL = scl)
  /\ scl = 0 => slave.pos <= 8

(* A slave in the middle of a talk, with pos bits clocked of this frame.   *)
Receiving(pos) == slave.on /\ slave.dir = "recv" /\ slave.pos = pos
Sending(pos) == slave.on /\ slave.dir = "send" /\ slave.pos = pos

(* Ready for START or STOP.                                                *)
Open == slave.dir = "recv" /\ slave.drive = 1 /\ slave.heard = <<>>

(* i2c_master_init: how often SCL has risen; how a slave caught at bit p   *)
(* has moved on by r bits, k frames further, where x says that the bit is  *)
(* the one before an acknowledgement; and which slaves leave SDA.          *)
Rises == IF done < 5 THEN 0 ELSE (done - 3) \div 2

Swept(s, r, p, k, x) ==
  /\ s.pos + 9 * k = p + r
  /\ s.dir = "recv" /\ p = 8 => x
  /\ s.dir = "recv" /\ k # 0 /\ s.pos = 9 /\ s.drive = 0 => s.shift % 2 = 0
  /\ s.dir = "send" => k <= 1
  /\ s.dir = "send" /\ k = 1 /\ s.pos = 9 => s.shift % 2 = 1
  /\ s.first => k = 0

Undriven(s, c) ==
  /\ s.dir = "recv" /\ s.pos - c # 8 => s.drive = 1
  /\ s.dir = "send" /\ s.pos - c = 8 => s.drive = 1

(* A slave that acknowledges a byte of ones, and stays with it.            *)
Holding(s) ==
  s.on /\ ~s.first /\ s.dir = "recv" /\ s.pos = 9 /\ s.drive = 0 /\ s.shift % 2 = 0

Held == caught /\ Holding(slave)

InitInv ==
  /\ done \in 0..62
  /\ sda = IF done \in {2, 60, 61} THEN 0 ELSE 1
  /\ scl = IF done \in 1..59 /\ (done < 5 \/ done % 2 = 0) THEN 0 ELSE 1
  /\ done <= 59 /\ slave.on => \E p \in 0..9, k \in 0..4 : Swept(slave, Rises, p, k, caught)
  /\ done \in 1..59 => Undriven(slave, scl)
  /\ done \in 60..61 => slave.drive = 1 \/ Held
  /\ done = 62 => ~slave.on \/ Held

(* The calls of a talk, by half cycles done.                               *)
Starting ==
  /\ done \in 0..3 /\ op.v = 0
  /\ done < 3 => sda = 1 /\ Open /\ (slave.pos = 0 \/ (done = 2 /\ slave.pos = 1))
                 /\ (scl = 0 => done < 2) /\ (slave.on => scl = 0 \/ done = 2)
  /\ done = 3 => sda = 0 /\ scl = 1
                 /\ slave = [Deaf EXCEPT !.on = TRUE, !.heard = <<op>>]

Unheard ==
  /\ done \in 0..3 /\ op.v = 0 /\ Held /\ slave.heard = <<>>
  /\ sda = (IF done = 3 THEN 0 ELSE 1) /\ scl = 1

StartInv == Starting \/ Unheard

StopInv ==
  /\ done \in 0..3 /\ op.v = 0
  /\ sda = IF done \in 1..2 THEN 0 ELSE 1
  /\ scl = IF done < 2 THEN 0 ELSE 1
  /\ done < 3 => Open /\ slave.pos = (IF done = 2 /\ slave.on THEN 1 ELSE 0)
  /\ done = 3 => slave = [Deaf EXCEPT !.heard = <<op>>]

Writing ==
  /\ done \in 0..25 /\ op.v \in I2cBytes
  /\ Receiving(done \div 3) /\ slave.shift = op.v \div 2^(8 - slave.pos)
  /\ done > 0 => scl = IF done % 3 = 0 THEN 1 ELSE 0
  /\ done > 1 => sda = Bit(op.v, 7 - (done - 2) \div 3)
  /\ done < 25 => slave.drive = 1
  /\ slave.heard = IF done < 24 THEN <<>> ELSE <<[f |-> "byte", v |-> op.v]>>

Resumed == done = 0 /\ op.v \in I2cBytes /\ Holding(slave) /\ slave.heard = <<>> /\ scl = 1

WriteInv == Writing \/ Resumed

Answered ==
  IF slave.on THEN /\ slave.pos = 0 /\ slave.shift = 0
                   /\ slave.drive = IF slave.dir = "send" THEN Bit(slave.out, 7) ELSE 1
              ELSE TRUE

AckInv ==
  /\ done \in 0..4 /\ op.v = 0
  /\ scl = IF done = 3 THEN 1 ELSE 0
  /\ done > 1 => sda = 1
  /\ done < 3 => Receiving(8) /\ slave.heard = <<>> /\ retVal = 0
  /\ done = 3 => Receiving(9) /\ slave.shift % 2 = retVal
  /\ done >= 3 => retVal \in 0..1 /\ slave.heard = <<[f |-> "ack", v |-> retVal]>>
  /\ done = 4 => Answered /\ (slave.on <=> retVal = 0)

ReadInv ==
  /\ done \in 0..18 /\ sda = 1
  /\ scl = IF done > 1 /\ done % 2 = 1 THEN 1 ELSE 0
  /\ Sending(IF done = 0 THEN 0 ELSE (done - 1) \div 2)
  /\ slave.drive = IF slave.pos - scl < 8 THEN Bit(slave.out, 7 - (slave.pos - scl)) ELSE 1
  /\ retVal = (slave.out \div 2^(8 - slave.pos)) * 2^(8 - slave.pos)
  /\ slave.heard = IF done < 17 THEN <<>> ELSE <<[f |-> "byte", v |-> slave.out]>>

SetAckInv ==
  /\ done \in 0..5 /\ op.v \in 0..1
  /\ scl = IF done = 3 THEN 1 ELSE 0
  /\ sda = IF done \in 2..4 THEN op.v ELSE 1
  /\ done < 3 => Sending(8) /\ slave.drive = 1 /\ slave.heard = <<>>
  /\ done = 3 => Sending(9) /\ slave.shift % 2 = op.v
  /\ done >= 3 => slave.heard = <<[f |-> "ack", v |-> op.v]>>
  /\ done >= 4 => Answered /\ (slave.on <=> op.v = 0) /\ (slave.on => slave.dir = "send")

CallInv ==
  CASE op.f = "init" -> InitInv
    [] op.f = "start" -> StartInv
    [] op.f = "stop" -> StopInv
    [] op.f = "write" -> WriteInv
    [] op.f = "ack" -> AckInv
    [] op.f = "read" -> ReadInv
    [] op.f = "setAck" -> SetAckInv

OpOK ==
  /\ op = [f |-> op.f, v |-> op.v]
  /\ op.f \in {"init", "start", "stop", "write", "ack", "read", "setAck"}
  /\ caught => op.f \in {"init", "start"}

I2cIInv == SlaveOK(slave) /\ LinesOK /\ OpOK /\ CallInv

-----------------------------------------------------------------------------
(* What the slave's operators keep and change.                             *)
LEMMA BitType == ASSUME NEW w \in Nat, NEW i \in 0..7 PROVE Bit(w, i) \in 0..1
<1>1. i \in {0, 1, 2, 3, 4, 5, 6, 7}
  OBVIOUS
<1> QED
  BY <1>1 DEF Bit

LEMMA Single == ASSUME NEW e PROVE Append(<<>>, e) = <<e>>
  OBVIOUS

(* A slave by its parts.                                                   *)
LEMMA SlaveParts ==
  ASSUME NEW s \in Slaves
  PROVE  /\ s.on \in BOOLEAN /\ s.first \in BOOLEAN /\ s.dir \in {"recv", "send"}
         /\ s.pos \in 0..9 /\ s.shift \in Nat /\ s.out \in 0..255 /\ s.out \in Nat
         /\ s.drive \in 0..1 /\ s.drive \in Nat /\ s.heard \in Talks
  BY DEF Slaves

LEMMA NoTalk == <<>> \in Talks
  BY DEF Talks

LEMMA DeafOK == SlaveOK(Deaf) /\ Deaf.pos = 0
  BY NoTalk DEF SlaveOK, Deaf, Slaves

LEMMA HeardType ==
  ASSUME NEW h \in Talks, NEW f \in {"start", "stop", "byte", "ack"}, NEW v \in Nat
  PROVE  Append(h, [f |-> f, v |-> v]) \in Talks
<1>1. [f |-> f, v |-> v] \in [f : {"start", "stop", "byte", "ack"}, v : Nat]
  OBVIOUS
<1> QED
  BY <1>1 DEF Talks

(* SCL rises: what of a slave on the bus changes, and what it notices.     *)
Risen(s, t, bit) ==
  /\ SlaveOK(t) /\ t.on /\ (t.first <=> s.first) /\ t.dir = s.dir
  /\ t.pos = s.pos + 1 /\ t.shift = 2 * s.shift + bit
  /\ t.out = s.out /\ t.drive = s.drive

Noticed(s, t, bit) ==
  /\ s.pos < 7 => t.heard = s.heard
  /\ s.pos = 7 => t.heard = Append(s.heard, [f |-> "byte",
                              v |-> IF s.dir = "send" THEN s.out ELSE t.shift])
  /\ s.pos = 8 => t.heard = Append(s.heard, [f |-> "ack",
                              v |-> IF s.dir = "send" THEN bit ELSE s.drive])

LEMMA RiseOn ==
  ASSUME NEW s, SlaveOK(s), s.on, s.pos <= 8, NEW bit \in 0..1
  PROVE  Risen(s, Rise(s, bit), bit) /\ Noticed(s, Rise(s, bit), bit)
<1> DEFINE t == [s EXCEPT !.pos = @ + 1, !.shift = 2 * @ + bit]
<1>1. s \in Slaves /\ s.on /\ (s.first => s.dir = "recv")
  BY DEF SlaveOK, Slaves
<1>2. /\ t \in Slaves /\ t.on /\ (t.first <=> s.first) /\ t.dir = s.dir
      /\ t.pos = s.pos + 1 /\ t.shift = 2 * s.shift + bit
      /\ t.out = s.out /\ t.drive = s.drive /\ t.heard = s.heard
  <2>1. s.pos + 1 \in 0..9 /\ 2 * s.shift + bit \in Nat
    BY <1>1, SlaveParts
  <2> QED
    BY <1>1, <2>1 DEF Slaves
<1> HIDE DEF t
<1>3. ASSUME NEW f \in {"byte", "ack"}, NEW v \in Nat
      PROVE  LET u == Heard(t, f, v) IN
             /\ u \in Slaves /\ (u.on <=> t.on) /\ (u.first <=> t.first) /\ u.dir = t.dir
             /\ u.pos = t.pos /\ u.shift = t.shift /\ u.out = t.out /\ u.drive = t.drive
             /\ u.heard = Append(t.heard, [f |-> f, v |-> v])
  <2>1. Append(t.heard, [f |-> f, v |-> v]) \in Talks
    BY <1>2, HeardType, SlaveParts
  <2> QED
    BY <1>2, <2>1 DEF Heard, Slaves
<1>4. s.out \in Nat /\ t.shift \in Nat /\ s.drive \in Nat /\ bit \in Nat
  BY <1>1, <1>2, SlaveParts
<1>5. CASE s.pos = 7
  <2> DEFINE v == IF s.dir = "send" THEN s.out ELSE t.shift
             u == Heard(t, "byte", v)
  <2>1. Rise(s, bit) = u
    BY <1>1, <1>5 DEF Rise, t
  <2>2. v \in Nat
    BY <1>4
  <2>3. /\ u \in Slaves /\ (u.on <=> t.on) /\ (u.first <=> t.first) /\ u.dir = t.dir
        /\ u.pos = t.pos /\ u.shift = t.shift /\ u.out = t.out /\ u.drive = t.drive
        /\ u.heard = Append(t.heard, [f |-> "byte", v |-> v])
    BY <1>3, <2>2
  <2> HIDE DEF u
  <2> QED
    BY <1>1, <1>2, <1>5, <2>1, <2>3 DEF SlaveOK, Risen, Noticed
<1>6. CASE s.pos = 8
  <2> DEFINE v == IF s.dir = "send" THEN bit ELSE s.drive
             u == Heard(t, "ack", v)
  <2>1. Rise(s, bit) = u
    BY <1>1, <1>6 DEF Rise, t
  <2>2. v \in Nat
    BY <1>4
  <2>3. /\ u \in Slaves /\ (u.on <=> t.on) /\ (u.first <=> t.first) /\ u.dir = t.dir
        /\ u.pos = t.pos /\ u.shift = t.shift /\ u.out = t.out /\ u.drive = t.drive
        /\ u.heard = Append(t.heard, [f |-> "ack", v |-> v])
    BY <1>3, <2>2
  <2> HIDE DEF u
  <2> QED
    BY <1>1, <1>2, <1>6, <2>1, <2>3 DEF SlaveOK, Risen, Noticed
<1>7. CASE s.pos \notin {7, 8}
  <2>1. Rise(s, bit) = t
    BY <1>1, <1>7 DEF Rise, t
  <2> QED
    BY <1>1, <1>2, <1>7, <2>1 DEF SlaveOK, Slaves, Risen, Noticed
<1> QED
  BY <1>5, <1>6, <1>7

LEMMA RiseOff ==
  ASSUME NEW s, ~s.on, NEW bit
  PROVE  Rise(s, bit) = s
  BY DEF Rise

(* SCL falls within a frame, and after one that is or is not acknowledged. *)
FellIn(s, t) ==
  /\ SlaveOK(t) /\ (t.on <=> s.on) /\ (t.first <=> s.first) /\ t.dir = s.dir
  /\ t.pos = s.pos /\ t.shift = s.shift /\ t.out = s.out /\ t.heard = s.heard
  /\ t.dir = "send" => t.drive = IF t.pos < 8 THEN Bit(t.out, 7 - t.pos) ELSE 1
  /\ t.dir = "recv" /\ t.pos # 8 => t.drive = 1

FellNack(s, t) ==
  /\ SlaveOK(t) /\ ~t.on /\ t.dir = "recv" /\ t.pos = 0 /\ t.drive = 1
  /\ t.heard = s.heard

FellAck(s, t) ==
  /\ SlaveOK(t) /\ t.on /\ ~t.first /\ t.pos = 0 /\ t.shift = 0
  /\ t.drive = IF t.dir = "send" THEN Bit(t.out, 7) ELSE 1
  /\ ~s.first => t.dir = s.dir
  /\ t.heard = s.heard

LEMMA FallIn ==
  ASSUME NEW s, SlaveOK(s), ~(s.on /\ s.pos = 9), NEW answer \in 0..255, NEW ack \in 0..1
  PROVE  FellIn(s, Fall(s, answer, ack))
<1> DEFINE d == CASE s.dir = "send" /\ s.pos < 8 -> Bit(s.out, 7 - s.pos)
                  [] s.dir = "recv" /\ s.pos = 8 -> ack
                  [] OTHER -> 1
<1>1. s \in Slaves /\ (s.first => s.dir = "recv")
  BY DEF SlaveOK
<1>2. Fall(s, answer, ack) = [s EXCEPT !.drive = d]
  BY DEF Fall
<1>3. /\ d \in 0..1
      /\ s.dir = "send" => d = IF s.pos < 8 THEN Bit(s.out, 7 - s.pos) ELSE 1
      /\ s.dir = "recv" /\ s.pos # 8 => d = 1
  <2>1. s.dir \in {"send", "recv"} /\ s.pos \in 0..9 /\ s.out \in Nat
    BY <1>1 DEF Slaves
  <2>2. s.pos < 8 => Bit(s.out, 7 - s.pos) \in 0..1
    <3>1. s.pos < 8 => 7 - s.pos \in 0..7
      BY <2>1
    <3> QED
      BY <2>1, <3>1, BitType
  <2> QED
    BY <2>1, <2>2
<1> HIDE DEF d
<1>4. LET t == [s EXCEPT !.drive = d] IN
      /\ t \in Slaves /\ (t.on <=> s.on) /\ (t.first <=> s.first) /\ t.dir = s.dir /\ t.pos = s.pos
      /\ t.shift = s.shift /\ t.out = s.out /\ t.heard = s.heard /\ t.drive = d
  BY <1>1, <1>3 DEF Slaves
<1>5. ~s.on => [s EXCEPT !.drive = d] = [Deaf EXCEPT !.heard = s.heard]
  <2>1. SUFFICES ASSUME ~s.on PROVE [s EXCEPT !.drive = d] = [Deaf EXCEPT !.heard = s.heard]
    OBVIOUS
  <2>2. s = [Deaf EXCEPT !.heard = s.heard]
    BY <2>1 DEF SlaveOK
  <2>3. s.dir = "recv" /\ s.pos = 0 /\ s.drive = 1
    BY <2>2 DEF Deaf
  <2>4. [s EXCEPT !.drive = d] = s
    BY <1>1, <1>3, <2>3 DEF Slaves
  <2> QED
    BY <2>2, <2>4
<1> QED
  BY <1>1, <1>2, <1>3, <1>4, <1>5 DEF SlaveOK, FellIn

LEMMA DeafWith ==
  ASSUME NEW h \in Talks
  PROVE  LET t == [Deaf EXCEPT !.heard = h]
             u == [Deaf EXCEPT !.on = TRUE, !.heard = h]
         IN /\ t \in Slaves /\ ~t.on /\ t.first /\ t.dir = "recv" /\ t.pos = 0
            /\ t.drive = 1 /\ t.heard = h
            /\ u \in Slaves /\ u.on /\ u.first /\ u.dir = "recv" /\ u.pos = 0
            /\ u.drive = 1 /\ u.heard = h
<1> DEFINE t == [Deaf EXCEPT !.heard = h]
           u == [Deaf EXCEPT !.on = TRUE, !.heard = h]
<1>1. Deaf \in Slaves
  BY DeafOK DEF SlaveOK
<1>2. /\ ~Deaf.on /\ Deaf.first /\ Deaf.dir = "recv" /\ Deaf.pos = 0
      /\ Deaf.drive = 1
  BY DEF Deaf
<1>3. t \in Slaves /\ u \in Slaves
  BY <1>1 DEF Slaves
<1>4. ~t.on /\ t.first /\ t.dir = "recv" /\ t.pos = 0 /\ t.drive = 1 /\ t.heard = h
  BY <1>1, <1>2 DEF Slaves
<1>5. /\ u.on /\ u.first /\ u.dir = "recv" /\ u.pos = 0 /\ u.drive = 1
      /\ u.heard = h
  BY <1>1, <1>2 DEF Slaves
<1> QED
  BY <1>3, <1>4, <1>5

LEMMA DeafHeard ==
  ASSUME NEW s \in Slaves
  PROVE  LET t == [Deaf EXCEPT !.heard = s.heard] IN
         /\ SlaveOK(t) /\ ~t.on /\ t.dir = "recv" /\ t.pos = 0 /\ t.drive = 1
         /\ t.heard = s.heard
<1> DEFINE t == [Deaf EXCEPT !.heard = s.heard]
<1>1. s.heard \in Talks
  BY SlaveParts
<1>2. /\ t \in Slaves /\ ~t.on /\ t.first /\ t.dir = "recv" /\ t.pos = 0
      /\ t.drive = 1 /\ t.heard = s.heard
  BY <1>1, DeafWith
<1>3. t = [Deaf EXCEPT !.heard = t.heard]
  BY <1>2
<1> QED
  BY <1>2, <1>3 DEF SlaveOK

LEMMA FallNack ==
  ASSUME NEW s, SlaveOK(s), s.on, s.pos = 9, s.shift % 2 = 1, NEW answer, NEW ack
  PROVE  FellNack(s, Fall(s, answer, ack))
<1> DEFINE t == [Deaf EXCEPT !.heard = s.heard]
<1>1. s \in Slaves /\ SlaveOK(t) /\ ~t.on /\ t.dir = "recv" /\ t.pos = 0 /\ t.drive = 1
        /\ t.heard = s.heard /\ t \in Slaves
  BY DeafHeard DEF SlaveOK
<1>2. NextFrame(s, answer) = t
  BY DEF NextFrame
<1> HIDE DEF t
<1>3. Fall(s, answer, ack) = [t EXCEPT !.drive = 1]
  BY <1>1, <1>2 DEF Fall
<1>4. [t EXCEPT !.drive = 1] = t
  BY <1>1 DEF Slaves
<1> QED
  BY <1>1, <1>3, <1>4 DEF FellNack

LEMMA FallAck ==
  ASSUME NEW s, SlaveOK(s), s.on, s.pos = 9, s.shift % 2 = 0,
         NEW answer \in 0..255, NEW ack \in 0..1
  PROVE  FellAck(s, Fall(s, answer, ack))
<1> DEFINE d == IF s.first /\ Bit(s.shift, 1) = 1 THEN "send" ELSE s.dir
           u == [s EXCEPT !.pos = 0, !.shift = 0, !.out = answer, !.first = FALSE, !.dir = d]
           e == IF d = "send" THEN Bit(answer, 7) ELSE 1
<1>1. s \in Slaves /\ s.on
  BY DEF SlaveOK, Slaves
<1>2. d \in {"recv", "send"} /\ e \in 0..1
  BY <1>1, BitType DEF Slaves
<1>3. NextFrame(s, answer) = u
  BY DEF NextFrame
<1> HIDE DEF d
<1>4. u \in Slaves /\ u.on /\ ~u.first /\ u.pos = 0 /\ u.shift = 0 /\ u.dir = d
        /\ u.out = answer /\ u.heard = s.heard
  <2>1. 0 \in 0..9 /\ 0 \in Nat /\ FALSE \in BOOLEAN
    OBVIOUS
  <2> QED
    BY <1>1, <1>2, <2>1 DEF Slaves
<1> HIDE DEF u
<1>5. Fall(s, answer, ack) = [u EXCEPT !.drive = e]
  BY <1>1, <1>2, <1>3, <1>4 DEF Fall
<1> HIDE DEF e
<1>6. LET t == [u EXCEPT !.drive = e] IN
      /\ t \in Slaves /\ t.on /\ ~t.first /\ t.pos = 0 /\ t.shift = 0
      /\ t.dir = d /\ t.out = answer /\ t.heard = s.heard /\ t.drive = e
  BY <1>2, <1>4 DEF Slaves
<1> QED
  BY <1>5, <1>6 DEF SlaveOK, d, e, FellAck

(* SDA moves with SCL high.                                                *)
LEMMA EdgeFacts ==
  ASSUME NEW s, SlaveOK(s)
  PROVE  /\ SlaveOK(Edge(s, TRUE)) /\ SlaveOK(Edge(s, FALSE))
         /\ Edge(s, TRUE).pos = 0 /\ Edge(s, FALSE).pos = 0
         /\ ~Edge(s, TRUE).on /\ Edge(s, FALSE).on
         /\ Edge(s, TRUE).drive = 1 /\ Edge(s, FALSE).drive = 1
         /\ s.heard = <<>> =>
              /\ Edge(s, TRUE) = [Deaf EXCEPT !.heard = <<[f |-> "stop", v |-> 0]>>]
              /\ Edge(s, FALSE) = [Deaf EXCEPT !.on = TRUE, !.heard = <<[f |-> "start", v |-> 0]>>]
<1> DEFINE H == Talks
           up == Append(s.heard, [f |-> "stop", v |-> 0])
           down == Append(s.heard, [f |-> "start", v |-> 0])
<1>1. s \in Slaves /\ up \in H /\ down \in H
  BY HeardType, SlaveParts DEF SlaveOK
<1>2. /\ s.heard = <<>> => up = <<[f |-> "stop", v |-> 0]>>
      /\ s.heard = <<>> => down = <<[f |-> "start", v |-> 0]>>
  BY Single
<1>3. /\ Edge(s, TRUE) = [Deaf EXCEPT !.heard = up]
      /\ Edge(s, FALSE) = [Deaf EXCEPT !.on = TRUE, !.heard = down]
  BY DEF Edge, Heard, Deaf
<1> HIDE DEF up, down
<1>4. LET t == [Deaf EXCEPT !.heard = up] IN
      t \in Slaves /\ ~t.on /\ t.pos = 0 /\ t.first /\ t.dir = "recv" /\ t.heard = up
        /\ t.drive = 1
  BY <1>1, DeafWith
<1>5. LET t == [Deaf EXCEPT !.on = TRUE, !.heard = down] IN
      t \in Slaves /\ t.on /\ t.pos = 0 /\ t.first /\ t.dir = "recv" /\ t.drive = 1
  BY <1>1, DeafWith
<1> QED
  BY <1>2, <1>3, <1>4, <1>5 DEF SlaveOK

-----------------------------------------------------------------------------
(* A half cycle that changes at most one line.                             *)
Moved(a, c, answer, ack) ==
  /\ SlaveOK(slave') /\ LinesOK'
  /\ sda' = a /\ scl' = c /\ done' = done + 1 /\ op' = op /\ caught' = caught
  /\ scl = 1 /\ c = 1 /\ slave.drive = 0 => slave' = slave
  /\ scl = 0 /\ c = 0 => slave' = slave
  /\ scl = 1 /\ c = 1 /\ sda = a => slave' = slave
  /\ scl = 0 /\ c = 1 => slave' = Rise(slave, a * slave.drive)
  /\ scl = 1 /\ c = 0 => slave' = Fall(slave, answer, ack)
  /\ scl = 1 /\ c = 1 /\ sda = 0 /\ a = 1 /\ slave.drive = 1 => slave' = Edge(slave, TRUE)
  /\ scl = 1 /\ c = 1 /\ sda = 1 /\ a = 0 /\ slave.drive = 1 => slave' = Edge(slave, FALSE)

LEMMA FallPos ==
  ASSUME NEW s, SlaveOK(s), NEW answer \in 0..255, NEW ack \in 0..1
  PROVE  SlaveOK(Fall(s, answer, ack)) /\ Fall(s, answer, ack).pos <= 8
<1>1. s \in Slaves /\ s.pos \in 0..9 /\ s.shift \in Nat
  BY SlaveParts DEF SlaveOK
<1>2. CASE ~(s.on /\ s.pos = 9)
  <2>1. s.pos # 9
    <3>1. CASE ~s.on
      BY <3>1 DEF SlaveOK, Deaf
    <3> QED
      BY <1>2, <3>1
  <2>2. Fall(s, answer, ack).pos = s.pos /\ SlaveOK(Fall(s, answer, ack))
    BY <1>2, FallIn DEF FellIn
  <2> QED
    BY <1>1, <2>1, <2>2
<1>3. CASE s.on /\ s.pos = 9 /\ s.shift % 2 = 1
  BY <1>3, FallNack DEF FellNack
<1>4. CASE s.on /\ s.pos = 9 /\ s.shift % 2 = 0
  <2>1. FellAck(s, Fall(s, answer, ack))
    BY <1>4, FallAck
  <2> QED
    BY <2>1 DEF FellAck
<1>5. s.shift % 2 \in {0, 1}
  BY <1>1
<1> QED
  BY <1>2, <1>3, <1>4, <1>5

LEMMA RisePos ==
  ASSUME NEW s, SlaveOK(s), s.pos <= 8, NEW bit \in 0..1
  PROVE  SlaveOK(Rise(s, bit))
<1>1. CASE s.on
  BY <1>1, RiseOn DEF Risen
<1>2. CASE ~s.on
  BY <1>2, RiseOff
<1> QED
  BY <1>1, <1>2

LEMMA Move ==
  ASSUME SlaveOK(slave), LinesOK, NEW answer \in I2cBytes, NEW ack \in 0..1, Half(answer, ack),
         NEW a \in 0..1, NEW c \in 0..1, Steps[done + 1][1] = a, Steps[done + 1][2] = c,
         sda = a \/ scl = c
  PROVE  Moved(a, c, answer, ack)
<1>1. /\ m_nLastSDA' = a /\ m_nLastSCL' = c /\ sda' = a /\ scl' = c /\ done' = done + 1 /\ op' = op
      /\ slave' = Lines(slave, sda, scl, a, c, answer, ack) /\ caught' = caught
  BY DEF Half
<1>2. /\ answer \in 0..255 /\ sda \in 0..1 /\ scl \in 0..1 /\ (scl = 0 => slave.pos <= 8)
      /\ slave.drive \in 0..1 /\ slave \in Slaves
  BY I2cAssumption, SlaveParts DEF LinesOK, SlaveOK
<1>3. CASE scl = c /\ (scl = 0 \/ sda = a)
  <2>1. slave' = slave
    BY <1>1, <1>2, <1>3 DEF Lines
  <2>2. LinesOK' /\ SlaveOK(slave')
    BY <1>1, <1>2, <1>3, <2>1 DEF LinesOK
  <2>3. ~(scl = 0 /\ c = 1) /\ ~(scl = 1 /\ c = 0) /\ (scl = 1 => sda = a)
    BY <1>3
  <2> QED
    BY <1>1, <2>1, <2>2, <2>3 DEF Moved
<1>4. CASE scl = 0 /\ c = 1
  <2>1. slave' = Rise(slave, a * slave.drive)
    BY <1>1, <1>2, <1>4 DEF Lines
  <2>2. a * slave.drive \in 0..1
    <3>1. a = 0 \/ a = 1
      OBVIOUS
    <3> QED
      BY <1>2, <3>1
  <2>3. SlaveOK(slave')
    BY <1>2, <1>4, <2>1, <2>2, RisePos
  <2> QED
    BY <1>1, <1>4, <2>1, <2>3 DEF Moved, LinesOK
<1>5. CASE scl = 1 /\ c = 0
  <2>1. slave' = Fall(slave, answer, ack)
    BY <1>1, <1>2, <1>5 DEF Lines
  <2>2. SlaveOK(slave') /\ slave'.pos <= 8
    BY <1>2, <2>1, FallPos
  <2> QED
    BY <1>1, <1>5, <2>1, <2>2 DEF Moved, LinesOK
<1>6. CASE scl = 1 /\ c = 1 /\ sda # a
  <2>1. CASE slave.drive = 0
    <3>1. slave' = slave
      BY <1>1, <1>2, <1>6, <2>1 DEF Lines
    <3> QED
      BY <1>1, <1>6, <2>1, <3>1 DEF Moved, LinesOK
  <2>2. CASE slave.drive = 1
    <3>1. sda * slave.drive = sda /\ a * slave.drive = a
      BY <1>2, <2>2
    <3>2. slave' = Edge(slave, a = 1)
      BY <1>1, <1>2, <1>6, <2>2, <3>1 DEF Lines
    <3>3. a = 1 \/ (a = 0 /\ (a = 1) = FALSE)
      OBVIOUS
    <3>4. slave' = IF a = 1 THEN Edge(slave, TRUE) ELSE Edge(slave, FALSE)
      BY <3>2, <3>3 DEF Edge
    <3>5. SlaveOK(slave')
      BY <3>4, EdgeFacts
    <3>6. LinesOK'
      BY <1>1, <1>6 DEF LinesOK
    <3>7. sda = 0 /\ a = 1 => slave' = Edge(slave, TRUE)
      BY <3>4
    <3>8. sda = 1 /\ a = 0 => slave' = Edge(slave, FALSE)
      BY <3>4
    <3>9. ~(scl = 0) /\ ~(c = 0) /\ ~(sda = a) /\ ~(slave.drive = 0)
      BY <1>6, <2>2
    <3> QED
      BY <1>1, <3>5, <3>6, <3>7, <3>8, <3>9, Zenon DEF Moved
  <2> QED
    BY <1>2, <2>1, <2>2
<1> QED
  BY <1>2, <1>3, <1>4, <1>5, <1>6

LEMMA StartStep ==
  ASSUME SlaveOK(slave), LinesOK, OpOK, op.f = "start", Starting,
         NEW answer \in I2cBytes, NEW ack \in 0..1, Half(answer, ack)
  PROVE  SlaveOK(slave') /\ LinesOK' /\ Starting' /\ op' = op
<1>1. Steps = Start /\ done \in 0..2 /\ op.v = 0 /\ sda = 1 /\ Open
  <2>1. Steps = Start
    BY DEF Steps
  <2> QED
    BY <2>1 DEF Starting, Half, Over, Start
<1>2. m_nLastSCL = scl /\ sda \in 0..1 /\ scl \in 0..1
  BY DEF LinesOK
<1>3. CASE done = 0
  <2>1. Moved(1, scl, answer, ack)
    BY <1>1, <1>2, <1>3, Move DEF Start, DC
  <2> QED
    BY <1>1, <1>2, <1>3, <2>1 DEF Moved, Starting, Open
<1>4. CASE done = 1
  <2>1. Moved(1, 1, answer, ack)
    BY <1>1, <1>2, <1>4, Move DEF Start, DC
  <2>2. CASE slave.on /\ scl = 0
    <3>1. slave' = Rise(slave, 1) /\ slave.pos = 0
      BY <1>1, <1>4, <2>1, <2>2 DEF Moved, Open, Starting
    <3>2. Risen(slave, slave', 1) /\ Noticed(slave, slave', 1)
      <4>1. slave.pos <= 8 /\ 1 \in 0..1
        BY <3>1
      <4> QED
        BY <2>2, <3>1, <4>1, RiseOn
    <3>3. /\ slave'.pos = 1 /\ slave'.dir = slave.dir /\ slave'.drive = slave.drive
          /\ slave'.heard = slave.heard
      BY <3>1, <3>2 DEF Risen, Noticed
    <3> QED
      BY <1>1, <1>4, <2>1, <3>3 DEF Moved, Starting, Open
  <2>3. CASE ~slave.on \/ scl = 1
    <3>1. slave' = slave
      BY <1>1, <1>2, <2>1, <2>3, RiseOff DEF Moved
    <3> QED
      BY <1>1, <1>4, <2>1, <3>1 DEF Moved, Starting, Open
  <2> QED
    BY <1>2, <2>2, <2>3
<1>5. CASE done = 2
  <2>1. scl = 1
    BY <1>2, <1>5 DEF Starting
  <2>2. Moved(0, 1, answer, ack)
    BY <1>1, <1>2, <1>5, <2>1, Move DEF Start, DC
  <2>3. slave' = [Deaf EXCEPT !.on = TRUE, !.heard = <<[f |-> "start", v |-> 0]>>]
    BY <1>1, <2>1, <2>2, EdgeFacts DEF Moved, Open
  <2>4. op = [f |-> "start", v |-> 0]
    BY <1>1 DEF OpOK
  <2> QED
    BY <1>1, <1>5, <2>2, <2>3, <2>4 DEF Moved, Starting
<1> QED
  BY <1>1, <1>3, <1>4, <1>5

(* The START is not noticed while the slave holds SDA low.                 *)
LEMMA UnheardStep ==
  ASSUME SlaveOK(slave), LinesOK, OpOK, op.f = "start", Unheard,
         NEW answer \in I2cBytes, NEW ack \in 0..1, Half(answer, ack)
  PROVE  SlaveOK(slave') /\ LinesOK' /\ Unheard' /\ op' = op
<1>1. Steps = Start /\ done \in 0..2 /\ sda = 1 /\ scl = 1 /\ m_nLastSCL = 1 /\ slave.drive = 0
  <2>1. Steps = Start
    BY DEF Steps
  <2> QED
    BY <2>1 DEF Unheard, Held, Holding, Half, Over, Start, LinesOK
<1> DEFINE a == IF done = 2 THEN 0 ELSE 1
<1>2. Steps[done + 1][1] = a /\ Steps[done + 1][2] = 1
  BY <1>1 DEF Start, DC
<1>3. Moved(a, 1, answer, ack)
  BY <1>1, <1>2, Move
<1>4. slave' = slave /\ caught' = caught /\ done' = done + 1 /\ op' = op /\ sda' = a /\ scl' = 1
  BY <1>1, <1>3 DEF Moved
<1>5. SlaveOK(slave') /\ LinesOK'
  BY <1>3 DEF Moved
<1>6. done' \in 0..3 /\ sda' = (IF done' = 3 THEN 0 ELSE 1)
  BY <1>1, <1>4
<1> HIDE DEF a
<1> QED
  BY <1>4, <1>5, <1>6 DEF Unheard, Held

(* SCL rises or falls under a slave on the bus.                            *)
LEMMA Up ==
  ASSUME SlaveOK(slave), LinesOK, NEW a \in 0..1, NEW answer, NEW ack,
         Moved(a, 1, answer, ack), scl = 0, slave.on
  PROVE  /\ Risen(slave, slave', a * slave.drive)
         /\ Noticed(slave, slave', a * slave.drive)
         /\ slave.drive = 1 => Risen(slave, slave', a) /\ Noticed(slave, slave', a)
         /\ a = 1 => Risen(slave, slave', slave.drive) /\ Noticed(slave, slave', slave.drive)
<1>1. slave' = Rise(slave, a * slave.drive) /\ slave.pos <= 8 /\ slave.drive \in 0..1
  BY SlaveParts DEF Moved, LinesOK, SlaveOK
<1>2. a * slave.drive \in 0..1 /\ (slave.drive = 1 => a * slave.drive = a)
        /\ (a = 1 => a * slave.drive = slave.drive)
  BY <1>1
<1> QED
  BY <1>1, <1>2, RiseOn

LEMMA Down ==
  ASSUME SlaveOK(slave), NEW a, NEW answer \in I2cBytes, NEW ack \in 0..1,
         Moved(a, 0, answer, ack), scl = 1
  PROVE  /\ ~(slave.on /\ slave.pos = 9) => FellIn(slave, slave')
         /\ slave.on /\ slave.pos = 9 /\ slave.shift % 2 = 1 => FellNack(slave, slave')
         /\ slave.on /\ slave.pos = 9 /\ slave.shift % 2 = 0 => FellAck(slave, slave')
<1>1. slave' = Fall(slave, answer, ack) /\ answer \in 0..255
  BY I2cAssumption DEF Moved
<1> QED
  BY <1>1, FallIn, FallNack, FallAck

LEMMA Returned ==
  ASSUME NEW answer, NEW ack, Half(answer, ack)
  PROVE  retVal' = retVal + Steps[done + 1][3] * (Steps[done + 1][1] * slave'.drive)
  BY DEF Half

LEMMA StopStep ==
  ASSUME SlaveOK(slave), LinesOK, OpOK, op.f = "stop", StopInv,
         NEW answer \in I2cBytes, NEW ack \in 0..1, Half(answer, ack)
  PROVE  SlaveOK(slave') /\ LinesOK' /\ StopInv' /\ op' = op
<1>1. Steps = Stop /\ done \in 0..2 /\ op.v = 0 /\ Open
  <2>1. Steps = Stop
    BY DEF Steps
  <2> QED
    BY <2>1 DEF StopInv, Half, Over, Stop
<1>2. m_nLastSCL = scl /\ sda \in 0..1 /\ scl \in 0..1
  BY DEF LinesOK
<1>3. CASE done = 0
  <2>1. scl = 0 /\ sda = 1
    BY <1>3 DEF StopInv
  <2>2. Moved(0, 0, answer, ack)
    BY <1>1, <1>2, <1>3, <2>1, Move DEF Stop, DC
  <2> QED
    BY <1>1, <1>3, <2>1, <2>2 DEF Moved, StopInv, Open
<1>4. CASE done = 1
  <2>1. scl = 0 /\ sda = 0 /\ slave.pos = 0
    BY <1>4 DEF StopInv
  <2>2. Moved(0, 1, answer, ack)
    BY <1>1, <1>2, <1>4, <2>1, Move DEF Stop, DC
  <2>3. CASE slave.on
    <3>1. Risen(slave, slave', 0) /\ Noticed(slave, slave', 0)
      BY <1>1, <2>1, <2>2, <2>3, Up DEF Open
    <3>2. /\ slave'.pos = 1 /\ slave'.dir = "recv" /\ slave'.drive = 1 /\ slave'.on
          /\ slave'.heard = <<>>
      BY <1>1, <2>1, <3>1 DEF Risen, Noticed, Open
    <3> QED
      BY <1>1, <1>4, <2>2, <3>2 DEF Moved, StopInv, Open
  <2>4. CASE ~slave.on
    <3>1. slave' = slave
      BY <2>1, <2>2, <2>4, RiseOff DEF Moved
    <3> QED
      BY <1>1, <1>4, <2>1, <2>2, <2>4, <3>1 DEF Moved, StopInv, Open
  <2> QED
    BY <2>3, <2>4
<1>5. CASE done = 2
  <2>1. scl = 1 /\ sda = 0
    BY <1>5 DEF StopInv
  <2>2. Moved(1, 1, answer, ack)
    BY <1>1, <1>2, <1>5, <2>1, Move DEF Stop, DC
  <2>3. slave' = [Deaf EXCEPT !.heard = <<[f |-> "stop", v |-> 0]>>]
    BY <1>1, <2>1, <2>2, EdgeFacts DEF Moved, Open
  <2>4. op = [f |-> "stop", v |-> 0]
    BY <1>1 DEF OpOK
  <2> QED
    BY <1>1, <1>5, <2>2, <2>3, <2>4 DEF Moved, StopInv
<1> QED
  BY <1>1, <1>3, <1>4, <1>5

(* The bits of a byte from the first: what a slave has shifted in of it.   *)
LEMMA NextBit ==
  ASSUME NEW v \in Nat, NEW j \in 0..7
  PROVE  v \div 2^(7 - j) = 2 * (v \div 2^(8 - j)) + Bit(v, 7 - j)
<1>1. j \in {0, 1, 2, 3, 4, 5, 6, 7}
  OBVIOUS
<1>2. CASE j = 0
  BY <1>2 DEF Bit
<1>3. CASE j = 1
  BY <1>3 DEF Bit
<1>4. CASE j = 2
  BY <1>4 DEF Bit
<1>5. CASE j = 3
  BY <1>5 DEF Bit
<1>6. CASE j = 4
  BY <1>6 DEF Bit
<1>7. CASE j = 5
  BY <1>7 DEF Bit
<1>8. CASE j = 6
  BY <1>8 DEF Bit
<1>9. CASE j = 7
  BY <1>9 DEF Bit
<1> QED
  BY <1>1, <1>2, <1>3, <1>4, <1>5, <1>6, <1>7, <1>8, <1>9

LEMMA Bytes == \A w \in I2cBytes : w \in 0..255 /\ w \in Nat
  BY I2cAssumption

LEMMA Lens ==
  /\ Len(Clear) = 62
  /\ \A v : Len(WriteByte(v)) = 25
  /\ Len(ReadByte) = 18
  BY DEF Clear, WriteByte, ReadByte

LEMMA WriteStep ==
  ASSUME SlaveOK(slave), LinesOK, OpOK, op.f = "write", Writing,
         NEW answer \in I2cBytes, NEW ack \in 0..1, Half(answer, ack)
  PROVE  SlaveOK(slave') /\ LinesOK' /\ Writing' /\ op' = op
<1>1. /\ Steps = WriteByte(op.v) /\ done \in 0..24 /\ op.v \in I2cBytes /\ op.v \in Nat
      /\ slave.drive = 1
  <2>1. Steps = WriteByte(op.v)
    BY DEF Steps
  <2> QED
    <3>1. done \in 0..25 /\ op.v \in I2cBytes /\ (done < 25 => slave.drive = 1)
      BY Zenon DEF Writing
    <3>2. done # 25
      BY <2>1, Lens DEF Half, Over
    <3>3. op.v \in Nat
      BY <3>1, Bytes
    <3>4. done < 25 /\ done \in 0..24
      BY <3>1, <3>2
    <3> QED
      BY <2>1, <3>1, <3>3, <3>4
<1>2. m_nLastSDA = sda /\ sda \in 0..1 /\ scl \in 0..1
  BY DEF LinesOK
<1> DEFINE a == Bit(op.v, 7 - (done - 1) \div 3)
<1>3. /\ slave.on /\ slave.dir = "recv" /\ slave.pos = done \div 3 /\ slave.pos \in 0..8
      /\ slave.shift = op.v \div 2^(8 - slave.pos)
      /\ slave.heard = IF done < 24 THEN <<>> ELSE <<[f |-> "byte", v |-> op.v]>>
  <2>1. /\ Receiving(done \div 3) /\ slave.shift = op.v \div 2^(8 - slave.pos)
        /\ slave.heard = IF done < 24 THEN <<>> ELSE <<[f |-> "byte", v |-> op.v]>>
    BY DEF Writing
  <2>2. done \div 3 \in 0..8
    BY <1>1
  <2> QED
    BY <2>1, <2>2 DEF Receiving
<1>4. CASE done = 0
  <2>1. Moved(sda, 0, answer, ack)
    BY <1>1, <1>2, <1>4, Move DEF WriteByte, DC
  <2>2. slave'.on /\ slave'.dir = "recv" /\ slave'.pos = 0 /\ slave'.shift = slave.shift
          /\ slave'.heard = <<>> /\ slave'.drive = 1
    <3>1. CASE scl = 0
      <4>1. slave' = slave
        BY <2>1, <3>1 DEF Moved
      <4> QED
        BY <1>1, <1>3, <1>4, <4>1
    <3>2. CASE scl = 1
      <4>1. slave.pos # 9
        BY <1>3
      <4>2. FellIn(slave, slave')
        BY <2>1, <3>2, <4>1, Down
      <4>3. slave'.pos = 0 /\ slave'.dir = "recv"
        BY <1>3, <1>4, <4>2 DEF FellIn
      <4> QED
        BY <1>1, <1>3, <1>4, <4>2, <4>3 DEF FellIn
    <3> QED
      BY <1>2, <3>1, <3>2
  <2>3. slave.pos = 0 /\ slave'.pos = slave.pos /\ done' = 1 /\ scl' = 0 /\ op' = op
    BY <1>3, <1>4, <2>1, <2>2 DEF Moved
  <2>4. slave'.shift = op.v \div 2^(8 - slave'.pos)
    BY <1>3, <2>2, <2>3
  <2> QED
    BY <1>1, <2>1, <2>2, <2>3, <2>4 DEF Moved, Writing, Receiving
<1>5. CASE done > 0
  <2>1. /\ Steps[done + 1][1] = a /\ Steps[done + 1][2] = (IF done % 3 = 2 THEN 1 ELSE 0)
        /\ (done - 1) \div 3 \in 0..7
    <3>1. done + 1 \in 1..25 /\ done + 1 # 1
      BY <1>1, <1>5
    <3>2. Steps[done + 1] = DC(Bit(op.v, 7 - (done + 1 - 2) \div 3),
                              IF (done + 1) % 3 = 0 THEN 1 ELSE 0)
      BY <1>1, <3>1 DEF WriteByte
    <3>3. done + 1 - 2 = done - 1 /\ ((done + 1) % 3 = 0 <=> done % 3 = 2)
            /\ (done - 1) \div 3 \in 0..7
      BY <1>1, <1>5
    <3> QED
      BY <3>2, <3>3 DEF DC
  <2>2. a \in 0..1
    <3>1. 7 - (done - 1) \div 3 \in 0..7
      BY <1>1, <2>1
    <3> QED
      BY <1>1, <3>1, BitType
  <2>3. scl = IF done % 3 = 0 THEN 1 ELSE 0
    BY <1>5 DEF Writing
  <2>4. done % 3 # 1 => sda = a
    <3>1. SUFFICES ASSUME done % 3 # 1 PROVE sda = a
      OBVIOUS
    <3>2. done > 1 /\ (done - 2) \div 3 = (done - 1) \div 3
      BY <1>1, <1>5, <3>1
    <3> QED
      BY <3>2 DEF Writing
  <2>5. ASSUME NEW c \in 0..1, Steps[done + 1][2] = c, Moved(a, c, answer, ack),
               slave'.on /\ slave'.dir = "recv" /\ slave'.pos = (done + 1) \div 3,
               slave'.shift = op.v \div 2^(8 - slave'.pos),
               done + 1 < 25 => slave'.drive = 1,
               slave'.heard = IF done + 1 < 24 THEN <<>> ELSE <<[f |-> "byte", v |-> op.v]>>
        PROVE  SlaveOK(slave') /\ LinesOK' /\ Writing' /\ op' = op
    <3>1. SlaveOK(slave') /\ LinesOK' /\ op' = op /\ done' = done + 1 /\ sda' = a /\ scl' = c
      BY <2>5 DEF Moved
    <3>2. c = IF (done + 1) % 3 = 0 THEN 1 ELSE 0
      <4>1. (done + 1) % 3 = 0 <=> done % 3 = 2
        BY <1>1
      <4> QED
        BY <2>1, <2>5, <4>1
    <3>3. a = Bit(op.v, 7 - (done + 1 - 2) \div 3)
      BY <1>1
    <3> HIDE DEF a
    <3> QED
      BY <1>1, <2>5, <3>1, <3>2, <3>3 DEF Writing, Receiving
  <2> HIDE DEF a
  <2>6. CASE done % 3 = 1
    <3>1. Moved(a, 0, answer, ack) /\ Steps[done + 1][2] = 0
      BY <1>2, <2>1, <2>2, <2>3, <2>6, Move
    <3>2. slave' = slave
      BY <2>3, <2>6, <3>1 DEF Moved
    <3>3. (done + 1) \div 3 = done \div 3 /\ done + 1 < 25 /\ (done + 1 < 24 <=> done < 24)
      BY <1>1, <2>6
    <3> QED
      BY <1>1, <1>3, <2>5, <3>1, <3>2, <3>3
  <2>7. CASE done % 3 = 2
    <3>1. Moved(a, 1, answer, ack) /\ Steps[done + 1][2] = 1
      BY <1>2, <2>1, <2>2, <2>3, <2>4, <2>7, Move
    <3>2. Risen(slave, slave', a) /\ Noticed(slave, slave', a)
      BY <1>1, <1>3, <2>2, <2>3, <2>7, <3>1, Up
    <3>3. /\ slave.pos \in 0..7 /\ (done + 1) \div 3 = slave.pos + 1
          /\ done < 24 /\ (done + 1 < 24 <=> slave.pos < 7)
          /\ (done - 1) \div 3 = slave.pos
      BY <1>1, <1>3, <2>7
    <3>4. /\ slave'.on /\ slave'.dir = "recv" /\ slave'.pos = slave.pos + 1
          /\ slave'.shift = 2 * slave.shift + a /\ slave'.drive = 1
      BY <1>1, <1>3, <3>2 DEF Risen
    <3>5. slave'.shift = op.v \div 2^(7 - slave.pos)
      BY <1>1, <1>3, <3>3, <3>4, NextBit DEF a
    <3>6. 7 - slave.pos = 8 - slave'.pos
      BY <3>3, <3>4
    <3>7. slave.pos = 7 => slave'.shift = op.v
      BY <1>1, <3>5
    <3>8. slave'.heard = IF done + 1 < 24 THEN <<>> ELSE <<[f |-> "byte", v |-> op.v]>>
      <4>1. CASE slave.pos < 7
        BY <1>3, <3>2, <3>3, <4>1 DEF Noticed
      <4>2. CASE slave.pos = 7
        <5>1. slave'.heard = Append(<<>>, [f |-> "byte", v |-> op.v])
          BY <1>3, <3>2, <3>3, <3>7, <4>2 DEF Noticed
        <5> QED
          BY <3>3, <4>2, <5>1, Single
      <4> QED
        BY <3>3, <4>1, <4>2
    <3> QED
      BY <2>5, <3>1, <3>3, <3>4, <3>5, <3>6, <3>8
  <2>8. CASE done % 3 = 0
    <3>1. Moved(a, 0, answer, ack) /\ Steps[done + 1][2] = 0
      BY <1>2, <2>1, <2>2, <2>3, <2>4, <2>8, Move
    <3>2. FellIn(slave, slave')
      <4>1. slave.pos # 9
        BY <1>3
      <4> QED
        BY <2>3, <2>8, <3>1, <4>1, Down
    <3>3. /\ (done + 1) \div 3 = slave.pos /\ (done + 1 < 25 => slave.pos # 8)
          /\ (done + 1 < 24 <=> done < 24)
      BY <1>1, <1>3, <2>8
    <3>4. /\ slave'.on /\ slave'.dir = "recv" /\ slave'.pos = slave.pos
          /\ slave'.shift = slave.shift /\ slave'.heard = slave.heard
          /\ (slave.pos # 8 => slave'.drive = 1)
      BY <1>3, <3>2 DEF FellIn
    <3> QED
      BY <1>3, <2>5, <3>1, <3>3, <3>4
  <2> QED
    BY <1>1, <2>6, <2>7, <2>8
<1> QED
  BY <1>1, <1>4, <1>5

(* A slave that held SDA takes the falling edge of SCL for the end of its  *)
(* acknowledgement, and the byte for the next one.                         *)
LEMMA ResumedStep ==
  ASSUME SlaveOK(slave), LinesOK, OpOK, op.f = "write", Resumed,
         NEW answer \in I2cBytes, NEW ack \in 0..1, Half(answer, ack)
  PROVE  SlaveOK(slave') /\ LinesOK' /\ Writing' /\ op' = op
<1>1. /\ Steps = WriteByte(op.v) /\ done = 0 /\ op.v \in I2cBytes /\ op.v \in 0..255
      /\ scl = 1 /\ slave.heard = <<>>
  BY Bytes DEF Steps, Resumed
<1>2. /\ slave.on /\ ~slave.first /\ slave.dir = "recv" /\ slave.pos = 9
      /\ slave.shift % 2 = 0
  BY DEF Resumed, Holding
<1>3. m_nLastSDA = sda /\ sda \in 0..1
  BY DEF LinesOK
<1>4. Moved(sda, 0, answer, ack)
  <2>1. ASSUME NEW w PROVE WriteByte(w)[1] = <<m_nLastSDA, 0, 0>>
    BY DEF WriteByte, DC
  <2>2. Steps[done + 1] = <<m_nLastSDA, 0, 0>>
    BY <1>1, <2>1
  <2> QED
    BY <1>3, <2>2, Move
<1>5. FellAck(slave, slave')
  BY <1>1, <1>2, <1>4, Down
<1>6. /\ slave'.on /\ slave'.dir = "recv" /\ slave'.pos = 0 /\ slave'.shift = 0
      /\ slave'.drive = 1 /\ slave'.heard = <<>>
  BY <1>1, <1>2, <1>5 DEF FellAck
<1>7. /\ SlaveOK(slave') /\ LinesOK' /\ op' = op /\ done' = 1 /\ scl' = 0
  BY <1>1, <1>4 DEF Moved
<1>8. slave'.shift = op.v \div 2^(8 - slave'.pos)
  <2>1. ASSUME NEW w \in 0..255 PROVE w \div 2^(8 - 0) = 0
    OBVIOUS
  <2>2. op.v \div 2^(8 - 0) = 0
    BY <1>1, <2>1
  <2> QED
    BY <1>6, <2>2
<1>9. 1 \div 3 = 0 /\ 1 % 3 # 0 /\ ~(1 > 1)
  OBVIOUS
<1> QED
  BY <1>1, <1>6, <1>7, <1>8, <1>9 DEF Writing, Receiving

LEMMA AckStep ==
  ASSUME SlaveOK(slave), LinesOK, OpOK, op.f = "ack", AckInv,
         NEW answer \in I2cBytes, NEW ack \in 0..1, Half(answer, ack)
  PROVE  SlaveOK(slave') /\ LinesOK' /\ AckInv' /\ op' = op
<1>1. Steps = GetAck /\ done \in 0..3 /\ op.v = 0 /\ (scl = IF done = 3 THEN 1 ELSE 0)
  <2>1. Steps = GetAck
    BY DEF Steps
  <2> QED
    BY <2>1 DEF AckInv, Half, Over, GetAck
<1>3. m_nLastSDA = sda /\ sda \in 0..1 /\ slave.drive \in 0..1
  BY SlaveParts DEF LinesOK, SlaveOK
<1>4. retVal' = retVal + Steps[done + 1][3] * (Steps[done + 1][1] * slave'.drive)
  BY Returned
<1>5. CASE done \in 0..1
  <2>1. /\ Receiving(8) /\ slave.heard = <<>> /\ retVal = 0 /\ scl = 0
    BY <1>1, <1>5 DEF AckInv
  <2>2. PICK a \in 0..1 : /\ Steps[done + 1] = <<a, 0, 0>> /\ (done = 1 => a = 1)
    BY <1>1, <1>3, <1>5 DEF GetAck, DC
  <2>3. Moved(a, 0, answer, ack)
    BY <2>1, <2>2, Move
  <2>4. slave' = slave /\ done' = done + 1 /\ sda' = a /\ scl' = 0 /\ op' = op
    BY <2>1, <2>3 DEF Moved
  <2>5. retVal' = 0
    BY <1>3, <1>4, <2>1, <2>2, <2>4
  <2>6. done' \in 1..2 /\ (done' > 1 => sda' = 1)
    BY <1>5, <2>2, <2>4
  <2>7. Receiving(8)' /\ slave'.heard = <<>>
    BY <2>1, <2>4 DEF Receiving
  <2> QED
    BY <1>1, <2>3, <2>4, <2>5, <2>6, <2>7 DEF Moved, AckInv
<1>6. CASE done = 2
  <2>1. /\ slave.on /\ slave.dir = "recv" /\ slave.pos = 8 /\ slave.heard = <<>> /\ retVal = 0
        /\ scl = 0 /\ sda = 1 /\ slave.shift \in Nat
    BY <1>1, <1>6, SlaveParts DEF AckInv, Receiving, SlaveOK
  <2>2. Steps[done + 1] = <<1, 1, 1>>
    BY <1>1, <1>6 DEF GetAck, Get
  <2>3. Moved(1, 1, answer, ack)
    BY <2>1, <2>2, Move
  <2>4. Risen(slave, slave', slave.drive) /\ Noticed(slave, slave', slave.drive)
    BY <2>1, <2>3, Up
  <2>5. /\ slave'.on /\ slave'.dir = "recv" /\ slave'.pos = 9 /\ slave'.drive = slave.drive
        /\ slave'.shift = 2 * slave.shift + slave.drive
    BY <2>1, <2>4 DEF Risen
  <2>6. slave'.heard = <<[f |-> "ack", v |-> slave.drive]>>
    <3>1. slave'.heard = Append(<<>>, [f |-> "ack", v |-> slave.drive])
      BY <2>1, <2>4 DEF Noticed
    <3> QED
      BY <3>1, Single
  <2>7. retVal' = slave.drive
    BY <1>3, <1>4, <2>1, <2>2, <2>5
  <2>8. slave'.shift % 2 = slave.drive
    BY <1>3, <2>1, <2>5
  <2>9. done' = 3 /\ scl' = 1 /\ sda' = 1 /\ op' = op
    BY <1>6, <2>3 DEF Moved
  <2> QED
    BY <1>1, <1>3, <2>3, <2>5, <2>6, <2>7, <2>8, <2>9 DEF Moved, AckInv, Receiving
<1>7. CASE done = 3
  <2>1. /\ slave.on /\ slave.dir = "recv" /\ slave.pos = 9 /\ slave.shift % 2 = retVal
        /\ retVal \in 0..1 /\ slave.heard = <<[f |-> "ack", v |-> retVal]>> /\ scl = 1 /\ sda = 1
    BY <1>1, <1>7 DEF AckInv, Receiving
  <2>2. Steps[done + 1] = <<1, 0, 0>>
    BY <1>1, <1>7 DEF GetAck, DC
  <2>3. Moved(1, 0, answer, ack)
    BY <2>1, <2>2, Move
  <2>4. SlaveOK(slave') /\ LinesOK' /\ op' = op /\ done' = 4 /\ sda' = 1 /\ scl' = 0
    BY <1>7, <2>3 DEF Moved
  <2>5. slave'.drive \in 0..1
    BY <2>4, SlaveParts DEF SlaveOK
  <2>6. retVal' = retVal
    BY <1>4, <2>1, <2>2, <2>5
  <2>7. slave'.heard = slave.heard /\ Answered' /\ (slave'.on <=> retVal = 0)
    <3>1. CASE retVal = 1
      <4>1. FellNack(slave, slave')
        BY <2>1, <2>3, <3>1, Down
      <4> QED
        BY <3>1, <4>1 DEF FellNack, Answered
    <3>2. CASE retVal = 0
      <4>1. FellAck(slave, slave')
        BY <2>1, <2>3, <3>2, Down
      <4> QED
        BY <3>2, <4>1 DEF FellAck, Answered
    <3> QED
      BY <2>1, <3>1, <3>2
  <2> QED
    BY <1>1, <2>1, <2>4, <2>6, <2>7 DEF AckInv
<1> QED
  BY <1>1, <1>5, <1>6, <1>7

LEMMA SetAckStep ==
  ASSUME SlaveOK(slave), LinesOK, OpOK, op.f = "setAck", SetAckInv,
         NEW answer \in I2cBytes, NEW ack \in 0..1, Half(answer, ack)
  PROVE  SlaveOK(slave') /\ LinesOK' /\ SetAckInv' /\ op' = op
<1>1. /\ Steps = SetAck(op.v) /\ done \in 0..4 /\ op.v \in 0..1
      /\ scl = (IF done = 3 THEN 1 ELSE 0)
      /\ sda = (IF done \in 2..4 THEN op.v ELSE 1)
  <2>1. Steps = SetAck(op.v)
    BY DEF Steps
  <2> QED
    BY <2>1 DEF SetAckInv, Half, Over, SetAck
<1>2. m_nLastSDA = sda /\ sda \in 0..1 /\ slave.drive \in 0..1
  BY SlaveParts DEF LinesOK, SlaveOK
<1>3. CASE done \in 0..1
  <2>1. Sending(8) /\ slave.drive = 1 /\ slave.heard = <<>> /\ scl = 0
    BY <1>1, <1>3 DEF SetAckInv
  <2>2. PICK a \in 0..1 : Steps[done + 1] = <<a, 0, 0>> /\ (a = IF done = 1 THEN op.v ELSE 1)
    BY <1>1, <1>2, <1>3 DEF SetAck, DC
  <2>3. Moved(a, 0, answer, ack)
    BY <2>1, <2>2, Move
  <2>4. slave' = slave /\ done' = done + 1 /\ sda' = a /\ scl' = 0 /\ op' = op
    BY <2>1, <2>3 DEF Moved
  <2>5. Sending(8)' /\ slave'.drive = 1 /\ slave'.heard = <<>>
    BY <2>1, <2>4 DEF Sending
  <2>6. done' \in 1..2 /\ (sda' = IF done' \in 2..4 THEN op.v ELSE 1)
    BY <1>3, <2>2, <2>4
  <2> QED
    BY <1>1, <2>3, <2>4, <2>5, <2>6 DEF Moved, SetAckInv
<1>4. CASE done = 2
  <2>1. /\ slave.on /\ slave.dir = "send" /\ slave.pos = 8 /\ slave.heard = <<>> /\ slave.drive = 1
        /\ scl = 0 /\ sda = op.v /\ slave.shift \in Nat
    BY <1>1, <1>4, SlaveParts DEF SetAckInv, Sending, SlaveOK
  <2>2. Steps[done + 1] = <<op.v, 1, 0>>
    BY <1>1, <1>4 DEF SetAck, DC
  <2>3. Moved(op.v, 1, answer, ack)
    BY <1>1, <2>1, <2>2, Move
  <2>4. Risen(slave, slave', op.v) /\ Noticed(slave, slave', op.v)
    BY <1>1, <2>1, <2>3, Up
  <2>5. /\ slave'.on /\ slave'.dir = "send" /\ slave'.pos = 9
        /\ slave'.shift = 2 * slave.shift + op.v
    BY <2>1, <2>4 DEF Risen
  <2>6. slave'.heard = <<[f |-> "ack", v |-> op.v]>>
    <3>1. slave'.heard = Append(<<>>, [f |-> "ack", v |-> op.v])
      BY <2>1, <2>4 DEF Noticed
    <3> QED
      BY <3>1, Single
  <2>7. slave'.shift % 2 = op.v
    BY <1>1, <2>1, <2>5
  <2>8. done' = 3 /\ scl' = 1 /\ sda' = op.v /\ op' = op
    BY <1>4, <2>3 DEF Moved
  <2> QED
    BY <1>1, <2>3, <2>5, <2>6, <2>7, <2>8 DEF Moved, SetAckInv, Sending
<1>5. CASE done = 3
  <2>1. /\ slave.on /\ slave.dir = "send" /\ slave.pos = 9 /\ slave.shift % 2 = op.v
        /\ slave.heard = <<[f |-> "ack", v |-> op.v]>> /\ scl = 1 /\ sda = op.v
        /\ ~slave.first
    BY <1>1, <1>5 DEF SetAckInv, Sending, SlaveOK
  <2>2. Steps[done + 1] = <<op.v, 0, 0>>
    BY <1>1, <1>5 DEF SetAck, DC
  <2>3. Moved(op.v, 0, answer, ack)
    BY <1>1, <2>1, <2>2, Move
  <2>4. SlaveOK(slave') /\ LinesOK' /\ op' = op /\ done' = 4 /\ sda' = op.v /\ scl' = 0
    BY <1>5, <2>3 DEF Moved
  <2>5. slave'.heard = slave.heard /\ Answered' /\ (slave'.on <=> op.v = 0)
          /\ (slave'.on => slave'.dir = "send")
    <3>1. CASE op.v = 1
      <4>1. FellNack(slave, slave')
        BY <2>1, <2>3, <3>1, Down
      <4> QED
        BY <3>1, <4>1 DEF FellNack, Answered
    <3>2. CASE op.v = 0
      <4>1. FellAck(slave, slave')
        BY <2>1, <2>3, <3>2, Down
      <4> QED
        BY <2>1, <3>2, <4>1 DEF FellAck, Answered
    <3> QED
      BY <1>1, <3>1, <3>2
  <2> QED
    BY <1>1, <2>1, <2>4, <2>5 DEF SetAckInv
<1>6. CASE done = 4
  <2>1. /\ scl = 0 /\ slave.heard = <<[f |-> "ack", v |-> op.v]>> /\ Answered
        /\ (slave.on <=> op.v = 0) /\ (slave.on => slave.dir = "send")
    BY <1>1, <1>6 DEF SetAckInv
  <2>2. Steps[done + 1] = <<1, 0, 0>>
    BY <1>1, <1>6 DEF SetAck, DC
  <2>3. Moved(1, 0, answer, ack)
    BY <2>1, <2>2, Move
  <2>4. /\ SlaveOK(slave') /\ LinesOK' /\ op' = op /\ done' = 5 /\ sda' = 1 /\ scl' = 0
        /\ slave' = slave
    BY <1>6, <2>1, <2>3 DEF Moved
  <2> QED
    BY <1>1, <2>1, <2>4 DEF SetAckInv, Answered
<1> QED
  BY <1>1, <1>3, <1>4, <1>5, <1>6

LEMMA Weight ==
  ASSUME NEW j \in 0..7
  PROVE  2^(8 - j) = 2 * 2^(7 - j) /\ 2^(7 - j) \in Nat \ {0}
<1>1. j \in {0, 1, 2, 3, 4, 5, 6, 7}
  OBVIOUS
<1>2. CASE j = 0
  BY <1>2
<1>3. CASE j = 1
  BY <1>3
<1>4. CASE j = 2
  BY <1>4
<1>5. CASE j = 3
  BY <1>5
<1>6. CASE j = 4
  BY <1>6
<1>7. CASE j = 5
  BY <1>7
<1>8. CASE j = 6
  BY <1>8
<1>9. CASE j = 7
  BY <1>9
<1> QED
  BY <1>1, <1>2, <1>3, <1>4, <1>5, <1>6, <1>7, <1>8, <1>9

LEMMA Leading ==
  ASSUME NEW v \in Nat, NEW j \in 0..8
  PROVE  v \div 2^(8 - j) \in Nat /\ (v \div 2^(8 - j)) * 2^(8 - j) \in Nat
<1>1. 2^(8 - j) \in Nat \ {0}
  <2>1. CASE j = 0
    BY <2>1
  <2>2. CASE j # 0
    <3>1. j - 1 \in 0..7 /\ 7 - (j - 1) = 8 - j
      BY <2>2
    <3>2. 2^(7 - (j - 1)) \in Nat \ {0}
      BY <3>1, Weight
    <3> QED
      BY <3>1, <3>2
  <2> QED
    BY <2>1, <2>2
<1>2. ASSUME NEW p \in Nat \ {0} PROVE v \div p \in Nat
  OBVIOUS
<1>3. ASSUME NEW p \in Nat, NEW q \in Nat PROVE q * p \in Nat
  OBVIOUS
<1> QED
  BY <1>1, <1>2, <1>3

(* The place of the bits read so far in what the call returns.             *)
LEMMA NextRead ==
  ASSUME NEW v \in Nat, NEW j \in 0..7
  PROVE  (v \div 2^(8 - j)) * 2^(8 - j) + 2^(7 - j) * Bit(v, 7 - j)
           = (v \div 2^(7 - j)) * 2^(7 - j)
<1>1. v \div 2^(7 - j) = 2 * (v \div 2^(8 - j)) + Bit(v, 7 - j)
  BY NextBit
<1>2. /\ 2^(8 - j) = 2 * 2^(7 - j) /\ 2^(7 - j) \in Nat
      /\ v \div 2^(8 - j) \in Nat /\ Bit(v, 7 - j) \in 0..1
  <2>1. j \in 0..8 /\ 7 - j \in 0..7
    OBVIOUS
  <2> QED
    BY <2>1, BitType, Weight, Leading
<1>3. ASSUME NEW p \in Nat, NEW q \in Nat, NEW b \in 0..1
      PROVE  q * (2 * p) + p * b = (2 * q + b) * p
  <2>1. CASE b = 0
    BY <2>1
  <2>2. CASE b = 1
    BY <2>2
  <2> QED
    BY <2>1, <2>2
<1> QED
  BY <1>1, <1>2, <1>3

LEMMA ReadStep ==
  ASSUME SlaveOK(slave), LinesOK, OpOK, op.f = "read", ReadInv,
         NEW answer \in I2cBytes, NEW ack \in 0..1, Half(answer, ack)
  PROVE  SlaveOK(slave') /\ LinesOK' /\ ReadInv' /\ op' = op
<1>1. Steps = ReadByte /\ done \in 0..17 /\ sda = 1
        /\ scl = IF done > 1 /\ done % 2 = 1 THEN 1 ELSE 0
  <2>1. Steps = ReadByte
    BY DEF Steps
  <2>2. done \in 0..18 /\ sda = 1 /\ scl = IF done > 1 /\ done % 2 = 1 THEN 1 ELSE 0
    BY Zenon DEF ReadInv
  <2>3. done # 18
    BY <2>1, Lens DEF Half, Over
  <2> QED
    BY <2>1, <2>2, <2>3
<1> DEFINE pos == IF done = 0 THEN 0 ELSE (done - 1) \div 2
<1>2. /\ slave.on /\ slave.dir = "send" /\ slave.pos = pos /\ pos \in 0..8
      /\ slave.out \in Nat /\ retVal = (slave.out \div 2^(8 - pos)) * 2^(8 - pos)
  <2>1. Sending(pos) /\ retVal = (slave.out \div 2^(8 - slave.pos)) * 2^(8 - slave.pos)
    BY DEF ReadInv
  <2>2. pos \in 0..8 /\ slave.out \in Nat
    BY <1>1, SlaveParts DEF SlaveOK
  <2> QED
    BY <2>1, <2>2 DEF Sending
<1>3. /\ slave.drive = IF pos - scl < 8 THEN Bit(slave.out, 7 - (pos - scl)) ELSE 1
      /\ slave.heard = IF done < 17 THEN <<>> ELSE <<[f |-> "byte", v |-> slave.out]>>
  BY <1>2, Zenon DEF ReadInv
<1>4. m_nLastSDA = sda /\ slave.drive \in 0..1
  BY SlaveParts DEF LinesOK, SlaveOK
<1>5. retVal' = retVal + Steps[done + 1][3] * (Steps[done + 1][1] * slave'.drive)
  BY Returned
<1>6. Steps[done + 1] = IF done > 0 /\ done % 2 = 0
                        THEN Get(2^(8 - (done + 1) \div 2)) ELSE DC(1, 0)
  <2>1. done + 1 \in 1..18 /\ (done + 1 = 1 <=> done = 0) /\ ((done + 1) % 2 = 1 <=> done % 2 = 0)
    BY <1>1
  <2> QED
    BY <1>1, <1>4, <2>1 DEF ReadByte
<1>7. ASSUME NEW c \in 0..1, Moved(1, c, answer, ack),
             c = IF done + 1 > 1 /\ (done + 1) % 2 = 1 THEN 1 ELSE 0,
             NEW p \in 0..8, p = done \div 2, slave'.on, slave'.dir = "send", slave'.pos = p,
             slave'.out = slave.out,
             slave'.drive = IF p - c < 8 THEN Bit(slave.out, 7 - (p - c)) ELSE 1,
             retVal' = (slave.out \div 2^(8 - p)) * 2^(8 - p),
             slave'.heard = IF done + 1 < 17 THEN <<>> ELSE <<[f |-> "byte", v |-> slave.out]>>
      PROVE  SlaveOK(slave') /\ LinesOK' /\ ReadInv' /\ op' = op
  <2>1. SlaveOK(slave') /\ LinesOK' /\ op' = op /\ done' = done + 1 /\ sda' = 1 /\ scl' = c
    BY <1>7 DEF Moved
  <2>2. done' \in 0..18 /\ p = IF done' = 0 THEN 0 ELSE (done' - 1) \div 2
    <3>1. done' \in 0..18 /\ done' # 0 /\ done' - 1 = done
      BY <1>1, <2>1
    <3> QED
      BY <1>7, <3>1
  <2> QED
    BY <1>7, <2>1, <2>2 DEF ReadInv, Sending
<1> HIDE DEF pos
<1>8. CASE done = 0 \/ done = 1
  <2>1. Steps[done + 1] = <<1, 0, 0>> /\ scl = 0 /\ pos = 0 /\ done < 17
    BY <1>1, <1>6, <1>8 DEF DC, pos
  <2>2. Moved(1, 0, answer, ack)
    BY <1>1, <2>1, Move
  <2>3. slave' = slave
    BY <2>1, <2>2 DEF Moved
  <2>4. retVal' = retVal
    <3>1. retVal \in Nat
      BY <1>2, <2>1
    <3> QED
      BY <1>4, <1>5, <2>1, <2>3, <3>1
  <2>5. 0 = done \div 2 /\ done + 1 < 17 /\ ~(done + 1 > 1 /\ (done + 1) % 2 = 1)
    BY <1>8
  <2>6. slave'.drive = IF 0 - 0 < 8 THEN Bit(slave.out, 7 - (0 - 0)) ELSE 1
    BY <1>3, <2>1, <2>3
  <2> QED
    BY <1>2, <1>3, <1>7, <2>1, <2>2, <2>3, <2>4, <2>5, <2>6
<1>9. CASE done > 0 /\ done % 2 = 0
  <2>1. /\ scl = 0 /\ pos \in 0..7 /\ done \div 2 = pos + 1 /\ 8 - (done + 1) \div 2 = 7 - pos
        /\ done < 17 /\ (done + 1 < 17 <=> pos < 7) /\ done + 1 > 1 /\ (done + 1) % 2 = 1
    BY <1>1, <1>9 DEF pos
  <2>2. Steps[done + 1] = <<1, 1, 2^(7 - pos)>>
    BY <1>6, <1>9, <2>1 DEF Get
  <2>3. Moved(1, 1, answer, ack)
    BY <1>1, <2>2, Move
  <2>4. Risen(slave, slave', slave.drive) /\ Noticed(slave, slave', slave.drive)
    BY <1>2, <2>1, <2>3, Up
  <2>5. /\ slave'.on /\ slave'.dir = "send" /\ slave'.pos = pos + 1 /\ slave'.out = slave.out
        /\ slave'.drive = slave.drive
    BY <1>2, <2>4 DEF Risen
  <2>6. slave.drive = Bit(slave.out, 7 - pos)
    BY <1>3, <2>1
  <2>7. retVal' = (slave.out \div 2^(8 - (pos + 1))) * 2^(8 - (pos + 1))
    <3>1. retVal' = retVal + 2^(7 - pos) * Bit(slave.out, 7 - pos)
      BY <1>4, <1>5, <2>2, <2>5, <2>6
    <3>2. retVal' = (slave.out \div 2^(7 - pos)) * 2^(7 - pos)
      BY <1>2, <2>1, <3>1, NextRead
    <3>3. 8 - (pos + 1) = 7 - pos
      BY <2>1
    <3> QED
      BY <3>2, <3>3
  <2>8. slave'.heard = IF done + 1 < 17 THEN <<>> ELSE <<[f |-> "byte", v |-> slave.out]>>
    <3>1. CASE pos < 7
      BY <1>2, <1>3, <2>1, <2>4, <3>1 DEF Noticed
    <3>2. CASE pos = 7
      <4>1. slave'.heard = Append(<<>>, [f |-> "byte", v |-> slave.out])
        BY <1>2, <1>3, <2>1, <2>4, <3>2 DEF Noticed
      <4> QED
        BY <2>1, <3>2, <4>1, Single
    <3> QED
      BY <2>1, <3>1, <3>2
  <2>9. slave'.drive = IF (pos + 1) - 1 < 8 THEN Bit(slave.out, 7 - ((pos + 1) - 1)) ELSE 1
    <3>1. (pos + 1) - 1 = pos /\ pos < 8
      BY <2>1
    <3> QED
      BY <2>5, <2>6, <3>1
  <2>10. 1 \in 0..1 /\ pos + 1 \in 0..8 /\ pos + 1 = done \div 2
         /\ 1 = IF done + 1 > 1 /\ (done + 1) % 2 = 1 THEN 1 ELSE 0
    BY <2>1
  <2> QED
    BY <1>7, <2>3, <2>5, <2>7, <2>8, <2>9, <2>10
<1>10. CASE done > 1 /\ done % 2 = 1
  <2>1. /\ scl = 1 /\ pos \in 1..8 /\ done \div 2 = pos
        /\ (done + 1 < 17 <=> done < 17) /\ ~(done + 1 > 1 /\ (done + 1) % 2 = 1)
    BY <1>1, <1>10 DEF pos
  <2>2. Steps[done + 1] = <<1, 0, 0>>
    BY <1>6, <1>10, <2>1 DEF DC
  <2>3. Moved(1, 0, answer, ack)
    BY <1>1, <2>2, Move
  <2>4. FellIn(slave, slave')
    <3>1. slave.pos # 9
      BY <1>2
    <3> QED
      BY <2>1, <2>3, <3>1, Down
  <2>5. /\ slave'.on /\ slave'.dir = "send" /\ slave'.pos = pos /\ slave'.out = slave.out
        /\ slave'.drive = IF pos < 8 THEN Bit(slave.out, 7 - pos) ELSE 1
        /\ slave'.heard = slave.heard /\ SlaveOK(slave')
    BY <1>2, <2>4 DEF FellIn
  <2>6. retVal' = retVal
    <3>1. retVal \in Nat /\ slave'.drive \in 0..1
      BY <1>2, <2>5, Leading, SlaveParts DEF SlaveOK
    <3> QED
      BY <1>5, <2>2, <3>1
  <2>7. slave'.drive = IF pos - 0 < 8 THEN Bit(slave.out, 7 - (pos - 0)) ELSE 1
    BY <2>1, <2>5
  <2>8. 0 \in 0..1 /\ pos \in 0..8 /\ pos = done \div 2
        /\ 0 = IF done + 1 > 1 /\ (done + 1) % 2 = 1 THEN 1 ELSE 0
    BY <2>1
  <2>9. slave'.heard = IF done + 1 < 17 THEN <<>> ELSE <<[f |-> "byte", v |-> slave.out]>>
    BY <1>3, <2>1, <2>5
  <2>10. retVal' = (slave.out \div 2^(8 - pos)) * 2^(8 - pos)
    BY <1>2, <2>6
  <2> QED
    BY <1>7, <2>3, <2>5, <2>7, <2>8, <2>9, <2>10
<1>11. done = 0 \/ done = 1 \/ (done > 0 /\ done % 2 = 0) \/ (done > 1 /\ done % 2 = 1)
  BY <1>1
<1> QED
  BY <1>8, <1>9, <1>10, <1>11

(* What the clocks of i2c_master_init do to a slave in a frame.            *)
LEMMA DeafParts ==
  ASSUME NEW s, SlaveOK(s), ~s.on
  PROVE  s.drive = 1 /\ s.pos = 0 /\ s.dir = "recv" /\ Undriven(s, 0) /\ Undriven(s, 1)
<1>1. s = [Deaf EXCEPT !.heard = s.heard]
  BY DEF SlaveOK
<1>2. s.drive = 1 /\ s.pos = 0 /\ s.dir = "recv"
  BY <1>1 DEF Deaf
<1> QED
  BY <1>2 DEF Undriven

LEMMA SweepRise ==
  ASSUME NEW s, SlaveOK(s), NEW r \in Nat, NEW p \in 0..9, NEW k \in 0..4, NEW x,
         Swept(s, r, p, k, x), Undriven(s, 0), NEW t, Risen(s, t, s.drive)
  PROVE  Swept(t, r + 1, p, k, x) /\ Undriven(t, 1)
<1>1. s.pos \in 0..9 /\ s.shift \in Nat /\ s.drive \in 0..1 /\ (s.first => s.dir = "recv")
  BY SlaveParts DEF SlaveOK
<1>2. /\ t.pos = s.pos + 1 /\ t.shift = 2 * s.shift + s.drive /\ t.drive = s.drive
      /\ t.dir = s.dir /\ (t.first <=> s.first)
  BY DEF Risen
<1>3. Undriven(t, 1)
  <2>1. t.pos - 1 = s.pos - 0
    BY <1>1, <1>2
  <2> QED
    BY <1>2, <2>1 DEF Undriven
<1>4. t.dir = "send" /\ t.pos = 9 => t.shift % 2 = 1
  <2>1. SUFFICES ASSUME t.dir = "send", t.pos = 9 PROVE t.shift % 2 = 1
    OBVIOUS
  <2>2. s.pos - 0 = 8
    BY <1>1, <1>2, <2>1
  <2>3. s.drive = 1
    BY <1>2, <2>1, <2>2 DEF Undriven
  <2> QED
    BY <1>1, <1>2, <2>3
<1>5. t.pos + 9 * k = p + (r + 1)
  BY <1>1, <1>2 DEF Swept
<1>6. t.drive = 0 => t.shift % 2 = 0
  BY <1>1, <1>2
<1> QED
  BY <1>2, <1>3, <1>4, <1>5, <1>6 DEF Swept

LEMMA SweepFallIn ==
  ASSUME NEW s, SlaveOK(s), s.pos # 9, NEW r, NEW p, NEW k, NEW x,
         Swept(s, r, p, k, x), NEW t, FellIn(s, t)
  PROVE  Swept(t, r, p, k, x) /\ Undriven(t, 0)
<1>1. s.pos \in 0..9
  BY SlaveParts DEF SlaveOK
<1>2. /\ t.pos = s.pos /\ t.dir = s.dir /\ (t.first <=> s.first) /\ t.shift = s.shift
      /\ (t.dir = "send" => t.drive = IF t.pos < 8 THEN Bit(t.out, 7 - t.pos) ELSE 1)
      /\ (t.dir = "recv" /\ t.pos # 8 => t.drive = 1)
  BY DEF FellIn
<1>3. t.pos - 0 = t.pos /\ (t.pos = 8 => ~(t.pos < 8))
  BY <1>1, <1>2
<1> QED
  BY <1>2, <1>3 DEF Swept, Undriven

LEMMA SweepFallAck ==
  ASSUME NEW s, SlaveOK(s), s.pos = 9, s.shift % 2 = 0, NEW r \in 0..28,
         NEW p \in 0..9, NEW k \in 0..4, NEW x, Swept(s, r, p, k, x), NEW t, FellAck(s, t)
  PROVE  k + 1 \in 0..4 /\ Swept(t, r, p, k + 1, x) /\ Undriven(t, 0)
<1>1. s.dir \in {"recv", "send"} /\ (s.first => s.dir = "recv") /\ 9 + 9 * k = p + r
  BY SlaveParts DEF SlaveOK, Swept
<1>2. /\ t.pos = 0 /\ ~t.first /\ (~s.first => t.dir = s.dir)
      /\ t.drive = (IF t.dir = "send" THEN Bit(t.out, 7) ELSE 1)
      /\ SlaveOK(t)
  BY DEF FellAck
<1>3. k + 1 \in 0..4 /\ t.pos + 9 * (k + 1) = p + r
  BY <1>1, <1>2
<1>4. t.dir = "send" => k = 0
  <2>1. CASE s.first
    BY <2>1 DEF Swept
  <2>2. CASE s.dir = "send"
    <3>1. k <= 1 /\ k # 1
      BY <2>2 DEF Swept
    <3> QED
      BY <3>1
  <2> QED
    BY <1>1, <1>2, <2>1, <2>2
<1>5. t.dir = "recv" => s.dir = "recv"
  BY <1>1, <1>2
<1>6. Swept(t, r, p, k + 1, x)
  <2>1. t.dir = "send" => k + 1 <= 1
    BY <1>4
  <2>2. t.dir = "recv" /\ p = 8 => x
    BY <1>5 DEF Swept
  <2> QED
    BY <1>2, <1>3, <2>1, <2>2 DEF Swept
<1>7. Undriven(t, 0)
  BY <1>2 DEF Undriven
<1> QED
  BY <1>3, <1>6, <1>7

(* 28 clocks, from any bit but the ninth of a byte it receives, leave a    *)
(* slave that does not hold SDA; from the ninth, one that may.             *)
LEMMA SweepEnd ==
  ASSUME NEW s, SlaveOK(s), s.on, NEW p \in 0..9, NEW k \in 0..4, NEW x,
         Swept(s, 28, p, k, x), Undriven(s, 1)
  PROVE  s.drive = 1 \/ (x /\ Holding(s))
<1>1. s.pos \in 0..9 /\ s.dir \in {"recv", "send"} /\ s.pos + 9 * k = p + 28
  BY SlaveParts DEF SlaveOK, Swept
<1>2. s.dir = "recv"
  <2>1. SUFFICES ASSUME s.dir = "send" PROVE FALSE
    BY <1>1
  <2>2. k <= 1
    BY <2>1 DEF Swept
  <2> QED
    BY <1>1, <2>2
<1>3. CASE s.pos - 1 # 8
  BY <1>2, <1>3 DEF Undriven
<1>4. CASE s.pos - 1 = 8
  <2>1. p = 8 /\ k = 3 /\ s.pos = 9
    BY <1>1, <1>4
  <2>2. s.drive \in 0..1
    BY SlaveParts DEF SlaveOK
  <2>3. x /\ ~s.first /\ (s.drive = 0 => s.shift % 2 = 0)
    BY <1>2, <2>1 DEF Swept
  <2> QED
    BY <1>2, <2>1, <2>2, <2>3 DEF Holding
<1> QED
  BY <1>3, <1>4

LEMMA InitStep ==
  ASSUME SlaveOK(slave), LinesOK, OpOK, op.f = "init", InitInv,
         NEW answer \in I2cBytes, NEW ack \in 0..1, Half(answer, ack)
  PROVE  SlaveOK(slave') /\ LinesOK' /\ InitInv' /\ op' = op
<1>1. /\ Steps = Clear /\ done \in 0..61
      /\ sda = (IF done \in {2, 60, 61} THEN 0 ELSE 1)
      /\ scl = (IF done \in 1..59 /\ (done < 5 \/ done % 2 = 0) THEN 0 ELSE 1)
  <2>1. Steps = Clear
    BY DEF Steps
  <2>2. /\ done \in 0..62 /\ sda = (IF done \in {2, 60, 61} THEN 0 ELSE 1)
        /\ scl = (IF done \in 1..59 /\ (done < 5 \/ done % 2 = 0) THEN 0 ELSE 1)
    BY Zenon DEF InitInv
  <2>3. done # 62
    BY <2>1, Lens DEF Half, Over
  <2> QED
    BY <2>1, <2>2, <2>3
<1> DEFINE a == IF done \in {1, 59, 60} THEN 0 ELSE 1
           c == IF done < 59 /\ (done < 4 \/ done % 2 = 1) THEN 0 ELSE 1
<1>2. /\ Steps[done + 1][1] = a /\ Steps[done + 1][2] = c
  <2>1. done + 1 \in 1..62
    BY <1>1
  <2>2. CASE done < 59
    <3>1. Steps[done + 1] = DC(IF done + 1 = 2 THEN 0 ELSE 1,
                              IF done + 1 > 4 /\ (done + 1) % 2 = 1 THEN 1 ELSE 0)
      <4>1. ~(done + 1 > 59)
        BY <1>1, <2>2
      <4> QED
        BY <1>1, <2>1, <4>1 DEF Clear
    <3>2. (done + 1 = 2 <=> done = 1) /\ (done + 1 > 4 /\ (done + 1) % 2 = 1 <=> ~(done < 4 \/ done % 2 = 1))
      BY <1>1
    <3> QED
      BY <1>1, <2>2, <3>1, <3>2 DEF DC
  <2>3. CASE done >= 59
    <3>1. Steps[done + 1] = Stop[done - 58]
      <4>1. done + 1 > 59 /\ done + 1 - 59 = done - 58
        BY <1>1, <2>3
      <4> QED
        BY <1>1, <2>1, <4>1 DEF Clear
    <3>2. m_nLastSCL = 1
      BY <1>1, <2>3 DEF LinesOK
    <3>3. done \in {59, 60, 61}
      BY <1>1, <2>3
    <3> QED
      BY <3>1, <3>2, <3>3 DEF Stop, DC
  <2> QED
    BY <1>1, <2>2, <2>3
<1>3. Moved(a, c, answer, ack)
  <2>1. sda = a \/ scl = c
    BY <1>1
  <2> QED
    BY <1>2, <2>1, Move
<1>4. /\ SlaveOK(slave') /\ LinesOK' /\ done' = done + 1 /\ sda' = a /\ scl' = c /\ op' = op
      /\ caught' = caught
  BY <1>3 DEF Moved
<1>5. /\ done' \in 0..62
      /\ sda' = IF done' \in {2, 60, 61} THEN 0 ELSE 1
      /\ scl' = IF done' \in 1..59 /\ (done' < 5 \/ done' % 2 = 0) THEN 0 ELSE 1
  BY <1>1, <1>4
<1>6. slave.on /\ done <= 59 => \E p \in 0..9, k \in 0..4 : Swept(slave, Rises, p, k, caught)
  BY DEF InitInv
<1>7. done \in 1..59 => Undriven(slave, scl)
  BY DEF InitInv
<1>8. ASSUME done < 59,
             slave'.on => \E p \in 0..9, k \in 0..4 : Swept(slave', Rises', p, k, caught'),
             Undriven(slave', c)
      PROVE  InitInv'
  <2>1. ~(done' \in 60..61) /\ done' # 62
    BY <1>1, <1>4, <1>8
  <2> QED
    BY <1>4, <1>5, <1>8, <2>1 DEF InitInv
<1> HIDE DEF a, c
<1>9. CASE done \in 1..3
  <2>1. scl = 0 /\ c = 0 /\ Rises' = Rises /\ done < 59 /\ done <= 59 /\ done \in 1..59
    BY <1>1, <1>4, <1>9 DEF Rises, c
  <2>2. slave' = slave
    BY <1>3, <2>1 DEF Moved
  <2> QED
    BY <1>4, <1>6, <1>7, <1>8, <2>1, <2>2
<1>10. CASE done = 0 \/ (done \in 5..58 /\ done % 2 = 1)
  <2>1. scl = 1 /\ c = 0 /\ Rises' = Rises /\ Rises \in 0..28 /\ done < 59 /\ done <= 59
    BY <1>1, <1>4, <1>10 DEF Rises, c
  <2>2. CASE ~slave.on
    <3>1. FellIn(slave, slave')
      BY <1>3, <2>1, <2>2, Down
    <3>2. ~slave'.on
      BY <2>2, <3>1 DEF FellIn
    <3> QED
      BY <1>4, <1>8, <2>1, <3>2, DeafParts
  <2>3. CASE slave.on
    <3>1. PICK p \in 0..9, k \in 0..4 : Swept(slave, Rises, p, k, caught)
      BY <1>6, <2>1, <2>3
    <3>2. slave.shift % 2 = 0 \/ slave.shift % 2 = 1
      <4>1. slave.shift \in Nat
        BY SlaveParts DEF SlaveOK
      <4> QED
        BY <4>1
    <3>3. CASE slave.pos # 9
      <4>1. FellIn(slave, slave')
        BY <1>3, <2>1, <3>3, Down
      <4>2. Swept(slave', Rises, p, k, caught) /\ Undriven(slave', 0)
        BY <3>1, <3>3, <4>1, SweepFallIn
      <4> QED
        BY <1>4, <1>8, <2>1, <4>2
    <3>4. CASE slave.pos = 9 /\ slave.shift % 2 = 1
      <4>1. FellNack(slave, slave')
        BY <1>3, <2>1, <2>3, <3>4, Down
      <4>2. ~slave'.on
        BY <4>1 DEF FellNack
      <4> QED
        BY <1>4, <1>8, <2>1, <4>2, DeafParts
    <3>5. CASE slave.pos = 9 /\ slave.shift % 2 = 0
      <4>1. FellAck(slave, slave')
        BY <1>3, <2>1, <2>3, <3>5, Down
      <4>2. k + 1 \in 0..4 /\ Swept(slave', Rises, p, k + 1, caught) /\ Undriven(slave', 0)
        BY <2>1, <3>1, <3>5, <4>1, SweepFallAck
      <4> QED
        BY <1>4, <1>8, <2>1, <4>2
    <3> QED
      BY <3>2, <3>3, <3>4, <3>5
  <2> QED
    BY <2>2, <2>3
<1>11. CASE done \in 4..58 /\ done % 2 = 0
  <2>1. /\ scl = 0 /\ c = 1 /\ a = 1 /\ Rises' = Rises + 1 /\ Rises \in Nat /\ done < 59
        /\ done <= 59 /\ done \in 1..59
    BY <1>1, <1>4, <1>11 DEF Rises, c, a
  <2>2. CASE ~slave.on
    <3>1. slave' = slave
      BY <1>3, <2>1, <2>2, RiseOff DEF Moved
    <3> QED
      BY <1>4, <1>8, <2>1, <2>2, <3>1, DeafParts
  <2>3. CASE slave.on
    <3>1. PICK p \in 0..9, k \in 0..4 : Swept(slave, Rises, p, k, caught)
      BY <1>6, <2>1, <2>3
    <3>2. Risen(slave, slave', slave.drive)
      BY <1>3, <2>1, <2>3, Up
    <3>3. Swept(slave', Rises + 1, p, k, caught) /\ Undriven(slave', 1)
      BY <1>7, <2>1, <3>1, <3>2, SweepRise
    <3> QED
      BY <1>4, <1>8, <2>1, <3>3
  <2> QED
    BY <2>2, <2>3
<1>12. CASE done = 59
  <2>1. scl = 1 /\ sda = 1 /\ a = 0 /\ c = 1 /\ Rises = 28 /\ done <= 59 /\ done \in 1..59
    BY <1>1, <1>12 DEF Rises, a, c
  <2>2. slave.drive = 1 \/ Held
    <3>1. CASE slave.on
      <4>1. PICK p \in 0..9, k \in 0..4 : Swept(slave, Rises, p, k, caught)
        BY <1>6, <2>1, <3>1
      <4> QED
        BY <1>7, <2>1, <3>1, <4>1, SweepEnd DEF Held
    <3>2. CASE ~slave.on
      BY <3>2, DeafParts
    <3> QED
      BY <3>1, <3>2
  <2>3. slave'.drive = 1 \/ Held'
    <3>1. CASE slave.drive = 1
      <4>1. slave' = Edge(slave, FALSE)
        BY <1>3, <2>1, <3>1 DEF Moved
      <4> QED
        BY <4>1, EdgeFacts
    <3>2. CASE Held
      <4>1. slave' = slave
        BY <1>3, <2>1, <3>2 DEF Moved, Held, Holding
      <4> QED
        BY <1>4, <3>2, <4>1 DEF Held
    <3> QED
      BY <2>2, <3>1, <3>2
  <2>4. ~(done' <= 59) /\ ~(done' \in 1..59) /\ done' # 62
    BY <1>4, <1>12
  <2> QED
    BY <1>4, <1>5, <2>3, <2>4 DEF InitInv
<1>13. CASE done = 60
  <2>1. scl = 1 /\ sda = 0 /\ a = 0 /\ c = 1 /\ done \in 60..61
    BY <1>1, <1>13 DEF a, c
  <2>2. slave'.drive = 1 \/ Held'
    <3>1. slave' = slave /\ (slave.drive = 1 \/ Held)
      BY <1>3, <2>1 DEF Moved, InitInv
    <3> QED
      BY <1>4, <3>1 DEF Held
  <2>3. ~(done' <= 59) /\ ~(done' \in 1..59) /\ done' # 62
    BY <1>4, <1>13
  <2> QED
    BY <1>4, <1>5, <2>2, <2>3 DEF InitInv
<1>14. CASE done = 61
  <2>1. scl = 1 /\ sda = 0 /\ a = 1 /\ c = 1 /\ done \in 60..61
    BY <1>1, <1>14 DEF a, c
  <2>2. slave.drive = 1 \/ Held
    BY <2>1 DEF InitInv
  <2>3. ~slave'.on \/ Held'
    <3>1. CASE slave.drive = 1
      <4>1. slave' = Edge(slave, TRUE)
        BY <1>3, <2>1, <3>1 DEF Moved
      <4> QED
        BY <4>1, EdgeFacts
    <3>2. CASE Held
      <4>1. slave' = slave
        BY <1>3, <2>1, <3>2 DEF Moved, Held, Holding
      <4> QED
        BY <1>4, <3>2, <4>1 DEF Held
    <3> QED
      BY <2>2, <3>1, <3>2
  <2>4. ~(done' <= 59) /\ ~(done' \in 1..59) /\ ~(done' \in 60..61)
    BY <1>4, <1>14
  <2> QED
    BY <1>4, <1>5, <2>3, <2>4 DEF InitInv
<1>15. \/ done \in 1..3 \/ done = 0 \/ (done \in 5..58 /\ done % 2 = 1)
       \/ (done \in 4..58 /\ done % 2 = 0) \/ done = 59 \/ done = 60 \/ done = 61
  BY <1>1
<1> QED
  BY <1>4, <1>9, <1>10, <1>11, <1>12, <1>13, <1>14, <1>15

-----------------------------------------------------------------------------
(* A new call begins where the one before it has left the bus.             *)
LEMMA Forget ==
  ASSUME NEW s, SlaveOK(s), NEW t, t = [s EXCEPT !.heard = <<>>]
  PROVE  /\ SlaveOK(t) /\ t.heard = <<>>
         /\ (t.on <=> s.on) /\ (t.first <=> s.first) /\ t.dir = s.dir /\ t.pos = s.pos
         /\ t.shift = s.shift /\ t.out = s.out /\ t.drive = s.drive
<1>1. s \in Slaves
  BY DEF SlaveOK
<1>2. /\ t \in Slaves /\ t.heard = <<>>
      /\ (t.on <=> s.on) /\ (t.first <=> s.first) /\ t.dir = s.dir /\ t.pos = s.pos
      /\ t.shift = s.shift /\ t.out = s.out /\ t.drive = s.drive
  BY <1>1, NoTalk DEF Slaves
<1>3. ~s.on => t = [Deaf EXCEPT !.heard = t.heard]
  <2>1. SUFFICES ASSUME ~s.on PROVE t = [Deaf EXCEPT !.heard = <<>>]
    BY <1>2
  <2>2. s = [Deaf EXCEPT !.heard = s.heard]
    BY <2>1 DEF SlaveOK
  <2>3. DOMAIN Deaf = DOMAIN s /\ t = [[Deaf EXCEPT !.heard = s.heard] EXCEPT !.heard = <<>>]
    BY <2>2
  <2> QED
    BY <2>3
<1> QED
  BY <1>2, <1>3 DEF SlaveOK

(* How each call leaves it.                                                *)
LEMMA Ends ==
  ASSUME I2cIInv, Over
  PROVE  /\ op.f = "init" => sda = 1 /\ scl = 1 /\ (~slave.on \/ Held)
         /\ op.f = "start" =>
              /\ sda = 0 /\ scl = 1 /\ op.v = 0
              /\ \/ slave = [Deaf EXCEPT !.on = TRUE, !.heard = <<op>>]
                 \/ Held /\ slave.heard = <<>>
         /\ op.f = "stop" => sda = 1 /\ scl = 1 /\ slave = [Deaf EXCEPT !.heard = <<op>>]
         /\ op.f = "write" =>
              Receiving(8) /\ scl = 0 /\ slave.heard = <<[f |-> "byte", v |-> op.v]>>
         /\ op.f = "ack" =>
              /\ sda = 1 /\ scl = 0 /\ Answered /\ (slave.on <=> retVal = 0)
              /\ slave.heard = <<[f |-> "ack", v |-> retVal]>>
         /\ op.f = "read" =>
              /\ sda = 1 /\ scl = 0 /\ Sending(8) /\ slave.drive = 1 /\ retVal = slave.out
              /\ slave.heard = <<[f |-> "byte", v |-> slave.out]>>
         /\ op.f = "setAck" =>
              /\ sda = 1 /\ scl = 0 /\ Answered /\ (slave.on <=> op.v = 0)
              /\ (slave.on => slave.dir = "send")
              /\ slave.heard = <<[f |-> "ack", v |-> op.v]>>
<1>1. SlaveOK(slave) /\ CallInv
  BY DEF I2cIInv
<1>2. CASE op.f = "init"
  <2>1. done = 62
    BY <1>2, Lens DEF Over, Steps
  <2>2. InitInv
    BY <1>1, <1>2 DEF CallInv
  <2> QED
    BY <1>2, <2>1, <2>2 DEF InitInv
<1>3. CASE op.f = "start"
  <2>1. done = 3
    BY <1>3 DEF Over, Steps, Start
  <2>2. StartInv
    BY <1>1, <1>3 DEF CallInv
  <2> QED
    BY <1>3, <2>1, <2>2 DEF StartInv, Starting, Unheard
<1>4. CASE op.f = "stop"
  <2>1. done = 3
    BY <1>4 DEF Over, Steps, Stop
  <2>2. StopInv
    BY <1>1, <1>4 DEF CallInv
  <2> QED
    BY <1>4, <2>1, <2>2 DEF StopInv
<1>5. CASE op.f = "write"
  <2>1. done = 25
    BY <1>5, Lens DEF Over, Steps
  <2>2. Writing
    BY <1>1, <1>5, <2>1 DEF CallInv, WriteInv, Resumed
  <2>3. 25 \div 3 = 8 /\ 25 % 3 # 0
    OBVIOUS
  <2>4. Receiving(8) /\ slave.heard = <<[f |-> "byte", v |-> op.v]>>
    BY <2>1, <2>2, <2>3 DEF Writing
  <2>5. scl = 0
    BY <2>1, <2>2, <2>3 DEF Writing
  <2> QED
    BY <1>5, <2>4, <2>5
<1>6. CASE op.f = "ack"
  <2>1. done = 4
    BY <1>6 DEF Over, Steps, GetAck
  <2>2. AckInv
    BY <1>1, <1>6 DEF CallInv
  <2> QED
    BY <1>6, <2>1, <2>2 DEF AckInv
<1>7. CASE op.f = "read"
  <2>1. done = 18
    BY <1>7, Lens DEF Over, Steps
  <2>2. ReadInv
    BY <1>1, <1>7 DEF CallInv
  <2>3. (18 - 1) \div 2 = 8 /\ 18 % 2 = 0
    OBVIOUS
  <2>4. Sending(8) /\ sda = 1 /\ scl = 0 /\ slave.heard = <<[f |-> "byte", v |-> slave.out]>>
    BY <2>1, <2>2, <2>3 DEF ReadInv
  <2>5. slave.pos = 8
    BY <2>4 DEF Sending
  <2>6. slave.drive = 1
    <3>1. slave.drive = IF slave.pos - scl < 8 THEN Bit(slave.out, 7 - (slave.pos - scl)) ELSE 1
      BY <2>2 DEF ReadInv
    <3> QED
      BY <2>4, <2>5, <3>1
  <2>7. retVal = slave.out
    <3>1. retVal = (slave.out \div 2^(8 - slave.pos)) * 2^(8 - slave.pos) /\ slave.out \in Nat
      BY <1>1, <2>2, SlaveParts DEF ReadInv, SlaveOK
    <3> QED
      BY <2>5, <3>1
  <2> QED
    BY <1>7, <2>4, <2>6, <2>7
<1>8. CASE op.f = "setAck"
  <2>1. done = 5
    BY <1>8 DEF Over, Steps, SetAck
  <2>2. SetAckInv
    BY <1>1, <1>8 DEF CallInv
  <2> QED
    BY <1>8, <2>1, <2>2 DEF SetAckInv
<1> QED
  BY <1>2, <1>3, <1>4, <1>5, <1>6, <1>7, <1>8

LEMMA CallStep ==
  ASSUME I2cIInv, Calls
  PROVE  I2cIInv'
<1>1. /\ Over /\ SlaveOK(slave) /\ LinesOK
      /\ done' = 0 /\ retVal' = 0 /\ slave' = [slave EXCEPT !.heard = <<>>]
      /\ sda' = sda /\ scl' = scl /\ m_nLastSDA' = m_nLastSDA /\ m_nLastSCL' = m_nLastSCL
  BY DEF Calls, Call, I2cIInv
<1>2. /\ SlaveOK(slave') /\ slave'.heard = <<>>
      /\ (slave'.on <=> slave.on) /\ (slave'.first <=> slave.first) /\ slave'.dir = slave.dir
      /\ slave'.pos = slave.pos /\ slave'.shift = slave.shift /\ slave'.out = slave.out
      /\ slave'.drive = slave.drive
  BY <1>1, Forget
<1>3. op.f = "init" => done # 0
  <2>1. SUFFICES ASSUME op.f = "init" PROVE done # 0
    OBVIOUS
  <2>2. done = 62
    BY <1>1, <2>1, Lens DEF Over, Steps
  <2> QED
    BY <2>2
<1>4. LinesOK'
  BY <1>1, <1>2, <1>3 DEF LinesOK
<1>5. ~slave.on => slave.pos = 0 /\ slave.drive = 1
  BY <1>1, DeafParts
<1>h. /\ Held => op.f \in {"init", "start"}
      /\ Held => sda = (IF op.f = "start" THEN 0 ELSE 1) /\ scl = 1
  BY <1>1, Ends DEF I2cIInv, OpOK, Held
<1>c. \A f, v : Call(f, v) => caught' = (caught /\ f = "start")
  BY DEF Call
<1>6. Free /\ ~Held =>
        /\ sda = 1 /\ slave.dir = "recv" /\ slave.pos = 0 /\ slave.drive = 1
        /\ (slave.on => scl = 0) /\ (op.f \in {"ack", "setAck"} => scl = 0)
  <2>1. SUFFICES ASSUME Free, ~Held
                 PROVE  /\ sda = 1 /\ slave.dir = "recv" /\ slave.pos = 0 /\ slave.drive = 1
                        /\ (slave.on => scl = 0) /\ (op.f \in {"ack", "setAck"} => scl = 0)
    OBVIOUS
  <2>2. slave.dir = "recv" /\ op.f \in {"init", "stop", "ack", "setAck"}
    BY <2>1 DEF Free
  <2>3. CASE op.f = "init"
    BY <1>1, <1>5, <2>1, <2>2, <2>3, Ends
  <2>4. CASE op.f = "stop"
    <3>1. sda = 1 /\ scl = 1 /\ slave = [Deaf EXCEPT !.heard = <<op>>]
      BY <1>1, <2>4, Ends
    <3>2. ~slave.on
      BY <3>1 DEF Deaf
    <3> QED
      BY <1>5, <2>2, <2>4, <3>1, <3>2
  <2>5. CASE op.f = "ack"
    <3>1. sda = 1 /\ scl = 0 /\ Answered
      BY <1>1, <2>5, Ends
    <3>2. slave.pos = 0 /\ slave.drive = 1
      BY <1>5, <2>2, <3>1 DEF Answered
    <3> QED
      BY <2>2, <3>1, <3>2
  <2>6. CASE op.f = "setAck"
    <3>1. sda = 1 /\ scl = 0 /\ (slave.on => slave.dir = "send")
      BY <1>1, <2>6, Ends
    <3> QED
      BY <1>5, <2>2, <3>1
  <2> QED
    BY <2>2, <2>3, <2>4, <2>5, <2>6
<1>7. ASSUME Free, Call("start", 0) PROVE I2cIInv'
  <2>1. op' = [f |-> "start", v |-> 0]
    BY <1>7 DEF Call
  <2>2. CASE ~Held
    <3>1. Starting'
      BY <1>1, <1>2, <1>6, <1>7, <2>1, <2>2 DEF Starting, Open
    <3> QED
      BY <1>2, <1>4, <2>1, <3>1 DEF I2cIInv, CallInv, OpOK, StartInv
  <2>3. CASE Held
    <3>1. sda = 1 /\ scl = 1
      BY <1>7, <1>h, <2>3 DEF Free
    <3>2. caught'
      BY <1>7, <1>c, <2>3, Zenon DEF Held
    <3>3. Holding(slave')
      BY <1>2, <2>3 DEF Held, Holding
    <3>4. /\ done' \in 0..3 /\ op'.v = 0 /\ slave'.heard = <<>>
          /\ sda' = (IF done' = 3 THEN 0 ELSE 1) /\ scl' = 1
      BY <1>1, <1>2, <2>1, <3>1
    <3>5. Unheard'
      BY <3>2, <3>3, <3>4 DEF Unheard, Held
    <3> QED
      BY <1>2, <1>4, <2>1, <3>5 DEF I2cIInv, CallInv, OpOK, StartInv
  <2> QED
    BY <2>2, <2>3
<1>8. ASSUME Free, op.f \in {"ack", "setAck"}, Call("stop", 0) PROVE I2cIInv'
  <2>1. op' = [f |-> "stop", v |-> 0]
    BY <1>8 DEF Call
  <2>2. StopInv'
    BY <1>1, <1>2, <1>6, <1>8, <1>h, <2>1 DEF StopInv, Open
  <2> QED
    BY <1>2, <1>4, <1>8, <1>c, <2>1, <2>2 DEF I2cIInv, CallInv, OpOK
<1>9. ASSUME NEW w \in I2cBytes, MayWrite, Call("write", w) PROVE I2cIInv'
  <2>1. op' = [f |-> "write", v |-> w] /\ w \in 0..255 /\ ~caught'
    BY <1>9, <1>c, Bytes DEF Call
  <2>r. CASE op.f = "start" /\ Held
    <3>1. Resumed'
      BY <1>1, <1>2, <1>h, <2>1, <2>r DEF Resumed, Held, Holding
    <3> QED
      BY <1>2, <1>4, <2>1, <3>1 DEF I2cIInv, CallInv, OpOK, WriteInv
  <2>n. CASE ~(op.f = "start" /\ Held)
    <3>1. slave.on /\ slave.dir = "recv" /\ slave.pos = 0 /\ slave.shift = 0 /\ slave.drive = 1
      <4>1. CASE op.f = "start"
        <5>1. slave = [Deaf EXCEPT !.on = TRUE, !.heard = <<op>>]
          BY <1>1, <2>n, <4>1, Ends
        <5> QED
          BY <5>1 DEF Deaf
      <4>2. CASE op.f = "ack" /\ retVal = 0 /\ slave.dir = "recv"
        <5>1. Answered /\ slave.on
          BY <1>1, <4>2, Ends
        <5> QED
          BY <4>2, <5>1 DEF Answered
      <4> QED
        BY <1>9, <4>1, <4>2 DEF MayWrite
    <3>2. 0 \div 3 = 0 /\ w \div 2^(8 - 0) = 0
      BY <2>1
    <3>3. Receiving(done \div 3)' /\ slave'.drive = 1
      BY <1>1, <1>2, <3>1, <3>2 DEF Receiving
    <3>4. slave'.shift = op'.v \div 2^(8 - slave'.pos)
      BY <1>2, <2>1, <3>1, <3>2
    <3>5. done' \in 0..25 /\ ~(done' > 0) /\ ~(done' > 1) /\ done' < 24 /\ op'.v \in I2cBytes
      BY <1>1, <2>1
    <3>6. Writing'
      BY <1>2, <3>3, <3>4, <3>5 DEF Writing
    <3> QED
      BY <1>2, <1>4, <2>1, <3>6 DEF I2cIInv, CallInv, OpOK, WriteInv
  <2> QED
    BY <2>r, <2>n
<1>10. ASSUME op.f = "write", Call("ack", 0) PROVE I2cIInv'
  <2>1. op' = [f |-> "ack", v |-> 0]
    BY <1>10 DEF Call
  <2>2. Receiving(8) /\ scl = 0
    BY <1>1, <1>10, Ends
  <2>3. AckInv'
    BY <1>1, <1>2, <2>1, <2>2 DEF AckInv, Receiving
  <2> QED
    BY <1>2, <1>4, <1>10, <1>c, <2>1, <2>3 DEF I2cIInv, CallInv, OpOK
<1>11. ASSUME MayRead, Call("read", 0) PROVE I2cIInv'
  <2>1. op' = [f |-> "read", v |-> 0]
    BY <1>11 DEF Call
  <2>2. slave.dir = "send" /\ slave.on /\ Answered /\ sda = 1 /\ scl = 0
    <3>1. CASE op.f = "ack" /\ retVal = 0
      BY <1>1, <1>11, <3>1, Ends DEF MayRead
    <3>2. CASE op.f = "setAck" /\ op.v = 0
      BY <1>1, <1>11, <3>2, Ends DEF MayRead
    <3> QED
      BY <1>11, <3>1, <3>2 DEF MayRead
  <2>3. slave.pos = 0 /\ slave.drive = Bit(slave.out, 7) /\ slave.out \in 0..255
    BY <1>1, <2>2, SlaveParts DEF Answered, SlaveOK
  <2>4. 0 = (slave.out \div 2^(8 - 0)) * 2^(8 - 0) /\ 7 - (0 - 0) = 7 /\ 0 - 0 < 8
    BY <2>3
  <2>5. Sending(0)' /\ slave'.pos = 0 /\ slave'.out = slave.out
    BY <1>2, <2>2, <2>3 DEF Sending
  <2>6. slave'.drive = IF slave'.pos - scl' < 8 THEN Bit(slave'.out, 7 - (slave'.pos - scl')) ELSE 1
    BY <1>1, <1>2, <2>2, <2>3, <2>4, <2>5
  <2>7. retVal' = (slave'.out \div 2^(8 - slave'.pos)) * 2^(8 - slave'.pos)
    BY <1>1, <2>4, <2>5
  <2>8. ReadInv'
    BY <1>1, <1>2, <2>2, <2>5, <2>6, <2>7 DEF ReadInv
  <2> QED
    BY <1>2, <1>4, <1>11, <1>c, <2>1, <2>8 DEF I2cIInv, CallInv, OpOK
<1>12. ASSUME NEW level \in 0..1, op.f = "read", Call("setAck", level) PROVE I2cIInv'
  <2>1. op' = [f |-> "setAck", v |-> level]
    BY <1>12 DEF Call
  <2>2. Sending(8) /\ sda = 1 /\ scl = 0 /\ slave.drive = 1
    BY <1>1, <1>12, Ends
  <2>3. SetAckInv'
    BY <1>1, <1>2, <2>1, <2>2 DEF SetAckInv, Sending
  <2> QED
    BY <1>2, <1>4, <1>12, <1>c, <2>1, <2>3 DEF I2cIInv, CallInv, OpOK
<1> QED
  BY <1>7, <1>8, <1>9, <1>10, <1>11, <1>12 DEF Calls

(* A restart lets go of both lines, in either order.                       *)
LEMMA LetGo ==
  ASSUME NEW s, SlaveOK(s), NEW a \in 0..1, NEW c \in 0..1, c = 0 => s.pos <= 8, NEW d \in 0..1
  PROVE  SlaveOK(Lines(s, a, c, 1, d, 0, 1)) \/ (c = 1 /\ d = 0)
<1>1. s.drive \in 0..1
  BY SlaveParts DEF SlaveOK
<1>2. CASE c < d
  <2>1. Lines(s, a, c, 1, d, 0, 1) = Rise(s, 1 * s.drive) /\ c = 0 /\ 1 * s.drive \in 0..1
    BY <1>1, <1>2 DEF Lines
  <2> QED
    BY <2>1, RisePos
<1>3. CASE c = d
  <2>1. \/ Lines(s, a, c, 1, d, 0, 1) = Edge(s, 1 = 1)
        \/ Lines(s, a, c, 1, d, 0, 1) = s
    BY <1>3 DEF Lines
  <2>2. Edge(s, 1 = 1) = Edge(s, TRUE)
    BY DEF Edge
  <2> QED
    BY <2>1, <2>2, EdgeFacts
<1> QED
  BY <1>2, <1>3

LEMMA RestartStep ==
  ASSUME I2cIInv, Restart
  PROVE  I2cIInv'
<1>1. SlaveOK(slave) /\ LinesOK
  BY DEF I2cIInv
<1>2. /\ sda' = 1 /\ scl' = 1 /\ done' = 0 /\ op' = [f |-> "init", v |-> 0]
      /\ slave'.dir = "recv" /\ slave'.pos = 8 => caught'
  BY DEF Restart
<1>3. SlaveOK(slave')
  <2>1. PICK s \in {Lines(Lines(slave, sda, scl, 1, scl, 0, 1), 1, scl, 1, 1, 0, 1),
                    Lines(Lines(slave, sda, scl, sda, 1, 0, 1), sda, 1, 1, 1, 0, 1)} :
           slave' = [s EXCEPT !.heard = <<>>]
    BY DEF Restart
  <2>2. SlaveOK(s)
    <3>1. sda \in 0..1 /\ scl \in 0..1 /\ (scl = 0 => slave.pos <= 8)
      BY <1>1 DEF LinesOK
    <3>2. CASE s = Lines(Lines(slave, sda, scl, 1, scl, 0, 1), 1, scl, 1, 1, 0, 1)
      <4> DEFINE u == Lines(slave, sda, scl, 1, scl, 0, 1)
      <4>1. SlaveOK(u)
        BY <1>1, <3>1, LetGo
      <4>2. scl = 0 => u.pos <= 8
        BY <3>1 DEF Lines
      <4> HIDE DEF u
      <4> QED
        BY <3>1, <3>2, <4>1, <4>2, LetGo DEF u
    <3>3. CASE s = Lines(Lines(slave, sda, scl, sda, 1, 0, 1), sda, 1, 1, 1, 0, 1)
      <4> DEFINE u == Lines(slave, sda, scl, sda, 1, 0, 1)
      <4>1. SlaveOK(u)
        <5>1. sda * slave.drive \in 0..1 /\ slave.drive \in 0..1
          BY <1>1, <3>1, SlaveParts DEF SlaveOK
        <5>2. CASE scl = 0
          <6>1. u = Rise(slave, sda * slave.drive)
            BY <5>2 DEF Lines
          <6> QED
            BY <1>1, <3>1, <5>1, <5>2, <6>1, RisePos
        <5>3. CASE scl = 1
          <6>1. u = slave
            BY <5>3 DEF Lines
          <6> QED
            BY <1>1, <6>1
        <5> QED
          BY <3>1, <5>2, <5>3
      <4> HIDE DEF u
      <4> QED
        BY <3>1, <3>3, <4>1, LetGo DEF u
    <3> QED
      BY <2>1, <3>2, <3>3
  <2> QED
    BY <2>1, <2>2, Forget
<1>4. slave'.pos \in 0..9 /\ (slave'.first => slave'.dir = "recv")
  BY <1>3, SlaveParts DEF SlaveOK
<1>5. Rises' = 0 /\ Swept(slave', Rises', slave'.pos, 0, caught')
  <2>1. Rises' = 0
    BY <1>2 DEF Rises
  <2> QED
    BY <1>2, <1>4, <2>1 DEF Swept
<1>6. InitInv'
  BY <1>2, <1>4, <1>5 DEF InitInv
<1> QED
  BY <1>2, <1>3, <1>6 DEF I2cIInv, CallInv, OpOK, LinesOK

LEMMA HalfStep ==
  ASSUME I2cIInv, NEW answer \in I2cBytes, NEW ack \in 0..1, Half(answer, ack)
  PROVE  I2cIInv'
<1>1. SlaveOK(slave) /\ LinesOK /\ OpOK /\ CallInv /\ caught' = caught
  BY DEF I2cIInv, Half
<1>2. CASE op.f = "init"
  BY <1>1, <1>2, InitStep DEF I2cIInv, CallInv, OpOK
<1>3. CASE op.f = "start"
  BY <1>1, <1>3, StartStep, UnheardStep DEF I2cIInv, CallInv, OpOK, StartInv
<1>4. CASE op.f = "stop"
  BY <1>1, <1>4, StopStep DEF I2cIInv, CallInv, OpOK
<1>5. CASE op.f = "write"
  BY <1>1, <1>5, WriteStep, ResumedStep
     DEF I2cIInv, CallInv, OpOK, WriteInv
<1>6. CASE op.f = "ack"
  BY <1>1, <1>6, AckStep DEF I2cIInv, CallInv, OpOK
<1>7. CASE op.f = "read"
  BY <1>1, <1>7, ReadStep DEF I2cIInv, CallInv, OpOK
<1>8. CASE op.f = "setAck"
  BY <1>1, <1>8, SetAckStep DEF I2cIInv, CallInv, OpOK
<1>9. op.f \in {"init", "start", "stop", "write", "ack", "read", "setAck"}
  BY <1>1 DEF OpOK
<1> QED
  BY <1>9, <1>2, <1>3, <1>4, <1>5, <1>6, <1>7, <1>8

THEOREM BusInvariant == I2cSpec => []I2cIInv
<1>1. I2cInit => I2cIInv
  <2>1. SUFFICES ASSUME I2cInit PROVE I2cIInv
    OBVIOUS
  <2>2. /\ op = [f |-> "init", v |-> 0] /\ done = 0 /\ sda = 1 /\ scl = 1 /\ slave = Deaf
    BY <2>1 DEF I2cInit
  <2>3. SlaveOK(slave) /\ ~slave.on
    BY <2>2, DeafOK DEF Deaf
  <2>4. InitInv
    BY <2>2, <2>3 DEF InitInv
  <2> QED
    BY <2>2, <2>3, <2>4 DEF I2cIInv, LinesOK, OpOK, CallInv
<1>2. I2cIInv /\ [I2cNext]_i2cVars => I2cIInv'
  <2>1. SUFFICES ASSUME I2cIInv, [I2cNext]_i2cVars PROVE I2cIInv'
    OBVIOUS
  <2>2. CASE UNCHANGED i2cVars
    BY <2>1, <2>2 DEF i2cVars, I2cIInv, LinesOK, OpOK, CallInv, InitInv, StartInv, Starting,
         Unheard, Held, StopInv, WriteInv, Writing, Resumed, AckInv, ReadInv, SetAckInv, Open,
         Receiving, Sending, Answered, Rises
  <2>3. ASSUME NEW answer \in I2cBytes, NEW ack \in 0..1, Half(answer, ack) PROVE I2cIInv'
    BY <2>1, <2>3, HalfStep
  <2> QED
    BY <2>1, <2>2, <2>3, CallStep, RestartStep DEF I2cNext
<1> QED
  BY <1>1, <1>2, PTL DEF I2cSpec

(* The slave notices what each function of i2c_master.c stands for and     *)
(* nothing else, gets and gives the bytes and the acknowledgements that    *)
(* were asked for, and is let go of by i2c_master_init wherever a restart  *)
(* has caught it: but for the bit before its acknowledgement, from where   *)
(* it may hold SDA beyond the STOP and the START that follow, and no       *)
(* longer.                                                                 *)
THEOREM BusObeyed == I2cSpec => []BusAsAsked
<1>1. I2cIInv => BusAsAsked
  <2>1. SUFFICES ASSUME I2cIInv, Over PROVE BusAsAsked
    BY DEF BusAsAsked
  <2>2. op = [f |-> op.f, v |-> op.v]
    BY <2>1 DEF I2cIInv, OpOK
  <2>3. CASE op.f = "init"
    <3>1. (~slave.on /\ slave.drive = 1) \/ StillHolds
      BY <2>1, <2>3, Ends, DeafParts DEF I2cIInv, Held, Holding, StillHolds
    <3> QED
      BY <2>3, <3>1 DEF BusAsAsked
  <2>4. CASE op.f = "start"
    BY <2>1, <2>4, Ends DEF BusAsAsked, Deaf, Held, Holding, StillHolds
  <2>5. CASE op.f = "stop"
    BY <2>1, <2>5, Ends DEF BusAsAsked, Deaf
  <2>6. CASE op.f = "write"
    BY <2>1, <2>6, Ends DEF BusAsAsked
  <2>7. CASE op.f = "ack"
    BY <2>1, <2>7, Ends DEF BusAsAsked
  <2>8. CASE op.f = "read"
    BY <2>1, <2>8, Ends DEF BusAsAsked
  <2>9. CASE op.f = "setAck"
    BY <2>1, <2>9, Ends DEF BusAsAsked
  <2>10. op.f \in {"init", "start", "stop", "write", "ack", "read", "setAck"}
    BY <2>1 DEF I2cIInv, OpOK
  <2> QED
    BY <2>3, <2>4, <2>5, <2>6, <2>7, <2>8, <2>9, <2>10
<1> QED
  BY <1>1, BusInvariant, PTL
=============================================================================
