-------------------------------- MODULE Key --------------------------------
(***************************************************************************)
(* Push buttons, src/mesh_demo/driver/key.c: a handler for the edges of    *)
(* the pins, which arms one edge at a time, a 50 ms timer that debounces a *)
(* release and a 5 s timer for a long press.  The handler interrupts the   *)
(* callbacks of the timers; callbacks do not interrupt each other.         *)
(***************************************************************************)
EXTENDS Integers

CONSTANT KeyNum  \* key_num

ASSUME KeyAssumption == KeyNum \in Nat

Keys == 0..KeyNum - 1

VARIABLES
  pin, intr,           \* level of each pin; the edge armed: "neg", "pos", "off"
  key_level,
  gpio_status,         \* keys with a latched edge
  key_5s, key_50ms,    \* keys whose timer is armed
  handler,             \* at: where it is; i: its key; status: its gpio_status
  callback,            \* at: "idle", "5s" or "50ms"; key; up: the pin as read
  \* history
  owed, longs,         \* pushes not yet reported as short; long ones reported
  missed               \* keys that moved while no edge was armed for them,
                       \* and have not been debounced since

keyVars == <<pin, intr, key_level, gpio_status, key_5s, key_50ms, handler,
             callback, owed, longs, missed>>

NoHandler == [at |-> "idle", i |-> 0, status |-> {}]
NoCallback == [at |-> "idle", key |-> 0, up |-> FALSE]

(* key_init, with all keys up.                                             *)
KeyInit ==
  /\ pin = [k \in Keys |-> 1] /\ intr = [k \in Keys |-> "neg"]
  /\ key_level = [k \in Keys |-> 1]
  /\ gpio_status = {} /\ key_5s = {} /\ key_50ms = {}
  /\ handler = NoHandler /\ callback = NoCallback
  /\ owed = [k \in Keys |-> 0] /\ longs = [k \in Keys |-> 0]
  /\ missed = {}

(* The driver has nothing to do for k but to wait for an edge.             *)
Resting(k) ==
  /\ k \notin gpio_status \cup handler.status \cup key_50ms
  /\ ~(callback.at = "50ms" /\ callback.key = k)

(* A pin moves at any time; the edge is latched if it is the one armed.    *)
(* One that comes while the edge before it is being handled is lost, and   *)
(* so may be what the driver knows of the pin; until it is debounced.      *)
PinEdge(k) ==
  /\ pin' = [pin EXCEPT ![k] = 1 - @]
  /\ gpio_status' = gpio_status \cup
       {j \in {k} : intr[k] = (IF pin[k] = 1 THEN "neg" ELSE "pos")}
  /\ IF pin[k] = 1 /\ Resting(k)
     THEN owed' = [owed EXCEPT ![k] = 1] /\ longs' = [longs EXCEPT ![k] = 0]
     ELSE UNCHANGED <<owed, longs>>
  /\ missed' = missed \cup {j \in {k} : ~(Resting(k) \/ k \in key_50ms)}
  /\ UNCHANGED <<intr, key_level, key_5s, key_50ms, handler, callback>>

-----------------------------------------------------------------------------
(* key_intr_handler reads the status once ...                              *)
HandlerEnter ==
  /\ handler.at = "idle" /\ gpio_status # {}
  /\ handler' = [at |-> "mask", i |-> 0, status |-> gpio_status]
  /\ UNCHANGED <<pin, intr, key_level, gpio_status, key_5s, key_50ms, callback,
                 owed, longs, missed>>

MutMask ==
  /\ handler.at = "mask" /\ handler.i < KeyNum
  /\ IF handler.i \in handler.status
     THEN /\ intr' = [intr EXCEPT ![handler.i] = "off"]
          /\ gpio_status' = {}
          /\ handler' = [handler EXCEPT !.at = "serve"]
     ELSE /\ handler' = [handler EXCEPT !.i = @ + 1]
          /\ UNCHANGED <<intr, gpio_status>>
  /\ UNCHANGED <<pin, key_level, key_5s, key_50ms, callback, owed, longs, missed>>

(* ... and for each key with an edge disarms it, clears its status bit ... *)
Mask ==
  /\ handler.at = "mask" /\ handler.i < KeyNum
  /\ IF handler.i \in handler.status
     THEN /\ intr' = [intr EXCEPT ![handler.i] = "off"]
          /\ gpio_status' = gpio_status \ {handler.i}
          /\ handler' = [handler EXCEPT !.at = "serve"]
     ELSE /\ handler' = [handler EXCEPT !.i = @ + 1]
          /\ UNCHANGED <<intr, gpio_status>>
  /\ UNCHANGED <<pin, key_level, key_5s, key_50ms, callback, owed, longs, missed>>

(* ... and starts a timer: a push is believed at once, a release is not.   *)
Serve ==
  /\ handler.at = "serve"
  /\ LET k == handler.i
     IN /\ IF key_level[k] = 1
           THEN /\ key_5s' = key_5s \cup {k}
                /\ key_level' = [key_level EXCEPT ![k] = 0]
                /\ intr' = [intr EXCEPT ![k] = "pos"]
                /\ UNCHANGED key_50ms
           ELSE /\ key_50ms' = key_50ms \cup {k}
                /\ UNCHANGED <<key_5s, key_level, intr>>
        /\ handler' = [at |-> "mask", i |-> k + 1, status |-> handler.status \ {k}]
  /\ UNCHANGED <<pin, gpio_status, callback, owed, longs, missed>>

HandlerLeave ==
  /\ handler.at = "mask" /\ handler.i = KeyNum
  /\ handler' = NoHandler
  /\ UNCHANGED <<pin, intr, key_level, gpio_status, key_5s, key_50ms, callback,
                 owed, longs, missed>>

-----------------------------------------------------------------------------
(* key_5s_cb and key_50ms_cb run while no handler does, step by step: each *)
(* disarms its timer and reads the pin ...                                 *)
Expire(timer, at, k) ==
  /\ handler.at = "idle" /\ callback.at = "idle" /\ k \in timer
  /\ callback' = [at |-> at, key |-> k, up |-> pin[k] = 1]
  /\ UNCHANGED <<pin, intr, key_level, gpio_status, handler, owed, longs>>

Expire5s(k) ==
  /\ Expire(key_5s, "5s", k)
  /\ key_5s' = key_5s \ {k} /\ UNCHANGED <<key_50ms, missed>>
Expire50ms(k) ==
  /\ Expire(key_50ms, "50ms", k)
  /\ key_50ms' = key_50ms \ {k} /\ missed' = missed \ {k} /\ UNCHANGED key_5s

(* ... and then reports a long press, ...                                  *)
LongPress ==
  /\ handler.at = "idle" /\ callback.at = "5s"
  /\ longs' = IF callback.up THEN longs ELSE [longs EXCEPT ![callback.key] = @ + 1]
  /\ callback' = NoCallback
  /\ UNCHANGED <<pin, intr, key_level, gpio_status, key_5s, key_50ms, handler, owed,
                 missed>>

(* ... or a release, a short press: always, also after a long one.         *)
Release ==
  /\ handler.at = "idle" /\ callback.at = "50ms"
  /\ LET k == callback.key
     IN IF callback.up
        THEN /\ key_5s' = key_5s \ {k}
             /\ key_level' = [key_level EXCEPT ![k] = 1]
             /\ intr' = [intr EXCEPT ![k] = "neg"]
             /\ owed' = [owed EXCEPT ![k] = @ - 1]
        ELSE /\ intr' = [intr EXCEPT ![k] = "pos"]
             /\ UNCHANGED <<key_5s, key_level, owed>>
  /\ callback' = NoCallback
  /\ UNCHANGED <<pin, gpio_status, key_50ms, handler, longs, missed>>

KeyNext ==
  \/ HandlerEnter \/ Mask \/ Serve \/ HandlerLeave \/ LongPress \/ Release
  \/ \E k \in Keys : PinEdge(k) \/ Expire5s(k) \/ Expire50ms(k)

KeySpec == KeyInit /\ [][KeyNext]_keyVars

-----------------------------------------------------------------------------
(* A key at rest is known to be where its pin is and waits for the edge    *)
(* that comes next, however it has bounced: unless it has moved while its  *)
(* interrupt was off, and then it is so again when it has been debounced   *)
(* once.  And whatever has been missed, every push seen is answered once:  *)
(* a long press at most once and while it lasts, the short press when it   *)
(* ends (89-161).                                                          *)
KeysFollowed ==
  \A k \in Keys :
    /\ Resting(k) /\ k \notin missed =>
         /\ key_level[k] = pin[k] /\ owed[k] = 1 - pin[k]
         /\ intr[k] = (IF pin[k] = 1 THEN "neg" ELSE "pos")
    /\ k \in key_5s => owed[k] = 1 /\ longs[k] = 0
    /\ owed[k] \in 0..1 /\ longs[k] \in 0..1
=============================================================================
