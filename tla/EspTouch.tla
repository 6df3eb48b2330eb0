------------------------------ MODULE EspTouch ------------------------------
(***************************************************************************)
(* ESP-TOUCH of src/mesh_demo/demo/esp_touch.c: esptouch_init, called by   *)
(* router_init on every CMD_MESH_INIT, starts the SDK's smartconfig and a  *)
(* timer; smartconfig reports its progress to esptouch_proc_cb, which arms *)
(* the timer anew, until either it is over or the timer calls              *)
(* esptouch_fail_cb.  All of these are callbacks of one SDK task and run   *)
(* to completion.  esptouch_proc and the timer's function are set by       *)
(* esptouch_init before anything reads them, always to the same values,    *)
(* and are left out.  Operators named Mut... are plausible mistakes in the *)
(* operator that follows them.                                             *)
(***************************************************************************)
EXTENDS Integers

CONSTANT MaxRestarts   \* bound: times smartconfig starts looking again

ASSUME EspTouchAssumption == MaxRestarts \in Nat

VARIABLES
  esptouch_running,
  tout,      \* esptouch_tout_t: off, or the interval it is armed with
  opmode,    \* wifi_set_opmode
  router,    \* espconn_mesh_set_router: none, configured or the phone's
  station,   \* the station: off, connecting (to the phone's router), up
  smart,     \* the SDK's smartconfig
  restarts

touchVars == <<esptouch_running, tout, opmode, router, station, smart, restarts>>

TouchInit ==
  /\ esptouch_running = FALSE /\ tout = "off" /\ opmode = "STATION"
  /\ router = "none" /\ station = "off" /\ smart = "off" /\ restarts = 0

TouchTypeOK ==
  /\ esptouch_running \in BOOLEAN
  /\ tout \in {"off", "ENTER", "TOTAL", "CONNECT"}
  /\ opmode \in {"STATION", "STATIONAP"}
  /\ router \in {"none", "configured", "phone"}
  /\ station \in {"off", "connecting", "up"}
  /\ smart \in {"off", "find", "getting", "link"}
  /\ restarts \in 0..MaxRestarts

(* smartconfig_start fails, or is refused while smartconfig runs; its      *)
(* result is not looked at.                                                *)
SmartconfigStart ==
  smart' \in IF smart = "off" THEN {"off", "find"} ELSE {smart}

(* esptouch_init; router_init has set the router before.                   *)
MutEsptouchInit ==
  /\ esptouch_running' = TRUE
  /\ station' = "off"
  /\ opmode' = "STATION"
  /\ SmartconfigStart
  /\ UNCHANGED <<tout, restarts>>
EsptouchInit ==
  /\ esptouch_running' = TRUE
  /\ station' = "off"
  /\ opmode' = "STATION"
  /\ tout' = "ENTER"
  /\ SmartconfigStart
  /\ UNCHANGED restarts

(* esptouch_proc_cb.  SC_STATUS_WAIT and SC_STATUS_FIND_CHANNEL only       *)
(* print; smartconfig goes back to the latter when nobody answers.         *)
Getting ==
  /\ smart = "find"
  /\ smart' = "getting" /\ tout' = "TOTAL"
  /\ UNCHANGED <<esptouch_running, opmode, router, station, restarts>>

LookAgain ==
  /\ smart = "getting" /\ restarts < MaxRestarts
  /\ smart' = "find" /\ restarts' = restarts + 1
  /\ UNCHANGED <<esptouch_running, tout, opmode, router, station>>

MutLink ==
  /\ smart = "getting"
  /\ smart' = "link" /\ station' = "connecting" /\ router' = "phone"
  /\ tout' = "off"
  /\ UNCHANGED <<esptouch_running, opmode, restarts>>
Link ==
  /\ smart = "getting"
  /\ smart' = "link" /\ station' = "connecting" /\ router' = "phone"
  /\ tout' = "CONNECT"
  /\ UNCHANGED <<esptouch_running, opmode, restarts>>

Associate ==
  /\ station = "connecting"
  /\ station' = "up"
  /\ UNCHANGED <<esptouch_running, tout, opmode, router, smart, restarts>>

(* SC_STATUS_LINK_OVER, with esptouch_success_cb.                          *)
MutLinkOver ==
  /\ smart = "link" /\ station = "up"
  /\ smart' = "off" /\ opmode' = "STATIONAP"
  /\ esptouch_running' = FALSE
  /\ UNCHANGED <<tout, router, station, restarts>>
LinkOver ==
  /\ smart = "link" /\ station = "up"
  /\ tout' = "off" /\ smart' = "off" /\ opmode' = "STATIONAP"
  /\ esptouch_running' = FALSE
  /\ UNCHANGED <<router, station, restarts>>

(* The timer: esptouch_fail_cb.                                            *)
Timeout ==
  /\ tout # "off"
  /\ tout' = "off" /\ station' = "off" /\ smart' = "off"
  /\ esptouch_running' = FALSE
  /\ UNCHANGED <<opmode, router, restarts>>

TouchStep == Getting \/ LookAgain \/ Link \/ Associate \/ LinkOver \/ Timeout

(* While smartconfig listens the station is in station mode and a time-out *)
(* is pending, and the time-out is pending only while esptouch_is_running  *)
(* says so (esp_touch.c:31-51, 85-99, 103, 138): a phone that vanishes     *)
(* half-way cannot leave smartconfig on for ever, and no time-out outlives *)
(* the attempt it was for.                                                 *)
SmartconfigGuarded ==
  /\ esptouch_running <=> tout # "off"
  /\ smart # "off" => esptouch_running /\ opmode = "STATION"
=============================================================================
