------------------------------- MODULE MCUart -------------------------------
(* Uart with short FIFOs and ring buffers, in both builds.                 *)
EXTENDS Uart
=============================================================================
