---------------------------- MODULE MCSdioSlave ----------------------------
(* SdioSlave with small buffers.                                           *)
EXTENDS SdioSlaveInv
=============================================================================
