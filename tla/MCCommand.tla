----------------------------- MODULE MCCommand -----------------------------
(* Values for the constants of Command.                                    *)
EXTENDS Command

AllCommands == Commands
=============================================================================
