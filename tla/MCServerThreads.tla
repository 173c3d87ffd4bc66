-------------------------- MODULE MCServerThreads --------------------------
(***************************************************************************)
(* All methods an editor uses, with a viewer that sends up to MaxEvents    *)
(* messages in any order, greeting or not.                                 *)
(***************************************************************************)
EXTENDS ServerThreads

MCKnown == {"initialize", "shutdown", "exit", "openWaveform", "addToWaveform", "unknown"}
=============================================================================
