---------------------------- MODULE MCSelectLoop ----------------------------
(***************************************************************************)
(* SelectLoop for TLC.  TIME_OUT is one second: what matters is whether a   *)
(* connection has been silent for longer.                                  *)
(***************************************************************************)
EXTENDS SelectLoop
=============================================================================
