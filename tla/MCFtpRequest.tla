---------------------------- MODULE MCFtpRequest -----------------------------
(***************************************************************************)
(* FtpRequest for TLC.                                                     *)
(***************************************************************************)
EXTENDS FtpRequest
===============================================================================
