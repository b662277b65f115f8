---------------------------- MODULE MCFtpControl -----------------------------
(***************************************************************************)
(* FtpControl for TLC: both sessions, replies of one or two lines.         *)
(***************************************************************************)
EXTENDS FtpControl
===============================================================================
