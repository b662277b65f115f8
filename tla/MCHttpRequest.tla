---------------------------- MODULE MCHttpRequest ----------------------------
(***************************************************************************)
(* HttpRequest for TLC: three chunks, every kind of server, and as many    *)
(* faults as a download can meet in four runs.                             *)
(***************************************************************************)
EXTENDS HttpRequest
===============================================================================
