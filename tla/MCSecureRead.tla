---------------------------- MODULE MCSecureRead -----------------------------
(***************************************************************************)
(* SecureRead for TLC: records of half, one and several pages, long enough *)
(* for the queue to be filled, enlarged and used again.                    *)
(***************************************************************************)
EXTENDS SecureRead
===============================================================================
