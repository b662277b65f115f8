----------------------------- MODULE MCAddrCache ------------------------------
(***************************************************************************)
(* AddrCache for TLC: three hosts whose searches begin in two of three     *)
(* slots, so that they collide, run into the end of the table and, in the  *)
(* region, have entries of different sizes.                                *)
(***************************************************************************)
EXTENDS AddrCache, TLC

CONSTANTS p1, p2, a, b, c

MCHash == (a :> 1) @@ (b :> 3) @@ (c :> 0)
MCSize == (a :> 2) @@ (b :> 3) @@ (c :> 2)
===============================================================================
