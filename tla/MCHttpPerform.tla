---------------------------- MODULE MCHttpPerform ----------------------------
(***************************************************************************)
(* HttpPerform for TLC: two chunks of two bytes, so that a chunk can be    *)
(* begun, resumed in its middle and overrun, and has a neighbour above.    *)
(***************************************************************************)
EXTENDS HttpPerform
===============================================================================
