------------------------------- MODULE MC_Pool -------------------------------
(***************************************************************************)
(* Instances of a single pool and its past for TLC: small widths and a fee *)
(* of one tenth so that rounding, the minimum and the limits all happen,   *)
(* and every pair of a moment and a later one.                             *)
(***************************************************************************)
EXTENDS Quotes, PoolHistory
=============================================================================
