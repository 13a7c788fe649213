-------------------------------- MODULE Width --------------------------------
(***************************************************************************)
(* The numbers that a struct bn of bn.h can hold: those below Top, which   *)
(* is 2^1024 in the code.                                                  *)
(***************************************************************************)
EXTENDS Integers

CONSTANT Top    \* 2 to the number of bits of a struct bn

ASSUME TopAssumption == Top \in Nat \ {0} /\ Top % 2 = 0

==============================================================================
