------------------------------- MODULE MCECC --------------------------------
(* ECC on a page of four bytes of eight bits, each of them one of three    *)
(* bytes: the code is linear, so that which bits changed decides what it   *)
(* finds, and the contents do not.                                         *)
EXTENDS ECC

EvenAndOdd == [Bytes -> {{}, Bits, {0, 3, 5}}]
=============================================================================
