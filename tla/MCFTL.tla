------------------------------- MODULE MCFTL --------------------------------
(* FTL on a chip of four blocks of two pages, of which a uint16_t names two. *)
EXTENDS FTL, TLC

Payloads == Permutations(Payload)

\* Whatever the stack holds in the flags and the ECC, and an erase count of 0 or
\* that of an erased tag.
SomeGarbage == {t \in Tag : t.bi = Set /\ t.erase \in {0, MAX32}}

\* All contents for all sectors.
AllWrites == Sectors \X Payload
=============================================================================
