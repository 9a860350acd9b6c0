-------------------------------- MODULE MCGC --------------------------------
(* GC on a chip of two blocks of three pages.  With FilePage = 4 pages 2 and 4
   are one physical page, and pages 3 and 5 another, which is out of reach of an
   erase of the first block; clean_cfg has one bit of the two of a mask.  The
   liveness properties take blocks of two pages. *)
EXTENDS GC, TLC

CONSTANTS a, b, c

Payloads == Permutations(Payload)

\* The stack holds a tag with all flags set, or one with the others clear.
SomeGarbage ==
  {[ErasedTag EXCEPT !.bi = Set],
   [ErasedTag EXCEPT !.bi = Set, !.used = Set, !.dirty = Set, !.erase = 1]}

\* All contents for all sectors, all for two of them, or for each of them contents
\* of its own.
AllWrites == Sectors \X Payload
TwoSectors == {0, 1} \X Payload
OwnContents == {<<0, a>>, <<1, b>>, <<2, c>>}
=============================================================================
