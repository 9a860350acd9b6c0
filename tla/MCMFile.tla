------------------------------ MODULE MCMFile -------------------------------
(* MFile on a file of two and a half views of two bytes, like the chip     *)
(* image of 2.5 views of 4 MiB, that is rounded up to three views.         *)
EXTENDS MFile
=============================================================================
