------------------------------ MODULE KernelsMC -----------------------------
(* Kernels, for TLC.                                                       *)
EXTENDS Kernels

(* Tiles of sixteen rows alone; a rest of rows in pairs of columns; and one*)
(* with the last tile of eight by eight.                                   *)
MCShapes == {<<16, 16>>, <<24, 16>>, <<24, 24>>}
=============================================================================
