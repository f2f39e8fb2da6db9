-------------------------- MODULE MCArenaAllocator --------------------------
(***************************************************************************)
(* ArenaAllocator for TLC.  One unit is 4 bytes: a header is 4 units, the  *)
(* chunk data starts at unit 6 of a chunk, as on a 64-bit target;          *)
(* alignments are 4 and 8 bytes, and a chunk has room for two or three     *)
(* small blocks.  ArenaAlignment.cfg asks for 16 bytes, the alignment of   *)
(* max_align_t there.                                                      *)
(***************************************************************************)
EXTENDS ArenaAllocator
=============================================================================
