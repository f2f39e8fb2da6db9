----------------------------- MODULE FileBytes -----------------------------
(***************************************************************************)
(* What the operating system's files do with a write, as lib/io/file.c and *)
(* lib/io/fstream.c use them: a file is a sequence of bytes, and a write   *)
(* beyond its end fills the gap with zeros.                                *)
(***************************************************************************)
EXTENDS Naturals, Sequences

CONSTANT Zero   \* the byte that fills a gap

Larger(a, b) == IF a >= b THEN a ELSE b

\* The bytes of "file" once "bytes" are written from position "pos", counted
\* from 0.
Overwrite(file, pos, bytes) ==
  IF bytes = <<>> THEN file
  ELSE [i \in 1 .. Larger(Len(file), pos + Len(bytes)) |->
          IF i > pos /\ i <= pos + Len(bytes) THEN bytes[i - pos]
          ELSE IF i <= Len(file) THEN file[i]
          ELSE Zero]
=============================================================================
