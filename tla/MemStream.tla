----------------------------- MODULE MemStream -----------------------------
(***************************************************************************)
(* lib/io/memstream.c: a stream whose bytes are in memory.  They are kept  *)
(* in a vector, of which it uses creation, cu_Vector_resize,               *)
(* cu_Vector_subslice and destruction (lib/collection/vector.c): a resize  *)
(* that needs room asks for exactly as much and may be refused, and a      *)
(* vector of capacity 0 has no memory to take a slice of.                  *)
(***************************************************************************)
EXTENDS FileBytes

CONSTANTS
  Byte,        \* the bytes clients write
  None,        \* no byte was read yet
  Garbage,     \* what a cell of fresh memory holds
  Capacities,  \* the capacities clients ask for
  MaxSlice,    \* bound: the longest slice a call reads or writes
  MaxPos,      \* bound: the furthest position of the stream
  OOM          \* whether the allocator may refuse

ConstantsOK ==
  /\ {None, Garbage} \cap (Byte \cup {Zero}) = {}
  /\ Capacities \subseteq Nat /\ MaxSlice \in Nat /\ MaxPos \in Nat /\ OOM \in BOOLEAN

VARIABLES
  isOpen,   \* the client has a stream it did not close
  cells,    \* the memory of ms->buffer, buffer.capacity cells of it
  length,   \* ms->buffer.length
  pos,      \* ms->pos
  out,      \* the last byte a read delivered
  fault     \* the program ended: a slice was taken of a vector without memory

vars == <<isOpen, cells, length, pos, out, fault>>

CellCount == Len(cells)

\* The first n cells of a vector.
Resized(n) == [i \in 1 .. n |-> IF i <= CellCount THEN cells[i] ELSE Garbage]

Init ==
  isOpen = FALSE /\ cells = <<>> /\ length = 0 /\ pos = 0 /\ out = None /\ fault = FALSE

\* cu_MemStream_create; without memory there is no stream.
Create(c) ==
  /\ ~isOpen /\ ~fault
  /\ isOpen' = TRUE /\ cells' = [i \in 1 .. c |-> Garbage] /\ length' = 0
  /\ pos' = 0 /\ out' = None
  /\ UNCHANGED fault

\* The length a write of n bytes needs.
Stretched(n) == IF pos + n > length THEN pos + n ELSE length

\* cu_MemStream_write of the bytes s.
Write(s) ==
  LET needed == Stretched(Len(s)) IN
  /\ isOpen /\ pos + Len(s) <= MaxPos
  /\ needed > 0 \/ CellCount > 0
  /\ length' = needed
  /\ cells' = Overwrite(IF needed > CellCount THEN Resized(needed) ELSE cells, pos, s)
  /\ pos' = pos + Len(s)
  /\ UNCHANGED <<isOpen, out, fault>>

\* CU_IO_ERROR_KIND_OUT_OF_MEMORY: nothing was written.
WriteFails(s) ==
  /\ isOpen /\ OOM /\ pos + Len(s) <= MaxPos
  /\ Stretched(Len(s)) > CellCount
  /\ UNCHANGED vars

\* A write of no bytes to a stream without memory: the empty optional that
\* cu_Vector_subslice returns is unwrapped.
WriteNothing ==
  /\ isOpen /\ Stretched(0) = 0 /\ CellCount = 0
  /\ isOpen' = FALSE /\ fault' = TRUE
  /\ UNCHANGED <<cells, length, pos, out>>

\* How many of n bytes there are from the position on.
Available(n) ==
  LET avail == IF length > pos THEN length - pos ELSE 0
  IN  IF avail < n THEN avail ELSE n

\* Mutant of Read: a read that finds too few bytes leaves the position.
Read_StaysAtEnd(n) ==
  /\ isOpen
  /\ pos' = IF Available(n) < n THEN pos ELSE pos + n
  /\ out' = IF Available(n) = 0 THEN out ELSE cells[pos + Available(n)]
  /\ UNCHANGED <<isOpen, cells, length, fault>>

\* cu_MemStream_read of n bytes; what there is is delivered also when it is less,
\* with the error CU_IO_ERROR_KIND_UNEXPECTED_EOF.
Read(n) ==
  /\ isOpen
  /\ pos' = pos + Available(n)
  /\ out' = IF Available(n) = 0 THEN out ELSE cells[pos + Available(n)]
  /\ UNCHANGED <<isOpen, cells, length, fault>>

\* cu_MemStream_seek_impl.
SeekTarget(whence, n) ==
  CASE whence = "start"   -> n
    [] whence = "current" -> pos + n
    [] whence = "end"     -> length + n

\* Mutant of Seek: the target is not compared with the length.
Seek_Anywhere(whence, n) ==
  /\ isOpen /\ SeekTarget(whence, n) <= MaxPos
  /\ pos' = SeekTarget(whence, n)
  /\ UNCHANGED <<isOpen, cells, length, out, fault>>

Seek(whence, n) ==
  /\ isOpen /\ SeekTarget(whence, n) <= length
  /\ pos' = SeekTarget(whence, n)
  /\ UNCHANGED <<isOpen, cells, length, out, fault>>

\* CU_IO_ERROR_KIND_INVALID_INPUT: a position behind the last byte.
SeekFails(whence, n) == isOpen /\ SeekTarget(whence, n) > length /\ UNCHANGED vars

\* cu_MemStream_close, which destroys the vector.  The closed stream is not used
\* again.
Close ==
  /\ isOpen
  /\ isOpen' = FALSE /\ cells' = <<>> /\ length' = 0 /\ pos' = 0
  /\ UNCHANGED <<out, fault>>

Next ==
  \/ \E c \in Capacities : Create(c)
  \/ \E n \in 0 .. MaxSlice : \E s \in [1 .. n -> Byte] : Write(s) \/ WriteFails(s)
  \/ WriteNothing
  \/ \E n \in 0 .. MaxSlice : Read(n)
  \/ \E whence \in {"start", "current", "end"}, n \in 0 .. MaxPos :
       Seek(whence, n) \/ SeekFails(whence, n)
  \/ Close

Spec == Init /\ [][Next]_vars

-----------------------------------------------------------------------------
(* Properties                                                              *)

\* Each byte up to the length was written by a client, and the position is at most
\* behind the last one: no gap of memory nobody wrote is left in the contents, by
\* seeks, growth or refused growth.
NoGaps ==
  /\ length <= CellCount /\ pos <= length
  /\ \A i \in 1 .. length : cells[i] \in Byte

\* The stream in memory is a stream of bytes, like the one over a file: a byte comes
\* back as it was written, across growth, refusals, short reads and seeks.
Stream == INSTANCE ByteStream WITH
  content <- SubSeq(cells, 1, length), appends <- FALSE, failed <- FALSE

ImplementsByteStream == Stream!CallsSpec
=============================================================================
