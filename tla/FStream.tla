------------------------------ MODULE FStream ------------------------------
(***************************************************************************)
(* lib/io/fstream.c: a stream that gathers the bytes a client writes in a  *)
(* ring buffer until it is full, or reads ahead a whole buffer.  The ring  *)
(* buffer is the queue that RingBufferProofs shows it to be.               *)
(*                                                                         *)
(* A read or write call moves one byte at a time and flushes or fills the  *)
(* buffer on the way: it is modelled by its iterations, and a failing one  *)
(* ends it.  The file is external: its descriptor has an offset of its     *)
(* own, ahead of the stream's position while reading and behind it while   *)
(* writing; that of a file opened to append goes to the end with every     *)
(* write.                                                                  *)
(***************************************************************************)
EXTENDS FileBytes, Integers, FiniteSets

CONSTANTS
  Byte,         \* the bytes clients write
  None,         \* no byte was read yet
  Garbage,      \* a byte of a fresh allocation that nothing was read into
  BufferSizes,  \* the buffer sizes clients ask for
  MaxSlice,     \* bound: the longest slice a call reads or writes
  MaxPos,       \* bound: the furthest position of the stream
  Faults        \* the faults considered, of "oom", "write", "read", "seek", "short"

ASSUME SizesAssumption == BufferSizes \subseteq Nat
ASSUME BoundsAssumption == MaxSlice \in Nat /\ MaxPos \in Nat
ASSUME BytesAssumption == Garbage \notin Byte \cup {Zero} /\ None \notin Byte \cup {Zero}

VARIABLES
  mode,       \* "closed", or fs->reading as "reading" or "writing"
  appending,  \* the file was opened with O_APPEND
  file,       \* the bytes of the file
  offset,     \* the file descriptor's offset
  capacity,   \* fs->buffer.capacity
  buffer,     \* what fs->buffer holds
  todo,       \* what the cu_FStream_write in progress has not moved yet
  wanted,     \* how many bytes the cu_FStream_read in progress still wants
  out,        \* the last byte a read delivered
  failed,     \* an operation since the last open returned an error, or the flush
              \* of the close did, which nobody sees
  fault       \* the program ended: a push divided by a capacity of 0

\* What stays from an open to the close.
opened == <<mode, appending, capacity>>

vars == <<opened, file, offset, buffer, todo, wanted, out, failed, fault>>

FileByte == Byte \cup {Zero}

Idle == todo = <<>> /\ wanted = 0

\* Where the system puts the bytes of the next write.
WriteOffset == IF appending THEN Len(file) ELSE offset

\* The position of the stream as the client counts it.
Pos ==
  CASE mode = "writing" -> IF buffer = <<>> THEN offset ELSE WriteOffset + Len(buffer)
    [] mode = "reading" -> offset - Cardinality({i \in DOMAIN buffer : buffer[i] # Garbage})
    [] OTHER -> 0

-----------------------------------------------------------------------------
(* cu_FStream_flush_buffer.  A result is what the flush leaves behind.     *)

Flush_Result(f, o, b, e) == [file |-> f, offset |-> o, buffer |-> b, error |-> e]

\* cu_File_write does not look at how much was written: a short write succeeds.
Flushed(bytes) ==
  Flush_Result(Overwrite(file, WriteOffset, bytes), WriteOffset + Len(bytes), <<>>, FALSE)

WriteResults ==
  {Flushed(buffer)}
  \cup {Flush_Result(file, offset, <<>>, TRUE) : x \in Faults \cap {"write"}}
  \cup {Flushed(SubSeq(buffer, 1, k)) :
          k \in IF "short" \in Faults THEN 1 .. Len(buffer) - 1 ELSE {}}

\* Mutant of FlushResults: a flush that fails says it succeeded.
FlushResults_Silent ==
  IF buffer = <<>> THEN {Flush_Result(file, offset, buffer, FALSE)}
  ELSE {[r EXCEPT !.error = FALSE] : r \in WriteResults}

\* The bytes are taken out of the buffer before they are written; without memory
\* to hold them they stay.
FlushResults ==
  IF buffer = <<>> THEN {Flush_Result(file, offset, buffer, FALSE)}
  ELSE WriteResults
       \cup {Flush_Result(file, offset, buffer, TRUE) : x \in Faults \cap {"oom"}}

\* cu_FStream_flush_impl: a stream that reads has nothing to flush.
FlushImpl ==
  IF mode = "writing" THEN FlushResults
  ELSE {Flush_Result(file, offset, buffer, FALSE)}

-----------------------------------------------------------------------------
(* Open and close                                                          *)

Init ==
  /\ mode = "closed"
  /\ file \in UNION {[1 .. n -> Byte] : n \in 0 .. MaxPos}
  /\ appending = FALSE /\ offset = 0 /\ capacity = 0 /\ buffer = <<>>
  /\ todo = <<>> /\ wanted = 0
  /\ out = None /\ failed = FALSE /\ fault = FALSE

Truncated(truncate) == IF truncate THEN <<>> ELSE file

\* cu_FStream_open and cu_FStream_openat, with a buffer of c bytes, which may be
\* none.  What O_TRUNC does to a file that is only read, POSIX leaves open.
Open(m, truncate, append, c) ==
  /\ mode = "closed"
  /\ mode' = m /\ appending' = append /\ capacity' = c
  /\ file' \in IF m = "reading" THEN {file, Truncated(truncate)} ELSE {Truncated(truncate)}
  /\ offset' = 0 /\ buffer' = <<>> /\ out' = None /\ failed' = FALSE
  /\ UNCHANGED <<todo, wanted, fault>>

\* Without memory for the buffer the file is closed again, truncated already.
OpenFails(truncate) ==
  /\ mode = "closed" /\ "oom" \in Faults
  /\ file' = Truncated(truncate)
  /\ UNCHANGED <<opened, offset, buffer, todo, wanted, out, failed, fault>>

\* cu_FStream_close: the error of the flush is dropped.
Close ==
  /\ mode # "closed" /\ Idle
  /\ \E r \in FlushImpl :
       /\ file' = r.file
       /\ failed' = (failed \/ r.error)
  /\ mode' = "closed" /\ appending' = FALSE /\ capacity' = 0
  /\ buffer' = <<>> /\ offset' = 0
  /\ UNCHANGED <<todo, wanted, out, fault>>

-----------------------------------------------------------------------------
(* Writing                                                                 *)

\* A client calls cu_FStream_write; on a stream that reads it is refused.
Write(s) ==
  /\ mode = "writing" /\ Idle
  /\ WriteOffset + Len(buffer) + Len(s) <= MaxPos
  /\ todo' = s
  /\ UNCHANGED <<opened, file, offset, buffer, wanted, out, failed, fault>>

WriteByte ==
  /\ todo # <<>> /\ Len(buffer) < capacity
  /\ buffer' = Append(buffer, Head(todo))
  /\ todo' = Tail(todo)
  /\ UNCHANGED <<opened, file, offset, wanted, out, failed, fault>>

\* A buffer without room is not full for cu_RingBuffer_is_full: cu_RingBuffer_push
\* takes the index of the next byte modulo 0.
PushFaults ==
  /\ todo # <<>> /\ capacity = 0
  /\ fault' = TRUE
  /\ UNCHANGED <<opened, file, offset, buffer, todo, wanted, out, failed>>

\* The buffer is full: it is flushed, or the call ends here with the error.
FlushFull ==
  /\ todo # <<>> /\ capacity > 0 /\ Len(buffer) = capacity
  /\ \E r \in FlushResults :
       /\ file' = r.file /\ offset' = r.offset /\ buffer' = r.buffer
       /\ failed' = (failed \/ r.error)
       /\ todo' = IF r.error THEN <<>> ELSE todo
  /\ UNCHANGED <<opened, wanted, out, fault>>

\* cu_FStream_flush.
Flush ==
  /\ mode = "writing" /\ Idle
  /\ \E r \in FlushImpl :
       /\ file' = r.file /\ offset' = r.offset /\ buffer' = r.buffer
       /\ failed' = (failed \/ r.error)
  /\ UNCHANGED <<opened, todo, wanted, out, fault>>

-----------------------------------------------------------------------------
(* Reading                                                                 *)

\* A client calls cu_FStream_read; on a stream that writes it is refused.
Read(n) ==
  /\ mode = "reading" /\ Idle
  /\ wanted' = n
  /\ UNCHANGED <<opened, file, offset, buffer, todo, out, failed, fault>>

\* What cu_File_read leaves in a fresh allocation as big as the buffer.
ReadAhead ==
  [i \in 1 .. capacity |->
     IF offset + i <= Len(file) THEN file[offset + i] ELSE Garbage]

\* Mutant of FillBuffer: the descriptor is read without moving on at the end.
FillBuffer_NoAdvance ==
  /\ wanted > 0 /\ capacity > 0 /\ buffer = <<>>
  /\ buffer' = ReadAhead
  /\ offset' = offset
  /\ UNCHANGED <<opened, file, todo, wanted, out, failed, fault>>

\* Mutant of FillBuffer: only what was read goes into the buffer.
FillBuffer_OnlyRead ==
  /\ wanted > 0 /\ capacity > 0 /\ buffer = <<>>
  /\ buffer' = SelectSeq(ReadAhead, LAMBDA b : b # Garbage)
  /\ offset' = offset + Len(buffer')
  /\ UNCHANGED <<opened, file, todo, wanted, out, failed, fault>>

\* cu_FStream_fill_buffer: how much was read is not looked at, the whole
\* allocation goes into the buffer.
FillBuffer ==
  /\ wanted > 0 /\ capacity > 0 /\ buffer = <<>>
  /\ buffer' = ReadAhead
  /\ offset' = offset + Cardinality({i \in 1 .. capacity : offset + i <= Len(file)})
  /\ UNCHANGED <<opened, file, todo, wanted, out, failed, fault>>

\* The call ends with the error of the fill.
FillError ==
  /\ wanted > 0 /\ buffer = <<>>
  /\ wanted' = 0 /\ failed' = TRUE
  /\ UNCHANGED <<opened, file, offset, buffer, todo, out, fault>>

\* No memory for the allocation, or the read fails.
FillFails == capacity > 0 /\ Faults \cap {"oom", "read"} # {} /\ FillError

\* A buffer without room asks for a layout of 0 bytes, which no allocator grants.
FillRefused == capacity = 0 /\ FillError

ReadByte ==
  /\ wanted > 0 /\ buffer # <<>>
  /\ out' = Head(buffer) /\ buffer' = Tail(buffer)
  /\ wanted' = wanted - 1
  /\ UNCHANGED <<opened, file, offset, todo, failed, fault>>

-----------------------------------------------------------------------------
(* Seek and tell                                                           *)

\* Where cu_File_seek goes, from the descriptor's offset o in the file f; n is the
\* offset clients give as a size_t, turned into a long.
SeekTarget(whence, n, o, f) ==
  CASE whence = "start"   -> n
    [] whence = "current" -> o + n
    [] whence = "end"     -> Len(f) + n

\* Mutant of Seek: the buffer is dropped instead of flushed.
Seek_NoFlush(whence, n) ==
  /\ mode # "closed" /\ Idle
  /\ offset' = SeekTarget(whence, n, offset, file)
  /\ offset' \in 0 .. MaxPos
  /\ buffer' = <<>>
  /\ UNCHANGED <<opened, file, todo, wanted, out, failed, fault>>

\* What a seek leaves after a flush with result r: unless the flush failed the
\* buffer is dropped, and the descriptor moves, or it stays because the target lies
\* before the file or the file cannot be moved in.
SeekResults(whence, n, r) ==
  LET target == SeekTarget(whence, n, r.offset, r.file) IN
  IF r.error THEN {r}
  ELSE {Flush_Result(r.file, o, <<>>, FALSE) : o \in {target} \cap (0 .. MaxPos)}
       \cup {Flush_Result(r.file, r.offset, <<>>, TRUE) :
               x \in IF target < 0 THEN {"seek"} ELSE Faults \cap {"seek"}}

\* cu_FStream_seek: flush, drop what is left in the buffer, move the descriptor.
Seek(whence, n) ==
  /\ mode # "closed" /\ Idle
  /\ \E r \in FlushImpl : \E q \in SeekResults(whence, n, r) :
       /\ file' = q.file /\ offset' = q.offset /\ buffer' = q.buffer
       /\ failed' = (failed \/ q.error)
  /\ UNCHANGED <<opened, todo, wanted, out, fault>>

\* cu_FStream_tell: the descriptor's offset.
Tell == offset

\* The offsets clients seek by.
Distance == -MaxPos .. MaxPos

Next ==
  /\ ~fault
  /\ \/ \E m \in {"reading", "writing"}, truncate, append \in BOOLEAN, c \in BufferSizes :
          Open(m, truncate, append, c)
     \/ \E truncate \in BOOLEAN : OpenFails(truncate)
     \/ Close
     \/ \E n \in 1 .. MaxSlice : \E s \in [1 .. n -> Byte] : Write(s)
     \/ WriteByte \/ PushFaults \/ FlushFull \/ Flush
     \/ \E n \in 1 .. MaxSlice : Read(n)
     \/ FillBuffer \/ FillFails \/ FillRefused \/ ReadByte
     \/ \E whence \in {"start", "current", "end"}, n \in Distance : Seek(whence, n)

\* The loops of cu_FStream_write and cu_FStream_read: a call in progress goes on by
\* itself, whatever the client does later.  That a fill fails is nothing to rely on.
CallStep ==
  WriteByte \/ PushFaults \/ FlushFull \/ FillBuffer \/ FillRefused \/ ReadByte

Spec == Init /\ [][Next]_vars

FairSpec == Spec /\ WF_vars(CallStep)

-----------------------------------------------------------------------------
(* Properties                                                              *)

\* The buffer never holds more than its capacity, bytes to write are real bytes,
\* and only one call is in progress, of the kind the mode allows.
TypeOK ==
  /\ mode \in {"closed", "reading", "writing"} /\ appending \in BOOLEAN
  /\ failed \in BOOLEAN /\ fault \in BOOLEAN
  /\ file \in Seq(FileByte) /\ offset \in Nat
  /\ capacity \in BufferSizes \cup {0} /\ Len(buffer) <= capacity
  /\ mode = "closed" => buffer = <<>> /\ Idle /\ ~appending
  /\ mode = "writing" => buffer \in Seq(Byte) /\ wanted = 0
  /\ mode = "reading" => buffer \in Seq(FileByte \cup {Garbage}) /\ todo = <<>>
  /\ todo \in Seq(Byte) /\ wanted \in 0 .. MaxSlice
  /\ out \in FileByte \cup {None, Garbage}

\* While reading, the buffer is the part of the file that ends at the
\* descriptor's offset: what the client reads next is what follows what it read
\* last, and the bytes that are not the file's come after its end only.
ReadsAhead ==
  /\ TypeOK
  /\ mode = "reading" =>
    \A i \in DOMAIN buffer :
      IF buffer[i] = Garbage THEN Len(file) <= offset
      ELSE Pos + i \in DOMAIN file /\ buffer[i] = file[Pos + i]

\* A seek relative to the position, forwards or back, counts the bytes still in the
\* write buffer.
SeekCountsBuffer ==
  [][\A n \in Distance :
       mode = "writing" /\ Seek("current", n) /\ ~failed' => Pos' = Pos + n]_vars

\* A call comes to an end: a write that finds the buffer full and a read that finds
\* it empty get on, also at the end of the file, where a fill reads nothing, and with
\* a buffer without room, unless that ends the program.
CallsEnd == ~Idle ~> (Idle \/ fault)

\* With its buffer laid over the file, the stream is an unbuffered stream: no
\* byte is lost, repeated or misplaced by buffering, across flushes and seeks.
Content == IF mode = "writing" THEN Overwrite(file, WriteOffset, buffer) ELSE file

Unbuffered == INSTANCE ByteStream WITH
  content <- Content, pos <- Pos, appends <- appending

ImplementsByteStream == Unbuffered!Spec

\* tests/test_stream.c:135 expects of cu_Stream_tell that it counts the bytes
\* written: it is the position of the stream.
TellIsPosition == mode # "closed" /\ Idle /\ ~failed => Tell = Pos
=============================================================================
