----------------------------- MODULE ByteStream -----------------------------
(***************************************************************************)
(* A stream of bytes without any buffer: what the "Generic buffered stream *)
(* interface" of include/io/stream.h promises a client, one byte at a      *)
(* time.  A write lands at the position, or at the end of a stream opened  *)
(* to append, a read comes from the position, and both move it.  Once an   *)
(* operation has failed, nothing is promised until the next open.          *)
(***************************************************************************)
EXTENDS FileBytes, Integers

CONSTANTS
  Byte,   \* the bytes clients write
  None    \* no byte was read yet

VARIABLES
  content,  \* the bytes of the file
  pos,      \* the position of the stream
  appends,  \* it was opened to append
  out,      \* the last byte delivered
  failed    \* an operation since the last open failed

vars == <<content, pos, appends, out, failed>>

Init ==
  /\ content \in Seq(Byte \cup {Zero}) /\ pos = 0 /\ appends = FALSE
  /\ out = None /\ failed = FALSE

Open ==
  /\ content' \in {content, <<>>}
  /\ appends' \in BOOLEAN
  /\ pos' = 0 /\ out' = None /\ failed' = FALSE

\* An open that fails may already have truncated the file.
OpenFails == content' \in {content, <<>>} /\ UNCHANGED <<pos, appends, out, failed>>

\* Where a write lands.
PutPos == IF appends THEN Len(content) ELSE pos

\* n bytes are written.
Put(n) ==
  /\ \E s \in [1 .. n -> Byte] : content' = Overwrite(content, PutPos, s)
  /\ pos' = PutPos + n
  /\ UNCHANGED <<appends, out, failed>>

\* n bytes are delivered, and "out" is the last of them.
Get(n) ==
  /\ pos + n <= Len(content)
  /\ out' = IF n = 0 THEN out ELSE content[pos + n]
  /\ pos' = pos + n
  /\ UNCHANGED <<content, appends, failed>>

PutByte == Put(1)

GetByte == Get(1)

\* No header says what a read delivers once there are no more bytes.
GetAtEnd == pos >= Len(content) /\ UNCHANGED <<content, pos, appends, failed>>

Seek == pos' \in Nat /\ UNCHANGED <<content, appends, out, failed>>

Close == pos' = 0 /\ appends' = FALSE /\ UNCHANGED <<content, out, failed>>

Fails == failed' = TRUE

Next ==
  \/ Open \/ OpenFails \/ PutByte \/ GetByte \/ GetAtEnd \/ Seek \/ Close
  \/ Fails \/ (failed /\ failed')

Spec == Init /\ [][Next]_vars

\* A call puts or gets all its bytes at once: fewer only where the bytes end.
CallPuts == pos' - PutPos \in Nat /\ Put(pos' - PutPos)

CallGets == pos' - pos \in Nat /\ Get(pos' - pos)

\* Bytes in memory are given up with the stream.
Dispose == content' = <<>> /\ pos' = 0 /\ UNCHANGED <<appends, out, failed>>

\* A stream of whole calls over bytes in memory.
CallsSpec == Init /\ [][Next \/ CallPuts \/ CallGets \/ Dispose]_vars
=============================================================================
