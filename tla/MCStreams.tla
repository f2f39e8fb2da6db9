----------------------------- MODULE MCStreams -----------------------------
(***************************************************************************)
(* For TLC, the two streams, over a file (FStream) and in memory.  A       *)
(* behaviour uses one of them, the other stays as it is at first.          *)
(*                                                                         *)
(* The file stream has two bytes, a buffer of two or of none, calls of up  *)
(* to three bytes and files of up to four: a write call flushes in the     *)
(* middle, a read call fills the buffer twice, seeks leave the file's end  *)
(* behind or fail before its beginning.                                    *)
(* The one in memory starts with no cell or with two.                      *)
(***************************************************************************)
EXTENDS FStream

CONSTANTS
  Capacities,   \* what the cells of streams in memory are at first
  OOM           \* whether the allocator may refuse them more

VARIABLES
  active,                                             \* the stream that is used
  isOpen, cells, length, memPos, memOut, memFault     \* MemStream

memVars == <<isOpen, cells, length, memPos, memOut, memFault>>

Mem == INSTANCE MemStream WITH
  pos <- memPos, out <- memOut, fault <- memFault

ASSUME InstancesOK == Mem!ConstantsOK

MCInit ==
  /\ active \in {"file", "memory"} /\ Init /\ Mem!Init
  /\ active = "memory" => file = <<>>

MCNext ==
  /\ UNCHANGED active
  /\ \/ active = "file" /\ Next /\ UNCHANGED memVars
     \/ active = "memory" /\ Mem!Next /\ UNCHANGED vars

MCSpec == MCInit /\ [][MCNext]_<<active, vars, memVars>> /\ WF_vars(CallStep)

-----------------------------------------------------------------------------
\* The contents of a stream in memory have no gap nobody wrote.
NoGaps == Mem!NoGaps

\* The stream in memory is the same stream of bytes.
MemImplementsByteStream == Mem!ImplementsByteStream
=============================================================================
