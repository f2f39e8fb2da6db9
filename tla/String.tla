------------------------------- MODULE String -------------------------------
(***************************************************************************)
(* lib/string/string.c: bytes in a block of capacity + 1 cells, the last   *)
(* for a terminator.  An append that does not fit doubles the capacity, or *)
(* takes what it needs; the allocator may refuse, and may move the block,  *)
(* in which case a slice of the string itself leads to memory that was     *)
(* freed.                                                                  *)
(*                                                                         *)
(* A slice is its bytes.  Reading freed memory gives the bytes or garbage. *)
(***************************************************************************)
EXTENDS Integers, Sequences

CONSTANTS
  Str,        \* the client's strings
  Byte,       \* the bytes of literals
  Nul,        \* the terminator
  Garbage,    \* what a cell of fresh memory holds, or memory that was freed
  Literals,   \* the slices a client has
  MaxLength,  \* bound: the longest string
  OOM         \* whether the allocator may refuse

ASSUME BytesAssumption == Nul # Garbage /\ {Nul, Garbage} \cap Byte = {}
ASSUME LiteralsAssumption == Literals \subseteq Seq(Byte) /\ MaxLength \in Nat /\ OOM \in BOOLEAN

VARIABLES
  data,      \* data[s]: the cells of the block, numbered from 0; none if NULL
  length,    \* length[s]
  capacity,  \* capacity[s]
  lost,      \* the strings that a freed slice was appended to
  fault      \* the program ended: a byte was stored through the null pointer

vars == <<data, length, capacity, lost, fault>>

\* data[s] is the null pointer.
IsNull(s) == DOMAIN data[s] = {}

\* The bytes of s: cu_String_as_slice.
Contents(s) == [i \in 1 .. length[s] |-> data[s][i - 1]]

\* Every slice of s: cu_String_subslice, which clips what lies beyond the end.
Subslices(s) == {SubSeq(Contents(s), i, j) : i \in 1 .. length[s] + 1, j \in 0 .. length[s]}

Init ==
  /\ data = [s \in Str |-> <<>>]
  /\ length = [s \in Str |-> 0] /\ capacity = [s \in Str |-> 0]
  /\ lost = {} /\ fault = FALSE

\* The block of s with cap + 1 cells: cu_string_alloc, cells beyond the old ones
\* hold anything.
Block(s, cap) ==
  [i \in 0 .. cap |-> IF i \in DOMAIN data[s] THEN data[s][i] ELSE Garbage]

\* The cells of d once the bytes b and a terminator were stored from cell n.
Stored(d, n, b) ==
  [i \in DOMAIN d |->
     IF i \in n .. n + Len(b) - 1 THEN b[i - n + 1] ELSE IF i = n + Len(b) THEN Nul ELSE d[i]]

\* cu_String_from_slice, and cu_String_from_cstr, cu_String_copy and
\* cu_String_substring with it; without memory there is no string.
FromSlice(s, b) ==
  /\ IsNull(s)
  /\ data' = [data EXCEPT ![s] = Stored(Block(s, Len(b)), 0, b)]
  /\ length' = [length EXCEPT ![s] = Len(b)]
  /\ capacity' = [capacity EXCEPT ![s] = Len(b)]
  /\ UNCHANGED <<lost, fault>>

\* cu_String_reserve.
Reserve(s, cap) ==
  /\ cap > capacity[s]
  /\ data' = [data EXCEPT ![s] = Block(s, cap)]
  /\ capacity' = [capacity EXCEPT ![s] = cap]
  /\ UNCHANGED <<length, lost, fault>>

\* The capacity an append of n bytes makes.
Grown(s, n) ==
  IF length[s] + n <= capacity[s] THEN capacity[s]
  ELSE LET new_cap == IF capacity[s] > 0 THEN 2 * capacity[s] ELSE n
       IN  IF new_cap < length[s] + n THEN length[s] + n ELSE new_cap

\* Mutant of AppendBytes: the terminator is stored at the old length.
AppendBytes_OldEnd(s, b) ==
  /\ data' = [data EXCEPT ![s] =
                [Stored(Block(s, Grown(s, Len(b))), length[s], b) EXCEPT ![length[s]] = Nul]]
  /\ length' = [length EXCEPT ![s] = @ + Len(b)]
  /\ capacity' = [capacity EXCEPT ![s] = Grown(s, Len(b))]
  /\ UNCHANGED fault

AppendBytes(s, b) ==
  /\ data' = [data EXCEPT ![s] = Stored(Block(s, Grown(s, Len(b))), length[s], b)]
  /\ length' = [length EXCEPT ![s] = @ + Len(b)]
  /\ capacity' = [capacity EXCEPT ![s] = Grown(s, Len(b))]
  /\ UNCHANGED fault

\* Whether an append of n bytes stores anything in a block there is none of.
StoresNowhere(s, n) == IsNull(s) /\ length[s] + n <= capacity[s]

\* cu_String_append_slice of a slice that is not of s, and cu_String_append_cstr and
\* cu_String_append with it.
AppendSlice(s, b) ==
  /\ ~StoresNowhere(s, Len(b)) /\ length[s] + Len(b) <= MaxLength
  /\ AppendBytes(s, b)
  /\ UNCHANGED lost

\* cu_String_append_slice of a slice of s: when the block moves, the slice stays
\* behind in the freed one.
AppendOwn(s, b) ==
  /\ ~StoresNowhere(s, Len(b)) /\ length[s] + Len(b) <= MaxLength
  /\ \/ AppendBytes(s, b) /\ UNCHANGED lost
     \/ /\ length[s] + Len(b) > capacity[s]
        /\ AppendBytes(s, [i \in 1 .. Len(b) |-> Garbage])
        /\ lost' = lost \cup {s}

\* CU_STRING_ERROR_OOM.
AppendFails(s, b) == OOM /\ length[s] + Len(b) > capacity[s] /\ UNCHANGED vars

\* An append of no bytes to a string that never had any: the terminator is stored
\* through the null pointer.
AppendNothing(s) ==
  /\ StoresNowhere(s, 0)
  /\ fault' = TRUE
  /\ UNCHANGED <<data, length, capacity, lost>>

\* Mutant of Clear: the block is taken for the shorter string.
Clear_Capacity(s) ==
  /\ length' = [length EXCEPT ![s] = 0]
  /\ data' = IF IsNull(s) THEN data ELSE [data EXCEPT ![s][0] = Nul]
  /\ capacity' = [capacity EXCEPT ![s] = 0]
  /\ lost' = lost \ {s}
  /\ UNCHANGED fault

\* cu_String_clear.
Clear(s) ==
  /\ length' = [length EXCEPT ![s] = 0]
  /\ data' = IF IsNull(s) THEN data ELSE [data EXCEPT ![s][0] = Nul]
  /\ lost' = lost \ {s}
  /\ UNCHANGED <<capacity, fault>>

\* cu_String_destroy, which leaves what cu_String_init makes.
Destroy(s) ==
  /\ data' = [data EXCEPT ![s] = <<>>]
  /\ length' = [length EXCEPT ![s] = 0]
  /\ capacity' = [capacity EXCEPT ![s] = 0]
  /\ lost' = lost \ {s}
  /\ UNCHANGED fault

Next ==
  /\ ~fault
  /\ \E s \in Str :
       \/ \E b \in Literals : AppendSlice(s, b) \/ AppendFails(s, b) \/ FromSlice(s, b)
       \/ \E t \in Str \ ({s} \cup lost) : \E b \in Subslices(t) :
            AppendSlice(s, b) \/ FromSlice(s, b)
       \/ \E b \in Subslices(s) : s \notin lost /\ AppendOwn(s, b)
       \/ \E cap \in 1 .. MaxLength : Reserve(s, cap)
       \/ AppendNothing(s) \/ Clear(s) \/ Destroy(s)

Spec == Init /\ [][Next]_vars

-----------------------------------------------------------------------------
(* Properties                                                              *)

\* The capacity is that of the block, which is freed and resized by it; the string
\* and its terminator are inside, and the terminator follows the last byte, through
\* every growth, clear and refused growth.
Terminated ==
  \A s \in Str :
    /\ DOMAIN data[s] = IF IsNull(s) THEN {} ELSE 0 .. capacity[s]
    /\ IsNull(s) => capacity[s] = 0
    /\ length[s] <= capacity[s]
    /\ length[s] > 0 => data[s][length[s]] = Nul

\* Strings hold the bytes that were appended, in order, and no string changes
\* another.  Only a string that was appended to itself while its block moved may
\* hold something else.
Strings == INSTANCE Text WITH text <- [s \in Str |-> Contents(s)]

ImplementsText == Strings!Spec
=============================================================================
