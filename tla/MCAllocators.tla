---------------------------- MODULE MCAllocators ----------------------------
(***************************************************************************)
(* For TLC, the allocators that serve from one memory: over a fixed buffer *)
(* (FixedAllocator), over the memory of a WebAssembly program, over malloc *)
(* and over mmap.  A behaviour uses one of them, the others stay as they   *)
(* are at first.                                                           *)
(*                                                                         *)
(* The fixed buffer counts in units of 4 bytes: headers are 8 bytes,       *)
(* aligned to 8; alignments are 4 and 16 bytes.  The others count words:   *)
(* pages of 16 words with slots of 4 and 8, a block of 13 words that takes *)
(* a page for its last word; raw blocks of malloc aligned to two words.    *)
(***************************************************************************)
EXTENDS FixedAllocator

CONSTANTS
  WordSize,
  WasmPageSize, WasmHeaderSize, MinClass, BigClassCount,          \* WasmAllocator's
  InitialPages, WasmMaxPages, MaxBlocks, WasmSizes, WasmAligns,
  RawAlign, MemSize, CSizes, CAligns,                             \* CAllocator's
  PageSize, MaxPages, PageSizes                                   \* PageAllocator's

VARIABLES
  active,                    \* the allocator that is used
  heap, wasmLive, trapped,   \* WasmAllocator
  raws, stored, cLive, kept, \* CAllocator
  mapped, pageLive           \* PageAllocator

wasmVars == <<heap, wasmLive, trapped>>
cVars    == <<raws, stored, cLive, kept>>
pageVars == <<mapped, pageLive>>

Wasm == INSTANCE WasmAllocator WITH
  PageSize <- WasmPageSize, HeaderSize <- WasmHeaderSize, MaxPages <- WasmMaxPages,
  Sizes <- WasmSizes, Aligns <- WasmAligns, live <- wasmLive, fault <- trapped

C == INSTANCE CAllocator WITH Sizes <- CSizes, Aligns <- CAligns, live <- cLive

Page == INSTANCE PageAllocator WITH Sizes <- PageSizes, live <- pageLive

ASSUME InstancesOK == Wasm!ConstantsOK /\ C!ConstantsOK /\ Page!ConstantsOK

MCInit ==
  /\ active \in {"fixed", "wasm", "c", "page"}
  /\ Init /\ Wasm!Init /\ C!Init /\ Page!Init

MCNext ==
  /\ UNCHANGED active
  /\ \/ active = "fixed" /\ Next /\ UNCHANGED <<wasmVars, cVars, pageVars>>
     \/ active = "wasm" /\ Wasm!Next /\ UNCHANGED <<vars, cVars, pageVars>>
     \/ active = "c" /\ C!Next /\ UNCHANGED <<vars, wasmVars, pageVars>>
     \/ active = "page" /\ Page!Next /\ UNCHANGED <<vars, wasmVars, cVars>>

MCSpec == MCInit /\ [][MCNext]_<<active, vars, wasmVars, cVars, pageVars>>

-----------------------------------------------------------------------------
\* The slots of wasmallocator.c have one owner each.
SlotsApart == Wasm!SlotsApart

\* What malloc and mmap gave (allocator.c, page.c) has one owner each, and all of it
\* can be given back.
SystemMemoryOwned == C!RawBlocksOwned /\ Page!MappedIsHeld

\* All of them are allocators.
AreAllocators ==
  /\ Wasm!ImplementsContract
  /\ C!ImplementsContract
  /\ Page!ImplementsContract
=============================================================================
