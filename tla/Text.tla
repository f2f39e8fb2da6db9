-------------------------------- MODULE Text --------------------------------
(***************************************************************************)
(* Strings as clients see them: what include/string/string.h promises of   *)
(* "Create a new string from a byte slice", "Append the given slice to the *)
(* string", "Clear the string contents".  What is appended is a slice the  *)
(* client has, or one of a string.                                         *)
(***************************************************************************)
EXTENDS Integers, Sequences

CONSTANTS
  Str,       \* the client's strings
  Byte,
  Literals   \* the slices a client has

VARIABLES
  text,   \* text[s]: the bytes of string s
  lost    \* the strings whose bytes nothing is known of

\* The slices of the bytes b.
Slices(b) == {SubSeq(b, i, j) : i \in 1 .. Len(b) + 1, j \in 0 .. Len(b)}

Init == text = [s \in Str |-> <<>>] /\ lost = {}

\* What a string is made of, or extended by.
Sources == Literals \cup UNION {Slices(text[s]) : s \in Str \ lost}

Extend(s) ==
  /\ s \notin lost
  /\ \E b \in Sources : text' = [text EXCEPT ![s] = @ \o b]
  /\ UNCHANGED lost

Empty(s) == text' = [text EXCEPT ![s] = <<>>] /\ lost' = lost \ {s}

\* s is extended by bytes nothing is known of; what it was stays its beginning.
Lose(s) ==
  /\ \E n \in 0 .. Len(text'[s]) : SubSeq(text'[s], 1, n) = text[s]
  /\ text' = [text EXCEPT ![s] = text'[s]]
  /\ lost' = lost \cup {s}

Next == \E s \in Str : Extend(s) \/ Empty(s) \/ Lose(s)

Spec == Init /\ [][Next]_<<text, lost>>
=============================================================================
