-------------------------------- MODULE Utf8 --------------------------------
(***************************************************************************)
(* JS strings and their UTF-8 encoding, as TextEncoder (the module's       *)
(* cachedTextEncoder) produces it. A JS string is a sequence of UTF-16     *)
(* code units, abstracted to classes: "A" (below 0x80, one UTF-8 byte),    *)
(* "B" (two bytes), "C" (three bytes, not a surrogate), "H" and "L" (high  *)
(* and low surrogates: a pair is one four-byte character, a lone one is    *)
(* encoded as U+FFFD, three bytes). A byte is named <<i, k>>: the k-th     *)
(* byte of the character starting at code unit i.                         *)
(***************************************************************************)
EXTENDS Naturals, Sequences

Units == {"A", "B", "C", "H", "L"}

\* An optional argument: undefined/null, or a string.
None == [present |-> FALSE, s |-> <<>>]
Some(s) == [present |-> TRUE, s |-> s]

\* Units and bytes of the character starting at code unit j of s.
CharUnits(s, j) == IF s[j] = "H" /\ j < Len(s) /\ s[j + 1] = "L" THEN 2 ELSE 1
CharBytes(s, j) ==
  CASE s[j] = "A" -> 1
    [] s[j] = "B" -> 2
    [] s[j] = "H" /\ CharUnits(s, j) = 2 -> 4
    [] OTHER -> 3

\* Reference encoding of s, its code units numbered from base + 1.
RECURSIVE Utf8From(_, _, _)
Utf8From(s, j, base) ==
  IF j > Len(s) THEN <<>>
  ELSE [k \in 1 .. CharBytes(s, j) |-> <<base + j, k>>]
         \o Utf8From(s, j + CharUnits(s, j), base)
Utf8(s) == Utf8From(s, 1, 0)

\* What wasm decodes for an argument passed intact.
Decoded(a) == IF a.present THEN Some(Utf8(a.s)) ELSE None
=============================================================================
