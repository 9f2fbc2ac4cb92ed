----------------------------- MODULE PassString -----------------------------
(***************************************************************************)
(* How the generated wrappers of shinkai_message_wasm_bg.js hand string    *)
(* arguments to wasm: for each argument, in order, passStringToWasm0       *)
(* copies it into a fresh allocation and leaves its byte length in the     *)
(* global WASM_VECTOR_LEN, which the wrapper reads next; an optional       *)
(* argument that is undefined or null is passed as pointer 0 (lines       *)
(* 1725-1726). wasm decodes pointer 0 as None and otherwise reads len      *)
(* bytes at the pointer as UTF-8.                                          *)
(*                                                                         *)
(* Strings and bytes are those of module Utf8. Memory growth inside       *)
(* malloc or realloc detaches the ArrayBuffer the cached Uint8Array views; *)
(* writes through a detached view are lost.                                *)
(***************************************************************************)
EXTENDS Utf8

CONSTANTS
  Inputs,  \* the argument lists a wrapper may be called with
  MaxGen   \* bound on memory growths, so on generations of the buffer

ASSUME /\ \A a \in Inputs : \A j \in DOMAIN a : a[j] = None \/ a[j].s \in Seq(Units)
       /\ MaxGen \in Nat \ {0}

\* wasm.memory.grow() may happen inside malloc and realloc.
Grown(g) == {g, g + 1} \cap 1 .. MaxGen

VARIABLES
  args,            \* the argument list of the call
  i,               \* the argument being marshalled
  pc,              \* step of passStringToWasm0 for argument i
  block,           \* bytes of the current allocation (1-based)
  offset,          \* passStringToWasm0's offset
  ptr,             \* 0 for an absent argument, else 1 (its allocation)
  gen,             \* generation of wasm.memory.buffer (grows detach it)
  cached,          \* generation cachedUint8Memory0 views; 0 for null
  mem,             \* generation of the local `mem` view
  WASM_VECTOR_LEN,
  received         \* what wasm decodes for each argument marshalled

vars == <<args, i, pc, ptr, block, offset, gen, cached, mem, WASM_VECTOR_LEN, received>>

-----------------------------------------------------------------------------
(* The encoder.                                                           *)

\* TextEncoder.encodeInto(s, view) for a view of `room` bytes: whole
\* characters are written while they fit; it returns read and written.
RECURSIVE EncodeInto(_, _, _, _)
EncodeInto(s, j, base, room) ==
  IF j > Len(s) \/ CharBytes(s, j) > room
    THEN [read |-> j - 1, bytes |-> <<>>]
    ELSE LET r == EncodeInto(s, j + CharUnits(s, j), base, room - CharBytes(s, j))
         IN [r EXCEPT !.bytes = [k \in 1 .. CharBytes(s, j) |-> <<base + j, k>>] \o @]

\* Number of leading code units below 0x80 (the loop of lines 81-85).
RECURSIVE AsciiPrefix(_)
AsciiPrefix(s) == IF s = <<>> \/ Head(s) # "A" THEN 0 ELSE 1 + AsciiPrefix(Tail(s))

Arg == args[i].s

\* Mutant of GetUint8Memory0: only a null cache is replaced.
GetUint8MemoryNullOnly(g) == IF cached = 0 THEN g ELSE cached

\* getUint8Memory0 with wasm.memory.buffer of generation g: a new view
\* when the cache is null or its buffer was detached (byteLength 0).
GetUint8Memory0(g) == IF cached = 0 \/ cached # g THEN g ELSE cached

\* The bytes of block b after writing seq at positions from + 1 on through a
\* view of generation v; writes through a detached view are lost.
WriteVia(b, v, g, from, seq) ==
  [k \in DOMAIN b |-> IF v = g /\ k > from /\ k - from <= Len(seq)
                       THEN seq[k - from] ELSE b[k]]

-----------------------------------------------------------------------------
(* The wrapper marshals its string arguments in order, each one as         *)
(*   const ptrN = passStringToWasm0(argN, malloc, realloc);               *)
(*   const lenN = WASM_VECTOR_LEN;                                          *)
(* or, for an optional one, var ptrN = isLikeNone(argN) ? 0 : ... .        *)
(* Every call site passes realloc, so the realloc === undefined branch of  *)
(* passStringToWasm0 is never taken.                                       *)

\* isLikeNone(argN): pointer 0, no call.
PassNone ==
  /\ pc = "arg" /\ i <= Len(args) /\ ~args[i].present
  /\ ptr' = 0
  /\ pc' = "len"
  /\ UNCHANGED <<args, i, block, offset, gen, cached, mem, WASM_VECTOR_LEN, received>>

\* malloc(len, 1) of arg.length bytes, which may grow memory; then
\* `const mem = getUint8Memory0()`.
Malloc ==
  /\ pc = "arg" /\ i <= Len(args) /\ args[i].present
  /\ \E g \in Grown(gen) :
       /\ gen' = g
       /\ cached' = GetUint8Memory0(g)
       /\ mem' = GetUint8Memory0(g)
  /\ block' = [k \in 1 .. Len(Arg) |-> <<0, 0>>]
  /\ ptr' = 1
  /\ offset' = 0
  /\ pc' = "ascii"
  /\ UNCHANGED <<args, i, WASM_VECTOR_LEN, received>>

\* Mutant of AsciiLoop: the loop runs while offset <= len.
AsciiLoopPastEnd ==
  LET n == IF AsciiPrefix(Arg) = Len(Arg) THEN Len(Arg) + 1 ELSE AsciiPrefix(Arg) IN
  /\ pc = "ascii"
  /\ offset' = n
  /\ block' = WriteVia(block, mem, gen, 0, [k \in 1 .. n |-> <<k, 1>>])
  /\ pc' = IF n = Len(Arg) THEN "ret" ELSE "realloc"
  /\ UNCHANGED <<args, i, ptr, gen, cached, mem, WASM_VECTOR_LEN, received>>

\* Lines 79-85: copy code units through `mem` while they are below 0x80.
AsciiLoop ==
  LET n == AsciiPrefix(Arg) IN
  /\ pc = "ascii"
  /\ offset' = n
  /\ block' = WriteVia(block, mem, gen, 0, [k \in 1 .. n |-> <<k, 1>>])
  /\ pc' = IF n = Len(Arg) THEN "ret" ELSE "realloc"
  /\ UNCHANGED <<args, i, ptr, gen, cached, mem, WASM_VECTOR_LEN, received>>

\* Lines 87-96: slice off the ASCII prefix; realloc to offset + 3 bytes per
\* remaining code unit, which may grow memory and move the block with its
\* bytes; encodeInto a subarray of getUint8Memory0() after the prefix; and
\* advance offset by the bytes written.
Realloc ==
  LET r == SubSeq(Arg, offset + 1, Len(Arg))
      cap == offset + Len(r) * 3
      e == EncodeInto(r, 1, offset, cap - offset)
  IN /\ pc = "realloc"
     /\ \E g \in Grown(gen) :
          /\ gen' = g
          /\ cached' = GetUint8Memory0(g)
          /\ block' = WriteVia([k \in 1 .. cap |-> IF k <= Len(block) THEN block[k] ELSE <<0, 0>>],
                               GetUint8Memory0(g), g, offset, e.bytes)
     /\ offset' = offset + Len(e.bytes)
     /\ pc' = "ret"
     /\ UNCHANGED <<args, i, ptr, mem, WASM_VECTOR_LEN, received>>

\* Lines 98-99: WASM_VECTOR_LEN = offset; return ptr.
Return ==
  /\ pc = "ret"
  /\ WASM_VECTOR_LEN' = offset
  /\ pc' = "len"
  /\ UNCHANGED <<args, i, ptr, block, offset, gen, cached, mem, received>>

\* const lenN = WASM_VECTOR_LEN; wasm takes (ptrN, lenN) and decodes
\* pointer 0 as None, else lenN bytes at the pointer.
ReadLen ==
  /\ pc = "len"
  /\ received' = Append(received,
                    IF ptr = 0 THEN None
                    ELSE [present |-> TRUE, s |-> SubSeq(block, 1, WASM_VECTOR_LEN)])
  /\ i' = i + 1
  /\ pc' = "arg"
  /\ UNCHANGED <<args, ptr, block, offset, gen, cached, mem, WASM_VECTOR_LEN>>

\* The export returns and the program calls a wrapper again; wasm memory,
\* the cached view and WASM_VECTOR_LEN persist across calls.
NewCall ==
  /\ pc = "arg" /\ i > Len(args)
  /\ args' \in Inputs
  /\ i' = 1
  /\ received' = <<>>
  /\ UNCHANGED <<pc, ptr, block, offset, gen, cached, mem, WASM_VECTOR_LEN>>

Init ==
  /\ args \in Inputs
  /\ i = 1
  /\ pc = "arg"
  /\ ptr = 0
  /\ block = <<>>
  /\ offset = 0
  /\ gen = 1
  /\ cached = 0
  /\ mem = 0
  /\ WASM_VECTOR_LEN = 0
  /\ received = <<>>

Next == PassNone \/ Malloc \/ AsciiLoop \/ Realloc \/ Return \/ ReadLen \/ NewCall

Spec == Init /\ [][Next]_vars

-----------------------------------------------------------------------------
TypeOK ==
  /\ pc \in {"arg", "ascii", "realloc", "ret", "len"}
  /\ ptr \in {0, 1}
  /\ i \in 1 .. Len(args) + 1
  /\ offset \in 0 .. Len(block)
  /\ cached \in 0 .. gen /\ mem \in 0 .. gen
  /\ Len(received) = i - 1

\* The marshalling implements ArgPassing: every argument reaches wasm as it
\* was passed, an absent optional one as None and a string as exactly its
\* UTF-8 bytes, with nothing truncated by an allocation too small for the
\* characters after the ASCII prefix (lone surrogates, pairs, three-byte
\* characters) and nothing lost through a view of a buffer a memory growth
\* detached. The steps of passStringToWasm0 are stuttering steps of
\* ArgPassing; ReadLen is its PassArg and NewCall its NextCall.
Abstract == INSTANCE ArgPassing

ArgPassingRefined == Abstract!Spec

=============================================================================
