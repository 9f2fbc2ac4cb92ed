----------------------------- MODULE ArgPassing -----------------------------
(***************************************************************************)
(* What a generated wrapper of shinkai_message_wasm_bg.js promises for its *)
(* string arguments: each one, in order, reaches the wasm export as its    *)
(* UTF-8 bytes, an absent optional one as None, in one step. PassString    *)
(* implements this specification.                                          *)
(***************************************************************************)
EXTENDS Utf8

CONSTANT Inputs  \* the argument lists a wrapper may be called with

VARIABLES
  args,      \* the argument list of the call
  i,         \* the next argument to pass
  received   \* what wasm has decoded so far

\* The wrapper passes argument i (ptrN, lenN) to the export.
PassArg ==
  /\ i <= Len(args)
  /\ received' = Append(received, Decoded(args[i]))
  /\ i' = i + 1
  /\ UNCHANGED args

\* The export returns and the program calls a wrapper again.
NextCall ==
  /\ i > Len(args)
  /\ args' \in Inputs
  /\ i' = 1
  /\ received' = <<>>

Init == args \in Inputs /\ i = 1 /\ received = <<>>

Next == PassArg \/ NextCall

Spec == Init /\ [][Next]_<<args, i, received>>
=============================================================================
