--------------------------- MODULE MC_ExportCall ---------------------------
EXTENDS ExportCall, ImportValues

CONSTANTS w1, w2

MC_Objs == {w1, w2}

\* Four-bit words: address 3 reads as a positive Int32, 11 as a negative
\* one; two addresses let a freed box's address be handed out again.
MC_WordBits == 4
MC_Addrs == {3, 11}
MC_MaxGen == 3

\* Two slab slots: a result and an error can be outstanding at once.
MC_Handles == {132, 133}

\* One value of each kind, with the falsy ones (false, 0) that a truthiness
\* test would take for absent, and null, whose typeof is "object".
\* Payloads other than booleans, numbers and strings do not matter.
MC_JsValues ==
  {[type |-> "undefined", val |-> 0], [type |-> "null", val |-> 0],
   [type |-> "boolean", val |-> TRUE], [type |-> "boolean", val |-> FALSE],
   [type |-> "number", val |-> 0], [type |-> "number", val |-> 7],
   [type |-> "bigint", val |-> 1], [type |-> "string", val |-> 0],
   [type |-> "object", val |-> 0], [type |-> "function", val |-> 0]}

\* A four-bit i64, standing for 64 bits as WordBits stands for 32: values
\* 8 .. 15 arrive in JS as negative BigInts.
MC_I64Bits == 4

\* The exports composed with the imports: wasm calls an import only while
\* one of its exports runs, before it returns; the export's steps leave
\* the last answer alone.
MC_Init == Init /\ ImportInit

MC_Next ==
  \/ Next /\ UNCHANGED answer
  \/ call.pc = "wasm" /\ ImportNext /\ UNCHANGED vars

MC_Spec == MC_Init /\ [][MC_Next]_<<vars, answer>>
====
