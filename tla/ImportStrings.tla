---------------------------- MODULE ImportStrings ----------------------------
(***************************************************************************)
(* The strings that imports of shinkai_message_wasm_bg.js hand to wasm.    *)
(* An import such as __wbindgen_debug_string or __wbindgen_string_get      *)
(* computes a string (or undefined) from a JS value, passes it with        *)
(* passStringToWasm0 and writes the (ptr, len) pair into the retptr area   *)
(* wasm gave it; wasm reads the pair as it reads an argument pair, so the  *)
(* string reaches wasm through the path module PassString models.          *)
(*                                                                         *)
(* A JS value is a record by its typeof and class. Text the code writes   *)
(* literally is ASCII, a run of "A" units; the text of a number or a      *)
(* boolean, a JSON.stringify result and an error's stack are given with    *)
(* the value, since they come from the engine.                             *)
(***************************************************************************)
EXTENDS Utf8, SequencesExt

CONSTANT DebugValues  \* JS values debugString is checked on

\* n code units of literal ASCII text ("Symbol(", ", ", "]", ...).
Lit(n) == [k \in 1 .. n |-> "A"]

\* JS values: "prim" (number, boolean, null or undefined, with the text of
\* `${val}`), "string", "symbol" (desc: an optional description),
\* "function" (its name), "array" (elems), "object" (json: an optional
\* JSON.stringify result, None when it throws on a cycle or a BigInt),
\* "error" (name, message, stack), "builtin" (the class of
\* `[object Class]`, such as Map or Date).
Prim(t) == [type |-> "prim", text |-> t]
Str(s) == [type |-> "string", s |-> s]
Symbol(d) == [type |-> "symbol", desc |-> d]
Fun(n) == [type |-> "function", name |-> n]
Arr(es) == [type |-> "array", elems |-> es]
Obj(j) == [type |-> "object", json |-> j]
Err(n, m, st) == [type |-> "error", name |-> n, message |-> m, stack |-> st]
BuiltIn(c) == [type |-> "builtin", className |-> c]

-----------------------------------------------------------------------------
(* debugString (lines 143-207).                                            *)

RECURSIVE DebugString(_), ArrayLoop(_, _, _)

\* `for (let i = 1; i < length; i++) debug += ', ' + debugString(val[i])`,
\* i counted from 0 as in JS.
ArrayLoop(es, i, debug) ==
  IF i >= Len(es) THEN debug
  ELSE ArrayLoop(es, i + 1, debug \o Lit(2) \o DebugString(es[i + 1]))

\* Mutant of ArrayDebug: the loop starts at index 0.
ArrayDebugFromZero(es) ==
  ArrayLoop(es, 0, Lit(1) \o (IF Len(es) > 0 THEN DebugString(es[1]) ELSE <<>>)) \o Lit(1)

\* '[', debugString(val[0]) when length > 0, the loop, then ']'.
ArrayDebug(es) ==
  ArrayLoop(es, 1, Lit(1) \o (IF Len(es) > 0 THEN DebugString(es[1]) ELSE <<>>)) \o Lit(1)

\* The branches in the order the function tries them: primitives by
\* typeof, Array.isArray, then the class from
\* Object.prototype.toString: Object goes through JSON.stringify (falling
\* back to 'Object'), an Error is `${name}: ${message}\n${stack}`, any
\* other class is its name.
DebugString(v) ==
  CASE v.type = "prim" -> v.text
    [] v.type = "string" -> Lit(1) \o v.s \o Lit(1)
    [] v.type = "symbol" -> IF v.desc.present THEN Lit(7) \o v.desc.s \o Lit(1) ELSE Lit(6)
    [] v.type = "function" -> IF Len(v.name) > 0 THEN Lit(9) \o v.name \o Lit(1) ELSE Lit(8)
    [] v.type = "array" -> ArrayDebug(v.elems)
    [] v.type = "object" -> IF v.json.present THEN Lit(7) \o v.json.s \o Lit(1) ELSE Lit(6)
    [] v.type = "error" -> v.name \o Lit(2) \o v.message \o Lit(1) \o v.stack
    [] v.type = "builtin" -> v.className

\* Reference rendering of an array: its elements' renderings, each followed
\* by ", " and the last by "]", after "[".
RECURSIVE DebugRef(_)
DebugRef(v) ==
  IF v.type # "array" THEN DebugString(v)
  ELSE LET n == Len(v.elems)
           parts == [k \in 1 .. n |-> DebugRef(v.elems[k])]
           seps == [k \in 1 .. n |-> IF k < n THEN Lit(2) ELSE Lit(1)]
       IN IF n = 0 THEN Lit(2) ELSE Lit(1) \o FlattenSeq(FlattenSeq(Interleave(parts, seps)))

-----------------------------------------------------------------------------
(* The imports, by the optional string they pass.                          *)

\* __wbindgen_debug_string(retptr, v): debugString(getObject(v)).
DebugStringArg(v) == Some(DebugString(v))

\* __wbindgen_string_get(retptr, v): the value if typeof is 'string', else
\* undefined, passed as pointer 0 with len WASM_VECTOR_LEN as it stands.
StringGetArg(v) == IF v.type = "string" THEN Some(v.s) ELSE None

-----------------------------------------------------------------------------
\* debugString renders an array as its elements' renderings in order, each
\* exactly once, separated by ", " inside brackets, however deeply arrays
\* nest: the first element outside the loop and the loop from index 1
\* together cover every index once.
DebugStringJoins == \A v \in DebugValues : DebugString(v) = DebugRef(v)
=============================================================================
