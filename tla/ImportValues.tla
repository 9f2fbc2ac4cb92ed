---------------------------- MODULE ImportValues ----------------------------
(***************************************************************************)
(* The imports of shinkai_message_wasm_bg.js through which wasm asks what  *)
(* a JS value is, or reads a number, a boolean or a u64 from JS: the type  *)
(* tests __wbindgen_is_*, __wbindgen_boolean_get, __wbindgen_number_get   *)
(* and __wbindgen_bigint_from_u64. Each is a function of one JS value (or *)
(* of one integer from wasm), so they are operators here, checked against *)
(* what the Rust side of wasm-bindgen (not in this repository) takes them *)
(* to mean.                                                                *)
(*                                                                         *)
(* A JS value is its kind and a payload: [type |-> t, val |-> x]. The     *)
(* kind "null" is the value null, whose typeof is "object".               *)
(*                                                                         *)
(* Wasm calls an import while one of its exports runs, and reads what it   *)
(* returns: `answer` is the last import called, its argument and what it   *)
(* returned. The heap slot bigint_from_u64 puts its BigInt in is the one   *)
(* WasmHeap models; here only the value.                                   *)
(***************************************************************************)
EXTENDS Integers

CONSTANTS
  JsValues, \* JS values the imports are checked on
  I64Bits   \* width of a wasm i64 (64; smaller in a model)

VARIABLE answer

Kinds == {"undefined", "null", "boolean", "number", "bigint", "string", "object", "function"}

ASSUME /\ \A v \in JsValues : v.type \in Kinds
       /\ I64Bits \in Nat \ {0}

\* Option<T> as Rust sees it: {} for None, {x} for Some(x).
None == {}
Some(x) == {x}

\* typeof v.
TypeOf(v) == IF v.type = "null" THEN "object" ELSE v.type

-----------------------------------------------------------------------------
(* The type tests.                                                         *)

\* __wbindgen_is_undefined (lines 2885-2888): getObject(arg0) === undefined.
IsUndefined(v) == v.type = "undefined"

\* __wbindgen_is_string (lines 2874-2877).
IsString(v) == TypeOf(v) = "string"

\* __wbindgen_is_bigint (lines 2833-2836).
IsBigInt(v) == TypeOf(v) = "bigint"

\* __wbindgen_is_function (lines 2949-2952).
IsFunction(v) == TypeOf(v) = "function"

\* Mutant of IsObject: typeof alone, so null counts as an object.
IsObjectTypeofOnly(v) == TypeOf(v) = "object"

\* __wbindgen_is_object (lines 2879-2883): typeof val === 'object' &&
\* val !== null.
IsObject(v) == TypeOf(v) = "object" /\ v.type # "null"

-----------------------------------------------------------------------------
(* The value reads.                                                        *)

\* __wbindgen_boolean_get (lines 2868-2872): 1 or 0 for a boolean, 2 for
\* anything else; wasm reads 2 as None.
BooleanGet(v) == IF TypeOf(v) = "boolean" THEN (IF v.val THEN 1 ELSE 0) ELSE 2

\* __wbindgen_number_get (lines 2861-2866): the f64 slot at arg0 + 8
\* through getFloat64Memory0 (0 for a non-number), then the i32 flag at
\* arg0 through getInt32Memory0: !isLikeNone(ret).
NumberGet(v) ==
  LET ret == IF TypeOf(v) = "number" THEN Some(v.val) ELSE None
  IN [f64 |-> IF ret = None THEN 0 ELSE v.val, flag |-> IF ret = None THEN 0 ELSE 1]

\* How the JS API hands a wasm i64 to JS: a BigInt, signed.
ToI64(u) == IF u >= 2^(I64Bits - 1) THEN u - 2^I64Bits ELSE u

\* Mutant of BigIntFromU64: the BigInt is kept as it arrives, signed.
BigIntFromU64Signed(x) == x

\* __wbindgen_bigint_from_u64 (lines 2838-2841): BigInt.asUintN(64, arg0),
\* then addHeapObject of the result.
BigIntFromU64(x) == x % 2^I64Bits

-----------------------------------------------------------------------------
(* What the Rust side of wasm-bindgen makes of the answers.                *)

\* Option<bool> from boolean_get's 0, 1 or 2.
BoolFromAbi(r) == CASE r = 0 -> Some(FALSE) [] r = 1 -> Some(TRUE) [] OTHER -> None

\* Option<f64> from the (flag, f64) pair number_get wrote.
F64FromAbi(w) == IF w.flag = 1 THEN Some(w.f64) ELSE None

-----------------------------------------------------------------------------
(* The imports as steps of wasm.                                          *)

NoAnswer == [name |-> "none"]

Answer(n, a, r) == answer' = [name |-> n, arg |-> a, ret |-> r]

\* Wasm asks one of the type tests, or reads a boolean or a number, of a
\* JS value it holds.
AskValue(v) ==
  \/ Answer("is_undefined", v, IsUndefined(v))
  \/ Answer("is_string", v, IsString(v))
  \/ Answer("is_bigint", v, IsBigInt(v))
  \/ Answer("is_function", v, IsFunction(v))
  \/ Answer("is_object", v, IsObject(v))
  \/ Answer("boolean_get", v, BooleanGet(v))
  \/ Answer("number_get", v, NumberGet(v))

\* Wasm passes the u64 u to JS, which receives it as the signed i64 BigInt.
AskBigInt(u) == Answer("bigint_from_u64", u, BigIntFromU64(ToI64(u)))

ImportInit == answer = NoAnswer

ImportNext ==
  \/ \E v \in JsValues : AskValue(v)
  \/ \E u \in 0 .. 2^I64Bits - 1 : AskBigInt(u)

-----------------------------------------------------------------------------
\* Every JS value reaches wasm as what it is: JsValue::as_bool is Some
\* exactly for booleans, as_f64 Some exactly for numbers (0 included, not
\* taken for absent), and is_object holds for objects but not for null,
\* whose typeof is "object"; is_undefined, is_string, is_bigint and
\* is_function hold for their kind only.
ImportsMatchKinds ==
  LET v == answer.arg
      kind == [is_undefined |-> "undefined", is_string |-> "string", is_bigint |-> "bigint",
               is_function |-> "function", is_object |-> "object"]
  IN /\ answer.name \in DOMAIN kind => (answer.ret <=> v.type = kind[answer.name])
     /\ answer.name = "boolean_get" =>
          BoolFromAbi(answer.ret) = IF v.type = "boolean" THEN Some(v.val) ELSE None
     /\ answer.name = "number_get" =>
          F64FromAbi(answer.ret) = IF v.type = "number" THEN Some(v.val) ELSE None

\* Every u64 wasm passes to JS, the upper half whose i64 bits are negative
\* included, becomes the BigInt of the same unsigned value.
U64RoundTrip ==
  answer.name = "bigint_from_u64" => answer.ret = answer.arg
=============================================================================
