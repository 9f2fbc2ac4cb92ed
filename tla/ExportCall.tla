----------------------------- MODULE ExportCall -----------------------------
(***************************************************************************)
(* The protocol of the generated wrapper methods of                        *)
(* shinkai_message_wasm_bg.js around one exported wasm call: the JS object *)
(* that owns a Rust box through __wbg_ptr, the retptr area the export      *)
(* fills (r0 .. r3, read through the cached Int32Array view), the error    *)
(* flag and the error handle JS takes from the heap, a JS value result    *)
(* taken the same way, the result string that JS decodes and frees in   *)
(* `finally` (the deferred pair), and free()/__destroy_into_raw.           *)
(*                                                                         *)
(* The Rust side of each export is nondeterministic: it fails, or it       *)
(* allocates its result at any free address, and an allocation may grow    *)
(* wasm memory, which detaches the buffer of every cached view.            *)
(* Addresses are words of WordBits bits: Int32Array reads them signed, and *)
(* `>>> 0` makes them unsigned again.                                      *)
(***************************************************************************)
EXTENDS Naturals, Integers, FiniteSets

CONSTANTS
  Objs,      \* JS variables holding wrapper objects
  Addrs,     \* addresses the wasm allocator may hand out (never 0)
  WordBits,  \* width of a wasm pointer
  MaxGen,    \* bound on memory growths
  Handles    \* JS heap slots an export may hand JS a value or an error in

ASSUME /\ WordBits \in Nat \ {0}
       /\ Addrs \subseteq 1 .. 2^WordBits - 1
       /\ MaxGen \in Nat \ {0}
       /\ Handles \subseteq Nat

\* The export called, by what it passes and what it returns:
\*   this: it passes this.__wbg_ptr; res: "wrap" (__wrap of the result),
\*   "str" (a string through the deferred pair), "obj" (a JS value,
\*   takeObject of the result) or "unit"; err: it has an error flag;
\*   via: the result is read from the retptr area or is the wasm return
\*   value itself.
Ctor      == [this |-> FALSE, res |-> "wrap", err |-> TRUE,  via |-> "retptr"]
Build     == [this |-> TRUE,  res |-> "wrap", err |-> TRUE,  via |-> "retptr"]
ToString  == [this |-> TRUE,  res |-> "str",  err |-> TRUE,  via |-> "retptr"]
Recipe    == [this |-> FALSE, res |-> "str",  err |-> TRUE,  via |-> "retptr"]
Hash      == [this |-> TRUE,  res |-> "str",  err |-> FALSE, via |-> "retptr"]
Setter    == [this |-> TRUE,  res |-> "unit", err |-> TRUE,  via |-> "retptr"]
StaticStr == [this |-> FALSE, res |-> "str",  err |-> FALSE, via |-> "retptr"]
ToJsValue == [this |-> TRUE,  res |-> "obj",  err |-> TRUE,  via |-> "retptr"]
GetValue  == [this |-> TRUE,  res |-> "obj",  err |-> FALSE, via |-> "direct"]
EncryptionMethodNew == [this |-> FALSE, res |-> "wrap", err |-> FALSE, via |-> "direct"]
Exports == {Ctor, Build, ToString, Recipe, Hash, Setter, StaticStr, ToJsValue, GetValue,
            EncryptionMethodNew}

\* The words the Ok value of a Result takes in the retptr area: none for
\* (), a pointer or a heap index for a box or a JsValue, pointer and
\* length for a String. The error handle is stored in the word after
\* them, and the flag in the word after that.
OkWords(e) == CASE e.res = "unit" -> 0 [] e.res = "str" -> 2 [] OTHER -> 1

\* The word of the retptr area the export stores its error handle in.
RustErrWord(e) == OkWords(e)

\* Mutant of ErrWord: every wrapper throws takeObject(r1).
ErrWordR1(e) == 1

\* The word the wrapper throws takeObject of: `if (r1) throw takeObject(r0)`
\* for a unit result (the setters, lines 1150-1151), `if (r3) { ptr1 = 0;
\* len1 = 0; throw takeObject(r2) }` for a string result, and
\* `if (r2) throw takeObject(r1)` for the others (lines 1117-1118).
ErrWord(e) ==
  CASE e.res = "unit" -> 0
    [] e.res = "str"  -> 2
    [] OTHER          -> 1

NoCall == [pc |-> "idle"]

VARIABLES
  ptrOf,     \* ptrOf[o]: o.__wbg_ptr (0 when freed or never set)
  boxes,     \* Rust boxes alive in wasm memory
  strs,      \* result strings alive in wasm memory
  gen,       \* generation of wasm.memory.buffer
  cached32,  \* generation cachedInt32Memory0 views; 0 for null
  call,      \* the wrapper call in progress
  handles,   \* heap slots holding a value an export handed JS, not yet taken
  uaf        \* an export was passed the address of a freed box

vars == <<ptrOf, boxes, strs, gen, cached32, call, handles, uaf>>

-----------------------------------------------------------------------------
\* Int32Array element read of a word, and `x >>> 0`.
ToInt32(a) == IF a >= 2^(WordBits - 1) THEN a - 2^WordBits ELSE a
ToUint32(x) == x % 2^WordBits

\* Mutant of GetInt32Memory0: only a null cache is replaced.
GetInt32MemoryNullOnly(g) == IF cached32 = 0 THEN g ELSE cached32

\* getInt32Memory0 with the buffer at generation g (lines 108-113).
GetInt32Memory0(g) == IF cached32 = 0 \/ cached32 # g THEN g ELSE cached32

\* Mutant of Wrap: __wrap without `ptr = ptr >>> 0`.
WrapSigned(r0) == r0

\* Class.__wrap(ptr): the new object's __wbg_ptr is ptr >>> 0.
Wrap(r0) == ToUint32(r0)

Grown(g) == {g, g + 1} \cap 1 .. MaxGen
Live == boxes \cup strs

-----------------------------------------------------------------------------
\* A wrapper method is entered: retptr = add_to_stack_pointer(-16), the
\* arguments are marshalled, and the export is called with this.__wbg_ptr
\* when it takes one. A "wrap" result goes to a variable t.
Call(e, o, t) ==
  /\ call = NoCall
  /\ e.res = "wrap" => ptrOf[t] = 0
  /\ call' = [pc |-> "wasm", e |-> e, this |-> IF e.this THEN ptrOf[o] ELSE 0,
              t |-> t, fail |-> FALSE, val |-> 0, h |-> 0, at |-> 0]
  /\ UNCHANGED <<ptrOf, boxes, strs, gen, cached32, handles, uaf>>

\* Rust rejects a null this (a freed wrapper): the export throws through
\* __wbindgen_throw and JS goes straight to `finally`.
RustNull ==
  /\ call.pc = "wasm" /\ call.e.this /\ call.this = 0
  /\ call' = [call EXCEPT !.pc = "threw"]
  /\ UNCHANGED <<ptrOf, boxes, strs, gen, cached32, handles, uaf>>

\* The export returns its result: an error (a JS value added to the heap,
\* its handle in the retptr area, flag set), a JS value added to the heap,
\* or a box, a string or nothing, freshly allocated.
RustReturn ==
  /\ call.pc = "wasm" /\ (call.e.this => call.this # 0)
  /\ uaf' = (uaf \/ (call.e.this /\ call.this \notin boxes))
  /\ \/ /\ call.e.err
        /\ \E h \in Handles \ handles :
             /\ call' = [call EXCEPT !.pc = "read", !.fail = TRUE, !.h = h,
                                     !.at = RustErrWord(call.e)]
             /\ handles' = handles \cup {h}
        /\ UNCHANGED <<boxes, strs, gen>>
     \/ /\ call.e.res = "unit"
        /\ call' = [call EXCEPT !.pc = "read"]
        /\ UNCHANGED <<boxes, strs, gen, handles>>
     \/ /\ call.e.res = "obj"
        /\ \E h \in Handles \ handles :
             /\ call' = [call EXCEPT !.pc = "read", !.h = h]
             /\ handles' = handles \cup {h}
        /\ UNCHANGED <<boxes, strs, gen>>
     \/ /\ call.e.res \in {"wrap", "str"}
        /\ \E a \in Addrs \ Live, g \in Grown(gen) :
             /\ call' = [call EXCEPT !.pc = "read", !.val = a]
             /\ boxes' = IF call.e.res = "wrap" THEN boxes \cup {a} ELSE boxes
             /\ strs' = IF call.e.res = "str" THEN strs \cup {a} ELSE strs
             /\ gen' = g
        /\ UNCHANGED handles
  /\ UNCHANGED <<ptrOf, cached32>>

\* An allocation with memory exhausted aborts: the wasm call traps with a
\* RuntimeError and JS goes to `finally`.
RustTrap ==
  /\ call.pc = "wasm" /\ call.e.res # "unit" /\ Addrs \subseteq Live
  /\ call' = [call EXCEPT !.pc = "threw"]
  /\ UNCHANGED <<ptrOf, boxes, strs, gen, cached32, handles, uaf>>

\* JS reads r0 .. r3 through getInt32Memory0(), or takes the wasm return
\* value of a "direct" export. Through a detached view every read is
\* undefined: the flag is falsy, `undefined >>> 0` is 0,
\* getStringFromWasm0(undefined, undefined) decodes nothing, and
\* takeObject(undefined) takes no slot. With the flag set JS throws
\* takeObject of the error word (a "str" export first zeroes its ptr/len,
\* never the deferred pair): the slot is released if that is the word the
\* export stored the handle in, and otherwise takeObject reads a length or
\* a flag, an index below the slab, which dropObject leaves alone.
\* Otherwise a "wrap" result becomes the object in t, a "str" result is
\* stored in the deferred pair and decoded, and an "obj" result is taken:
\* heap indices are below 2^31, so the signed read returns them as they are.
ReadResult ==
  LET direct == call.e.via = "direct"
      view == IF direct THEN cached32 ELSE GetInt32Memory0(gen)
      stale == ~direct /\ view # gen
      r0 == ToInt32(call.val)
  IN /\ call.pc = "read"
     /\ cached32' = view
     /\ IF ~stale /\ call.fail
          THEN /\ call' = [call EXCEPT !.pc = "threw"]
               /\ handles' = IF ErrWord(call.e) = call.at THEN handles \ {call.h} ELSE handles
               /\ UNCHANGED ptrOf
          ELSE /\ handles' = IF ~stale /\ call.e.res = "obj" THEN handles \ {call.h} ELSE handles
               /\ /\ ptrOf' = IF call.e.res = "wrap"
                              THEN [ptrOf EXCEPT ![call.t] = IF stale THEN 0 ELSE Wrap(r0)]
                              ELSE ptrOf
               /\ call' = [pc |-> "finally", e |-> call.e, val |-> call.val, h |-> call.h,
                           deferred |-> IF stale \/ call.e.res # "str" THEN 0 ELSE r0,
                           ret |-> CASE stale -> 0
                                     [] call.e.res = "wrap" -> Wrap(r0)
                                     [] call.e.res = "obj" -> call.h
                                     [] call.e.res = "str" /\ ToUint32(r0) \in strs -> ToUint32(r0)
                                     [] OTHER -> 0]
     /\ UNCHANGED <<boxes, strs, gen, uaf>>

\* Mutant of Finally: the deferred __wbindgen_free is missing.
FinallyNoFree ==
  /\ call.pc \in {"finally", "threw"}
  /\ call' = NoCall
  /\ UNCHANGED <<ptrOf, boxes, strs, gen, cached32, handles, uaf>>

\* `finally`: add_to_stack_pointer(16), and for a "str" export
\* __wbindgen_free(deferred0, deferred1, 1). After a throw the pair is
\* undefined, passed as 0, and freeing 0 bytes is a no-op.
Finally ==
  /\ call.pc \in {"finally", "threw"}
  /\ strs' = IF call.pc = "finally" /\ call.e.res = "str"
                THEN strs \ {ToUint32(call.deferred)} ELSE strs
  /\ call' = NoCall
  /\ UNCHANGED <<ptrOf, boxes, gen, cached32, handles, uaf>>

\* Mutant of Free: __destroy_into_raw does not zero __wbg_ptr.
FreeNoZero(o) ==
  /\ call = NoCall
  /\ boxes' = boxes \ {ptrOf[o]}
  /\ uaf' = (uaf \/ (ptrOf[o] # 0 /\ ptrOf[o] \notin boxes))
  /\ UNCHANGED <<ptrOf, strs, gen, cached32, call, handles>>

\* o.free(): ptr = __destroy_into_raw() (read __wbg_ptr, zero it), then
\* the class's __wbg_*_free(ptr) drops the box; for 0 Rust throws and
\* nothing changes.
Free(o) ==
  /\ call = NoCall
  /\ ptrOf' = [ptrOf EXCEPT ![o] = 0]
  /\ boxes' = boxes \ {ptrOf[o]}
  /\ uaf' = (uaf \/ (ptrOf[o] # 0 /\ ptrOf[o] \notin boxes))
  /\ UNCHANGED <<strs, gen, cached32, call, handles>>

Init ==
  /\ ptrOf = [o \in Objs |-> 0]
  /\ boxes = {}
  /\ strs = {}
  /\ gen = 1
  /\ cached32 = 0
  /\ call = NoCall
  /\ handles = {}
  /\ uaf = FALSE

Next ==
  \/ \E e \in Exports, o \in Objs, t \in Objs : Call(e, o, t)
  \/ RustNull \/ RustReturn \/ RustTrap \/ ReadResult \/ Finally
  \/ \E o \in Objs : Free(o)

Spec == Init /\ [][Next]_vars

-----------------------------------------------------------------------------
TypeOK ==
  /\ ptrOf \in [Objs -> 0 .. 2^WordBits - 1]
  /\ boxes \subseteq Addrs /\ strs \subseteq Addrs
  /\ cached32 \in 0 .. gen
  /\ call.pc \in {"idle", "wasm", "read", "threw", "finally"}
  /\ handles \subseteq Handles

\* No JS wrapper holds the address of a freed box, so no export is ever
\* passed one: free() zeroes __wbg_ptr before the box is dropped, even
\* when the allocator hands the same address to a new box.
NoDanglingPtr ==
  /\ \A o \in Objs : ptrOf[o] # 0 => ptrOf[o] \in boxes
  /\ ~uaf

\* Every result string an export allocates is freed by the wrapper's
\* `finally` before the wrapper returns, on the error path too.
ResultStringsFreed == call = NoCall => strs = {}

\* Every JS value an export hands JS in a heap slot, a result or an error,
\* is taken by the wrapper before it returns or throws, so its slot goes
\* back to the free list; whichever word of the retptr area holds it.
HandlesTaken == call = NoCall => handles = {}

\* A wrapper that returns normally returns what the export produced: the
\* box for a constructor or build, the string (decoded before the
\* deferred free) for a string result, even when the export grew memory.
ResultIntact ==
  call.pc = "finally" /\ call.e.res # "unit" =>
    call.ret = IF call.e.res = "obj" THEN call.h ELSE call.val

====
