------------------------------ MODULE WasmHeap ------------------------------
(***************************************************************************)
(* The JS half of the wasm-bindgen boundary of the message library,        *)
(* src/shinkai-libs/shinkai-message-wasm/pkg/shinkai_message_wasm_bg.js.   *)
(*                                                                         *)
(* One JS array `heap` carries three things:                               *)
(*  - indices 1 .. STACK_TOP-1: the stack of objects lent to wasm for the  *)
(*    duration of one call, growing down from stack_pointer;               *)
(*  - indices STACK_TOP .. STACK_TOP+3: the constants undefined, null,     *)
(*    true, false, which wasm names by these fixed indices;                *)
(*  - indices from STACK_TOP+4 on: a slab of JS values owned by wasm       *)
(*    handles; a free slot holds the index of the next free slot, and      *)
(*    heap_next heads that free list.                                      *)
(* Exported calls nest: while the wasm code of one call runs it may call   *)
(* an import that runs user JS (a getter read through Reflect.get, a       *)
(* function called through .call), and that JS may call another export.   *)
(* A frame of `frames` is one exported call in progress; only the          *)
(* innermost one runs.                                                     *)
(***************************************************************************)
EXTENDS Naturals, Sequences, FiniteSets

CONSTANTS
  STACK_TOP, \* length the heap is created with: 128 (line 7)
  Objs,      \* JS values that cross the boundary (model values)
  BorrowArgs, \* argument tuples of borrowing constructors (1 to 3 values)
  MaxHeap,   \* bound on heap.length
  MaxDepth   \* bound on the nesting of exported calls

ASSUME STACK_TOP \in Nat \ {0, 1}
ASSUME MaxHeap \in Nat /\ MaxHeap >= STACK_TOP + 4
ASSUME MaxDepth \in Nat \ {0}
ASSUME BorrowArgs \subseteq Seq(Objs) /\ \A a \in BorrowArgs : Len(a) \in 1 .. 3

VARIABLES
  heap,          \* the JS array, a function over 0 .. heap.length-1
  heap_next,     \* head of the slab's free list
  stack_pointer, \* top of the borrowed-object stack
  frames,        \* exported calls in progress, innermost last
  wasmOwned      \* slab handles the wasm side currently owns

vars == <<heap, heap_next, stack_pointer, frames, wasmOwned>>

JsConsts == <<"undefined", "null", "true", "false">>
SLAB_START == STACK_TOP + 4 \* the literal 132 of dropObject (line 25)

\* A heap entry is a JS value or, in a free slab slot, the next free index.
Val(v) == [val |-> v]
Link(n) == [link |-> n]
IsLink(e) == "link" \in DOMAIN e

HeapLength(h) == Cardinality(DOMAIN h)
Push(h, e) == [i \in 0 .. HeapLength(h) |-> IF i < HeapLength(h) THEN h[i] ELSE e]

\* heap[i] = e: a JS array grows to i + 1 when i is past its end, the
\* holes in between reading as undefined.
Store(h, i, e) ==
  [j \in 0 .. IF i < HeapLength(h) THEN HeapLength(h) - 1 ELSE i |->
     CASE j = i -> e [] j < HeapLength(h) -> h[j] [] OTHER -> Val("undefined")]

\* A handle is the index wasm uses and the value it stands for.
Handle(i, v) == [idx |-> i, obj |-> v]
ReservedHandles == {Handle(STACK_TOP + k - 1, JsConsts[k]) : k \in 1 .. 4}

\* args: the values the call lends or hands over; slots: the stack slots
\* its arguments were lent in so far; ret: a handle wasm handed back.
Frame(kind, pc, args) == [kind |-> kind, pc |-> pc, args |-> args, slots |-> <<>>, ret |-> {}]
Top == frames[Len(frames)]
SetTop(f) == frames' = [frames EXCEPT ![Len(frames)] = f]
Pop == frames' = SubSeq(frames, 1, Len(frames) - 1)
InWasm == frames # <<>> /\ Top.pc = "wasm"
\* An export is called from top-level JS, or from JS an import ran.
\* The slab can take one more value within the MaxHeap bound.
HasRoom == heap_next < HeapLength(heap) \/ HeapLength(heap) < MaxHeap
CanCall == Len(frames) < MaxDepth /\ IF frames = <<>> THEN TRUE ELSE Top.pc = "wasm"

-----------------------------------------------------------------------------
(* Slab allocator.                                                         *)

\* Mutant: the free-list head is not advanced.
AddHeapObjectNoAdvance(v) ==
  LET h == IF heap_next = HeapLength(heap)
             THEN Push(heap, Link(HeapLength(heap) + 1)) ELSE heap
  IN /\ HeapLength(h) <= MaxHeap
     /\ heap_next' = heap_next
     /\ heap' = [h EXCEPT ![heap_next] = Val(v)]

\* addHeapObject: when the free list is exhausted, grow the array by one
\* slot linking past its end; then pop the head of the free list. The new
\* handle is the old heap_next.
AddHeapObject(v) ==
  LET h == IF heap_next = HeapLength(heap)
             THEN Push(heap, Link(HeapLength(heap) + 1)) ELSE heap
  IN /\ HeapLength(h) <= MaxHeap
     /\ heap_next' = h[heap_next].link
     /\ heap' = [h EXCEPT ![heap_next] = Val(v)]

\* Mutant: the guard that keeps the reserved constants off the free list
\* is dropped.
DropObjectUnguarded(idx) ==
  /\ heap' = [heap EXCEPT ![idx] = Link(heap_next)]
  /\ heap_next' = idx

\* dropObject: indices below the slab are never freed; a slab slot is
\* pushed on the free list.
DropObject(idx) ==
  IF idx < SLAB_START
    THEN UNCHANGED <<heap, heap_next>>
    ELSE /\ heap' = [heap EXCEPT ![idx] = Link(heap_next)]
         /\ heap_next' = idx

-----------------------------------------------------------------------------
(* Exported calls, as the generated wrappers make them.                    *)

\* A constructor or fromJsValue (new InboxNameWrapper(js),
\* new JobScopeWrapper(buckets, documents), new JobMessageWrapper(job_id,
\* content, files_inbox), ShinkaiMessageWrapper.fromJsValue(j) ...): each
\* argument is lent to wasm on the borrowed-object stack, left to right,
\* inside the try block.
CallBorrow(args) ==
  /\ CanCall
  /\ frames' = Append(frames, Frame("borrow", "borrow", args))
  /\ UNCHANGED <<heap, heap_next, stack_pointer, wasmOwned>>

\* Mutant: the out-of-stack check is off by one and lends slot 0.
BorrowNoLimit ==
  /\ frames # <<>> /\ Top.pc = "borrow"
  /\ stack_pointer # 0
  /\ stack_pointer' = stack_pointer - 1
  /\ heap' = Store(heap, stack_pointer - 1, Val(Top.args[Len(Top.slots) + 1]))
  /\ SetTop([Top EXCEPT !.slots = Append(@, stack_pointer - 1),
                        !.pc = IF Len(Top.slots) + 1 = Len(Top.args) THEN "wasm" ELSE "borrow"])
  /\ UNCHANGED <<heap_next, wasmOwned>>

\* addBorrowedObject for the next argument.
Borrow ==
  /\ frames # <<>> /\ Top.pc = "borrow"
  /\ stack_pointer # 1
  /\ stack_pointer' = stack_pointer - 1
  /\ heap' = Store(heap, stack_pointer - 1, Val(Top.args[Len(Top.slots) + 1]))
  /\ SetTop([Top EXCEPT !.slots = Append(@, stack_pointer - 1),
                        !.pc = IF Len(Top.slots) + 1 = Len(Top.args) THEN "wasm" ELSE "borrow"])
  /\ UNCHANGED <<heap_next, wasmOwned>>

\* addBorrowedObject at stack_pointer = 1 throws 'out of js stack'; the
\* throw leaves the try block for its finally block.
BorrowOverflow ==
  /\ frames # <<>> /\ Top.pc = "borrow"
  /\ stack_pointer = 1
  /\ SetTop([Top EXCEPT !.pc = "finally"])
  /\ UNCHANGED <<heap, heap_next, stack_pointer, wasmOwned>>

\* finally { ...; heap[stack_pointer++] = undefined; } once per argument
\* the wrapper borrows, however many were borrowed when the try block
\* was left. After an 'out of js stack' the pointer drifts up by the
\* arguments that were never lent, into the constants, the slab and past
\* the end of the array, which the writes extend.
FinallyBorrow ==
  LET n == Len(Top.args)
      top == stack_pointer + n - 1
  IN /\ frames # <<>> /\ Top.pc = "finally"
     /\ heap' = [i \in 0 .. IF top < HeapLength(heap) THEN HeapLength(heap) - 1 ELSE top |->
                   IF i \in stack_pointer .. top \/ i \notin DOMAIN heap
                     THEN Val("undefined") ELSE heap[i]]
     /\ stack_pointer' = stack_pointer + n
     /\ Pop
     /\ UNCHANGED <<heap_next, wasmOwned>>

\* A setter taking an `any` (body_encryption, message_schema_type,
\* internal_metadata*, set message_body ...): addHeapObject(arg) hands the
\* value to wasm, which owns the new handle.
CallOwned(v) ==
  /\ CanCall
  /\ HasRoom
  /\ frames' = Append(frames, Frame("owned", "add", <<v>>))
  /\ UNCHANGED <<heap, heap_next, stack_pointer, wasmOwned>>

AddArg ==
  /\ frames # <<>> /\ Top.pc = "add"
  /\ AddHeapObject(Top.args[1])
  /\ wasmOwned' = wasmOwned \cup {Handle(heap_next, Top.args[1])}
  /\ SetTop([Top EXCEPT !.pc = "wasm"])
  /\ UNCHANGED stack_pointer

\* A getter returning `any` (message_body, to_jsvalue, get_value ...):
\* wasm returns a handle that JS takes.
CallGetter ==
  /\ CanCall
  /\ frames' = Append(frames, Frame("getter", "wasm", <<>>))
  /\ UNCHANGED <<heap, heap_next, stack_pointer, wasmOwned>>

-----------------------------------------------------------------------------
(* What the wasm code of the innermost call does through the imports.      *)

\* An import that creates a JS value and returns addHeapObject(ret), or
\* handleError storing a thrown exception with addHeapObject(e).
ImportAdd(v) ==
  /\ InWasm
  /\ AddHeapObject(v)
  /\ wasmOwned' = wasmOwned \cup {Handle(heap_next, v)}
  /\ UNCHANGED <<stack_pointer, frames>>

\* __wbindgen_object_drop_ref: a JsValue owned by wasm is dropped.
ImportDropRef(h) ==
  /\ InWasm
  /\ h \in wasmOwned
  /\ DropObject(h.idx)
  /\ wasmOwned' = wasmOwned \ {h}
  /\ UNCHANGED <<stack_pointer, frames>>

\* The export returns a handle to JS: the result r0 of a getter, or the
\* error r1 with the error flag set. wasm may return one of its constants.
ReturnHandle(h) ==
  /\ InWasm
  /\ h \in wasmOwned \cup ReservedHandles
  /\ wasmOwned' = wasmOwned \ {h}
  /\ SetTop([Top EXCEPT !.pc = "take", !.ret = {h}])
  /\ UNCHANGED <<heap, heap_next, stack_pointer>>

\* A constructor or setter returns without an error.
ReturnOk ==
  /\ InWasm
  /\ Top.kind # "getter"
  /\ IF Top.kind = "borrow" THEN SetTop([Top EXCEPT !.pc = "finally"]) ELSE Pop
  /\ UNCHANGED <<heap, heap_next, stack_pointer, wasmOwned>>

\* takeObject(r): read the value, then dropObject; `throw takeObject(r1)`
\* leaves through the finally block.
Take ==
  /\ frames # <<>> /\ Top.pc = "take"
  /\ \E h \in Top.ret : DropObject(h.idx)
  /\ IF Top.kind = "borrow" THEN SetTop([Top EXCEPT !.pc = "finally", !.ret = {}]) ELSE Pop
  /\ UNCHANGED <<stack_pointer, wasmOwned>>

-----------------------------------------------------------------------------
Init ==
  /\ heap = [i \in 0 .. STACK_TOP + 3 |->
               IF i < STACK_TOP THEN Val("undefined") ELSE Val(JsConsts[i - STACK_TOP + 1])]
  /\ heap_next = STACK_TOP + 4
  /\ stack_pointer = STACK_TOP
  /\ frames = <<>>
  /\ wasmOwned = {}

Next ==
  \/ \E a \in BorrowArgs : CallBorrow(a)
  \/ \E v \in Objs : CallOwned(v) \/ ImportAdd(v)
  \/ CallGetter
  \/ Borrow \/ BorrowOverflow \/ FinallyBorrow \/ AddArg
  \/ \E h \in wasmOwned : ImportDropRef(h)
  \/ \E h \in wasmOwned \cup ReservedHandles : ReturnHandle(h)
  \/ ReturnOk \/ Take

Spec == Init /\ [][Next]_vars

-----------------------------------------------------------------------------
\* How far finally blocks can push stack_pointer: the most any wrapper
\* lends is three arguments, in each of MaxDepth nested calls.
MaxDrift == 1 + 3 * MaxDepth

Values == Objs \cup {JsConsts[k] : k \in 1 .. 4}
AllHandles == [idx : 0 .. MaxHeap, obj : Values]

TypeOK ==
  /\ DOMAIN heap = 0 .. HeapLength(heap) - 1
  /\ HeapLength(heap) <= MaxHeap + MaxDrift
  /\ \A i \in DOMAIN heap : heap[i] \in {Val(v) : v \in Values} \cup {Link(n) : n \in 0 .. MaxHeap + 1}
  /\ heap_next \in 0 .. MaxHeap + MaxDrift
  /\ stack_pointer \in 1 .. MaxHeap + MaxDrift
  /\ wasmOwned \subseteq AllHandles
  /\ Len(frames) <= MaxDepth
  /\ \A i \in 1 .. Len(frames) :
       /\ frames[i].kind \in {"borrow", "owned", "getter"}
       /\ frames[i].pc \in {"borrow", "add", "wasm", "take", "finally"}
       /\ frames[i].ret \subseteq AllHandles

\* Slab handles held by wasm, or handed back to a frame and not yet taken.
HeldSlab == {h \in wasmOwned \cup UNION {frames[i].ret : i \in 1 .. Len(frames)} : h.idx >= SLAB_START}

\* Every slab handle wasm holds, or JS is about to take, still names the
\* value it was created for: addHeapObject never hands out a slot that is
\* in use, and no dropObject frees a slot a live handle names, whatever
\* nesting of constructors, setters, getters and imports ran before.
HandleIntegrity ==
  \A h \in HeldSlab : heap[h.idx] = Val(h.obj)

\* The free list from slot i: the slots it visits, and whether it reaches
\* the end of the array without leaving the slab or looping.
RECURSIVE FreeWalk(_, _)
FreeWalk(i, fuel) ==
  IF i = HeapLength(heap) THEN [ok |-> TRUE, slots |-> {}]
  ELSE IF fuel = 0 \/ i < SLAB_START \/ i > HeapLength(heap) \/ ~IsLink(heap[i])
    THEN [ok |-> FALSE, slots |-> {}]
  ELSE LET rest == FreeWalk(heap[i].link, fuel - 1)
       IN [rest EXCEPT !.slots = @ \cup {i}]

\* The free list threaded through the slab by addHeapObject and dropObject
\* is a simple chain ending at heap.length, it never reaches a stack slot
\* or a reserved constant (dropObject of a constant wasm returned, such as
\* undefined from get_unique_id, must not free it), and every slab slot is
\* either on it or named by exactly one live handle: no slot is leaked.
FreeListSound ==
  LET w == FreeWalk(heap_next, HeapLength(heap))
      held == {h.idx : h \in HeldSlab}
  IN /\ w.ok
     /\ w.slots \cap held = {}
     /\ w.slots \cup held = SLAB_START .. HeapLength(heap) - 1
     /\ Cardinality(held) = Cardinality(HeldSlab)

\* Every call that has lent its argument on the borrowed-object stack finds
\* it in its slot until the call returns, however many calls nest inside
\* it (lines 211-215 and the finally blocks of the borrowing wrappers).
BorrowIntact ==
  \A i \in 1 .. Len(frames) :
    frames[i].pc \in {"borrow", "wasm", "take"} =>
      \A k \in 1 .. Len(frames[i].slots) : heap[frames[i].slots[k]] = Val(frames[i].args[k])

\* Once every call has returned, the four constants wasm names by fixed
\* index (line 9) are still undefined, null, true and false: no finally
\* block of a borrowing wrapper has written over them.
ReservedIntact ==
  frames = <<>> => \A k \in 1 .. 4 : heap[STACK_TOP + k - 1] = Val(JsConsts[k])

-----------------------------------------------------------------------------
(* The slab implements a handle table.                                     *)

\* The slab seen as a table: every slab slot that holds a value, not a
\* free-list link, is a live handle standing for that value.
SlabTable ==
  [i \in {j \in SLAB_START .. HeapLength(heap) - 1 : ~IsLink(heap[j])} |-> heap[i].val]

Table == INSTANCE HandleTable WITH
           table <- SlabTable, Handles <- SLAB_START .. MaxHeap - 1, Values <- Values

\* addHeapObject, dropObject and takeObject, in every nesting of exported
\* calls and imports, implement the handle table: a value only ever enters
\* the slab at a free slot, a slab value only leaves through a drop, and no
\* step changes the value of a live handle in place, including the
\* finally blocks of the borrowing wrappers and the out-of-stack path.
HeapRefined == Table!Spec

=============================================================================
