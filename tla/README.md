# TLA+ models of the Shinkai message library bindings and app clients

This directory holds TLA+ models of the parts of this repository that have
state and behaviour. They are checked with TLC. Every module is translated
from the source under `src/`, and `PROJECT.json` maps each definition to the
lines it models.

## 1. Inventory

The spec (`spec.md`) describes a Rust message-envelope protocol: identity
names, inbox names, crypto, an envelope builder, registration codes and jobs.
That Rust code is **not** in this repository's `src/`. What is present is this:

| Component | Source | State | Operations |
|---|---|---|---|
| **wasm-bindgen JS heap** | `shinkai-libs/shinkai-message-wasm/pkg/shinkai_message_wasm_bg.js` lines 1-34, 209-215, 270-276, 2833-3186 | the single array `heap`: slots 1..127 are the borrowed-object stack (top `stack_pointer`); 128..131 are the constants undefined/null/true/false; from 132 on is a slab of wasm-owned JS values whose free slots are linked through the array (head `heap_next`) | `addHeapObject`, `dropObject`, `takeObject`, `getObject`, `addBorrowedObject`; the imports that create, clone and drop JS values |
| **String and result marshalling** | same file lines 36-143 and every wrapper | `WASM_VECTOR_LEN`, the cached `Uint8Array`, `Int32Array`, `Float64Array` and `BigInt64Array` views of wasm memory, and the wasm shadow stack (`__wbindgen_add_to_stack_pointer`) | `passStringToWasm0` (an ASCII fast path, then realloc and `encodeInto`), `getStringFromWasm0`, the retptr result and error-flag protocol, the deferred `__wbindgen_free` |
| **Wrapper classes** | same file lines 279-2830, typings in `unnamed/part_000` | `__wbg_ptr` of every `InboxNameWrapper`, `ShinkaiMessageBuilderWrapper`, `ShinkaiMessageWrapper`, `ShinkaiNameWrapper`, `Job*Wrapper` and `SerializedAgentWrapper` | constructors, setters, getters, `build*`, `free`/`__destroy_into_raw`, and static recipes (`ack_message`, `job_message`, ...) that each marshal strings, call wasm, and free the result |
| Rust core: builder, envelope, names, crypto | not in `src/` | builder fields | described in the spec, sections 4.1-4.6 |
| **App wrapper** | `shinkai-app/src/lib/wasm/ShinkaiMessageWrapper.ts`, `utils/shinkai_message_handler` (part of `ChatMessages.tsx` listing) | one wasm wrapper per message | constructor, `calculate_hash`, getters |
| **Chat message list** | `shinkai-app/src/components/ChatMessages.tsx` | `lastKey`, `mostRecentKey`, `prevMessagesLength`, `hasMoreMessages`, `messages`; the Redux inbox | initial fetch, a 5 s unread poll, Load More, and an effect on each store change |
| **Tool exec mode** | `unnamed/part_002` | temporary script files | `runScript`: write, exec, unlink |
| Toolkit setup, HTTP tool | `typescript/.../ToolKitSetup.ts`, `unnamed/part_003` | none | one awaited HTTP request each |
| **Tray routes** | `shinkai-mini-apps/shinkai-tray/src/routes/index.tsx` | the current path, the setup data from the auth context, `ApiConfig`'s endpoint | route resolution, `ProtectedRoute`'s redirect and its `setEndpoint` effect, the `validate_setup_data` invoke |
| Action types, store types, manifests, Dockerfile | | none | constants and type declarations |

**How the parts interact.** The app and tray code call the wrapper classes
synchronously. Each wrapper method moves its arguments into wasm memory in
one of three ways:
- strings are copied by `passStringToWasm0`;
- `any` values are handed over through `addHeapObject`, and wasm then owns
  the handle;
- constructor arguments are lent through `addBorrowedObject`, and the
  `finally` block takes them back.

The wrapper then calls the export and reads the result from the retptr area
of wasm memory. An error comes back as a heap handle that JS takes and
throws. While the export runs, wasm calls imports, and they create, clone
and drop heap values. Some imports (`Reflect.get`, `Function.call`,
`getter`s of the argument) run arbitrary JS, which can call exports again.
Those nested calls share `heap`, `heap_next` and `stack_pointer`.

**What is hard.**
- Re-entrant nesting of exports and imports.
- The error path of `addBorrowedObject` inside `try`.
- Ownership that is only a convention: one take or one drop per handle.
- Reserved constants that wasm names by index.
- Memory views that go stale when wasm memory grows.
- Chat: fetch responses that arrive in any order against state derived
  from earlier renders.
- Chat: a poll timer that throws when the inbox is empty.
- Exec mode: a failing `exec` that skips the cleanup.
- Tray: React runs a child's effects before its parent's, so a page can
  act before `ProtectedRoute` has pointed `ApiConfig` at the node.
- App wrapper: a constructor whose arguments do not match the wasm one.

**What makes each part correct.**
- Heap:
  - no live handle's slot is reused;
  - the free list is a simple chain over the slab only;
  - no slot leaks;
  - a lent argument stays in place until its call returns;
  - the constants never change.
- Marshalling:
  - bytes written = the UTF-8 encoding of the string, within the
    allocation;
  - every write goes through a view of the current buffer;
  - an optional argument decodes as None exactly when it was absent.
- Wrappers: no call reaches wasm with a freed pointer, and every result
  string is freed once.
- Chat:
  - a message that reaches the node is eventually shown;
  - Load More disappears only when the node has no older messages;
  - no message appears twice.
- Exec mode: no temporary file outlives its run.
- Tray: a protected page shows only with setup data, and every request
  goes to the node of the current setup.

## 2. Plan

In order of importance:

1. **`WasmHeap`** (done): the shared heap array, with nested exported calls.
2. **`PassString`** (done): `passStringToWasm0` as an algorithm over UTF-16 code
   unit classes, checked against a RECURSIVE reference UTF-8 encoder. Also
   the cached views across memory growth, and `WASM_VECTOR_LEN` for
   optional arguments (`get_last_messages_from_inbox`).
3. **`ExportCall`** (done): the JS side of one exported call:
   - the wrapper handle lifecycle (`__wbg_ptr`, `__wrap`, `free`);
   - the retptr/error-flag protocol;
   - the deferred frees of result strings.

   The builder's own field rules are in the Rust code, which is not in
   `src/`. If they are modelled, it will be from the spec (section 4.4), as
   an abstract builder that the wrapper-level calls refine.
4. **`ChatMessages`** (done): the component's effects, the poll timer and
   Load More, with answers delivered in any order, and liveness under
   fairness of the timer and of each request.
5. **`ExecMode`** (done): concurrent `runScript` calls and `exec` failure.
6. **`Utf8`/`ArgPassing`** (done): what argument passing promises, as an
   abstract specification that `PassString` is shown to implement.
7. **`MessageHash`** (done): the app wrapper's constructor, composed into
   `ChatMessages`.
8. **`TrayRoutes`** (done): the tray's routes and the order of their
   effects.
9. **`ImportStrings`** (done): `debugString` and the imports that hand
   strings to wasm, composed into the `PassString` run.
10. **`HandleTable`** (done): what the heap's slab promises, as an
    abstract specification that `WasmHeap` is shown to implement.
11. **`ImportValues`** (done): the imports through which wasm asks what a
    JS value is or reads one, composed into the `ExportCall` run.
12. **`InboxName`** (not started): the regular-inbox derivation lives in
    the Rust core, which is not in `src/`. Only the spec describes it, and
    the generated bindings add no behaviour to it.

## 3. Modules and runs

### `WasmHeap` (`MC_WasmHeap`)

| Model | Code |
|---|---|
| `heap` (a function over `0 .. heap.length-1`) | `heap` |
| `heap_next`, `stack_pointer` | `heap_next`, `stack_pointer` |
| an entry `Val(v)` | a JS value |
| an entry `Link(n)` | a free slot holding the next free index |
| `frames` (innermost last) | the exported calls in progress |
| `wasmOwned` | the heap handles the wasm side owns |

Actions:
- **`CallBorrow` / `Borrow` / `BorrowOverflow` / `FinallyBorrow`**: a
  constructor that lends one to three arguments. This covers
  `new InboxNameWrapper`, `new JobScopeWrapper` (two arguments),
  `new JobMessageWrapper` (three) and `fromJsValue`. `BorrowOverflow` is
  the `'out of js stack'` throw at `stack_pointer == 1`, which leaves the
  `try` block for the `finally` block. The `finally` block pops one slot
  per argument.
- **`CallOwned` / `AddArg`**: a setter taking `any` (`body_encryption`,
  `message_schema_type`, `internal_metadata*`, `set message_body`). It
  calls `addHeapObject(arg)`, and wasm owns the new handle.
- **`CallGetter`**: a getter returning `any`.
- **`ImportAdd` / `ImportDropRef`**: the imports that `addHeapObject` a new
  value (also `handleError`), and `__wbindgen_object_drop_ref`.
- **`ReturnHandle` / `ReturnOk` / `Take`**: the export returns. It returns
  either a handle (`r0`, or the error `r1`), which may be one of the
  constants, and JS takes it. Or it returns nothing.

A new call may start only from top level or while the innermost call is in
wasm. This is how an import running user JS re-enters.

Bounds (`MC_WasmHeap.tla`):
- `STACK_TOP = 3` instead of 128. Two nested borrows fill the stack and a
  third overflows it, which is the same boundary the code has at 127.
- Two slab slots.
- Two values.
- Argument tuples `<<o1>>`, `<<o2>>`, `<<o1, o2>>`.
- Nesting depth 3.

These reach every branch: growth of the array, reuse of a freed slot, a
constant returned and taken, overflow with one and with two arguments, and
a nested call inside each kind of call.

They also bound the overflow path. After an `'out of js stack'` every
enclosing constructor's `finally` still pops all its arguments, so
`stack_pointer` drifts up. With at most two arguments per call it ends at
7, so the `finally` writes reach slot 6 (`false`) and never the slab, which
starts at 7. `heap[stack_pointer++] = undefined` past the end of the array
grows it (`Store` and `FinallyBorrow` model that), which these bounds also
never reach. So the slab properties below are shown for every nesting in
which the drift stays below the slab, not for the overflow path in
general. `MC_WasmHeap_drift.cfg` adds `JobMessageWrapper`'s three lent
arguments (lines 677, 687-689), and there the drift does reach the slab.
TLC finds `HandleIntegrity` violated in 19 steps: the outermost
constructor's `finally` writes `undefined` over slot 7 while wasm owns the
value an import put there. `HeapRefined` is violated in the same way. This
is the same code bug as the `BorrowIntact` finding, further along, so the
cfg is kept beside the runs rather than as a run of its own. It is listed
as a hazard.

| Run | cfg | Expect | What it shows |
|---|---|---|---|
| `wasmheap_slab` | `MC_WasmHeap.cfg` | pass | `HandleIntegrity`: every handle wasm holds, or JS is about to take, still names its value. `FreeListSound`: the free list is a simple chain over the slab ending at `heap.length`, and every slab slot is free or held by exactly one handle. Both hold under every nesting these bounds allow, the overflow path included as far as its drift stays below the slab (above). `HeapRefined`: the slab implements the abstract `HandleTable` (below). The run has about 257k states and takes about 20 s. Mutants: `addHeapObject` without advancing `heap_next` breaks `HandleIntegrity` and `HeapRefined`; `dropObject` without its guard breaks `FreeListSound`. |
| `wasmheap_borrow_overflow` | `MC_WasmHeap_borrow.cfg` | violation | `BorrowIntact`: two nested constructors fill the stack. A third throws `'out of js stack'`, and its `finally` block writes `undefined` over the argument the second one still has on loan (7 steps). |

The same overflow also leaves `stack_pointer` above 128 after all calls
return, and the `finally` block of the next borrowing constructor then
overwrites the reserved `null` constant with `undefined`.
`MC_WasmHeap_reserved.cfg` checks `ReservedIntact` and TLC finds it
violated; it is recorded with the `BorrowIntact` finding, whose cause it
shares.

The violation is a finding in the generated glue. `addBorrowedObject`
is evaluated inside `try`, and the `finally` block pops unconditionally.
Reaching them in the real program takes 127 nested borrowing calls, which
needs user JS re-entering the bindings through getters.

**The abstract specification.** `HandleTable` is what the slab promises
wasm: a table of JS values by handle.
- `Add` names a value by a handle no live value has.
- `Drop` removes a live handle.
- No step changes a live handle's value.

`WasmHeap` instantiates it with
`Table == INSTANCE HandleTable WITH table <- SlabTable, ...`. `SlabTable` is
the refinement mapping: every slab slot holding a value rather than a
free-list link is a live handle.
- `AddArg` and `ImportAdd` are `Add`.
- `Take` and `ImportDropRef` of a slab handle are `Drop`.
- Every stack and constant step is a stuttering step.

`HeapRefined == Table!Spec` is checked as a `PROPERTY`. It is stronger
than `HandleIntegrity` in one respect: it also covers slab values that no
handle names any more.

The table covers the slab only. The reserved constants are left out
because, under the overflow path, a `finally` block does overwrite `null`
(`MC_WasmHeap_reserved.cfg`, above).

Not modelled in `WasmHeap`:
- The wasm shadow stack (`add_to_stack_pointer(-16)` and `(+16)` in
  `finally`). It is balanced on every path, so it holds by construction.
- `getObject`-only imports, which do not change state.
- Clones (`__wbindgen_object_clone_ref`), which are `ImportAdd` of a value
  already on the heap.

### `PassString` (`MC_PassString`)

A call of a wrapper such as `get_last_messages_from_inbox` marshals its
string arguments in order. Each one is
`ptrN = passStringToWasm0(argN, malloc, realloc); lenN = WASM_VECTOR_LEN`.
For an optional argument, `ptrN` is `isLikeNone(argN) ? 0 : ...`, so that
argument's `lenN` is whatever the previous argument left in
`WASM_VECTOR_LEN`.

A JS string is a sequence of UTF-16 code-unit classes:
- `"A"`: ASCII;
- `"B"`: two UTF-8 bytes;
- `"C"`: three bytes;
- `"H"` and `"L"`: surrogates. A pair encodes as 4 bytes, and a lone one as
  U+FFFD (3 bytes).

A byte is named by the character it belongs to. `Utf8` is the reference
encoding, defined RECURSIVEly. `EncodeInto` is `TextEncoder.encodeInto`:
whole characters while they fit.

| Model | Code |
|---|---|
| `gen` | the generation of `wasm.memory.buffer` (a growth detaches the old one) |
| `cached`, `mem` | `cachedUint8Memory0` and the local `mem` view, by the generation they view |
| `block`, `offset`, `ptr` | the allocation's bytes, `offset`, `ptr` (0 or non-zero) |
| `WASM_VECTOR_LEN` | `WASM_VECTOR_LEN` |
| `received` | what wasm decodes from each `(ptrN, lenN)` pair |

Actions:
- `PassNone`: the `isLikeNone` branch.
- `Malloc`: lines 74-77.
- `AsciiLoop`: lines 79-85.
- `Realloc`: lines 87-96.
- `Return`: lines 98-99.
- `ReadLen`: `lenN = WASM_VECTOR_LEN`, and wasm's decoding of the pair.
- `NewCall`: the next wrapper call. Memory, the cache and
  `WASM_VECTOR_LEN` persist across calls.

Memory may grow in any `malloc` or `realloc`, up to `MaxGen = 3`
generations. The `realloc === undefined` branch is left out: every one of
the 178 call sites passes `__wbindgen_realloc`. So is the `encode` + `set`
fallback of `encodeString`: Node and every current browser have
`encodeInto`.

Bounds:
- every string of up to two code units, and every three-unit string that
  starts with ASCII (56 strings). These include surrogate pairs, reversed
  and lone surrogates, and every unit class after an ASCII prefix, so
  `Realloc` runs on every remainder the ASCII loop can leave;
- argument lists of one argument, or two where one is absent, in either
  order.

An earlier bound of every three-unit string (156 strings, 342k states),
checked with the same property stated as an invariant, also passed. It was
narrowed so that the temporal refinement check runs in
well under a minute. `"AC"` still shows that 2 bytes per unit would be too
few.

| Run | cfg | Expect | What it shows |
|---|---|---|---|
| `passstring_args` | `MC_PassString.cfg` | pass | `ArgPassingRefined`: `PassString` implements `ArgPassing` (below): every argument reaches wasm as exactly its UTF-8 bytes, or as None when absent, across memory growth and repeated calls, including the strings the imports below pass (102k states, about 40 s). `DebugStringJoins`: `debugString` of every value in `MC_DebugValues` equals the reference rendering. A loop from index 0 renders the first element twice and breaks it. `TypeOK` includes `offset` within the allocation. The recorded mutants: a cache checked only for null writes to a detached buffer, and an ASCII loop running to `offset <= len` overruns the allocation. Reserving 2 bytes per unit instead of 3 also breaks `ArgsArriveIntact` (a truncated `"C"` character); this was checked by hand. |

**The abstract specification.** `Utf8` holds the reference encoding and
`Decoded`, what wasm reads from a pair (the bytes, or None for pointer 0).
`ArgPassing` is what a wrapper call promises: a call takes an argument list
from `Inputs`, and each step hands wasm the next argument as `Decoded` of
it. It has no memory, cache or length. `PassString` instantiates it with
`Abstract == INSTANCE ArgPassing`, by the identity mapping on `args`, `i` and
`received`: every `PassNone`, `Malloc`, `AsciiLoop`, `Realloc` and `Return`
step leaves them alone (a stuttering step of `ArgPassing`), `ReadLen` is
`PassArg`, and `NewCall` is `NextCall`. `ArgPassingRefined == Abstract!Spec`
is checked as a `PROPERTY`. The refinement run uses every string of up to
two units, and the three-unit strings that start with ASCII (the prefix
that reaches the `Realloc` path after the ASCII loop).

**Strings passed by imports (`ImportStrings`).** Wasm also receives
strings from JS imports. `__wbindgen_debug_string` passes `debugString(v)`
(lines 3171-3177), and `__wbindgen_string_get` passes `v` when it is a
string, else pointer 0 with the stale `WASM_VECTOR_LEN` (lines 2852-2859).
Both write the `(ptr, len)` pair into a retptr area that wasm reads like an
argument pair, so `MC_Inputs` adds them as one-argument calls.

`DebugString` translates `debugString` (lines 144-207) branch by branch:
- primitives;
- strings in quotes;
- `Symbol(desc)` and `Function(name)`;
- arrays;
- `Object(JSON)`, or `Object` when `JSON.stringify` throws;
- errors as `name: message\nstack`;
- any other class by name.

The array branch renders element 0, then loops from index 1 with `", "`
separators (`ArrayLoop`, `ArrayDebug`). `DebugRef` is a reference built
from `SequencesExt`'s `Interleave` and `FlattenSeq`.

Literal text is ASCII, and only its length matters to the encoder.
Engine-produced text (a number's digits, a JSON result, a stack) is given
with the value. `MC_DebugValues` has 17 values, one or more for every
branch, including nested arrays and strings holding surrogates.

A self-containing array makes `debugString` recurse until the stack
overflows. That is listed as a hazard. A cyclic value is not a finite
TLA+ value, so it is not modelled.

### `ExportCall` (`MC_ExportCall`)

Every wrapper method has the same shape. It reserves a retptr area with
`add_to_stack_pointer(-16)`, marshals its arguments, and calls the export,
passing `this.__wbg_ptr` if it is a method. It reads `r0..r3` through
`getInt32Memory0()`. If the error flag is set, it throws
`takeObject(error)`. Otherwise it returns one of:
- `__wrap(r0)`, a new JS object owning a Rust box;
- a string decoded from `(r0, r1)`. The pair is kept in `deferredN_*` and
  freed in `finally`;
- nothing.

Six descriptors cover the shapes:

| Descriptor | Example in code |
|---|---|
| `Ctor` | `new ShinkaiMessageBuilderWrapper` |
| `Build` | `build`, `extract_profile` |
| `ToString` | `build_to_string`, `to_json_str` |
| `Recipe` | `ack_message` and the other static recipes |
| `Hash` | `calculate_hash`, `generate_time_now`: no error flag |
| `Setter` | `no_body_encryption` and the other setters |
| `StaticStr` | `ShinkaiTime.generateTimeNow`: a static string result without a flag |
| `ToJsValue` | `to_jsvalue`: a heap handle returned with an error flag |
| `GetValue` | `get_value`: a heap handle returned directly, with no retptr |
| `EncryptionMethodNew` | `new WasmEncryptionMethod`: `__wrap` of a directly returned pointer |

Each descriptor has a `via` field. A `"direct"` export returns its value
and reads no retptr words, so memory growth cannot make its read stale.
The word holding the error handle depends on the Result's layout:
- `Result<String, JsValue>` is written as `(ptr, len, err, flag)`, so JS
  reads the error from `r2` when `r3` is set (`to_json_str`, lines
  397-421);
- `Result<(), JsValue>` is `(err, flag)`, so the setters read the error
  from `r0` when `r1` is set (`no_body_encryption`, lines 1150-1151);
- every other Result is `(val, err, flag)`, so the error is in `r1`
  (the constructor, lines 1117-1118).

`RustErrWord` is where Rust writes the error: right after the words of the
Ok value (`OkWords`), a layout modelled from wasm-bindgen's contract.
`ErrWord` is where each wrapper shape reads it in `bg.js`.

| Model | Code |
|---|---|
| `ptrOf[o]` | `o.__wbg_ptr` of the wrapper held in JS variable `o` |
| `boxes`, `strs` | Rust boxes and result strings alive in wasm memory |
| `gen`, `cached32` | the memory buffer's generation, and `cachedInt32Memory0` |
| `call` | the wrapper call in progress: its `pc`, the export's result, `deferred`, and the returned value `ret` |
| `handles` | JS heap handles (from `Handles`, indices of 132 and above) that an export has returned and JS has not yet taken |

The Rust side of an export is not in this repository. It is modelled from
its contract:
- `RustNull`: a null `self` throws;
- `RustReturn`: an error, or a result allocated at any free address,
  possibly growing memory;
- `RustTrap`: an allocation with memory exhausted aborts.

Addresses are `WordBits = 4`-bit words, so the sign boundary of the
`Int32Array` read is reached. Address 11 reads back as -5, and `>>> 0`
restores it. With two addresses, a freed box's address is handed to the
next allocation.

| Run | cfg | Expect | What it shows |
|---|---|---|---|
| `exportcall_protocol` | `MC_ExportCall.cfg` | pass | It checks seven properties (510,255 states, about 35 s). Mutants: `__wrap` without `>>> 0`, `free` without zeroing, a `finally` without the free, a cache checked only for null, reading the error from `r1` for every Result shape, `is_object` testing `typeof` alone, and `bigint_from_u64` without `asUintN`. Each breaks its property. |

The seven properties:
- `HandlesTaken`: every handle an export returns, whether a value or an
  error, is taken by JS before the call ends.
- `NoDanglingPtr`: no wrapper keeps a freed box's address.
- `ResultStringsFreed`: no result string outlives its wrapper call, on the
  error path too.
- `ResultIntact`: a normal return is exactly the export's result, even
  after memory growth.
- `TypeOK`: every `__wbg_ptr` is an unsigned word.
- `ImportsMatchKinds` (`ImportValues`): every type test wasm asks answers
  for its kind only (`null` is not an object), and `boolean_get` and
  `number_get` report `false` and `0` as present values.
- `U64RoundTrip` (`ImportValues`): every u64 wasm passes to
  `bigint_from_u64` becomes the BigInt of the same unsigned value, the
  upper half included.

#### `ImportValues`

The imports `__wbindgen_is_undefined`, `is_string`, `is_bigint`,
`is_function`, `is_object` (lines 2833-2952), `__wbindgen_boolean_get`,
`__wbindgen_number_get` and `__wbindgen_bigint_from_u64` are operators over
a JS value `[type, val]`, with `null` a kind of its own whose `typeof` is
`"object"`. Wasm calls them as steps: `AskValue(v)` and `AskBigInt(u)` set
`answer` to the import called, its argument and its result. `MC_ExportCall`
composes them with the export steps: an import step is enabled only while
`call.pc = "wasm"`, that is while an export runs, and the export steps leave
`answer` alone. How the Rust side reads an answer (`BoolFromAbi`,
`F64FromAbi`: 2 means `None`, the flag says whether the f64 is present) and
how the JS API turns an i64 into a signed BigInt (`ToI64`) are modelled from
wasm-bindgen's contract, since that code is not in `src/`. `MC_JsValues` has
one value of each kind plus `false` and `0`; `MC_I64Bits = 4` puts the
values 8 .. 15 in the negative half. The heap slot `bigint_from_u64` puts
its result in is what `WasmHeap` models, and is left out here.

### `ChatMessages` (`MC_ChatMessages`)

The component keeps one inbox of a node up to date. It sends three
requests:
- the fetch of the newest page when it mounts (lines 32-37);
- a 5 s unread poll for the page after `mostRecentKey` (lines 39-48);
- Load More, for the page before `lastKey` (lines 96-108).

An effect runs on each store change (lines 50-73). It derives the two keys
from the ends of the inbox, copies the inbox to `messages`, and clears
`hasMoreMessages` when the inbox grew by fewer than 10.

Messages are named `1, 2, ...` in the order they reach the node. A key
`${scheduled_time}:::${hash}` is the message's name, and 0 is an undefined
key. The api thunks and the reducer are not in `src/`. They are modelled
as well-behaved (`spec_modelled` in the map):
- the node answers with the `PAGE` newest messages older than the key,
  or, for an unread request with a key, the `PAGE` oldest newer than it;
- the reducer merges a page into the inbox, newest first, without
  duplicates.

| Model | Code |
|---|---|
| `node` | the messages stored at the node for this inbox |
| `reduxMessages`, `loaded` | `state.messages.inboxes[id]`, and whether it is defined |
| `lastKey`, `mostRecentKey`, `prevMessagesLength`, `hasMoreMessages`, `messages` | the `useState` hooks |
| `pollArmed` | the inbox captured by the interval's closure is non-empty |
| `inflight` | a bag of dispatched requests that are not yet answered |
| `Mount`, `Poll`, `PollThrows`, `LoadMore` | the mount effect, the interval callback (dispatching or throwing), the button |
| `Respond(r)` | a thunk resolving and the reducer storing its page |
| `Effect` | the render after a store change: the effect of lines 50-73 and the interval reset of line 48 |

The interval callback sees the `reduxMessages` and `mostRecentKey` of the
render that set it up. So it throws (reading the last element of an empty
inbox, or hashing `undefined`) until an effect has run over a non-empty
inbox. After that it polls with that effect's key.

Bounds are `PAGE = 2` (standing for 10), at most 4 messages, at most 2
requests in flight, and 0-3 messages at mount. With these, more than a
page can arrive between two answers, and a one-message growth is below the
threshold.

**Composition with the app wrapper.** The effect of lines 50-73 first
computes `calculateMessageHash` of the last and the first message (lines
55-62). `ChatMessages` extends `MessageHash` (below), and `HashThrows` is
whether that throws under the build `hashFixed`, chosen at `Init` from
`HashBuilds`: `FALSE` is `ShinkaiMessageWrapper.ts` as shipped, `TRUE` a
constructor that passes the whole message. `EffectThrows` is the effect
throwing: there is no error boundary, so React unmounts the tree (`crashed`)
and nothing mounts it again.

**The render.** After the effect sets `messages`, the list (lines
113-166) calls `extractContent` (lines 75-90) for each message. That
function runs `JSON.parse` on one of three texts:
- the raw content of an unencrypted `message_data`;
- the content of an inner encrypted part;
- the content of an outer encrypted part.

A body is a record of that shape (`Bodies`), and a text is only its class
(`TextClasses`): a JSON object, another JSON value, or non-JSON text such
as ciphertext. The constant `BodyOf` gives each message its body.
`isLocalMessage`, the avatar and the date only choose layout.

`RenderThrows` is a render that throws. With no error boundary, it
unmounts the tree, so `Effect` ends with `crashed' = RenderThrows(messages')`.

The pass run gives every message a JSON raw content (an object or another
value), or no body. `MC_ChatMessages_render.cfg` takes the fixed build and
stores message 3 with an encrypted body. TLC then finds `NewMessagesShown`
violated: the render that shows message 3 throws, and message 4 is never
shown. This is recorded as a hazard at line 84.

`EarlyLoadMore` says whether the user presses Load More before the first
list shows. That is possible because `hasMoreMessages` starts true, and
then `lastKey` is still undefined.

| Run | cfg | Expect | What it shows |
|---|---|---|---|
| `chatmessages_poll` | `MC_ChatMessages.cfg` | pass | The inbox is non-empty at mount and there is no early Load More. `StoreContiguous`: the store never has a hole. `NewMessagesShown`: every message newer than the first list is eventually shown. |
| `chatmessages_loadmore` | `MC_ChatMessages_loadmore.cfg` | violation | `LoadMoreHonest`: a poll adding one message clears `hasMoreMessages` while older messages were never loaded (line 68). |
| `chatmessages_empty` | `MC_ChatMessages_empty.cfg` | violation | `FirstMessageShown`: if the first answer finds the inbox empty, every poll tick throws (line 41), and no later message is ever shown. |
| `chatmessages_hash` | `MC_ChatMessages_hash.cfg` | violation | `ListShown`: with the shipped wrapper, the first effect over a non-empty inbox throws in `calculateMessageHash` and the component unmounts before any list is shown. |

The pass run takes both builds, so both the crash and the working path are
explored; the properties it checks hold on both. The other violation runs
take the fixed build, so the bugs they show are not masked by the crash.

`MC_ChatMessages_early.cfg` sets `EarlyLoadMore` to `TRUE`, and TLC finds
`NewMessagesShown` violated: an early Load More fetches the newest page a
second time, and the later answer skips messages that nothing fetches again
(line 105). This is recorded as a note on the hazard at line 105.

The pass run's mutants:
- the reducer appending without merging breaks `TypeOK`;
- the poll sent without its key breaks `StoreContiguous`;
- `mostRecentKey` taken from the oldest message breaks `NewMessagesShown`.

### `MessageHash`

Operators only, composed into `ChatMessages`. `calculateMessageHash`
(`ChatMessages.tsx` lines 175-182) builds an app `ShinkaiMessageWrapper`.
Its constructor (`ShinkaiMessageWrapper.ts` line 9) calls the wasm
constructor with `(message.body, message.external_metadata, encryption)`.
The wasm constructor (`shinkai_message_wasm_bg.js` lines 2278-2296) takes
one parameter and deserializes it as a whole message. A message is a record
with the envelope's fields (`EnvelopeFields`, from the spec, since the Rust
deserializer is not in `src/`). `WrapperCtorArgs` is the argument list the
code builds, `WasmCtorParam` the one parameter the wasm side reads, and
`CalculateMessageHashThrows` holds when that parameter does not
deserialize. For the shipped code it always holds: a body has neither
`external_metadata` nor `encryption`. `WrapperCtorArgsFixed` passes the
whole message and does not throw.

The wrapper's instance methods are not modelled: no instance can be
built, so they are unreachable.

### `ExecMode` (`MC_ExecMode`)

`runScript` (`unnamed/part_002` lines 6-18) writes the script to a
temporary file, runs it with the promisified `child_process.exec`, unlinks
the file and resolves. Calls run concurrently, each with its own path.

| Model | Code |
|---|---|
| `pc[c]` | the `await` call `c` is at: `"write"`, `"exec"`, `"unlink"`, or settled (`"resolved"`, `"rejected"`) |
| `files` | the temporary files on disk |
| `out[c]` | what `exec` resolved with: a clean run or output on stderr |
| `WriteFile(c)` | line 9; a rejection may leave the file written |
| `Exec(c)` | line 10; resolves for exit code 0, rejects otherwise |
| `Unlink(c)` | line 11, then lines 13-17; a rejection of `fs.unlink` leaves the file and rejects the call |

The constant `DiskFaults` says whether `fs.writeFile` and `fs.unlink` may
reject: `TRUE` in the passing run, `FALSE` in the leak run, so that there
the only way a file outlives its call is `exec`'s rejection.

The promisified `exec` rejects on a non-zero exit instead of resolving with
`error`, so the `error` that line 13 tests is never set, and a rejection
skips the unlink.

Bounds: three calls, so that every order of writes, runs and unlinks of
several calls occurs. The module has no liveness: nothing in the code
bounds how long a script runs. Deadlock is not checked: once all calls
have settled, the model stops, as the program does.

| Run | cfg | Expect | What it shows |
|---|---|---|---|
| `execmode_runs` | `MC_ExecMode.cfg` | pass | `TypeOK` only (1,000 states); the run fires every step, failures included. Mutant: `exec` resolving with `error` set breaks `TypeOK`. The calls share nothing but the directory, so no property relates them beyond the leak below. |
| `execmode_leak` | `MC_ExecMode_leak.cfg` | violation | `TmpFilesRemoved`: on a disk that accepts every write and unlink, each of three calls writes its file, `exec` rejects (line 10), and all three files remain. |

### `TrayRoutes` (`MC_TrayRoutes`)

The tray's router (`shinkai-tray/src/routes/index.tsx`). `/` redirects to
`inboxes/` (line 104). Onboarding is open. Every other page is wrapped in
`ProtectedRoute` (lines 25-36). It redirects to onboarding while the auth
context has no setup data, and in an effect (lines 28-30) it points the
`ApiConfig` singleton at `setupData?.node_address ?? ""`. `AppRoutes`
invokes `validate_setup_data` once on mount and only logs the answer
(lines 38-54).

React commits a render, then runs its passive effects, children before
parents, before it processes the next update. React Router keeps the
`ProtectedRoute` instance between two protected routes (same type at the
same place, no key), and remounts only the page under it. The pages and
the auth context are outside `src/`. A protected page is modelled by its
mount effect sending one request through `ApiConfig`. The auth context is
modelled by `SetSetup`, its data being stored by onboarding or cleared.

| Model | Code |
|---|---|
| `setup` | `setupData` of the auth context (`NoSetup` for undefined) |
| `path`, `shown` | the location, and the page element rendered |
| `guardDeps` | the `node_address` that the mounted `ProtectedRoute`'s effect last ran for |
| `endpoint` | `ApiConfig`'s endpoint |
| `effects` | the passive effects of the last commit, in the order React runs them |
| `sent` | the requests that pages sent: the endpoint used, and the setup in force |
| `Boot`, `Navigate(p)`, `SetSetup(s)` | the first commit, a location change, a change of the context; each is one `Commit` |
| `RunEffect`, `ValidationSettles` | React running the next effect; the invoke settling |

Bounds: two node addresses and two protected pages, so that a setup can
change to another node under a page that stays mounted, and a navigation
can move between protected pages without remounting `ProtectedRoute`.

| Run | cfg | Expect | What it shows |
|---|---|---|---|
| `trayroutes_endpoint` | `MC_TrayRoutes.cfg` | pass | `EndpointFollowsSetup`: once a commit's effects have run, `ApiConfig` points at the node of the current setup, also when the setup changes under a mounted page (3,948 states). Mutants: an effect without its `node_address` dependency breaks it; a missing `?? ""` breaks `TypeOK`. |
| `trayroutes_request` | `MC_TrayRoutes_request.cfg` | violation | `RequestsReachNode`: a protected page's mount request runs before `ProtectedRoute`'s `setEndpoint` and goes to the previous endpoint: `""` on the first load, and after onboarding too, since the redirect's own effect set `""` (line 29). |

### Fairness

Only `ChatMessages` states liveness (`NewMessagesShown`, `FirstMessageShown`,
`ListShown`), and its `Spec` assumes weak fairness of these steps:
- `Mount`: React runs the mount effect.
- `Poll`: `setInterval` keeps firing while the component is mounted.
- `Effect` and `EffectThrows`: React renders after a store change and
  runs the effect, which completes or throws.
- `Respond(r)`, for each request `r` separately: every HTTP request
  eventually completes. A single fairness over "some answer" would let one
  request starve while another is answered again and again.

Message arrivals and the user's Load More are not assumed to happen.

`ExecMode`, `TrayRoutes`, `PassString` and `ExportCall` check only safety
and refinement, and their specifications assume no fairness.

## 4. Not modelled

- `ShinkaiMessageWrapper.ts` instance methods: unreachable, since the
  constructor always throws (see `MessageHash`). They are one-line
  delegations to the wasm methods that `ExportCall` models. The `body`
  getter reads `wasmWrapper.body`, while the wasm class only has
  `message_body`. That is a type error, which a model checker adds nothing
  to.
- `ToolKitSetup.ts` and `unnamed/part_003`: one awaited HTTP request each,
  with no state kept between calls. In `validateHeaders` (lines 33-34) `+`
  binds tighter than `||`, so the URL is always truthy and the
  `SHINKAI_OAUTH` fallback is dead: a missing `x-shinkai-oauth` header
  sends `access_token=undefined`. That is one expression, which a unit test
  reaches directly.
- `runScript`'s `exec` has no timeout: a script that never exits leaves
  the call pending and its temporary file on disk. Nothing bounds the
  child process, so no fairness on its exit is justified, and without it a
  pending call is a legal end state. `ExecMode` checks the orderings only.
- The store's action types and `store/types.ts`: type declarations and
  constants.
- The Rust core (builder, envelope, names, crypto): not in `src/`.
- Manifests, the Dockerfile and generated typings: no behaviour.
