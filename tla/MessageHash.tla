----------------------------- MODULE MessageHash -----------------------------
(***************************************************************************)
(* calculateMessageHash (shinkai_message_handler, listed at the end of    *)
(* ChatMessages.tsx) builds the app's ShinkaiMessageWrapper               *)
(* (lib/wasm/ShinkaiMessageWrapper.ts) over a message and hashes it. That *)
(* constructor calls the wasm class's constructor, which takes one        *)
(* parameter, shinkai_message_js (shinkai_message_wasm_bg.js line 2278),  *)
(* borrows it and has Rust deserialize it as a whole message; JS drops    *)
(* extra arguments. A JS value is a record; a message is one with the     *)
(* three envelope fields, and the Rust deserializer fills no absent field *)
(* (spec, wire envelope).                                                 *)
(***************************************************************************)

EnvelopeFields == {"body", "external_metadata", "encryption"}

\* A message as the store holds it: body, external_metadata, encryption.
AMessage == [body |-> [unencrypted |-> "data"],
             external_metadata |-> [scheduled_time |-> "t"],
             encryption |-> "None"]

\* ShinkaiMessageWrapper.ts line 9: the arguments passed to the wasm
\* constructor (mapEncryptionMethod is applied to the third).
WrapperCtorArgs(message) ==
  <<message.body, message.external_metadata, message.encryption>>

\* The same line passing the message itself.
WrapperCtorArgsFixed(message) == <<message>>

\* The wasm constructor's only parameter, shinkai_message_js.
WasmCtorParam(args) == args[1]

\* shinkaimessagewrapper_fromJsValue: deserialization succeeds for a
\* record with exactly the envelope fields.
FromJsValueOk(v) == DOMAIN v = EnvelopeFields

\* calculateMessageHash throws: the wasm constructor sets its error flag
\* and `throw takeObject(r1)` leaves the app constructor.
CalculateMessageHashThrows(args) == ~FromJsValueOk(WasmCtorParam(args))
=============================================================================
