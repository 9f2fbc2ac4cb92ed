-------------------------- MODULE MC_ChatMessages --------------------------
EXTENDS ChatMessages

\* A page of two stands for the literal 10: the threshold is crossed by a
\* one-message growth and a full page is still distinguishable from a
\* partial one. Four messages are enough for more than a page to arrive
\* between two answers.
MC_PAGE == 2
MC_MaxMsgs == 4
MC_MaxInflight == 2

\* The unread poll works only once the inbox is non-empty.
MC_InitNonEmpty == 1 .. 3
MC_InitEmpty == {0}
MC_InitAny == 0 .. 3

\* Bodies the list renders: unencrypted messages whose raw content is a
\* JSON object or another JSON value, and a message without a body.
MC_Bodies ==
  [m \in 1 .. MC_MaxMsgs |->
     IF m = 2 THEN [kind |-> "none"]
     ELSE [kind |-> "unencrypted", data |-> "unencrypted", raw |-> IF m = 3 THEN "value" ELSE "object"]]

\* Message 3 is stored with an encrypted body: its content is ciphertext.
MC_BodiesEncrypted ==
  [m \in 1 .. MC_MaxMsgs |->
     IF m = 3 THEN [kind |-> "encrypted", content |-> "text"] ELSE MC_Bodies[m]]
====
