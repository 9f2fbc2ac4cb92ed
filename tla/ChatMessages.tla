---------------------------- MODULE ChatMessages ----------------------------
(***************************************************************************)
(* The ChatMessages component of shinkai-app (ChatMessages.tsx) showing    *)
(* one inbox of a node whose messages keep arriving. Messages are named    *)
(* 1, 2, ... in the order they reach the node; a message's key            *)
(* (`${scheduled_time}:::${hash}`) is its name, and 0 is an undefined key. *)
(* The store's inbox (reduxMessages) is newest first.                      *)
(*                                                                         *)
(* The component dispatches three requests: the initial fetch (lines       *)
(* 32-37), the 5 s unread poll (39-48) and Load More (97-108). The thunks  *)
(* and the reducer that answer them are not in src/; they are assumed to   *)
(* behave as well as they can: the node answers with the PAGE newest       *)
(* messages older than the key, or the PAGE oldest newer than it, and the  *)
(* reducer merges the answer into the inbox without duplicates. Responses  *)
(* arrive in any order. The effect of lines 50-73 runs after each change   *)
(* of the store.                                                           *)
(***************************************************************************)
EXTENDS Naturals, FiniteSets, Sequences, SequencesExt, BagsExt, MessageHash

CONSTANTS
  PAGE,         \* the literal 10: page size requested, and the threshold
  MaxMsgs,      \* bound on messages reaching the node
  InitCounts,   \* messages at the node when the component mounts
  MaxInflight,  \* bound on requests in flight
  EarlyLoadMore, \* the user may press Load More before the first list shows
  HashBuilds,   \* builds checked: TRUE if ShinkaiMessageWrapper.ts line 9
                \* passes the whole message, FALSE as it is shipped
  BodyOf        \* the body of each message, as extractContent sees it

ASSUME /\ PAGE \in Nat \ {0} /\ MaxMsgs \in Nat /\ MaxInflight \in Nat \ {0}
       /\ InitCounts \subseteq 0 .. MaxMsgs /\ EarlyLoadMore \in BOOLEAN /\ HashBuilds \subseteq BOOLEAN

NoKey == 0

\* What JSON.parse makes of a text: a JSON object (with or without a
\* content field), another JSON value, or text that is not JSON, such as
\* a ciphertext or a plain "ping".
TextClasses == {"object", "value", "text"}

\* A message body: absent, Unencrypted (its message_data unencrypted with a
\* message_raw_content, or encrypted with a content), or Encrypted with a
\* content.
Bodies == [kind : {"none"}]
            \cup [kind : {"unencrypted"}, data : {"unencrypted"}, raw : TextClasses]
            \cup [kind : {"unencrypted"}, data : {"encrypted"}, content : TextClasses]
            \cup [kind : {"encrypted"}, content : TextClasses]

ASSUME BodyOf \in [1 .. MaxMsgs -> Bodies]

VARIABLES
  node,                \* messages 1 .. node are at the node
  firstNewest,         \* newest message of the first list shown (0 before)
  mounted,             \* the mount effects have run
  crashed,             \* an effect threw and React unmounted the tree
  hashFixed,           \* the build: see HashBuilds
  loaded,              \* reduxMessages is no longer undefined
  reduxMessages,       \* the store's inbox, newest first
  dirty,               \* the store changed since the effect last ran
  lastKey, mostRecentKey, prevMessagesLength, hasMoreMessages, messages,
  pollArmed,           \* the interval's closure holds a non-empty inbox
  inflight             \* bag of dispatched requests not yet answered

vars == <<node, firstNewest, mounted, crashed, hashFixed, loaded, reduxMessages, dirty, lastKey, mostRecentKey,
          prevMessagesLength, hasMoreMessages, messages, pollArmed, inflight>>

\* calculateMessageHash throws, for every message alike.
HashThrows ==
  CalculateMessageHashThrows(IF hashFixed THEN WrapperCtorArgsFixed(AMessage)
                                          ELSE WrapperCtorArgs(AMessage))

Request(kind, key) == [kind |-> kind, key |-> key]

-----------------------------------------------------------------------------
(* The node and the store (outside src/).                                  *)

\* The n newest (oldest) members of a set of messages.
NewestOf(S, n) == {m \in S : Cardinality({x \in S : x > m}) < n}
OldestOf(S, n) == {m \in S : Cardinality({x \in S : x < m}) < n}

\* What the node answers to request r, at the time it answers.
Page(r) ==
  LET older == {m \in 1 .. node : r.key = NoKey \/ m < r.key}
      newer == {m \in 1 .. node : m > r.key}
  IN IF r.kind = "unread" /\ r.key # NoKey THEN OldestOf(newer, PAGE)
     ELSE NewestOf(older, PAGE)

\* The set S as a sequence, newest first.
NewestFirst(S) == [i \in 1 .. Cardinality(S) |->
                     CHOOSE m \in S : Cardinality({x \in S : x > m}) = i - 1]

\* Mutant of Receive: the page is appended without merging.
ReceiveAppend(inbox, page) == inbox \o NewestFirst(page)

\* The reducer: the page merged into the inbox.
Receive(inbox, page) == NewestFirst(ToSet(inbox) \cup page)

Dispatch(r) ==
  /\ BagCardinality(inflight) < MaxInflight
  /\ inflight' = inflight (+) SetToBag({r})

-----------------------------------------------------------------------------
(* Rendering the list (lines 75-166).                                      *)

\* JSON.parse(t).content throws unless t is JSON.
Parse(t) == IF t = "text" THEN "throws" ELSE "ok"

\* extractContent (lines 75-90): the text it parses is the raw content of
\* an unencrypted message_data, else the content of the inner or outer
\* encrypted part; a missing body renders "".
ExtractContent(b) ==
  CASE b.kind = "unencrypted" /\ b.data = "unencrypted" -> Parse(b.raw)
    [] b.kind = "unencrypted" -> Parse(b.content)
    [] b.kind = "encrypted" -> Parse(b.content)
    [] OTHER -> "ok"

\* The list of lines 113-166 calls extractContent for every message it
\* shows; isLocalMessage, the avatar and the date only choose layout. One
\* throw fails the render and, with no error boundary, React unmounts the
\* tree.
RenderThrows(list) == \E i \in 1 .. Len(list) : ExtractContent(BodyOf[list[i]]) = "throws"

-----------------------------------------------------------------------------
(* The component.                                                          *)

\* Mount: the effect of lines 32-37 dispatches
\* getLastMessagesFromInbox(id, 10, lastKey) with lastKey still undefined;
\* the interval of lines 39-48 is set up.
Mount ==
  /\ ~mounted /\ ~crashed
  /\ mounted' = TRUE
  /\ Dispatch(Request("last", lastKey))
  /\ UNCHANGED <<hashFixed, node, firstNewest, crashed, loaded, reduxMessages, dirty, lastKey, mostRecentKey,
                 prevMessagesLength, hasMoreMessages, messages, pollArmed>>

\* A message reaches the node.
Arrive ==
  /\ node < MaxMsgs
  /\ node' = node + 1
  /\ UNCHANGED <<hashFixed, firstNewest, mounted, crashed, loaded, reduxMessages, dirty, lastKey, mostRecentKey,
                 prevMessagesLength, hasMoreMessages, messages, pollArmed, inflight>>

\* Mutant of Poll: the unread request is sent without mostRecentKey.
PollNoKey ==
  /\ mounted /\ pollArmed
  /\ Dispatch(Request("unread", NoKey))
  /\ UNCHANGED <<hashFixed, node, firstNewest, mounted, crashed, loaded, reduxMessages, dirty, lastKey, mostRecentKey,
                 prevMessagesLength, hasMoreMessages, messages, pollArmed>>

\* The interval fires (lines 40-45). Its callback sees reduxMessages and
\* mostRecentKey of the render whose effect set it up (the interval is
\* reset whenever they change, line 48): it reads the last message of
\* that inbox and hashes it, then dispatches
\* getLastUnreadMessagesFromInbox with that mostRecentKey.
Poll ==
  /\ mounted /\ pollArmed
  /\ Dispatch(Request("unread", mostRecentKey))
  /\ UNCHANGED <<hashFixed, node, firstNewest, mounted, crashed, loaded, reduxMessages, dirty, lastKey, mostRecentKey,
                 prevMessagesLength, hasMoreMessages, messages, pollArmed>>

\* The interval fires while the inbox its callback sees is undefined or
\* empty: reduxMessages[reduxMessages.length - 1] throws, or
\* calculateMessageHash reads .body of undefined (ShinkaiMessageWrapper.ts
\* line 9); the callback throws before its dispatch and nothing changes.
PollThrows ==
  /\ mounted /\ ~pollArmed
  /\ UNCHANGED vars

\* Load More, rendered while hasMoreMessages (lines 96-108); before the
\* first list shows, lastKey is still undefined.
LoadMore ==
  /\ mounted /\ hasMoreMessages /\ (EarlyLoadMore \/ lastKey # NoKey)
  /\ Dispatch(Request("more", lastKey))
  /\ UNCHANGED <<hashFixed, node, firstNewest, mounted, crashed, loaded, reduxMessages, dirty, lastKey, mostRecentKey,
                 prevMessagesLength, hasMoreMessages, messages, pollArmed>>

\* A request is answered and the reducer stores the page; the store's inbox
\* is a new array, so the effect of lines 50-73 is due.
Respond(r) ==
  /\ BagIn(r, inflight)
  /\ inflight' = inflight (-) SetToBag({r})
  /\ loaded' = TRUE
  /\ reduxMessages' = Receive(reduxMessages, Page(r))
  /\ dirty' = TRUE
  /\ UNCHANGED <<hashFixed, node, firstNewest, mounted, crashed, lastKey, mostRecentKey, prevMessagesLength,
                 hasMoreMessages, messages, pollArmed>>

\* Mutant of Effect: mostRecentKey is taken from the last message.
EffectSwapKeys ==
  LET n == Len(reduxMessages) IN
  /\ dirty /\ mounted /\ ~(loaded /\ n > 0 /\ HashThrows)
  /\ dirty' = FALSE
  /\ IF loaded /\ n > 0
       THEN /\ lastKey' = reduxMessages[n]
            /\ mostRecentKey' = reduxMessages[n]
            /\ messages' = reduxMessages
            /\ hasMoreMessages' = (hasMoreMessages /\ ~(n - prevMessagesLength < PAGE))
            /\ prevMessagesLength' = n
       ELSE UNCHANGED <<lastKey, mostRecentKey, messages, hasMoreMessages, prevMessagesLength>>
  /\ firstNewest' = IF firstNewest = 0 /\ loaded /\ n > 0 THEN reduxMessages[1] ELSE firstNewest
  /\ pollArmed' = (loaded /\ n > 0)
  /\ crashed' = RenderThrows(messages')
  /\ mounted' = ~crashed'
  /\ UNCHANGED <<hashFixed, node, loaded, reduxMessages, inflight>>

\* The render after a store change and its effects: the effect of lines
\* 50-73 (for a non-empty inbox, lastKey is the key of the last (oldest)
\* message, mostRecentKey that of the first, the list shows the inbox, and
\* hasMoreMessages is cleared when the inbox grew by fewer than 10 since
\* the last run), and the interval of lines 39-48 set up again over the
\* new inbox and key; then the render over the new list.
Effect ==
  LET n == Len(reduxMessages) IN
  /\ dirty /\ mounted /\ ~(loaded /\ n > 0 /\ HashThrows)
  /\ dirty' = FALSE
  /\ IF loaded /\ n > 0
       THEN /\ lastKey' = reduxMessages[n]
            /\ mostRecentKey' = reduxMessages[1]
            /\ messages' = reduxMessages
            /\ hasMoreMessages' = (hasMoreMessages /\ ~(n - prevMessagesLength < PAGE))
            /\ prevMessagesLength' = n
       ELSE UNCHANGED <<lastKey, mostRecentKey, messages, hasMoreMessages, prevMessagesLength>>
  /\ firstNewest' = IF firstNewest = 0 /\ loaded /\ n > 0 THEN reduxMessages[1] ELSE firstNewest
  /\ pollArmed' = (loaded /\ n > 0)
  /\ crashed' = RenderThrows(messages')
  /\ mounted' = ~crashed'
  /\ UNCHANGED <<hashFixed, node, loaded, reduxMessages, inflight>>

\* The effect of lines 50-73 over a non-empty inbox when
\* calculateMessageHash throws (line 56): the error leaves the effect
\* before any setter runs and, with no error boundary, React unmounts the
\* tree; the interval is cleared. Answers in flight still reach the store.
EffectThrows ==
  /\ dirty /\ mounted /\ loaded /\ reduxMessages # <<>> /\ HashThrows
  /\ dirty' = FALSE
  /\ mounted' = FALSE
  /\ crashed' = TRUE
  /\ UNCHANGED <<hashFixed, node, firstNewest, loaded, reduxMessages, lastKey, mostRecentKey,
                 prevMessagesLength, hasMoreMessages, messages, pollArmed, inflight>>

Init ==
  /\ node \in InitCounts
  /\ firstNewest = 0
  /\ mounted = FALSE
  /\ crashed = FALSE
  /\ hashFixed \in HashBuilds
  /\ loaded = FALSE
  /\ reduxMessages = <<>>
  /\ dirty = FALSE
  /\ lastKey = NoKey
  /\ mostRecentKey = NoKey
  /\ prevMessagesLength = 0
  /\ hasMoreMessages = TRUE
  /\ messages = <<>>
  /\ pollArmed = FALSE
  /\ inflight = EmptyBag

Next ==
  \/ Mount \/ Arrive \/ Poll \/ PollThrows \/ LoadMore \/ Effect \/ EffectThrows
  \/ \E r \in BagToSet(inflight) : Respond(r)

\* setInterval keeps firing while the component is mounted, each request
\* is eventually answered, and React runs a due effect. Arrivals and the
\* user's Load More are not assumed.
Fairness ==
  /\ WF_vars(Mount)
  /\ WF_vars(Poll)
  /\ \A k \in {"last", "unread", "more"}, key \in 0 .. MaxMsgs :
       WF_vars(Respond(Request(k, key)))
  /\ WF_vars(Effect) /\ WF_vars(EffectThrows)

Spec == Init /\ [][Next]_vars /\ Fairness
-----------------------------------------------------------------------------
\* The store holds node messages, each once, newest first, and the keys the
\* component sends name node messages.
TypeOK ==
  /\ reduxMessages \in Seq(1 .. node)
  /\ \A i, j \in 1 .. Len(reduxMessages) : i < j => reduxMessages[i] > reduxMessages[j]
  /\ {lastKey, mostRecentKey} \subseteq 0 .. node
  /\ prevMessagesLength \in 0 .. node
  /\ hasMoreMessages \in BOOLEAN
  /\ BagToSet(inflight) \subseteq [kind : {"last", "unread", "more"}, key : 0 .. node]

\* Load More disappears (hasMoreMessages cleared by lines 68-70) only when
\* the node has no message older than the oldest one loaded.
LoadMoreHonest ==
  ~hasMoreMessages =>
    \A m \in 1 .. node :
      m \in ToSet(reduxMessages) \/ m > reduxMessages[Len(reduxMessages)]

\* The store's inbox has no hole: every message between its oldest and its
\* newest is in it. The poll asks only for messages newer than
\* mostRecentKey and Load More only for those older than lastKey, so a
\* message skipped inside the range would never be fetched.
StoreContiguous ==
  \A m \in 1 .. node :
    (reduxMessages # <<>> /\ reduxMessages[Len(reduxMessages)] < m /\ m < reduxMessages[1])
      => m \in ToSet(reduxMessages)

\* Every message newer than those of the first list shown is eventually in
\* the list, through the 5 s unread poll.
NewMessagesShown ==
  \A m \in 1 .. MaxMsgs :
    (firstNewest # 0 /\ m > firstNewest /\ node >= m) ~> (m \in ToSet(messages))

\* Once the node holds a message, the component eventually shows a
\* non-empty list: the first answer is stored and the effect of lines
\* 50-73 copies it to messages.
ListShown == (node >= 1) ~> (messages # <<>>)

\* For an inbox that is empty when the component mounts, its first message
\* is eventually shown, through the 5 s unread poll.
FirstMessageShown == (node >= 1) ~> (1 \in ToSet(messages))
====
