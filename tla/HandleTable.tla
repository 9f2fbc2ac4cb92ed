----------------------------- MODULE HandleTable -----------------------------
(***************************************************************************)
(* What the slab of the JS heap promises the wasm side: a table of JS     *)
(* values by handle. Adding a value names it by a handle no live value     *)
(* has; dropping a handle removes its value; while a handle is live its    *)
(* value never changes. Nothing is said about which free handle is        *)
(* chosen, or about values the table keeps that nobody names any more.     *)
(***************************************************************************)
EXTENDS Naturals, Functions, TLC

CONSTANTS
  Handles, \* the indices the table may use
  Values   \* the JS values it may hold

VARIABLE table \* the live handles and the value each stands for

Add(h, v) ==
  /\ h \in Handles \ DOMAIN table
  /\ table' = table @@ (h :> v)

Drop(h) ==
  /\ h \in DOMAIN table
  /\ table' = Restrict(table, DOMAIN table \ {h})

Init == table = [h \in {} |-> CHOOSE v \in Values : TRUE]

Next ==
  \/ \E h \in Handles, v \in Values : Add(h, v)
  \/ \E h \in DOMAIN table : Drop(h)

Spec == Init /\ [][Next]_table
=============================================================================
