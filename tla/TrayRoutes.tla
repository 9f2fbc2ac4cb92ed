----------------------------- MODULE TrayRoutes -----------------------------
(***************************************************************************)
(* The routes of the tray app (shinkai-tray/src/routes/index.tsx): "/"    *)
(* redirects to inboxes/, the onboarding page is open, and every other    *)
(* page is wrapped in ProtectedRoute, which redirects to onboarding while *)
(* the auth context has no setup data and, in an effect, points the       *)
(* ApiConfig singleton at setupData?.node_address ?? "". AppRoutes        *)
(* invokes validate_setup_data once and only logs the answer.             *)
(*                                                                         *)
(* React commits a render and then runs its passive effects, children's   *)
(* before their parent's, before it processes the next update. A          *)
(* protected page's mount effect may send a request to the node through  *)
(* ApiConfig (the pages are outside src/). The auth context (outside      *)
(* src/) changes when onboarding stores setup data or it is cleared.       *)
(***************************************************************************)
EXTENDS Sequences

CONSTANTS
  Addrs,      \* node addresses setup data may hold
  Protected,  \* paths of the pages wrapped in ProtectedRoute
  NoSetup     \* setupData undefined

ASSUME NoSetup \notin Addrs /\ "" \notin Addrs

Paths == {"/", "onboarding"} \cup Protected

VARIABLES
  setup,      \* setupData of the auth context
  path,       \* the location
  shown,      \* the page element rendered: "onboarding", a protected path, or "none"
  guardDeps,  \* node_address the mounted ProtectedRoute's effect last ran for, or "unmounted"
  endpoint,   \* ApiConfig.getInstance()'s endpoint
  effects,    \* passive effects of the last commit, in the order React runs them
  sent,       \* requests protected pages sent: the endpoint used, the node of the setup
  validation  \* the validate_setup_data invoke: "idle", "pending" or "logged"

vars == <<setup, path, shown, guardDeps, endpoint, effects, sent, validation>>

\* Mutant of NodeAddress: `setupData?.node_address` without `?? ""`.
NodeAddressNoDefault(s) == s

\* setupData?.node_address ?? "" (line 29).
NodeAddress(s) == IF s = NoSetup THEN "" ELSE s

\* A passive effect: a page's mount effect, ProtectedRoute's setEndpoint of
\* an address, or AppRoutes' validation.
Effect(kind, addr) == [kind |-> kind, addr |-> addr]

\* The route element a location renders (lines 57-105): "/" is replaced by
\* inboxes/ (line 104); a protected path without setup data renders
\* <Navigate to={ONBOARDING_PATH} replace /> (lines 32-34).
Target(p) == IF p = "/" THEN "inboxes" ELSE p

Resolve(p, s) == IF Target(p) \in Protected /\ s = NoSetup THEN "onboarding" ELSE Target(p)

\* ProtectedRoute is rendered for the route (its element wraps the page).
Guarded(p) == Target(p) \in Protected

\* ProtectedRoute mounts: none is mounted. Between two protected routes
\* React keeps the instance (same type at the same place, no key) and
\* remounts only the page under it.
GuardMounts(p) == Guarded(p) /\ guardDeps = "unmounted"

\* The protected page mounts.
PageMounts(p, s) == Resolve(p, s) \in Protected /\ Resolve(p, s) # shown

\* Mutant of Commit: ProtectedRoute's effect lists no dependencies and runs
\* only when the component mounts.
CommitMountOnly(p, s, outer) ==
  LET runs == GuardMounts(p) IN
  /\ path' = Resolve(p, s)
  /\ shown' = Resolve(p, s)
  /\ guardDeps' = IF Resolve(p, s) \notin Protected THEN "unmounted"
                  ELSE IF runs THEN NodeAddress(s) ELSE guardDeps
  /\ effects' = (IF PageMounts(p, s) THEN <<Effect("page", "")>> ELSE <<>>)
                  \o (IF runs THEN <<Effect("guard", NodeAddress(s))>> ELSE <<>>) \o outer

\* Render and commit the route for location p and setup data s. The
\* effects it causes run children first: the protected page's mount
\* effect, then ProtectedRoute's effect (lines 28-30) when ProtectedRoute
\* mounts or node_address changed, then those of the outer components.
\* Without setup data ProtectedRoute still mounts and runs its effect,
\* rendering <Navigate> to onboarding, which then unmounts it.
Commit(p, s, outer) ==
  LET runs == GuardMounts(p) \/ (Guarded(p) /\ guardDeps # NodeAddress(s)) IN
  /\ path' = Resolve(p, s)
  /\ shown' = Resolve(p, s)
  /\ guardDeps' = IF Resolve(p, s) \notin Protected THEN "unmounted"
                  ELSE IF runs THEN NodeAddress(s) ELSE guardDeps
  /\ effects' = (IF PageMounts(p, s) THEN <<Effect("page", "")>> ELSE <<>>)
                  \o (IF runs THEN <<Effect("guard", NodeAddress(s))>> ELSE <<>>) \o outer

-----------------------------------------------------------------------------
\* The app starts: the first commit of AppRoutes at the location; the
\* mount effect of AppRoutes (lines 39-54), the outermost, runs last.
Boot ==
  /\ shown = "none"
  /\ Commit(path, setup, <<Effect("validate", "")>>)
  /\ UNCHANGED <<setup, endpoint, sent, validation>>

\* The user follows a link or types a location. Updates wait until the
\* last commit's effects have run.
Navigate(p) ==
  /\ shown # "none" /\ effects = <<>>
  /\ Commit(p, setup, <<>>)
  /\ UNCHANGED <<setup, endpoint, sent, validation>>

\* Onboarding stores setup data, or it is cleared; the context's
\* consumers re-render at the same location.
SetSetup(s) ==
  /\ shown # "none" /\ effects = <<>> /\ s # setup
  /\ setup' = s
  /\ Commit(path, s, <<>>)
  /\ UNCHANGED <<endpoint, sent, validation>>

\* React runs the next effect of the last commit: the page sends a request
\* through ApiConfig; ProtectedRoute calls setEndpoint (line 29); AppRoutes
\* invokes validate_setup_data (line 47).
RunEffect ==
  /\ effects # <<>>
  /\ LET e == Head(effects) IN
       /\ endpoint' = IF e.kind = "guard" THEN e.addr ELSE endpoint
       /\ sent' = IF e.kind = "page" THEN sent \cup {[to |-> endpoint, node |-> setup]} ELSE sent
       /\ validation' = IF e.kind = "validate" THEN "pending" ELSE validation
  /\ effects' = Tail(effects)
  /\ UNCHANGED <<setup, path, shown, guardDeps>>

\* The invoke settles: .then or .catch only log (lines 48-53).
ValidationSettles ==
  /\ validation = "pending"
  /\ validation' = "logged"
  /\ UNCHANGED <<setup, path, shown, guardDeps, endpoint, effects, sent>>

Init ==
  /\ setup \in Addrs \cup {NoSetup}
  /\ path \in Paths
  /\ shown = "none"
  /\ guardDeps = "unmounted"
  /\ endpoint = ""
  /\ effects = <<>>
  /\ sent = {}
  /\ validation = "idle"

Next ==
  \/ Boot \/ RunEffect \/ ValidationSettles
  \/ \E p \in Paths : Navigate(p)
  \/ \E s \in Addrs \cup {NoSetup} : SetSetup(s)

Spec == Init /\ [][Next]_vars

-----------------------------------------------------------------------------
TypeOK ==
  /\ setup \in Addrs \cup {NoSetup}
  /\ path \in Paths \ {"/"} \/ shown = "none"
  /\ shown \in {"none", "onboarding"} \cup Protected
  /\ endpoint \in Addrs \cup {""}

\* Once the effects of a commit have run, ApiConfig points at the node of
\* the current setup data while a protected page is shown, also after the
\* setup data changed under a page that stays mounted (line 30).
EndpointFollowsSetup ==
  (shown \in Protected /\ effects = <<>>) => endpoint = NodeAddress(setup)

\* Every request a protected page sends goes to the node of the setup data
\* in force.
RequestsReachNode == \A r \in sent : r.to = NodeAddress(r.node)
=============================================================================
