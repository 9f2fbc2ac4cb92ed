---------------------------- MODULE MC_TrayRoutes ----------------------------
EXTENDS TrayRoutes

\* Two nodes, so setup data can change under a mounted page; two protected
\* pages (inboxes/ and settings), so a page remounts under a mounted
\* ProtectedRoute.
CONSTANTS n1, n2, NoSetupValue
MC_Addrs == {n1, n2}
MC_Protected == {"inboxes", "settings"}
=============================================================================
