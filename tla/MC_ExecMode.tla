---------------------------- MODULE MC_ExecMode ----------------------------
EXTENDS ExecMode

\* Three concurrent calls: each outcome can happen to one call while the
\* others are at any step.
CONSTANTS c1, c2, c3
MC_Calls == {c1, c2, c3}

\* The disk may refuse a write or an unlink.
MC_DiskFaults == TRUE

\* A disk that accepts every write and unlink: a file can then only
\* survive its call through exec's rejection.
MC_NoDiskFaults == FALSE
=============================================================================
