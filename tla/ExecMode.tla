------------------------------ MODULE ExecMode ------------------------------
(***************************************************************************)
(* runScript of the tool runner (src/unnamed/part_002, used by execMode    *)
(* and execModeConfig): concurrent calls each write the script to a        *)
(* temporary file ./tmp_<ms>_<random>.js, run it with the promisified      *)
(* child_process.exec, unlink the file, and resolve with stdout, or with   *)
(* {stdout, error, stderr} when stderr is not empty. The promisified exec  *)
(* rejects when the script exits with a non-zero code (or is killed, or    *)
(* overflows maxBuffer), and the rejection propagates out of runScript.    *)
(* A path is one per call: two calls in the same millisecond drawing the   *)
(* same Math.random() are not modelled.                                    *)
(***************************************************************************)
EXTENDS FiniteSets

CONSTANTS
  Calls,      \* concurrent runScript calls, each with its own path
  DiskFaults  \* whether fs.writeFile and fs.unlink may reject (BOOLEAN)

ASSUME DiskFaults \in BOOLEAN

VARIABLES
  pc,     \* pc[c]: where call c is in runScript
  files,  \* temporary files on disk, named by their call
  out     \* out[c]: what exec gave c: "none", "clean" or "stderr"

vars == <<pc, files, out>>

Settled == {"resolved", "rejected"}

\* `await fs.writeFile(path, src, 'utf8')`: the file is created (line 9);
\* a rejection (full disk, permissions) may leave it created, and the
\* call rejects.
WriteFile(c) ==
  /\ pc[c] = "write"
  /\ \/ pc' = [pc EXCEPT ![c] = "exec"] /\ files' = files \cup {c}
     \/ DiskFaults /\ pc' = [pc EXCEPT ![c] = "rejected"] /\ files' \in {files, files \cup {c}}
  /\ UNCHANGED out

\* Mutant of Exec: exec resolves for a failing script too, with `error`
\* set, as lines 13-14 expect of it.
ExecAnyOutput(c) ==
  /\ pc[c] = "exec"
  /\ \E o \in {"clean", "stderr", "error"} :
        pc' = [pc EXCEPT ![c] = "unlink"] /\ out' = [out EXCEPT ![c] = o]
  /\ UNCHANGED files

\* `await exec(`${env} node ${path}`)` (line 10): the script exits 0 with or
\* without output on stderr, and exec resolves with { stdout, stderr }; or
\* it fails and exec rejects, so the call rejects before line 11.
Exec(c) ==
  /\ pc[c] = "exec"
  /\ \/ \E o \in {"clean", "stderr"} :
          pc' = [pc EXCEPT ![c] = "unlink"] /\ out' = [out EXCEPT ![c] = o]
     \/ pc' = [pc EXCEPT ![c] = "rejected"] /\ UNCHANGED out
  /\ UNCHANGED files

\* `await fs.unlink(path)` (line 11), then lines 13-17: resolve with the
\* object when error || stderr (error is never set, exec having resolved),
\* else with stdout. When unlink rejects (EPERM, EBUSY) the file stays and
\* the call rejects, the script's output lost.
Unlink(c) ==
  /\ pc[c] = "unlink"
  /\ \/ files' = files \ {c} /\ pc' = [pc EXCEPT ![c] = "resolved"]
     \/ DiskFaults /\ pc' = [pc EXCEPT ![c] = "rejected"] /\ UNCHANGED files
  /\ UNCHANGED out

Init ==
  /\ pc = [c \in Calls |-> "write"]
  /\ files = {}
  /\ out = [c \in Calls |-> "none"]

Next == \E c \in Calls : WriteFile(c) \/ Exec(c) \/ Unlink(c)

Spec == Init /\ [][Next]_vars

-----------------------------------------------------------------------------
TypeOK ==
  /\ pc \in [Calls -> {"write", "exec", "unlink"} \cup Settled]
  /\ files \subseteq Calls
  /\ out \in [Calls -> {"none", "clean", "stderr"}]

\* Once every call has ended, no temporary file of runScript is left in
\* the working directory, whether the scripts succeeded or failed.
TmpFilesRemoved ==
  (\A c \in Calls : pc[c] \in Settled) => files = {}
=============================================================================
