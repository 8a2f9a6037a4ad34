------------------------------ MODULE MCStdlib ------------------------------
(* Small instances of ChildProcess and of FileIO for TLC: the one works while *)
(* the other is at rest.                                                      *)
EXTENDS ChildProcess, FileIO, TLC

\* 2^30 in the code.
MCSeverity == 512

\* Success, STILL_ACTIVE, a code of error severity.
MCExitCodes == {0, 259, 3 * MCSeverity + 1}

\* SIGSEGV, or the low bits of STATUS_ACCESS_VIOLATION.
MCFaults == {11}

\* Read to the end, nothing, or two bytes.
MCSizes == {-1, 0, 2}

Alike == Permutations(Objs) \union Permutations(Ids) \union Permutations(Handles)

VARIABLE job
MCInit ==
  \/ job = "child" /\ ChildInit /\ FileInit /\ exists = {}
  \/ job = "file" /\ FileInit /\ ChildInit /\ platform = "posix"
MCNext ==
  \/ job = "child" /\ ChildNext /\ UNCHANGED <<job, fileVars>>
  \/ job = "file" /\ FileNext /\ UNCHANGED <<job, childVars>>
MCSpec == MCInit /\ [][MCNext]_<<job, childVars, fileVars>>
=============================================================================
