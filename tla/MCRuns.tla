------------------------------- MODULE MCRuns -------------------------------
(* The parts of module MCRunParts, and beside them small workspaces that are *)
(* walked.                                                                   *)
EXTENDS MCRunParts

VARIABLE folder  \* SandboxTree

allVars == <<part, vars, packVars, sandboxVars, folder>>

Tree == INSTANCE SandboxTree WITH
    MaxDepth <- 1, MaxEntries <- 3, MaxResults <- 3, TooLarge <- 1, StopAfter <- 3

RunsInit ==
    /\ part \in {"runs", "pack", "sandbox", "tree"}
    /\ PartsInit /\ Tree!TreeInit

RunsNext ==
    /\ UNCHANGED part
    /\ \/ PartsNext /\ UNCHANGED folder
       \/ part = "tree" /\ Tree!Grow /\ UNCHANGED <<vars, packVars, sandboxVars>>

RunsSpec == RunsInit /\ [][RunsNext]_allVars
-----------------------------------------------------------------------------
(* A search that does not say it is cut short is complete, a tree lacks what *)
(* lies below its depth and nothing else, and the quota is held against the  *)
(* true size (services/sandbox_io_posix.py, sandbox_io_windows.py).          *)
WalksLackOnlyTheDeep == part = "tree" => Tree!WalksLackOnlyTheDeep
=============================================================================
