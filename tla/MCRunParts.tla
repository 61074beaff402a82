----------------------------- MODULE MCRunParts -----------------------------
(* An assistant run and what it draws on, for the model checker: the queue   *)
(* that runs it, the context pack it shows the model, and a file of its      *)
(* workspace.  The pack is worked out inside one execution of a run, and a   *)
(* file is read in one step of it, so each behaviour is one part's, chosen   *)
(* at the start, and the others keep still.                                  *)
EXTENDS MCAssistantRuns

CONSTANTS
    Sources, Kind, Rank, Bytes, Reached, Selected,   \* ContextPack
    Cap, ByteLimit, MaxChanges,
    Folders, Inodes, Systems, MaxTime                \* SandboxFiles

VARIABLES
    part,                                                      \* what moves
    live, workArchived, library, policy, frozen, packPc, listed, \* ContextPack
    left, seen, open, admitted, sections, remaining, changed, changes,
    system, path, entry, temp, file, now, op                   \* SandboxFiles

packVars == <<live, workArchived, library, policy, frozen, packPc, listed, left, seen, open,
              admitted, sections, remaining, changed, changes>>
sandboxVars == <<system, path, entry, temp, file, now, op>>

Pack == INSTANCE ContextPack WITH pc <- packPc, archived <- workArchived
Sandbox == INSTANCE SandboxFiles

\* The ranking puts one source before another, and a rendered section has its
\* heading at least.
ASSUME PackAssumption ==
    /\ IsFiniteSet(Sources) /\ Reached \subseteq Sources
    /\ Kind \in [Sources -> {Pack!Kinds[n] : n \in 1..6}]
    /\ Rank \in [Sources -> Nat] /\ \A s, t \in Sources : Rank[s] = Rank[t] => s = t
    /\ Bytes \in [Sources -> Nat \ {0}]
    /\ Selected \subseteq {s \in Sources : Kind[s] = "artifact"}
    /\ Cap \in Nat /\ ByteLimit \in Nat /\ MaxChanges \in Nat

ASSUME SandboxAssumption ==
    /\ Systems \subseteq {"posix", "windows"} /\ MaxTime \in Nat
    /\ Inodes \cap {"none", "link", "folder"} = {} /\ Folders \cap {"none", "link"} = {}

\* A Work, a conversation, two files of which one is attached, two records of
\* the Memory Hub, a knowledge record beyond its listing and a skill.
KindOf == [s \in {"w", "c", "a", "b", "m", "n", "d", "k"} |->
              CASE s = "w" -> "work" [] s = "c" -> "conversation" [] s \in {"a", "b"} -> "artifact"
                [] s \in {"m", "n"} -> "memory_hub" [] s = "d" -> "knowledge" [] s = "k" -> "skill"]
RankOf == [s \in DOMAIN KindOf |->
              CASE s = "a" -> 1 [] s = "w" -> 2 [] s = "c" -> 3 [] s = "m" -> 4
                [] s = "n" -> 5 [] s = "b" -> 6 [] s = "d" -> 7 [] s = "k" -> 8]
BytesOf == [s \in DOMAIN KindOf |-> IF s \in {"a", "m"} THEN 3 ELSE 2]

\* A part that keeps still has one initial state.
PartsInit ==
    /\ Pack!PackInit
    /\ part = "pack" \/ (/\ live = [s \in Sources |-> IF Kind[s] = "artifact" THEN "intact" ELSE "active"]
                         /\ library /\ policy = "none")
    /\ Sandbox!SandboxInit /\ (part = "sandbox" \/ (system = "posix" /\ path = "f1"))
    /\ Init

PartsNext ==
    \/ part = "runs" /\ Next /\ UNCHANGED <<packVars, sandboxVars>>
    \/ part = "pack" /\ Pack!PackNext /\ UNCHANGED <<vars, sandboxVars>>
    \/ part = "sandbox" /\ Sandbox!SandboxNext /\ UNCHANGED <<vars, packVars>>
-----------------------------------------------------------------------------
(* Only a run that found its Work open is shown anything, what was rejected, *)
(* switched off or altered after the catalogue was read stays out of the     *)
(* pack, and nothing fit is lost from it                                     *)
(* (services/context_broker.py, security_context_mcp.py).                    *)
PackIsGoverned ==
    /\ [](Pack!PackTypeOK /\ Pack!NothingFitIsLost)
    /\ Pack!OnlyFitIsRead

(* A read never mixes two texts, and a write brings its whole text to the    *)
(* name or changes nothing                                                   *)
(* (services/sandbox_io_posix.py, sandbox_io_windows.py).                    *)
TextsAreWhole == []Sandbox!SandboxTypeOK /\ Sandbox!TextsAreWhole
=============================================================================
