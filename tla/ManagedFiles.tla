---------------------------- MODULE ManagedFiles ----------------------------
(***************************************************************************)
(* Managed documents of a work: text files and folders created, files      *)
(* imported, reports published, and files saved from the editor.           *)
(*                                                                         *)
(* A request with a key claims its operation (as in OperationClaims), puts *)
(* the file in place, registers it with its audit entry in one commit and  *)
(* completes the claim in another; when something fails it gives the claim *)
(* up and removes the file. The file system is no part of any transaction. *)
(***************************************************************************)
EXTENDS Naturals, FiniteSets

CONSTANTS
    FileRequests, \* requests, each sent once
    Ask,          \* what each asks for: its kind, path and key
    Nobody,       \* the writer of what the editor has saved to a new path
    FileQuota,    \* MAX_MANAGED_WORKSPACE_BYTES, in units of one file
    FileFaults    \* bound: failures, crashes and expired claims

VARIABLES
    files,    \* the managed roots: what is at each path
    registry, \* requests whose row of artifacts is committed
    claims,   \* the rows of operation_claims
    asked,    \* the requests
    troubles  \* failures so far

fileVars == <<files, registry, claims, asked, troubles>>

Kinds == {"text", "import", "folder", "report"}
Paths == {Ask[r].path : r \in FileRequests}
Keys  == {<<Ask[r].kind, Ask[r].key>> : r \in FileRequests}

Absent == [type |-> "absent", by |-> Nobody]
Entry == [type : {"absent", "file", "folder"}, by : FileRequests \cup {Nobody}]
NoClaim == [state |-> "none", by |-> Nobody]
Claim == [state : {"none", "processing", "completed", "failed", "expired"}, by : FileRequests \cup {Nobody}]
Steps == {"new", "claimed", "receiving", "published", "registered", "failing", "clearing",
          "created", "replayed", "refused", "dead"}

FilesTypeOK ==
    /\ files \in [Paths -> Entry]
    /\ registry \subseteq FileRequests
    /\ claims \in [Keys -> Claim]
    /\ asked \in [FileRequests -> [at : Steps, clears : BOOLEAN]]
    /\ troubles \in 0..FileFaults

FilesInit ==
    /\ files = [p \in Paths |-> Absent]
    /\ registry = {}
    /\ claims = [k \in Keys |-> NoClaim]
    /\ asked = [r \in FileRequests |-> [at |-> "new", clears |-> FALSE]]
    /\ troubles = 0

KeyOf(r) == <<Ask[r].kind, Ask[r].key>>
PathOf(r) == Ask[r].path
Goes(r, at) == asked' = [asked EXCEPT ![r].at = at]
Fails(r, clears) == asked' = [asked EXCEPT ![r] = [at |-> "failing", clears |-> clears]]
Trouble == troubles < FileFaults /\ troubles' = troubles + 1

\* managed_size: every regular file of the two roots, whoever wrote it.
ManagedSize == Cardinality({p \in Paths : files[p].type = "file"})
Fits == ManagedSize + 1 <= FileQuota

-----------------------------------------------------------------------------
(* The claim. The payload of a key never differs here: another is refused.  *)

ClaimOperation(r) ==
    /\ asked[r].at = "new" /\ claims[KeyOf(r)].state \in {"none", "expired"}
    /\ claims' = [claims EXCEPT ![KeyOf(r)] = [state |-> "processing", by |-> Nobody]]
    /\ Goes(r, "claimed")
    /\ UNCHANGED <<files, registry, troubles>>

\* Whether the claim is completed, processing or failed, nothing is done.
AnswerFromClaim(r) ==
    /\ asked[r].at = "new"
    /\ claims[KeyOf(r)].state \in {"completed", "processing", "failed"}
    /\ Goes(r, IF claims[KeyOf(r)].state = "completed" THEN "replayed" ELSE "refused")
    /\ UNCHANGED <<files, registry, claims, troubles>>

-----------------------------------------------------------------------------
(* Putting the file in place. What clears says is whether the request will  *)
(* remove the path if it fails: a file or an import learns it by publishing *)
(* it, a report and a folder know it before.                                *)

Publish(r) ==
    /\ files[PathOf(r)] = Absent
    /\ files' = [files EXCEPT ![PathOf(r)] =
                    [type |-> IF Ask[r].kind = "folder" THEN "folder" ELSE "file", by |-> r]]
    /\ asked' = [asked EXCEPT ![r] = [at |-> "published", clears |-> TRUE]]
    /\ UNCHANGED <<registry, claims, troubles>>

Occupied(r) == files[PathOf(r)] # Absent /\ UNCHANGED <<files, registry, claims, troubles>>

CreateTextFile(r) ==
    /\ asked[r].at = "claimed" /\ Ask[r].kind = "text"
    /\ \/ ~Fits /\ Fails(r, FALSE) /\ UNCHANGED <<files, registry, claims, troubles>>
       \/ Fits /\ Publish(r)
       \/ Fits /\ Occupied(r) /\ Fails(r, FALSE)

\* The body is streamed between the look at the quota and the write.
MeasureImport(r) ==
    /\ asked[r].at = "claimed" /\ Ask[r].kind = "import"
    /\ IF Fits THEN Goes(r, "receiving") ELSE Fails(r, FALSE)
    /\ UNCHANGED <<files, registry, claims, troubles>>

ClearsAnyPath(r) == asked[r].at = "receiving" /\ Occupied(r) /\ Fails(r, TRUE) \* mutant
ImportOccupied(r) == asked[r].at = "receiving" /\ Occupied(r) /\ Fails(r, FALSE)

\* What arrived may not be what was announced, or not be a sound document.
RejectImport(r) ==
    /\ asked[r].at = "receiving"
    /\ Fails(r, FALSE)
    /\ UNCHANGED <<files, registry, claims, troubles>>

ReceiveImport(r) ==
    \/ asked[r].at = "receiving" /\ Publish(r)
    \/ ImportOccupied(r)
    \/ RejectImport(r)

CreateFolder(r) ==
    /\ asked[r].at = "claimed" /\ Ask[r].kind = "folder"
    /\ Publish(r) \/ (Occupied(r) /\ Fails(r, TRUE))

CreateReport(r) ==
    /\ asked[r].at = "claimed" /\ Ask[r].kind = "report"
    /\ Publish(r) \/ (Occupied(r) /\ Fails(r, TRUE))

-----------------------------------------------------------------------------
(* The registry, the claim and what is left of a failure.                   *)

\* The row, its validation and the audit entry, which commits them. A folder
\* has the audit entry only.
Register(r) ==
    /\ asked[r].at = "published"
    /\ registry' = IF Ask[r].kind = "folder" THEN registry ELSE registry \cup {r}
    /\ Goes(r, "registered")
    /\ UNCHANGED <<files, claims, troubles>>

StillProcessing(r) == claims[KeyOf(r)].state = "processing"

FinalizeOperation(r) ==
    /\ asked[r].at = "registered"
    /\ IF StillProcessing(r)
       THEN /\ claims' = [claims EXCEPT ![KeyOf(r)] = [state |-> "completed", by |-> r]]
            /\ Goes(r, "created")
       ELSE Fails(r, asked[r].clears) /\ UNCHANGED claims
    /\ UNCHANGED <<files, registry, troubles>>

\* A statement fails; what is not committed is rolled back.
Break(r) ==
    /\ asked[r].at \in {"claimed", "receiving", "published", "registered"} /\ Trouble
    /\ Fails(r, asked[r].clears)
    /\ UNCHANGED <<files, registry, claims>>

FailOperation(r) ==
    /\ asked[r].at = "failing"
    /\ claims' = IF StillProcessing(r) THEN [claims EXCEPT ![KeyOf(r)].state = "failed"] ELSE claims
    /\ Goes(r, "clearing")
    /\ UNCHANGED <<files, registry, troubles>>

\* A file is unlinked; a directory is removed if it is one and is empty.
Removable(r) == files[PathOf(r)].type = IF Ask[r].kind = "folder" THEN "folder" ELSE "file"

ClearUp(r) ==
    /\ asked[r].at = "clearing"
    /\ files' = IF asked[r].clears /\ Removable(r) THEN [files EXCEPT ![PathOf(r)] = Absent] ELSE files
    /\ Goes(r, "refused")
    /\ UNCHANGED <<registry, claims, troubles>>

-----------------------------------------------------------------------------
(* The editor, time and crashes.                                            *)

\* A save checks the text it was opened with and writes under the path's lock.
\* Only a save to a new path shows here, where no text is kept.
SaveNewFile(p) ==
    /\ files[p] = Absent
    /\ files' = [files EXCEPT ![p].type = "file"]
    /\ UNCHANGED <<registry, claims, asked, troubles>>

ExpireClaim(k) ==
    /\ claims[k].state \in {"processing", "completed", "failed"} /\ Trouble
    /\ claims' = [claims EXCEPT ![k].state = "expired"]
    /\ UNCHANGED <<files, registry, asked>>

CrashServer ==
    /\ Trouble
    /\ asked' = [r \in FileRequests |->
                    IF asked[r].at \in {"new", "created", "replayed", "refused", "dead"}
                    THEN asked[r] ELSE [asked[r] EXCEPT !.at = "dead"]]
    /\ UNCHANGED <<files, registry, claims>>

FilesNext ==
    \/ \E r \in FileRequests :
          \/ ClaimOperation(r) \/ AnswerFromClaim(r)
          \/ CreateTextFile(r) \/ MeasureImport(r) \/ ReceiveImport(r)
          \/ CreateFolder(r) \/ CreateReport(r)
          \/ Register(r) \/ FinalizeOperation(r) \/ Break(r) \/ FailOperation(r) \/ ClearUp(r)
    \/ \E p \in Paths : SaveNewFile(p)
    \/ \E k \in Keys : ExpireClaim(k)
    \/ CrashServer

FilesSpec == FilesInit /\ [][FilesNext]_fileVars

-----------------------------------------------------------------------------

\* GET of an artifact's content: its row leads to a file, or there is none.
Readable(r) == r \in registry /\ files[PathOf(r)].type = "file"
Created(r) == asked[r].at = "created"

(* What a request answered with 201 imported or created stays readable, and  *)
(* is its own; a file that is not registered belongs to a request that is    *)
(* not over, or to one cut off by a crash.                                   *)
FilesMatchRegistry ==
    \A r \in FileRequests :
        /\ Created(r) /\ Ask[r].kind \in {"text", "import"}
           => Readable(r) /\ files[PathOf(r)].by = r
        /\ files[PathOf(r)].type = "file" /\ files[PathOf(r)].by = r /\ r \notin registry
           => asked[r].at \in {"published", "failing", "clearing", "dead"}

(* "Failed finalize removes published file": its own, so a report that was   *)
(* answered with 201 stays where the answer says.                            *)
PublishedReportsStay ==
    \A r \in FileRequests : Created(r) /\ Ask[r].kind = "report" => Readable(r)
=============================================================================
