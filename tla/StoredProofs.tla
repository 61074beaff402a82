---------------------------- MODULE StoredProofs ----------------------------
(***************************************************************************)
(* What requests read, decide on and write (module MCStored): the managed  *)
(* files, the Memory Hub, the knowledge of DIRAP, the models a prompt is   *)
(* routed to and the modules of the interface.  Each theorem is about one  *)
(* component, for any number of rows and requests.  Operation claims are   *)
(* module OperationClaimsProofs.                                           *)
(***************************************************************************)
EXTENDS MCStored, FiniteNumbers, Sequences, TLAPS, FiniteSetTheorems

-----------------------------------------------------------------------------
(* Managed files (module ManagedFiles).                                    *)

Mine(r) == files[Files!PathOf(r)].by = r
Keeps(r) == Ask[r].kind \in {"text", "import"}

\* What is at a path is nobody's, or what a request of that path puts there.
EntriesFit ==
    \A p \in Files!Paths :
        /\ files[p].type = "absent" => files[p] = Files!Absent
        /\ \A r \in FileRequests : files[p].by = r =>
              /\ p = Files!PathOf(r)
              /\ files[p].type = (IF Ask[r].kind = "folder" THEN "folder" ELSE "file")

\* A request has its file from its publication until it is over or cut off; if
\* it fails it clears its own file, and a text or an import no other. What is
\* registered, for all but folders, is in the registry.
RequestFits(r) ==
    /\ Mine(r) => asked[r].at \in {"published", "registered", "failing", "clearing", "created", "dead"}
    /\ asked[r].at \in {"new", "claimed", "receiving"} => ~asked[r].clears
    /\ asked[r].at \in {"published", "registered"} => asked[r].clears
    /\ asked[r].at \in {"failing", "clearing"} /\ Mine(r) => asked[r].clears
    /\ Keeps(r) =>
          /\ asked[r].at \in {"published", "registered", "created"} => Mine(r)
          /\ asked[r].at \in {"failing", "clearing"} /\ asked[r].clears => Mine(r)
    /\ asked[r].at \in {"registered", "created"} /\ Ask[r].kind # "folder" => r \in registry

RequestsFit == \A r \in FileRequests : RequestFits(r)

FilesInv == Files!FilesTypeOK /\ EntriesFit /\ RequestsFit

LEMMA FilesStart == Files!FilesInit => FilesInv
<1> SUFFICES ASSUME Files!FilesInit PROVE FilesInv
  OBVIOUS
<1> USE FilesAssumption DEF Files!FilesInit
<1>1. Files!FilesTypeOK
  BY DEF Files!FilesTypeOK, Files!Absent, Files!Entry, Files!NoClaim, Files!Claim, Files!Steps
<1>2. EntriesFit
  BY DEF EntriesFit, Files!Absent
<1>3. RequestsFit
  <2> SUFFICES ASSUME NEW r \in FileRequests PROVE RequestFits(r)
    BY DEF RequestsFit
  <2>1. ~Mine(r)
    BY DEF Mine, Files!PathOf, Files!Paths, Files!Absent
  <2>2. QED
    BY <2>1 DEF RequestFits
<1>4. QED
  BY <1>1, <1>2, <1>3 DEF FilesInv

\* What a step does to one request, to the files and to the registry, as far as
\* the invariant needs it: the others are where they were.
Turned(r) ==
    /\ asked' \in [FileRequests -> [at : Files!Steps, clears : BOOLEAN]]
    /\ \A q \in FileRequests \ {r} : asked'[q] = asked[q]

LEMMA GoesTurns ==
    ASSUME FilesInv, NEW r \in FileRequests, NEW at \in Files!Steps
    PROVE  /\ Files!Goes(r, at) => Turned(r) /\ asked'[r].at = at /\ asked'[r].clears = asked[r].clears
           /\ \A clears \in BOOLEAN : Files!Fails(r, clears) =>
                 Turned(r) /\ asked'[r].at = "failing" /\ asked'[r].clears = clears
  BY DEF FilesInv, Files!FilesTypeOK, Files!Goes, Files!Fails, Turned, Files!Steps

\* A request that goes on, with the files as they are.
LEMMA RequestMoves ==
    ASSUME FilesInv, NEW r \in FileRequests, Turned(r), UNCHANGED files,
           registry \subseteq registry', registry' \subseteq FileRequests, RequestFits(r)'
    PROVE  EntriesFit' /\ RequestsFit'
<1>1. EntriesFit'
  BY DEF FilesInv, EntriesFit
<1>2. ASSUME NEW q \in FileRequests, q # r PROVE RequestFits(q)'
  BY <1>2 DEF FilesInv, RequestsFit, RequestFits, Turned, Mine
<1>3. QED
  BY <1>1, <1>2 DEF RequestsFit

\* Requests that put nothing in place: claims, refusals and the registry.
LEMMA QuietSteps ==
    ASSUME FilesInv, NEW r \in FileRequests,
           \/ Files!ClaimOperation(r) \/ Files!AnswerFromClaim(r) \/ Files!MeasureImport(r)
           \/ Files!RejectImport(r) \/ Files!Register(r) \/ Files!FinalizeOperation(r)
           \/ Files!Break(r) \/ Files!FailOperation(r)
    PROVE  EntriesFit' /\ RequestsFit'
<1> USE DEF Files!Steps
<1>1. RequestFits(r)
  BY DEF FilesInv, RequestsFit
<1>2. SUFFICES /\ Turned(r) /\ UNCHANGED files
               /\ registry \subseteq registry' /\ registry' \subseteq FileRequests /\ RequestFits(r)'
  BY RequestMoves
<1>3. registry \subseteq FileRequests /\ asked[r].clears \in BOOLEAN
  BY DEF FilesInv, Files!FilesTypeOK
<1>4. CASE Files!ClaimOperation(r)
  BY <1>1, <1>3, <1>4, GoesTurns DEF Files!ClaimOperation, RequestFits, Mine
<1>5. CASE Files!AnswerFromClaim(r)
  BY <1>1, <1>3, <1>5, GoesTurns DEF Files!AnswerFromClaim, RequestFits, Mine
<1>6. CASE Files!MeasureImport(r)
  BY <1>1, <1>3, <1>6, GoesTurns DEF Files!MeasureImport, RequestFits, Mine
<1>7. CASE Files!RejectImport(r)
  BY <1>1, <1>3, <1>7, GoesTurns DEF Files!RejectImport, RequestFits, Mine
<1>8. CASE Files!Register(r)
  BY <1>1, <1>3, <1>8, GoesTurns DEF Files!Register, RequestFits, Mine
<1>9. CASE Files!FinalizeOperation(r)
  BY <1>1, <1>3, <1>9, GoesTurns DEF Files!FinalizeOperation, RequestFits, Mine
<1>10. CASE Files!Break(r)
  BY <1>1, <1>3, <1>10, GoesTurns DEF Files!Break, RequestFits, Mine
<1>11. CASE Files!FailOperation(r)
  BY <1>1, <1>3, <1>11, GoesTurns DEF Files!FailOperation, RequestFits, Mine
<1>12. QED
  BY <1>4, <1>5, <1>6, <1>7, <1>8, <1>9, <1>10, <1>11

\* A path that is taken refuses the request; only a folder and a report have
\* noted before that they would clear it.
LEMMA OccupiedRefuses ==
    ASSUME FilesInv, NEW r \in FileRequests, NEW clears \in BOOLEAN, asked[r].at \in {"claimed", "receiving"},
           UNCHANGED <<files, registry>>, Files!Fails(r, clears), Keeps(r) => ~clears
    PROVE  EntriesFit' /\ RequestsFit'
<1> USE DEF Files!Steps
<1>1. RequestFits(r) /\ registry \subseteq FileRequests
  BY DEF FilesInv, RequestsFit, Files!FilesTypeOK
<1>2. Turned(r) /\ asked'[r].at = "failing" /\ asked'[r].clears = clears
  BY GoesTurns
<1>3. RequestFits(r)'
  BY <1>1, <1>2 DEF RequestFits, Mine
<1>4. QED
  BY <1>1, <1>2, <1>3, RequestMoves

\* A file or folder appears where nothing was.
LEMMA PublishFits ==
    ASSUME FilesInv, NEW r \in FileRequests, Files!Publish(r)
    PROVE  EntriesFit' /\ RequestsFit'
<1> USE FilesAssumption DEF Files!Steps
<1>1. PICK p \in Files!Paths : p = Files!PathOf(r)
  BY DEF Files!Paths, Files!PathOf
<1>2. /\ files \in [Files!Paths -> Files!Entry]
      /\ asked \in [FileRequests -> [at : Files!Steps, clears : BOOLEAN]]
  BY DEF FilesInv, Files!FilesTypeOK
<1>3. /\ files[p] = Files!Absent /\ UNCHANGED registry
      /\ files' = [files EXCEPT ![p] = [type |-> IF Ask[r].kind = "folder" THEN "folder" ELSE "file", by |-> r]]
      /\ asked' = [asked EXCEPT ![r] = [at |-> "published", clears |-> TRUE]]
  BY <1>1 DEF Files!Publish
<1>4. /\ files'[p].by = r /\ files'[p].type = (IF Ask[r].kind = "folder" THEN "folder" ELSE "file")
      /\ \A o \in Files!Paths \ {p} : files'[o] = files[o]
  BY <1>2, <1>3
<1>5. /\ asked'[r].at = "published" /\ asked'[r].clears
      /\ \A q \in FileRequests \ {r} : asked'[q] = asked[q]
  BY <1>2, <1>3
<1>6. EntriesFit'
  BY <1>1, <1>4 DEF FilesInv, EntriesFit
<1>7. ASSUME NEW q \in FileRequests, q # r PROVE RequestFits(q)'
  <2>1. RequestFits(q) /\ files[p].by # q /\ Files!PathOf(q) \in Files!Paths
    BY <1>3 DEF FilesInv, RequestsFit, Files!Absent, Files!Paths, Files!PathOf
  <2>2. Mine(q)' <=> Mine(q)
    BY <1>1, <1>4, <1>7, <2>1 DEF Mine, Files!PathOf
  <2>3. QED
    BY <1>3, <1>5, <1>7, <2>1, <2>2 DEF RequestFits
<1>8. RequestFits(r)'
  BY <1>1, <1>4, <1>5 DEF RequestFits, Mine, Files!PathOf
<1>9. QED
  BY <1>6, <1>7, <1>8 DEF RequestsFit

LEMMA PlacementsFit ==
    ASSUME FilesInv, NEW r \in FileRequests,
           \/ Files!CreateTextFile(r) \/ Files!ReceiveImport(r) \/ Files!CreateFolder(r) \/ Files!CreateReport(r)
    PROVE  EntriesFit' /\ RequestsFit'
<1>1. CASE Files!Publish(r)
  BY <1>1, PublishFits
<1>2. CASE Files!RejectImport(r)
  BY <1>2, QuietSteps
<1>3. CASE /\ asked[r].at \in {"claimed", "receiving"} /\ UNCHANGED <<files, registry>>
           /\ \E clears \in BOOLEAN : Files!Fails(r, clears) /\ (Keeps(r) => ~clears)
  BY <1>3, OccupiedRefuses
<1>4. \/ Files!Publish(r) \/ Files!RejectImport(r)
      \/ /\ asked[r].at \in {"claimed", "receiving"} /\ UNCHANGED <<files, registry>>
         /\ \E clears \in BOOLEAN : Files!Fails(r, clears) /\ (Keeps(r) => ~clears)
  BY DEF Files!CreateTextFile, Files!ReceiveImport, Files!CreateFolder, Files!CreateReport,
         Files!Occupied, Files!ImportOccupied, Keeps
<1>5. QED
  BY <1>1, <1>2, <1>3, <1>4

\* What a failed request clears is its own, a folder, or a report's file: not a
\* text or an import of another.
LEMMA ClearUpFits ==
    ASSUME FilesInv, NEW r \in FileRequests, Files!ClearUp(r)
    PROVE  EntriesFit' /\ RequestsFit'
<1> USE FilesAssumption DEF Files!Steps
<1>1. PICK p \in Files!Paths : p = Files!PathOf(r)
  BY DEF Files!Paths, Files!PathOf
<1>2. files \in [Files!Paths -> Files!Entry] /\ RequestFits(r) /\ registry \subseteq FileRequests
  BY DEF FilesInv, Files!FilesTypeOK, RequestsFit
<1>3. /\ asked[r].at = "clearing" /\ Turned(r) /\ asked'[r].at = "refused"
      /\ asked'[r].clears = asked[r].clears /\ UNCHANGED registry
  BY GoesTurns DEF Files!ClearUp
<1>4. CASE ~(asked[r].clears /\ Files!Removable(r))
  <2>1. UNCHANGED files
    BY <1>4 DEF Files!ClearUp
  <2>2. ~Mine(r)
    BY <1>1, <1>2, <1>3, <1>4 DEF RequestFits, Files!Removable, FilesInv, EntriesFit, Mine
  <2>3. RequestFits(r)'
    BY <1>3, <2>1, <2>2 DEF RequestFits, Mine
  <2>4. QED
    BY <1>2, <1>3, <2>1, <2>3, RequestMoves
<1>5. CASE asked[r].clears /\ Files!Removable(r)
  <2>1. files' = [files EXCEPT ![p] = Files!Absent]
    BY <1>1, <1>5 DEF Files!ClearUp
  <2>2. files'[p] = Files!Absent /\ \A o \in Files!Paths \ {p} : files'[o] = files[o]
    BY <1>2, <2>1
  <2>3. EntriesFit'
    BY <1>1, <2>2 DEF FilesInv, EntriesFit, Files!Absent
  <2>4. ASSUME NEW q \in FileRequests, q # r PROVE RequestFits(q)'
    <3>1. RequestFits(q) /\ asked'[q] = asked[q] /\ Files!PathOf(q) \in Files!Paths
      BY <1>3, <2>4 DEF FilesInv, RequestsFit, Turned, Files!Paths, Files!PathOf
    <3>2. Mine(q)' => Mine(q)
      BY <2>2, <3>1 DEF Mine, Files!PathOf, Files!Absent
    <3>3. ASSUME Keeps(q), Mine(q) PROVE Mine(q)'
      <4>1. CASE Files!PathOf(q) # p
        BY <2>2, <3>1, <3>3, <4>1 DEF Mine, Files!PathOf
      <4>2. CASE Files!PathOf(q) = p
        <5>1. files[p].by = q /\ files[p].type = "file"
          BY <3>3, <4>2 DEF FilesInv, EntriesFit, Mine, Keeps
        <5>2. Ask[r].kind # "folder" /\ ~Mine(r)
          BY <1>1, <1>5, <2>4, <5>1 DEF Files!Removable, Mine
        <5>3. ~Keeps(r)
          BY <1>2, <1>3, <1>5, <5>2 DEF RequestFits
        <5>4. Ask[r].kind = "report"
          BY <5>2, <5>3 DEF Keeps
        <5>5. QED
          BY <1>1, <3>3, <4>2, <5>4 DEF Keeps, Files!PathOf
      <4>3. QED
        BY <4>1, <4>2
    <3>4. QED
      BY <1>3, <3>1, <3>2, <3>3 DEF RequestFits, Keeps
  <2>5. RequestFits(r)'
    BY <1>1, <1>3, <2>2 DEF RequestFits, Mine, Files!Absent, Files!PathOf
  <2>6. QED
    BY <2>3, <2>4, <2>5 DEF RequestsFit
<1>6. QED
  BY <1>4, <1>5

\* The editor, and a crash.
LEMMA OthersFit ==
    ASSUME FilesInv, \/ \E p \in Files!Paths : Files!SaveNewFile(p)
                     \/ \E k \in Files!Keys : Files!ExpireClaim(k)
                     \/ Files!CrashServer
    PROVE  EntriesFit' /\ RequestsFit'
<1> USE FilesAssumption DEF Files!Steps
<1>1. ASSUME NEW p \in Files!Paths, Files!SaveNewFile(p) PROVE EntriesFit' /\ RequestsFit'
  <2>1. files \in [Files!Paths -> Files!Entry] /\ files[p] = Files!Absent /\ UNCHANGED <<registry, asked>>
    BY <1>1 DEF FilesInv, Files!FilesTypeOK, Files!SaveNewFile
  <2>2. PICK entry \in Files!Entry : entry = files[p]
    BY <2>1
  <2>3. files' = [files EXCEPT ![p] = [type |-> "file", by |-> Nobody]]
    <3>1. files' = [files EXCEPT ![p] = [files[p] EXCEPT !.type = "file"]]
      BY <1>1, <2>1 DEF Files!SaveNewFile
    <3>2. [files[p] EXCEPT !.type = "file"] = [type |-> "file", by |-> Nobody]
      BY <2>1 DEF Files!Absent
    <3>3. QED
      BY <3>1, <3>2
  <2>4. /\ files'[p].type = "file" /\ files'[p].by = Nobody
        /\ \A o \in Files!Paths \ {p} : files'[o] = files[o]
    BY <2>1, <2>3
  <2>5. EntriesFit'
    BY <2>4 DEF FilesInv, EntriesFit
  <2>6. ASSUME NEW q \in FileRequests PROVE Mine(q)' <=> Mine(q)
    BY <2>1, <2>4 DEF Mine, Files!PathOf, Files!Paths, Files!Absent
  <2>7. QED
    BY <2>1, <2>5, <2>6 DEF FilesInv, RequestsFit, RequestFits
<1>2. ASSUME NEW k \in Files!Keys, Files!ExpireClaim(k) PROVE EntriesFit' /\ RequestsFit'
  BY <1>2 DEF Files!ExpireClaim, FilesInv, EntriesFit, RequestsFit, RequestFits, Mine
<1>3. CASE Files!CrashServer
  <2>1. UNCHANGED <<files, registry>>
    BY <1>3 DEF Files!CrashServer
  <2>2. ASSUME NEW q \in FileRequests
        PROVE  asked'[q] = asked[q] \/ asked'[q].at = "dead"
    <3>1. asked[q] \in [at : Files!Steps, clears : BOOLEAN]
      BY DEF FilesInv, Files!FilesTypeOK
    <3>2. QED
      BY <1>3, <3>1 DEF Files!CrashServer
  <2>3. QED
    BY <2>1, <2>2 DEF FilesInv, EntriesFit, RequestsFit, RequestFits, Mine
<1>4. QED
  BY <1>1, <1>2, <1>3

LEMMA FilesTyped ==
    ASSUME FilesInv, Files!FilesNext
    PROVE  Files!FilesTypeOK'
<1> USE FilesAssumption DEF Files!Steps
<1>1. /\ files \in [Files!Paths -> Files!Entry] /\ registry \subseteq FileRequests
      /\ fileClaims \in [Files!Keys -> Files!Claim] /\ troubles \in 0..FileFaults
      /\ asked \in [FileRequests -> [at : Files!Steps, clears : BOOLEAN]]
  BY DEF FilesInv, Files!FilesTypeOK
<1>2. ASSUME Files!Trouble PROVE troubles' \in 0..FileFaults
  BY <1>1, <1>2 DEF Files!Trouble
<1>3. /\ Files!Absent \in Files!Entry
      /\ \A r \in FileRequests, type \in {"file", "folder"} : [type |-> type, by |-> r] \in Files!Entry
  BY DEF Files!Absent, Files!Entry
<1>4. /\ \A w \in FileRequests \cup {Nobody}, state \in {"processing", "completed", "failed", "expired"} :
            [state |-> state, by |-> w] \in Files!Claim
      /\ \A held \in Files!Claim : held = [state |-> held.state, by |-> held.by] /\ held.by \in FileRequests \cup {Nobody}
  BY DEF Files!Claim
<1>5. ASSUME NEW k \in Files!Keys, NEW state \in {"failed", "expired"},
             fileClaims' = [fileClaims EXCEPT ![k].state = state]
      PROVE  fileClaims' \in [Files!Keys -> Files!Claim]
  <2>1. PICK held \in Files!Claim : held = fileClaims[k]
    BY <1>1
  <2>2. [fileClaims[k] EXCEPT !.state = state] \in Files!Claim
    BY <2>1 DEF Files!Claim
  <2>3. QED
    BY <1>1, <1>5, <2>2
<1>6. ASSUME NEW r \in FileRequests,
             \/ Files!CreateTextFile(r) \/ Files!MeasureImport(r) \/ Files!ReceiveImport(r)
             \/ Files!CreateFolder(r) \/ Files!CreateReport(r)
      PROVE  Files!FilesTypeOK'
  <2>1. CASE Files!Publish(r)
    <3>1. /\ Files!PathOf(r) \in Files!Paths /\ UNCHANGED <<registry, fileClaims, troubles>>
          /\ files' = [files EXCEPT ![Files!PathOf(r)] =
                          [type |-> IF Ask[r].kind = "folder" THEN "folder" ELSE "file", by |-> r]]
          /\ asked' = [asked EXCEPT ![r] = [at |-> "published", clears |-> TRUE]]
      BY <2>1 DEF Files!Publish, Files!Paths, Files!PathOf
    <3>2. files' \in [Files!Paths -> Files!Entry]
      BY <1>1, <1>3, <3>1
    <3>3. asked' \in [FileRequests -> [at : Files!Steps, clears : BOOLEAN]]
      BY <1>1, <3>1
    <3>4. QED
      BY <1>1, <3>1, <3>2, <3>3 DEF Files!FilesTypeOK
  <2>2. CASE /\ UNCHANGED <<files, registry, fileClaims, troubles>>
             /\ Files!Goes(r, "receiving") \/ \E clears \in BOOLEAN : Files!Fails(r, clears)
    <3>1. Turned(r)
      BY <2>2, GoesTurns
    <3>2. QED
      BY <1>1, <2>2, <3>1 DEF Files!FilesTypeOK, Turned
  <2>3. \/ Files!Publish(r)
        \/ /\ UNCHANGED <<files, registry, fileClaims, troubles>>
           /\ Files!Goes(r, "receiving") \/ \E clears \in BOOLEAN : Files!Fails(r, clears)
    BY <1>6 DEF Files!CreateTextFile, Files!MeasureImport, Files!ReceiveImport, Files!CreateFolder,
                Files!CreateReport, Files!Occupied, Files!ImportOccupied, Files!RejectImport
  <2>4. QED
    BY <2>1, <2>2, <2>3
<1>7. ASSUME NEW r \in FileRequests,
             \/ Files!ClaimOperation(r) \/ Files!AnswerFromClaim(r) \/ Files!Register(r)
             \/ Files!FinalizeOperation(r) \/ Files!Break(r) \/ Files!FailOperation(r) \/ Files!ClearUp(r)
      PROVE  Files!FilesTypeOK'
  <2> DEFINE k == Files!KeyOf(r)
  <2>1. k \in Files!Keys /\ Files!PathOf(r) \in Files!Paths
    BY DEF Files!Keys, Files!KeyOf, Files!Paths, Files!PathOf
  <2>2. asked[r].clears \in BOOLEAN
    BY <1>1
  <2>3. Turned(r)
    BY <1>7, <2>2, GoesTurns DEF Files!ClaimOperation, Files!AnswerFromClaim, Files!Register,
           Files!FinalizeOperation, Files!Break, Files!FailOperation, Files!ClearUp
  <2>4. files' \in [Files!Paths -> Files!Entry]
    <3>1. CASE Files!ClearUp(r)
      BY <1>1, <1>3, <2>1, <3>1 DEF Files!ClearUp
    <3>2. CASE ~Files!ClearUp(r)
      BY <1>1, <1>7, <3>2 DEF Files!ClaimOperation, Files!AnswerFromClaim, Files!Register,
           Files!FinalizeOperation, Files!Break, Files!FailOperation
    <3>3. QED
      BY <3>1, <3>2
  <2>5. fileClaims' \in [Files!Keys -> Files!Claim]
    <3>1. CASE Files!ClaimOperation(r)
      <4>1. fileClaims' = [fileClaims EXCEPT ![k] = [state |-> "processing", by |-> Nobody]]
        BY <3>1 DEF Files!ClaimOperation
      <4>2. [state |-> "processing", by |-> Nobody] \in Files!Claim
        BY <1>4
      <4>3. QED
        BY <1>1, <2>1, <4>1, <4>2
    <3>2. CASE Files!FinalizeOperation(r)
      <4>1. [state |-> "completed", by |-> r] \in Files!Claim
        BY <1>4
      <4>2. \/ UNCHANGED fileClaims
            \/ fileClaims' = [fileClaims EXCEPT ![k] = [state |-> "completed", by |-> r]]
        BY <3>2 DEF Files!FinalizeOperation
      <4>3. QED
        BY <1>1, <2>1, <4>1, <4>2
    <3>3. CASE Files!FailOperation(r)
      <4>1. UNCHANGED fileClaims \/ fileClaims' = [fileClaims EXCEPT ![k].state = "failed"]
        BY <3>3 DEF Files!FailOperation
      <4>2. QED
        BY <1>1, <1>5, <2>1, <4>1
    <3>4. CASE Files!AnswerFromClaim(r) \/ Files!Register(r) \/ Files!Break(r) \/ Files!ClearUp(r)
      BY <1>1, <3>4 DEF Files!AnswerFromClaim, Files!Register, Files!Break, Files!ClearUp
    <3>5. QED
      BY <1>7, <3>1, <3>2, <3>3, <3>4
  <2>6. registry' \subseteq FileRequests
    BY <1>1, <1>7 DEF Files!ClaimOperation, Files!AnswerFromClaim, Files!Register,
           Files!FinalizeOperation, Files!Break, Files!FailOperation, Files!ClearUp
  <2>7. troubles' \in 0..FileFaults
    BY <1>1, <1>2, <1>7 DEF Files!ClaimOperation, Files!AnswerFromClaim, Files!Register,
           Files!FinalizeOperation, Files!Break, Files!FailOperation, Files!ClearUp
  <2>8. QED
    BY <2>3, <2>4, <2>5, <2>6, <2>7 DEF Files!FilesTypeOK, Turned
<1>8. ASSUME NEW p \in Files!Paths, Files!SaveNewFile(p) PROVE Files!FilesTypeOK'
  <2>1. [files[p] EXCEPT !.type = "file"] \in Files!Entry
    BY <1>8 DEF Files!SaveNewFile, Files!Absent, Files!Entry
  <2>2. files' = [files EXCEPT ![p] = [files[p] EXCEPT !.type = "file"]] /\ UNCHANGED <<registry, fileClaims, asked, troubles>>
    BY <1>8 DEF Files!SaveNewFile
  <2>3. files' \in [Files!Paths -> Files!Entry]
    BY <1>1, <2>1, <2>2
  <2>4. QED
    BY <1>1, <2>2, <2>3 DEF Files!FilesTypeOK
<1>9. ASSUME NEW k \in Files!Keys, Files!ExpireClaim(k) PROVE Files!FilesTypeOK'
  <2>1. fileClaims' \in [Files!Keys -> Files!Claim]
    BY <1>5, <1>9 DEF Files!ExpireClaim
  <2>2. QED
    BY <1>1, <1>2, <1>9, <2>1 DEF Files!FilesTypeOK, Files!ExpireClaim
<1>10. CASE Files!CrashServer
  <2>1. ASSUME NEW q \in FileRequests
        PROVE  asked'[q] \in [at : Files!Steps, clears : BOOLEAN]
    <3>1. PICK old \in [at : Files!Steps, clears : BOOLEAN] : old = asked[q]
      BY <1>1
    <3>2. [asked[q] EXCEPT !.at = "dead"] \in [at : Files!Steps, clears : BOOLEAN]
      BY <3>1
    <3>3. QED
      BY <1>10, <3>1, <3>2 DEF Files!CrashServer
  <2>2. asked' \in [FileRequests -> [at : Files!Steps, clears : BOOLEAN]]
    BY <1>10, <2>1 DEF Files!CrashServer
  <2>3. QED
    BY <1>1, <1>2, <1>10, <2>2 DEF Files!FilesTypeOK, Files!CrashServer
<1>11. QED
  BY <1>6, <1>7, <1>8, <1>9, <1>10 DEF Files!FilesNext

LEMMA FilesSteps == FilesInv /\ [Files!FilesNext]_(Files!fileVars) => FilesInv'
<1> SUFFICES ASSUME FilesInv, [Files!FilesNext]_(Files!fileVars) PROVE FilesInv'
  OBVIOUS
<1>1. CASE UNCHANGED Files!fileVars
  BY <1>1 DEF Files!fileVars, FilesInv, Files!FilesTypeOK, EntriesFit, RequestsFit, RequestFits, Mine
<1>2. CASE Files!FilesNext
  <2>1. EntriesFit' /\ RequestsFit'
    BY <1>2, QuietSteps, PlacementsFit, ClearUpFits, OthersFit DEF Files!FilesNext
  <2>2. QED
    BY <1>2, <2>1, FilesTyped DEF FilesInv
<1>3. QED
  BY <1>1, <1>2

(* What a request answered with 201 imported or created stays readable and   *)
(* is its own, and a file that is not registered belongs to a request that   *)
(* is not over or was cut off: for any number of requests, paths and keys,   *)
(* with failures, expiring claims and crashes anywhere.                      *)
THEOREM FilesMatch == Files!FilesSpec => []FilesMatchRegistry
<1>1. FilesInv => FilesMatchRegistry
  <2> SUFFICES ASSUME FilesInv, NEW r \in FileRequests
               PROVE  /\ Files!Created(r) /\ Ask[r].kind \in {"text", "import"}
                            => Files!Readable(r) /\ files[Files!PathOf(r)].by = r
                      /\ files[Files!PathOf(r)].type = "file" /\ files[Files!PathOf(r)].by = r /\ r \notin registry
                            => asked[r].at \in {"published", "failing", "clearing", "dead"}
    BY DEF FilesMatchRegistry, Files!FilesMatchRegistry, FilesInv
  <2>1. RequestFits(r) /\ Files!PathOf(r) \in Files!Paths
    BY DEF FilesInv, RequestsFit, Files!Paths, Files!PathOf
  <2>2. Mine(r) => files[Files!PathOf(r)].type = (IF Ask[r].kind = "folder" THEN "folder" ELSE "file")
    BY <2>1 DEF FilesInv, EntriesFit, Mine
  <2>3. QED
    BY <2>1, <2>2 DEF RequestFits, Mine, Keeps, Files!Created, Files!Readable
<1>2. QED
  BY <1>1, FilesStart, FilesSteps, PTL DEF Files!FilesSpec

-----------------------------------------------------------------------------
(* The Memory Hub (module MemoryHub).                                      *)

\* The role whose approval a record asks for, and what no role may approve.
Role(r) == IF hub[r].kind = "preference" THEN "user" ELSE "codex"
Approvable(r) == hub[r].kind = "lesson" => hub[r].sens = "normal"
Verified(r) == Approvable(r) /\ hub[r].verifier = Role(r)
Activated(r) == Verified(r) /\ hub[r].activator = Role(r)

InForceOnce ==
    \A r, s \in RecordIds :
        hub[r].life = "active" /\ hub[s].life = "active" /\ Hub!SameIdentity(r, s) => r = s

RecordsFit ==
    \A r \in RecordIds :
        /\ hub[r].life \in {"verified", "active", "superseded"} => Verified(r)
        /\ hub[r].life \in {"active", "superseded"} => Activated(r)

\* A review under way was allowed for its record, whose kind and role stay what
\* they were when it was read; an activation's record has been verified, and the
\* record it replaces has been in force and is of the same identity.
ReviewFits(q) ==
    LET v == hubReview[q] IN
    v.pc # "idle" =>
        /\ v.record \in RecordIds /\ hub[v.record].life # "absent"
        /\ v.op \in {"verify", "activate"} => Approvable(v.record) /\ v.actor = Role(v.record)
        /\ v.op = "activate" => Verified(v.record)
        /\ v.previous # NoRecord =>
              /\ v.previous \in RecordIds /\ hub[v.previous].life # "absent"
              /\ Activated(v.previous) /\ Hub!SameIdentity(v.previous, v.record)

ReviewsFit == \A q \in Reviews : ReviewFits(q)

HubInv == Hub!HubTypeOK /\ InForceOnce /\ RecordsFit /\ ReviewsFit

LEMMA HubStart == Hub!HubInit => HubInv
<1> SUFFICES ASSUME Hub!HubInit PROVE HubInv
  OBVIOUS
<1> USE HubAssumption DEF Hub!HubInit
<1>1. Hub!Absent \in Hub!Record
  BY DEF Hub!Absent, Hub!Record, Hub!Kinds
<1>2. Hub!Idle \in Hub!Review
  BY DEF Hub!Idle, Hub!Review
<1>3. Hub!HubTypeOK
  BY <1>1, <1>2 DEF Hub!HubTypeOK
<1>4. InForceOnce /\ RecordsFit
  BY DEF InForceOnce, RecordsFit, Hub!Absent
<1>5. ReviewsFit
  BY DEF ReviewsFit, ReviewFits, Hub!Idle
<1>6. QED
  BY <1>3, <1>4, <1>5 DEF HubInv

\* What no step undoes: a record that is there keeps its kind, scope and
\* sensitivity, and whoever verified or activated it had its role.
RecordStays(r) ==
    hub[r].life # "absent" =>
        /\ hub'[r].life # "absent"
        /\ hub'[r].kind = hub[r].kind /\ hub'[r].scope = hub[r].scope /\ hub'[r].sens = hub[r].sens
        /\ Verified(r) => hub'[r].verifier = Role(r)
        /\ Activated(r) => hub'[r].activator = Role(r)

LEMMA ReviewStays ==
    ASSUME NEW q \in Reviews, ReviewFits(q), hubReview'[q] = hubReview[q], \A r \in RecordIds : RecordStays(r)
    PROVE  ReviewFits(q)'
  BY DEF ReviewFits, RecordStays, Role, Approvable, Verified, Activated, Hub!SameIdentity

\* A row with another life, and the fields a decision fills in.
Lived(row, life) == [row EXCEPT !.life = life]
VerifiedBy(row, actor) == [row EXCEPT !.life = "verified", !.verifier = actor]
ActivatedBy(row, actor, version, previous) ==
    [row EXCEPT !.life = "active", !.version = version, !.supersedes = previous, !.activator = actor]

LEMMA LifeChanges ==
    ASSUME NEW row \in Hub!Record, NEW life \in {"verified", "active", "superseded", "rejected"}
    PROVE  LET new == Lived(row, life) IN
              /\ new \in Hub!Record /\ new.life = life
              /\ new.kind = row.kind /\ new.scope = row.scope /\ new.sens = row.sens
              /\ new.verifier = row.verifier /\ new.activator = row.activator
  BY DEF Hub!Record, Lived

LEMMA VerifiedRow ==
    ASSUME NEW row \in Hub!Record, NEW actor \in {"user", "codex"}
    PROVE  LET new == VerifiedBy(row, actor) IN
              /\ new \in Hub!Record /\ new.life = "verified" /\ new.verifier = actor
              /\ new.kind = row.kind /\ new.scope = row.scope /\ new.sens = row.sens
              /\ new.activator = row.activator
  BY DEF Hub!Record, VerifiedBy

LEMMA ActiveRow ==
    ASSUME NEW row \in Hub!Record, NEW actor \in {"user", "codex"}, NEW version \in 1..MaxHubVersion,
           NEW previous \in RecordIds \cup {NoRecord}
    PROVE  LET new == ActivatedBy(row, actor, version, previous) IN
              /\ new \in Hub!Record /\ new.life = "active" /\ new.activator = actor
              /\ new.kind = row.kind /\ new.scope = row.scope /\ new.sens = row.sens
              /\ new.verifier = row.verifier
  BY DEF Hub!Record, ActivatedBy

LEMMA ProposalFits ==
    ASSUME NEW kind \in Hub!Kinds, NEW scope \in {"global", "task"}, NEW sens \in {"normal", "restricted"}
    PROVE  /\ Hub!Proposed(kind, scope, sens) \in Hub!Record
           /\ Hub!Proposed(kind, scope, sens).life = "proposed"
<1>1. Hub!Absent \in Hub!Record
  BY HubAssumption DEF Hub!Absent, Hub!Record, Hub!Kinds
<1>2. PICK row \in Hub!Record : row = Hub!Absent
  BY <1>1
<1>3. [row EXCEPT !.life = "proposed", !.kind = kind, !.scope = scope, !.sens = sens] \in Hub!Record
  BY DEF Hub!Record, Hub!Kinds
<1>4. [row EXCEPT !.life = "proposed", !.kind = kind, !.scope = scope, !.sens = sens].life = "proposed"
  BY DEF Hub!Record
<1>5. QED
  BY <1>2, <1>3, <1>4 DEF Hub!Proposed

\* Proposals fill rows that were not there; reviews know of none of them.
LEMMA NewRecordsFit ==
    ASSUME HubInv, hub' \in [RecordIds -> Hub!Record], UNCHANGED hubReview, imports' \in [Legacy -> RecordIds \cup {NoRecord}],
           \A r \in RecordIds : hub'[r] = hub[r] \/ (hub[r].life = "absent" /\ hub'[r].life = "proposed")
    PROVE  HubInv'
<1>1. Hub!HubTypeOK'
  BY DEF HubInv, Hub!HubTypeOK
<1>2. InForceOnce'
  BY DEF HubInv, InForceOnce, Hub!SameIdentity
<1>3. RecordsFit'
  BY DEF HubInv, RecordsFit, Verified, Activated, Approvable, Role
<1>4. \A r \in RecordIds : RecordStays(r)
  BY DEF RecordStays, Verified, Activated, Role
<1>5. ReviewsFit'
  BY <1>4, ReviewStays DEF HubInv, ReviewsFit
<1>6. QED
  BY <1>1, <1>2, <1>3, <1>5 DEF HubInv

LEMMA HubReads ==
    ASSUME HubInv, NEW q \in Reviews, Hub!ReadRecord(q) \/ Hub!ReadPrevious(q)
    PROVE  HubInv'
<1> USE HubAssumption
<1>1. /\ hubReview \in [Reviews -> Hub!Review] /\ UNCHANGED <<hub, imports>>
      /\ hub \in [RecordIds -> Hub!Record]
  BY DEF HubInv, Hub!HubTypeOK, Hub!ReadRecord, Hub!ReadPrevious
<1>2. \A r \in RecordIds : RecordStays(r)
  BY <1>1 DEF RecordStays, Verified, Activated
<1>3. SUFFICES ASSUME TRUE PROVE /\ hubReview' \in [Reviews -> Hub!Review] /\ ReviewFits(q)'
                                 /\ \A o \in Reviews \ {q} : hubReview'[o] = hubReview[o]
  BY <1>1, <1>2, ReviewStays
     DEF HubInv, Hub!HubTypeOK, InForceOnce, RecordsFit, ReviewsFit, Hub!SameIdentity, Verified, Activated, Approvable, Role
<1>4. CASE Hub!ReadRecord(q)
  <2>1. PICK op \in {"verify", "activate", "reject"}, actor \in {"user", "codex"}, r \in RecordIds :
            /\ Hub!Allowed(op, actor, hub[r])
            /\ hubReview' = [hubReview EXCEPT ![q] = [Hub!Idle EXCEPT
                                !.pc = IF op = "activate" THEN "read" ELSE "decided",
                                !.op = op, !.actor = actor, !.record = r]]
    BY <1>4 DEF Hub!ReadRecord
  <2>2. PICK idle \in Hub!Review : idle = Hub!Idle /\ idle.previous = NoRecord
    <3>1. Hub!Idle \in Hub!Review
      BY DEF Hub!Idle, Hub!Review
    <3>2. Hub!Idle.previous = NoRecord
      BY DEF Hub!Idle
    <3>3. QED
      BY <3>1, <3>2
  <2> DEFINE new == [idle EXCEPT !.pc = IF op = "activate" THEN "read" ELSE "decided",
                                 !.op = op, !.actor = actor, !.record = r]
  <2>3. /\ new \in Hub!Review /\ new.op = op /\ new.actor = actor /\ new.record = r
        /\ new.previous = NoRecord
    BY <2>2 DEF Hub!Review
  <2>4. hubReview' = [hubReview EXCEPT ![q] = new]
    BY <2>1, <2>2
  <2>5. hubReview'[q] = new
    BY <1>1, <2>4
  <2>6. /\ hub[r].life # "absent"
        /\ op \in {"verify", "activate"} => Approvable(r) /\ actor = Role(r)
        /\ op = "activate" => Verified(r)
    <3>1. /\ hub[r] \in Hub!Record
          /\ hub[r].life = "verified" => Verified(r)
      BY <1>1 DEF HubInv, RecordsFit
    <3>2. QED
      BY <2>1, <3>1 DEF Hub!Allowed, Hub!MayApprove, Hub!MayReject, Hub!Record, Hub!Kinds, Approvable, Role, Verified
  <2>7. ReviewFits(q)'
    BY <1>1, <2>3, <2>5, <2>6 DEF ReviewFits, Approvable, Role, Verified, Activated
  <2>8. QED
    BY <1>1, <2>3, <2>4, <2>7
<1>5. CASE Hub!ReadPrevious(q)
  <2>1. PICK v \in Hub!Review : v = hubReview[q]
    BY <1>1
  <2>2. CASE hubReview' = [hubReview EXCEPT ![q].pc = "decided"]
    <3>1. /\ [v EXCEPT !.pc = "decided"] \in Hub!Review
          /\ [v EXCEPT !.pc = "decided"].record = v.record
          /\ [v EXCEPT !.pc = "decided"].op = v.op /\ [v EXCEPT !.pc = "decided"].actor = v.actor
          /\ [v EXCEPT !.pc = "decided"].previous = v.previous
      BY DEF Hub!Review
    <3>2. hubReview'[q] = [v EXCEPT !.pc = "decided"]
      BY <1>1, <2>1, <2>2
    <3>3. v.pc # "idle" /\ ReviewFits(q)
      BY <1>5, <2>1 DEF Hub!ReadPrevious, HubInv, ReviewsFit
    <3>4. ReviewFits(q)'
      BY <1>1, <2>1, <3>1, <3>2, <3>3 DEF ReviewFits, Approvable, Role, Verified, Activated, Hub!SameIdentity
    <3>5. hubReview' \in [Reviews -> Hub!Review]
      BY <1>1, <2>1, <2>2, <3>1
    <3>6. QED
      BY <1>1, <2>2, <3>4, <3>5
  <2>3. CASE \E s \in Hub!ActiveLike(hubReview[q].record) :
                /\ hub[s].version < MaxHubVersion
                /\ hubReview' = [hubReview EXCEPT ![q] = [hubReview[q] EXCEPT !.pc = "decided",
                                    !.previous = s, !.version = hub[s].version + 1]]
    <3>1. PICK s \in Hub!ActiveLike(v.record) :
                /\ hub[s].version < MaxHubVersion
                /\ hubReview' = [hubReview EXCEPT ![q] = [v EXCEPT !.pc = "decided",
                                    !.previous = s, !.version = hub[s].version + 1]]
      BY <2>1, <2>3
    <3>2. s \in RecordIds /\ hub[s].life = "active" /\ Hub!SameIdentity(v.record, s)
      BY DEF Hub!ActiveLike
    <3>3. hub[s].version \in 1..MaxHubVersion
      BY <1>1, <3>2 DEF Hub!Record
    <3>4. PICK next \in 1..MaxHubVersion : next = hub[s].version + 1
      BY <3>1, <3>3
    <3> DEFINE new == [v EXCEPT !.pc = "decided", !.previous = s, !.version = next]
    <3>5. /\ new \in Hub!Review /\ new.record = v.record /\ new.op = v.op /\ new.actor = v.actor
          /\ new.previous = s
      BY <3>2 DEF Hub!Review
    <3>6. hubReview' = [hubReview EXCEPT ![q] = new]
      BY <3>1, <3>4
    <3>7. hubReview'[q] = new
      BY <1>1, <3>6
    <3>8. v.pc # "idle" /\ ReviewFits(q) /\ Activated(s)
      BY <1>5, <2>1, <3>2 DEF Hub!ReadPrevious, HubInv, ReviewsFit, RecordsFit
    <3>9. ReviewFits(q)'
      BY <1>1, <2>1, <3>2, <3>5, <3>7, <3>8 DEF ReviewFits, Approvable, Role, Verified, Activated, Hub!SameIdentity
    <3>10. QED
      BY <1>1, <3>5, <3>6, <3>9
  <2>4. QED
    BY <1>5, <2>2, <2>3 DEF Hub!ReadPrevious
<1>6. QED
  BY <1>4, <1>5

LEMMA ProposeFits ==
    ASSUME HubInv, NEW r \in RecordIds, Hub!Propose(r)
    PROVE  HubInv'
<1>1. /\ hub \in [RecordIds -> Hub!Record] /\ imports \in [Legacy -> RecordIds \cup {NoRecord}]
      /\ hub[r].life = "absent" /\ UNCHANGED <<imports, hubReview>>
  BY DEF HubInv, Hub!HubTypeOK, Hub!Propose
<1>2. PICK p \in Asked : hub' = [hub EXCEPT ![r] = Hub!Proposed(p.kind, p.scope, p.sens)]
  BY DEF Hub!Propose
<1>3. /\ p.kind \in Hub!Kinds /\ p.scope \in {"global", "task"} /\ p.sens \in {"normal", "restricted"}
  BY HubAssumption DEF Hub!Kinds
<1>4. PICK new \in Hub!Record : new = Hub!Proposed(p.kind, p.scope, p.sens) /\ new.life = "proposed"
  BY <1>3, ProposalFits
<1>5. hub' = [hub EXCEPT ![r] = new]
  BY <1>2, <1>4
<1>6. QED
  BY <1>1, <1>4, <1>5, NewRecordsFit

LEMMA ImportFits ==
    ASSUME HubInv, NEW entries \in SUBSET Legacy, Hub!ImportLegacy(entries)
    PROVE  HubInv'
<1> DEFINE fresh == {l \in entries : imports[l] = NoRecord}
<1>1. /\ hub \in [RecordIds -> Hub!Record] /\ imports \in [Legacy -> RecordIds \cup {NoRecord}]
      /\ UNCHANGED hubReview
  BY DEF HubInv, Hub!HubTypeOK, Hub!ImportLegacy
<1>2. PICK f \in [fresh -> {r \in RecordIds : hub[r].life = "absent"}] :
          /\ hub' = [r \in RecordIds |-> IF \E l \in fresh : f[l] = r
                                          THEN Hub!Proposed("lesson", "task", "normal") ELSE hub[r]]
          /\ imports' = [l \in Legacy |-> IF l \in fresh THEN f[l] ELSE imports[l]]
  BY DEF Hub!ImportLegacy
<1>3. PICK new \in Hub!Record : new = Hub!Proposed("lesson", "task", "normal") /\ new.life = "proposed"
  BY ProposalFits DEF Hub!Kinds
<1>4. \A r \in RecordIds : hub'[r] = hub[r] \/ (hub[r].life = "absent" /\ hub'[r] = new)
  BY <1>2, <1>3
<1>5. hub' \in [RecordIds -> Hub!Record] /\ imports' \in [Legacy -> RecordIds \cup {NoRecord}]
  BY <1>1, <1>2, <1>3
<1>6. QED
  BY <1>1, <1>3, <1>4, <1>5, NewRecordsFit

\* The end of a review: one request is idle again, and no record is lost.
LEMMA ReviewOver ==
    ASSUME HubInv, NEW q \in Reviews, hubReview' = [hubReview EXCEPT ![q] = Hub!Idle], UNCHANGED imports,
           hub' \in [RecordIds -> Hub!Record], \A r \in RecordIds : RecordStays(r), InForceOnce', RecordsFit'
    PROVE  HubInv'
<1>1. PICK idle \in Hub!Review : idle = Hub!Idle /\ idle.pc = "idle"
  <2>1. Hub!Idle \in Hub!Review
    BY HubAssumption DEF Hub!Idle, Hub!Review
  <2>2. Hub!Idle.pc = "idle"
    BY DEF Hub!Idle
  <2>3. QED
    BY <2>1, <2>2
<1>2. hubReview' = [hubReview EXCEPT ![q] = idle] /\ hubReview \in [Reviews -> Hub!Review]
  BY <1>1 DEF HubInv, Hub!HubTypeOK
<1>3. Hub!HubTypeOK'
  BY <1>1, <1>2 DEF HubInv, Hub!HubTypeOK
<1>4. ReviewFits(q)'
  BY <1>1, <1>2 DEF ReviewFits
<1>5. ASSUME NEW o \in Reviews, o # q PROVE ReviewFits(o)'
  BY <1>2, <1>5, ReviewStays DEF HubInv, ReviewsFit
<1>6. QED
  BY <1>3, <1>4, <1>5 DEF HubInv, ReviewsFit

LEMMA DecisionFits ==
    ASSUME HubInv, NEW q \in Reviews, Hub!WriteDecision(q)
    PROVE  HubInv'
<1>1. hubReview \in [Reviews -> Hub!Review] /\ hub \in [RecordIds -> Hub!Record]
  BY DEF HubInv, Hub!HubTypeOK
<1>2. PICK v \in Hub!Review : v = hubReview[q]
  BY <1>1
<1>3. /\ v.pc = "decided" /\ v.op \in {"verify", "reject"} /\ UNCHANGED imports
      /\ hubReview' = [hubReview EXCEPT ![q] = Hub!Idle] /\ v.actor \in {"user", "codex"}
  BY <1>2 DEF Hub!WriteDecision, Hub!Review
<1>4. /\ v.record \in RecordIds /\ hub[v.record].life # "absent"
      /\ v.op = "verify" => Approvable(v.record) /\ v.actor = Role(v.record)
  BY <1>2, <1>3 DEF HubInv, ReviewsFit, ReviewFits
<1>5. PICK row \in Hub!Record : row = hub[v.record]
  BY <1>1, <1>4
<1>6. PICK new \in Hub!Record :
          /\ hub' = [hub EXCEPT ![v.record] = new]
          /\ new.kind = row.kind /\ new.scope = row.scope /\ new.sens = row.sens
          /\ new.activator = row.activator
          /\ \/ v.op = "verify" /\ new.life = "verified" /\ new.verifier = v.actor
             \/ v.op = "reject" /\ new.life = "rejected" /\ new.verifier = row.verifier
  <2>1. CASE v.op = "verify"
    <3>1. hub' = [hub EXCEPT ![v.record] = VerifiedBy(row, v.actor)]
      BY <1>2, <1>5, <2>1 DEF Hub!WriteDecision, VerifiedBy
    <3>2. QED
      BY <1>3, <2>1, <3>1, VerifiedRow
  <2>2. CASE v.op = "reject"
    <3>1. hub' = [hub EXCEPT ![v.record] = Lived(row, "rejected")]
      BY <1>2, <1>5, <2>2 DEF Hub!WriteDecision, Lived
    <3>2. QED
      BY <1>3, <2>2, <3>1, LifeChanges
  <2>3. QED
    BY <1>3, <2>1, <2>2
<1>7. hub'[v.record] = new /\ \A r \in RecordIds : r # v.record => hub'[r] = hub[r]
  BY <1>1, <1>4, <1>6
<1>8. \A r \in RecordIds : RecordStays(r)
  BY <1>4, <1>5, <1>6, <1>7 DEF RecordStays, Verified, Activated, Role
<1>9. InForceOnce'
  BY <1>6, <1>7 DEF HubInv, InForceOnce, Hub!SameIdentity
<1>10. RecordsFit'
  BY <1>4, <1>5, <1>6, <1>7 DEF HubInv, RecordsFit, Verified, Activated, Approvable, Role
<1>11. hub' \in [RecordIds -> Hub!Record]
  BY <1>1, <1>6
<1>12. QED
  BY <1>3, <1>8, <1>9, <1>10, <1>11, ReviewOver

\* The outcome of an activation that the index does not refuse.
LEMMA ActivationWrites ==
    ASSUME HubInv, NEW q \in Reviews, Hub!Activate(q), hub' # hub
    PROVE  \E v \in Hub!Review :
              /\ v = hubReview[q] /\ v.record \in RecordIds /\ ~Hub!Conflict(q)
              /\ v.op = "activate" /\ v.pc = "decided"
              /\ hub' \in [RecordIds -> Hub!Record]
              /\ hub'[v.record].life = "active" /\ hub'[v.record].activator = v.actor
              /\ v.previous \in RecordIds \ {v.record} => hub'[v.previous].life = "superseded"
              /\ \A r \in RecordIds :
                    /\ hub'[r].kind = hub[r].kind /\ hub'[r].scope = hub[r].scope
                    /\ hub'[r].sens = hub[r].sens /\ hub'[r].verifier = hub[r].verifier
                    /\ r # v.record => hub'[r].activator = hub[r].activator
                    /\ r \notin {v.record, v.previous} => hub'[r] = hub[r]
<1>1. hubReview \in [Reviews -> Hub!Review] /\ hub \in [RecordIds -> Hub!Record]
  BY DEF HubInv, Hub!HubTypeOK
<1>2. PICK v \in Hub!Review : v = hubReview[q]
  BY <1>1
<1>3. /\ v.pc = "decided" /\ v.op = "activate" /\ v.record \in RecordIds /\ ~Hub!Conflict(q)
      /\ v.previous \in RecordIds \cup {NoRecord} /\ v.actor \in {"user", "codex"}
      /\ v.version \in 1..MaxHubVersion
  BY <1>2 DEF Hub!Activate, HubInv, ReviewsFit, ReviewFits, Hub!Review
<1> DEFINE mid == [r \in RecordIds |->
                      IF r = v.previous THEN [hub[r] EXCEPT !.life = "superseded"] ELSE hub[r]]
<1>4. hub' = [mid EXCEPT ![v.record] = [mid[v.record] EXCEPT !.life = "active",
                 !.version = v.version, !.supersedes = v.previous, !.activator = v.actor]]
  BY <1>2, <1>3 DEF Hub!Activate, Hub!Superseded
<1>5. ASSUME NEW r \in RecordIds
      PROVE  /\ mid[r] \in Hub!Record
             /\ mid[r].kind = hub[r].kind /\ mid[r].scope = hub[r].scope
             /\ mid[r].sens = hub[r].sens /\ mid[r].verifier = hub[r].verifier
             /\ mid[r].activator = hub[r].activator
             /\ r # v.previous => mid[r] = hub[r]
             /\ r = v.previous => mid[r].life = "superseded"
  <2>1. PICK row \in Hub!Record : row = hub[r]
    BY <1>1
  <2>2. mid[r] = IF r = v.previous THEN Lived(row, "superseded") ELSE row
    BY <2>1 DEF Lived
  <2>3. QED
    BY <2>1, <2>2, LifeChanges
<1>6. mid \in [RecordIds -> Hub!Record]
  BY <1>5
<1> HIDE DEF mid
<1>7. PICK row \in Hub!Record : row = mid[v.record]
  BY <1>3, <1>5
<1> DEFINE new == ActivatedBy(row, v.actor, v.version, v.previous)
<1>8. /\ new \in Hub!Record /\ new.life = "active" /\ new.activator = v.actor
      /\ new.kind = row.kind /\ new.scope = row.scope /\ new.sens = row.sens /\ new.verifier = row.verifier
  BY <1>3, ActiveRow
<1>9. hub' = [mid EXCEPT ![v.record] = new]
  BY <1>4, <1>7 DEF ActivatedBy
<1> HIDE DEF new
<1>10. hub' \in [RecordIds -> Hub!Record] /\ hub'[v.record] = new
       /\ \A r \in RecordIds \ {v.record} : hub'[r] = mid[r]
  BY <1>3, <1>6, <1>8, <1>9
<1>11. QED
  BY <1>2, <1>3, <1>5, <1>7, <1>8, <1>10

LEMMA ActivationFits ==
    ASSUME HubInv, NEW q \in Reviews, Hub!Activate(q)
    PROVE  HubInv'
<1>1. hub \in [RecordIds -> Hub!Record] /\ UNCHANGED imports /\ hubReview' = [hubReview EXCEPT ![q] = Hub!Idle]
  BY DEF HubInv, Hub!HubTypeOK, Hub!Activate
<1>2. CASE hub' = hub
  <2>1. (\A r \in RecordIds : RecordStays(r)) /\ InForceOnce' /\ RecordsFit'
    BY <1>2 DEF HubInv, RecordStays, InForceOnce, RecordsFit, Verified, Activated, Approvable, Role, Hub!SameIdentity
  <2>2. QED
    BY <1>1, <1>2, <2>1, ReviewOver
<1>3. CASE hub' # hub
  <2>1. PICK v \in Hub!Review :
              /\ v = hubReview[q] /\ v.record \in RecordIds /\ ~Hub!Conflict(q)
              /\ v.op = "activate" /\ v.pc = "decided"
              /\ hub' \in [RecordIds -> Hub!Record]
              /\ hub'[v.record].life = "active" /\ hub'[v.record].activator = v.actor
              /\ v.previous \in RecordIds \ {v.record} => hub'[v.previous].life = "superseded"
              /\ \A r \in RecordIds :
                    /\ hub'[r].kind = hub[r].kind /\ hub'[r].scope = hub[r].scope
                    /\ hub'[r].sens = hub[r].sens /\ hub'[r].verifier = hub[r].verifier
                    /\ r # v.record => hub'[r].activator = hub[r].activator
                    /\ r \notin {v.record, v.previous} => hub'[r] = hub[r]
    BY <1>3, ActivationWrites
  <2>2. /\ hub[v.record].life # "absent" /\ Verified(v.record) /\ v.actor = Role(v.record)
        /\ v.previous # NoRecord => /\ v.previous \in RecordIds /\ hub[v.previous].life # "absent"
                                    /\ Activated(v.previous)
    BY <2>1 DEF HubInv, ReviewsFit, ReviewFits
  <2>3. \A r \in RecordIds : r \notin {v.record, v.previous} => hub'[r] = hub[r]
    BY <2>1
  <2>4. \A r \in RecordIds : RecordStays(r)
    BY <2>1, <2>2, HubAssumption DEF RecordStays, Verified, Activated, Role
  <2>5. RecordsFit'
    BY <2>1, <2>2, HubAssumption DEF HubInv, RecordsFit, Verified, Activated, Approvable, Role
  <2>6. InForceOnce'
    <3>1. ASSUME NEW r \in RecordIds, hub'[r].life = "active", r # v.record,
                 hub[r].kind = hub[v.record].kind, hub[r].scope = hub[v.record].scope
          PROVE  FALSE
      <4>1. r # v.previous
        BY <2>1, <3>1
      <4>2. hub[r].life = "active"
        BY <2>1, <3>1, <4>1
      <4>3. r \in Hub!ActiveLike(v.record) \ {v.record, v.previous}
        BY <3>1, <4>1, <4>2 DEF Hub!ActiveLike, Hub!SameIdentity
      <4>4. QED
        BY <2>1, <4>3 DEF Hub!Conflict
    <3>2. ASSUME NEW r \in RecordIds, NEW s \in RecordIds, hub'[r].life = "active", hub'[s].life = "active",
                 hub'[r].kind = hub'[s].kind, hub'[r].scope = hub'[s].scope
          PROVE  r = s
      <4>1. CASE r = v.record \/ s = v.record
        BY <2>1, <3>1, <3>2, <4>1
      <4>2. CASE r # v.record /\ s # v.record
        BY <2>1, <3>2, <4>2 DEF HubInv, InForceOnce, Hub!SameIdentity
      <4>3. QED
        BY <4>1, <4>2
    <3>3. QED
      BY <3>2 DEF InForceOnce, Hub!SameIdentity
  <2>7. QED
    BY <1>1, <2>1, <2>4, <2>5, <2>6, ReviewOver
<1>4. QED
  BY <1>2, <1>3

LEMMA HubSteps == HubInv /\ [Hub!HubNext]_Hub!hubVars => HubInv'
<1> SUFFICES ASSUME HubInv, [Hub!HubNext]_Hub!hubVars PROVE HubInv'
  OBVIOUS
<1>1. CASE UNCHANGED Hub!hubVars
  BY <1>1 DEF Hub!hubVars, HubInv, Hub!HubTypeOK, InForceOnce, RecordsFit, ReviewsFit, ReviewFits,
              Verified, Activated, Approvable, Role, Hub!SameIdentity
<1>2. ASSUME NEW r \in RecordIds, Hub!Propose(r) PROVE HubInv'
  BY <1>2, ProposeFits
<1>3. ASSUME NEW entries \in SUBSET Legacy, Hub!ImportLegacy(entries) PROVE HubInv'
  BY <1>3, ImportFits
<1>4. ASSUME NEW q \in Reviews, Hub!ReadRecord(q) \/ Hub!ReadPrevious(q) PROVE HubInv'
  BY <1>4, HubReads
<1>5. ASSUME NEW q \in Reviews, Hub!WriteDecision(q) PROVE HubInv'
  BY <1>5, DecisionFits
<1>6. ASSUME NEW q \in Reviews, Hub!Activate(q) PROVE HubInv'
  BY <1>6, ActivationFits
<1>7. QED
  BY <1>1, <1>2, <1>3, <1>4, <1>5, <1>6 DEF Hub!HubNext

LEMMA HubCardinality == ASSUME NEW S PROVE Hub!Cardinality(S) = Cardinality(S)
  BY DEF Hub!Cardinality, Cardinality

\* The records a pack may give its caller, and the pack after one more row.
Given(actor, r) == hub[r].sens = "restricted" => actor = "user"
Packed(actor, order, got, i) ==
    IF \/ hub[order[i]].sens = "restricted" /\ actor # "user"
       \/ Size[got[i - 1] \cup {order[i]}] > PackBytes
    THEN got[i - 1] ELSE got[i - 1] \cup {order[i]}

PackedFrom(found, n, order, actor, got) ==
    /\ got \in [0..n -> SUBSET found]
    /\ got[0] = {} /\ Hub!Pack(actor, order) = got[n]
    /\ \A i \in 1..n : got[i] = Packed(actor, order, got, i)

\* A pack is what comes of taking the rows one after the other.
LEMMA PackIsTaken ==
    ASSUME NEW found \in SUBSET RecordIds, NEW n \in Nat, NEW order \in [1..n -> found], NEW actor, Len(order) = n
    PROVE  \E got : PackedFrom(found, n, order, actor, got)
<1> DEFINE Taken(got, m) ==
              /\ got \in [0..m -> SUBSET found] /\ got[0] = {}
              /\ \A i \in 1..m : got[i] = Packed(actor, order, got, i)
           P == {m \in Nat : m <= n => \E got : Taken(got, m)}
<1>1. 0 \in P
  <2>1. Taken([i \in 0..0 |-> {}], 0)
    OBVIOUS
  <2>2. QED
    BY <2>1
<1>2. ASSUME NEW m \in Nat, m \in P PROVE m + 1 \in P
  <2>1. SUFFICES ASSUME m + 1 <= n PROVE \E got : Taken(got, m + 1)
    OBVIOUS
  <2>2. PICK got : Taken(got, m)
    BY <1>2, <2>1
  <2>3. m + 1 \in 1..n /\ order[m + 1] \in found
    BY <2>1
  <2> DEFINE next == [i \in 0..(m + 1) |-> IF i = m + 1 THEN Packed(actor, order, got, m + 1) ELSE got[i]]
  <2>4. /\ \A i \in 0..m : next[i] = got[i]
        /\ next[m + 1] = Packed(actor, order, got, m + 1)
    OBVIOUS
  <2>5. m \in 0..m /\ (m + 1) - 1 = m /\ got[m] \in SUBSET found
    BY <2>2
  <2>6. Packed(actor, order, got, m + 1) \in SUBSET found
    BY <2>3, <2>5 DEF Packed
  <2>7. next \in [0..(m + 1) -> SUBSET found] /\ next[0] = {}
    BY <2>2, <2>6
  <2> HIDE DEF next
  <2>8. ASSUME NEW i \in 1..(m + 1) PROVE next[i] = Packed(actor, order, next, i)
    <3>1. i - 1 \in 0..m /\ next[i - 1] = got[i - 1]
      BY <2>4
    <3>2. next[i] = Packed(actor, order, got, i)
      BY <2>2, <2>4
    <3>3. QED
      BY <3>1, <3>2 DEF Packed
  <2>9. QED
    BY <2>7, <2>8
<1>3. \E got : Taken(got, n)
  <2> HIDE DEF P
  <2>1. n \in P
    BY <1>1, <1>2, Counting
  <2>2. QED
    BY <2>1 DEF P
<1>4. PICK g : Taken(g, n)
  BY <1>3
<1>5. g = [i \in 0..Len(order) |-> IF i = 0 THEN {}
              ELSE IF \/ hub[order[i]].sens = "restricted" /\ actor # "user"
                      \/ Size[g[i - 1] \cup {order[i]}] > PackBytes
                   THEN g[i - 1] ELSE g[i - 1] \cup {order[i]}]
  <2>1. \A i \in 0..n : i # 0 => i \in 1..n
    OBVIOUS
  <2>2. QED
    BY <1>4, <2>1 DEF Packed
<1>6. \E got : /\ got = [i \in 0..Len(order) |-> IF i = 0 THEN {}
                          ELSE IF \/ hub[order[i]].sens = "restricted" /\ actor # "user"
                                  \/ Size[got[i - 1] \cup {order[i]}] > PackBytes
                               THEN got[i - 1] ELSE got[i - 1] \cup {order[i]}]
               /\ Hub!Pack(actor, order) = got[Len(order)]
  BY <1>5 DEF Hub!Pack
<1>7. PICK got : /\ got = [i \in 0..n |-> IF i = 0 THEN {}
                            ELSE IF \/ hub[order[i]].sens = "restricted" /\ actor # "user"
                                    \/ Size[got[i - 1] \cup {order[i]}] > PackBytes
                                 THEN got[i - 1] ELSE got[i - 1] \cup {order[i]}]
                 /\ Hub!Pack(actor, order) = got[n]
  BY <1>6
<1>8. got[0] = {} /\ \A i \in 1..n : got[i] = Packed(actor, order, got, i)
  <2>1. 0 \in 0..n /\ \A i \in 1..n : i \in 0..n /\ i # 0
    OBVIOUS
  <2>2. QED
    BY <1>7, <2>1 DEF Packed
<1> DEFINE Q == {m \in Nat : m <= n => got[m] \in SUBSET found}
<1>9. 0 \in Q
  BY <1>8
<1>10. ASSUME NEW m \in Nat, m \in Q PROVE m + 1 \in Q
  <2>1. SUFFICES ASSUME m + 1 <= n PROVE got[m + 1] \in SUBSET found
    OBVIOUS
  <2>2. m + 1 \in 1..n /\ (m + 1) - 1 = m /\ order[m + 1] \in found /\ got[m] \in SUBSET found
    BY <1>10, <2>1
  <2>3. got[m + 1] = Packed(actor, order, got, m + 1)
    BY <1>8, <2>2
  <2>4. got[(m + 1) - 1] = got[m]
    BY <2>2
  <2>5. QED
    BY <2>2, <2>3, <2>4 DEF Packed
<1>11. got \in [0..n -> SUBSET found]
  <2> HIDE DEF Q
  <2>1. Nat \subseteq Q
    BY <1>9, <1>10, Counting
  <2>2. \A m \in 0..n : got[m] \in SUBSET found
    BY <2>1 DEF Q
  <2>3. QED
    BY <1>7, <2>2
<1>12. QED
  BY <1>7, <1>8, <1>11 DEF PackedFrom

\* A pack keeps to its bytes, gives what its caller may have, and has room for
\* none of the rows it leaves out.
LEMMA PackFits ==
    ASSUME NEW found \in SUBSET RecordIds, NEW n \in Nat, NEW order \in [1..n -> found], NEW actor, Len(order) = n
    PROVE  LET pack == Hub!Pack(actor, order)
           IN  /\ pack \in SUBSET found /\ Size[pack] <= PackBytes
               /\ \A r \in pack : Given(actor, r)
               /\ \A i \in 1..n : order[i] \in pack \/ ~Given(actor, order[i])
                                  \/ Size[pack \cup {order[i]}] > PackBytes
<1>0. PICK got : PackedFrom(found, n, order, actor, got)
  BY PackIsTaken
<1>1. /\ got \in [0..n -> SUBSET found] /\ got[0] = {} /\ Hub!Pack(actor, order) = got[n]
      /\ \A i \in 1..n : got[i] = Packed(actor, order, got, i)
  BY <1>0 DEF PackedFrom
<1> DEFINE Out(m, i) == order[i] \in got[m] \/ ~Given(actor, order[i]) \/ Size[got[m] \cup {order[i]}] > PackBytes
           Fit(m) == /\ Size[got[m]] <= PackBytes
                     /\ \A r \in got[m] : Given(actor, r)
                     /\ \A i \in 1..m : Out(m, i)
           P == {m \in Nat : m <= n => Fit(m)}
<1>2. 0 \in P
  BY <1>1, HubAssumption
<1> HIDE DEF Fit
<1>3. ASSUME NEW m \in Nat, m \in P PROVE m + 1 \in P
  <2>1. SUFFICES ASSUME m + 1 <= n PROVE Fit(m + 1)
    OBVIOUS
  <2>2. m + 1 \in 1..n /\ (m + 1) - 1 = m /\ m \in 0..n /\ m + 1 \in 0..n
    BY <2>1
  <2>3. PICK r \in found : r = order[m + 1]
    BY <2>2
  <2>0. Fit(m)
    BY <1>3, <2>1
  <2>4. got[m] \in SUBSET found /\ got[m + 1] \in SUBSET found
    BY <1>1, <2>2
  <2>5. got[m + 1] = IF ~Given(actor, r) \/ Size[got[m] \cup {r}] > PackBytes THEN got[m] ELSE got[m] \cup {r}
    BY <1>1, <2>2, <2>3 DEF Packed, Given
  <2>6. \A few, many \in SUBSET RecordIds :
            Size[few] \in Nat /\ Size[many] \in Nat /\ (few \subseteq many => Size[few] <= Size[many])
    BY HubAssumption
  <2>7. Size[got[m + 1]] <= PackBytes
    <3>1. got[m] \cup {r} \in SUBSET RecordIds /\ PackBytes \in Nat
      BY <2>4, HubAssumption
    <3>2. QED
      BY <2>0, <2>4, <2>5, <2>6, <3>1 DEF Fit
  <2>8. \A s \in got[m + 1] : Given(actor, s)
    BY <2>0, <2>5 DEF Fit
  <2>9. Out(m + 1, m + 1)
    BY <2>3, <2>5
  <2>10. ASSUME NEW i \in 1..m PROVE Out(m + 1, i)
    <3>1. Out(m, i)
      BY <2>0 DEF Fit
    <3>2. PICK s \in found : s = order[i]
      BY <2>1
    <3>3. got[m] \subseteq got[m + 1] /\ PackBytes \in Nat
      BY <2>5, HubAssumption
    <3>4. got[m] \cup {s} \subseteq got[m + 1] \cup {s} /\ got[m] \cup {s} \in SUBSET RecordIds
          /\ got[m + 1] \cup {s} \in SUBSET RecordIds
      BY <2>4, <3>3
    <3>5. Size[got[m] \cup {s}] > PackBytes => Size[got[m + 1] \cup {s}] > PackBytes
      BY <2>6, <3>3, <3>4
    <3>6. QED
      BY <3>1, <3>2, <3>3, <3>5
  <2>11. \A i \in 1..(m + 1) : i = m + 1 \/ i \in 1..m
    OBVIOUS
  <2> HIDE DEF Out
  <2>12. QED
    BY <2>7, <2>8, <2>9, <2>10, <2>11 DEF Fit
<1>4. Fit(n)
  <2> HIDE DEF P
  <2>1. n \in P
    BY <1>2, <1>3, Counting
  <2>2. QED
    BY <2>1 DEF P
<1>5. got[n] \in SUBSET found
  BY <1>1
<1>6. QED
  BY <1>1, <1>4, <1>5 DEF Fit

\* Every row is somewhere in an order of all of them.
LEMMA OrderHasAll ==
    ASSUME NEW found, IsFiniteSet(found), NEW order \in Hub!SetToSeqs(found)
    PROVE  \E n \in Nat : /\ order \in [1..n -> found] /\ Len(order) = n
                          /\ \A r \in found : \E i \in 1..n : order[i] = r
<1> DEFINE n == Cardinality(found)
<1>1. n \in Nat
  BY FS_CardinalityType
<1>2. order \in [1..n -> found] /\ \A i, j \in 1..n : i # j => order[i] # order[j]
  BY HubCardinality DEF Hub!SetToSeqs
<1>3. IsFiniteSet(1..n) /\ Cardinality(1..n) = n
  <2>1. Cardinality(1..n) = IF 1 > n THEN 0 ELSE n - 1 + 1
    BY <1>1, FS_Interval
  <2>2. IsFiniteSet(1..n)
    BY <1>1, FS_Interval
  <2>3. QED
    BY <1>1, <2>1, <2>2
<1> HIDE DEF n
<1>4. order \in Injection(1..n, found)
  BY <1>2 DEF Injection, IsInjective
<1>5. order \in Surjection(1..n, found)
  BY <1>3, <1>4, FS_Injection DEF n
<1>6. Len(order) = n
  BY <1>1, <1>2
<1>7. QED
  BY <1>1, <1>2, <1>5, <1>6 DEF Surjection

LEMMA PacksFit == HubInv => Hub!PacksAreFit
<1> SUFFICES ASSUME HubInv, NEW actor \in {"agent", "codex", "user"},
                    NEW order \in Hub!SetToSeqs(Hub!Search(actor, "active"))
             PROVE  LET pack == Hub!Pack(actor, order)
                        found == Hub!Search(actor, "active")
                    IN  /\ Size[pack] <= PackBytes
                        /\ \A r \in pack : Hub!Readable(actor, r)
                        /\ \A r \in found \ pack : (hub[r].sens = "restricted" /\ actor # "user")
                                                  \/ Size[pack \cup {r}] > PackBytes
  BY DEF Hub!PacksAreFit
<1> DEFINE found == Hub!Search(actor, "active")
           pack == Hub!Pack(actor, order)
<1>1. found \in SUBSET RecordIds
  BY DEF Hub!Search
<1>2. IsFiniteSet(found)
  BY <1>1, FS_Subset, HubAssumption
<1> HIDE DEF found
<1>3. PICK n \in Nat : /\ order \in [1..n -> found] /\ Len(order) = n
                       /\ \A r \in found : \E i \in 1..n : order[i] = r
  BY <1>2, OrderHasAll DEF found
<1>4. /\ pack \in SUBSET found /\ Size[pack] <= PackBytes
      /\ \A i \in 1..n : order[i] \in pack \/ ~Given(actor, order[i]) \/ Size[pack \cup {order[i]}] > PackBytes
  BY <1>1, <1>3, PackFits
<1> HIDE DEF pack
<1>5. \A r \in found \ pack : ~Given(actor, r) \/ Size[pack \cup {r}] > PackBytes
  BY <1>3, <1>4
<1>6. \A r \in found : Hub!Readable(actor, r)
  BY DEF found, Hub!Search, Hub!Readable
<1>7. QED
  BY <1>4, <1>5, <1>6 DEF found, pack, Given

LEMMA HubHolds == HubInv => Hub!HubTypeOK /\ Hub!HubIsGoverned
<1> SUFFICES ASSUME HubInv PROVE Hub!HubTypeOK /\ Hub!HubIsGoverned
  OBVIOUS
<1>1. ASSUME NEW r \in RecordIds PROVE Hub!Cardinality(Hub!ActiveLike(r)) <= 1
  <2>1. ASSUME NEW s \in Hub!ActiveLike(r) PROVE Hub!ActiveLike(r) = {s}
    BY DEF HubInv, InForceOnce, Hub!ActiveLike, Hub!SameIdentity
  <2>2. Hub!ActiveLike(r) = {} \/ \E s : Hub!ActiveLike(r) = {s}
    BY <2>1
  <2>3. Cardinality(Hub!ActiveLike(r)) \in {0, 1}
    BY <2>2, FS_EmptySet, FS_Singleton
  <2>4. QED
    BY <2>3, HubCardinality
<1>2. Hub!OneInForce
  BY <1>1 DEF Hub!OneInForce
<1>3. Hub!OnlyReviewedIsUsed
  BY DEF HubInv, RecordsFit, Verified, Activated, Approvable, Role, Hub!OnlyReviewedIsUsed
<1>4. QED
  BY <1>2, <1>3, PacksFit DEF HubInv, Hub!HubIsGoverned

\* An identity in force is lost to a review that was decided before only.
LEMMA ReplacedStep ==
    ASSUME HubInv, Hub!HubNext, NEW r \in RecordIds, hub[r].life = "active", Hub!ActiveLike(r)' = {}
    PROVE  \E q \in Reviews : /\ hubReview[q].pc = "decided" /\ hubReview[q].record = r
                              /\ hubReview[q].op # "activate" /\ hubReview'[q] = Hub!Idle
<1>1. /\ hubReview \in [Reviews -> Hub!Review] /\ hub \in [RecordIds -> Hub!Record]
  BY DEF HubInv, Hub!HubTypeOK
<1>2. ~(hub'[r].life = "active" /\ hub'[r].kind = hub[r].kind /\ hub'[r].scope = hub[r].scope)
  BY DEF Hub!ActiveLike, Hub!SameIdentity
<1>3. hub'[r] # hub[r]
  BY <1>2
<1>4. ASSUME NEW s \in RecordIds, Hub!Propose(s) PROVE FALSE
  BY <1>1, <1>3, <1>4 DEF Hub!Propose
<1>5. ASSUME NEW entries \in SUBSET Legacy, Hub!ImportLegacy(entries) PROVE FALSE
  BY <1>1, <1>3, <1>5 DEF Hub!ImportLegacy
<1>6. ASSUME NEW q \in Reviews, Hub!ReadRecord(q) \/ Hub!ReadPrevious(q) PROVE FALSE
  BY <1>3, <1>6 DEF Hub!ReadRecord, Hub!ReadPrevious
<1>7. ASSUME NEW q \in Reviews, Hub!WriteDecision(q)
      PROVE  /\ hubReview[q].pc = "decided" /\ hubReview[q].record = r
             /\ hubReview[q].op # "activate" /\ hubReview'[q] = Hub!Idle
  BY <1>1, <1>3, <1>7 DEF Hub!WriteDecision
<1>8. ASSUME NEW q \in Reviews, Hub!Activate(q) PROVE FALSE
  <2>1. PICK v \in Hub!Review :
              /\ v = hubReview[q] /\ v.record \in RecordIds /\ v.op = "activate" /\ v.pc = "decided"
              /\ hub'[v.record].life = "active"
              /\ \A s \in RecordIds :
                    /\ hub'[s].kind = hub[s].kind /\ hub'[s].scope = hub[s].scope
                    /\ s \notin {v.record, v.previous} => hub'[s] = hub[s]
    BY <1>3, <1>8, ActivationWrites
  <2>2. r = v.record \/ r = v.previous
    BY <1>3, <2>1
  <2>3. Hub!SameIdentity(r, v.record)
    BY <2>1, <2>2, HubAssumption DEF HubInv, ReviewsFit, ReviewFits, Hub!SameIdentity
  <2>4. v.record \in Hub!ActiveLike(r)'
    BY <2>1, <2>3 DEF Hub!ActiveLike, Hub!SameIdentity
  <2>5. QED
    BY <2>4
<1>9. QED
  BY <1>4, <1>5, <1>6, <1>7, <1>8 DEF Hub!HubNext

(* Whatever records there are and however large, and whatever reviews of     *)
(* them overlap: one record of an identity is in force, only reviewed ones   *)
(* are or were, packs keep to their bytes and leave nothing out for less,    *)
(* and a record in force is not lost to a replacement that fails.            *)
THEOREM HubGoverned == Hub!HubSpec => HubIsGoverned
<1>1. HubInv /\ [Hub!HubNext]_Hub!hubVars => [Hub!LostToEarlierReview]_Hub!hubVars
  BY ReplacedStep DEF Hub!LostToEarlierReview
<1>2. Hub!HubSpec => []HubInv
  BY HubStart, HubSteps, PTL DEF Hub!HubSpec
<1>3. Hub!HubSpec => [](Hub!HubTypeOK /\ Hub!HubIsGoverned)
  BY <1>2, HubHolds, PTL
<1>4. Hub!HubSpec => Hub!ReplacedNotLost
  BY <1>1, <1>2, PTL DEF Hub!HubSpec, Hub!ReplacedNotLost
<1>5. QED
  BY <1>3, <1>4 DEF HubIsGoverned

-----------------------------------------------------------------------------
(* DIRAP's knowledge (module Knowledge).                                   *)

\* What may become of the extractions while a request is under way: more of
\* them, and some no longer fresh.
ExtractionsKeep ==
    /\ Len(extractions) <= Len(extractions')
    /\ \A i \in 1..Len(extractions) :
          /\ extractions'[i].hash = extractions[i].hash
          /\ extractions'[i].status = "fresh" => extractions[i].status = "fresh"

\* A request that has selected what is stale will mark its target too, if that
\* is of another text; one that is about to store a record has the text it read.
ReaderFits(r) ==
    LET v == reader[r] IN
    /\ v.left \subseteq 1..Len(extractions)
    /\ v.pc # "idle" => v.read \in Texts
    /\ v.pc # "idle" /\ v.op \in {"show", "create"} => v.target \in 1..Len(extractions)
    /\ v.pc = "mark" /\ v.op = "create" /\ extractions[v.target].status = "fresh" =>
          extractions[v.target].hash = v.read \/ v.target \in v.left
    /\ v.pc = "store" => v.op = "create" /\ extractions[v.target].hash = v.read

\* What a row says agrees with the evidence filed with it.
RowFits(k) ==
    LET row == knowledge[k] IN
    /\ row.hash = row.read
    /\ row.status \in {"none", "draft", "review_pending"} =>
          /\ evidence[k] = {} /\ row.source = "unverified" /\ row.calculation = "unverified"
          /\ row.owner = "pending" /\ row.authority = "none"
    /\ row.status = "active" =>
          /\ row.source = "verified" /\ row.owner = "accepted" /\ row.authority \in Authorities
          /\ {"reviewer", "source_evidence", "authority_evidence"} \subseteq evidence[k]
          /\ "decision_reason" \notin evidence[k]
          /\ "calculation_evidence" \in evidence[k] <=> row.calculation = "verified"
    /\ row.status = "rejected" =>
          /\ evidence[k] = {"reviewer", "decision_reason"} /\ row.source = "unverified"
          /\ row.calculation = "unverified" /\ row.owner = "rejected" /\ row.authority = "none"

ReadersFit == \A r \in Readers : ReaderFits(r)
RowsFit == \A k \in KnowledgeIds : RowFits(k)
KnowledgeInv == Dirap!KnowledgeTypeOK /\ ReadersFit /\ RowsFit

LEMMA KnowledgeStart == Dirap!KnowledgeInit => KnowledgeInv
<1> SUFFICES ASSUME Dirap!KnowledgeInit PROVE KnowledgeInv
  OBVIOUS
<1> USE KnowledgeAssumption DEF Dirap!KnowledgeInit
<1>1. /\ Dirap!NoReader.pc = "idle" /\ Dirap!NoReader.left = {}
      /\ Dirap!NoReader \in [pc : {"idle", "read", "mark", "insert", "store"},
                             op : {"none", "extract", "list", "show", "create"},
                             read : Texts \cup {"gone"}, target : 0..MaxExtractions,
                             left : SUBSET (1..MaxExtractions)]
  BY DEF Dirap!NoReader
<1>2. Dirap!NoKnowledge \in Dirap!KnowledgeRow
  BY DEF Dirap!NoKnowledge, Dirap!KnowledgeRow
<1>3. extractions \in Seq(Dirap!ExtractionRow) /\ Len(extractions) = 0
  OBVIOUS
<1>4. Dirap!KnowledgeTypeOK
  BY <1>1, <1>2, <1>3 DEF Dirap!KnowledgeTypeOK
<1>5. ReadersFit
  BY <1>1 DEF ReadersFit, ReaderFits
<1>6. RowsFit
  BY DEF RowsFit, RowFits, Dirap!NoKnowledge
<1>7. QED
  BY <1>4, <1>5, <1>6 DEF KnowledgeInv

LEMMA ReaderStays ==
    ASSUME NEW r \in Readers, ReaderFits(r), reader'[r] = reader[r], ExtractionsKeep,
           Len(extractions) \in Nat, Len(extractions)' \in Nat
    PROVE  ReaderFits(r)'
<1>1. \A i \in 1..Len(extractions) : i \in 1..Len(extractions')
  BY DEF ExtractionsKeep
<1>2. QED
  BY <1>1 DEF ReaderFits, ExtractionsKeep

LEMMA RowStays ==
    ASSUME NEW k \in KnowledgeIds, RowFits(k), knowledge'[k] = knowledge[k], evidence'[k] = evidence[k]
    PROVE  RowFits(k)'
  BY DEF RowFits

\* The steps of one request that touch neither the extractions nor the records.
Asking(r) ==
    \/ \E op \in Does[r], i \in 0..Len(extractions) : Dirap!ReadSource(r, op, i)
    \/ Dirap!SelectStale(r) \/ Dirap!ListExtractions(r) \/ Dirap!ShowExtraction(r)
    \/ Dirap!FindExtraction(r) \/ Dirap!CheckFresh(r)

ReaderRow == [pc : {"idle", "read", "mark", "insert", "store"},
              op : {"none", "extract", "list", "show", "create"},
              read : Texts \cup {"gone"}, target : 0..MaxExtractions, left : SUBSET (1..MaxExtractions)]

LEMMA NoReaderIsTyped == Dirap!NoReader \in ReaderRow /\ Dirap!NoReader.pc = "idle" /\ Dirap!NoReader.left = {}
  BY KnowledgeAssumption DEF Dirap!NoReader, ReaderRow

\* What a step of one request leaves to prove.
LEMMA ReaderStep ==
    ASSUME KnowledgeInv, NEW r \in Readers, NEW new \in ReaderRow, reader' = [reader EXCEPT ![r] = new],
           UNCHANGED <<item, disk, evidence, review, writeLock>>, ReaderFits(r)', ExtractionsKeep,
           extractions' \in Seq(Dirap!ExtractionRow), Len(extractions') <= MaxExtractions,
           knowledge' \in [KnowledgeIds -> Dirap!KnowledgeRow], RowsFit'
    PROVE  KnowledgeInv'
<1>1. Dirap!KnowledgeTypeOK'
  BY DEF KnowledgeInv, Dirap!KnowledgeTypeOK, ReaderRow
<1>2. ASSUME NEW o \in Readers PROVE ReaderFits(o)'
  <2>1. CASE o # r
    <3>1. reader'[o] = reader[o] /\ ReaderFits(o)
      BY <2>1 DEF KnowledgeInv, Dirap!KnowledgeTypeOK, ReadersFit
    <3>2. Len(extractions) \in Nat /\ Len(extractions)' \in Nat
      BY DEF KnowledgeInv, Dirap!KnowledgeTypeOK
    <3>3. QED
      BY <3>1, <3>2, ReaderStays
  <2>2. QED
    BY <2>1
<1>3. QED
  BY <1>1, <1>2 DEF KnowledgeInv, ReadersFit

LEMMA AskingFits ==
    ASSUME KnowledgeInv, NEW r \in Readers, Asking(r)
    PROVE  KnowledgeInv'
<1>1. /\ extractions \in Seq(Dirap!ExtractionRow) /\ Len(extractions) \in 0..MaxExtractions
      /\ reader \in [Readers -> ReaderRow] /\ disk \in Texts \cup {"gone"}
      /\ knowledge \in [KnowledgeIds -> Dirap!KnowledgeRow] /\ ReaderFits(r)
      /\ Len(extractions) \in Nat /\ MaxExtractions \in Nat
  BY KnowledgeAssumption DEF KnowledgeInv, Dirap!KnowledgeTypeOK, ReaderRow, ReadersFit
<1>2. UNCHANGED <<item, disk, extractions, knowledge, evidence, review, writeLock>>
  BY DEF Asking, Dirap!ReadSource, Dirap!SelectStale, Dirap!ListExtractions, Dirap!ShowExtraction,
         Dirap!FindExtraction, Dirap!CheckFresh, Dirap!reviewVars
<1>3. ExtractionsKeep /\ RowsFit'
  BY <1>1, <1>2 DEF ExtractionsKeep, KnowledgeInv, RowsFit, RowFits
<1>4. PICK v \in ReaderRow : v = reader[r]
  BY <1>1
<1>5. ASSUME NEW new \in ReaderRow, reader' = [reader EXCEPT ![r] = new], ReaderFits(r)'
      PROVE  KnowledgeInv'
  <2>1. /\ extractions' \in Seq(Dirap!ExtractionRow) /\ Len(extractions') <= MaxExtractions
        /\ knowledge' \in [KnowledgeIds -> Dirap!KnowledgeRow]
    BY <1>1, <1>2
  <2>2. QED
    BY <1>2, <1>3, <1>5, <2>1, ReaderStep
<1>6. PICK idle \in ReaderRow : idle = Dirap!NoReader /\ idle.pc = "idle" /\ idle.left = {}
  BY NoReaderIsTyped
<1>7. ASSUME reader' = [reader EXCEPT ![r] = idle] PROVE reader'[r] = idle /\ ReaderFits(r)'
  BY <1>1, <1>6, <1>7 DEF ReaderFits
<1>8. ASSUME NEW op \in Does[r], NEW i \in 0..Len(extractions), Dirap!ReadSource(r, op, i)
      PROVE  \E new \in ReaderRow : reader' = [reader EXCEPT ![r] = new] /\ ReaderFits(r)'
  <2>1. /\ op \in {"extract", "list", "show", "create"} /\ disk \in Texts /\ disk # "gone"
        /\ i \in 0..MaxExtractions
        /\ op \in {"show", "create"} => i \in 1..Len(extractions)
    BY <1>1, <1>8, KnowledgeAssumption DEF Dirap!ReadSource
  <2> DEFINE new == [pc |-> "read", op |-> op, read |-> disk, target |-> i, left |-> {}]
  <2>2. new \in ReaderRow
    BY <2>1 DEF ReaderRow
  <2>3. /\ new.pc = "read" /\ new.op = op /\ new.read = disk /\ new.target = i /\ new.left = {}
        /\ reader' = [reader EXCEPT ![r] = new]
    BY <1>8 DEF Dirap!ReadSource
  <2> HIDE DEF new
  <2>4. reader'[r] = new
    BY <1>1, <2>3
  <2>5. ReaderFits(r)'
    BY <1>2, <2>1, <2>3, <2>4 DEF ReaderFits
  <2>6. QED
    BY <2>2, <2>3, <2>5
<1>9. ASSUME Dirap!SelectStale(r)
      PROVE  \E new \in ReaderRow : reader' = [reader EXCEPT ![r] = new] /\ ReaderFits(r)'
  <2> DEFINE old == Dirap!Outdated(v.read)
             new == [v EXCEPT !.pc = "mark", !.left = old]
  <2>1. old \subseteq 1..Len(extractions) /\ old \in SUBSET (1..MaxExtractions)
    BY <1>1 DEF Dirap!Outdated
  <2>2. /\ new \in ReaderRow /\ new.pc = "mark" /\ new.left = old
        /\ new.read = v.read /\ new.op = v.op /\ new.target = v.target
    BY <2>1 DEF ReaderRow
  <2>3. reader' = [reader EXCEPT ![r] = new] /\ v.pc = "read"
    BY <1>1, <1>4, <1>9 DEF Dirap!SelectStale
  <2>4. v.op = "create" /\ extractions[v.target].status = "fresh" =>
            extractions[v.target].hash = v.read \/ v.target \in old
    BY <1>1, <1>4, <2>3 DEF Dirap!Outdated, ReaderFits
  <2> HIDE DEF new, old
  <2>5. reader'[r] = new
    BY <1>1, <2>3
  <2>6. ReaderFits(r)'
    BY <1>1, <1>2, <1>4, <2>1, <2>2, <2>3, <2>4, <2>5 DEF ReaderFits
  <2>7. QED
    BY <2>2, <2>3, <2>6
<1>10. ASSUME Dirap!ListExtractions(r) \/ Dirap!ShowExtraction(r)
       PROVE  \E new \in ReaderRow : reader' = [reader EXCEPT ![r] = new] /\ ReaderFits(r)'
  <2>1. reader' = [reader EXCEPT ![r] = idle]
    BY <1>6, <1>10 DEF Dirap!ListExtractions, Dirap!ShowExtraction
  <2>2. QED
    BY <1>6, <1>7, <2>1
<1>11. ASSUME Dirap!FindExtraction(r)
       PROVE  \E new \in ReaderRow : reader' = [reader EXCEPT ![r] = new] /\ ReaderFits(r)'
  <2>1. CASE reader' = [reader EXCEPT ![r] = idle]
    BY <1>6, <1>7, <2>1
  <2>2. CASE reader' = [reader EXCEPT ![r] = [v EXCEPT !.pc = "insert"]]
    <3> DEFINE new == [v EXCEPT !.pc = "insert"]
    <3>1. /\ new \in ReaderRow /\ new.pc = "insert" /\ new.left = v.left
          /\ new.read = v.read /\ new.op = v.op /\ new.target = v.target
      BY DEF ReaderRow
    <3>0. new = [v EXCEPT !.pc = "insert"]
      OBVIOUS
    <3> HIDE DEF new
    <3>2. reader' = [reader EXCEPT ![r] = new] /\ v.pc = "mark"
      BY <1>4, <1>11, <2>2, <3>0 DEF Dirap!FindExtraction, Dirap!Refreshed
    <3>3. reader'[r] = new
      BY <1>1, <3>2
    <3>4. ReaderFits(r)'
      BY <1>1, <1>2, <1>4, <3>1, <3>2, <3>3 DEF ReaderFits
    <3>5. QED
      BY <3>1, <3>2, <3>4
  <2>3. reader' = [reader EXCEPT ![r] = IF reader[r].read \in Dirap!FreshTexts THEN Dirap!NoReader
                                        ELSE [reader[r] EXCEPT !.pc = "insert"]]
    BY <1>1, <1>11 DEF Dirap!FindExtraction
  <2>4. QED
    BY <1>4, <1>6, <2>1, <2>2, <2>3
<1>12. ASSUME Dirap!CheckFresh(r)
       PROVE  \E new \in ReaderRow : reader' = [reader EXCEPT ![r] = new] /\ ReaderFits(r)'
  <2>1. CASE reader' = [reader EXCEPT ![r] = idle]
    BY <1>6, <1>7, <2>1
  <2>2. CASE reader' = [reader EXCEPT ![r] = [v EXCEPT !.pc = "store"]] /\ extractions[v.target].status = "fresh"
    <3> DEFINE new == [v EXCEPT !.pc = "store"]
    <3>1. /\ new \in ReaderRow /\ new.pc = "store" /\ new.left = v.left
          /\ new.read = v.read /\ new.op = v.op /\ new.target = v.target
      BY DEF ReaderRow
    <3>0. new = [v EXCEPT !.pc = "store"]
      OBVIOUS
    <3> HIDE DEF new
    <3>2. /\ reader' = [reader EXCEPT ![r] = new]
          /\ v.pc = "mark" /\ v.left = {} /\ v.op = "create"
      BY <1>4, <1>12, <2>2, <3>0 DEF Dirap!CheckFresh, Dirap!Refreshed
    <3>3. reader'[r] = new
      BY <1>1, <3>2
    <3>4. ReaderFits(r)'
      BY <1>1, <1>2, <1>4, <2>2, <3>1, <3>2, <3>3 DEF ReaderFits
    <3>5. QED
      BY <3>1, <3>2, <3>4
  <2>3. reader' = [reader EXCEPT ![r] = IF extractions[reader[r].target].status = "fresh"
                                        THEN [reader[r] EXCEPT !.pc = "store"] ELSE Dirap!NoReader]
    BY <1>1, <1>12 DEF Dirap!CheckFresh
  <2>4. QED
    BY <1>4, <1>6, <2>1, <2>2, <2>3
<1>13. QED
  BY <1>5, <1>8, <1>9, <1>10, <1>11, <1>12 DEF Asking

LEMMA MarkFits ==
    ASSUME KnowledgeInv, NEW r \in Readers, Dirap!MarkStale(r)
    PROVE  KnowledgeInv'
<1>1. /\ extractions \in Seq(Dirap!ExtractionRow) /\ Len(extractions) <= MaxExtractions
      /\ reader \in [Readers -> ReaderRow] /\ Len(extractions) \in Nat
      /\ knowledge \in [KnowledgeIds -> Dirap!KnowledgeRow] /\ ReaderFits(r)
  BY DEF KnowledgeInv, Dirap!KnowledgeTypeOK, ReaderRow, ReadersFit
<1>2. PICK v \in ReaderRow : v = reader[r]
  BY <1>1
<1>3. PICK i \in v.left : /\ extractions' = [extractions EXCEPT ![i].status = "stale"]
                          /\ reader' = [reader EXCEPT ![r].left = reader[r].left \ {i}]
                          /\ UNCHANGED <<item, disk, knowledge, evidence, review, writeLock>>
  BY <1>1, <1>2 DEF Dirap!MarkStale, Dirap!reviewVars
<1>4. i \in 1..Len(extractions)
  BY <1>1, <1>2 DEF ReaderFits
<1>5. PICK old \in Dirap!ExtractionRow : old = extractions[i]
  BY <1>1, <1>4
<1> DEFINE stale == [old EXCEPT !.status = "stale"]
<1>6. stale \in Dirap!ExtractionRow /\ stale.status = "stale" /\ stale.hash = old.hash
  BY DEF Dirap!ExtractionRow
<1>7. extractions' = [extractions EXCEPT ![i] = stale]
  BY <1>1, <1>3, <1>4, <1>5, <1>6
<1> HIDE DEF stale
<1>8. /\ extractions' \in Seq(Dirap!ExtractionRow) /\ Len(extractions') = Len(extractions)
      /\ extractions'[i] = stale
      /\ \A j \in 1..Len(extractions) : j # i => extractions'[j] = extractions[j]
  BY <1>1, <1>4, <1>6, <1>7
<1>9. ExtractionsKeep
  <2>1. \A j \in 1..Len(extractions) : extractions'[j].hash = extractions[j].hash
    BY <1>5, <1>6, <1>8
  <2>2. \A j \in 1..Len(extractions) : extractions'[j].status = "fresh" => extractions[j].status = "fresh"
    BY <1>5, <1>6, <1>8
  <2>3. QED
    BY <1>1, <1>8, <2>1, <2>2 DEF ExtractionsKeep
<1> DEFINE new == [v EXCEPT !.left = v.left \ {i}]
<1>10. /\ new \in ReaderRow /\ new.left = v.left \ {i}
       /\ new.pc = v.pc /\ new.op = v.op /\ new.read = v.read /\ new.target = v.target
  BY DEF ReaderRow
<1>11. reader' = [reader EXCEPT ![r] = new]
  BY <1>1, <1>2, <1>3, <1>10
<1> HIDE DEF new
<1>12. reader'[r] = new
  BY <1>1, <1>11
<1>13. ReaderFits(r)'
  <2>1. /\ v.left \subseteq 1..Len(extractions)
        /\ v.pc # "idle" => v.read \in Texts
        /\ v.pc # "idle" /\ v.op \in {"show", "create"} => v.target \in 1..Len(extractions)
        /\ v.pc = "mark" /\ v.op = "create" /\ extractions[v.target].status = "fresh" =>
              extractions[v.target].hash = v.read \/ v.target \in v.left
        /\ v.pc = "store" => v.op = "create" /\ extractions[v.target].hash = v.read
    BY <1>1, <1>2 DEF ReaderFits
  <2>2. new.pc = "mark" /\ new.op = "create" /\ extractions'[new.target].status = "fresh" =>
              extractions'[new.target].hash = new.read \/ new.target \in new.left
    BY <1>5, <1>6, <1>8, <1>10, <2>1
  <2>3. new.pc = "store" => new.op = "create" /\ extractions'[new.target].hash = new.read
    BY <1>5, <1>6, <1>8, <1>10, <2>1
  <2>4. QED
    BY <1>8, <1>10, <1>12, <2>1, <2>2, <2>3 DEF ReaderFits
<1>14. RowsFit'
  BY <1>3 DEF KnowledgeInv, RowsFit, RowFits
<1>15. QED
  BY <1>1, <1>3, <1>8, <1>9, <1>10, <1>11, <1>13, <1>14, ReaderStep

LEMMA InsertFits ==
    ASSUME KnowledgeInv, NEW r \in Readers, Dirap!InsertExtraction(r)
    PROVE  KnowledgeInv'
<1>1. /\ extractions \in Seq(Dirap!ExtractionRow) /\ Len(extractions) <= MaxExtractions
      /\ reader \in [Readers -> ReaderRow] /\ Len(extractions) \in Nat /\ MaxExtractions \in Nat
      /\ knowledge \in [KnowledgeIds -> Dirap!KnowledgeRow] /\ ReaderFits(r)
  BY KnowledgeAssumption DEF KnowledgeInv, Dirap!KnowledgeTypeOK, ReaderRow, ReadersFit
<1>2. PICK idle \in ReaderRow : idle = Dirap!NoReader /\ idle.pc = "idle" /\ idle.left = {}
  BY NoReaderIsTyped
<1>3. /\ reader' = [reader EXCEPT ![r] = idle] /\ reader[r].read \in Texts
      /\ UNCHANGED <<item, disk, knowledge, evidence, review, writeLock>>
  BY <1>1, <1>2 DEF Dirap!InsertExtraction, Dirap!reviewVars, ReaderFits
<1>4. reader'[r] = idle /\ ReaderFits(r)'
  BY <1>1, <1>2, <1>3 DEF ReaderFits
<1>5. /\ ExtractionsKeep /\ extractions' \in Seq(Dirap!ExtractionRow) /\ Len(extractions') <= MaxExtractions
  <2>1. CASE UNCHANGED extractions
    BY <1>1, <2>1 DEF ExtractionsKeep
  <2>2. CASE /\ Len(extractions) < MaxExtractions
             /\ extractions' = Append(extractions, [hash |-> reader[r].read, status |-> "fresh"])
    <3>1. PICK new \in Dirap!ExtractionRow : new = [hash |-> reader[r].read, status |-> "fresh"]
      BY <1>3 DEF Dirap!ExtractionRow
    <3>2. /\ extractions' = Append(extractions, new) /\ extractions' \in Seq(Dirap!ExtractionRow)
          /\ Len(extractions') = Len(extractions) + 1
          /\ \A j \in 1..Len(extractions) : extractions'[j] = extractions[j]
      BY <1>1, <2>2, <3>1
    <3>3. QED
      BY <1>1, <2>2, <3>2 DEF ExtractionsKeep
  <2>3. QED
    BY <2>1, <2>2 DEF Dirap!InsertExtraction
<1>6. RowsFit'
  BY <1>3 DEF KnowledgeInv, RowsFit, RowFits
<1>7. QED
  BY <1>1, <1>3, <1>4, <1>5, <1>6, ReaderStep

LEMMA StoreFits ==
    ASSUME KnowledgeInv, NEW r \in Readers, NEW k \in KnowledgeIds, Dirap!CreateKnowledge(r, k)
    PROVE  KnowledgeInv'
<1>1. /\ extractions \in Seq(Dirap!ExtractionRow) /\ Len(extractions) <= MaxExtractions
      /\ reader \in [Readers -> ReaderRow] /\ Len(extractions) \in Nat
      /\ knowledge \in [KnowledgeIds -> Dirap!KnowledgeRow] /\ ReaderFits(r)
  BY DEF KnowledgeInv, Dirap!KnowledgeTypeOK, ReaderRow, ReadersFit
<1>2. PICK idle \in ReaderRow : idle = Dirap!NoReader /\ idle.pc = "idle" /\ idle.left = {}
  BY NoReaderIsTyped
<1>3. /\ reader' = [reader EXCEPT ![r] = idle] /\ knowledge[k].status = "none"
      /\ extractions[reader[r].target].hash = reader[r].read /\ reader[r].read \in Texts
      /\ UNCHANGED <<item, disk, extractions, evidence, review, writeLock>>
  BY <1>1, <1>2 DEF Dirap!CreateKnowledge, Dirap!reviewVars, ReaderFits
<1>4. reader'[r] = idle /\ ReaderFits(r)'
  BY <1>1, <1>2, <1>3 DEF ReaderFits
<1>5. PICK none \in Dirap!KnowledgeRow :
          /\ none = Dirap!NoKnowledge /\ none.source = "unverified" /\ none.calculation = "unverified"
          /\ none.owner = "pending" /\ none.authority = "none"
  <2>1. Dirap!NoKnowledge \in Dirap!KnowledgeRow
    BY DEF Dirap!NoKnowledge, Dirap!KnowledgeRow
  <2>2. QED
    BY <2>1 DEF Dirap!NoKnowledge
<1>6. PICK text \in Texts : text = reader[r].read
  BY <1>3
<1> DEFINE new == [none EXCEPT !.status = "draft", !.read = text, !.hash = text]
<1>7. /\ new \in Dirap!KnowledgeRow
      /\ new.status = "draft" /\ new.read = text /\ new.hash = text
      /\ new.source = none.source /\ new.calculation = none.calculation
      /\ new.owner = none.owner /\ new.authority = none.authority
  BY DEF Dirap!KnowledgeRow
<1>8. knowledge' = [knowledge EXCEPT ![k] = new]
  BY <1>3, <1>5, <1>6, <1>7 DEF Dirap!CreateKnowledge
<1> HIDE DEF new
<1>9. knowledge' \in [KnowledgeIds -> Dirap!KnowledgeRow] /\ knowledge'[k] = new
      /\ \A j \in KnowledgeIds : j # k => knowledge'[j] = knowledge[j]
  BY <1>1, <1>7, <1>8
<1>10. RowFits(k)'
  BY <1>3, <1>5, <1>7, <1>9 DEF KnowledgeInv, RowsFit, RowFits
<1>11. RowsFit'
  BY <1>3, <1>9, <1>10, RowStays DEF KnowledgeInv, RowsFit
<1>12. ExtractionsKeep
  BY <1>1, <1>3 DEF ExtractionsKeep
<1>13. QED
  BY <1>1, <1>3, <1>4, <1>9, <1>11, <1>12, ReaderStep

\* A decision on one record: its row, and what is filed with it.
LEMMA DecisionFilesFit ==
    ASSUME KnowledgeInv, NEW v \in Reviewers, NEW k \in KnowledgeIds, NEW row \in Dirap!KnowledgeRow,
           NEW more \in SUBSET Dirap!EvidenceKinds, Dirap!EndReview(v, k, row, more),
           knowledge'[k] = row /\ evidence'[k] = evidence[k] \cup more => RowFits(k)'
    PROVE  KnowledgeInv'
<1>1. /\ knowledge \in [KnowledgeIds -> Dirap!KnowledgeRow]
      /\ evidence \in [KnowledgeIds -> SUBSET Dirap!EvidenceKinds]
      /\ review \in [Reviewers -> KnowledgeIds \cup {"idle"}]
  BY DEF KnowledgeInv, Dirap!KnowledgeTypeOK
<1>2. /\ knowledge' = [knowledge EXCEPT ![k] = row] /\ evidence' = [evidence EXCEPT ![k] = evidence[k] \cup more]
      /\ writeLock' = "free" /\ review' = [review EXCEPT ![v] = "idle"]
      /\ UNCHANGED <<item, disk, extractions, reader>>
  BY <1>1 DEF Dirap!EndReview, Dirap!sourceVars
<1>3. Dirap!KnowledgeTypeOK'
  BY <1>1, <1>2 DEF KnowledgeInv, Dirap!KnowledgeTypeOK
<1>4. ReadersFit'
  BY <1>2 DEF KnowledgeInv, ReadersFit, ReaderFits
<1>5. RowFits(k)'
  BY <1>1, <1>2
<1>6. ASSUME NEW j \in KnowledgeIds, j # k PROVE RowFits(j)'
  BY <1>1, <1>2, <1>6, RowStays DEF KnowledgeInv, RowsFit
<1>7. QED
  BY <1>3, <1>4, <1>5, <1>6 DEF KnowledgeInv, RowsFit

LEMMA ReviewsDecideFit ==
    ASSUME KnowledgeInv, NEW v \in Reviewers, NEW k \in KnowledgeIds,
           \/ Dirap!SubmitKnowledge(v, k) \/ Dirap!RejectKnowledge(v, k)
           \/ \E a \in Authorities, c \in BOOLEAN : Dirap!ApproveKnowledge(v, k, a, c)
    PROVE  KnowledgeInv'
<1>1. knowledge \in [KnowledgeIds -> Dirap!KnowledgeRow] /\ RowFits(k)
  BY DEF KnowledgeInv, Dirap!KnowledgeTypeOK, RowsFit
<1>2. PICK old \in Dirap!KnowledgeRow : old = knowledge[k]
  BY <1>1
<1>3. CASE Dirap!SubmitKnowledge(v, k)
  <2> DEFINE row == [old EXCEPT !.status = "review_pending"]
  <2>1. /\ row \in Dirap!KnowledgeRow /\ row.status = "review_pending" /\ row.hash = old.hash
        /\ row.read = old.read /\ row.source = old.source /\ row.calculation = old.calculation
        /\ row.owner = old.owner /\ row.authority = old.authority
    BY DEF Dirap!KnowledgeRow
  <2>2. Dirap!EndReview(v, k, row, {}) /\ old.status = "draft"
    BY <1>2, <1>3 DEF Dirap!SubmitKnowledge
  <2> HIDE DEF row
  <2>3. ASSUME knowledge'[k] = row, evidence'[k] = evidence[k] \cup {} PROVE RowFits(k)'
    <3>1. evidence'[k] = {}
      BY <1>1, <1>2, <2>2, <2>3 DEF RowFits
    <3>2. QED
      BY <1>1, <1>2, <2>1, <2>2, <2>3, <3>1 DEF RowFits
  <2>4. {} \in SUBSET Dirap!EvidenceKinds
    OBVIOUS
  <2>5. QED
    BY <2>1, <2>2, <2>3, <2>4, DecisionFilesFit
<1>4. CASE Dirap!RejectKnowledge(v, k)
  <2> DEFINE row == [old EXCEPT !.status = "rejected", !.owner = "rejected"]
             more == {"reviewer", "decision_reason"}
  <2>1. /\ row \in Dirap!KnowledgeRow /\ row.status = "rejected" /\ row.owner = "rejected" /\ row.hash = old.hash
        /\ row.read = old.read /\ row.source = old.source /\ row.calculation = old.calculation
        /\ row.authority = old.authority
    BY DEF Dirap!KnowledgeRow
  <2>2. Dirap!EndReview(v, k, row, more) /\ old.status = "review_pending"
    BY <1>2, <1>4 DEF Dirap!RejectKnowledge
  <2> HIDE DEF row
  <2>3. ASSUME knowledge'[k] = row, evidence'[k] = evidence[k] \cup more PROVE RowFits(k)'
    <3>1. evidence'[k] = {"reviewer", "decision_reason"}
      BY <1>1, <1>2, <2>2, <2>3 DEF RowFits
    <3>2. QED
      BY <1>1, <1>2, <2>1, <2>2, <2>3, <3>1 DEF RowFits
  <2>4. more \in SUBSET Dirap!EvidenceKinds
    BY DEF Dirap!EvidenceKinds
  <2>5. QED
    BY <2>1, <2>2, <2>3, <2>4, DecisionFilesFit
<1>5. ASSUME NEW a \in Authorities, NEW c \in BOOLEAN, Dirap!ApproveKnowledge(v, k, a, c) PROVE KnowledgeInv'
  <2> DEFINE state == Dirap!CalculationState(c)
             row == [old EXCEPT !.status = "active", !.source = "verified", !.owner = "accepted",
                                !.calculation = state, !.authority = a]
             more == {"reviewer", "source_evidence", "authority_evidence"}
                       \cup (IF c THEN {"calculation_evidence"} ELSE {})
  <2>1. state \in {"unverified", "verified"} /\ (state = "verified" <=> c)
    BY DEF Dirap!CalculationState
  <2>2. /\ row \in Dirap!KnowledgeRow /\ row.status = "active" /\ row.owner = "accepted" /\ row.hash = old.hash
        /\ row.read = old.read /\ row.source = "verified" /\ row.calculation = state
        /\ row.authority = a
    BY <2>1 DEF Dirap!KnowledgeRow
  <2>3. Dirap!EndReview(v, k, row, more) /\ old.status = "review_pending"
    BY <1>2, <1>5 DEF Dirap!ApproveKnowledge
  <2>4. more \in SUBSET Dirap!EvidenceKinds
    BY DEF Dirap!EvidenceKinds
  <2>5. /\ {"reviewer", "source_evidence", "authority_evidence"} \subseteq more
        /\ "decision_reason" \notin more /\ ("calculation_evidence" \in more <=> c)
    OBVIOUS
  <2> HIDE DEF row, state, more
  <2>6. ASSUME knowledge'[k] = row, evidence'[k] = evidence[k] \cup more PROVE RowFits(k)'
    <3>1. evidence'[k] = more
      BY <1>1, <1>2, <2>3, <2>6 DEF RowFits
    <3>2. QED
      BY <1>1, <1>2, <2>1, <2>2, <2>3, <2>5, <2>6, <3>1 DEF RowFits
  <2>7. QED
    BY <2>2, <2>3, <2>4, <2>6, DecisionFilesFit
<1>6. QED
  BY <1>3, <1>4, <1>5

LEMMA KnowledgeSteps == KnowledgeInv /\ [Dirap!KnowledgeNext]_Dirap!knowledgeVars => KnowledgeInv'
<1> SUFFICES ASSUME KnowledgeInv, [Dirap!KnowledgeNext]_Dirap!knowledgeVars PROVE KnowledgeInv'
  OBVIOUS
<1>1. ASSUME UNCHANGED <<extractions, reader, knowledge, evidence>>, Dirap!KnowledgeTypeOK' PROVE KnowledgeInv'
  BY <1>1 DEF KnowledgeInv, ReadersFit, ReaderFits, RowsFit, RowFits
<1>2. CASE UNCHANGED Dirap!knowledgeVars
  BY <1>1, <1>2 DEF Dirap!knowledgeVars, KnowledgeInv, Dirap!KnowledgeTypeOK
<1>3. CASE Dirap!CreateWorkItem \/ Dirap!AttachSource \/ Dirap!ChangeSource
  BY <1>1, <1>3 DEF Dirap!CreateWorkItem, Dirap!AttachSource, Dirap!ChangeSource, Dirap!reviewVars,
                    KnowledgeInv, Dirap!KnowledgeTypeOK
<1>4. ASSUME NEW r \in Readers, Asking(r) PROVE KnowledgeInv'
  BY <1>4, AskingFits
<1>5. ASSUME NEW r \in Readers, Dirap!MarkStale(r) \/ Dirap!InsertExtraction(r) PROVE KnowledgeInv'
  BY <1>5, MarkFits, InsertFits
<1>6. ASSUME NEW r \in Readers, NEW k \in KnowledgeIds, Dirap!CreateKnowledge(r, k) PROVE KnowledgeInv'
  BY <1>6, StoreFits
<1>7. ASSUME NEW v \in Reviewers, NEW k \in KnowledgeIds, Dirap!BeginReview(v, k) \/ Dirap!RefuseReview(v)
      PROVE  KnowledgeInv'
  BY <1>1, <1>7 DEF Dirap!BeginReview, Dirap!RefuseReview, Dirap!sourceVars, KnowledgeInv, Dirap!KnowledgeTypeOK
<1>8. ASSUME NEW v \in Reviewers, Dirap!RefuseReview(v) PROVE KnowledgeInv'
  BY <1>1, <1>8 DEF Dirap!RefuseReview, Dirap!sourceVars, KnowledgeInv, Dirap!KnowledgeTypeOK
<1>9. ASSUME NEW v \in Reviewers, NEW k \in KnowledgeIds,
             \/ Dirap!SubmitKnowledge(v, k) \/ Dirap!RejectKnowledge(v, k)
             \/ \E a \in Authorities, c \in BOOLEAN : Dirap!ApproveKnowledge(v, k, a, c)
      PROVE  KnowledgeInv'
  BY <1>9, ReviewsDecideFit
<1>10. QED
  BY <1>2, <1>3, <1>4, <1>5, <1>6, <1>7, <1>8, <1>9 DEF Dirap!KnowledgeNext, Asking

-----------------------------------------------------------------------------
\* What each use asks of a row, and what grade it gives.
Proven(row) == row.source = "verified" /\ row.calculation = "verified"
Official(row) == Proven(row) /\ row.owner = "accepted" /\ row.authority = "regulatory"
Granted(row, query) ==
    \/ query \in {"official_search", "legal_review"} /\ Official(row)
    \/ query = "analysis_input" /\ Proven(row) /\ row.authority \in Authorities
    \/ query = "context_packaging" /\ row.source = "verified" /\ row.owner = "accepted"
    \/ query = "memory_query" /\ row.owner = "accepted"
Found(row, query) == Granted(row, query) \/ (query = "exploratory_search" /\ row.source = "verified")

LEMMA GradesAre ==
    ASSUME NEW row \in Dirap!KnowledgeRow, NEW query \in Dirap!QueryTypes
    PROVE  /\ Dirap!EvaluateUsability(row, query) = "usable" <=> Granted(row, query)
           /\ Dirap!PolicyAllows(query, Dirap!EvaluateUsability(row, query)) <=> Found(row, query)
<1> DEFINE grade == Dirap!EvaluateUsability(row, query)
<1>1. Dirap!Missing(row, [source |-> "verified", calculation |-> "verified",
                          owner |-> "accepted", authority |-> "regulatory"]) = {} <=> Official(row)
  BY DEF Dirap!Missing, Dirap!KnowledgeRow, Official, Proven
<1>2. Dirap!Missing(row, [source |-> "verified", calculation |-> "verified"]) = {} <=> Proven(row)
  BY DEF Dirap!Missing, Dirap!KnowledgeRow, Proven
<1>3. Dirap!Missing(row, [source |-> "verified", owner |-> "accepted"]) = {}
      <=> row.source = "verified" /\ row.owner = "accepted"
  BY DEF Dirap!Missing, Dirap!KnowledgeRow
<1>4. Dirap!Missing(row, [owner |-> "accepted"]) = {} <=> row.owner = "accepted"
  BY DEF Dirap!Missing, Dirap!KnowledgeRow
<1>5. ASSUME query # "exploratory_search" PROVE grade = "usable" <=> Granted(row, query)
  <2>1. CASE query = "official_search"
    BY <1>1, <2>1 DEF Dirap!EvaluateUsability, Dirap!OfficialSearch, Dirap!Grade, Granted
  <2>2. CASE query = "analysis_input"
    BY <1>2, <2>2 DEF Dirap!EvaluateUsability, Dirap!AnalysisInput, Dirap!Grade, Granted
  <2>3. CASE query = "legal_review"
    BY <1>1, <2>3 DEF Dirap!EvaluateUsability, Dirap!LegalReview, Dirap!Grade, Granted
  <2>4. CASE query = "context_packaging"
    BY <1>3, <2>4 DEF Dirap!EvaluateUsability, Dirap!ContextPackaging, Dirap!Grade, Granted
  <2>5. CASE query = "memory_query"
    BY <1>4, <2>5 DEF Dirap!EvaluateUsability, Dirap!MemoryQuery, Dirap!Grade, Granted
  <2>6. QED
    BY <1>5, <2>1, <2>2, <2>3, <2>4, <2>5 DEF Dirap!QueryTypes
<1>6. CASE query = "exploratory_search"
  <2>1. grade = IF row.source = "verified" THEN "partial" ELSE "unusable"
    BY <1>6 DEF Dirap!EvaluateUsability, Dirap!ExploratorySearch, Dirap!Grade
  <2>2. QED
    BY <1>6, <2>1 DEF Dirap!PolicyAllows, Granted, Found
<1>7. CASE query # "exploratory_search"
  BY <1>5, <1>7 DEF Dirap!PolicyAllows, Found
<1>8. QED
  BY <1>6, <1>7

LEMMA KnowledgeHolds == KnowledgeInv => KnowledgeIsGrounded
<1> SUFFICES ASSUME KnowledgeInv, NEW k \in KnowledgeIds, NEW q \in Dirap!QueryTypes
             PROVE  LET supported == /\ Dirap!Wanted(q) \subseteq evidence[k]
                                     /\ "decision_reason" \notin evidence[k]
                                     /\ q \in {"official_search", "legal_review"} =>
                                            knowledge[k].authority = "regulatory"
                    IN  /\ knowledge[k].hash = knowledge[k].read
                        /\ k \in Dirap!SearchRecords(q) <=> supported
                        /\ q \in Dirap!UsableFor(knowledge[k]) =>
                              supported /\ knowledge[k].status = "active"
  BY DEF KnowledgeInv, KnowledgeIsGrounded, Dirap!KnowledgeIsGrounded
<1>1. PICK row \in Dirap!KnowledgeRow : row = knowledge[k]
  BY DEF KnowledgeInv, Dirap!KnowledgeTypeOK
<1>2. RowFits(k) /\ row.status \in {"none", "draft", "review_pending", "active", "rejected"}
      /\ row.calculation \in {"unverified", "verified"}
  BY DEF KnowledgeInv, RowsFit, Dirap!KnowledgeRow
<1> DEFINE supported == /\ Dirap!Wanted(q) \subseteq evidence[k]
                        /\ "decision_reason" \notin evidence[k]
                        /\ q \in {"official_search", "legal_review"} => row.authority = "regulatory"
<1>3. \E kind : kind \in Dirap!Wanted(q)
  <2>1. \/ "reviewer" \in Dirap!Wanted(q)
        \/ "source_evidence" \in Dirap!Wanted(q)
    BY DEF Dirap!Wanted, Dirap!QueryTypes, Dirap!EvidenceKinds
  <2>2. QED
    BY <2>1
<1>4. CASE row.status # "active"
  <2>1. ~Granted(row, q) /\ ~Found(row, q)
    BY <1>1, <1>2, <1>4 DEF RowFits, Granted, Found, Official, Proven
  <2>2. ~supported
    BY <1>1, <1>2, <1>3, <1>4 DEF RowFits
  <2>3. k \notin Dirap!SearchRecords(q)
    BY <1>1, <1>4 DEF Dirap!SearchRecords
  <2>4. q \notin Dirap!UsableFor(row)
    BY <2>1, GradesAre DEF Dirap!UsableFor
  <2>5. QED
    BY <1>1, <1>2, <2>2, <2>3, <2>4 DEF RowFits
<1>5. CASE row.status = "active"
  <2>1. /\ row.source = "verified" /\ row.owner = "accepted" /\ row.authority \in Authorities
        /\ {"reviewer", "source_evidence", "authority_evidence"} \subseteq evidence[k]
        /\ "decision_reason" \notin evidence[k]
        /\ "calculation_evidence" \in evidence[k] <=> row.calculation = "verified"
    BY <1>1, <1>2, <1>5 DEF RowFits
  <2>2. Found(row, q) <=> supported
    <3>1. CASE q \in {"official_search", "legal_review"}
      BY <2>1, <3>1 DEF Dirap!Wanted, Dirap!EvidenceKinds, Found, Granted, Official, Proven
    <3>2. CASE q = "exploratory_search"
      BY <2>1, <3>2 DEF Dirap!Wanted, Found, Granted
    <3>3. CASE q = "analysis_input"
      BY <2>1, <3>3 DEF Dirap!Wanted, Found, Granted, Proven
    <3>4. CASE q = "context_packaging"
      BY <2>1, <3>4 DEF Dirap!Wanted, Found, Granted
    <3>5. CASE q = "memory_query"
      BY <2>1, <3>5 DEF Dirap!Wanted, Found, Granted
    <3>6. QED
      BY <3>1, <3>2, <3>3, <3>4, <3>5 DEF Dirap!QueryTypes
  <2>3. k \in Dirap!SearchRecords(q) <=> Found(row, q)
    BY <1>1, <1>5, GradesAre DEF Dirap!SearchRecords
  <2>4. q \in Dirap!UsableFor(row) => Found(row, q)
    BY GradesAre DEF Dirap!UsableFor, Found
  <2>5. QED
    BY <1>1, <1>2, <1>5, <2>2, <2>3, <2>4 DEF RowFits
<1>6. QED
  BY <1>4, <1>5

(* Whatever texts the file takes, and however the requests about it and the  *)
(* reviews interleave: a knowledge record holds the text its request found   *)
(* there, and is found and usable exactly where the evidence filed with it   *)
(* says so.                                                                  *)
THEOREM KnowledgeGrounded == Dirap!KnowledgeSpec => []KnowledgeIsGrounded
  BY KnowledgeStart, KnowledgeSteps, KnowledgeHolds, PTL DEF Dirap!KnowledgeSpec

-----------------------------------------------------------------------------
(* Models and their routing (module ModelRegistry).                        *)

SettingRow == [op : {"none", "provider", "retire provider", "create", "zen", "model", "retire model"},
               of : Models \cup Providers \cup {"none"}]

RowsTyped == /\ providers \in [Providers -> Registry!ProviderRow]
             /\ models \in [Models -> Registry!ModelRow]
             /\ setting \in [Settings -> SettingRow]

HistoryTyped == withdrawn \subseteq Models \cup Providers /\ requests \in 0..MaxSettings

RouteTyped ==
    /\ routing \in {"idle", "chosen", "first", "rows", "done", "failed"}
    /\ needs \in Tiers /\ chosen \in Models \cup {"none"}
    /\ left \subseteq Models /\ ranks \in [Models -> 0..2] /\ seeing \subseteq Models
    /\ given \in Seq(Models)
    /\ barred \subseteq Models /\ touched \subseteq Models

LEMMA RegistryTypes == Registry!RegistryTypeOK <=> RowsTyped /\ HistoryTyped /\ RouteTyped
  BY DEF Registry!RegistryTypeOK, RowsTyped, HistoryTyped, RouteTyped, SettingRow

LEMMA SettingsTyped ==
    ASSUME setting \in [Settings -> SettingRow], NEW s \in Settings,
           NEW op \in {"none", "provider", "retire provider", "create", "zen", "model", "retire model"},
           NEW of \in Models \cup Providers, Registry!Await(s, op, of) \/ Registry!Answer(s, op, of)
    PROVE  setting' \in [Settings -> SettingRow]
<1>1. [op |-> op, of |-> of] \in SettingRow /\ Registry!Idle \in SettingRow
  BY DEF SettingRow, Registry!Idle
<1>2. QED
  BY <1>1 DEF Registry!Await, Registry!Answer

LEMMA Cleared ==
    ASSUME models \in [Models -> Registry!ModelRow]
    PROVE  Registry!Undefaulted(models) \in [Models -> Registry!ModelRow]
<1>1. ASSUME NEW m \in Models PROVE [models[m] EXCEPT !.default = FALSE] \in Registry!ModelRow
  <2>1. PICK row \in Registry!ModelRow : row = models[m]
    OBVIOUS
  <2>2. [row EXCEPT !.default = FALSE] \in Registry!ModelRow
    BY DEF Registry!ModelRow
  <2>3. QED
    BY <2>1, <2>2
<1>2. QED
  BY <1>1 DEF Registry!Undefaulted

LEMMA ProviderSteps ==
    ASSUME RowsTyped, NEW p \in Providers, NEW s \in Settings,
           \/ Registry!CreateProvider(p) \/ Registry!UpdateProvider(s, p)
           \/ Registry!SetCredential(s, p) \/ Registry!RetireProvider(s, p)
    PROVE  RowsTyped'
<1>1. /\ providers \in [Providers -> Registry!ProviderRow] /\ models \in [Models -> Registry!ModelRow]
      /\ setting \in [Settings -> SettingRow]
  BY DEF RowsTyped
<1>2. SUFFICES /\ providers' \in [Providers -> Registry!ProviderRow] /\ models' \in [Models -> Registry!ModelRow]
               /\ setting' \in [Settings -> SettingRow]
  BY DEF RowsTyped
<1>3. PICK row \in Registry!ProviderRow : row = providers[p]
  BY <1>1
<1>4. CASE Registry!CreateProvider(p)
  <2>1. PICK key \in BOOLEAN :
            providers' = [providers EXCEPT ![p] = [known |-> TRUE, enabled |-> TRUE, retired |-> FALSE, key |-> key]]
    BY <1>4 DEF Registry!CreateProvider
  <2>2. [known |-> TRUE, enabled |-> TRUE, retired |-> FALSE, key |-> key] \in Registry!ProviderRow
    BY DEF Registry!ProviderRow
  <2>3. UNCHANGED <<models, setting>>
    BY <1>4 DEF Registry!CreateProvider
  <2>4. QED
    BY <1>1, <2>1, <2>2, <2>3
<1>5. CASE Registry!UpdateProvider(s, p)
  <2>1. PICK on \in BOOLEAN : providers' = [providers EXCEPT ![p].enabled = on]
    BY <1>5 DEF Registry!UpdateProvider
  <2>2. [row EXCEPT !.enabled = on] \in Registry!ProviderRow
    BY DEF Registry!ProviderRow
  <2>3. UNCHANGED models /\ setting' \in [Settings -> SettingRow]
    BY <1>1, <1>5, SettingsTyped DEF Registry!UpdateProvider
  <2>4. QED
    BY <1>1, <1>3, <2>1, <2>2, <2>3
<1>6. CASE Registry!SetCredential(s, p)
  <2>1. [row EXCEPT !.key = TRUE] \in Registry!ProviderRow
    BY DEF Registry!ProviderRow
  <2>2. UNCHANGED models /\ setting' \in [Settings -> SettingRow] /\ providers' = [providers EXCEPT ![p].key = TRUE]
    BY <1>1, <1>6, SettingsTyped DEF Registry!SetCredential
  <2>3. QED
    BY <1>1, <1>3, <2>1, <2>2
<1>7. CASE Registry!RetireProvider(s, p)
  <2>1. [row EXCEPT !.enabled = FALSE, !.retired = TRUE] \in Registry!ProviderRow
    BY DEF Registry!ProviderRow
  <2>2. /\ setting' \in [Settings -> SettingRow]
        /\ providers' = [providers EXCEPT ![p] = [providers[p] EXCEPT !.enabled = FALSE, !.retired = TRUE]]
        /\ models' = [m \in Models |-> IF Owner[m] = p THEN [models[m] EXCEPT !.default = FALSE] ELSE models[m]]
    BY <1>1, <1>7, SettingsTyped DEF Registry!RetireProvider
  <2>3. \A m \in Models : [models[m] EXCEPT !.default = FALSE] \in Registry!ModelRow
    BY <1>1, Cleared DEF Registry!Undefaulted
  <2>4. QED
    BY <1>1, <1>3, <2>1, <2>2, <2>3
<1>8. QED
  BY <1>4, <1>5, <1>6, <1>7

LEMMA ModelSteps ==
    ASSUME RowsTyped, NEW s \in Settings, NEW m \in Models,
           Registry!CreateModel(s, m) \/ Registry!UpdateModel(s, m) \/ Registry!RetireModel(s, m)
    PROVE  RowsTyped'
<1>1. /\ providers \in [Providers -> Registry!ProviderRow] /\ models \in [Models -> Registry!ModelRow]
      /\ setting \in [Settings -> SettingRow]
  BY DEF RowsTyped
<1>2. UNCHANGED providers
  BY DEF Registry!CreateModel, Registry!UpdateModel, Registry!RetireModel
<1>3. setting' \in [Settings -> SettingRow]
  BY <1>1, SettingsTyped, RegistryAssumption
     DEF Registry!CreateModel, Registry!UpdateModel, Registry!RetireModel
<1>4. SUFFICES models' \in [Models -> Registry!ModelRow]
  BY <1>1, <1>2, <1>3 DEF RowsTyped
<1>5. Registry!Undefaulted(models) \in [Models -> Registry!ModelRow]
  BY <1>1, Cleared
<1>6. CASE Registry!CreateModel(s, m)
  <2>1. PICK tier \in Tiers, vision \in BOOLEAN, default \in BOOLEAN :
          models' = [(IF default THEN Registry!Undefaulted(models) ELSE models) EXCEPT ![m] =
                        [known |-> TRUE, tier |-> tier, vision |-> vision, enabled |-> TRUE, default |-> default,
                         retired |-> FALSE]]
    BY <1>6 DEF Registry!CreateModel
  <2>2. [known |-> TRUE, tier |-> tier, vision |-> vision, enabled |-> TRUE, default |-> default,
         retired |-> FALSE] \in Registry!ModelRow
    BY DEF Registry!ModelRow
  <2>3. QED
    BY <1>1, <1>5, <2>1, <2>2
<1>7. CASE Registry!UpdateModel(s, m)
  <2>1. PICK tier \in Tiers, vision \in BOOLEAN, on \in BOOLEAN, default \in {"keep", "make", "drop"} :
          models' = [(IF default = "make" THEN Registry!Undefaulted(models) ELSE models) EXCEPT ![m] =
                        Registry!Edited((IF default = "make" THEN Registry!Undefaulted(models) ELSE models)[m],
                                        tier, vision, on, default, models[m].enabled /\ ~on)]
    BY <1>7, Zenon DEF Registry!UpdateModel
  <2>2. PICK cleared \in [Models -> Registry!ModelRow] :
            cleared = IF default = "make" THEN Registry!Undefaulted(models) ELSE models
    BY <1>1, <1>5
  <2>3. PICK off \in BOOLEAN : off = (models[m].enabled /\ ~on)
    OBVIOUS
  <2>4. models' = [cleared EXCEPT ![m] = Registry!Edited(cleared[m], tier, vision, on, default, off)]
    BY <2>1, <2>2, <2>3
  <2>5. PICK row \in Registry!ModelRow : row = cleared[m]
    OBVIOUS
  <2>6. Registry!Edited(row, tier, vision, on, default, off) \in Registry!ModelRow
    BY DEF Registry!Edited, Registry!ModelRow
  <2>7. QED
    BY <2>4, <2>5, <2>6
<1>8. CASE Registry!RetireModel(s, m)
  <2>1. PICK row \in Registry!ModelRow : row = models[m]
    BY <1>1
  <2>2. [row EXCEPT !.enabled = FALSE, !.default = FALSE, !.retired = TRUE] \in Registry!ModelRow
    BY DEF Registry!ModelRow
  <2>3. models' = [models EXCEPT ![m] = [models[m] EXCEPT !.enabled = FALSE, !.default = FALSE, !.retired = TRUE]]
    BY <1>8 DEF Registry!RetireModel
  <2>4. QED
    BY <1>1, <2>1, <2>2, <2>3
<1>9. QED
  BY <1>6, <1>7, <1>8

LEMMA ZenSteps ==
    ASSUME RowsTyped, NEW s \in Settings, NEW p \in Providers, Registry!ImportZen(s, p)
    PROVE  RowsTyped'
<1>1. /\ providers \in [Providers -> Registry!ProviderRow] /\ models \in [Models -> Registry!ModelRow]
      /\ setting \in [Settings -> SettingRow]
  BY DEF RowsTyped
<1>2. UNCHANGED providers /\ setting' \in [Settings -> SettingRow]
  BY <1>1, SettingsTyped DEF Registry!ImportZen
<1>3. PICK cleared \in [Models -> Registry!ModelRow], wanted \in SUBSET ZenModels :
          \/ models' = [m \in Models |-> IF m \in wanted THEN Registry!ZenRow(cleared, m) ELSE cleared[m]]
          \/ UNCHANGED models
  <2>1. PICK wanted \in SUBSET {m \in ZenModels : Owner[m] = p} :
                      LET cleared == IF ZenDefault \in wanted THEN Registry!Undefaulted(models) ELSE models
                      IN  \/ models' = [m \in Models |-> IF m \in wanted THEN Registry!ZenRow(cleared, m)
                                                         ELSE cleared[m]]
                          \/ UNCHANGED models
    BY DEF Registry!ImportZen
  <2>2. PICK cleared \in [Models -> Registry!ModelRow] :
            cleared = IF ZenDefault \in wanted THEN Registry!Undefaulted(models) ELSE models
    BY <1>1, Cleared
  <2>3. wanted \in SUBSET ZenModels
    BY <2>1
  <2>4. QED
    BY <2>1, <2>2, <2>3
<1>4. ASSUME NEW m \in Models PROVE Registry!ZenRow(cleared, m) \in Registry!ModelRow
  <2>1. PICK row \in Registry!ModelRow : row = cleared[m]
    OBVIOUS
  <2>2. PICK def \in BOOLEAN : def = (row.default \/ m = ZenDefault)
    BY DEF Registry!ModelRow
  <2>3. Registry!ZenRow(cleared, m) = [row EXCEPT !.known = TRUE, !.tier = "fast", !.vision = FALSE,
                                                  !.enabled = TRUE, !.default = def, !.retired = FALSE]
    BY <2>1, <2>2 DEF Registry!ZenRow
  <2>4. QED
    BY <2>3, RegistryAssumption DEF Registry!ModelRow
<1>5. models' \in [Models -> Registry!ModelRow]
  BY <1>1, <1>3, <1>4
<1>6. QED
  BY <1>1, <1>2, <1>5 DEF RowsTyped

LEMMA RequestsCounted ==
    ASSUME HistoryTyped, requests < MaxSettings, requests' = requests + 1
    PROVE  requests' \in 0..MaxSettings
  BY RegistryAssumption DEF HistoryTyped

\* A settings request changes no routing.
LEMMA SettingsAreTyped ==
    ASSUME RowsTyped, HistoryTyped, Registry!SettingsStep
    PROVE  RowsTyped' /\ HistoryTyped'
<1>1. ASSUME NEW s \in Settings,
             NEW op \in {"none", "provider", "retire provider", "create", "zen", "model", "retire model"},
             NEW of \in Models \cup Providers, Registry!Await(s, op, of)
      PROVE  RowsTyped' /\ HistoryTyped'
  <2>1. setting' \in [Settings -> SettingRow]
    BY <1>1, SettingsTyped DEF RowsTyped
  <2>2. UNCHANGED <<providers, models, withdrawn>> /\ requests < MaxSettings /\ requests' = requests + 1
    BY <1>1 DEF Registry!Await
  <2>3. requests' \in 0..MaxSettings
    BY <2>2, RequestsCounted
  <2>4. QED
    BY <2>1, <2>2, <2>3 DEF RowsTyped, HistoryTyped
<1>2. ASSUME NEW p \in Providers, Registry!CreateProvider(p) PROVE RowsTyped' /\ HistoryTyped'
  <2>1. providers \in [Providers -> Registry!ProviderRow] /\ UNCHANGED <<models, setting, withdrawn, requests>>
    BY <1>2 DEF Registry!CreateProvider, RowsTyped
  <2>2. PICK key \in BOOLEAN :
            providers' = [providers EXCEPT ![p] = [known |-> TRUE, enabled |-> TRUE, retired |-> FALSE, key |-> key]]
    BY <1>2 DEF Registry!CreateProvider
  <2>3. [known |-> TRUE, enabled |-> TRUE, retired |-> FALSE, key |-> key] \in Registry!ProviderRow
    BY DEF Registry!ProviderRow
  <2>4. providers' \in [Providers -> Registry!ProviderRow]
    BY <2>1, <2>2, <2>3
  <2>5. QED
    BY <2>1, <2>4 DEF RowsTyped, HistoryTyped
<1>3. ASSUME NEW s \in Settings, NEW p \in Providers,
             NEW op \in {"provider", "retire provider", "create", "zen"}, Registry!ReadProvider(s, p, op)
      PROVE  RowsTyped' /\ HistoryTyped'
  BY <1>1, <1>3 DEF Registry!ReadProvider
<1>4. ASSUME NEW s \in Settings, NEW p \in Providers,
             \/ Registry!UpdateProvider(s, p) \/ Registry!SetCredential(s, p) \/ Registry!RetireProvider(s, p)
      PROVE  RowsTyped' /\ HistoryTyped'
  <2>1. RowsTyped'
    BY <1>4, ProviderSteps
  <2>2. withdrawn' \subseteq withdrawn \cup Providers /\ UNCHANGED requests
    BY <1>4 DEF Registry!UpdateProvider, Registry!SetCredential, Registry!RetireProvider, Registry!Answer
  <2>3. QED
    BY <2>1, <2>2 DEF HistoryTyped
<1>5. ASSUME NEW s \in Settings, NEW p \in Providers, Registry!ImportZen(s, p) PROVE RowsTyped' /\ HistoryTyped'
  <2>1. RowsTyped'
    BY <1>5, ZenSteps
  <2>2. withdrawn' \subseteq withdrawn /\ UNCHANGED requests
    BY <1>5 DEF Registry!ImportZen, Registry!Answer
  <2>3. QED
    BY <2>1, <2>2 DEF HistoryTyped
<1>6. ASSUME NEW s \in Settings, NEW m \in Models, NEW op \in {"model", "retire model"}, Registry!ReadModel(s, m, op)
      PROVE  RowsTyped' /\ HistoryTyped'
  BY <1>1, <1>6 DEF Registry!ReadModel
<1>7. ASSUME NEW s \in Settings, NEW m \in Models,
             Registry!CreateModel(s, m) \/ Registry!UpdateModel(s, m) \/ Registry!RetireModel(s, m)
      PROVE  RowsTyped' /\ HistoryTyped'
  <2>1. RowsTyped'
    BY <1>7, ModelSteps
  <2>2. withdrawn' \subseteq withdrawn \cup Models /\ UNCHANGED requests
    BY <1>7 DEF Registry!CreateModel, Registry!UpdateModel, Registry!RetireModel, Registry!Answer
  <2>3. QED
    BY <2>1, <2>2 DEF HistoryTyped
<1>8. QED
  BY <1>2, <1>3, <1>4, <1>5, <1>6, <1>7 DEF Registry!SettingsStep

\* What is enabled or has a key is there, and so is what a request is about;
\* what was withdrawn and not brought back is retired.
ProvidersKnown ==
    /\ \A p \in Providers : providers[p].enabled \/ providers[p].key => providers[p].known
    /\ \A p \in Providers \cap withdrawn : providers[p].known /\ providers[p].retired
    /\ \A s \in Settings, p \in Providers, op \in {"provider", "retire provider"} :
          setting[s] = [op |-> op, of |-> p] => providers[p].known

ModelsKnown ==
    /\ \A m \in Models \cap withdrawn : models[m].known /\ models[m].retired
    /\ \A s \in Settings, m \in Models, op \in {"model", "retire model"} :
          setting[s] = [op |-> op, of |-> m] => models[m].known

KeysStay == \A p \in Providers : providers[p].key => providers'[p].key

Waited == {"provider", "retire provider", "model", "retire model"}

\* A request that has written waits no more.
LEMMA RequestsAnswered ==
    ASSUME RowsTyped, NEW s \in Settings, NEW op, NEW of, Registry!Answer(s, op, of)
    PROVE  \A q \in Settings, o \in Waited, x \in Models \cup Providers :
              setting'[q] = [op |-> o, of |-> x] => setting[q] = [op |-> o, of |-> x]
<1>1. setting' = [setting EXCEPT ![s] = Registry!Idle] /\ Registry!Idle.op = "none"
  BY DEF Registry!Answer, Registry!Idle
<1>2. \A q \in Settings : setting'[q] = Registry!Idle \/ setting'[q] = setting[q]
  BY <1>1 DEF RowsTyped
<1>3. \A o \in Waited, x \in Models \cup Providers : [op |-> o, of |-> x].op # "none"
  BY DEF Waited
<1>4. QED
  BY <1>1, <1>2, <1>3

\* A step that writes rows: "some" are the models it does more to than to take
\* their default away or to turn them on or off.
LEMMA ModelsStay ==
    ASSUME RowsTyped, HistoryTyped, ModelsKnown, NEW s \in Settings, NEW op, NEW of, Registry!Answer(s, op, of),
           NEW some \in SUBSET Models, withdrawn' \cap Models \subseteq withdrawn \cup some,
           \A n \in Models : models[n].known => models'[n].known,
           \A n \in Models \ some : models'[n].retired = models[n].retired,
           \A n \in some : n \notin withdrawn' \/ (models'[n].known /\ models'[n].retired)
    PROVE  ModelsKnown'
<1>1. \A q \in Settings, o \in Waited, x \in Models \cup Providers :
          setting'[q] = [op |-> o, of |-> x] => setting[q] = [op |-> o, of |-> x]
  BY RequestsAnswered
<1>2. ASSUME NEW q \in Settings, NEW m \in Models, NEW o \in {"model", "retire model"},
             setting'[q] = [op |-> o, of |-> m]
      PROVE  models'[m].known
  <2>1. o \in Waited /\ m \in Models \cup Providers
    BY DEF Waited
  <2>2. setting[q] = [op |-> o, of |-> m]
    BY <1>1, <1>2, <2>1
  <2>3. models[m].known
    BY <2>2 DEF ModelsKnown
  <2>4. QED
    BY <2>3
<1>3. \A m \in Models \cap withdrawn' : models'[m].known /\ models'[m].retired
  BY DEF ModelsKnown
<1>4. QED
  BY <1>2, <1>3 DEF ModelsKnown

LEMMA ProvidersStay ==
    ASSUME RowsTyped, ProvidersKnown, NEW s \in Settings, NEW op, NEW of, Registry!Answer(s, op, of),
           UNCHANGED providers, withdrawn' \cap Providers \subseteq withdrawn
    PROVE  ProvidersKnown' /\ KeysStay
<1>1. \A q \in Settings, o \in Waited, x \in Models \cup Providers :
          setting'[q] = [op |-> o, of |-> x] => setting[q] = [op |-> o, of |-> x]
  BY RequestsAnswered
<1>2. ASSUME NEW q \in Settings, NEW p \in Providers, NEW o \in {"provider", "retire provider"},
             setting'[q] = [op |-> o, of |-> p]
      PROVE  providers[p].known
  <2>1. o \in Waited /\ p \in Models \cup Providers
    BY DEF Waited
  <2>2. setting[q] = [op |-> o, of |-> p]
    BY <1>1, <1>2, <2>1
  <2>3. QED
    BY <2>2 DEF ProvidersKnown
<1>3. QED
  BY <1>2 DEF ProvidersKnown, KeysStay

\* No model of its own is touched by taking defaults away.
LEMMA ClearedStay ==
    ASSUME models \in [Models -> Registry!ModelRow], NEW n \in Models
    PROVE  LET row == Registry!Undefaulted(models)[n]
           IN  row.known = models[n].known /\ row.retired = models[n].retired
<1>1. PICK row \in Registry!ModelRow : row = models[n]
  OBVIOUS
<1>2. [row EXCEPT !.default = FALSE].known = row.known /\ [row EXCEPT !.default = FALSE].retired = row.retired
  BY DEF Registry!ModelRow
<1>3. QED
  BY <1>1, <1>2 DEF Registry!Undefaulted

\* A step that changes no more of the models than what is on or default.
LEMMA ModelsStand ==
    ASSUME RowsTyped, HistoryTyped, ModelsKnown, NEW s \in Settings, NEW op, NEW of, Registry!Answer(s, op, of),
           withdrawn' \cap Models \subseteq withdrawn,
           \A n \in Models : models'[n].known = models[n].known /\ models'[n].retired = models[n].retired
    PROVE  ModelsKnown'
<1>1. PICK some \in SUBSET Models : some = {}
  OBVIOUS
<1>2. /\ withdrawn' \cap Models \subseteq withdrawn \cup some
      /\ \A n \in Models : models[n].known => models'[n].known
      /\ \A n \in Models \ some : models'[n].retired = models[n].retired
      /\ \A n \in some : n \notin withdrawn' \/ (models'[n].known /\ models'[n].retired)
  BY <1>1
<1>3. QED
  BY <1>2, ModelsStay

Known == ProvidersKnown /\ ModelsKnown
Steady == Known' /\ KeysStay

LEMMA CreateProviderKnown ==
    ASSUME RowsTyped, Known, NEW p \in Providers, Registry!CreateProvider(p)
    PROVE  Steady
<1>1. PICK key \in BOOLEAN :
          providers' = [providers EXCEPT ![p] = [known |-> TRUE, enabled |-> TRUE, retired |-> FALSE, key |-> key]]
  BY DEF Registry!CreateProvider
<1>2. ~providers[p].known /\ UNCHANGED <<models, setting, withdrawn>>
  BY DEF Registry!CreateProvider
<1>3. ~providers[p].key /\ p \notin withdrawn /\ providers'[p].known
  BY <1>1, <1>2 DEF Known, ProvidersKnown, RowsTyped
<1>4. \A o \in Providers \ {p} : providers'[o] = providers[o]
  BY <1>1 DEF RowsTyped
<1>5. ProvidersKnown' /\ KeysStay
  BY <1>2, <1>3, <1>4 DEF Known, ProvidersKnown, KeysStay
<1>6. ModelsKnown'
  BY <1>2 DEF Known, ModelsKnown
<1>7. QED
  BY <1>5, <1>6 DEF Known, Steady

LEMMA AwaitKnown ==
    ASSUME RowsTyped, Known, NEW s \in Settings, NEW op, NEW of \in Models \cup Providers, Registry!Await(s, op, of),
           of \in Providers /\ op \in {"provider", "retire provider"} => providers[of].known,
           of \in Models /\ op \in {"model", "retire model"} => models[of].known
    PROVE  Steady
<1>1. UNCHANGED <<providers, models, withdrawn>>
  BY DEF Registry!Await
<1>2. \A q \in Settings, o \in Waited, x \in Models \cup Providers :
          setting'[q] = [op |-> o, of |-> x] => setting[q] = [op |-> o, of |-> x] \/ (o = op /\ x = of)
  <2>1. setting' = [setting EXCEPT ![s] = [op |-> op, of |-> of]]
    BY DEF Registry!Await
  <2>2. \A q \in Settings : setting'[q] = [op |-> op, of |-> of] \/ setting'[q] = setting[q]
    BY <2>1 DEF RowsTyped
  <2>3. \A o \in Waited, x \in Models \cup Providers :
            [op |-> o, of |-> x] = [op |-> op, of |-> of] => o = op /\ x = of
    OBVIOUS
  <2>4. QED
    BY <2>2, <2>3
<1>3. ASSUME NEW q \in Settings, NEW p \in Providers, NEW o \in {"provider", "retire provider"},
             setting'[q] = [op |-> o, of |-> p]
      PROVE  providers[p].known
  <2>1. o \in Waited /\ p \in Models \cup Providers
    BY DEF Waited
  <2>2. setting[q] = [op |-> o, of |-> p] \/ (o = op /\ p = of)
    BY <1>2, <1>3, <2>1
  <2>3. QED
    BY <2>2 DEF Known, ProvidersKnown
<1>4. ASSUME NEW q \in Settings, NEW m \in Models, NEW o \in {"model", "retire model"},
             setting'[q] = [op |-> o, of |-> m]
      PROVE  models[m].known
  <2>1. o \in Waited /\ m \in Models \cup Providers
    BY DEF Waited
  <2>2. setting[q] = [op |-> o, of |-> m] \/ (o = op /\ m = of)
    BY <1>2, <1>4, <2>1
  <2>3. QED
    BY <2>2 DEF Known, ModelsKnown
<1>5. ProvidersKnown' /\ KeysStay
  BY <1>1, <1>3 DEF Known, ProvidersKnown, KeysStay
<1>6. ModelsKnown'
  BY <1>1, <1>4 DEF Known, ModelsKnown
<1>7. QED
  BY <1>5, <1>6 DEF Known, Steady

\* A provider that is there is turned on or off, given a key, or retired.
LEMMA ProviderRowsKnown ==
    ASSUME RowsTyped, HistoryTyped, Known, NEW s \in Settings, NEW p \in Providers, NEW op, Registry!Answer(s, op, p),
           providers[p].known, NEW new \in Registry!ProviderRow, providers' = [providers EXCEPT ![p] = new],
           new.known, providers[p].key => new.key, providers[p].retired => new.retired,
           withdrawn' = withdrawn \/ (withdrawn' = withdrawn \cup {p} /\ new.retired)
    PROVE  ProvidersKnown' /\ KeysStay
<1>1. \A q \in Settings, o \in Waited, x \in Models \cup Providers :
          setting'[q] = [op |-> o, of |-> x] => setting[q] = [op |-> o, of |-> x]
  BY RequestsAnswered
<1>2. providers'[p] = new /\ \A o \in Providers \ {p} : providers'[o] = providers[o]
  BY DEF RowsTyped
<1>3. \A o \in Providers : providers[o].known => providers'[o].known
  BY <1>2
<1>4. ASSUME NEW q \in Settings, NEW x \in Providers, NEW o \in {"provider", "retire provider"},
             setting'[q] = [op |-> o, of |-> x]
      PROVE  providers'[x].known
  <2>1. o \in Waited /\ x \in Models \cup Providers
    BY DEF Waited
  <2>2. setting[q] = [op |-> o, of |-> x]
    BY <1>1, <1>4, <2>1
  <2>3. QED
    BY <1>3, <2>2 DEF Known, ProvidersKnown
<1>5. \A x \in Providers \cap withdrawn' : providers'[x].known /\ providers'[x].retired
  BY <1>2 DEF Known, ProvidersKnown
<1>6. \A x \in Providers : providers'[x].enabled \/ providers'[x].key => providers'[x].known
  BY <1>2 DEF Known, ProvidersKnown
<1>7. KeysStay
  BY <1>2 DEF KeysStay
<1>8. QED
  BY <1>4, <1>5, <1>6, <1>7 DEF ProvidersKnown

LEMMA ProviderStepsKnown ==
    ASSUME RowsTyped, HistoryTyped, Known, NEW p \in Providers, NEW s \in Settings,
           \/ Registry!UpdateProvider(s, p) \/ Registry!SetCredential(s, p) \/ Registry!RetireProvider(s, p)
    PROVE  Steady
<1>1. PICK op \in {"provider", "retire provider"} : Registry!Answer(s, op, p)
  BY DEF Registry!UpdateProvider, Registry!SetCredential, Registry!RetireProvider
<1>2. setting[s] = [op |-> op, of |-> p]
  BY <1>1 DEF Registry!Answer
<1>3. providers[p].known
  BY <1>2 DEF Known, ProvidersKnown
<1>4. PICK row \in Registry!ProviderRow : row = providers[p]
  BY DEF RowsTyped
<1>5. withdrawn' \cap Models \subseteq withdrawn
  BY RegistryAssumption
     DEF Registry!UpdateProvider, Registry!SetCredential, Registry!RetireProvider
<1>6. CASE Registry!UpdateProvider(s, p)
  <2>1. PICK on \in BOOLEAN : providers' = [providers EXCEPT ![p].enabled = on]
    BY <1>6 DEF Registry!UpdateProvider
  <2>2. PICK new \in Registry!ProviderRow : new = [row EXCEPT !.enabled = on]
    BY DEF Registry!ProviderRow
  <2>3. new.known = row.known /\ new.key = row.key /\ new.retired = row.retired
    BY <2>2 DEF Registry!ProviderRow
  <2>4. providers' = [providers EXCEPT ![p] = new] /\ UNCHANGED <<models, withdrawn>>
    BY <1>4, <1>6, <2>1, <2>2 DEF Registry!UpdateProvider
  <2>5. ProvidersKnown' /\ KeysStay
    BY <1>1, <1>3, <1>4, <2>3, <2>4, ProviderRowsKnown
  <2>6. ModelsKnown'
    BY <1>1, <2>4, ModelsStand DEF Known
  <2>7. QED
    BY <2>5, <2>6 DEF Known, Steady
<1>7. CASE Registry!SetCredential(s, p)
  <2>1. PICK new \in Registry!ProviderRow : new = [row EXCEPT !.key = TRUE]
    BY DEF Registry!ProviderRow
  <2>2. new.known = row.known /\ new.key /\ new.retired = row.retired
    BY <2>1 DEF Registry!ProviderRow
  <2>3. providers' = [providers EXCEPT ![p] = new] /\ UNCHANGED <<models, withdrawn>>
    BY <1>4, <1>7, <2>1 DEF Registry!SetCredential
  <2>4. ProvidersKnown' /\ KeysStay
    BY <1>1, <1>3, <1>4, <2>2, <2>3, ProviderRowsKnown
  <2>5. ModelsKnown'
    BY <1>1, <2>3, ModelsStand DEF Known
  <2>6. QED
    BY <2>4, <2>5 DEF Known, Steady
<1>8. CASE Registry!RetireProvider(s, p)
  <2>1. PICK new \in Registry!ProviderRow : new = [row EXCEPT !.enabled = FALSE, !.retired = TRUE]
    BY DEF Registry!ProviderRow
  <2>2. new.known = row.known /\ new.key = row.key /\ new.retired
    BY <2>1 DEF Registry!ProviderRow
  <2>3. providers' = [providers EXCEPT ![p] = new] /\ withdrawn' = withdrawn \cup {p}
    BY <1>4, <1>8, <2>1 DEF Registry!RetireProvider
  <2>4. ProvidersKnown' /\ KeysStay
    BY <1>1, <1>3, <1>4, <2>2, <2>3, ProviderRowsKnown
  <2>5. \A m \in Models : models'[m].known = models[m].known /\ models'[m].retired = models[m].retired
    <3>1. models' = [m \in Models |-> IF Owner[m] = p THEN Registry!Undefaulted(models)[m] ELSE models[m]]
      BY <1>8 DEF Registry!RetireProvider, Registry!Undefaulted
    <3>2. QED
      BY <3>1, ClearedStay DEF RowsTyped
  <2>6. ModelsKnown'
    BY <1>1, <1>5, <2>5, ModelsStand DEF Known
  <2>7. QED
    BY <2>4, <2>6 DEF Known, Steady
<1>9. QED
  BY <1>6, <1>7, <1>8

LEMMA CreateModelKnown ==
    ASSUME RowsTyped, HistoryTyped, Known, NEW s \in Settings, NEW m \in Models, Registry!CreateModel(s, m)
    PROVE  Steady
<1>1. /\ Registry!Answer(s, "create", Owner[m]) /\ ~models[m].known
      /\ UNCHANGED <<providers, withdrawn>>
  BY DEF Registry!CreateModel
<1>2. PICK tier \in Tiers, vision \in BOOLEAN, default \in BOOLEAN :
          models' = [(IF default THEN Registry!Undefaulted(models) ELSE models) EXCEPT ![m] =
                        [known |-> TRUE, tier |-> tier, vision |-> vision, enabled |-> TRUE, default |-> default,
                         retired |-> FALSE]]
  BY DEF Registry!CreateModel
<1>3. PICK cleared \in [Models -> Registry!ModelRow] :
          cleared = IF default THEN Registry!Undefaulted(models) ELSE models
  BY Cleared DEF RowsTyped
<1>4. \A n \in Models : cleared[n].known = models[n].known /\ cleared[n].retired = models[n].retired
  BY <1>3, ClearedStay DEF RowsTyped
<1>5. models'[m].known /\ \A n \in Models \ {m} : models'[n] = cleared[n]
  BY <1>2, <1>3
<1>6. m \notin withdrawn
  BY <1>1 DEF Known, ModelsKnown
<1>7. PICK some \in SUBSET Models : some = {m}
  OBVIOUS
<1>8. ModelsKnown'
  <2>1. /\ withdrawn' \cap Models \subseteq withdrawn \cup some
        /\ \A n \in Models : models[n].known => models'[n].known
        /\ \A n \in Models \ some : models'[n].retired = models[n].retired
        /\ \A n \in some : n \notin withdrawn' \/ (models'[n].known /\ models'[n].retired)
    BY <1>1, <1>4, <1>5, <1>6, <1>7
  <2>2. QED
    BY <1>1, <2>1, ModelsStay DEF Known
<1>9. ProvidersKnown' /\ KeysStay
  BY <1>1, ProvidersStay DEF Known
<1>10. QED
  BY <1>8, <1>9 DEF Known, Steady

LEMMA UpdateModelKnown ==
    ASSUME RowsTyped, HistoryTyped, Known, NEW s \in Settings, NEW m \in Models, Registry!UpdateModel(s, m)
    PROVE  Steady
<1>1. Registry!Answer(s, "model", m) /\ UNCHANGED <<providers, withdrawn>>
  BY DEF Registry!UpdateModel
<1>2. PICK tier \in Tiers, vision \in BOOLEAN, on \in BOOLEAN, default \in {"keep", "make", "drop"} :
        models' = [(IF default = "make" THEN Registry!Undefaulted(models) ELSE models) EXCEPT ![m] =
                      Registry!Edited((IF default = "make" THEN Registry!Undefaulted(models) ELSE models)[m],
                                      tier, vision, on, default, models[m].enabled /\ ~on)]
  BY Zenon DEF Registry!UpdateModel
<1>3. PICK cleared \in [Models -> Registry!ModelRow] :
          cleared = IF default = "make" THEN Registry!Undefaulted(models) ELSE models
  BY Cleared DEF RowsTyped
<1>4. \A n \in Models : cleared[n].known = models[n].known /\ cleared[n].retired = models[n].retired
  BY <1>3, ClearedStay DEF RowsTyped
<1>5. PICK off \in BOOLEAN : off = (models[m].enabled /\ ~on)
  OBVIOUS
<1>6. models' = [cleared EXCEPT ![m] = Registry!Edited(cleared[m], tier, vision, on, default, off)]
  BY <1>2, <1>3, <1>5
<1>7. PICK row \in Registry!ModelRow : row = cleared[m]
  OBVIOUS
<1>8. PICK new : new = Registry!Edited(row, tier, vision, on, default, off)
  OBVIOUS
<1>9. new.known = row.known /\ new.retired = row.retired
  BY <1>8 DEF Registry!Edited, Registry!ModelRow
<1>10. models'[m] = new /\ \A n \in Models \ {m} : models'[n] = cleared[n]
  BY <1>6, <1>7, <1>8
<1>11. \A n \in Models : models'[n].known = models[n].known /\ models'[n].retired = models[n].retired
  BY <1>4, <1>7, <1>9, <1>10
<1>12. ModelsKnown'
  BY <1>1, <1>11, ModelsStand DEF Known
<1>13. ProvidersKnown' /\ KeysStay
  BY <1>1, ProvidersStay DEF Known
<1>14. QED
  BY <1>12, <1>13 DEF Known, Steady

LEMMA RetireModelKnown ==
    ASSUME RowsTyped, HistoryTyped, Known, NEW s \in Settings, NEW m \in Models, Registry!RetireModel(s, m)
    PROVE  Steady
<1>1. Registry!Answer(s, "retire model", m) /\ UNCHANGED providers /\ withdrawn' = withdrawn \cup {m}
  BY DEF Registry!RetireModel
<1>2. setting[s] = [op |-> "retire model", of |-> m]
  BY <1>1 DEF Registry!Answer
<1>3. models[m].known
  BY <1>2 DEF Known, ModelsKnown
<1>4. PICK row \in Registry!ModelRow : row = models[m]
  BY DEF RowsTyped
<1>5. PICK new : new = [row EXCEPT !.enabled = FALSE, !.default = FALSE, !.retired = TRUE]
  OBVIOUS
<1>6. new.known = row.known /\ new.retired
  BY <1>5 DEF Registry!ModelRow
<1>7. models' = [models EXCEPT ![m] = new]
  BY <1>4, <1>5 DEF Registry!RetireModel
<1>8. models'[m] = new /\ \A n \in Models \ {m} : models'[n] = models[n]
  BY <1>7 DEF RowsTyped
<1>9. PICK some \in SUBSET Models : some = {m}
  OBVIOUS
<1>10. ModelsKnown'
  <2>1. /\ withdrawn' \cap Models \subseteq withdrawn \cup some
        /\ \A n \in Models : models[n].known => models'[n].known
        /\ \A n \in Models \ some : models'[n].retired = models[n].retired
        /\ \A n \in some : n \notin withdrawn' \/ (models'[n].known /\ models'[n].retired)
    BY <1>1, <1>3, <1>4, <1>6, <1>8, <1>9
  <2>2. QED
    BY <1>1, <2>1, ModelsStay DEF Known
<1>11. ProvidersKnown' /\ KeysStay
  BY <1>1, RegistryAssumption, ProvidersStay DEF Known
<1>12. QED
  BY <1>10, <1>11 DEF Known, Steady

LEMMA ImportZenKnown ==
    ASSUME RowsTyped, HistoryTyped, Known, NEW s \in Settings, NEW p \in Providers, Registry!ImportZen(s, p)
    PROVE  Steady
<1>1. Registry!Answer(s, "zen", p) /\ UNCHANGED providers /\ withdrawn' \subseteq withdrawn
  BY DEF Registry!ImportZen
<1>2. ProvidersKnown' /\ KeysStay
  BY <1>1, ProvidersStay DEF Known
<1>3. PICK wanted \in SUBSET {m \in ZenModels : Owner[m] = p} :
          LET cleared == IF ZenDefault \in wanted THEN Registry!Undefaulted(models) ELSE models
          IN  \/ /\ models' = [m \in Models |-> IF m \in wanted THEN Registry!ZenRow(cleared, m) ELSE cleared[m]]
                 /\ withdrawn' = withdrawn \ wanted
              \/ UNCHANGED <<models, withdrawn>>
  BY DEF Registry!ImportZen
<1>4. PICK cleared \in [Models -> Registry!ModelRow] :
          cleared = IF ZenDefault \in wanted THEN Registry!Undefaulted(models) ELSE models
  BY Cleared DEF RowsTyped
<1>5. \A n \in Models : cleared[n].known = models[n].known /\ cleared[n].retired = models[n].retired
  BY <1>4, ClearedStay DEF RowsTyped
<1>6. CASE UNCHANGED <<models, withdrawn>>
  <2>1. ModelsKnown'
    BY <1>1, <1>6, ModelsStand DEF Known
  <2>2. QED
    BY <1>2, <2>1 DEF Known, Steady
<1>7. CASE /\ models' = [m \in Models |-> IF m \in wanted THEN Registry!ZenRow(cleared, m) ELSE cleared[m]]
           /\ withdrawn' = withdrawn \ wanted
  <2>1. \A m \in Models \cap wanted : models'[m].known
    <3>1. ASSUME NEW m \in Models \cap wanted PROVE models'[m].known
      <4>1. PICK row \in Registry!ModelRow : row = cleared[m]
        OBVIOUS
      <4>2. PICK def \in BOOLEAN : def = (row.default \/ m = ZenDefault)
        BY DEF Registry!ModelRow
      <4>3. models'[m] = [row EXCEPT !.known = TRUE, !.tier = "fast", !.vision = FALSE, !.enabled = TRUE,
                                     !.default = def, !.retired = FALSE]
        BY <1>7, <4>1, <4>2 DEF Registry!ZenRow
      <4>4. QED
        BY <4>3 DEF Registry!ModelRow
    <3>2. QED
      BY <3>1
  <2>2. \A m \in Models \ wanted : models'[m] = cleared[m]
    BY <1>7
  <2>3. PICK some \in SUBSET Models : some = Models \cap wanted
    OBVIOUS
  <2>4. /\ withdrawn' \cap Models \subseteq withdrawn \cup some
        /\ \A n \in Models : models[n].known => models'[n].known
        /\ \A n \in Models \ some : models'[n].retired = models[n].retired
        /\ \A n \in some : n \notin withdrawn' \/ (models'[n].known /\ models'[n].retired)
    BY <1>1, <1>5, <1>7, <2>1, <2>2, <2>3
  <2>5. ModelsKnown'
    BY <1>1, <2>4, ModelsStay DEF Known
  <2>6. QED
    BY <1>2, <2>5 DEF Known, Steady
<1>8. QED
  BY <1>3, <1>4, <1>6, <1>7

LEMMA SettingsAreSteady ==
    ASSUME RowsTyped, HistoryTyped, Known, Registry!SettingsStep
    PROVE  Steady
<1>1. ASSUME NEW s \in Settings, NEW p \in Providers,
             NEW op \in {"provider", "retire provider", "create", "zen"}, Registry!ReadProvider(s, p, op)
      PROVE  Steady
  <2>1. Registry!Await(s, op, p) /\ providers[p].known /\ p \notin Models
    BY <1>1, RegistryAssumption DEF Registry!ReadProvider, Registry!CurrentProvider
  <2>2. QED
    BY <2>1, AwaitKnown
<1>2. ASSUME NEW s \in Settings, NEW m \in Models, NEW op \in {"model", "retire model"}, Registry!ReadModel(s, m, op)
      PROVE  Steady
  <2>1. Registry!Await(s, op, m) /\ models[m].known /\ m \notin Providers
    BY <1>2, RegistryAssumption DEF Registry!ReadModel, Registry!CurrentModel
  <2>2. QED
    BY <2>1, AwaitKnown
<1>3. QED
  BY <1>1, <1>2, CreateProviderKnown, ProviderStepsKnown, CreateModelKnown, UpdateModelKnown, RetireModelKnown,
     ImportZenKnown DEF Registry!SettingsStep

-----------------------------------------------------------------------------
(* What a routing knows of the models nobody touched since it began.       *)

Untouched == Models \ touched
AsRead(m) == ranks[m] = Registry!Standing(m, needs) /\ (m \in seeing <=> models[m].vision)

\* The chosen model, from its SELECT to its key.
ChosenFits ==
    routing \in {"chosen", "first"} =>
        /\ given = <<>> /\ chosen \in Models /\ chosen \notin barred
        /\ chosen \notin touched => chosen \in Registry!EligibleModels
        /\ routing = "chosen" /\ chosen \notin touched => (chosen \in seeing <=> models[chosen].vision)

RowsRead ==
    routing \in {"first", "rows", "done"} =>
        /\ left \cap barred = {}
        /\ \A m \in Untouched : AsRead(m) /\ (m \in left => m \in Registry!EligibleModels)
        /\ routing = "first" => \A m \in Untouched : m \in Registry!EligibleModels => m \in left

\* Handed on are models with keys, each once, the chosen one first and the others
\* in their order; the fit models nobody touched, and no others, are to come.
GivenIs(some, rest) ==
    /\ \A i, j \in DOMAIN some : some[i] = some[j] => i = j
    /\ chosen # "none" => some # <<>> /\ some[1] = chosen
    /\ \A i \in DOMAIN some : some[i] \notin barred /\ Registry!HasKey(some[i])
    /\ \A i \in DOMAIN some : some[i] \in Untouched => Registry!Fit(some[i], needs)
    /\ \A m \in Untouched : Registry!Fit(m, needs) => m \in rest \/ \E i \in DOMAIN some : some[i] = m
    /\ \A i, j \in DOMAIN some : i < j /\ some[i] # chosen => Registry!Before(some[i], some[j])
    /\ \A i \in DOMAIN some, m \in rest : some[i] # chosen => Registry!Before(some[i], m)

GivenFit ==
    /\ routing \in {"rows", "done"} => GivenIs(given, left)
    /\ routing = "done" => left = {}

BarredIsWithdrawn == \A m \in barred : Registry!Withdrawn(m)

RouteInv == ChosenFits /\ RowsRead /\ GivenFit /\ BarredIsWithdrawn /\ Registry!RefusalIsFit
RegistryInv == RowsTyped /\ HistoryTyped /\ RouteTyped /\ Known /\ RouteInv

LEMMA WithdrawnIsOut ==
    ASSUME Known, NEW m \in Models, Registry!Withdrawn(m)
    PROVE  m \notin Registry!EligibleModels
<1>1. Owner[m] \in Providers
  BY RegistryAssumption
<1>2. QED
  BY <1>1 DEF Known, ProvidersKnown, ModelsKnown, Registry!Withdrawn, Registry!EligibleModels,
     Registry!CurrentModel, Registry!CurrentProvider

LEMMA FitIsEligible ==
    ASSUME Known, NEW m \in Models, NEW tier
    PROVE  Registry!Fit(m, tier) <=> /\ m \in Registry!EligibleModels /\ Registry!HasKey(m)
                                     /\ tier = "vision" => models[m].vision
<1>1. Owner[m] \in Providers
  BY RegistryAssumption
<1>2. providers[Owner[m]].enabled => providers[Owner[m]].known
  BY <1>1 DEF Known, ProvidersKnown
<1>3. QED
  BY <1>2 DEF Registry!Fit, Registry!EligibleModels, Registry!CurrentModel, Registry!CurrentProvider

\* Settings that are written while a routing goes on.
LEMMA RoutesStand ==
    ASSUME RegistryInv, KeysStay, Registry!Watch
    PROVE  RouteInv'
<1>1. /\ UNCHANGED <<routing, needs, chosen, left, ranks, seeing, given>>
      /\ barred' \subseteq barred /\ touched \subseteq touched' /\ \A m \in barred' : Registry!Withdrawn(m)'
      /\ \A m \in Models \ touched' : models'[m] = models[m] /\ providers'[Owner[m]] = providers[Owner[m]]
  BY DEF Registry!Watch, Registry!routeVars
<1>2. barred \subseteq Models /\ Untouched' \subseteq Untouched /\ \A m \in Models : Owner[m] \in Providers
  BY <1>1, RegistryAssumption DEF RegistryInv, RouteTyped, Untouched
<1>3. ASSUME NEW m \in Untouched'
      PROVE  /\ m \in Models /\ m \in Untouched /\ (m \in Registry!EligibleModels)' = (m \in Registry!EligibleModels)
             /\ Registry!Fit(m, needs)' = Registry!Fit(m, needs) /\ AsRead(m)' = AsRead(m)
  <2>1. m \in Models /\ m \in Untouched /\ models'[m] = models[m] /\ providers'[Owner[m]] = providers[Owner[m]]
    BY <1>1, <1>2, <1>3 DEF Untouched
  <2>2. (m \in Registry!EligibleModels)' = (m \in Registry!EligibleModels)
    BY <2>1 DEF Registry!EligibleModels, Registry!CurrentModel, Registry!CurrentProvider
  <2>3. Registry!Fit(m, needs)' = Registry!Fit(m, needs)
    BY <1>1, <2>1 DEF Registry!Fit, Registry!HasKey
  <2>4. AsRead(m)' = AsRead(m)
    BY <1>1, <2>1 DEF AsRead, Registry!Standing
  <2>5. QED
    BY <2>1, <2>2, <2>3, <2>4
<1>4. ChosenFits'
  <2>1. CASE routing \in {"chosen", "first"}
    <3>1. given = <<>> /\ chosen \in Models /\ chosen \notin barred
      BY <2>1 DEF RegistryInv, RouteInv, ChosenFits
    <3>2. chosen \notin touched' => chosen \in Untouched' /\ chosen \in Untouched
      BY <1>2, <3>1 DEF Untouched
    <3>3. chosen \notin touched' => (chosen \in Registry!EligibleModels)'
      BY <1>1, <1>3, <2>1, <3>2 DEF RegistryInv, RouteInv, ChosenFits, Untouched
    <3>4. routing = "chosen" /\ chosen \notin touched' => (chosen \in seeing <=> models'[chosen].vision)
      BY <1>1, <2>1, <3>1, <3>2 DEF RegistryInv, RouteInv, ChosenFits, Untouched
    <3>5. QED
      BY <1>1, <3>1, <3>3, <3>4 DEF ChosenFits
  <2>2. QED
    BY <1>1, <2>1 DEF ChosenFits
<1>5. RowsRead'
  <2>1. CASE routing \in {"first", "rows", "done"}
    <3>1. left \cap barred' = {}
      BY <1>1, <2>1 DEF RegistryInv, RouteInv, RowsRead
    <3>2. \A m \in Untouched' : AsRead(m)' /\ (m \in left => (m \in Registry!EligibleModels)')
      BY <1>3, <2>1 DEF RegistryInv, RouteInv, RowsRead
    <3>3. routing = "first" => \A m \in Untouched' : (m \in Registry!EligibleModels)' => m \in left
      BY <1>3, <2>1 DEF RegistryInv, RouteInv, RowsRead
    <3>4. QED
      BY <1>1, <3>1, <3>2, <3>3 DEF RowsRead
  <2>2. QED
    BY <1>1, <2>1 DEF RowsRead
<1>6. GivenFit'
  <2>1. CASE routing \in {"rows", "done"}
    <3>1. \A i \in DOMAIN given : given[i] \in Models
      BY DEF RegistryInv, RouteTyped
    <3>2. \A i \in DOMAIN given : given[i] \notin barred' /\ Registry!HasKey(given[i])'
      BY <1>1, <1>2, <2>1, <3>1 DEF RegistryInv, RouteInv, GivenFit, GivenIs, KeysStay, Registry!HasKey
    <3>3. \A i \in DOMAIN given : given[i] \in Untouched' => Registry!Fit(given[i], needs)'
      <4>1. ASSUME NEW i \in DOMAIN given, NEW m, m = given[i], m \in Untouched' PROVE Registry!Fit(m, needs)'
        BY <1>3, <2>1, <4>1 DEF RegistryInv, RouteInv, GivenFit, GivenIs
      <4>2. QED
        BY <1>1, <4>1
    <3>4. \A m \in Untouched' : Registry!Fit(m, needs)' => m \in left \/ \E i \in DOMAIN given : given[i] = m
      BY <1>3, <2>1 DEF RegistryInv, RouteInv, GivenFit, GivenIs
    <3>5. /\ \A i, j \in DOMAIN given : given[i] = given[j] => i = j
          /\ chosen # "none" => given # <<>> /\ given[1] = chosen
          /\ \A i, j \in DOMAIN given : i < j /\ given[i] # chosen => Registry!Before(given[i], given[j])
          /\ \A i \in DOMAIN given, m \in left : given[i] # chosen => Registry!Before(given[i], m)
          /\ routing = "done" => left = {}
      BY <2>1 DEF RegistryInv, RouteInv, GivenFit, GivenIs
    <3>6. /\ \A i, j \in DOMAIN given : i < j /\ given[i] # chosen => Registry!Before(given[i], given[j])'
          /\ \A i \in DOMAIN given, m \in left : given[i] # chosen => Registry!Before(given[i], m)'
      BY <1>1, <3>5 DEF Registry!Before
    <3>7. QED
      BY <1>1, <3>2, <3>3, <3>4, <3>5, <3>6 DEF GivenFit, GivenIs
  <2>2. QED
    BY <1>1, <2>1 DEF GivenFit
<1>7. Registry!RefusalIsFit'
  BY <1>1, <1>3 DEF RegistryInv, RouteInv, Registry!RefusalIsFit, Untouched
<1>8. BarredIsWithdrawn'
  BY <1>1 DEF BarredIsWithdrawn
<1>9. QED
  BY <1>4, <1>5, <1>6, <1>7, <1>8 DEF RouteInv

LEMMA RowsStay ==
    ASSUME Registry!SettingsStay
    PROVE  /\ Registry!EligibleModels' = Registry!EligibleModels /\ UNCHANGED models
           /\ \A m \in Models : /\ (Registry!HasKey(m)' <=> Registry!HasKey(m))
                                /\ (Registry!Withdrawn(m)' <=> Registry!Withdrawn(m))
           /\ RowsTyped /\ HistoryTyped /\ Known => RowsTyped' /\ HistoryTyped' /\ Known'
<1>1. UNCHANGED <<providers, models, setting, withdrawn, requests>>
  BY DEF Registry!SettingsStay
<1>2. QED
  BY <1>1 DEF Registry!EligibleModels, Registry!CurrentModel, Registry!CurrentProvider, Registry!HasKey,
     Registry!Withdrawn, RowsTyped, HistoryTyped, Known, ProvidersKnown, ModelsKnown

\* What a model is fit for, as a routing knows it.
LEMMA FitAsRead ==
    ASSUME Known, NEW m \in Models, AsRead(m)
    PROVE  Registry!Fit(m, needs) <=> /\ m \in Registry!EligibleModels /\ Registry!HasKey(m)
                                      /\ Registry!Capable(m)
  BY FitIsEligible DEF AsRead, Registry!Capable

LEMMA StandingTyped == \A tier : \A m \in Models : Registry!Standing(m, tier) \in 0..2
  BY DEF Registry!Standing

LEMMA SelectChosenFits ==
    ASSUME RegistryInv, NEW m \in Models, Registry!SelectChosen(m)
    PROVE  RouteTyped' /\ RouteInv'
<1>1. /\ chosen' = m /\ given' = <<>> /\ barred' = {n \in Models : Registry!Withdrawn(n)} /\ touched' = {}
      /\ routing' = (IF m \in Registry!EligibleModels THEN "chosen" ELSE "failed")
      /\ needs' = models[m].tier /\ seeing' = {n \in {m} : models[n].vision} /\ left' = {}
      /\ UNCHANGED ranks /\ Registry!SettingsStay
  BY DEF Registry!SelectChosen, Registry!Begin
<1>2. m # "none" /\ Known /\ models[m].tier \in Tiers /\ Registry!EligibleModels \subseteq Models
  BY RegistryAssumption DEF RegistryInv, RowsTyped, Registry!ModelRow, Registry!EligibleModels
<1>3. RouteTyped'
  <2>1. routing' \in {"chosen", "failed"} /\ needs' \in Tiers /\ given' \in Seq(Models)
    BY <1>1, <1>2
  <2>2. QED
    BY <1>1, <2>1 DEF RegistryInv, RouteTyped
<1>4. Registry!EligibleModels' = Registry!EligibleModels /\ UNCHANGED models /\ Known'
  BY <1>1, <1>2, RowsStay DEF RegistryInv
<1>5. ChosenFits'
  BY <1>1, <1>2, <1>4, WithdrawnIsOut DEF ChosenFits
<1>6. RowsRead' /\ GivenFit'
  BY <1>1 DEF RowsRead, GivenFit
<1>7. BarredIsWithdrawn'
  BY <1>1, RowsStay DEF BarredIsWithdrawn
<1>8. Registry!RefusalIsFit'
  <2>1. routing' = "failed" => ~Registry!Fit(m, models[m].tier)
    BY <1>1, <1>2, FitIsEligible
  <2>2. Registry!Fit(m, needs)' <=> Registry!Fit(m, models[m].tier)
    BY <1>1 DEF Registry!Fit, Registry!HasKey, Registry!SettingsStay
  <2>3. QED
    BY <1>1, <1>2, <2>1, <2>2 DEF Registry!RefusalIsFit
<1>9. QED
  BY <1>3, <1>5, <1>6, <1>7, <1>8 DEF RouteInv

LEMMA SelectRowsFits ==
    ASSUME RegistryInv, NEW tier \in Tiers, Registry!SelectRows(tier)
    PROVE  RouteTyped' /\ RouteInv'
<1>1. /\ needs' = tier /\ left' = Registry!EligibleModels
      /\ routing' = (IF Registry!EligibleModels = {} THEN "failed" ELSE IF chosen' = "none" THEN "rows" ELSE "first")
      /\ ranks' = [m \in Models |-> Registry!Standing(m, tier)]
      /\ seeing' = {m \in Models : IF m = chosen' THEN m \in seeing ELSE models[m].vision}
      /\ Registry!SettingsStay
  BY DEF Registry!SelectRows
<1>2. \/ /\ chosen' = "none" /\ given' = <<>> /\ barred' = {n \in Models : Registry!Withdrawn(n)} /\ touched' = {}
      \/ routing = "chosen" /\ tier = needs /\ UNCHANGED <<chosen, given, barred, touched>>
  BY DEF Registry!SelectRows, Registry!Begin
<1>3. given' = <<>> /\ chosen' \in Models \cup {"none"} /\ barred' \subseteq Models /\ touched' \subseteq Models
  BY <1>2 DEF RegistryInv, RouteTyped, RouteInv, ChosenFits
<1>4. RouteTyped'
  <2>1. routing' \in {"first", "rows", "failed"} /\ left' \subseteq Models /\ given' \in Seq(Models)
    BY <1>1, <1>3 DEF Registry!EligibleModels
  <2>2. ranks' \in [Models -> 0..2]
    BY <1>1, StandingTyped
  <2>3. QED
    BY <1>1, <1>3, <2>1, <2>2 DEF RouteTyped
<1>5. Registry!EligibleModels' = Registry!EligibleModels /\ UNCHANGED models /\ Known /\ Known'
  BY <1>1, RowsStay DEF RegistryInv
<1>6. \A m \in barred' : Registry!Withdrawn(m)
  BY <1>2 DEF RegistryInv, RouteInv, BarredIsWithdrawn
<1>7. chosen' # "none" => /\ chosen' \in Models /\ chosen' \notin barred'
                          /\ chosen' \notin touched' => /\ chosen' \in Registry!EligibleModels
                                                        /\ (chosen' \in seeing <=> models[chosen'].vision)
  BY <1>2 DEF RegistryInv, RouteInv, ChosenFits
<1>8. ChosenFits'
  BY <1>1, <1>3, <1>5, <1>7 DEF ChosenFits
<1>9. RowsRead'
  <2>1. left' \cap barred' = {}
    BY <1>1, <1>3, <1>5, <1>6, WithdrawnIsOut
  <2>2. ASSUME NEW m \in Untouched' PROVE AsRead(m)' /\ (m \in left' <=> (m \in Registry!EligibleModels)')
    <3>1. m \in Models /\ m \notin touched'
      BY <2>2 DEF Untouched
    <3>2. ranks'[m] = Registry!Standing(m, tier) /\ Registry!Standing(m, needs)' = Registry!Standing(m, tier)
      BY <1>1, <1>5, <3>1 DEF Registry!Standing
    <3>3. m \in seeing' <=> models'[m].vision
      BY <1>1, <1>5, <1>7, <3>1, RegistryAssumption
    <3>4. QED
      BY <1>1, <1>5, <3>2, <3>3 DEF AsRead
  <2>3. QED
    BY <2>1, <2>2 DEF RowsRead
<1>10. GivenFit'
  <2>1. routing' # "done" /\ DOMAIN given' = {} /\ (routing' = "rows" => chosen' = "none")
    BY <1>1, <1>3
  <2>2. ASSUME NEW m \in Untouched', Registry!Fit(m, needs)' PROVE m \in left'
    <3>1. m \in Models
      BY DEF Untouched
    <3>2. Registry!Fit(m, tier)
      BY <1>1, <2>2 DEF Registry!Fit, Registry!HasKey, Registry!SettingsStay
    <3>3. QED
      BY <1>1, <1>5, <3>1, <3>2, FitIsEligible
  <2>3. QED
    BY <2>1, <2>2 DEF GivenFit, GivenIs
<1>11. BarredIsWithdrawn'
  BY <1>1, <1>3, <1>6, RowsStay DEF BarredIsWithdrawn
<1>12. Registry!RefusalIsFit'
  <2>1. ASSUME NEW m \in Models, Registry!EligibleModels = {} PROVE ~Registry!Fit(m, needs)'
    <3>1. ~Registry!Fit(m, tier)
      BY <1>5, <2>1, FitIsEligible
    <3>2. QED
      BY <1>1, <3>1 DEF Registry!Fit, Registry!HasKey, Registry!SettingsStay
  <2>2. QED
    BY <1>1, <2>1 DEF Registry!RefusalIsFit
<1>13. QED
  BY <1>4, <1>8, <1>9, <1>10, <1>11, <1>12 DEF RouteInv

\* What is handed on stays fit while a routing reads.
LEMMA GivenStays ==
    ASSUME Registry!SettingsStay, UNCHANGED <<needs, chosen, ranks, barred, touched>>,
           NEW some, some = given', NEW rest, rest = left', GivenIs(some, rest)
    PROVE  GivenIs(given, left)'
<1>1. /\ Untouched' = Untouched /\ UNCHANGED <<needs, chosen, ranks, barred, touched, providers, models>>
  BY DEF Untouched, Registry!SettingsStay
<1>2. QED
  BY <1>1 DEF GivenIs, Registry!HasKey, Registry!Fit, Registry!Before

LEMMA TryChosenFits ==
    ASSUME RegistryInv, Registry!TryChosen
    PROVE  RouteTyped' /\ RouteInv'
<1>1. /\ routing = "first" /\ Registry!SettingsStay
      /\ UNCHANGED <<needs, chosen, left, ranks, seeing, barred, touched>>
      /\ \/ /\ Registry!HasKey(chosen) /\ Registry!Capable(chosen)
            /\ given' = <<chosen>> /\ routing' = "rows"
         \/ /\ ~(Registry!HasKey(chosen) /\ Registry!Capable(chosen))
            /\ routing' = "failed" /\ UNCHANGED given
  BY DEF Registry!TryChosen
<1>2. /\ chosen \in Models /\ chosen # "none" /\ chosen \notin barred
      /\ chosen \notin touched => chosen \in Registry!EligibleModels /\ AsRead(chosen)
  BY <1>1, RegistryAssumption DEF RegistryInv, RouteInv, ChosenFits, RowsRead, Untouched
<1>3. Registry!EligibleModels' = Registry!EligibleModels /\ UNCHANGED models /\ Known
  BY <1>1, RowsStay DEF RegistryInv
<1>4. RouteTyped'
  <2>1. given' \in Seq(Models) /\ routing' \in {"rows", "failed"}
    <3>1. given \in Seq(Models) /\ <<chosen>> \in Seq(Models)
      BY <1>2 DEF RegistryInv, RouteTyped
    <3>2. QED
      BY <1>1, <3>1
  <2>2. QED
    BY <1>1, <2>1 DEF RegistryInv, RouteTyped
<1>5. \A m \in Models : Registry!Fit(m, needs)' <=> Registry!Fit(m, needs)
  BY <1>1 DEF Registry!Fit, Registry!HasKey, Registry!SettingsStay
<1>6. ChosenFits'
  BY <1>1 DEF ChosenFits
<1>7. RowsRead'
  BY <1>1, <1>3 DEF RegistryInv, RouteInv, RowsRead, Untouched, AsRead, Registry!Standing
<1>8. BarredIsWithdrawn'
  BY <1>1, RowsStay DEF RegistryInv, RouteTyped, RouteInv, BarredIsWithdrawn
<1>9. Registry!RefusalIsFit'
  BY <1>1, <1>2, <1>3, <1>5, FitAsRead DEF Registry!RefusalIsFit
<1>10. GivenFit'
  <2>1. CASE routing' = "rows"
    <3>1. PICK some : some = <<chosen>>
      OBVIOUS
    <3>2. DOMAIN some = {1} /\ some # <<>> /\ some[1] = chosen
      BY <3>1
    <3>3. Registry!HasKey(chosen) /\ (chosen \notin touched => Registry!Fit(chosen, needs))
      BY <1>1, <1>2, <1>3, <2>1, FitAsRead
    <3>4. \A m \in Untouched : Registry!Fit(m, needs) => m \in left
      BY <1>1, <1>3, FitIsEligible DEF RegistryInv, RouteInv, RowsRead, Untouched
    <3>5. \A i \in DOMAIN some : i = 1 /\ some[i] = chosen
      BY <3>2
    <3>6. GivenIs(some, left)
      BY <1>2, <3>2, <3>3, <3>4, <3>5 DEF GivenIs, Untouched
    <3>7. some = given' /\ left = left'
      BY <1>1, <2>1, <3>1
    <3>8. GivenIs(given, left)'
      BY <1>1, <3>6, <3>7, GivenStays
    <3>9. QED
      BY <2>1, <3>8 DEF GivenFit
  <2>2. QED
    BY <1>1, <2>1 DEF GivenFit
<1>11. QED
  BY <1>4, <1>6, <1>7, <1>8, <1>9, <1>10 DEF RouteInv

LEMMA TryRowFits ==
    ASSUME RegistryInv, NEW m \in Models, Registry!TryRow(m)
    PROVE  RouteTyped' /\ RouteInv'
<1>1. /\ routing = "rows" /\ m \in left /\ (\A n \in left \ {m} : Registry!Before(m, n))
      /\ left' = left \ {m} /\ Registry!SettingsStay
      /\ UNCHANGED <<routing, needs, chosen, ranks, seeing, barred, touched>>
  BY DEF Registry!TryRow
<1>2. \/ /\ Registry!HasKey(m) /\ Registry!Capable(m) /\ \A i \in DOMAIN given : given[i] # m
         /\ given' = Append(given, m)
      \/ /\ ~(Registry!HasKey(m) /\ Registry!Capable(m)) \/ \E i \in DOMAIN given : given[i] = m
         /\ given' = given
  BY DEF Registry!TryRow, Registry!ToSet
<1>3. Registry!EligibleModels' = Registry!EligibleModels /\ UNCHANGED models /\ Known
  BY <1>1, RowsStay DEF RegistryInv
<1>4. given \in Seq(Models) /\ left \subseteq Models
  BY DEF RegistryInv, RouteTyped
<1>5. RouteTyped'
  BY <1>1, <1>2 DEF RegistryInv, RouteTyped
<1>7. m \notin barred /\ (m \in Untouched => AsRead(m) /\ m \in Registry!EligibleModels)
  BY <1>1 DEF RegistryInv, RouteInv, RowsRead
<1>8. ChosenFits' /\ Registry!RefusalIsFit'
  BY <1>1 DEF ChosenFits, Registry!RefusalIsFit
<1>9. RowsRead'
  BY <1>1, <1>3 DEF RegistryInv, RouteInv, RowsRead, Untouched, AsRead, Registry!Standing
<1>10. BarredIsWithdrawn'
  BY <1>1, RowsStay DEF RegistryInv, RouteTyped, RouteInv, BarredIsWithdrawn
<1>11. GivenIs(given, left)
  BY <1>1 DEF RegistryInv, RouteInv, GivenFit
<1>12. PICK rest : rest = left \ {m}
  OBVIOUS
<1>13. PICK some : some = given'
  OBVIOUS
<1>14. ASSUME some = given, ~(Registry!HasKey(m) /\ Registry!Capable(m)) \/ \E i \in DOMAIN given : given[i] = m
       PROVE  GivenIs(some, rest)
  <2>1. m \in Untouched /\ Registry!Fit(m, needs) => \E i \in DOMAIN given : given[i] = m
    BY <1>3, <1>7, <1>14, FitAsRead
  <2>2. \A n \in Untouched : Registry!Fit(n, needs) => n \in rest \/ \E i \in DOMAIN given : given[i] = n
    BY <1>11, <1>12, <2>1 DEF GivenIs
  <2>3. QED
    BY <1>11, <1>12, <1>14, <2>2 DEF GivenIs
<1>15. ASSUME Registry!HasKey(m), Registry!Capable(m), \A i \in DOMAIN given : given[i] # m,
              some = Append(given, m)
       PROVE  GivenIs(some, rest)
  <2>1. PICK k \in Nat : k = Len(given)
    BY <1>4
  <2>2. /\ DOMAIN given = 1..k /\ DOMAIN some = 1..(k + 1) /\ some[k + 1] = m
        /\ \A i \in 1..k : some[i] = given[i]
    BY <1>4, <1>15, <2>1
  <2>3. \A i \in DOMAIN some : (i \in DOMAIN given /\ some[i] = given[i]) \/ (i = k + 1 /\ some[i] = m)
    BY <2>1, <2>2
  <2>4. \A i \in DOMAIN given : i \in DOMAIN some /\ some[i] = given[i] /\ i < k + 1
    BY <2>1, <2>2
  <2>5. k + 1 \in DOMAIN some /\ some # <<>>
    BY <2>1, <2>2
  <2>6. \A i, j \in DOMAIN some : some[i] = some[j] => i = j
    BY <1>11, <1>15, <2>3 DEF GivenIs
  <2>7. chosen # "none" => some[1] = chosen
    <3>1. chosen # "none" => given # <<>> /\ given[1] = chosen
      BY <1>11 DEF GivenIs
    <3>2. given # <<>> => 1 \in 1..k
      BY <1>4, <2>1
    <3>3. QED
      BY <2>2, <3>1, <3>2
  <2>8. \A i \in DOMAIN some : some[i] \notin barred /\ Registry!HasKey(some[i])
    BY <1>7, <1>11, <1>15, <2>3 DEF GivenIs
  <2>9. m \in Untouched => Registry!Fit(m, needs)
    BY <1>3, <1>7, <1>15, FitAsRead
  <2>10. \A i \in DOMAIN some : some[i] \in Untouched => Registry!Fit(some[i], needs)
    BY <1>11, <2>3, <2>9 DEF GivenIs
  <2>11. \A n \in Untouched : Registry!Fit(n, needs) => n \in rest \/ \E i \in DOMAIN some : some[i] = n
    BY <1>11, <1>12, <2>2, <2>4, <2>5 DEF GivenIs
  <2>12. \A i, j \in DOMAIN some : i < j /\ some[i] # chosen => Registry!Before(some[i], some[j])
    <3>1. ASSUME NEW i \in DOMAIN some, NEW j \in DOMAIN some, i < j, some[i] # chosen
          PROVE  Registry!Before(some[i], some[j])
      <4>1. i \in DOMAIN given /\ some[i] = given[i]
        BY <2>1, <2>2, <3>1
      <4>2. CASE j \in DOMAIN given /\ some[j] = given[j]
        BY <1>11, <3>1, <4>1, <4>2 DEF GivenIs
      <4>3. CASE j = k + 1 /\ some[j] = m
        BY <1>1, <1>11, <3>1, <4>1, <4>3 DEF GivenIs
      <4>4. QED
        BY <2>3, <4>2, <4>3
    <3>2. QED
      BY <3>1
  <2>13. \A i \in DOMAIN some, n \in rest : some[i] # chosen => Registry!Before(some[i], n)
    BY <1>1, <1>11, <1>12, <2>3 DEF GivenIs
  <2>14. QED
    BY <2>5, <2>6, <2>7, <2>8, <2>10, <2>11, <2>12, <2>13 DEF GivenIs
<1>16. GivenIs(some, rest)
  BY <1>2, <1>13, <1>14, <1>15
<1>17. rest = left'
  BY <1>1, <1>12
<1>18. GivenIs(given, left)'
  BY <1>1, <1>13, <1>16, <1>17, GivenStays
<1>19. QED
  BY <1>1, <1>5, <1>8, <1>9, <1>10, <1>18 DEF RouteInv, GivenFit

LEMMA EndRowsFits ==
    ASSUME RegistryInv, Registry!EndRows
    PROVE  RouteTyped' /\ RouteInv'
<1>1. /\ routing = "rows" /\ left = {} /\ routing' = (IF given = <<>> THEN "failed" ELSE "done")
      /\ UNCHANGED <<needs, chosen, left, ranks, seeing, given, barred, touched>> /\ Registry!SettingsStay
  BY DEF Registry!EndRows
<1>2. Registry!EligibleModels' = Registry!EligibleModels /\ UNCHANGED models /\ Known
  BY <1>1, RowsStay DEF RegistryInv
<1>3. RouteTyped'
  BY <1>1 DEF RegistryInv, RouteTyped
<1>4. \A n \in Models : /\ Registry!Fit(n, needs)' <=> Registry!Fit(n, needs)
                        /\ Registry!HasKey(n)' <=> Registry!HasKey(n)
  BY <1>1 DEF Registry!Fit, Registry!HasKey, Registry!SettingsStay
<1>5. /\ given \in Seq(Models) /\ \A i \in DOMAIN given : given[i] \in Models
      /\ Untouched' = Untouched /\ Untouched \subseteq Models
  BY <1>1 DEF RegistryInv, RouteTyped, Untouched
<1>6. ChosenFits'
  BY <1>1 DEF ChosenFits
<1>7. RowsRead'
  BY <1>1, <1>2 DEF RegistryInv, RouteInv, RowsRead, Untouched, AsRead, Registry!Standing
<1>8. BarredIsWithdrawn'
  BY <1>1, RowsStay DEF RegistryInv, RouteTyped, RouteInv, BarredIsWithdrawn
<1>9. GivenIs(given, left)
  BY <1>1 DEF RegistryInv, RouteInv, GivenFit
<1>10. GivenFit'
  <2>1. PICK some, rest : some = given' /\ rest = left'
    OBVIOUS
  <2>2. GivenIs(some, rest)
    BY <1>1, <1>9, <2>1
  <2>3. GivenIs(given, left)'
    BY <1>1, <2>1, <2>2, GivenStays
  <2>4. QED
    BY <1>1, <2>3 DEF GivenFit
<1>11. Registry!RefusalIsFit'
  <2>1. CASE given = <<>>
    <3>1. \A n \in Untouched' : ~Registry!Fit(n, needs)'
      BY <1>1, <1>4, <1>5, <1>9, <2>1 DEF GivenIs
    <3>2. QED
      BY <3>1 DEF Registry!RefusalIsFit, Untouched
  <2>2. CASE given # <<>>
    BY <1>1, <2>2 DEF Registry!RefusalIsFit
  <2>3. QED
    BY <2>1, <2>2
<1>12. QED
  BY <1>3, <1>6, <1>7, <1>8, <1>10, <1>11 DEF RouteInv

LEMMA RouteStart == Registry!RegistryInit => RegistryInv
<1> SUFFICES ASSUME Registry!RegistryInit PROVE RegistryInv
  OBVIOUS
<1>1. /\ providers = [p \in Providers |-> [known |-> FALSE, enabled |-> FALSE, retired |-> FALSE, key |-> FALSE]]
      /\ models = [m \in Models |-> Registry!NoModel] /\ setting = [s \in Settings |-> Registry!Idle]
      /\ routing = "idle" /\ needs = "vision" /\ chosen = "none" /\ given = <<>>
      /\ left = {} /\ ranks = [m \in Models |-> 0] /\ seeing = {}
      /\ withdrawn = {} /\ barred = {} /\ touched = {} /\ requests = 0
  BY DEF Registry!RegistryInit
<1>2. RowsTyped
  <2>1. /\ [known |-> FALSE, enabled |-> FALSE, retired |-> FALSE, key |-> FALSE] \in Registry!ProviderRow
        /\ Registry!NoModel \in Registry!ModelRow /\ Registry!Idle \in SettingRow
    BY RegistryAssumption DEF Registry!ProviderRow, Registry!NoModel, Registry!ModelRow, Registry!Idle, SettingRow
  <2>2. QED
    BY <1>1, <2>1 DEF RowsTyped
<1>3. HistoryTyped /\ RouteTyped
  BY <1>1, RegistryAssumption DEF HistoryTyped, RouteTyped
<1>4. Known
  <2>1. \A x : \A o \in Waited : Registry!Idle # [op |-> o, of |-> x]
    BY DEF Registry!Idle, Waited
  <2>2. ProvidersKnown
    BY <1>1, <2>1 DEF ProvidersKnown, Waited
  <2>3. ModelsKnown
    BY <1>1, <2>1 DEF ModelsKnown, Waited
  <2>4. QED
    BY <2>2, <2>3 DEF Known
<1>5. RouteInv
  BY <1>1 DEF RouteInv, ChosenFits, RowsRead, GivenFit, BarredIsWithdrawn, Registry!RefusalIsFit
<1>6. QED
  BY <1>2, <1>3, <1>4, <1>5 DEF RegistryInv

LEMMA RouteSteps == RegistryInv /\ [Registry!RegistryNext]_Registry!registryVars => RegistryInv'
<1> SUFFICES ASSUME RegistryInv, [Registry!RegistryNext]_Registry!registryVars PROVE RegistryInv'
  OBVIOUS
<1>1. RowsTyped /\ HistoryTyped /\ RouteTyped /\ Known /\ RouteInv
  BY DEF RegistryInv
<1>2. ASSUME Registry!SettingsStep, Registry!Watch PROVE RegistryInv'
  <2>1. RowsTyped' /\ HistoryTyped' /\ Steady
    BY <1>1, <1>2, SettingsAreTyped, SettingsAreSteady
  <2>2. RouteInv'
    BY <1>2, <2>1, RoutesStand DEF Steady
  <2>3. RouteTyped'
    <3>1. UNCHANGED <<routing, needs, chosen, left, ranks, seeing, given>> /\ barred' \subseteq Models
          /\ touched' \subseteq Models
      BY <1>1, <1>2 DEF Registry!Watch, Registry!routeVars, RouteTyped
    <3>2. QED
      BY <1>1, <3>1 DEF RouteTyped
  <2>4. QED
    BY <2>1, <2>2, <2>3 DEF RegistryInv, Steady
<1>3. ASSUME Registry!RouteStep PROVE RegistryInv'
  <2>1. RouteTyped' /\ RouteInv'
    BY <1>3, SelectChosenFits, SelectRowsFits, TryChosenFits, TryRowFits, EndRowsFits DEF Registry!RouteStep
  <2>2. Registry!SettingsStay
    BY <1>3 DEF Registry!RouteStep, Registry!SelectChosen, Registry!SelectRows, Registry!TryChosen,
       Registry!TryRow, Registry!EndRows
  <2>3. QED
    BY <1>1, <2>1, <2>2, RowsStay DEF RegistryInv
<1>4. CASE UNCHANGED Registry!registryVars
  <2>1. UNCHANGED <<providers, models, setting, routing, needs, chosen, left, ranks, seeing, given,
                    withdrawn, barred, touched, requests>>
    BY <1>4 DEF Registry!registryVars, Registry!routeVars
  <2>2. RowsTyped' /\ HistoryTyped' /\ RouteTyped'
    BY <1>1, <2>1 DEF RowsTyped, HistoryTyped, RouteTyped
  <2>3. Known'
    BY <1>1, <2>1 DEF Known, ProvidersKnown, ModelsKnown
  <2>4. KeysStay /\ Registry!Watch
    BY <1>1, <2>1 DEF KeysStay, Registry!Watch, Registry!routeVars, Registry!Withdrawn, RouteInv, BarredIsWithdrawn,
       RouteTyped
  <2>5. QED
    BY <2>2, <2>3, <2>4, RoutesStand DEF RegistryInv
<1>5. QED
  BY <1>2, <1>3, <1>4 DEF Registry!RegistryNext

LEMMA RegistryHolds == RegistryInv => RoutesAreFit
<1> SUFFICES ASSUME RegistryInv PROVE RoutesAreFit
  OBVIOUS
<1>1. RowsTyped /\ HistoryTyped /\ RouteTyped /\ RouteInv
  BY DEF RegistryInv
<1>2. Registry!RegistryTypeOK
  BY <1>1, RegistryTypes
<1>3. ASSUME routing = "done" PROVE Registry!RouteIsFit
  <2>1. GivenIs(given, {}) /\ given \in Seq(Models)
    BY <1>1, <1>3 DEF RouteInv, GivenFit, RouteTyped
  <2>2. \A i \in DOMAIN given : given[i] \in Models
    BY <2>1
  <2>3. Registry!IsInjective(given)
    BY <2>1 DEF GivenIs, Registry!IsInjective
  <2>4. \A m \in Registry!ToSet(given) : m \notin barred /\ Registry!HasKey(m)
    BY <2>1 DEF GivenIs, Registry!ToSet
  <2>5. \A m \in Untouched : m \in Registry!ToSet(given) <=> Registry!Fit(m, needs)
    BY <2>1 DEF GivenIs, Registry!ToSet
  <2>6. ASSUME NEW i \in DOMAIN given, NEW j \in DOMAIN given, i < j, given[i] # chosen,
               {given[i], given[j]} \cap touched = {}
        PROVE  Registry!Ahead(given[i], given[j], needs)
    <3>1. given[i] \in Untouched /\ given[j] \in Untouched
      BY <2>2, <2>6 DEF Untouched
    <3>2. AsRead(given[i]) /\ AsRead(given[j])
      BY <1>1, <1>3, <3>1 DEF RouteInv, RowsRead
    <3>3. Registry!Before(given[i], given[j])
      BY <2>1, <2>6 DEF GivenIs
    <3>4. QED
      BY <3>2, <3>3 DEF AsRead, Registry!Before, Registry!Ahead
  <2>7. chosen # "none" => given[1] = chosen
    BY <2>1 DEF GivenIs
  <2>8. QED
    BY <2>3, <2>4, <2>5, <2>6, <2>7 DEF Registry!RouteIsFit, Untouched
<1>4. Registry!RouteIsFit
  BY <1>3 DEF Registry!RouteIsFit
<1>5. QED
  BY <1>1, <1>2, <1>4 DEF RoutesAreFit, Registry!RoutesAreFit, RouteInv

(* Whatever providers and models there are, in whatever order, and however   *)
(* settings requests overwrite each other and a routing that is under way:   *)
(* it hands on each model once, none that was retired before it began, and   *)
(* of those nobody touched the fit ones in their order; and it refuses only  *)
(* when there is none (select_model_candidates).                             *)
THEOREM RoutesFit == Registry!RegistrySpec => []RoutesAreFit
  BY RouteStart, RouteSteps, RegistryHolds, PTL DEF Registry!RegistrySpec

-----------------------------------------------------------------------------
(* The modules of the interface (module ModuleInstances).                  *)

\* What a client shows is no newer than the rows, and tells one content.
ViewsFit ==
    \A c \in Clients, m \in FoundationModules :
        /\ view[c][m].revision <= rows[m].revision
        /\ view[c][m].revision = rows[m].revision => view[c][m] = rows[m]

PlacesDiffer(table) ==
    \A m, n \in FoundationModules :
        table[m].attached /\ table[n].attached /\ table[m].order = table[n].order => m = n

ModulesInv == Interface!ModulesTypeOK /\ PlacesDiffer(rows) /\ ViewsFit

LEMMA InterfaceCardinality == ASSUME NEW S PROVE Interface!Cardinality(S) = Cardinality(S)
  BY DEF Interface!Cardinality, Cardinality

\* The place of a module attached now comes after those of all that are.
LEMMA LastPlace ==
    ASSUME rows \in [FoundationModules -> Interface!Row]
    PROVE  LET last == Interface!Max({rows[n].order : n \in Interface!Attached(rows)} \cup {0})
           IN  last \in Nat /\ \A n \in Interface!Attached(rows) : rows[n].order <= last
<1> DEFINE A == Interface!Attached(rows)
           S == {rows[n].order : n \in A} \cup {0}
<1>1. IsFiniteSet(A) /\ A \subseteq FoundationModules
  BY FS_Subset, ModulesAssumption DEF Interface!Attached
<1>2. \A n \in A : rows[n].order \in Nat
  BY <1>1 DEF Interface!Row
<1> HIDE DEF A
<1>3. \E x \in S : \A y \in S : x >= y
  <2>1. CASE A = {}
    BY <2>1
  <2>2. CASE A # {}
    <3> DEFINE f == [n \in A |-> rows[n].order]
    <3>1. f \in [A -> Nat]
      BY <1>2
    <3>2. PICK m \in A : \A n \in A : f[n] <= f[m]
      <4> HIDE DEF f
      <4>1. QED
        BY <1>1, <2>2, <3>1, Greatest
    <3>3. \A n \in A : rows[n].order <= rows[m].order
      BY <3>2
    <3>4. rows[m].order \in S /\ rows[m].order \in Nat
      BY <1>2
    <3>5. \A y \in S : rows[m].order >= y
      BY <1>2, <3>3
    <3>6. QED
      BY <3>4, <3>5
  <2>3. QED
    BY <2>1, <2>2
<1>4. PICK last \in S : last = Interface!Max(S) /\ \A y \in S : last >= y
  BY <1>3 DEF Interface!Max
<1>5. last \in Nat /\ \A n \in A : rows[n].order <= last
  BY <1>2, <1>4
<1>6. QED
  BY <1>4, <1>5 DEF A

LEMMA ModulesStart == Interface!ModulesInit => ModulesInv
<1> SUFFICES ASSUME Interface!ModulesInit PROVE ModulesInv
  OBVIOUS
<1> USE ModulesAssumption DEF Interface!ModulesInit
<1>1. ASSUME NEW m \in FoundationModules
      PROVE  /\ rows[m] \in Interface!Row /\ rows[m].order = Seeded[m] /\ rows[m].revision = 1
  BY DEF Interface!Row
<1>2. Interface!ModulesTypeOK
  BY <1>1 DEF Interface!ModulesTypeOK
<1>3. PlacesDiffer(rows)
  BY <1>1 DEF PlacesDiffer
<1>4. ViewsFit
  BY <1>1 DEF ViewsFit
<1>5. QED
  BY <1>2, <1>3, <1>4 DEF ModulesInv

\* A row with another name, place or attachment has the next revision.
Moved(old, new) == new = old \/ new.revision = old.revision + 1

LEMMA EditFits ==
    ASSUME ModulesInv, NEW c \in Clients, NEW changed \in [FoundationModules -> Interface!Row],
           NEW answered \in SUBSET FoundationModules, Interface!Edit(c, changed, answered),
           \A m \in FoundationModules : Moved(rows[m], changed[m]), PlacesDiffer(changed)
    PROVE  ModulesInv'
<1>1. rows' = changed /\ due' = [due EXCEPT ![c] = answered] /\ UNCHANGED view
  BY DEF Interface!Edit
<1>2. Interface!ModulesTypeOK'
  BY <1>1 DEF ModulesInv, Interface!ModulesTypeOK
<1>3. ViewsFit'
  <2>1. ASSUME NEW d \in Clients, NEW m \in FoundationModules
        PROVE  /\ view[d][m].revision <= changed[m].revision
               /\ view[d][m].revision = changed[m].revision => view[d][m] = changed[m]
    <3>1. rows[m] \in Interface!Row /\ view[d][m] \in Interface!Row /\ changed[m] \in Interface!Row
      BY DEF ModulesInv, Interface!ModulesTypeOK
    <3>2. rows[m].revision \in Nat /\ view[d][m].revision \in Nat
      BY <3>1, ModulesAssumption DEF Interface!Row
    <3>3. QED
      BY <3>2 DEF ModulesInv, ViewsFit, Moved
  <2>2. QED
    BY <1>1, <2>1 DEF ViewsFit
<1>4. PlacesDiffer(rows)'
  BY <1>1 DEF PlacesDiffer
<1>5. QED
  BY <1>2, <1>3, <1>4 DEF ModulesInv

LEMMA AttachFits ==
    ASSUME ModulesInv, NEW c \in Clients, NEW m \in FoundationModules, Interface!SetAttached(c, m)
    PROVE  ModulesInv'
<1>1. rows \in [FoundationModules -> Interface!Row]
  BY DEF ModulesInv, Interface!ModulesTypeOK
<1> DEFINE last == Interface!Max({rows[n].order : n \in Interface!Attached(rows)} \cup {0})
<1>2. last \in Nat /\ \A n \in Interface!Attached(rows) : rows[n].order <= last
  BY <1>1, LastPlace
<1> HIDE DEF last
<1>3. PICK row \in Interface!Row : row = rows[m]
  BY <1>1
<1> DEFINE new == [row EXCEPT !.attached = ~row.attached, !.revision = row.revision + 1,
                              !.order = IF row.attached THEN row.order ELSE last + 1]
           changed == [rows EXCEPT ![m] = new]
<1>4. Interface!Edit(c, changed, {m})
  BY <1>3 DEF Interface!SetAttached, last
<1>5. /\ row.revision \in 1..MaxRevision /\ row.revision \in Nat /\ MaxRevision \in Nat
      /\ row.order \in Nat /\ row.attached \in BOOLEAN
  BY ModulesAssumption DEF Interface!Row
<1>6. row.revision + 1 \in 1..MaxRevision
  <2>1. changed[m] = new
    BY <1>1
  <2>2. changed[m].revision <= MaxRevision
    BY <1>4 DEF Interface!Edit
  <2>3. new.revision = row.revision + 1
    BY DEF Interface!Row
  <2> HIDE DEF new, changed
  <2>4. QED
    BY <1>5, <2>1, <2>2, <2>3
<1>7. PICK revision \in 1..MaxRevision : revision = row.revision + 1
  BY <1>6
<1>8. PICK order \in Nat : order = IF row.attached THEN row.order ELSE last + 1
  BY <1>2, <1>5
<1>9. new = [row EXCEPT !.attached = ~row.attached, !.revision = revision, !.order = order]
  BY <1>7, <1>8
<1>10. /\ new \in Interface!Row /\ new.attached = ~row.attached /\ new.revision = revision
       /\ new.order = order
  <2> HIDE DEF new, changed
  <2>1. QED
    BY <1>5, <1>9 DEF Interface!Row
<1> HIDE DEF new
<1>11. changed \in [FoundationModules -> Interface!Row] /\ changed[m] = new
       /\ \A n \in FoundationModules : n # m => changed[n] = rows[n]
  BY <1>1, <1>10
<1> HIDE DEF changed
<1>12. \A n \in FoundationModules : Moved(rows[n], changed[n])
  BY <1>3, <1>7, <1>10, <1>11 DEF Moved
<1>13. PlacesDiffer(changed)
  <2>1. ASSUME NEW n \in FoundationModules, n # m, new.attached, rows[n].attached PROVE rows[n].order # new.order
    <3>1. n \in Interface!Attached(rows) /\ rows[n].order \in Nat
      BY <1>1, <2>1 DEF Interface!Attached, Interface!Row
    <3>2. new.order = last + 1
      BY <1>5, <1>8, <1>10, <2>1
    <3>3. QED
      BY <1>2, <3>1, <3>2
  <2>2. QED
    BY <1>11, <2>1 DEF ModulesInv, PlacesDiffer
<1>14. QED
  BY <1>4, <1>11, <1>12, <1>13, EditFits

LEMMA RenameFits ==
    ASSUME ModulesInv, NEW c \in Clients, NEW m \in FoundationModules, Interface!Rename(c, m)
    PROVE  ModulesInv'
<1>1. rows \in [FoundationModules -> Interface!Row]
  BY DEF ModulesInv, Interface!ModulesTypeOK
<1>2. PICK row \in Interface!Row : row = rows[m]
  BY <1>1
<1>3. PICK name \in Names : Interface!Edit(c, [rows EXCEPT ![m].name = name,
                                                          ![m].revision = @ + 1], {m})
  BY DEF Interface!Rename
<1> DEFINE new == [row EXCEPT !.name = name, !.revision = row.revision + 1]
           changed == [rows EXCEPT ![m] = new]
<1>4. Interface!Edit(c, changed, {m})
  <2>1. changed = [rows EXCEPT ![m].name = name, ![m].revision = @ + 1]
    BY <1>1, <1>2
  <2>2. QED
    BY <1>3, <2>1
<1>5. /\ row.revision \in 1..MaxRevision /\ row.revision \in Nat /\ MaxRevision \in Nat
  BY ModulesAssumption DEF Interface!Row
<1>6. row.revision + 1 \in 1..MaxRevision
  <2>1. changed[m] = new
    BY <1>1
  <2>2. changed[m].revision <= MaxRevision
    BY <1>4 DEF Interface!Edit
  <2>3. new.revision = row.revision + 1
    BY DEF Interface!Row
  <2> HIDE DEF new, changed
  <2>4. QED
    BY <1>5, <2>1, <2>2, <2>3
<1>7. PICK revision \in 1..MaxRevision : revision = row.revision + 1
  BY <1>6
<1>8. new = [row EXCEPT !.name = name, !.revision = revision]
  BY <1>7
<1>9. /\ new \in Interface!Row /\ new.attached = row.attached /\ new.revision = revision
      /\ new.order = row.order
  <2> HIDE DEF new, changed
  <2>1. QED
    BY <1>8 DEF Interface!Row
<1> HIDE DEF new
<1>10. changed \in [FoundationModules -> Interface!Row] /\ changed[m] = new
       /\ \A n \in FoundationModules : n # m => changed[n] = rows[n]
  BY <1>1, <1>9
<1> HIDE DEF changed
<1>11. \A n \in FoundationModules : Moved(rows[n], changed[n])
  BY <1>2, <1>7, <1>9, <1>10 DEF Moved
<1>12. PlacesDiffer(changed)
  BY <1>2, <1>9, <1>10 DEF ModulesInv, PlacesDiffer
<1>13. QED
  BY <1>4, <1>10, <1>11, <1>12, EditFits

LEMMA ReorderFits ==
    ASSUME ModulesInv, NEW c \in Clients, Interface!Reorder(c)
    PROVE  ModulesInv'
<1> DEFINE A == Interface!Attached(rows)
           k == Interface!Cardinality(A)
<1>1. /\ rows \in [FoundationModules -> Interface!Row]
      /\ A = {m \in FoundationModules : rows[m].attached}
  BY DEF ModulesInv, Interface!ModulesTypeOK, Interface!Attached
<1>2. k \in Nat
  <2>1. IsFiniteSet(A)
    BY <1>1, FS_Subset, ModulesAssumption
  <2>2. QED
    BY <2>1, FS_CardinalityType, InterfaceCardinality
<1>3. PICK place \in Interface!Bijection(A, 1..k) :
          Interface!Edit(c, [m \in FoundationModules |-> IF rows[m].attached
                                THEN Interface!Placed(rows[m], place[m]) ELSE rows[m]],
                         FoundationModules)
  BY DEF Interface!Reorder
<1> HIDE DEF A, k
<1>4. place \in [A -> 1..k] /\ \A m, n \in A : place[m] = place[n] => m = n
  BY <1>3 DEF Interface!Bijection, Interface!Injection, Interface!IsInjective
<1> DEFINE changed == [m \in FoundationModules |-> IF rows[m].attached
                          THEN Interface!Placed(rows[m], place[m]) ELSE rows[m]]
<1>5. ASSUME NEW m \in FoundationModules
      PROVE  /\ changed[m] \in Interface!Row /\ changed[m].attached = rows[m].attached
             /\ Moved(rows[m], changed[m])
             /\ m \in A => changed[m].order = place[m]
  <2>1. PICK row \in Interface!Row : row = rows[m]
    BY <1>1
  <2>2. CASE m \notin A \/ row.order = place[m]
    BY <1>1, <2>1, <2>2 DEF Interface!Placed, Moved
  <2>3. CASE m \in A /\ row.order # place[m]
    <3>1. place[m] \in Nat /\ row.attached
      BY <1>1, <1>2, <1>4, <2>1, <2>3
    <3> DEFINE new == [row EXCEPT !.order = place[m], !.revision = row.revision + 1]
    <3>2. changed[m] = new
      BY <2>1, <2>3, <3>1 DEF Interface!Placed
    <3>3. changed[m].revision <= MaxRevision
      BY <1>3 DEF Interface!Edit
    <3> HIDE DEF changed
    <3>4. /\ row.revision \in 1..MaxRevision /\ row.revision \in Nat /\ MaxRevision \in Nat
          /\ new.revision = row.revision + 1
      BY ModulesAssumption DEF Interface!Row
    <3> HIDE DEF new
    <3>5. row.revision + 1 \in 1..MaxRevision
      BY <3>2, <3>3, <3>4
    <3>6. PICK revision \in 1..MaxRevision : revision = row.revision + 1
      BY <3>5
    <3>7. PICK order \in Nat : order = place[m]
      BY <3>1
    <3>8. new = [row EXCEPT !.order = order, !.revision = revision]
      BY <3>6, <3>7 DEF new
    <3>9. new \in Interface!Row /\ new.attached = row.attached /\ new.order = order /\ new.revision = revision
      BY <3>8 DEF Interface!Row
    <3>10. QED
      BY <2>1, <3>2, <3>6, <3>7, <3>9 DEF Moved
  <2>4. QED
    BY <2>2, <2>3
<1>6. Interface!Edit(c, changed, FoundationModules)
  BY <1>3
<1>7. changed \in [FoundationModules -> Interface!Row]
  BY <1>5
<1> HIDE DEF changed
<1>8. PlacesDiffer(changed)
  BY <1>1, <1>4, <1>5 DEF PlacesDiffer
<1>9. \A m \in FoundationModules : Moved(rows[m], changed[m])
  BY <1>5
<1>10. QED
  BY <1>6, <1>7, <1>8, <1>9, EditFits

LEMMA ModulesSteps == ModulesInv /\ [Interface!ModulesNext]_Interface!moduleVars => ModulesInv'
<1> SUFFICES ASSUME ModulesInv, [Interface!ModulesNext]_Interface!moduleVars PROVE ModulesInv'
  OBVIOUS
<1> USE DEF ModulesInv, Interface!ModulesTypeOK, PlacesDiffer, ViewsFit
<1>1. CASE UNCHANGED Interface!moduleVars
  BY <1>1 DEF Interface!moduleVars
<1>2. ASSUME NEW c \in Clients, Interface!LoadModules(c) PROVE ModulesInv'
  <2>1. /\ view' = [view EXCEPT ![c] = rows] /\ UNCHANGED <<rows, due>>
    BY <1>2 DEF Interface!LoadModules
  <2>2. \A m \in FoundationModules : rows[m].revision \in Nat
    BY ModulesAssumption DEF Interface!Row
  <2>3. QED
    BY <2>1, <2>2
<1>3. ASSUME NEW c \in Clients, Interface!Answer(c) PROVE ModulesInv'
  <2>1. /\ view' = [view EXCEPT ![c] = [m \in FoundationModules |->
                                            IF m \in due[c] THEN rows[m] ELSE view[c][m]]]
        /\ due' = [due EXCEPT ![c] = {}] /\ UNCHANGED rows
    BY <1>3 DEF Interface!Answer
  <2>2. \A m \in FoundationModules : rows[m].revision \in Nat
    BY ModulesAssumption DEF Interface!Row
  <2>3. Interface!ModulesTypeOK' /\ PlacesDiffer(rows)'
    BY <2>1
  <2>4. ASSUME NEW d \in Clients, NEW m \in FoundationModules
        PROVE  view'[d][m] \in {view[d][m], rows[m]}
    BY <2>1
  <2>5. ViewsFit'
    BY <2>1, <2>2, <2>4
  <2>6. QED
    BY <2>3, <2>5
<1>4. ASSUME NEW c \in Clients, NEW m \in FoundationModules, Interface!SetAttached(c, m) PROVE ModulesInv'
  BY <1>4, AttachFits
<1>5. ASSUME NEW c \in Clients, NEW m \in FoundationModules, Interface!Rename(c, m) PROVE ModulesInv'
  BY <1>5, RenameFits
<1>6. ASSUME NEW c \in Clients, Interface!Reorder(c) PROVE ModulesInv'
  BY <1>6, ReorderFits
<1>7. QED
  BY <1>1, <1>2, <1>3, <1>4, <1>5, <1>6 DEF Interface!ModulesNext

\* A client whose edit is taken had every row it changes on its screen.
LEMMA EditsAreSeen ==
    ASSUME ModulesInv, Interface!ModulesNext, NEW c \in Clients, due[c] = {}, due'[c] # {},
           NEW m \in FoundationModules, rows'[m] # rows[m]
    PROVE  view[c][m] = rows[m]
<1>1. SUFFICES view[c][m].revision = rows[m].revision
  BY DEF ModulesInv, ViewsFit
<1>2. due \in [Clients -> SUBSET FoundationModules] /\ rows \in [FoundationModules -> Interface!Row]
  BY DEF ModulesInv, Interface!ModulesTypeOK
<1>3. ASSUME NEW d \in Clients, NEW changed, NEW answered, Interface!Edit(d, changed, answered)
      PROVE  d = c /\ rows' = changed
  BY <1>2, <1>3 DEF Interface!Edit
<1>4. ASSUME NEW d \in Clients, Interface!LoadModules(d) \/ Interface!Answer(d) PROVE FALSE
  BY <1>2, <1>4 DEF Interface!LoadModules, Interface!Answer
<1>5. ASSUME NEW d \in Clients, NEW n \in FoundationModules, Interface!SetAttached(d, n)
      PROVE  view[c][m].revision = rows[m].revision
  <2>1. PICK new : Interface!Edit(d, [rows EXCEPT ![n] = new], {n}) /\ Interface!SeenLast(d, n)
    BY <1>2, <1>5 DEF Interface!SetAttached
  <2>2. d = c /\ rows' = [rows EXCEPT ![n] = new]
    BY <1>3, <2>1
  <2>3. m = n
    BY <1>2, <2>2
  <2>4. QED
    BY <2>1, <2>2, <2>3 DEF Interface!SeenLast
<1>6. ASSUME NEW d \in Clients, NEW n \in FoundationModules, Interface!Rename(d, n)
      PROVE  view[c][m].revision = rows[m].revision
  <2>1. PICK name : /\ Interface!Edit(d, [rows EXCEPT ![n].name = name, ![n].revision = @ + 1], {n})
                    /\ Interface!SeenLast(d, n)
    BY <1>6 DEF Interface!Rename
  <2>2. d = c /\ rows' = [rows EXCEPT ![n].name = name, ![n].revision = @ + 1]
    BY <1>3, <2>1
  <2>3. m = n
    BY <1>2, <2>2
  <2>4. QED
    BY <2>1, <2>2, <2>3 DEF Interface!SeenLast
<1>7. ASSUME NEW d \in Clients, Interface!Reorder(d) PROVE view[c][m].revision = rows[m].revision
  <2>1. PICK place : Interface!Edit(d, [n \in FoundationModules |-> IF rows[n].attached
                                THEN Interface!Placed(rows[n], place[n]) ELSE rows[n]], FoundationModules)
    BY <1>7 DEF Interface!Reorder
  <2>2. d = c /\ rows' = [n \in FoundationModules |-> IF rows[n].attached
                                THEN Interface!Placed(rows[n], place[n]) ELSE rows[n]]
    BY <1>3, <2>1
  <2>3. m \in Interface!Attached(rows)
    BY <2>2 DEF Interface!Attached
  <2>4. QED
    BY <1>7, <2>2, <2>3 DEF Interface!Reorder, Interface!SeenLast
<1>8. QED
  BY <1>4, <1>5, <1>6, <1>7 DEF Interface!ModulesNext

(* Whatever modules, clients and names there are: the attached modules have  *)
(* one order, a revision stands for one content, and nobody overwrites a     *)
(* change that was not on the screen.                                        *)
THEOREM ModulesAgreed == Interface!ModulesSpec => ModulesAgree
<1>1. Interface!ModulesSpec => []ModulesInv
  BY ModulesStart, ModulesSteps, PTL DEF Interface!ModulesSpec
<1>2. ModulesInv => Interface!ModulesTypeOK /\ Interface!OrderIsTotal /\ Interface!RevisionTellsContent
  BY DEF ModulesInv, PlacesDiffer, ViewsFit, Interface!OrderIsTotal, Interface!RevisionTellsContent,
         Interface!Attached
<1>3. ModulesInv /\ [Interface!ModulesNext]_Interface!moduleVars => [Interface!EditIsSeen]_Interface!moduleVars
  BY EditsAreSeen DEF Interface!EditIsSeen
<1>4. Interface!ModulesSpec => Interface!NoEditIsLost
  BY <1>1, <1>3, PTL DEF Interface!ModulesSpec, Interface!NoEditIsLost
<1>5. QED
  BY <1>1, <1>2, <1>4, PTL DEF ModulesAgree

=============================================================================
