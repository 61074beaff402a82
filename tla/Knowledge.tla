------------------------------ MODULE Knowledge ------------------------------
(***************************************************************************)
(* DIRAP knowledge: texts extracted from a source file, records made of    *)
(* them, and the review that lets a record be used.                        *)
(*                                                                         *)
(* One work item with one source file attached, which any program may      *)
(* change. A request reads the file's hash, marks the fresh extractions    *)
(* of other texts stale, each in a transaction of its own, and only then   *)
(* lists, extracts or stores a record; other requests run in between. A    *)
(* review decision holds SQLite's write lock from its check to its commit. *)
(* Hashes stand for texts; idempotency keys are OperationClaims' matter.   *)
(***************************************************************************)
EXTENDS Naturals, Sequences

CONSTANTS
    Texts,          \* contents the source file may have
    Readers,        \* requests about the source file, reused
    Does,           \* what each of them may be for
    Reviewers,      \* review requests, reused
    KnowledgeIds,   \* knowledge records
    Authorities,    \* authority an approval may name
    MaxExtractions  \* bound: extractions stored

VARIABLES
    item,         \* the work item: "none", "created", or "attached" to the file
    disk,         \* the source file's text, "gone" when it cannot be read
    extractions,  \* rows of dirap_extractions, in the order of insertion
    reader,       \* requests about the source file under way
    knowledge,    \* rows of dirap_knowledge_records
    evidence,     \* kinds of rows of dirap_knowledge_evidence, per record
    review,       \* review requests under way
    writeLock     \* the review request that holds the write lock, or "free"

sourceVars == <<item, disk, extractions, reader>>
reviewVars == <<evidence, review, writeLock>>
knowledgeVars == <<item, disk, extractions, reader, knowledge, evidence, review, writeLock>>

EvidenceKinds == {"reviewer", "source_evidence", "authority_evidence",
                  "calculation_evidence", "decision_reason"}
QueryTypes == {"official_search", "exploratory_search", "analysis_input",
               "legal_review", "context_packaging", "memory_query"}

ExtractionRow == [hash : Texts, status : {"fresh", "stale"}]
\* "read" is history: the text the file had for the request that stored the row.
KnowledgeRow ==
    [status : {"none", "draft", "review_pending", "active", "rejected"},
     hash : Texts \cup {"gone"}, read : Texts \cup {"gone"},
     source : {"unverified", "verified"}, calculation : {"unverified", "verified"},
     owner : {"pending", "accepted", "rejected"}, authority : Authorities \cup {"none"}]
NoReader == [pc |-> "idle", op |-> "none", read |-> "gone", target |-> 0, left |-> {}]
NoKnowledge == [status |-> "none", hash |-> "gone", read |-> "gone", source |-> "unverified",
                calculation |-> "unverified", owner |-> "pending", authority |-> "none"]

KnowledgeTypeOK ==
    /\ item \in {"none", "created", "attached"}
    /\ disk \in Texts \cup {"gone"}
    /\ extractions \in Seq(ExtractionRow)
    /\ Len(extractions) <= MaxExtractions
    /\ reader \in [Readers -> [pc : {"idle", "read", "mark", "insert", "store"},
                               op : {"none", "extract", "list", "show", "create"},
                               read : Texts \cup {"gone"}, target : 0..MaxExtractions,
                               left : SUBSET (1..MaxExtractions)]]
    /\ knowledge \in [KnowledgeIds -> KnowledgeRow]
    /\ evidence \in [KnowledgeIds -> SUBSET EvidenceKinds]
    /\ review \in [Reviewers -> KnowledgeIds \cup {"idle"}]
    /\ writeLock \in Reviewers \cup {"free"}

KnowledgeInit ==
    /\ item = "none"
    /\ disk \in Texts
    /\ extractions = <<>>
    /\ reader = [r \in Readers |-> NoReader]
    /\ knowledge = [k \in KnowledgeIds |-> NoKnowledge]
    /\ evidence = [k \in KnowledgeIds |-> {}]
    /\ review = [v \in Reviewers |-> "idle"]
    /\ writeLock = "free"

-----------------------------------------------------------------------------
(* The source file and its extractions.                                    *)

ChangeSource ==
    /\ disk' \in (Texts \cup {"gone"}) \ {disk}
    /\ UNCHANGED <<item, extractions, reader, knowledge, reviewVars>>

CreateWorkItem ==
    /\ item = "none" /\ item' = "created"
    /\ UNCHANGED <<disk, extractions, reader, knowledge, reviewVars>>

\* The path must name a file inside the session's folder at that moment.
AttachSource ==
    /\ item = "created" /\ disk # "gone"
    /\ item' = "attached"
    /\ UNCHANGED <<disk, extractions, reader, knowledge, reviewVars>>

\* A file that is not there ends the request; an extraction is named by the
\* number an earlier answer gave it.
ReadSource(r, op, target) ==
    /\ reader[r].pc = "idle" /\ item = "attached" /\ disk # "gone"
    /\ IF op \in {"show", "create"} THEN target \in 1..Len(extractions) ELSE target = 0
    /\ reader' = [reader EXCEPT ![r] = [pc |-> "read", op |-> op, read |-> disk,
                                        target |-> target, left |-> {}]]
    /\ UNCHANGED <<item, disk, extractions, knowledge, reviewVars>>

NothingStale(text) == {} \* mutant
Outdated(text) == {i \in 1..Len(extractions) :
                      extractions[i].status = "fresh" /\ extractions[i].hash # text}

SelectStale(r) ==
    /\ reader[r].pc = "read"
    /\ reader' = [reader EXCEPT ![r].pc = "mark", ![r].left = Outdated(reader[r].read)]
    /\ UNCHANGED <<item, disk, extractions, knowledge, reviewVars>>

\* Each marking is committed with its own audit entry.
MarkStale(r) ==
    \E i \in reader[r].left :
        /\ writeLock = "free"
        /\ extractions' = [extractions EXCEPT ![i].status = "stale"]
        /\ reader' = [reader EXCEPT ![r].left = @ \ {i}]
        /\ UNCHANGED <<item, disk, knowledge, reviewVars>>

Refreshed(r, op) == reader[r].pc = "mark" /\ reader[r].left = {} /\ reader[r].op = op

FreshTexts == {extractions[i].hash : i \in {j \in 1..Len(extractions) :
                                               extractions[j].status = "fresh"}}

ListExtractions(r) ==
    /\ Refreshed(r, "list")
    /\ reader' = [reader EXCEPT ![r] = NoReader]
    /\ UNCHANGED <<item, disk, extractions, knowledge, reviewVars>>

ShowExtraction(r) ==
    /\ Refreshed(r, "show")
    /\ reader' = [reader EXCEPT ![r] = NoReader]
    /\ UNCHANGED <<item, disk, extractions, knowledge, reviewVars>>

\* A fresh extraction of the same text answers the request.
FindExtraction(r) ==
    /\ Refreshed(r, "extract")
    /\ reader' = [reader EXCEPT ![r] = IF reader[r].read \in FreshTexts THEN NoReader
                                       ELSE [@ EXCEPT !.pc = "insert"]]
    /\ UNCHANGED <<item, disk, extractions, knowledge, reviewVars>>

\* A text that cannot be taken apart ends the request with nothing stored.
InsertExtraction(r) ==
    /\ reader[r].pc = "insert"
    /\ reader' = [reader EXCEPT ![r] = NoReader]
    /\ \/ /\ writeLock = "free" /\ Len(extractions) < MaxExtractions
          /\ extractions' = Append(extractions, [hash |-> reader[r].read, status |-> "fresh"])
       \/ UNCHANGED extractions
    /\ UNCHANGED <<item, disk, knowledge, reviewVars>>

\* Only a fresh extraction becomes a record.
CheckFresh(r) ==
    /\ Refreshed(r, "create")
    /\ reader' = [reader EXCEPT ![r] =
           IF extractions[reader[r].target].status = "fresh"
           THEN [@ EXCEPT !.pc = "store"] ELSE NoReader]
    /\ UNCHANGED <<item, disk, extractions, knowledge, reviewVars>>

CreateKnowledge(r, k) ==
    /\ reader[r].pc = "store" /\ writeLock = "free" /\ knowledge[k].status = "none"
    /\ knowledge' = [knowledge EXCEPT ![k] =
           [NoKnowledge EXCEPT !.status = "draft", !.read = reader[r].read,
                               !.hash = extractions[reader[r].target].hash]]
    /\ reader' = [reader EXCEPT ![r] = NoReader]
    /\ UNCHANGED <<item, disk, extractions, reviewVars>>

-----------------------------------------------------------------------------
(* The review.                                                             *)

\* BEGIN IMMEDIATE waits for the write lock.
BeginReview(v, k) ==
    /\ review[v] = "idle" /\ knowledge[k].status # "none" /\ writeLock = "free"
    /\ writeLock' = v
    /\ review' = [review EXCEPT ![v] = k]
    /\ UNCHANGED <<sourceVars, knowledge, evidence>>

\* The loser of a decision finds another status and rolls back.
RefuseReview(v) ==
    /\ review[v] # "idle" /\ writeLock = v
    /\ writeLock' = "free"
    /\ review' = [review EXCEPT ![v] = "idle"]
    /\ UNCHANGED <<sourceVars, knowledge, evidence>>

EndReview(v, k, row, more) ==
    /\ review[v] = k /\ writeLock = v
    /\ knowledge' = [knowledge EXCEPT ![k] = row]
    /\ evidence' = [evidence EXCEPT ![k] = @ \cup more]
    /\ writeLock' = "free"
    /\ review' = [review EXCEPT ![v] = "idle"]
    /\ UNCHANGED sourceVars

SubmitKnowledge(v, k) ==
    /\ knowledge[k].status = "draft"
    /\ EndReview(v, k, [knowledge[k] EXCEPT !.status = "review_pending"], {})

CalculationState(given) == IF given THEN "verified" ELSE "unverified"

ApproveKnowledge(v, k, authority, calculated) ==
    /\ knowledge[k].status = "review_pending"
    /\ EndReview(v, k,
           [knowledge[k] EXCEPT !.status = "active", !.source = "verified", !.owner = "accepted",
                                !.calculation = CalculationState(calculated),
                                !.authority = authority],
           {"reviewer", "source_evidence", "authority_evidence"}
             \cup (IF calculated THEN {"calculation_evidence"} ELSE {}))

RejectKnowledge(v, k) ==
    /\ knowledge[k].status = "review_pending"
    /\ EndReview(v, k, [knowledge[k] EXCEPT !.status = "rejected", !.owner = "rejected"],
                 {"reviewer", "decision_reason"})

-----------------------------------------------------------------------------
(* What a record may be used for, and what a search returns.               *)

Missing(row, checks) == {d \in DOMAIN checks : row[d] # checks[d]}
Grade(usable, partial) == IF usable THEN "usable" ELSE IF partial THEN "partial" ELSE "unusable"

OfficialSearch(row) ==
    Grade(Missing(row, [source |-> "verified", calculation |-> "verified",
                        owner |-> "accepted", authority |-> "regulatory"]) = {},
          row.source = "verified" /\ row.authority = "regulatory")
ExploratorySearch(row) == Grade(FALSE, row.source = "verified")
AnalysisInput(row) ==
    Grade(/\ Missing(row, [source |-> "verified", calculation |-> "verified"]) = {}
          /\ row.authority \in Authorities,
          row.source = "verified")
LegalReview(row) ==
    Grade(Missing(row, [source |-> "verified", calculation |-> "verified",
                        owner |-> "accepted", authority |-> "regulatory"]) = {}, FALSE)
ContextPackaging(row) ==
    Grade(Missing(row, [source |-> "verified", owner |-> "accepted"]) = {}, FALSE)
MemoryQuery(row) == Grade(Missing(row, [owner |-> "accepted"]) = {}, FALSE)

EvaluateUsability(row, query) ==
    CASE query = "official_search" -> OfficialSearch(row)
      [] query = "exploratory_search" -> ExploratorySearch(row)
      [] query = "analysis_input" -> AnalysisInput(row)
      [] query = "legal_review" -> LegalReview(row)
      [] query = "context_packaging" -> ContextPackaging(row)
      [] query = "memory_query" -> MemoryQuery(row)

UsableFor(row) == {q \in QueryTypes : EvaluateUsability(row, q) = "usable"}

PolicyAllows(query, grade) ==
    grade = "usable" \/ (query = "exploratory_search" /\ grade = "partial")

SearchRecords(query) ==
    {k \in KnowledgeIds : /\ knowledge[k].status = "active"
                          /\ PolicyAllows(query, EvaluateUsability(knowledge[k], query))}

KnowledgeNext ==
    \/ CreateWorkItem \/ AttachSource \/ ChangeSource
    \/ \E r \in Readers :
         \/ \E op \in Does[r], i \in 0..Len(extractions) :
               ReadSource(r, op, i)
         \/ SelectStale(r) \/ MarkStale(r) \/ ListExtractions(r) \/ ShowExtraction(r) \/ FindExtraction(r)
         \/ InsertExtraction(r) \/ CheckFresh(r)
         \/ \E k \in KnowledgeIds : CreateKnowledge(r, k)
    \/ \E v \in Reviewers, k \in KnowledgeIds :
         \/ BeginReview(v, k) \/ SubmitKnowledge(v, k) \/ RejectKnowledge(v, k)
         \/ \E a \in Authorities, c \in BOOLEAN : ApproveKnowledge(v, k, a, c)
    \/ \E v \in Reviewers : RefuseReview(v)

KnowledgeSpec == KnowledgeInit /\ [][KnowledgeNext]_knowledgeVars

-----------------------------------------------------------------------------

\* What a reader of the evidence alone would ask for, per use.
Wanted(query) ==
    CASE query \in {"official_search", "legal_review"} ->
            EvidenceKinds \ {"decision_reason"}
      [] query = "exploratory_search" -> {"source_evidence"}
      [] query = "analysis_input" ->
            {"source_evidence", "calculation_evidence", "authority_evidence"}
      [] query = "context_packaging" -> {"source_evidence", "reviewer"}
      [] query = "memory_query" -> {"reviewer"}

(* However requests, changes of the file and reviews interleave: a record    *)
(* holds the text its request found in the file; a search returns, and the   *)
(* usability answer grants, exactly what the evidence filed with it supports  *)
(* - every kind the use asks for, a regulatory authority where one is        *)
(* required - and never a record somebody rejected (dirap.py, usability      *)
(* policy v1).                                                               *)
KnowledgeIsGrounded ==
    \A k \in KnowledgeIds, q \in QueryTypes :
        LET supported == /\ Wanted(q) \subseteq evidence[k]
                         /\ "decision_reason" \notin evidence[k]
                         /\ q \in {"official_search", "legal_review"} =>
                                knowledge[k].authority = "regulatory"
        IN  /\ knowledge[k].hash = knowledge[k].read
            /\ k \in SearchRecords(q) <=> supported
            /\ q \in UsableFor(knowledge[k]) =>
                  supported /\ knowledge[k].status = "active"

(* "Refreshes freshness first [...] so old results are never shown as fresh"  *)
(* (dirap.py, list_extractions): a list calls fresh only extractions of the   *)
(* text it read.                                                             *)
OldIsNeverShownFresh ==
    [][\A r \in Readers :
         /\ ListExtractions(r) => FreshTexts \subseteq {reader[r].read}
         /\ ShowExtraction(r) /\ extractions[reader[r].target].status = "fresh" =>
                extractions[reader[r].target].hash = reader[r].read]_knowledgeVars
=============================================================================
