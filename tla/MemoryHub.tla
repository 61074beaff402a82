------------------------------ MODULE MemoryHub ------------------------------
(***************************************************************************)
(* The governed records of the Personal Memory Hub: proposals, their       *)
(* review, and what is read from them.                                     *)
(*                                                                         *)
(* A review reads the record, decides, and writes in a transaction that    *)
(* names the record by its id only, so that reviews of two callers         *)
(* interleave. An activation also reads the record now in force, one       *)
(* statement earlier than it replaces it. One memory key is enough: two    *)
(* records have the same identity when kind and scope agree.               *)
(***************************************************************************)
EXTENDS Naturals, FiniteSets, SequencesExt

CONSTANTS
    RecordIds,  \* records, none of them proposed at first
    Reviews,    \* reviewers' requests, reused
    Legacy,     \* old memory entries, each with one content
    NoRecord,   \* no record, not one of RecordIds
    Asked,      \* the proposals callers send: actor, kind, scope and sensitivity
    Size,       \* the bytes a context pack of some records takes
    PackBytes,  \* the bytes a pack may take (8192 in the code)
    MaxVersion  \* bound: versions an identity reaches

VARIABLES
    hub,      \* memory_hub_records
    imports,  \* memory_hub_imports: the record made of a legacy entry
    review    \* requests of api/memory_hub.py under way

hubVars == <<hub, imports, review>>

Kinds == {"preference", "lesson"}
Absent == [life |-> "absent", kind |-> "lesson", scope |-> "task", sens |-> "normal",
           version |-> 1, supersedes |-> NoRecord, verifier |-> "none", activator |-> "none"]
Record == [life : {"absent", "proposed", "verified", "active", "superseded", "rejected"},
           kind : Kinds, scope : {"global", "task"}, sens : {"normal", "restricted"},
           version : 1..MaxVersion, supersedes : RecordIds \cup {NoRecord},
           verifier : {"none", "user", "codex"}, activator : {"none", "user", "codex"}]
Idle == [pc |-> "idle", op |-> "none", actor |-> "user", record |-> NoRecord,
         previous |-> NoRecord, version |-> 1]
Review == [pc : {"idle", "read", "decided"}, op : {"none", "verify", "activate", "reject"},
           actor : {"user", "codex"}, record : RecordIds \cup {NoRecord},
           previous : RecordIds \cup {NoRecord}, version : 1..MaxVersion]

HubTypeOK ==
    /\ hub \in [RecordIds -> Record]
    /\ imports \in [Legacy -> RecordIds \cup {NoRecord}]
    /\ review \in [Reviews -> Review]

HubInit ==
    /\ hub = [r \in RecordIds |-> Absent]
    /\ imports = [l \in Legacy |-> NoRecord]
    /\ review = [q \in Reviews |-> Idle]

Proposed(kind, scope, sens) ==
    [Absent EXCEPT !.life = "proposed", !.kind = kind, !.scope = scope, !.sens = sens]
SameIdentity(r, s) == hub[r].kind = hub[s].kind /\ hub[r].scope = hub[s].scope
ActiveLike(r) == {s \in RecordIds : hub[s].life = "active" /\ SameIdentity(r, s)}

-----------------------------------------------------------------------------

\* Agents propose in a task's scope; only the user has global preferences.
MayPropose(actor, kind, scope) ==
    scope = "global" => actor = "user" /\ kind = "preference"

Propose(r) ==
    /\ hub[r].life = "absent"
    /\ \E p \in Asked : /\ MayPropose(p.actor, p.kind, p.scope)
                       /\ hub' = [hub EXCEPT ![r] = Proposed(p.kind, p.scope, p.sens)]
    /\ UNCHANGED <<imports, review>>

\* One BEGIN IMMEDIATE for all entries asked for; those imported before are
\* answered with their record.
ImportLegacy(entries) ==
    LET new == {l \in entries : imports[l] = NoRecord}
    IN  /\ new # {}
        /\ \E f \in [new -> {r \in RecordIds : hub[r].life = "absent"}] :
               /\ \A l, m \in new : l # m => f[l] # f[m]
               /\ hub' = [r \in RecordIds |->
                             IF \E l \in new : f[l] = r
                             THEN Proposed("lesson", "task", "normal") ELSE hub[r]]
               /\ imports' = [l \in Legacy |-> IF l \in new THEN f[l] ELSE imports[l]]
        /\ UNCHANGED review

MayApprove(actor, rec) ==
    \/ actor = "user" /\ rec.kind = "preference"
    \/ actor = "codex" /\ rec.kind # "preference" /\ rec.sens # "restricted"
MayReject(actor, rec) == actor = "codex" \/ rec.kind = "preference"

Allowed(op, actor, rec) ==
    CASE op = "verify"   -> rec.life = "proposed" /\ MayApprove(actor, rec)
      [] op = "activate" -> rec.life = "verified" /\ MayApprove(actor, rec)
      [] op = "reject"   -> rec.life \in {"proposed", "verified"} /\ MayReject(actor, rec)

\* The record is read and the reviewer's role and the lifecycle are judged.
ReadRecord(q) ==
    /\ review[q].pc = "idle"
    /\ \E op \in {"verify", "activate", "reject"}, actor \in {"user", "codex"}, r \in RecordIds :
           /\ Allowed(op, actor, hub[r])
           /\ review' = [review EXCEPT ![q] = [Idle EXCEPT
                            !.pc = IF op = "activate" THEN "read" ELSE "decided",
                            !.op = op, !.actor = actor, !.record = r]]
    /\ UNCHANGED <<hub, imports>>

\* The record in force, if any, and the version that will replace it.
ReadPrevious(q) ==
    LET inForce == ActiveLike(review[q].record)
    IN  /\ review[q].pc = "read"
        /\ \/ /\ inForce = {}
              /\ review' = [review EXCEPT ![q].pc = "decided"]
           \/ \E s \in inForce :
                  /\ hub[s].version < MaxVersion
                  /\ review' = [review EXCEPT ![q] = [@ EXCEPT !.pc = "decided",
                                    !.previous = s, !.version = hub[s].version + 1]]
        /\ UNCHANGED <<hub, imports>>

WriteDecision(q) ==
    LET v == review[q]
    IN  /\ v.pc = "decided" /\ v.op \in {"verify", "reject"}
        /\ hub' = [hub EXCEPT ![v.record] =
                      IF v.op = "verify" THEN [@ EXCEPT !.life = "verified", !.verifier = v.actor]
                                         ELSE [@ EXCEPT !.life = "rejected"]]
        /\ review' = [review EXCEPT ![q] = Idle]
        /\ UNCHANGED imports

\* idx_memory_hub_active_scope_identity refuses a second record in force.
NoConflict(q) == FALSE \* mutant
Conflict(q) ==
    ActiveLike(review[q].record) \ {review[q].record, review[q].previous} # {}

Superseded(q) == [r \in RecordIds |->
    IF r = review[q].previous THEN [hub[r] EXCEPT !.life = "superseded"] ELSE hub[r]]

\* Replaced record, new record and audit entry are one transaction; the
\* unique index rolls all of it back.
Activate(q) ==
    LET v == review[q]
    IN  /\ v.pc = "decided" /\ v.op = "activate"
        /\ \/ /\ Conflict(q)
              /\ UNCHANGED hub
           \/ /\ ~Conflict(q)
              /\ hub' = [Superseded(q) EXCEPT ![v.record] = [@ EXCEPT !.life = "active",
                             !.version = v.version, !.supersedes = v.previous,
                             !.activator = v.actor]]
        /\ review' = [review EXCEPT ![q] = Idle]
        /\ UNCHANGED imports

HubNext ==
    \/ \E r \in RecordIds : Propose(r)
    \/ \E entries \in SUBSET Legacy : ImportLegacy(entries)
    \/ \E q \in Reviews : ReadRecord(q) \/ ReadPrevious(q) \/ WriteDecision(q) \/ Activate(q)

HubSpec == HubInit /\ [][HubNext]_hubVars

-----------------------------------------------------------------------------

\* What a search, a read by id and a context pack give a caller. An agent asks
\* for a task; the user and codex for a project, here with its one task.
Search(actor, life) ==
    {r \in RecordIds : /\ hub[r].life = life /\ hub[r].scope = "task"
                       /\ (actor = "agent" => life = "active" /\ hub[r].sens # "restricted")}
Readable(actor, r) ==
    /\ hub[r].life # "absent"
    /\ (actor = "agent" => hub[r].scope = "task" /\ hub[r].sens # "restricted")

\* Rows in the order of their last change; one that does not fit is passed over.
Pack(actor, order) ==
    LET got[i \in 0..Len(order)] ==
            IF i = 0 THEN {}
            ELSE IF \/ hub[order[i]].sens = "restricted" /\ actor # "user"
                    \/ Size[got[i - 1] \cup {order[i]}] > PackBytes
                 THEN got[i - 1] ELSE got[i - 1] \cup {order[i]}
    IN  got[Len(order)]

-----------------------------------------------------------------------------

(* At most one record of an identity is in force.                            *)
OneInForce == \A r \in RecordIds : Cardinality(ActiveLike(r)) <= 1

(* A record in force, or one that was, has been verified and activated by    *)
(* the role its kind asks for, and a restricted lesson never is, whatever    *)
(* reviews overlapped.                                                       *)
OnlyReviewedIsUsed ==
    \A r \in RecordIds : hub[r].life \in {"active", "superseded"} =>
        /\ hub[r].verifier = (IF hub[r].kind = "preference" THEN "user" ELSE "codex")
        /\ hub[r].activator = hub[r].verifier
        /\ hub[r].kind = "lesson" => hub[r].sens = "normal"

(* Whatever order its rows come in, a context pack keeps to its bytes, holds *)
(* only what its caller may read one by one, and leaves out an allowed       *)
(* record only when it would no longer fit.                                  *)
PacksAreFit ==
    \A actor \in {"agent", "codex", "user"} :
        LET rows == Search(actor, "active")
        IN  \A order \in SetToSeqs(rows) :
                LET pack == Pack(actor, order)
                IN  /\ Size[pack] <= PackBytes
                    /\ \A r \in pack : Readable(actor, r)
                    /\ \A r \in rows \ pack :
                           \/ hub[r].sens = "restricted" /\ actor # "user"
                           \/ Size[pack \cup {r}] > PackBytes

HubIsGoverned == OneInForce /\ OnlyReviewedIsUsed /\ PacksAreFit

(* Replacing is atomic: an identity with a record in force loses it only to  *)
(* a verification or rejection decided before that record was activated,     *)
(* never to an activation that fails halfway.                                *)
LostToEarlierReview ==
    \A r \in RecordIds :
        (hub[r].life = "active" /\ ActiveLike(r)' = {})
        => \E q \in Reviews : /\ review[q].pc = "decided" /\ review[q].record = r
                              /\ review[q].op # "activate" /\ review'[q] = Idle
ReplacedNotLost == [][LostToEarlierReview]_hubVars
=============================================================================
