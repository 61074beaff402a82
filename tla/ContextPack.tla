---------------------------- MODULE ContextPack ----------------------------
(***************************************************************************)
(* The context pack: what an assistant run may show the model.             *)
(*                                                                         *)
(* ContextBroker discovers metadata one kind of source after the other,    *)
(* filters and ranks the descriptors, then loads the bodies one by one     *)
(* into a pack of limited bytes. Every statement is awaited, and other     *)
(* requests change the sources in between. The memory policy of the plan   *)
(* step is frozen with the user's turn; a retry uses the frozen one. The   *)
(* Work itself is looked at before the attachments and when the broker     *)
(* reads its scope, and not again: a Work archived later is still shown.   *)
(* One unit of Bytes is one byte; a rendered body begins with its heading  *)
(* and ends in a newline.                                                  *)
(***************************************************************************)
EXTENDS Naturals, Sequences, FiniteSets

CONSTANTS
    Sources,    \* everything the request could draw on
    Kind,       \* source -> its kind
    Rank,       \* source -> its place in the ranking, all different
    Bytes,      \* source -> length of its rendered section
    Reached,    \* sources among the latest of their kind (100) that are listed
    Selected,   \* artifacts the user attached
    Cap,        \* sources of a capped kind a pack may hold
    ByteLimit,
    MaxChanges  \* bound: changes made by others

VARIABLES
    live,      \* source -> its present state
    archived,  \* sessions.archived of the Work
    library,   \* the Work's data_scope is approved_library
    policy,    \* the memory policy of the plan step
    frozen,    \* the policy stored with the user's turn
    pc,        \* where the run is
    listed,    \* how many kinds of source it has listed
    left,      \* the sources it has yet to check or to load
    seen,      \* source -> its state in the discovered descriptor
    open,      \* data_scope as the broker read it
    admitted,  \* history: the Work was not archived when the broker read it
    sections,  \* the pack so far
    remaining, \* the bytes it has room for
    changed,   \* history: sources changed since the broker read its scope
    changes

packVars == <<live, archived, library, policy, frozen, pc, listed, left, seen, open, admitted,
              sections, remaining, changed, changes>>

Kinds == <<"work", "conversation", "artifact", "memory_hub", "knowledge", "skill">>
CappedKinds == {"artifact", "memory_hub", "knowledge", "skill"}
Policies == {"none", "suggest_only", "active_work_memory"}

\* "edited": the editor writes the file and leaves the hash of its row; of a
\* record, "draft" stands for every status but active. The Work's own plan and
\* its tasks have no status but the Work's.
StatesOf(s) ==
    CASE Kind[s] = "artifact" -> {"pending", "intact", "edited", "missing"}
      [] Kind[s] = "work" -> {"active"}
      [] OTHER -> {"draft", "active"}

States == {"pending", "intact", "edited", "missing", "draft", "active"}
Sections == [source : Sources, bytes : 1..ByteLimit, whole : BOOLEAN]

PackTypeOK ==
    /\ live \in [Sources -> States] /\ seen \in [Sources -> States \cup {"unseen"}]
    /\ \A s \in Sources : live[s] \in StatesOf(s) /\ seen[s] \in StatesOf(s) \cup {"unseen"}
    /\ archived \in BOOLEAN /\ admitted \in BOOLEAN
    /\ library \in BOOLEAN /\ open \in BOOLEAN /\ policy \in Policies /\ frozen \in Policies
    /\ pc \in {"asking", "attaching", "asked", "check", "checking", "discover", "load", "done",
              "refused", "unasked"}
    /\ listed \in 0..6 /\ left \subseteq Sources
    /\ sections \in Seq(Sections) /\ remaining \in 0..ByteLimit
    /\ changed \subseteq Sources /\ changes \in 0..MaxChanges

PackInit ==
    /\ live \in [Sources -> {"pending", "intact", "draft", "active"}]
    /\ \A s \in Sources : live[s] \in StatesOf(s)
    /\ archived = FALSE /\ library \in BOOLEAN /\ policy \in Policies /\ frozen = "none"
    /\ pc = "asking" /\ listed = 0 /\ left = Selected /\ seen = [s \in Sources |-> "unseen"]
    /\ open = FALSE /\ admitted = FALSE /\ sections = <<>> /\ remaining = ByteLimit /\ changed = {} /\ changes = 0

SourcesStay == UNCHANGED <<live, archived, library, policy, changes>>
PackStays == UNCHANGED <<sections, remaining>>

-----------------------------------------------------------------------------
(* What others do meanwhile                                                *)

RunStays == UNCHANGED <<frozen, pc, listed, left, seen, open, admitted, sections, remaining>>

Note(s) ==
    /\ changes < MaxChanges
    /\ changes' = changes + 1 /\ changed' = changed \cup {s}
    /\ UNCHANGED <<archived, library, policy>> /\ RunStays

\* Validated; written by the editor, maybe back to the same bytes; removed.
ChangeArtifact(s) ==
    /\ Kind[s] = "artifact"
    /\ \/ live[s] = "pending" /\ live' = [live EXCEPT ![s] = "intact"]
       \/ live[s] = "intact" /\ live' = [live EXCEPT ![s] = "edited"]
       \/ live[s] = "edited" /\ live' = [live EXCEPT ![s] = "intact"]
       \/ live[s] # "missing" /\ live' = [live EXCEPT ![s] = "missing"]
    /\ Note(s)

\* A conversation, memory record, knowledge record or skill changes status.
ChangeRecord(s) ==
    /\ Kind[s] \notin {"work", "artifact"}
    /\ live' = [live EXCEPT ![s] = CHOOSE t \in StatesOf(s) : t # live[s]]
    /\ Note(s)

\* The Work is archived, or restored.
ChangeWork ==
    /\ changes < MaxChanges /\ changes' = changes + 1
    /\ archived' = ~archived
    /\ UNCHANGED <<live, library, policy, changed>> /\ RunStays

ChangeLibrary ==
    /\ changes < MaxChanges /\ changes' = changes + 1
    /\ library' = ~library
    /\ UNCHANGED <<live, archived, policy, changed>> /\ RunStays

\* update_work_memory_scope: a stored policy never becomes none again.
ChangePolicy ==
    /\ changes < MaxChanges /\ changes' = changes + 1
    /\ \E p \in Policies \ {"none", policy} : policy' = p
    /\ UNCHANGED <<live, archived, library, changed>> /\ RunStays

-----------------------------------------------------------------------------
(* The run                                                                 *)

Attachable(s) == live[s] = "intact"

Reject == left' = {} /\ pc' = IF pc \in {"asking", "attaching"} THEN "unasked" ELSE "refused"

\* _validated_attachments: when the user asks and again when the run starts, the
\* Work, if anything is attached ...
AttachTo ==
    /\ pc \in {"asking", "check"}
    /\ IF archived /\ Selected # {} THEN Reject
       ELSE pc' = (IF pc = "asking" THEN "attaching" ELSE "checking") /\ UNCHANGED left
    /\ UNCHANGED <<frozen, listed, seen, open, admitted, changed>> /\ PackStays /\ SourcesStay

\* ... and then the attached artifacts one by one.
Attach ==
    /\ pc \in {"attaching", "checking"}
    /\ \E s \in left : IF Attachable(s) THEN left' = left \ {s} /\ UNCHANGED pc ELSE Reject
    /\ UNCHANGED <<frozen, listed, seen, open, admitted, changed>> /\ PackStays /\ SourcesStay

ConversationInUse == \A s \in Sources : Kind[s] = "conversation" => live[s] = "active" \* mutant

\* The Work is not archived, and the conversation is one of its active ones.
InUse == ~archived /\ \A s \in Sources : Kind[s] = "conversation" => live[s] = "active"

\* One transaction, that looks at both again.
Ask ==
    /\ pc = "attaching" /\ left = {}
    /\ IF InUse THEN frozen' = policy /\ pc' = "asked" /\ UNCHANGED left
       ELSE Reject /\ UNCHANGED frozen
    /\ UNCHANGED <<listed, seen, open, admitted, changed>> /\ PackStays /\ SourcesStay

\* A claim of the run, and a retry of a failed one: the frozen policy stays.
Start ==
    /\ pc \in {"asked", "done", "refused"}
    /\ pc' = "check" /\ left' = Selected
    /\ sections' = <<>> /\ remaining' = ByteLimit /\ seen' = [s \in Sources |-> "unseen"]
    /\ UNCHANGED <<frozen, listed, open, admitted, changed>> /\ SourcesStay

\* Its two statements, the Work's and the conversation's, are one step.
Scope ==
    /\ pc = "checking" /\ left = {}
    /\ IF InUse THEN pc' = "discover" /\ listed' = 0 /\ open' = library
       ELSE pc' = "refused" /\ UNCHANGED <<listed, open>>
    /\ admitted' = ~archived
    /\ changed' = {}
    /\ UNCHANGED <<frozen, left, seen>> /\ PackStays /\ SourcesStay

LivePolicy == policy \* mutant
Policy == frozen

Listed(s) ==
    /\ Kind[s] \in CappedKinds => s \in Reached \cup Selected
    /\ CASE Kind[s] = "conversation" -> live[s] = "active"
         [] Kind[s] = "memory_hub" -> Policy # "none"
         [] Kind[s] \in {"knowledge", "skill"} -> open
         [] OTHER -> TRUE

\* discover: metadata of one kind, read by one statement.
Discover ==
    /\ pc = "discover" /\ listed < 6
    /\ seen' = [s \in Sources |-> IF Kind[s] = Kinds[listed + 1] /\ Listed(s) THEN live[s] ELSE seen[s]]
    /\ listed' = listed + 1
    /\ UNCHANGED <<frozen, pc, left, open, admitted, changed>> /\ PackStays /\ SourcesStay

\* security_filter: the descriptors, and whether a file is there now.
Allowed(s) ==
    CASE Kind[s] = "artifact" -> seen[s] \notin {"unseen", "pending"} /\ live[s] # "missing"
      [] Kind[s] = "memory_hub" -> seen[s] = "active" /\ Policy = "active_work_memory"
      [] OTHER -> seen[s] = "active"

Ahead(s, set) ==
    {t \in set : Kind[t] = Kind[s] /\ t \notin Selected /\ Rank[t] < Rank[s]}

\* rank: only authorised descriptors count towards the cap of their kind.
Ranked(set) ==
    {s \in set : Kind[s] \in CappedKinds /\ s \notin Selected => Cardinality(Ahead(s, set)) < Cap}

FilterAndRank ==
    /\ pc = "discover" /\ listed = 6
    /\ pc' = "load" /\ left' = Ranked({s \in Sources : Allowed(s)})
    /\ UNCHANGED <<frozen, listed, seen, open, admitted, changed>> /\ PackStays /\ SourcesStay

\* _hydrate: a body is loaded only if its row still allows it, a file only with
\* the bytes the descriptor knew; the Work's plan and its tasks in any case.
Loadable(s) ==
    CASE Kind[s] = "artifact" -> Attachable(s)
      [] Kind[s] = "work" -> TRUE
      [] OTHER -> live[s] = "active"

\* _fit_utf8: a section that does not fit is cut before a character that does
\* not, and the blanks before the cut go too; its first byte is no blank.
Fitted(s) ==
    IF Bytes[s] <= remaining
    THEN {[source |-> s, bytes |-> Bytes[s], whole |-> TRUE]}
    ELSE {[source |-> s, bytes |-> n, whole |-> FALSE] : n \in 1..remaining}

\* build: the first ranked source; what cannot be loaded or has no room is dropped.
First == CHOOSE s \in left : \A t \in left : Rank[s] <= Rank[t]

Load ==
    /\ pc = "load" /\ left # {}
    /\ \/ /\ Loadable(First)
          /\ \E x \in Fitted(First) :
                sections' = Append(sections, x) /\ remaining' = remaining - x.bytes
       \/ (Loadable(First) => Fitted(First) = {}) /\ PackStays
    /\ left' = left \ {First}
    /\ UNCHANGED <<frozen, pc, listed, seen, open, admitted, changed>> /\ SourcesStay

Finish ==
    /\ pc = "load" /\ left = {}
    /\ pc' = "done"
    /\ UNCHANGED <<frozen, listed, left, seen, open, admitted, changed>> /\ PackStays /\ SourcesStay

PackStep == AttachTo \/ Attach \/ Ask \/ Start \/ Scope \/ Discover \/ FilterAndRank \/ Load \/ Finish
PackNext ==
    \/ \E s \in Sources : ChangeArtifact(s) \/ ChangeRecord(s)
    \/ ChangeWork \/ ChangeLibrary \/ ChangePolicy
    \/ PackStep
PackSpec == PackInit /\ [][PackNext]_packVars

-----------------------------------------------------------------------------

\* "\n".join(sections).strip(): the last newline goes, the joints stay.
TextBytes ==
    IF sections = <<>> THEN 0
    ELSE ByteLimit - remaining + Len(sections) - 1
         - (IF sections[Len(sections)].whole THEN 1 ELSE 0)

Shown == {sections[i].source : i \in DOMAIN sections}

\* Fit to be shown, whatever a descriptor said. What the Work says of itself, that
\* it is not archived and its data_scope, is as the broker read it.
Fit(s) ==
    CASE Kind[s] = "artifact" -> Attachable(s)
      [] Kind[s] = "work" -> admitted
      [] Kind[s] = "memory_hub" -> live[s] = "active" /\ frozen = "active_work_memory"
      [] Kind[s] \in {"knowledge", "skill"} -> live[s] = "active" /\ open
      [] OTHER -> live[s] = "active"

SeenFit(s) == seen[s] \notin {"unseen", "draft", "pending"}
KindIsFull(s) ==
    /\ s \notin Selected /\ Kind[s] \in CappedKinds
    /\ s \in Reached => Cardinality({t \in Ahead(s, Sources) : SeenFit(t)}) >= Cap

\* A finished pack shows every source once and in rank order, and leaves out
\* a source that was fit all along only when there is no byte left, or when its
\* kind is full: of sources that were seen fit and rank before it, or of later
\* ones that the listing stops at, fit or not.
NothingFitIsLost ==
    pc = "done" =>
        /\ \A i, j \in DOMAIN sections :
               i < j => Rank[sections[i].source] < Rank[sections[j].source]
        /\ \A s \in Sources \ (changed \cup Shown) :
               Fit(s) => \/ remaining = 0
                         \/ KindIsFull(s)

\* A body enters the pack only for a run that found the Work open, and only
\* while it is fit: what was rejected, switched off or altered after the
\* catalogue was read stays out. (Not so the Work: archived in between, its
\* plan, its tasks and what is in it are shown.)
OnlyFit == \A s \in Sources : s \in Shown' /\ s \notin Shown => admitted /\ Fit(s)
OnlyFitIsRead == [][OnlyFit]_packVars

\* "assert 0 < body["byte_count"] <= body["byte_limit"]" of the tests.
PackFitsItsLimit == pc = "done" => TextBytes <= ByteLimit

=============================================================================
