------------------------------- MODULE Skills -------------------------------
(***************************************************************************)
(* Skills: instructions with a review before they may be enabled.          *)
(*                                                                         *)
(* A request reads the skill, decides on what it read, and writes every    *)
(* column in one transaction that names the skill by its id only: edits    *)
(* and review decisions of two requests interleave and may overwrite each  *)
(* other. Name, description and content are one text here. That names are  *)
(* unique, and the snapshots only their listing reads, are left out.       *)
(***************************************************************************)
EXTENDS Naturals

CONSTANTS
    SkillIds,   \* skills
    Edits,      \* requests, reused
    Texts,      \* names, descriptions and contents
    MaxVersion  \* bound: versions a request starts from

VARIABLES
    skills,   \* the rows of skills
    vetted,   \* history: texts a reviewer's approval was written for
    edit      \* requests of api/skills.py under way

skillVars == <<skills, vetted, edit>>

Gone == [status |-> "gone", text |-> "-", enabled |-> FALSE, version |-> 0]
Row == [status : {"gone", "draft", "review_pending", "approved"}, text : Texts \cup {"-"},
        enabled : BOOLEAN, version : 0..MaxVersion]
NoEdit == [pc |-> "idle", op |-> "none", new |-> Gone]

SkillsTypeOK ==
    /\ skills \in [SkillIds -> Row]
    /\ vetted \in [SkillIds -> SUBSET Texts]
    /\ edit \in [SkillIds -> [Edits -> [pc : {"idle", "read"}, new : Row,
                                       op : {"none", "update", "status", "delete"}]]]

SkillsInit ==
    /\ skills = [s \in SkillIds |-> Gone]
    /\ vetted = [s \in SkillIds |-> {}]
    /\ edit = [s \in SkillIds |-> [e \in Edits |-> NoEdit]]

Present(s) == skills[s].status # "gone"

-----------------------------------------------------------------------------

\* What is stored for the learning worker and for the user alike.
Draft(s, text) ==
    /\ skills' = [skills EXCEPT ![s] = [status |-> "draft", text |-> text,
                                        enabled |-> FALSE, version |-> 1]]
    /\ vetted' = [vetted EXCEPT ![s] = {}]

CreateSkill(s) ==
    /\ ~Present(s) /\ \A e \in Edits : edit[s][e] = NoEdit
    /\ \E text \in Texts : Draft(s, text)
    /\ UNCHANGED edit

KeepApproval(old, new, changed) == [new EXCEPT !.version = old.version + 1] \* mutant
\* An edit of the text takes an approved skill back to draft and off.
Edited(old, new, changed) ==
    LET back == changed /\ old.status = "approved"
    IN  [new EXCEPT !.version = old.version + 1,
                    !.status = IF back THEN "draft" ELSE @,
                    !.enabled = @ /\ ~back]

Submit(s, e, op, new) ==
    /\ edit[s][e].pc = "idle" /\ Present(s)
    /\ edit' = [edit EXCEPT ![s][e] = [pc |-> "read", op |-> op, new |-> new]]
    /\ UNCHANGED <<skills, vetted>>

\* A field may be sent with the value it has: that counts as an edit too.
ReadForUpdate(s, e) ==
    \E text \in Texts, enabled, changed \in BOOLEAN :
        /\ skills[s].version < MaxVersion
        /\ text # skills[s].text => changed
        /\ enabled => skills[s].status = "approved"
        /\ Submit(s, e, "update",
                  Edited(skills[s], [skills[s] EXCEPT !.text = text, !.enabled = enabled], changed))

Reachable(status) == CASE status = "draft" -> {"review_pending"}
                       [] status = "review_pending" -> {"draft", "approved"}
                       [] status = "approved" -> {"draft"}
                       [] OTHER -> {}

ReadForStatus(s, e) ==
    \E status \in Reachable(skills[s].status) :
        /\ skills[s].version < MaxVersion
        /\ Submit(s, e, "status", [skills[s] EXCEPT !.status = status, !.version = @ + 1])

ReadForDelete(s, e) == Submit(s, e, "delete", Gone)

\* Nothing is written of a skill that was deleted meanwhile.
Write(s, e, row) ==
    /\ edit[s][e].pc = "read"
    /\ edit' = [edit EXCEPT ![s][e] = NoEdit]
    /\ \/ Present(s) /\ skills' = [skills EXCEPT ![s] = row]
       \/ ~Present(s) /\ UNCHANGED skills

\* Every column is written from what the request read and was sent.
WriteUpdate(s, e) ==
    /\ edit[s][e].op = "update"
    /\ Write(s, e, edit[s][e].new)
    /\ UNCHANGED vetted

\* A decision writes status and version, and switches off what is not approved.
WriteStatus(s, e) ==
    LET new == edit[s][e].new
    IN  /\ edit[s][e].op = "status"
        /\ Write(s, e, [skills[s] EXCEPT !.status = new.status, !.version = new.version,
                                         !.enabled = @ /\ new.status = "approved"])
        /\ vetted' = IF Present(s) /\ new.status = "approved"
                     THEN [vetted EXCEPT ![s] = @ \cup {skills[s].text}] ELSE vetted

DeleteSkill(s, e) ==
    /\ edit[s][e].pc = "read" /\ edit[s][e].op = "delete"
    /\ skills' = [skills EXCEPT ![s] = Gone]
    /\ edit' = [edit EXCEPT ![s][e] = NoEdit]
    /\ UNCHANGED vetted

SkillsNext ==
    \E s \in SkillIds :
        \/ CreateSkill(s)
        \/ \E e \in Edits : \/ ReadForUpdate(s, e) \/ ReadForStatus(s, e) \/ ReadForDelete(s, e)
                           \/ WriteUpdate(s, e) \/ WriteStatus(s, e) \/ DeleteSkill(s, e)

SkillsSpec == SkillsInit /\ [][SkillsNext]_skillVars

-----------------------------------------------------------------------------

(* Only an approved skill is enabled, and an approved text is one some       *)
(* approval was written for, whatever edits and decisions overwrote each     *)
(* other.                                                                    *)
EnabledIsVetted ==
    \A s \in SkillIds :
        /\ skills[s].enabled => skills[s].status = "approved"
        /\ skills[s].status = "approved" => skills[s].text \in vetted[s]
=============================================================================
