---------------------------- MODULE MCApprovals ----------------------------
(* What waits for a person's decision, for the model checker: a webhook call *)
(* of the agent, which may be allowed only once, and a memory the curator    *)
(* proposes; and a skill. They share no rows, so each behaviour is one       *)
(* part's, chosen at the start, and the other keeps still.                   *)
EXTENDS Approvals

CONSTANTS n8n, memo, s1, s2, s3, k1, e1, e2, text1, text2

CONSTANTS SkillIds, Edits, Texts, MaxVersion  \* Skills

ASSUME SkillsAssumption == MaxVersion \in Nat \ {0}

VARIABLES
    part,                 \* what moves
    skills, vetted, edit  \* Skills

skillsVars == <<skills, vetted, edit>>
allVars == <<part, vars, skillsVars>>

Review == INSTANCE Skills

ReviewsInit == part \in {"approvals", "skills"} /\ Init /\ Review!SkillsInit

ReviewsNext ==
    /\ UNCHANGED part
    /\ \/ part = "approvals" /\ Next /\ UNCHANGED skillsVars
       \/ part = "skills" /\ Review!SkillsNext /\ UNCHANGED vars

\* The fairness of Approvals, when it moves.
ReviewsFairness ==
    /\ \A a \in Approvals : WF_vars(part = "approvals" /\ WaiterStep(a))
    /\ \A s \in Submits : WF_vars(part = "approvals" /\ SubmitStep(s))

ReviewsSpec == ReviewsInit /\ [][ReviewsNext]_allVars /\ ReviewsFairness
-----------------------------------------------------------------------------
(* Only an approved skill is enabled, and its text is one that was approved  *)
(* (api/skills.py).                                                          *)
EnabledIsVetted == Review!SkillsTypeOK /\ Review!EnabledIsVetted
=============================================================================
