SPECIFICATION ReviewsSpec
CONSTANTS
    n8n = n8n
    memo = memo
    s1 = s1
    s2 = s2
    s3 = s3
    k1 = k1
    e1 = e1
    e2 = e2
    text1 = text1
    text2 = text2
    Approvals = {n8n, memo}
    Unattended = {memo}
    External = {n8n}
    Submits = {s1, s2, s3}
    MaxFaults = 1
    NoApproval = NoApproval
    SkillIds = {k1}
    Edits = {e1, e2}
    Texts = {text1, text2}
    MaxVersion = 5
INVARIANTS
    TypeOK
    DecisionsAgree
    EnabledIsVetted
PROPERTIES
    EveryApprovalEnds
CHECK_DEADLOCK FALSE
