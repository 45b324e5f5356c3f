SPECIFICATION FairSpec
CONSTANTS
    s1 = s1
    s2 = s2
    Subs <- TwoSubs
    Tenants = {t1}
    Cancels = {c1}
    Hooks = {h1}
    NoPreapproval = NoPreapproval
    Copies = TRUE
    MPFaults = {"create", "cancel", "fetch"}
INVARIANTS
    IndInv
    AuthorizedIsPaidFor
    ChargedIsKnown
PROPERTIES
    PreapprovalStable
    
