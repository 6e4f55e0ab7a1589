SPECIFICATION MCSpec
CONSTANTS
    Team = {t1, t2, t3}
    Broken = {t3}
    Batch = 1
    MaxRows = 2
    MaxAbsorbs = 3
    MaxFaults = 1
    Services = {"worker", "filing", "billing"}
    Handler = {h1, h2}
    Docs = {"long", "short", "nothing"}
    Mined = {p1, p2}
    Added = {p3}
    MaxCalls = 3
    FilingFaults = 2
    Webhook = {s1}
    Subs = {"sub_a", "sub_b"}
    InOrder = TRUE
    GuardErrs = FALSE
    OldRepeats = FALSE
    MaxRepeats = 2
    WebhookFaults = 2
INVARIANT JobsTypeOK
PROPERTIES SourceReplaced CallsReturn TeamsServed PlansFollowPayment
CHECK_DEADLOCK FALSE
