SPECIFICATION MCSpec
CONSTANTS
    Team = {t1}
    Broken = {}
    Batch = 1
    MaxRows = 1
    MaxAbsorbs = 0
    MaxFaults = 0
    Services = {"billing"}
    Handler = {h1}
    Docs = {}
    Mined = {}
    Added = {}
    MaxCalls = 0
    FilingFaults = 0
    Webhook = {s1}
    Subs = {"sub_a"}
    InOrder = FALSE
    GuardErrs = FALSE
    OldRepeats = FALSE
    MaxRepeats = 0
    WebhookFaults = 1
INVARIANT PlansConverge
CHECK_DEADLOCK FALSE
