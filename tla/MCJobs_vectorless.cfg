SPECIFICATION MCSpec
CONSTANTS
    Team = {t1}
    Broken = {}
    Batch = 1
    MaxRows = 1
    MaxAbsorbs = 0
    MaxFaults = 0
    Services = {"filing"}
    Handler = {h1, h2}
    Docs = {"long", "short"}
    Mined = {}
    Added = {p1}
    MaxCalls = 4
    FilingFaults = 0
    Webhook = {}
    Subs = {}
    InOrder = TRUE
    GuardErrs = FALSE
    OldRepeats = FALSE
    MaxRepeats = 0
    WebhookFaults = 0
INVARIANT RowsSearchable
CHECK_DEADLOCK FALSE
