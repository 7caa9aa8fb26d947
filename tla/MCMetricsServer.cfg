CONSTANTS
    Clients = {c1, c2, c3}
    MaxFailures = 1
SPECIFICATION FairMetricsSpec
INVARIANTS
    AcceptLoop
CHECK_DEADLOCK FALSE
PROPERTY ScrapesEnd
