SPECIFICATION Spec
CONSTANTS
    h1 = h1
    r1 = r1
    r2 = r2
    Hosts = {h1}
    Requests = {r1, r2}
    HostOf <- OneHost
    ReadsOf <- TwoRequests
    Kinds = {"principal", "tenant"}
    Present <- FromFirstChange
    MaxChanges = 1
    MaxRevision = 3
    MaxBreaks = 1
INVARIANTS GrantsFresh TokensFresh
CHECK_DEADLOCK FALSE
