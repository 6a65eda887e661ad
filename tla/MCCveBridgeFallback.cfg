SPECIFICATION Spec
CONSTANTS
    scored = scored
    overwritten = overwritten
    deltaLog = deltaLog
    Names = {n1, n2}
    Cves = {scored, overwritten, deltaLog}
    NoRecord = {deltaLog}
    Records <- MCRecords
    Limit = 2
    LongLinks = {scored}
    MaxFaults = 2
INVARIANTS FallbackFindsScore
