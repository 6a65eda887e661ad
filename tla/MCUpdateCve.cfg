SPECIFICATION MCFairSpec
CONSTANTS
    c1 = c1
    c2 = c2
    v1 = v1
    v2 = v2
    bad = bad
    torn = torn
    Cves = {c1, c2}
    Contents = {v1, v2, bad, torn}
    Unreadable = {torn}
    Refused = {bad}
    NoFile = NoFile
    BatchSize = 2
    MaxFaults = 1
    Date <- MCDate
INVARIANTS DbTypeOK LagExplained
PROPERTIES EventuallyImported Repaired
