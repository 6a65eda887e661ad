SPECIFICATION FairSpec
CONSTANTS
    n1 = n1
    r1 = r1
    r2 = r2
    k1 = k1
    i1 = i1
    i2 = i2
    openssl = openssl
    other = other
    Machines = {m1}
    Packages = {openssl}
    Unknown = unknown
    MaxEpoch = 1
    Malformed = {}
    Serious = {r1}
    RssFloor = 1
    IscFloor = 1
    Advisories = {n1, r1}
    Jobs = {"nvd_delta", "vendor_rss"}
    Critical = {n1}
    Smtp = TRUE
    Teams = FALSE
    MaxFaults = 1
    Source <- MCSource
    Cpes <- MCCpes
    Hints <- MCHints
PROPERTIES NvdKeepsRunning
