SPECIFICATION FairSpec
CONSTANTS
    Machines = {m1, m2}
    Packages = {openssl}
    Unknown = unknown
    Startup = startup
    Interval = ocs_refresh
    MaxEpoch = 1
    MaxFaults = 1
INVARIANTS TypeOK IndexTruthful IndexMatchesAssets CompleteSnapshot
PROPERTIES OnlyStartupRegresses PublishedCache CacheCatchesUp
