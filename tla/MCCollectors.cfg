SPECIFICATION FairSpec
CONSTANTS
    KevCves = {c1, c2, bad}
    MaxKevFaults = 1
    e1 = e1
    minor = minor
    Entries = {e1, minor}
    Copies <- MCCopies
    NFeeds = 2
    MaxRssFaults = 1
    Urls = {u1, u2, u3}
    MaxIscFaults = 2
    NvdCves = {c1, bad}
    MaxNvdFaults = 2
    TicksPerSecond = 2
    Lookback = 3
    MaxClock = 6
    Malformed = {bad}
    Serious = {e1}
    RssFloor = 1
    IscFloor = 1
INVARIANTS TypeOK
    KevAccounted KevRepeatsExplained
    RssSeriousReturned RssNoRepeat
    IscAccounted
    NvdNoGap
PROPERTIES KevEventuallyKnown EventuallySeen NvdEventuallyReported NvdStuckShows
