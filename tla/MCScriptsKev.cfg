SPECIFICATION ScriptsSpec
CONSTANTS
    n1 = n1
    k1 = k1
    r1 = r1
    r2 = r2
    r3 = r3
    i1 = i1
    i2 = i2
    h1 = h1
    h2 = h2
    curl = curl
    nginx = nginx
    openssl = openssl
    openssl_openssl = openssl_openssl
    nginx_nginx = nginx_nginx
    other = other
    Advisories = {n1, k1, r1, r2, r3, i1, i2}
    Malformed = {}
    Serious = {r1, r3}
    NFeeds = 2
    FeedEntries <- MCFeedEntries
    RssFloor = 1
    IscFloor = 1
    Index <- MCIndex
    Source <- MCSource
    Cpes <- MCCpes
    Hints <- MCHints
    Certs = {c1, c2}
    Requests = {q1, q2}
    MaxOcspFaults = 1
    runner = runner
    runner_python3 = runner_python3
    Runners = {runner, runner_python3}
    NamedLike <- MCNamedLike
INVARIANTS KevAllNew
CHECK_DEADLOCK FALSE
