----------------------------- MODULE MCScripts ------------------------------
(* The programs that run beside the service share no state with each other: *)
(* every behaviour runs one, the others rest in a fixed state.  The scan has *)
(* one NVD CVE, one KEV entry, two RSS feeds of two entries each, one of     *)
(* which is in both, and two InterSystems advisories, the floors are 1,      *)
(* and its matching is checked over every index of two hosts and four        *)
(* packages; the responder has two certificates and two requests in          *)
(* parallel, the reset two runners, the name of one being part of the        *)
(* other's.                                                                  *)
EXTENDS ForceFullScan, OcspResponder, ResetRunners

CONSTANTS
    n1, k1, r1, r2, r3, i1, i2, h1, h2,
    curl, nginx, openssl, openssl_openssl, nginx_nginx, other,
    runner, runner_python3

MCIndex == [p \in {curl, openssl_openssl} |-> {h1}]
MCSource ==
    [a \in Advisories |-> CASE a = n1 -> "nvd_delta"
                            [] a = k1 -> "cisa_kev"
                            [] a \in {r1, r2, r3} -> "vendor_rss"
                            [] a \in {i1, i2} -> "intersystems"]

MCFeedEntries == <<{r1, r2}, {r2, r3}>>

CpeOf(product, qualified) == [product |-> product, qualified |-> qualified]

MCCpes ==
    [a \in Advisories |->
        IF a = n1 THEN {CpeOf(openssl, openssl_openssl), CpeOf(nginx, nginx_nginx)} ELSE {}]
MCHints ==
    [a \in Advisories |-> CASE a = n1 -> {}
                            [] a = k1 -> {openssl}
                            [] a = i2 -> {other}
                            [] OTHER  -> {curl, nginx}]
MCNamedLike == [r \in Runners |-> IF r = runner THEN Runners ELSE {r}]

VARIABLE running

scriptsVars == <<running, vars, ocspVars, resetVars>>

ScriptsInit ==
    /\ running \in {"force_full_scan", "ocsp_responder", "reset"}
    /\ Init /\ (running # "force_full_scan" => carried = {})
    /\ OcspInit /\ (running # "ocsp_responder" =>
                      /\ vault = [c \in Certs |-> "absent"]
                      /\ thread = [r \in Requests |-> Idle(CHOOSE c \in Certs : TRUE)])
    /\ ResetInit /\ (running # "reset" =>
                       /\ program = "reset-runner" /\ ~prunes_named /\ images = {}
                       /\ containers = [r \in Runners |-> "absent"]
                       /\ volumes = [r \in Runners |-> "none"])

ScanRuns == running = "force_full_scan" /\ UNCHANGED <<running, ocspVars, resetVars>>
OcspRuns == running = "ocsp_responder" /\ UNCHANGED <<running, vars, resetVars>>
ResetRuns == running = "reset" /\ UNCHANGED <<running, vars, ocspVars>>

ScriptsNext == (ScanRuns /\ Next) \/ (OcspRuns /\ OcspNext) \/ (ResetRuns /\ ResetNext)

ScriptsSpec == ScriptsInit /\ [][ScriptsNext]_scriptsVars

\* The types of the three programs' state.
ScriptsTypeOK == TypeOK /\ OcspTypeOK /\ ResetTypeOK

Indexes == [{curl, nginx, openssl, openssl_openssl} -> SUBSET {h1, h2}]

Installed(index, p, h) == p \in DOMAIN index /\ h \in index[p]

\* The two fallbacks look a second name up only when the first ones found no
\* host at all, so a host with the second one alone may be lost to another.
LostToFallback(index, a, h) ==
    \/ \E c \in Cpes[a] :
          Installed(index, c.qualified, h) /\ FindHostsByPackage(index, c.product) # {}
    \/ IsVendor(a) /\ HostsByCpe(index, a) # {}

\* Whatever the refresh is about to load and the sources carry, an alert is
\* kept if and only if some host has a package it concerns, and names hosts
\* with such a package only; it names all of them but those lost to a fallback,
\* none of which has the product of a CPE (matching.py:32-50,
\* ocs_cache.py:112-116).
MatchAffected ==
    running = "force_full_scan" /\ step = "ocs" => \A index \in Indexes, a \in carried :
        LET affected == {h \in {h1, h2} : \E p \in Concerned(a) : Installed(index, p, h)}
        IN  /\ a \in Match(index, carried) <=> affected # {}
            /\ AllHosts(index, a) \subseteq affected
            /\ \A h \in affected \ AllHosts(index, a) :
                  /\ LostToFallback(index, a, h)
                  /\ \A c \in Cpes[a] : ~Installed(index, c.product, h)
=============================================================================
