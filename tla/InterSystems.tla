---------------------------- MODULE InterSystems ----------------------------
(***************************************************************************)
(* vuln-engine/collectors/intersystems.py: the advisories page is scraped, *)
(* so a 200 answer may also yield no advisory at all (another layout, an   *)
(* error page); seen_urls only grows.                                      *)
(***************************************************************************)
EXTENDS Collectors

CONSTANTS
    Urls,        \* advisory URLs the page may link
    MaxIscFaults \* bound on failed requests, barren pages and restarts

ASSUME IscAssumption == MaxIscFaults \in Nat

VARIABLES
    page,        \* the URLs the page links now (external)
    isc_pc,      \* "idle", or "asking": in the await of client.get
    seen_urls,   \* self.seen_urls
    iscStatus,   \* self.status.status
    iscReturned, \* URLs alerted on since the process started
    iscSilenced, \* URLs catalogued by a silent load since it started
    iscFaults

iscGhosts == <<iscReturned, iscSilenced>>
iscVars   == <<page, isc_pc, seen_urls, iscStatus, iscGhosts, iscFaults>>

IscTypeOK ==
    /\ page \subseteq Urls /\ seen_urls \subseteq Urls
    /\ isc_pc \in {"idle", "asking"}
    /\ iscStatus \in {"idle", "ok (initial load)", "ok", "error"}
    /\ iscReturned \subseteq Urls /\ iscSilenced \subseteq Urls
    /\ iscFaults \in 0 .. MaxIscFaults

IscInit ==
    /\ page \in SUBSET Urls
    /\ isc_pc = "idle" /\ seen_urls = {} /\ iscStatus = "idle"
    /\ iscReturned = {} /\ iscSilenced = {} /\ iscFaults = 0

IscPublish(u) ==
    /\ page' = IF u \in page THEN page \ {u} ELSE page \union {u}
    /\ UNCHANGED <<isc_pc, seen_urls, iscStatus, iscGhosts, iscFaults>>

IscFire ==
    /\ isc_pc = "idle"
    /\ isc_pc' = "asking"
    /\ UNCHANGED <<page, seen_urls, iscStatus, iscGhosts, iscFaults>>

\* collect() from the page to its return, no await in between.
IscDigest(urls) ==
    LET o == IscOutcome(seen_urls, urls)
    IN  /\ isc_pc' = "idle"
        /\ seen_urls' = o.memory
        /\ iscReturned' = iscReturned \union o.alerts
        /\ IF seen_urls = {} /\ Cardinality(urls) > IscFloor
           THEN iscSilenced' = iscSilenced \union urls /\ iscStatus' = "ok (initial load)"
           ELSE iscSilenced' = iscSilenced /\ iscStatus' = "ok"
        /\ UNCHANGED page

IscAnswer == isc_pc = "asking" /\ IscDigest(page) /\ UNCHANGED iscFaults

IscFault == iscFaults < MaxIscFaults /\ iscFaults' = iscFaults + 1

IscBarrenPage == isc_pc = "asking" /\ IscFault /\ IscDigest({})

IscFail ==
    /\ isc_pc = "asking" /\ IscFault
    /\ isc_pc' = "idle" /\ iscStatus' = "error"
    /\ UNCHANGED <<page, seen_urls, iscGhosts>>

IscRestart ==
    /\ IscFault
    /\ isc_pc' = "idle" /\ seen_urls' = {} /\ iscStatus' = "idle"
    /\ iscReturned' = {} /\ iscSilenced' = {}
    /\ UNCHANGED page

IscNext ==
    \/ \E u \in Urls : IscPublish(u)
    \/ IscFire \/ IscAnswer \/ IscBarrenPage \/ IscFail \/ IscRestart

IscSpec == IscInit /\ [][IscNext]_iscVars

-----------------------------------------------------------------------------

\* Every advisory marked as seen was alerted on or catalogued by a silent load
\* (lines 58-66, 68-109).
IscAccounted == seen_urls \subseteq iscReturned \union iscSilenced
=============================================================================
