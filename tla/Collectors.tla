----------------------------- MODULE Collectors -----------------------------
(***************************************************************************)
(* What one run of each vuln-engine collector makes of the answer it gets: *)
(* the alerts collect() returns and the memory it keeps for the next run.  *)
(* An advisory is a CVE id, an RSS entry id or an advisory URL; the text   *)
(* put in the alert is left out.  The state machines around these          *)
(* operators are CisaKev, VendorRss, InterSystems, NvdDelta and VulnEngine.*)
(***************************************************************************)
EXTENDS Integers, FiniteSets

CONSTANTS
    Malformed,   \* advisories whose conversion to an alert raises
    Serious,     \* RSS entries whose text reads HIGH, CRITICAL or zero-day
    RssFloor,    \* 5 in vendor_rss.py:68
    IscFloor     \* 3 in intersystems.py:58

ASSUME CollectorsAssumption == RssFloor \in Nat /\ IscFloor \in Nat

Outcome(alerts, memory) == [alerts |-> alerts, memory |-> memory]

\* Slips: the catalogue remembered although the loop may raise; every entry
\* alerted on; the memory never updated; a default id for a missing cveID.
KevOutcomesEarly(known, catalog) ==
    LET new == catalog \ known
    IN  IF known = {} THEN {Outcome({}, catalog)}
        ELSE IF new \intersect Malformed = {} THEN {Outcome(new, catalog)}
        ELSE {Outcome(done, catalog) : done \in SUBSET (new \ Malformed)}
KevOutcomesNoDiff(known, catalog) ==
    IF known = {} THEN {Outcome({}, catalog)}
    ELSE {Outcome(catalog \ Malformed, catalog)}
KevOutcomesKept(known, catalog) ==
    IF known = {} THEN {Outcome({}, catalog)}
    ELSE {Outcome((catalog \ known) \ Malformed, known)}
KevOutcomesDefaulted(known, catalog) ==
    IF known = {} THEN {Outcome({}, catalog \union {"unknown"})}
    ELSE {Outcome(catalog \ known, catalog \union {"unknown"})}

\* CISA KEV: an empty memory is filled without alerting; otherwise the CVEs
\* not in memory are alerted on, in catalogue order, and the memory becomes
\* the catalogue.  A malformed entry stops the loop: the alerts made so far
\* are returned and the memory is not updated.
KevOutcomes(known, catalog) ==
    LET new == catalog \ known
    IN  IF known = {} THEN {Outcome({}, catalog)}
        ELSE IF new \intersect Malformed = {} THEN {Outcome(new, catalog)}
        ELSE {Outcome(done, known) : done \in SUBSET (new \ Malformed)}

\* Slips: a silent load that marks nothing; `seen` replaced by the feed.
RssOutcomeUnmarked(seen, entries, length) ==
    IF seen = {} /\ length > RssFloor
    THEN Outcome({}, seen)
    ELSE Outcome((entries \ seen) \intersect Serious, seen \union entries)
RssOutcomeReplaced(seen, entries, length) ==
    IF seen = {} /\ length > RssFloor
    THEN Outcome({}, entries)
    ELSE Outcome((entries \ seen) \intersect Serious, entries)

\* One vendor feed, the ids and the length of its list: unseen serious entries
\* are alerted on, each as often as the list has it, unless nothing at all was
\* seen before and the list is longer than the floor; every entry of the feed
\* is marked as seen after that, alerted on or not.
RssOutcome(seen, entries, length) ==
    IF seen = {} /\ length > RssFloor
    THEN Outcome({}, entries)
    ELSE Outcome((entries \ seen) \intersect Serious, seen \union entries)

\* Slip: only the critical advisories alerted on.
IscOutcomeFiltered(seen, page) ==
    IF seen = {} /\ Cardinality(page) > IscFloor
    THEN Outcome({}, page)
    ELSE Outcome((page \ seen) \intersect Serious, seen \union page)

\* The InterSystems page: as a vendor feed, every unseen advisory alerting.
IscOutcome(seen, page) ==
    IF seen = {} /\ Cardinality(page) > IscFloor
    THEN Outcome({}, page)
    ELSE Outcome(page \ seen, seen \union page)

\* NVD delta: the CVEs of the window, up to the first malformed one; the
\* window is done with only when none is.
NvdAlerts(window) ==
    IF window \intersect Malformed = {} THEN {window}
    ELSE SUBSET (window \ Malformed)
NvdWindowDone(window) == window \intersect Malformed = {}
=============================================================================
