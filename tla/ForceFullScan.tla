--------------------------- MODULE ForceFullScan ----------------------------
(***************************************************************************)
(* vuln-engine/force_full_scan.py: one pass over all the sources with new  *)
(* collectors, then matching and dispatch.  Every collect() swallows its   *)
(* own failure and returns what it has; only the OCS refresh may stop the  *)
(* script.  An answer is taken when it arrives, so a source may change     *)
(* between the two requests the script makes of it.                        *)
(***************************************************************************)
EXTENDS Collectors, Matching

CONSTANTS
    Advisories,
    Index,       \* the packages index the refresh loads
    NFeeds,      \* number of settings.VENDOR_FEEDS
    FeedEntries  \* feed -> the advisories it lists of those the sources carry

ASSUME ScanAssumption == NFeeds \in Nat \ {0}

VARIABLES
    step,        \* the await full_scan() is in
    carried,     \* the advisories the sources carry (external)
    known_cves,  \* cisa.known_cves
    feed,        \* the feed vendor.collect() is at
    seen_ids,    \* vendor.seen_ids
    silenced,    \* the entries its silent loads marked
    seen_urls,   \* intersystems.seen_urls
    all_alerts,
    matched,
    opening,     \* what the sources carried when the script was started
    failed       \* "ocs", or the jobs, a request of which failed

ghosts   == <<opening, failed>>
feedVars == <<feed, seen_ids, silenced>>
vars  == <<step, carried, known_cves, feedVars, seen_urls, all_alerts, matched, ghosts>>

Steps == <<"ocs", "nvd", "kev1", "kev2", "rss", "isc1", "isc2", "dispatch", "end">>
StepSet == {Steps[i] : i \in 1 .. 9}

From(job) == {a \in carried : Source[a] = job}

TypeOK ==
    /\ step \in StepSet
    /\ carried \subseteq Advisories /\ known_cves \subseteq Advisories
    /\ feed \in 1 .. NFeeds /\ seen_ids \subseteq Advisories /\ silenced \subseteq seen_ids
    /\ seen_urls \subseteq Advisories /\ all_alerts \subseteq Advisories
    /\ matched \subseteq all_alerts
    /\ opening \subseteq carried
    /\ failed \subseteq {"ocs", "nvd_delta", "cisa_kev", "vendor_rss", "intersystems"}

Init ==
    /\ step = "ocs" /\ carried \in SUBSET Advisories
    /\ feed = 1 /\ seen_ids = {} /\ silenced = {}
    /\ known_cves = {} /\ seen_urls = {} /\ all_alerts = {} /\ matched = {}
    /\ opening = carried /\ failed = {}

Publish(a) ==
    /\ a \notin carried /\ step # "end"
    /\ carried' = carried \union {a}
    /\ UNCHANGED <<step, known_cves, feedVars, seen_urls, all_alerts, matched, ghosts>>

-----------------------------------------------------------------------------

RefreshLoads ==
    /\ step = "ocs"
    /\ step' = "nvd"
    /\ UNCHANGED <<carried, known_cves, feedVars, seen_urls, all_alerts, matched, ghosts>>

\* refresh() raises: the script ends with the traceback.
RefreshRaises ==
    /\ step = "ocs"
    /\ step' = "end"
    /\ failed' = failed \union {"ocs"}
    /\ UNCHANGED <<carried, known_cves, feedVars, seen_urls, all_alerts, matched, opening>>

\* Lines 36-39: the window of seven days is collected.
Nvd ==
    /\ step = "nvd" /\ step' = "kev1"
    /\ \E alerts \in NvdAlerts(From("nvd_delta")) : all_alerts' = all_alerts \union alerts
    /\ UNCHANGED <<carried, known_cves, feedVars, seen_urls, matched, ghosts>>

\* Lines 44-46: the first run fills known_cves, which the script empties.
Kev1 ==
    /\ step = "kev1" /\ step' = "kev2"
    /\ known_cves' = {}
    /\ UNCHANGED <<carried, feedVars, seen_urls, all_alerts, matched, ghosts>>

\* Lines 47-48: the second run.
Kev2 ==
    /\ step = "kev2" /\ step' = "rss"
    /\ \E o \in KevOutcomes(known_cves, From("cisa_kev")) :
          all_alerts' = all_alerts \union o.alerts /\ known_cves' = o.memory
    /\ UNCHANGED <<carried, feedVars, seen_urls, matched, ghosts>>

\* vendor_rss.py:49, past the feed at hand.
NextFeed ==
    IF feed < NFeeds THEN feed' = feed + 1 /\ UNCHANGED step
    ELSE step' = "isc1" /\ UNCHANGED feed

\* Lines 53-55, a feed at a time; here a feed lists an entry once.
Rss ==
    /\ step = "rss" /\ NextFeed
    /\ LET here == From("vendor_rss") \intersect FeedEntries[feed]
           o    == RssOutcome(seen_ids, here, Cardinality(here))
       IN  /\ all_alerts' = all_alerts \union o.alerts
           /\ seen_ids' = o.memory
           /\ silenced' = IF seen_ids = {} /\ Cardinality(here) > RssFloor
                          THEN silenced \union here ELSE silenced
    /\ UNCHANGED <<carried, known_cves, seen_urls, matched, ghosts>>

\* A feed that fails costs its own entries only.
RssFeedFails ==
    /\ step = "rss" /\ NextFeed
    /\ failed' = failed \union {"vendor_rss"}
    /\ UNCHANGED <<carried, known_cves, seen_ids, silenced, seen_urls, all_alerts, matched,
                   opening>>

\* After the last collector: match() and the beginning of dispatch().
Conclude(alerts) ==
    /\ all_alerts' = alerts
    /\ matched' = Match(Index, alerts)
    /\ step' = IF Match(Index, alerts) = {} THEN "end" ELSE "dispatch"

\* Slip: the second run is skipped and the first one's alerts with it.
Isc1Dropping ==
    /\ step = "isc1"
    /\ LET o == IscOutcome(seen_urls, From("intersystems"))
       IN  /\ seen_urls' = o.memory
           /\ all_alerts' = all_alerts
           /\ matched' = o.alerts
           /\ step' = "end"
    /\ UNCHANGED <<carried, known_cves, feedVars, ghosts>>

\* Lines 69-75: the first run, and, when it alerted on nothing but saw some
\* URLs, an arbitrary one of them forgotten before a second run.
Isc1 ==
    /\ step = "isc1"
    /\ LET o == IscOutcome(seen_urls, From("intersystems"))
       IN  IF o.alerts = {} /\ o.memory # {}
           THEN /\ \E u \in o.memory : seen_urls' = o.memory \ {u}
                /\ step' = "isc2"
                /\ UNCHANGED <<all_alerts, matched>>
           ELSE seen_urls' = o.memory /\ Conclude(all_alerts \union o.alerts)
    /\ UNCHANGED <<carried, known_cves, feedVars, ghosts>>

Isc2 ==
    /\ step = "isc2"
    /\ LET o == IscOutcome(seen_urls, From("intersystems"))
       IN  seen_urls' = o.memory /\ Conclude(all_alerts \union o.alerts)
    /\ UNCHANGED <<carried, known_cves, feedVars, ghosts>>

\* dispatch() ends whatever posts fail, and the script ends (lines 89-105).
Dispatch ==
    /\ step = "dispatch" /\ step' = "end"
    /\ UNCHANGED <<carried, known_cves, feedVars, seen_urls, all_alerts, matched, ghosts>>

\* A collector's request fails: it returns nothing and the scan goes on, at
\* kev1 with the second KEV run, at isc1 (nothing seen) and isc2 with match().
Skip(at, next, job) ==
    /\ step = at /\ step' = next
    /\ failed' = failed \union {job}
    /\ UNCHANGED <<carried, known_cves, feedVars, seen_urls, all_alerts, matched, opening>>

IscFails ==
    /\ step \in {"isc1", "isc2"}
    /\ failed' = failed \union {"intersystems"}
    /\ Conclude(all_alerts)
    /\ UNCHANGED <<carried, known_cves, feedVars, seen_urls, opening>>

CollectFails ==
    \/ Skip("nvd", "kev1", "nvd_delta")
    \/ Skip("kev1", "kev2", "cisa_kev") \/ Skip("kev2", "rss", "cisa_kev")
    \/ RssFeedFails \/ IscFails

Script ==
    \/ RefreshLoads \/ RefreshRaises \/ Nvd \/ Kev1 \/ Kev2 \/ Rss
    \/ Isc1 \/ Isc2 \/ Dispatch \/ CollectFails

Next == Script \/ \E a \in Advisories : Publish(a)

Spec == Init /\ [][Next]_vars

-----------------------------------------------------------------------------

\* The failures and silent loads of one source cost no other's alerts.  Unless
\* NVD failed or an entry of it is malformed, every CVE it carried when the
\* script was started, and that the inventory matches, is handed to dispatch();
\* so is every serious advisory a feed was read with, whichever other feeds
\* failed, but those a silent load marked (lines 36-39, 53-55, 86-92).
ScanKeepsAlerts ==
    step \in {"dispatch", "end"} /\ "ocs" \notin failed =>
        /\ "nvd_delta" \notin failed /\ From("nvd_delta") \intersect Malformed = {}
             => Match(Index, {a \in opening : Source[a] = "nvd_delta"}) \subseteq matched
        /\ Match(Index, (seen_ids \intersect Serious) \ silenced) \subseteq matched

\* Line 47: "Deuxieme run = tout est nouveau": with two good answers, the KEV
\* catalogue is among the alerts.
KevAllNew ==
    step = "rss" /\ "cisa_kev" \notin failed => known_cves \subseteq all_alerts
=============================================================================
