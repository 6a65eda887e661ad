----------------------------- MODULE VendorRss ------------------------------
(***************************************************************************)
(* vuln-engine/collectors/vendor_rss.py: one run walks the feeds in order, *)
(* one await and one try per feed; seen_ids is shared by all the feeds.    *)
(* A feed is a list in which an entry id may come more than once: it is    *)
(* kept as the number of times each id is in it, its order being nothing   *)
(* the code depends on.  So is a list of alerts.                           *)
(***************************************************************************)
EXTENDS Collectors, Functions

CONSTANTS
    Entries,     \* entry ids the feeds may carry
    Copies,      \* entry -> how often one feed may list it, at most
    NFeeds,      \* number of settings.VENDOR_FEEDS
    MaxRssFaults \* bound on failed requests and restarts

ASSUME RssAssumption ==
    /\ MaxRssFaults \in Nat /\ NFeeds \in Nat \ {0}
    /\ Copies \in [Entries -> Nat \ {0}]

VARIABLES
    feeds,       \* feeds[i]: the list the i-th feed carries (external)
    turn,        \* 0: idle; i: in the await of feed i's request
    seen_ids,    \* self.seen_ids
    rssStatus,   \* self.status.status: a run ends "ok" whatever feeds failed
    alerts_so_far, \* the local list of the running collect()
    rssReturned, \* how often collect() returned each entry since the process started
    rssSilenced, \* entries marked as seen by a silent load since it started
    rssFaults

rssGhosts == <<rssReturned, rssSilenced>>
rssVars   == <<feeds, turn, seen_ids, rssStatus, alerts_so_far, rssGhosts, rssFaults>>

Turns == 1 .. NFeeds

Lists ==
    {list \in [Entries -> UNION {0 .. Copies[e] : e \in Entries}] :
        \A e \in Entries : list[e] <= Copies[e]}

NoAlerts == [e \in Entries |-> 0]

Listed(list) == {e \in Entries : list[e] > 0}

\* The alerts on the entries es of a list, one for each time it has them.
AlertsOn(es, list) == [e \in Entries |-> IF e \in es THEN list[e] ELSE 0]

Extended(list, more) == [e \in Entries |-> list[e] + more[e]]

\* How often the process alerts, or is about to, on an entry.
Times(e) == rssReturned[e] + alerts_so_far[e]

RssTypeOK ==
    /\ feeds \in [Turns -> Lists]
    /\ turn \in 0 .. NFeeds /\ rssStatus \in {"idle", "ok"}
    /\ seen_ids \subseteq Entries /\ rssSilenced \subseteq Entries
    /\ alerts_so_far \in [Entries -> Nat] /\ rssReturned \in [Entries -> Nat]
    /\ rssFaults \in 0 .. MaxRssFaults

RssInit ==
    /\ feeds \in [Turns -> Lists]
    /\ turn = 0 /\ seen_ids = {} /\ alerts_so_far = NoAlerts
    /\ rssReturned = NoAlerts /\ rssSilenced = {}
    /\ rssStatus = "idle" /\ rssFaults = 0

-----------------------------------------------------------------------------

\* A feed gains an entry, perhaps one that another feed carries as well or that
\* it lists already, or drops one.
RssChange(i, e, n) ==
    /\ n <= Copies[e] /\ n # feeds[i][e]
    /\ feeds' = [feeds EXCEPT ![i][e] = n]
    /\ UNCHANGED <<turn, seen_ids, rssStatus, alerts_so_far, rssGhosts, rssFaults>>

RssFire ==
    /\ turn = 0
    /\ turn' = 1 /\ alerts_so_far' = NoAlerts
    /\ UNCHANGED <<feeds, seen_ids, rssStatus, rssGhosts, rssFaults>>

\* Past the current feed, with `found` alerts so far: the next feed's await,
\* or the return.
RssNextFeed(found) ==
    \/ /\ turn < NFeeds
       /\ turn' = turn + 1 /\ alerts_so_far' = found
       /\ UNCHANGED <<rssReturned, rssStatus>>
    \/ /\ turn = NFeeds
       /\ turn' = 0 /\ alerts_so_far' = NoAlerts
       /\ rssReturned' = Extended(rssReturned, found) /\ rssStatus' = "ok"

RssAnswer ==
    /\ turn > 0
    /\ LET list   == feeds[turn]
           length == SumFunction(list)
           o      == RssOutcome(seen_ids, Listed(list), length)
       IN  /\ RssNextFeed(Extended(alerts_so_far, AlertsOn(o.alerts, list)))
           /\ seen_ids' = o.memory
           /\ rssSilenced' = IF seen_ids = {} /\ length > RssFloor
                             THEN rssSilenced \union Listed(list) ELSE rssSilenced
    /\ UNCHANGED <<feeds, rssFaults>>

RssFault == rssFaults < MaxRssFaults /\ rssFaults' = rssFaults + 1

\* Slip: one try around the whole loop, its handler returning nothing.
RssFailRun ==
    /\ turn > 0 /\ RssFault
    /\ turn' = 0 /\ alerts_so_far' = NoAlerts
    /\ UNCHANGED <<feeds, seen_ids, rssStatus, rssGhosts>>

\* A failed feed is counted and the run goes on with the next one.
RssFailFeed ==
    /\ turn > 0 /\ RssFault
    /\ RssNextFeed(alerts_so_far)
    /\ UNCHANGED <<feeds, seen_ids, rssSilenced>>

RssRestart ==
    /\ RssFault
    /\ turn' = 0 /\ seen_ids' = {} /\ alerts_so_far' = NoAlerts /\ rssStatus' = "idle"
    /\ rssReturned' = NoAlerts /\ rssSilenced' = {}
    /\ UNCHANGED feeds

RssNext ==
    \/ \E i \in Turns, e \in Entries : \E n \in 0 .. Copies[e] : RssChange(i, e, n)
    \/ RssFire \/ RssAnswer \/ RssFailFeed \/ RssRestart

RssSpec == RssInit /\ [][RssNext]_rssVars

-----------------------------------------------------------------------------

\* A serious advisory marked as seen was returned, is in the list the running
\* collect() will return, or was there at the silent load: a feed that fails
\* costs none of the others' alerts (lines 51-104).
RssSeriousReturned ==
    \A e \in seen_ids \intersect Serious : Times(e) > 0 \/ e \in rssSilenced

\* One process alerts on an entry no oftener than one list may have it,
\* whichever feeds carry it, however often it leaves and re-enters them and
\* whatever fails: two answers never alert on the same entry, but an id that
\* one list has twice is alerted on twice (lines 60-64, 96-98).
RssNoRepeat == \A e \in Entries : Times(e) <= Copies[e]
=============================================================================
