---------------------------- MODULE MCCollectors ----------------------------
(* The four collectors share no state, so no interleaving of them can be     *)
(* told from the outside: every behaviour runs one, the others rest in a     *)
(* fixed state.  A floor of 1 stands for the code's 5 and 3; two ticks make  *)
(* a second and three a look-back.                                           *)
EXTENDS CisaKev, VendorRss, InterSystems, NvdDelta

CONSTANTS e1, minor

MCCopies == [e \in Entries |-> IF e = e1 THEN 2 ELSE 1]

VARIABLE running

vars == <<running, kevVars, rssVars, iscVars, nvdVars>>

Init ==
    /\ running \in {"cisa_kev", "vendor_rss", "intersystems", "nvd_delta"}
    /\ KevInit /\ (running # "cisa_kev" => catalog = KevCves)
    /\ RssInit /\ (running # "vendor_rss" => feeds = [i \in Turns |-> NoAlerts])
    /\ IscInit /\ (running # "intersystems" => page = {})
    /\ NvdInit /\ (running # "nvd_delta" => modified = [c \in NvdCves |-> Never])

KevRuns == running = "cisa_kev" /\ UNCHANGED <<running, rssVars, iscVars, nvdVars>>
RssRuns == running = "vendor_rss" /\ UNCHANGED <<running, kevVars, iscVars, nvdVars>>
IscRuns == running = "intersystems" /\ UNCHANGED <<running, kevVars, rssVars, nvdVars>>
NvdRuns == running = "nvd_delta" /\ UNCHANGED <<running, kevVars, rssVars, iscVars>>

Next ==
    (KevRuns /\ KevNext) \/ (RssRuns /\ RssNext) \/ (IscRuns /\ IscNext) \/ (NvdRuns /\ NvdNext)

\* The interval job fires, and its awaits end.
Collect ==
    \/ KevRuns /\ (KevFire \/ KevAnswer)
    \/ RssRuns /\ (RssFire \/ RssAnswer)
    \/ IscRuns /\ (IscFire \/ IscAnswer)
    \/ NvdRuns /\ (NvdFire \/ NvdAnswer)

\* The interval jobs fire again and again, httpx ends every request, and time
\* passes.
FairSpec ==
    Init /\ [][Next]_vars /\ WF_vars(Collect) /\ WF_vars(NvdRuns /\ NvdTick)

\* The types of the four collectors' state.
TypeOK == KevTypeOK /\ RssTypeOK /\ IscTypeOK /\ NvdTypeOK

\* An entry that stays in a feed, and an advisory that stays on the InterSystems
\* page, is looked at in the end (vendor_rss.py:51-98, intersystems.py:28-109).
EventuallySeen ==
    /\ \A i \in Turns, e \in Entries :
          feeds[i][e] > 0 ~> e \in seen_ids \/ feeds[i][e] = 0
    /\ \A u \in Urls : u \in page ~> u \in seen_urls \/ u \notin page
=============================================================================
