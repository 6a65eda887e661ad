---------------------------- MODULE MCUpdateCve -----------------------------
(* Half of the behaviours run the import alone, over two CVEs and batches of *)
(* two: a batch may be full, left over, refused, or fail; contents come and  *)
(* go as they like.  The other half run import and crawl together over one   *)
(* CVE, whose content goes from v1 to v2, through one the table refuses or   *)
(* not.                                                                      *)
EXTENDS UpdateCveDb

CONSTANTS c1, c2, v1, v2, bad, torn

MCDate ==
    [v \in Contents \union {NoFile} |->
        CASE v = v1 -> 1 [] v = bad -> 2 [] v = v2 -> 3 [] OTHER -> 0]

VARIABLE crawls

mcVars == <<dbVars, crawls>>

MCInit ==
    /\ crawls \in BOOLEAN /\ DbInit
    /\ upstream = [c \in Cves |-> NoFile]

ImportAlone ==
    /\ ~crawls /\ UNCHANGED <<crawlVars, overtaken, crawls>>
    /\ Next /\ \A c \in Cves : upstream'[c] # v2

BothRun == crawls /\ UNCHANGED crawls /\ DbNext /\ upstream'[c2] = NoFile

\* The import alone, for what a run says of the clone when it ends.
MCImportSpec == (MCInit /\ ~crawls) /\ [][ImportAlone]_mcVars

MCNext == ImportAlone \/ BothRun

MCSpec == MCInit /\ [][MCNext]_mcVars

MCFairSpec ==
    /\ MCSpec
    /\ WF_mcVars(Run /\ Beside /\ UNCHANGED crawls)
    /\ WF_mcVars(crawls /\ UNCHANGED crawls /\ Crawl)

\* Where a crawl runs, it repairs what the import has missed
\* (update_cve_db.py:42-45,67-68).
Repaired == crawls => CrawlRepairs
=============================================================================
