----------------------------- MODULE MCCveBridge ----------------------------
(* CveBridge with two software names and three rows of cve_files: a CVE with *)
(* a high score, one whose score a later ADP container without any has       *)
(* overwritten, and the list that is no record.  The link of the first is    *)
(* too long for the table.  A limit of 2 stands for 50.                      *)
(* The score is checked over every record of at most two CNA metrics and two *)
(* ADP containers.                                                           *)
EXTENDS CveBridge

CONSTANTS scored, overwritten, deltaLog

V31(score) == [cvssV3_1 |-> score]
Ssvc == [other |-> 0]   \* a metric without any CVSS key

MCRecords ==
    [c \in Cves |-> CASE c = scored -> [cna |-> <<V31(75)>>, adp |-> << <<Ssvc>> >>]
                      [] OTHER -> [cna |-> << >>, adp |-> << <<Ssvc, V31(91)>>, <<Ssvc>> >>]]

CnaMetrics == {Ssvc, V31(75), V31(0), [cvssV3_1 |-> 0, cvssV2_0 |-> 50]}
AdpMetrics == {Ssvc, V31(91), [cvssV3 |-> 60, cvssV2 |-> 40]}
Upto2(S) == BoundedSeq(S, 2)
AllRecords == [cna : Upto2(CnaMetrics), adp : Upto2(Upto2(AdpMetrics))]

FirstScore(metrics, keys) ==
    LET scores == {i \in DOMAIN metrics : BaseScore(metrics[i], keys) # 0}
    IN  IF scores = {} THEN 0 ELSE BaseScore(metrics[Min(scores)], keys)

\* What the containers at these indices give: the last with metrics decides.
LastOf(adp, indices) ==
    LET adps == {i \in indices : adp[i] # << >>}
    IN  IF adps = {} THEN 0 ELSE FirstScore(adp[Max(adps)], AdpKeys)

ExplainedScore(r) ==
    IF FirstScore(r.cna, CnaKeys) # 0 THEN FirstScore(r.cna, CnaKeys)
    ELSE LastOf(r.adp, DOMAIN r.adp)

\* The score of a CVE is the first of its CNA; without one, what the last ADP
\* container with metrics has, and nothing else (api.py:174-197).
ScoreExplained ==
    pc = "idle" /\ inventory = {} /\ cve_files = [n \in Names |-> {}] =>
        \A r \in AllRecords : CvssScore(r) = ExplainedScore(r)

\* api.py:186, "Fallback : cherche dans adp->metrics": a CVE that a name finds
\* and that has a score in an ADP container only is given one.
FallbackFindsScore ==
    \A n \in Names : \A c \in cve_files[n] \ NoRecord :
        (\E i \in DOMAIN Records[c].adp : FirstScore(Records[c].adp[i], AdpKeys) # 0)
            => CvssScore(Records[c]) # 0
=============================================================================
