------------------------------- MODULE CveApi -------------------------------
(***************************************************************************)
(* cve-database-manager/api.py, the route the OCS side uses: what GET      *)
(* /api/cvefor/{name} makes of the rows its query finds.  Scores are tenths*)
(* and 0 is "none": the code treats a score of 0 as a missing one.  Of a   *)
(* record only the metrics are kept, of a metric its score per CVSS key.   *)
(***************************************************************************)
EXTENDS Integers, FiniteSets, SequencesExt

CONSTANTS
    Cves,          \* rows of cve_files
    NoRecord,      \* those whose JSON is no CVE record, as the deltaLog.json
                   \* that update_cve_db.py stores with the rest: a list
    Records,       \* CVE -> [cna |-> its metrics, adp |-> metrics by container]
    Limit          \* LIMIT 50

ASSUME CveApiAssumption == NoRecord \subseteq Cves /\ Limit \in Nat \ {0}

CnaKeys == <<"cvssV3_1", "cvssV3_0", "cvssV2_0">>
AdpKeys == <<"cvssV3_1", "cvssV3_0", "cvssV3", "cvssV2">>

\* metric.get(k1, {}).get("baseScore") or metric.get(k2, ...) or ...
BaseScore(metric, keys) ==
    LET k == SelectInSeq(keys, LAMBDA key : key \in DOMAIN metric /\ metric[key] # 0)
    IN  IF k = 0 THEN 0 ELSE metric[keys[k]]

\* Slip: the loop goes on after a score.
AfterMetricsAll(score, metrics, keys) ==
    FoldLeft(LAMBDA s, m : BaseScore(m, keys), score, metrics)

\* cvss_score after `for metric in metrics`, which assigns it each time and
\* breaks at the first score.
AfterMetrics(score, metrics, keys) ==
    LET i == SelectInSeq(metrics, LAMBDA m : BaseScore(m, keys) # 0)
    IN  IF metrics = <<>> THEN score
        ELSE IF i = 0 THEN 0 ELSE BaseScore(metrics[i], keys)

\* The metrics of the CNA and, without a score there, those of each ADP: the
\* break leaves the loop over one container's metrics, not the outer one.
CvssScore(record) ==
    LET cna == AfterMetrics(0, record.cna, CnaKeys)
    IN  IF cna # 0 THEN cna
        ELSE FoldLeft(LAMBDA s, adp : AfterMetrics(s, adp, AdpKeys), 0, record.adp)

\* The "cvss" of each row that is a record.
cvss == [c \in Cves \ NoRecord |-> CvssScore(Records[c])]

\* SELECT ... LIMIT 50, without an ORDER BY: any such page of the matches.
Pages(matches) ==
    IF Cardinality(matches) <= Limit THEN {matches}
    ELSE {page \in SUBSET matches : Cardinality(page) = Limit}

\* One row that is no record raises: the answer is 500, whatever the others.
Answers(page) == page \intersect NoRecord = {}
=============================================================================
