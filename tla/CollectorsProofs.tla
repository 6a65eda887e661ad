-------------------------- MODULE CollectorsProofs --------------------------
(***************************************************************************)
(* The four collectors for every set of advisories, every floor and every  *)
(* clock: each against its own specification, then the composition.        *)
(***************************************************************************)
EXTENDS MCCollectors, TLAPS

-----------------------------------------------------------------------------
(* CISA KEV *)

\* What was alerted on is still catalogued or was withdrawn; and it is in
\* memory as well, unless the memory is empty (the next answer is then loaded
\* without an alert) or it was a run stopped half-way that alerted on it.
KevMemoryOK ==
    /\ kevReturned \subseteq catalog \union withdrawn
    /\ known_cves # {} => kevReturned \subseteq known_cves \union withdrawn \union halted

KevInv == KevTypeOK /\ KevAccounted /\ KevMemoryOK /\ KevRepeatsExplained

\* The bound on the faults of the collector is kept by what counts one.
LEMMA KevFaultOK ==
    ASSUME KevTypeOK, KevFault PROVE kevFaults' \in 0 .. MaxKevFaults
<1>1. kevFaults \in 0 .. MaxKevFaults /\ MaxKevFaults \in Nat
  BY KevAssumption DEF KevTypeOK
<1> QED
  BY <1>1 DEF KevFault

\* What one run makes of an answer: a silent load; every addition alerted on
\* and the memory brought up to date; or some of them, with the memory left.
LEMMA KevOutcome ==
    ASSUME NEW known, NEW entries, NEW o \in KevOutcomes(known, entries)
    PROVE  \/ known = {} /\ o.alerts = {} /\ o.memory = entries
           \/ known # {} /\ o.alerts = entries \ known /\ o.memory = entries
           \/ /\ known # {} /\ o.alerts \subseteq entries \ known
              /\ o.memory = known /\ known # entries
<1> DEFINE new == entries \ known
<1>1. CASE known = {}
  BY <1>1 DEF KevOutcomes, Outcome
<1>2. CASE known # {} /\ new \intersect Malformed = {}
  BY <1>2 DEF KevOutcomes, Outcome
<1>3. CASE known # {} /\ new \intersect Malformed # {}
  <2>1. PICK done \in SUBSET (new \ Malformed) : o = Outcome(done, known)
    BY <1>3 DEF KevOutcomes
  <2>2. o.alerts = done /\ o.memory = known
    BY <2>1 DEF Outcome
  <2>3. known # entries
    BY <1>3
  <2> QED
    BY <1>3, <2>1, <2>2, <2>3
<1> QED
  BY <1>1, <1>2, <1>3

\* An answer of the catalogue, or of less, keeps the invariant.
LEMMA KevDigestOK ==
    ASSUME KevInv, NEW entries \in SUBSET catalog, KevDigest(entries),
           kevFaults' \in 0 .. MaxKevFaults,
           entries = catalog \/ entries = {}
    PROVE  KevInv'
<1>1. PICK o \in KevOutcomes(known_cves, entries) :
        /\ kev_pc' = "idle"
        /\ known_cves' = o.memory
        /\ kevStatus' = IF known_cves = {} THEN "ok (initial load)"
                        ELSE IF o.memory = entries THEN "ok" ELSE "error"
        /\ kevReturned' = kevReturned \union o.alerts
        /\ kevAgain' = kevAgain \union (kevReturned \intersect o.alerts)
        /\ kevSilenced' = IF known_cves = {} THEN kevSilenced \union entries ELSE kevSilenced
        /\ halted' = IF known_cves # {} /\ o.memory # entries
                     THEN halted \union o.alerts ELSE halted
        /\ UNCHANGED <<catalog, withdrawn>>
  BY DEF KevDigest
<1>2. \/ known_cves = {} /\ o.alerts = {} /\ o.memory = entries
      \/ known_cves # {} /\ o.alerts = entries \ known_cves /\ o.memory = entries
      \/ /\ known_cves # {} /\ o.alerts \subseteq entries \ known_cves
         /\ o.memory = known_cves /\ known_cves # entries
  BY KevOutcome
<1>3. KevTypeOK'
  <2>1. o.alerts \subseteq KevCves /\ o.memory \subseteq KevCves /\ entries \subseteq KevCves
    BY <1>2 DEF KevInv, KevTypeOK
  <2>2. halted' \subseteq KevCves
    BY <1>1, <2>1 DEF KevInv, KevTypeOK
  <2> QED
    BY <1>1, <2>1, <2>2 DEF KevInv, KevTypeOK
<1>4. KevAccounted'
  BY <1>1, <1>2 DEF KevInv, KevAccounted
<1>5. KevMemoryOK'
  BY <1>1, <1>2 DEF KevInv, KevMemoryOK
<1>6. KevRepeatsExplained'
  BY <1>1, <1>2 DEF KevInv, KevMemoryOK, KevRepeatsExplained
<1> QED
  BY <1>3, <1>4, <1>5, <1>6 DEF KevInv

\* A new process and the catalogue it meets satisfy the invariant.
LEMMA KevInitOK == KevInit => KevInv
<1>1. 0 \in 0 .. MaxKevFaults
  BY KevAssumption
<1> QED
  BY <1>1 DEF KevInit, KevInv, KevTypeOK, KevAccounted, KevMemoryOK, KevRepeatsExplained

\* Every run of the collector, the moves of CISA and a restart preserve it.
LEMMA KevStepOK == KevInv /\ [KevNext]_kevVars => KevInv'
<1> SUFFICES ASSUME KevInv, [KevNext]_kevVars PROVE KevInv'
  OBVIOUS
<1> USE DEF KevInv, KevTypeOK, KevAccounted, KevMemoryOK, KevRepeatsExplained
<1>1. ASSUME NEW c \in KevCves, KevPublish(c) PROVE KevInv'
  BY <1>1 DEF KevPublish, kevGhosts
<1>2. ASSUME NEW c \in KevCves, KevWithdraw(c) PROVE KevInv'
  BY <1>2 DEF KevWithdraw, kevGhosts
<1>3. CASE KevFire
  BY <1>3 DEF KevFire, kevGhosts
<1>4. CASE KevAnswer
  BY <1>4, KevDigestOK DEF KevAnswer
<1>5. CASE KevAnswerEmpty
  BY <1>5, KevDigestOK, KevFaultOK DEF KevAnswerEmpty
<1>6. CASE KevFail
  BY <1>6, KevFaultOK DEF KevFail, kevGhosts
<1>7. CASE KevRestart
  BY <1>7, KevFaultOK DEF KevRestart, KevNewProcess
<1>8. CASE UNCHANGED kevVars
  BY <1>8 DEF kevVars, kevGhosts
<1> QED
  BY <1>1, <1>2, <1>3, <1>4, <1>5, <1>6, <1>7, <1>8 DEF KevNext

\* The state of the CISA KEV collector keeps its types, its accounts of what it
\* alerted on, and the invariant that carries them (cisa_kev.py:28-84).
THEOREM KevInductive == KevSpec => []KevInv
BY KevInitOK, KevStepOK, PTL DEF KevSpec

\* No run forgets an addition: what the collector will not alert on any more was
\* alerted on or loaded silently (cisa_kev.py:43-65).
THEOREM KevNothingForgotten == KevSpec => []KevAccounted
<1>1. KevInv => KevAccounted
  BY DEF KevInv
<1> QED
  BY <1>1, KevInductive, PTL

\* Two runs of one process alert on the same CVE only if it left the catalogue in
\* between, or if it is one that a run stopped half-way had alerted on
\* (cisa_kev.py:43-65, 70-73).
THEOREM KevNoRepeat == KevSpec => []KevRepeatsExplained
<1>1. KevInv => KevRepeatsExplained
  BY DEF KevInv
<1> QED
  BY <1>1, KevInductive, PTL

-----------------------------------------------------------------------------
(* Vendor RSS *)

\* Only entries marked as seen were alerted on, the running call's included;
\* outside a call there is no such list.
RssMarked ==
    /\ \A e \in Entries \ seen_ids : Times(e) = 0
    /\ turn = 0 => alerts_so_far = NoAlerts

RssInv == RssTypeOK /\ RssMarked /\ RssSeriousReturned /\ RssNoRepeat

\* The bound on failed feeds is kept by what counts one.
LEMMA RssFaultOK ==
    ASSUME RssTypeOK, RssFault PROVE rssFaults' \in 0 .. MaxRssFaults
<1>1. rssFaults \in 0 .. MaxRssFaults /\ MaxRssFaults \in Nat
  BY RssAssumption DEF RssTypeOK
<1> QED
  BY <1>1 DEF RssFault

\* The run goes on with a feed there is, or ends; what was found so far is
\* kept in the list or returned, and counted either way.
LEMMA RssNextFeedOK ==
    ASSUME NEW found \in [Entries -> Nat], RssNextFeed(found), RssTypeOK, turn > 0
    PROVE  /\ turn' \in 0 .. NFeeds /\ rssStatus' \in {"idle", "ok"}
           /\ alerts_so_far' \in [Entries -> Nat] /\ rssReturned' \in [Entries -> Nat]
           /\ turn' = 0 => alerts_so_far' = NoAlerts
           /\ \A e \in Entries : Times(e)' = rssReturned[e] + found[e]
<1>1. /\ turn \in 0 .. NFeeds /\ NFeeds \in Nat /\ rssStatus \in {"idle", "ok"}
      /\ rssReturned \in [Entries -> Nat]
  BY RssAssumption DEF RssTypeOK
<1>2. CASE turn < NFeeds
  BY <1>1, <1>2 DEF RssNextFeed, Times
<1>3. CASE turn = NFeeds
  <2>1. /\ turn' = 0 /\ rssStatus' = "ok" /\ alerts_so_far' = NoAlerts
        /\ rssReturned' = Extended(rssReturned, found)
    BY <1>1, <1>3 DEF RssNextFeed
  <2>2. NoAlerts \in [Entries -> Nat] /\ \A e \in Entries : NoAlerts[e] = 0
    BY DEF NoAlerts
  <2>3. /\ Extended(rssReturned, found) \in [Entries -> Nat]
        /\ \A e \in Entries : Extended(rssReturned, found)[e] = rssReturned[e] + found[e]
    BY <1>1 DEF Extended
  <2> QED
    BY <1>1, <2>1, <2>2, <2>3 DEF Times
<1> QED
  BY <1>1, <1>2, <1>3 DEF RssNextFeed

\* What one feed makes of the memory: a silent load, or its unseen serious
\* entries alerted on; all its entries marked either way.
LEMMA RssOutcomeIs ==
    ASSUME NEW seen, NEW entries, NEW length, NEW o, o = RssOutcome(seen, entries, length)
    PROVE  \/ /\ seen = {} /\ length > RssFloor
              /\ o.alerts = {} /\ o.memory = entries
           \/ /\ ~(seen = {} /\ length > RssFloor)
              /\ o.alerts = (entries \ seen) \intersect Serious
              /\ o.memory = seen \union entries
<1>1. CASE seen = {} /\ length > RssFloor
  BY <1>1 DEF RssOutcome, Outcome
<1>2. CASE ~(seen = {} /\ length > RssFloor)
  BY <1>2 DEF RssOutcome, Outcome
<1> QED
  BY <1>1, <1>2

\* The answer of one feed preserves the account of the entries marked as seen.
LEMMA RssAnswerOK == ASSUME RssInv, RssAnswer PROVE RssInv'
<1> DEFINE list   == feeds[turn]
           length == SumFunction(list)
           o      == RssOutcome(seen_ids, Listed(list), length)
           silent == seen_ids = {} /\ length > RssFloor
           alerts == AlertsOn(o.alerts, list)
           found  == Extended(alerts_so_far, alerts)
<1>1. /\ turn > 0 /\ RssNextFeed(found)
      /\ seen_ids' = o.memory
      /\ rssSilenced' = IF silent THEN rssSilenced \union Listed(list) ELSE rssSilenced
      /\ feeds' = feeds /\ rssFaults' = rssFaults
  BY DEF RssAnswer
<1>2. \/ silent /\ o.alerts = {} /\ o.memory = Listed(list)
      \/ /\ ~silent /\ o.alerts = (Listed(list) \ seen_ids) \intersect Serious
         /\ o.memory = seen_ids \union Listed(list)
  BY RssOutcomeIs
<1>3. list \in [Entries -> Nat] /\ \A e \in Entries : list[e] <= Copies[e]
  <2>1. list \in Lists
    BY <1>1, RssAssumption DEF RssInv, RssTypeOK, Turns
  <2>2. \A e \in Entries : Copies[e] \in Nat
    BY RssAssumption
  <2>3. UNION {0 .. Copies[e] : e \in Entries} \subseteq Nat
    BY <2>2
  <2> QED
    BY <2>1, <2>3 DEF Lists
<1> HIDE DEF list, length
<1>4. /\ alerts \in [Entries -> Nat]
      /\ \A e \in Entries : alerts[e] = IF e \in o.alerts THEN list[e] ELSE 0
  BY <1>3 DEF AlertsOn
<1> HIDE DEF o, silent, alerts
<1>5. /\ found \in [Entries -> Nat]
      /\ \A e \in Entries : found[e] = alerts_so_far[e] + alerts[e]
  BY <1>4 DEF Extended, RssInv, RssTypeOK
<1> HIDE DEF found
<1>6. /\ turn' \in 0 .. NFeeds /\ rssStatus' \in {"idle", "ok"}
      /\ alerts_so_far' \in [Entries -> Nat] /\ rssReturned' \in [Entries -> Nat]
      /\ turn' = 0 => alerts_so_far' = NoAlerts
      /\ \A e \in Entries : Times(e)' = rssReturned[e] + found[e]
  BY <1>1, <1>5, RssNextFeedOK DEF RssInv
<1>7. \A e \in Entries : Times(e)' = Times(e) + alerts[e] /\ Times(e) \in Nat
  BY <1>4, <1>5, <1>6 DEF Times, RssInv, RssTypeOK
<1>8. \A e \in Entries : e \in Listed(list) <=> list[e] > 0
  BY DEF Listed
<1>9. Listed(list) \subseteq Entries
  BY DEF Listed
<1>10. RssTypeOK'
  BY <1>1, <1>2, <1>6, <1>9 DEF RssInv, RssTypeOK
<1>11. RssMarked'
  <2>1. ASSUME NEW e \in Entries \ o.memory PROVE Times(e)' = 0
    <3>1. e \notin seen_ids /\ e \notin o.alerts
      BY <1>2, <2>1 DEF silent
    <3>2. Times(e) = 0
      BY <3>1 DEF RssInv, RssMarked
    <3> QED
      BY <1>4, <1>7, <3>1, <3>2
  <2> QED
    BY <1>1, <1>6, <2>1 DEF RssMarked
<1>12. RssSeriousReturned'
  <2>1. ASSUME NEW e \in o.memory \intersect Serious PROVE Times(e)' > 0 \/ e \in rssSilenced'
    <3>1. CASE e \in seen_ids
      <4>1. e \in Entries /\ (Times(e) > 0 \/ e \in rssSilenced)
        BY <3>1 DEF RssInv, RssTypeOK, RssSeriousReturned
      <4>2. alerts[e] \in Nat /\ Times(e) \in Nat /\ Times(e)' = Times(e) + alerts[e]
        BY <1>4, <1>7, <4>1
      <4>3. CASE Times(e) > 0
        <5>1. Times(e)' > 0
          BY <4>2, <4>3
        <5> QED
          BY <5>1
      <4>4. CASE e \in rssSilenced
        <5>1. e \in rssSilenced'
          BY <1>1, <4>4
        <5> QED
          BY <5>1
      <4> QED
        BY <4>1, <4>3, <4>4
    <3>2. CASE e \notin seen_ids
      <4>1. e \in Listed(list) /\ (silent \/ e \in o.alerts)
        BY <1>2, <2>1, <3>2
      <4>2. CASE silent
        BY <1>1, <4>1, <4>2
      <4>3. CASE e \in o.alerts
        <5>1. e \in Entries /\ alerts[e] > 0
          BY <1>4, <1>8, <1>9, <4>1, <4>3
        <5>2. Times(e) \in Nat /\ Times(e)' = Times(e) + alerts[e] /\ alerts[e] \in Nat
          BY <1>4, <1>7, <5>1
        <5> QED
          BY <5>1, <5>2
      <4> QED
        BY <4>1, <4>2, <4>3
    <3> QED
      BY <3>1, <3>2
  <2> QED
    BY <1>1, <2>1 DEF RssSeriousReturned
<1>13. RssNoRepeat'
  <2>1. ASSUME NEW e \in Entries PROVE Times(e)' <= Copies[e]
    <3>1. CASE e \in o.alerts
      <4>1. e \notin seen_ids
        BY <1>2, <3>1
      <4>2. Times(e) = 0
        BY <4>1 DEF RssInv, RssMarked
      <4> QED
        BY <1>3, <1>4, <1>7, <3>1, <4>2
    <3>2. CASE e \notin o.alerts
      <4>1. Times(e)' = Times(e)
        BY <1>4, <1>7, <3>2
      <4> QED
        BY <4>1 DEF RssInv, RssNoRepeat
    <3> QED
      BY <3>1, <3>2
  <2> QED
    BY <2>1 DEF RssNoRepeat
<1> QED
  BY <1>10, <1>11, <1>12, <1>13 DEF RssInv

\* A process that has alerted on nothing is in order.
LEMMA RssNewProcessOK ==
    /\ NoAlerts \in [Entries -> Nat]
    /\ \A e \in Entries : NoAlerts[e] + NoAlerts[e] = 0 /\ Copies[e] >= 0
    /\ 0 \in 0 .. MaxRssFaults /\ 0 \in 0 .. NFeeds
BY RssAssumption DEF NoAlerts

\* Nothing has been seen when the process starts.
LEMMA RssInitOK == RssInit => RssInv
BY RssNewProcessOK
   DEF RssInit, RssInv, RssTypeOK, RssMarked, RssSeriousReturned, RssNoRepeat, Times

\* Every answer and failure of a feed, the moves of the feeds and a restart
\* preserve the invariant.
LEMMA RssStepOK == RssInv /\ [RssNext]_rssVars => RssInv'
<1> SUFFICES ASSUME RssInv, [RssNext]_rssVars PROVE RssInv'
  OBVIOUS
<1>1. ASSUME NEW i \in Turns, NEW e \in Entries, NEW n \in 0 .. Copies[e], RssChange(i, e, n)
      PROVE  RssInv'
  <2> DEFINE N == UNION {0 .. Copies[d] : d \in Entries}
  <2>1. feeds[i] \in Lists
    BY DEF RssInv, RssTypeOK
  <2>2. feeds[i] \in [Entries -> N] /\ n \in N
    BY <2>1 DEF Lists
  <2>3. [feeds[i] EXCEPT ![e] = n] \in Lists
    <3>1. [feeds[i] EXCEPT ![e] = n] \in [Entries -> N]
      BY <2>2
    <3>2. \A d \in Entries : [feeds[i] EXCEPT ![e] = n][d] <= Copies[d]
      BY <1>1, <2>1, <2>2 DEF Lists, RssChange
    <3> QED
      BY <3>1, <3>2 DEF Lists
  <2>4. feeds' \in [Turns -> Lists]
    BY <1>1, <2>3 DEF RssChange, RssInv, RssTypeOK
  <2> QED
    BY <1>1, <2>4 DEF RssChange, rssGhosts, RssInv, RssTypeOK, RssMarked, RssSeriousReturned,
                      RssNoRepeat, Times
<1>2. CASE RssFire
  <2>1. 1 \in 0 .. NFeeds
    BY RssAssumption
  <2>2. alerts_so_far' = alerts_so_far
    BY <1>2 DEF RssFire, RssInv, RssMarked
  <2> QED
    BY <1>2, <2>1, <2>2 DEF RssFire, rssGhosts, RssInv, RssTypeOK, RssMarked,
                            RssSeriousReturned, RssNoRepeat, Times
<1>3. CASE RssAnswer
  BY <1>3, RssAnswerOK
<1>4. CASE RssFailFeed
  <2>1. /\ RssNextFeed(alerts_so_far) /\ turn > 0 /\ RssFault
        /\ UNCHANGED <<feeds, seen_ids, rssSilenced>>
    BY <1>4 DEF RssFailFeed
  <2>2. /\ turn' \in 0 .. NFeeds /\ rssStatus' \in {"idle", "ok"}
        /\ alerts_so_far' \in [Entries -> Nat] /\ rssReturned' \in [Entries -> Nat]
        /\ turn' = 0 => alerts_so_far' = NoAlerts
        /\ \A e \in Entries : Times(e)' = Times(e)
    BY <2>1, RssNextFeedOK DEF RssInv, RssTypeOK, Times
  <2>3. RssTypeOK'
    BY <2>1, <2>2, RssFaultOK DEF RssInv, RssTypeOK
  <2>4. RssMarked' /\ RssNoRepeat'
    BY <2>1, <2>2 DEF RssInv, RssMarked, RssNoRepeat
  <2>5. RssSeriousReturned'
    BY <2>1, <2>2 DEF RssInv, RssTypeOK, RssSeriousReturned
  <2> QED
    BY <2>3, <2>4, <2>5 DEF RssInv
<1>5. CASE RssRestart
  BY <1>5, RssFaultOK, RssNewProcessOK
     DEF RssRestart, RssInv, RssTypeOK, RssMarked, RssSeriousReturned, RssNoRepeat, Times
<1>6. CASE UNCHANGED rssVars
  BY <1>6 DEF rssVars, rssGhosts, RssInv, RssTypeOK, RssMarked, RssSeriousReturned,
              RssNoRepeat, Times
<1> QED
  BY <1>1, <1>2, <1>3, <1>4, <1>5, <1>6 DEF RssNext

\* The state of the vendor RSS collector keeps its types and its accounts, for
\* any number of feeds (vendor_rss.py:44-111).
THEOREM RssInductive == RssSpec => []RssInv
BY RssInitOK, RssStepOK, PTL DEF RssSpec

\* A serious advisory marked as seen was returned, is about to be, or was there
\* at the silent load, whatever feeds fail (vendor_rss.py:51-104).
THEOREM RssNothingLost == RssSpec => []RssSeriousReturned
<1>1. RssInv => RssSeriousReturned
  BY DEF RssInv
<1> QED
  BY <1>1, RssInductive, PTL

\* One process alerts on an entry no oftener than one list may have it: only the
\* copies within one answer are alerted on one by one (vendor_rss.py:60-64,
\* 96-98).
THEOREM RssOnce == RssSpec => []RssNoRepeat
<1>1. RssInv => RssNoRepeat
  BY DEF RssInv
<1> QED
  BY <1>1, RssInductive, PTL

-----------------------------------------------------------------------------
(* InterSystems *)

IscInv == IscTypeOK /\ IscAccounted

\* The bound on failed requests is kept by what counts one.
LEMMA IscFaultOK ==
    ASSUME IscTypeOK, IscFault PROVE iscFaults' \in 0 .. MaxIscFaults
<1>1. iscFaults \in 0 .. MaxIscFaults /\ MaxIscFaults \in Nat
  BY IscAssumption DEF IscTypeOK
<1> QED
  BY <1>1 DEF IscFault

\* A page is loaded silently, or its unseen advisories are alerted on; it is
\* marked as seen either way.
LEMMA IscDigestOK ==
    ASSUME IscInv, NEW urls \in SUBSET Urls, IscDigest(urls),
           iscFaults' \in 0 .. MaxIscFaults
    PROVE  IscInv'
<1> DEFINE silent == seen_urls = {} /\ Cardinality(urls) > IscFloor
<1>1. CASE silent
  <2>1. /\ isc_pc' = "idle" /\ seen_urls' = urls /\ iscReturned' = iscReturned
        /\ iscSilenced' = iscSilenced \union urls
        /\ iscStatus' = "ok (initial load)" /\ page' = page
    BY <1>1 DEF IscDigest, IscOutcome, Outcome
  <2> QED
    BY <2>1 DEF IscInv, IscTypeOK, IscAccounted
<1>2. CASE ~silent
  <2>1. /\ isc_pc' = "idle" /\ seen_urls' = seen_urls \union urls
        /\ iscReturned' = iscReturned \union (urls \ seen_urls)
        /\ iscSilenced' = iscSilenced /\ iscStatus' = "ok" /\ page' = page
    BY <1>2 DEF IscDigest, IscOutcome, Outcome
  <2> QED
    BY <2>1 DEF IscInv, IscTypeOK, IscAccounted
<1> QED
  BY <1>1, <1>2

\* Every run, the moves of the page and a restart preserve the invariant.
LEMMA IscStepOK == IscInv /\ [IscNext]_iscVars => IscInv'
<1> SUFFICES ASSUME IscInv, [IscNext]_iscVars PROVE IscInv'
  OBVIOUS
<1> USE DEF IscInv, IscTypeOK, IscAccounted
<1>1. ASSUME NEW u \in Urls, IscPublish(u) PROVE IscInv'
  BY <1>1 DEF IscPublish, iscGhosts
<1>2. CASE IscFire
  BY <1>2 DEF IscFire, iscGhosts
<1>3. CASE IscAnswer
  BY <1>3, IscDigestOK DEF IscAnswer
<1>4. CASE IscBarrenPage
  BY <1>4, IscDigestOK, IscFaultOK DEF IscBarrenPage
<1>5. CASE IscFail
  BY <1>5, IscFaultOK DEF IscFail, iscGhosts
<1>6. CASE IscRestart
  BY <1>6, IscFaultOK DEF IscRestart
<1>7. CASE UNCHANGED iscVars
  BY <1>7 DEF iscVars, iscGhosts
<1> QED
  BY <1>1, <1>2, <1>3, <1>4, <1>5, <1>6, <1>7 DEF IscNext

\* The state of the InterSystems collector keeps its types and its account of
\* every advisory marked as seen (intersystems.py:24-115).
THEOREM IscInductive == IscSpec => []IscInv
<1>1. IscInit => IscInv
  <2>1. 0 \in 0 .. MaxIscFaults
    BY IscAssumption
  <2> QED
    BY <2>1 DEF IscInit, IscInv, IscTypeOK, IscAccounted
<1> QED
  BY <1>1, IscStepOK, PTL DEF IscSpec

\* Every advisory marked as seen was alerted on or loaded silently
\* (intersystems.py:58-109).
THEOREM IscNothingLost == IscSpec => []IscAccounted
<1>1. IscInv => IscAccounted
  BY DEF IscInv
<1> QED
  BY <1>1, IscInductive, PTL

-----------------------------------------------------------------------------
(* NVD delta *)

\* The order of the times the windows are made of.
NvdTimesOK ==
    /\ Lookback <= clock
    /\ last_check <= clock /\ now <= clock
    /\ nvd_pc = "asking" => last_check <= now
    /\ \A c \in NvdCves : modified[c] <= clock

NvdInv == NvdTypeOK /\ NvdTimesOK /\ NvdNoGap

\* Printing a time to the second goes back, by less than a second.
LEMMA SecondIs ==
    ASSUME NEW t \in Nat
    PROVE  /\ Second(t) \in Nat /\ Second(t) <= t
           /\ \E q \in Int : Second(t) = TicksPerSecond * q /\ t < TicksPerSecond * q + TicksPerSecond
<1>1. TicksPerSecond \in Nat /\ TicksPerSecond > 0
  BY NvdAssumption
<1> DEFINE r == t % TicksPerSecond
           q == t \div TicksPerSecond
<1>2. r \in 0 .. TicksPerSecond - 1 /\ t = TicksPerSecond * q + r /\ q \in Int
  BY <1>1, Z3
<1>3. Second(t) = t - r
  BY DEF Second
<1> HIDE DEF r, q
<1>4. Second(t) \in Int /\ Second(t) <= t
  BY <1>1, <1>2, <1>3
<1>5. Second(t) = TicksPerSecond * q /\ t < TicksPerSecond * q + TicksPerSecond
  BY <1>1, <1>2, <1>3
<1>6. q >= 0
  <2>1. TicksPerSecond * (q + 1) > 0
    BY <1>1, <1>2, <1>5
  <2> QED
    BY <1>1, <1>2, <2>1
<1>7. TicksPerSecond * q >= 0
  BY <1>1, <1>2, <1>6
<1> QED
  BY <1>2, <1>4, <1>5, <1>7

\* A later time is never printed as an earlier second.
LEMMA SecondMonotone ==
    ASSUME NEW t \in Nat, NEW u \in Nat, t <= u
    PROVE  Second(t) <= Second(u)
<1>1. TicksPerSecond \in Nat /\ TicksPerSecond > 0
  BY NvdAssumption
<1>2. PICK p \in Int : Second(t) = TicksPerSecond * p /\ Second(t) <= t
  BY SecondIs
<1>3. PICK q \in Int : Second(u) = TicksPerSecond * q /\ u < TicksPerSecond * q + TicksPerSecond
  BY SecondIs
<1>4. TicksPerSecond * p < TicksPerSecond * (q + 1)
  BY <1>1, <1>2, <1>3
<1>5. p < q + 1
  BY <1>1, <1>4
<1>6. TicksPerSecond * p <= TicksPerSecond * q
  BY <1>1, <1>5
<1> QED
  BY <1>2, <1>3, <1>6

\* The bound on failed requests and restarts is kept by what counts one.
LEMMA NvdFaultOK ==
    ASSUME NvdTypeOK, NvdFault PROVE nvdFaults' \in 0 .. MaxNvdFaults
<1>1. nvdFaults \in 0 .. MaxNvdFaults /\ MaxNvdFaults \in Nat
  BY NvdAssumption DEF NvdTypeOK
<1> QED
  BY <1>1 DEF NvdFault

\* The times of the collector are natural numbers; a CVE never modified has
\* none.
LEMMA NvdTimesNat ==
    ASSUME NvdTypeOK
    PROVE  /\ clock \in Nat /\ last_check \in Nat /\ now \in Nat /\ horizon \in Nat
           /\ \A c \in NvdCves : modified[c] \in Nat \/ modified[c] = -1
<1>1. MaxClock \in Nat
  BY NvdAssumption
<1>2. \A c \in NvdCves : modified[c] \in Clock \union {Never}
  BY DEF NvdTypeOK
<1> QED
  BY <1>1, <1>2 DEF NvdTypeOK, Clock, Never

\* An answer to a window: what it returns is of the window, and a window that is
\* done with was returned as a whole.
LEMMA NvdAnswerIs ==
    ASSUME NvdAnswer, NvdTypeOK
    PROVE  \E alerts \in SUBSET NvdWindow :
              /\ reported' = reported \union {<<c, modified[c]>> : c \in alerts}
              /\ \/ last_check' = now /\ alerts = NvdWindow
                 \/ last_check' = last_check
<1>1. PICK alerts \in NvdAlerts(NvdWindow) :
        reported' = reported \union {<<c, modified[c]>> : c \in alerts}
  BY DEF NvdAnswer
<1>2. CASE NvdWindowDone(NvdWindow)
  <2>1. alerts = NvdWindow
    BY <1>2 DEF NvdAlerts, NvdWindowDone
  <2>2. last_check' = now
    BY <1>2 DEF NvdAnswer
  <2> QED
    BY <1>1, <2>1, <2>2
<1>3. CASE ~NvdWindowDone(NvdWindow)
  <2>1. alerts \in SUBSET NvdWindow
    BY <1>3 DEF NvdAlerts, NvdWindowDone
  <2>2. last_check' = last_check
    BY <1>3 DEF NvdAnswer
  <2> QED
    BY <1>1, <2>1, <2>2
<1> QED
  BY <1>2, <1>3

\* Two windows meet: what the second one starts after, the first one reported.
LEMMA NvdAnswerOK == ASSUME NvdInv, NvdAnswer PROVE NvdInv'
<1>1. PICK alerts \in SUBSET NvdWindow :
        /\ reported' = reported \union {<<c, modified[c]>> : c \in alerts}
        /\ \/ last_check' = now /\ alerts = NvdWindow
           \/ last_check' = last_check
  BY NvdAnswerIs DEF NvdInv
<1>2. /\ UNCHANGED <<clock, modified, horizon, nvdFaults>>
      /\ nvd_pc = "asking" /\ nvd_pc' = "idle" /\ now' = 0 /\ nvdStatus' \in {"ok", "error"}
  BY DEF NvdAnswer
<1>3. /\ clock \in Nat /\ last_check \in Nat /\ now \in Nat /\ horizon \in Nat
      /\ \A c \in NvdCves : modified[c] \in Nat \/ modified[c] = -1
  BY NvdTimesNat DEF NvdInv
<1>4. Second(last_check) \in Nat
  BY <1>3, SecondIs
<1>5. \A c \in NvdWindow : c \in NvdCves /\ modified[c] \in Clock
  BY <1>3, <1>4, NvdAssumption DEF NvdWindow, NvdInv, NvdTypeOK, Clock, Never
<1>6. NvdTypeOK'
  <2>1. reported' \subseteq NvdCves \X Clock
    BY <1>1, <1>5 DEF NvdInv, NvdTypeOK
  <2>2. 0 \in Clock /\ last_check' \in Clock
    BY <1>1, NvdAssumption DEF NvdInv, NvdTypeOK, Clock
  <2> QED
    BY <1>2, <2>1, <2>2 DEF NvdInv, NvdTypeOK
<1>7. NvdTimesOK'
  BY <1>1, <1>2, <1>3 DEF NvdInv, NvdTimesOK
<1>8. NvdNoGap'
  <2> SUFFICES ASSUME NEW c \in NvdCves, horizon <= modified[c],
                      modified[c] < Second(last_check')
               PROVE  <<c, modified[c]>> \in reported'
    BY <1>2 DEF NvdNoGap, Second
  <2>1. CASE modified[c] < Second(last_check)
    BY <1>1, <2>1 DEF NvdInv, NvdNoGap
  <2>2. CASE ~(modified[c] < Second(last_check))
    <3>1. last_check' = now /\ alerts = NvdWindow
      BY <1>1, <2>2
    <3>2. Second(now) \in Nat
      BY <1>3, SecondIs
    <3>3. c \in NvdWindow
      BY <1>3, <1>4, <2>2, <3>1, <3>2 DEF NvdWindow
    <3> QED
      BY <1>1, <3>1, <3>3
  <2> QED
    BY <2>1, <2>2
<1> QED
  BY <1>6, <1>7, <1>8 DEF NvdInv

\* A restart looks back to a time the earlier windows cover, or coverage starts
\* anew there.
LEMMA NvdRestartOK == ASSUME NvdInv, NvdRestart PROVE NvdInv'
<1>1. /\ clock \in Nat /\ last_check \in Nat /\ now \in Nat /\ horizon \in Nat
      /\ \A c \in NvdCves : modified[c] \in Nat \/ modified[c] = -1
  BY NvdTimesNat DEF NvdInv
<1>2. Lookback \in Nat /\ clock - Lookback \in Nat /\ clock - Lookback <= clock
  BY <1>1, NvdAssumption DEF NvdInv, NvdTimesOK
<1>3. NvdTypeOK'
  <2>1. clock - Lookback \in Clock /\ 0 \in Clock
    BY <1>1, <1>2, NvdAssumption DEF NvdInv, NvdTypeOK, Clock
  <2> QED
    BY <2>1, NvdFaultOK DEF NvdRestart, NvdInv, NvdTypeOK
<1>4. NvdTimesOK'
  BY <1>1, <1>2 DEF NvdRestart, NvdInv, NvdTimesOK
<1>5. NvdNoGap'
  <2> SUFFICES ASSUME NEW c \in NvdCves, horizon' <= modified[c],
                      modified[c] < Second(clock - Lookback)
               PROVE  <<c, modified[c]>> \in reported
    BY DEF NvdNoGap, NvdRestart, Second
  <2>0. Second(clock - Lookback) \in Nat /\ Second(clock - Lookback) <= clock - Lookback
    BY <1>2, SecondIs
  <2>1. clock - Lookback <= last_check /\ horizon' = horizon
    BY <1>1, <1>2, <2>0 DEF NvdRestart
  <2>2. Second(clock - Lookback) <= Second(last_check) /\ Second(last_check) \in Nat
    BY <1>1, <1>2, <2>1, SecondMonotone, SecondIs
  <2>3. modified[c] < Second(last_check)
    BY <1>1, <2>0, <2>2
  <2> QED
    BY <2>1, <2>3 DEF NvdInv, NvdNoGap
<1> QED
  BY <1>3, <1>4, <1>5 DEF NvdInv

\* The first window reaches back to before anything the model's clock shows.
LEMMA NvdInitOK == NvdInit => NvdInv
<1> SUFFICES ASSUME NvdInit PROVE NvdInv
  OBVIOUS
<1>1. 0 \in Clock /\ Lookback \in Clock /\ 0 \in 0 .. MaxNvdFaults
  BY NvdAssumption DEF Clock
<1>2. \A c \in NvdCves : modified[c] \in 0 .. Lookback \/ modified[c] = -1
  BY DEF NvdInit, Never
<1>3. NvdTypeOK
  <2>1. modified \in [NvdCves -> Clock \union {Never}]
    BY <1>2, NvdAssumption DEF NvdInit, Clock, Never
  <2> QED
    BY <1>1, <2>1 DEF NvdInit, NvdTypeOK
<1>4. NvdTimesOK
  BY <1>2, NvdAssumption DEF NvdInit, NvdTimesOK
<1>5. NvdNoGap
  <2>1. Second(0) <= 0 /\ Second(0) \in Nat
    BY SecondIs
  <2>2. ASSUME NEW c \in NvdCves, horizon <= modified[c], modified[c] < Second(last_check)
        PROVE  FALSE
    BY <1>2, <2>1, <2>2, NvdAssumption DEF NvdInit
  <2> QED
    BY <2>2 DEF NvdNoGap
<1> QED
  BY <1>3, <1>4, <1>5 DEF NvdInv

\* The clock, NVD, the runs of the collector and a restart preserve the
\* invariant.
LEMMA NvdStepOK == NvdInv /\ [NvdNext]_nvdVars => NvdInv'
<1> SUFFICES ASSUME NvdInv, [NvdNext]_nvdVars PROVE NvdInv'
  OBVIOUS
<1>0. /\ clock \in Nat /\ last_check \in Nat /\ now \in Nat /\ horizon \in Nat
      /\ \A c \in NvdCves : modified[c] \in Nat \/ modified[c] = -1
  BY NvdTimesNat DEF NvdInv
<1>1. CASE NvdTick
  <2>1. NvdTypeOK'
    BY <1>0, <1>1, NvdAssumption DEF NvdTick, NvdInv, NvdTypeOK, Clock
  <2>2. NvdTimesOK'
    BY <1>0, <1>1, NvdAssumption DEF NvdTick, NvdInv, NvdTimesOK
  <2>3. NvdNoGap'
    BY <1>1 DEF NvdTick, NvdInv, NvdNoGap, Second
  <2> QED
    BY <2>1, <2>2, <2>3 DEF NvdInv
<1>2. ASSUME NEW c \in NvdCves, NvdModify(c) PROVE NvdInv'
  <2>1. /\ modified' \in [NvdCves -> Clock \union {Never}]
        /\ modified'[c] = clock
        /\ \A d \in NvdCves \ {c} : modified'[d] = modified[d]
    BY <1>2 DEF NvdModify, NvdInv, NvdTypeOK
  <2>2. NvdTypeOK'
    BY <1>2, <2>1 DEF NvdModify, NvdInv, NvdTypeOK
  <2>3. NvdTimesOK'
    BY <1>0, <1>2, <2>1 DEF NvdModify, NvdInv, NvdTimesOK
  <2>4. NvdNoGap'
    <3>1. Second(last_check) \in Nat /\ Second(last_check) <= last_check
      BY <1>0, SecondIs
    <3>2. ~(modified'[c] < Second(last_check))
      BY <1>0, <2>1, <3>1 DEF NvdInv, NvdTimesOK
    <3>3. ASSUME NEW d \in NvdCves, horizon <= modified'[d], modified'[d] < Second(last_check)
          PROVE  <<d, modified'[d]>> \in reported
      BY <2>1, <3>2, <3>3 DEF NvdInv, NvdNoGap
    <3> QED
      BY <1>2, <3>3 DEF NvdModify, NvdNoGap, Second
  <2> QED
    BY <2>2, <2>3, <2>4 DEF NvdInv
<1>3. CASE NvdFire
  <2>1. NvdTypeOK'
    BY <1>3 DEF NvdFire, NvdInv, NvdTypeOK
  <2>2. NvdTimesOK'
    BY <1>0, <1>3 DEF NvdFire, NvdInv, NvdTimesOK
  <2>3. NvdNoGap'
    BY <1>3 DEF NvdFire, NvdInv, NvdNoGap, Second
  <2> QED
    BY <2>1, <2>2, <2>3 DEF NvdInv
<1>4. CASE NvdAnswer
  BY <1>4, NvdAnswerOK
<1>5. CASE NvdFail
  <2>1. NvdTypeOK'
    <3>1. 0 \in Clock
      BY NvdAssumption DEF Clock
    <3> QED
      BY <1>5, <3>1, NvdFaultOK DEF NvdFail, NvdInv, NvdTypeOK
  <2>2. NvdTimesOK'
    BY <1>0, <1>5 DEF NvdFail, NvdInv, NvdTimesOK
  <2>3. NvdNoGap'
    BY <1>5 DEF NvdFail, NvdInv, NvdNoGap, Second
  <2> QED
    BY <2>1, <2>2, <2>3 DEF NvdInv
<1>6. CASE NvdRestart
  BY <1>6, NvdRestartOK
<1>7. CASE UNCHANGED nvdVars
  BY <1>7 DEF nvdVars, NvdInv, NvdTypeOK, NvdTimesOK, NvdNoGap, Second
<1> QED
  BY <1>1, <1>2, <1>3, <1>4, <1>5, <1>6, <1>7 DEF NvdNext

\* The times of the NVD collector stay in order and its windows leave no gap,
\* for every clock, look-back and resolution (nvd_delta.py:14-99).
THEOREM NvdInductive == NvdSpec => []NvdInv
BY NvdInitOK, NvdStepOK, PTL DEF NvdSpec

\* No modification falls between two windows, whatever runs fail and however
\* often the process restarts (nvd_delta.py:16, 22-26, 89, 94-97).
THEOREM NvdWindowsMeet == NvdSpec => []NvdNoGap
<1>1. NvdInv => NvdNoGap
  BY DEF NvdInv
<1> QED
  BY <1>1, NvdInductive, PTL

\* Only what converts is reported.
NvdReadable == \A pair \in reported : pair[1] \notin Malformed

\* The alerts of an answer are the readable CVEs of its window.
LEMMA NvdReadableStep == NvdReadable /\ [NvdNext]_nvdVars => NvdReadable'
<1> SUFFICES ASSUME NvdReadable, [NvdNext]_nvdVars PROVE NvdReadable'
  OBVIOUS
<1>1. CASE UNCHANGED reported
  BY <1>1 DEF NvdReadable
<1>2. CASE NvdAnswer
  <2>1. PICK alerts \in NvdAlerts(NvdWindow) :
          reported' = reported \union {<<c, modified[c]>> : c \in alerts}
    BY <1>2 DEF NvdAnswer
  <2>2. \A c \in alerts : c \notin Malformed
    BY <2>1 DEF NvdAlerts
  <2> QED
    BY <2>1, <2>2 DEF NvdReadable
<1> QED
  BY <1>1, <1>2 DEF NvdNext, NvdTick, NvdModify, NvdFire, NvdFail, NvdRestart, nvdVars

\* The collector never steps over a CVE it cannot convert: as long as that is not
\* modified again, every window of the process starts at it or before, and the runs
\* fail on it (nvd_delta.py:47-51, 89, 94-97).  What NvdStuckShows is about is
\* therefore there until it shows.
THEOREM NvdNeverPassesMalformed ==
    NvdSpec => [](\A b \in NvdCves \intersect Malformed :
                     horizon <= modified[b] => Second(last_check) <= modified[b])
<1>1. NvdInit => NvdReadable
  BY DEF NvdInit, NvdReadable
<1>2. ASSUME NvdInv, NvdReadable, NEW b \in NvdCves \intersect Malformed, horizon <= modified[b]
      PROVE  Second(last_check) <= modified[b]
  <2>1. <<b, modified[b]>> \notin reported
    <3>1. <<b, modified[b]>>[1] = b
      OBVIOUS
    <3> QED
      BY <1>2, <3>1 DEF NvdReadable
  <2>2. ~(modified[b] < Second(last_check))
    BY <1>2, <2>1 DEF NvdInv, NvdNoGap
  <2>3. modified[b] \in Int /\ Second(last_check) \in Int
    <3>1. last_check \in Nat /\ TicksPerSecond \in Nat \ {0} /\ modified[b] \in Int
      BY <1>2, NvdAssumption DEF NvdInv, NvdTypeOK, Clock, Never
    <3> QED
      BY <3>1 DEF Second
  <2> QED
    BY <2>2, <2>3
<1>3. NvdInv /\ NvdReadable =>
        \A b \in NvdCves \intersect Malformed :
            horizon <= modified[b] => Second(last_check) <= modified[b]
  BY <1>2
<1> QED
  BY <1>1, <1>3, NvdReadableStep, NvdInductive, PTL DEF NvdSpec

-----------------------------------------------------------------------------
(* The composition *)

\* The collectors side by side are each the collector by itself: none reads or
\* writes another's state (scheduler.py:19-26).
THEOREM CollectorsApart == FairSpec => KevSpec /\ RssSpec /\ IscSpec /\ NvdSpec
<1>1. Init => KevInit /\ RssInit /\ IscInit /\ NvdInit
  BY DEF Init
<1>2. [Next]_vars => [KevNext]_kevVars
  BY DEF Next, vars, KevRuns, RssRuns, IscRuns, NvdRuns
<1>3. [Next]_vars => [RssNext]_rssVars
  BY DEF Next, vars, KevRuns, RssRuns, IscRuns, NvdRuns
<1>4. [Next]_vars => [IscNext]_iscVars
  BY DEF Next, vars, KevRuns, RssRuns, IscRuns, NvdRuns
<1>5. [Next]_vars => [NvdNext]_nvdVars
  BY DEF Next, vars, KevRuns, RssRuns, IscRuns, NvdRuns
<1> QED
  BY <1>1, <1>2, <1>3, <1>4, <1>5, PTL DEF FairSpec, KevSpec, RssSpec, IscSpec, NvdSpec

\* The state of the four collectors keeps its types.
THEOREM CollectorsTypeCorrect == FairSpec => []TypeOK
<1>1. KevInv /\ RssInv /\ IscInv /\ NvdInv => TypeOK
  BY DEF KevInv, RssInv, IscInv, NvdInv, TypeOK
<1> QED
  BY <1>1, CollectorsApart, KevInductive, RssInductive, IscInductive, NvdInductive, PTL
=============================================================================
