--------------------------- MODULE ScriptsProofs ----------------------------
(***************************************************************************)
(* The programs beside the service, each for every value of its constants: *)
(* the full scan, the OCSP responder and the two reset scripts; then the   *)
(* three together, as the run checks them.                                 *)
(***************************************************************************)
EXTENDS MCScripts, MatchingProofs

-----------------------------------------------------------------------------
(* force_full_scan.py *)

\* The steps from which the answer of NVD is in all_alerts.
Collected == {"kev1", "kev2", "rss", "isc1", "isc2", "dispatch", "end"}

NvdCarried(s) == {a \in s : Source[a] = "nvd_delta"}

\* Once NVD has answered, what it carried at the start is among the alerts, the
\* serious entries of the feeds that were read are unless a silent load marked
\* them, and what the script ends with is what matches of the alerts.
ScanInv ==
    /\ TypeOK
    /\ (seen_ids \intersect Serious) \ silenced \subseteq all_alerts
    /\ step \in Collected /\ failed \intersect {"ocs", "nvd_delta"} = {}
         /\ From("nvd_delta") \intersect Malformed = {}
          => NvdCarried(opening) \subseteq all_alerts
    /\ step \in {"dispatch", "end"} /\ "ocs" \notin failed
          => matched = Match(Index, all_alerts)

\* The awaits of the script by name.
LEMMA StepNames ==
    StepSet = {"ocs", "nvd", "kev1", "kev2", "rss", "isc1", "isc2", "dispatch", "end"}
<1>1. Steps = <<"ocs", "nvd", "kev1", "kev2", "rss", "isc1", "isc2", "dispatch", "end">>
  BY DEF Steps
<1>2. 1 .. 9 = {1, 2, 3, 4, 5, 6, 7, 8, 9}
  OBVIOUS
<1>3. /\ Steps[1] = "ocs" /\ Steps[2] = "nvd" /\ Steps[3] = "kev1" /\ Steps[4] = "kev2"
      /\ Steps[5] = "rss" /\ Steps[6] = "isc1" /\ Steps[7] = "isc2"
      /\ Steps[8] = "dispatch" /\ Steps[9] = "end"
  BY <1>1
<1> QED
  BY <1>2, <1>3 DEF StepSet

\* What a collector of the scan returns, the source carries.
LEMMA AnswersCarried ==
    ASSUME carried \subseteq Advisories, known_cves \subseteq Advisories,
           seen_urls \subseteq Advisories
    PROVE  /\ \A alerts \in NvdAlerts(From("nvd_delta")) :
                 /\ alerts \subseteq Advisories
                 /\ From("nvd_delta") \intersect Malformed = {} => From("nvd_delta") \subseteq alerts
           /\ \A o \in KevOutcomes(known_cves, From("cisa_kev")) :
                 o.alerts \subseteq Advisories /\ o.memory \subseteq Advisories
           /\ IscOutcome(seen_urls, From("intersystems")).alerts \subseteq Advisories
           /\ IscOutcome(seen_urls, From("intersystems")).memory \subseteq Advisories
<1>1. \A job : From(job) \subseteq Advisories
  BY DEF From
<1>2. \A alerts \in NvdAlerts(From("nvd_delta")) :
        /\ alerts \subseteq Advisories
        /\ From("nvd_delta") \intersect Malformed = {} => From("nvd_delta") \subseteq alerts
  BY <1>1 DEF NvdAlerts
<1>3. \A o \in KevOutcomes(known_cves, From("cisa_kev")) :
        o.alerts \subseteq Advisories /\ o.memory \subseteq Advisories
  BY <1>1 DEF KevOutcomes, Outcome
<1>4. /\ IscOutcome(seen_urls, From("intersystems")).alerts \subseteq Advisories
      /\ IscOutcome(seen_urls, From("intersystems")).memory \subseteq Advisories
  BY <1>1 DEF IscOutcome, Outcome
<1> QED
  BY <1>2, <1>3, <1>4

\* The script starts before its first await with nothing collected.
LEMMA ScanInitOK == Init => ScanInv
BY StepNames, ScanAssumption DEF Init, ScanInv, TypeOK, Collected, Match

\* The end of the collection: what matches is dispatched.
LEMMA ConcludeOK ==
    ASSUME ScanInv, step \in {"isc1", "isc2"}, NEW alerts \in SUBSET Advisories,
           all_alerts \subseteq alerts, Conclude(alerts),
           seen_urls' \subseteq Advisories, failed \subseteq failed',
           failed' \subseteq {"ocs", "nvd_delta", "cisa_kev", "vendor_rss", "intersystems"},
           UNCHANGED <<carried, known_cves, feedVars, opening>>
    PROVE  ScanInv'
<1>1. /\ all_alerts' = alerts /\ matched' = Match(Index, alerts)
      /\ step' \in {"dispatch", "end"}
  BY DEF Conclude
<1>2. Match(Index, alerts) \subseteq alerts
  BY DEF Match
<1>3. step \in Collected
  BY DEF Collected
<1> QED
  BY <1>1, <1>2, <1>3, StepNames DEF ScanInv, TypeOK, From, NvdCarried, feedVars

\* One feed read or failed, and the next one's turn: nothing collected is lost.
LEMMA FeedOK ==
    ASSUME ScanInv, step = "rss", NextFeed,
           all_alerts \subseteq all_alerts', all_alerts' \subseteq Advisories,
           seen_ids' \subseteq Advisories, silenced' \subseteq seen_ids',
           (seen_ids' \intersect Serious) \ silenced' \subseteq all_alerts',
           failed' \in {failed, failed \union {"vendor_rss"}},
           UNCHANGED <<carried, known_cves, seen_urls, matched, opening>>
    PROVE  ScanInv'
<1>1. step' \in {"rss", "isc1"} /\ feed' \in 1 .. NFeeds
  BY ScanAssumption DEF NextFeed, ScanInv, TypeOK
<1> QED
  BY <1>1, StepNames DEF ScanInv, TypeOK, Collected, From, NvdCarried

\* Every await of the script, answered or failed, preserves the invariant.
LEMMA ScanStepOK == ScanInv /\ [Next]_vars => ScanInv'
<1> SUFFICES ASSUME ScanInv, [Next]_vars PROVE ScanInv'
  OBVIOUS
<1>1. /\ carried \subseteq Advisories /\ known_cves \subseteq Advisories
      /\ seen_urls \subseteq Advisories /\ all_alerts \subseteq Advisories
      /\ matched \subseteq all_alerts /\ opening \subseteq carried
      /\ failed \subseteq {"ocs", "nvd_delta", "cisa_kev", "vendor_rss", "intersystems"}
      /\ step \in StepSet
      /\ feed \in 1 .. NFeeds /\ seen_ids \subseteq Advisories /\ silenced \subseteq seen_ids
      /\ (seen_ids \intersect Serious) \ silenced \subseteq all_alerts
  BY DEF ScanInv, TypeOK
<1>2. CASE RefreshLoads
  BY <1>1, <1>2, StepNames DEF RefreshLoads, ScanInv, TypeOK, Collected, ghosts, feedVars
<1>3. CASE RefreshRaises
  BY <1>1, <1>3, StepNames DEF RefreshRaises, ScanInv, TypeOK, Collected, feedVars
<1>4. CASE Nvd
  <2>1. PICK alerts \in NvdAlerts(From("nvd_delta")) : all_alerts' = all_alerts \union alerts
    BY <1>4 DEF Nvd
  <2>2. NvdCarried(opening) \subseteq From("nvd_delta")
    BY <1>1 DEF NvdCarried, From
  <2>3. /\ step' = "kev1"
        /\ UNCHANGED <<carried, known_cves, feedVars, seen_urls, matched, opening, failed>>
    BY <1>4 DEF Nvd, ghosts
  <2>4. /\ alerts \subseteq Advisories
        /\ From("nvd_delta") \intersect Malformed = {} => From("nvd_delta") \subseteq alerts
    BY <1>1, <2>1, AnswersCarried
  <2> QED
    BY <1>1, <2>1, <2>2, <2>3, <2>4, StepNames DEF ScanInv, TypeOK, From, NvdCarried, feedVars
<1>5. CASE Kev1
  BY <1>1, <1>5, StepNames DEF Kev1, ScanInv, TypeOK, Collected, From, NvdCarried, ghosts, feedVars
<1>6. CASE Kev2
  <2>1. /\ step \in Collected /\ step' = "rss"
        /\ UNCHANGED <<carried, feedVars, seen_urls, matched, opening, failed>>
        /\ all_alerts \subseteq all_alerts' /\ all_alerts' \subseteq Advisories
        /\ known_cves' \subseteq Advisories
    BY <1>1, <1>6, AnswersCarried DEF Kev2, Collected, ghosts
  <2> QED
    BY <1>1, <2>1, StepNames DEF ScanInv, TypeOK, From, NvdCarried, feedVars
<1>7. CASE Isc1
  <2> DEFINE o == IscOutcome(seen_urls, From("intersystems"))
  <2>1. o.alerts \subseteq Advisories /\ o.memory \subseteq Advisories
    BY <1>1, AnswersCarried
  <2> HIDE DEF o
  <2>2. CASE o.alerts = {} /\ o.memory # {}
    <3>1. /\ step' = "isc2" /\ step = "isc1" /\ seen_urls' \subseteq Advisories
          /\ UNCHANGED <<carried, known_cves, feedVars, all_alerts, matched, opening, failed>>
      BY <1>7, <2>1, <2>2 DEF Isc1, ghosts, o
    <3> QED
      BY <1>1, <3>1, StepNames DEF ScanInv, TypeOK, Collected, From, NvdCarried, feedVars
  <2>3. CASE ~(o.alerts = {} /\ o.memory # {})
    <3>1. /\ step = "isc1" /\ seen_urls' = o.memory /\ Conclude(all_alerts \union o.alerts)
          /\ UNCHANGED <<carried, known_cves, feedVars, opening, failed>>
      BY <1>7, <2>3 DEF Isc1, ghosts, o
    <3> QED
      BY <1>1, <2>1, <3>1, ConcludeOK
  <2> QED
    BY <2>2, <2>3
<1>8. CASE Isc2
  <2> DEFINE o == IscOutcome(seen_urls, From("intersystems"))
  <2>1. o.alerts \subseteq Advisories /\ o.memory \subseteq Advisories
    BY <1>1, AnswersCarried
  <2>2. /\ step = "isc2" /\ seen_urls' = o.memory /\ Conclude(all_alerts \union o.alerts)
        /\ UNCHANGED <<carried, known_cves, feedVars, opening, failed>>
    BY <1>8 DEF Isc2, ghosts
  <2> HIDE DEF o
  <2> QED
    BY <1>1, <2>1, <2>2, ConcludeOK
<1>9. CASE Dispatch
  BY <1>1, <1>9, StepNames DEF Dispatch, ScanInv, TypeOK, Collected, From, NvdCarried, ghosts, feedVars
<1>10. CASE CollectFails
  <2>1. CASE IscFails
    BY <1>1, <2>1, ConcludeOK DEF IscFails
  <2>2. CASE Skip("nvd", "kev1", "nvd_delta")
    BY <1>1, <2>2, StepNames DEF Skip, ScanInv, TypeOK, Collected, feedVars
  <2>3. CASE Skip("kev1", "kev2", "cisa_kev") \/ Skip("kev2", "rss", "cisa_kev")
    <3>1. /\ step \in Collected /\ step' \in {"kev2", "rss"}
          /\ failed' = failed \union {"cisa_kev"}
          /\ UNCHANGED <<carried, known_cves, feedVars, seen_urls, all_alerts, matched, opening>>
      BY <2>3 DEF Skip, Collected
    <3> QED
      BY <1>1, <3>1, StepNames DEF ScanInv, TypeOK, From, NvdCarried, feedVars
  <2>4. CASE RssFeedFails
    BY <1>1, <2>4, FeedOK DEF RssFeedFails
  <2> QED
    BY <1>10, <2>1, <2>2, <2>3, <2>4 DEF CollectFails
<1>11. CASE \E a \in Advisories : Publish(a)
  <2>1. /\ carried \subseteq carried' /\ carried' \subseteq Advisories
        /\ UNCHANGED <<step, known_cves, feedVars, seen_urls, all_alerts, matched, opening, failed>>
    BY <1>1, <1>11 DEF Publish, ghosts
  <2>2. From("nvd_delta") \subseteq From("nvd_delta")'
    BY <2>1 DEF From
  <2> QED
    BY <1>1, <2>1, <2>2 DEF ScanInv, TypeOK, NvdCarried, feedVars
<1>12. CASE UNCHANGED vars
  BY <1>12 DEF vars, ghosts, feedVars, ScanInv, TypeOK, From, NvdCarried
<1>13. CASE Rss
  <2> DEFINE here == From("vendor_rss") \intersect FeedEntries[feed]
             o    == RssOutcome(seen_ids, here, Cardinality(here))
  <2>1. /\ step = "rss" /\ NextFeed
        /\ all_alerts' = all_alerts \union o.alerts /\ seen_ids' = o.memory
        /\ silenced' = IF seen_ids = {} /\ Cardinality(here) > RssFloor
                       THEN silenced \union here ELSE silenced
        /\ UNCHANGED <<carried, known_cves, seen_urls, matched, opening, failed>>
    BY <1>13 DEF Rss, ghosts
  <2>2. here \subseteq Advisories
    BY <1>1 DEF From
  <2> HIDE DEF here
  <2>3. /\ o.alerts \subseteq Advisories /\ o.memory \subseteq Advisories
        /\ silenced' \subseteq o.memory
        /\ (o.memory \intersect Serious) \ silenced' \subseteq all_alerts \union o.alerts
    BY <1>1, <2>1, <2>2 DEF RssOutcome, Outcome
  <2> HIDE DEF o
  <2> QED
    BY <1>1, <2>1, <2>3, FeedOK
<1> QED
  BY <1>2, <1>3, <1>4, <1>5, <1>6, <1>7, <1>8, <1>9, <1>10, <1>11, <1>12, <1>13 DEF Next, Script

\* Once NVD has answered, what it carried at the start stays among the alerts.
THEOREM ScanInductive == Spec => []ScanInv
BY ScanInitOK, ScanStepOK, PTL DEF Spec

\* Neither the silent loads nor the failures of the other sources cost an alert
\* on an NVD CVE or on an entry of a feed that was read (force_full_scan.py:36-39,
\* 53-55, 86-92).
THEOREM ScanLosesNothing == Spec => []ScanKeepsAlerts
<1>1. ScanInv => ScanKeepsAlerts
  <2> SUFFICES ASSUME ScanInv, step \in {"dispatch", "end"}, "ocs" \notin failed
               PROVE  /\ "nvd_delta" \notin failed /\ From("nvd_delta") \intersect Malformed = {}
                           => Match(Index, NvdCarried(opening)) \subseteq matched
                      /\ Match(Index, (seen_ids \intersect Serious) \ silenced) \subseteq matched
    BY DEF ScanKeepsAlerts, NvdCarried
  <2>1. /\ matched = Match(Index, all_alerts)
        /\ (seen_ids \intersect Serious) \ silenced \subseteq all_alerts
    BY DEF ScanInv
  <2>2. "nvd_delta" \notin failed /\ From("nvd_delta") \intersect Malformed = {}
          => NvdCarried(opening) \subseteq all_alerts
    BY DEF ScanInv, Collected
  <2> QED
    BY <2>1, <2>2 DEF Match
<1> QED
  BY <1>1, ScanInductive, PTL

-----------------------------------------------------------------------------
(* ocsp_responder.py *)

\* What a request knows is true of some moment since it came in; a broken entry
\* may pass for GOOD in the first answer of Vault, but then it stays broken and
\* the second one has no certificate.
ThreadOK(t) ==
    /\ t.step # "idle" => vault[t.cert] \in t.at /\ t.answer = "none yet"
    /\ t.step \in {"text", "building"} /\ t.cert_status = "revoked" => "revoked" \in t.at
    /\ t.step = "text" /\ t.cert_status = "good" =>
          "good" \in t.at \/ vault[t.cert] = "broken"
    /\ t.step = "building" /\ t.cert_status = "good" /\ t.target_cert => "good" \in t.at
    /\ t.answer \in {"good", "revoked"} => t.answer \in t.at

OcspInv == OcspTypeOK /\ \A r \in Requests : ThreadOK(thread[r])

\* No request has been received at the start.
LEMMA OcspInitOK == OcspInit => OcspInv
<1> SUFFICES ASSUME OcspInit PROVE OcspInv
  OBVIOUS
<1>1. PICK c \in Certs : thread = [r \in Requests |-> Idle(c)]
  BY DEF OcspInit
<1>2. Idle(c) \in Threads /\ ThreadOK(Idle(c))
  BY DEF Idle, Threads, Answers, ThreadOK
<1> QED
  BY <1>1, <1>2, OcspAssumption DEF OcspInv, OcspTypeOK, OcspInit

\* A failed request to Vault stays within the bound.
LEMMA AskedFaults ==
    ASSUME OcspTypeOK, NEW c \in Certs, NEW v, Asked(c, v)
    PROVE  /\ ocspFaults' \in 0 .. MaxOcspFaults
           /\ v = "absent" \/ (v = vault[c] /\ v # "tidied")
BY OcspAssumption DEF Asked, OcspFault, OcspTypeOK, VaultStates

\* One thread moves: the others, and Vault, are as they were.
LEMMA ThreadMoves ==
    ASSUME OcspInv, NEW r \in Requests, NEW t \in Threads, ThreadOK(t),
           thread' = [thread EXCEPT ![r] = t], UNCHANGED vault,
           ocspFaults' \in 0 .. MaxOcspFaults
    PROVE  OcspInv'
<1>1. thread' \in [Requests -> Threads]
  BY DEF OcspInv, OcspTypeOK
<1>2. \A q \in Requests : thread'[q] = IF q = r THEN t ELSE thread[q]
  BY DEF OcspInv, OcspTypeOK
<1>3. \A q \in Requests : ThreadOK(thread'[q])
  BY <1>2 DEF OcspInv
<1>4. \A q \in Requests : ThreadOK(thread[q])'
  BY <1>3 DEF ThreadOK
<1> QED
  BY <1>1, <1>4 DEF OcspInv, OcspTypeOK

\* Vault moves: the running requests of the certificate see it.
LEMMA VaultOK ==
    ASSUME OcspInv, NEW c \in Certs, NEW s \in VaultStates, Vault(c, s)
    PROVE  OcspInv'
<1>1. /\ vault[c] # "broken" /\ s # "broken"
      /\ vault' = [vault EXCEPT ![c] = s] /\ UNCHANGED ocspFaults
      /\ thread' = [r \in Requests |->
                      IF thread[r].step # "idle" /\ thread[r].cert = c
                      THEN [thread[r] EXCEPT !.at = @ \union {s}] ELSE thread[r]]
  BY DEF Vault
<1>2. vault \in [Certs -> VaultStates] /\ thread \in [Requests -> Threads]
  BY DEF OcspInv, OcspTypeOK
<1>3. \A d \in Certs : vault'[d] = IF d = c THEN s ELSE vault[d]
  BY <1>1, <1>2
<1>4. ASSUME NEW r \in Requests
      PROVE  thread'[r] \in Threads /\ ThreadOK(thread[r])'
  <2> DEFINE t == thread[r]
  <2>1. t \in Threads /\ t.cert \in Certs /\ ThreadOK(t)
    BY <1>2 DEF Threads, OcspInv
  <2>2. CASE t.step # "idle" /\ t.cert = c
    <3>1. thread'[r] = [t EXCEPT !.at = @ \union {s}]
      BY <1>1, <2>2
    <3> HIDE DEF t
    <3>2. /\ thread'[r] \in Threads
          /\ thread'[r].step = t.step /\ thread'[r].cert = c
          /\ thread'[r].cert_status = t.cert_status /\ thread'[r].target_cert = t.target_cert
          /\ thread'[r].answer = t.answer /\ thread'[r].at = t.at \union {s}
      BY <2>1, <2>2, <3>1 DEF Threads
    <3>3. t.step = "text" /\ t.cert_status = "good" => "good" \in t.at
      BY <1>1, <2>1, <2>2 DEF ThreadOK
    <3> QED
      BY <1>3, <2>1, <2>2, <3>2, <3>3 DEF ThreadOK
  <2>3. CASE ~(t.step # "idle" /\ t.cert = c)
    <3>1. thread'[r] = t
      BY <1>1, <2>3
    <3>2. t.step = "idle" \/ vault'[t.cert] = vault[t.cert]
      BY <1>3, <2>1, <2>3
    <3> HIDE DEF t
    <3> QED
      BY <2>1, <3>1, <3>2 DEF ThreadOK
  <2> QED
    BY <2>2, <2>3
<1>5. thread' \in [Requests -> Threads]
  BY <1>1, <1>4
<1> QED
  BY <1>1, <1>2, <1>4, <1>5 DEF OcspInv, OcspTypeOK

\* Every step of a request and of Vault preserves the invariant.
LEMMA OcspStepOK == OcspInv /\ [OcspNext]_ocspVars => OcspInv'
<1> SUFFICES ASSUME OcspInv, [OcspNext]_ocspVars PROVE OcspInv'
  OBVIOUS
<1>1. CASE \E c \in Certs, s \in VaultStates : Vault(c, s)
  BY <1>1, VaultOK
<1>2. ASSUME NEW r \in Requests
      PROVE  /\ thread[r] \in Threads /\ thread[r].cert \in Certs /\ ThreadOK(thread[r])
             /\ ocspFaults \in 0 .. MaxOcspFaults /\ OcspTypeOK
  BY DEF OcspInv, OcspTypeOK, Threads
<1>3. ASSUME NEW r \in Requests, NEW c \in Certs, Receive(r, c) PROVE OcspInv'
  <2> DEFINE t == [Idle(c) EXCEPT !.step = "status", !.at = {vault[c]}]
  <2>1. vault[c] \in VaultStates
    BY <1>2 DEF OcspTypeOK
  <2>2. Idle(c) \in Threads /\ Idle(c).cert = c /\ Idle(c).answer = "none yet"
    BY DEF Idle, Threads, Answers
  <2>3. t \in Threads /\ ThreadOK(t)
    <3>1. /\ t \in Threads /\ t.step = "status" /\ t.cert = c
          /\ t.answer = "none yet" /\ t.at = {vault[c]}
      BY <2>1, <2>2 DEF Threads
    <3> HIDE DEF t
    <3> QED
      BY <3>1 DEF ThreadOK
  <2>4. thread' = [thread EXCEPT ![r] = t] /\ UNCHANGED <<vault, ocspFaults>>
    BY <1>3 DEF Receive
  <2> HIDE DEF t
  <2> QED
    BY <1>2, <2>3, <2>4, ThreadMoves
<1>4. ASSUME NEW r \in Requests, CheckStatus(r) PROVE OcspInv'
  <2>1. PICK v \in VaultStates :
          /\ Asked(thread[r].cert, v)
          /\ thread' = [thread EXCEPT
                ![r].step = "text",
                ![r].cert_status = CASE v = "absent"  -> "unknown"
                                     [] v = "revoked" -> "revoked"
                                     [] OTHER         -> "good"]
    BY <1>4 DEF CheckStatus
  <2>2. thread[r].step = "status" /\ UNCHANGED vault
    BY <1>4 DEF CheckStatus
  <2> DEFINE status == CASE v = "absent"  -> "unknown"
                         [] v = "revoked" -> "revoked"
                         [] OTHER         -> "good"
             t == [thread[r] EXCEPT !.step = "text", !.cert_status = status]
  <2>3. /\ ocspFaults' \in 0 .. MaxOcspFaults
        /\ v = "absent" \/ (v = vault[thread[r].cert] /\ v # "tidied")
    BY <1>2, <2>1, AskedFaults
  <2>4. /\ status \in {"unknown", "revoked", "good"}
        /\ status = "revoked" => v = "revoked"
        /\ status = "good" => v \in {"good", "broken"}
    BY <2>3 DEF VaultStates
  <2>5. thread' = [thread EXCEPT ![r] = t]
    BY <1>2, <2>1 DEF OcspTypeOK
  <2> HIDE DEF status
  <2>6. t \in Threads /\ ThreadOK(t)
    <3>1. /\ t \in Threads /\ t.step = "text" /\ t.cert = thread[r].cert
          /\ t.cert_status = status /\ t.answer = thread[r].answer /\ t.at = thread[r].at
      BY <1>2, <2>4 DEF Threads
    <3>2. vault[t.cert] \in t.at /\ t.answer = "none yet"
      BY <1>2, <2>2, <3>1 DEF ThreadOK
    <3> HIDE DEF t
    <3> QED
      BY <2>3, <2>4, <3>1, <3>2 DEF ThreadOK
  <2> HIDE DEF t
  <2> QED
    BY <2>2, <2>3, <2>5, <2>6, ThreadMoves
<1>5. ASSUME NEW r \in Requests, LoadCert(r) PROVE OcspInv'
  <2>1. PICK v \in VaultStates :
          /\ Asked(thread[r].cert, v)
          /\ thread' = [thread EXCEPT
                ![r].step = "building",
                ![r].target_cert = v \in {"good", "revoked"}]
    BY <1>5 DEF LoadCert
  <2>2. thread[r].step = "text" /\ UNCHANGED vault
    BY <1>5 DEF LoadCert
  <2> DEFINE found == v \in {"good", "revoked"}
             t == [thread[r] EXCEPT !.step = "building", !.target_cert = found]
  <2>3. /\ ocspFaults' \in 0 .. MaxOcspFaults
        /\ v = "absent" \/ (v = vault[thread[r].cert] /\ v # "tidied")
    BY <1>2, <2>1, AskedFaults
  <2>4. thread' = [thread EXCEPT ![r] = t]
    BY <1>2, <2>1 DEF OcspTypeOK
  <2>5. found \in BOOLEAN /\ (found => vault[thread[r].cert] # "broken")
    BY <2>3
  <2> HIDE DEF found
  <2>6. t \in Threads /\ ThreadOK(t)
    <3>1. /\ t \in Threads /\ t.step = "building" /\ t.cert = thread[r].cert
          /\ t.cert_status = thread[r].cert_status /\ t.target_cert = found
          /\ t.answer = thread[r].answer /\ t.at = thread[r].at
      BY <1>2, <2>5 DEF Threads
    <3>2. vault[t.cert] \in t.at /\ t.answer = "none yet"
      BY <1>2, <2>2, <3>1 DEF ThreadOK
    <3>3. /\ t.cert_status = "revoked" => "revoked" \in t.at
          /\ t.cert_status = "good" /\ t.target_cert => "good" \in t.at
      BY <1>2, <2>2, <2>5, <3>1 DEF ThreadOK
    <3> HIDE DEF t
    <3> QED
      BY <3>1, <3>2, <3>3 DEF ThreadOK
  <2> HIDE DEF t
  <2> QED
    BY <2>2, <2>3, <2>4, <2>6, ThreadMoves
<1>6. ASSUME NEW r \in Requests, Respond(r) PROVE OcspInv'
  <2> DEFINE answer == IF thread[r].target_cert /\ thread[r].cert_status # "unknown"
                       THEN thread[r].cert_status ELSE "error"
             t == [thread[r] EXCEPT !.step = "idle", !.answer = answer]
  <2>1. /\ thread[r].step = "building" /\ UNCHANGED <<vault, ocspFaults>>
        /\ thread' = [thread EXCEPT ![r] = t]
    BY <1>2, <1>6 DEF Respond, OcspTypeOK
  <2>2. t \in Threads /\ ThreadOK(t)
    BY <1>2, <2>1 DEF Threads, Answers, ThreadOK
  <2> HIDE DEF t
  <2> QED
    BY <1>2, <2>1, <2>2, ThreadMoves
<1>7. CASE UNCHANGED ocspVars
  BY <1>7 DEF ocspVars, OcspInv, OcspTypeOK, ThreadOK
<1> QED
  BY <1>1, <1>3, <1>4, <1>5, <1>6, <1>7 DEF OcspNext, Serve

\* What a request holds stays true of some moment since it came in.
THEOREM OcspInductive == OcspSpec => []OcspInv
BY OcspInitOK, OcspStepOK, PTL DEF OcspSpec

\* An answer is true of some moment of the request, whatever Vault does between
\* the two requests to it: a certificate revoked when the request came in is
\* never GOOD (ocsp_responder.py:60-74, 89-101).
THEOREM OcspAnswersTrue == OcspSpec => []AnswerTrue
<1>1. OcspInv => AnswerTrue
  BY DEF OcspInv, AnswerTrue, ThreadOK
<1> QED
  BY <1>1, OcspInductive, PTL

-----------------------------------------------------------------------------
(* reset-runner and reset-runners.sh *)

\* After the removal: no container, or, for the copy, one it did not see.
Gone(r) ==
    \/ containers[r] = "absent"
    \/ containers[r] = "stopped" /\ program = "reset-runners.sh"

\* As long as Docker failed no command, each loop has done its part for the
\* runners it has behind it.
PartsDone ==
    /\ phase = "ask" => used = {}
    /\ clean =>
        /\ phase = "remove" => \A r \in used \ todo : Gone(r)
        /\ phase = "start" =>
              /\ \A r \in todo : Gone(r)
              /\ \A r \in (used \ todo) \intersect images : containers[r] = "running"
        /\ phase = "prune" /\ program = "reset-runner" =>
              \A r \in used \intersect images : containers[r] = "running"
        /\ phase = "prune" /\ program = "reset-runners.sh" =>
              todo = used /\ \A r \in used : Gone(r)

\* A registered volume is there until a prune, which spares those in use.
VolumesKept ==
    program = "reset-runner" \/ ~prunes_named =>
        \A r \in Runners : opening_volumes[r] = "registered" =>
            /\ phase # "done" => volumes[r] = "registered"
            /\ phase = "done" /\ containers[r] = "running" => volumes[r] = "registered"

ResetInv == ResetTypeOK /\ PartsDone /\ ResetHeals /\ VolumesKept

\* Whatever was left behind, no loop has run yet.
LEMMA ResetInitOK == ResetInit => ResetInv
BY DEF ResetInit, ResetInv, ResetTypeOK, PartsDone, ResetHeals, VolumesKept

\* What the steps of the two scripts rest on.
LEMMA ResetTyped ==
    ASSUME ResetInv
    PROVE  /\ program \in {"reset-runner", "reset-runners.sh"}
           /\ todo \subseteq used /\ used \subseteq Runners /\ images \subseteq Runners
           /\ containers \in [Runners -> {"absent", "stopped", "running"}]
           /\ volumes \in [Runners -> {"none", "fresh", "registered"}]
           /\ opening_volumes \in [Runners -> {"none", "fresh", "registered"}]
           /\ clean \in BOOLEAN /\ prunes_named \in BOOLEAN
           /\ \A r \in Runners : containers[r] # "absent" => volumes[r] # "none"
BY DEF ResetInv, ResetTypeOK

\* Asking for the tags touches no container.
LEMMA AskOK == ASSUME ResetInv, Ask \/ AskFails PROVE ResetInv'
<1>1. CASE Ask
  <2>1. used' \subseteq Runners /\ todo' = used'
    BY <1>1 DEF Ask
  <2>2. /\ phase = "ask" /\ phase' = "remove"
        /\ UNCHANGED <<program, containers, images, volumes, prunes_named, opening_volumes, clean>>
    BY <1>1 DEF Ask, resetGhosts
  <2>3. ResetTypeOK'
    BY <2>1, <2>2 DEF ResetInv, ResetTypeOK
  <2> QED
    BY <2>1, <2>2, <2>3 DEF ResetInv, PartsDone, ResetHeals, VolumesKept
<1>2. CASE AskFails
  <2>1. /\ phase = "ask" /\ phase' = "aborted" /\ program = "reset-runner"
        /\ UNCHANGED <<program, used, todo, containers, images, volumes, prunes_named,
                       opening_volumes, clean>>
    BY <1>2 DEF AskFails, resetGhosts
  <2>2. ResetTypeOK'
    BY <2>1 DEF ResetInv, ResetTypeOK
  <2> QED
    BY <2>1, <2>2 DEF ResetInv, PartsDone, ResetHeals, VolumesKept
<1> QED
  BY <1>1, <1>2

\* A loop is through when each runner has had its turn.
LEMMA LoopEndsOK == ASSUME ResetInv, LoopEnds PROVE ResetInv'
<1>1. /\ phase \in {"remove", "start"} /\ todo = {}
      /\ phase' = After(phase) /\ todo' = used
      /\ UNCHANGED <<program, used, containers, images, volumes, prunes_named,
                     opening_volumes, clean>>
  BY DEF LoopEnds, resetGhosts
<1>2. /\ phase = "remove" => phase' = IF program = "reset-runner" THEN "start" ELSE "prune"
      /\ phase = "start" => phase' = IF program = "reset-runner" THEN "prune" ELSE "done"
  BY <1>1 DEF After
<1>3. ResetTypeOK'
  BY <1>1, <1>2 DEF ResetInv, ResetTypeOK
<1>4. PartsDone' /\ ResetHeals'
  <2>1. CASE phase = "remove"
    BY <1>1, <1>2, <2>1, ResetTyped DEF ResetInv, PartsDone, ResetHeals, Gone
  <2>2. CASE phase = "start"
    BY <1>1, <1>2, <2>2, ResetTyped DEF ResetInv, PartsDone, ResetHeals, Gone
  <2> QED
    BY <1>1, <2>1, <2>2
<1>5. VolumesKept'
  BY <1>1, <1>2 DEF ResetInv, VolumesKept
<1> QED
  BY <1>3, <1>4, <1>5 DEF ResetInv

\* docker stop and docker rm, seen or not by the copy, ended well or not.
LEMMA RemoveOK == ASSUME ResetInv, NEW r \in Runners, Remove(r) PROVE ResetInv'
<1>1. /\ phase = "remove" /\ r \in todo /\ todo' = todo \ {r}
      /\ UNCHANGED <<program, phase, used, images, volumes, prunes_named, opening_volumes>>
  BY DEF Remove
<1>2. \/ /\ containers' = [containers EXCEPT ![r] = IF Seen(r) THEN "absent" ELSE @]
         /\ UNCHANGED clean
      \/ /\ containers[r] # "absent" /\ clean' = FALSE
         /\ \E c \in {containers[r], "stopped"} : containers' = [containers EXCEPT ![r] = c]
  BY DEF Remove
<1>3. \A q \in Runners : q # r => containers'[q] = containers[q]
  BY <1>2, ResetTyped
<1>4. containers' \in [Runners -> {"absent", "stopped", "running"}]
      /\ (containers'[r] # "absent" => containers[r] # "absent")
  BY <1>2, ResetTyped
<1>5. ResetTypeOK'
  <2>1. clean' \in BOOLEAN
    BY <1>2, ResetTyped
  <2> QED
    BY <1>1, <1>3, <1>4, <2>1 DEF ResetInv, ResetTypeOK
<1>6. PartsDone' /\ ResetHeals'
  <2>1. CASE clean' = FALSE
    BY <1>1, <2>1 DEF PartsDone, ResetHeals
  <2>2. CASE /\ containers' = [containers EXCEPT ![r] = IF Seen(r) THEN "absent" ELSE @]
             /\ UNCHANGED clean
    <3>1. Gone(r)'
      <4>1. Seen(r) => containers'[r] = "absent"
        BY <2>2, ResetTyped
      <4>2. ~Seen(r) => containers'[r] = containers[r] /\ containers[r] # "running"
                        /\ program = "reset-runners.sh"
        BY <2>2, ResetTyped, ResetAssumption DEF Seen
      <4> QED
        BY <1>1, <1>4, <4>1, <4>2 DEF Gone
    <3>2. \A q \in used \ todo : q # r /\ (Gone(q) => Gone(q)')
      BY <1>1, <1>3, ResetTyped DEF Gone
    <3> QED
      BY <1>1, <2>2, <3>1, <3>2 DEF ResetInv, PartsDone, ResetHeals
  <2> QED
    BY <1>2, <2>1, <2>2
<1>7. VolumesKept'
  BY <1>1 DEF ResetInv, VolumesKept
<1> QED
  BY <1>5, <1>6, <1>7 DEF ResetInv

\* docker run makes the volume a container needs and touches no other.
LEMMA FreshIs ==
    ASSUME ResetInv, NEW r \in Runners
    PROVE  /\ Fresh(r) \in [Runners -> {"none", "fresh", "registered"}]
           /\ Fresh(r)[r] # "none"
           /\ \A q \in Runners : volumes[q] # "none" => Fresh(r)[q] = volumes[q]
BY ResetTyped DEF Fresh

\* docker run of one runner, or its skipping for want of an image.
LEMMA StartOK ==
    ASSUME ResetInv, NEW r \in Runners, StartOne(r) \/ NoImage(r) PROVE ResetInv'
<1>1. CASE StartOne(r)
  <2>1. /\ phase = "start" /\ r \in todo /\ r \in images /\ todo' = todo \ {r}
        /\ containers' = [containers EXCEPT ![r] = "running"] /\ volumes' = Fresh(r)
        /\ UNCHANGED <<program, phase, used, images, prunes_named, opening_volumes, clean>>
    BY <1>1 DEF StartOne, resetGhosts
  <2>2. /\ containers' \in [Runners -> {"absent", "stopped", "running"}]
        /\ containers'[r] = "running"
        /\ \A q \in Runners : q # r => containers'[q] = containers[q]
    BY <2>1, ResetTyped
  <2>3. ResetTypeOK'
    BY <2>1, <2>2, FreshIs, ResetTyped DEF ResetTypeOK, ResetInv
  <2>4. PartsDone' /\ ResetHeals'
    BY <2>1, <2>2, ResetTyped DEF ResetInv, PartsDone, ResetHeals, Gone
  <2>5. VolumesKept'
    BY <2>1, FreshIs DEF ResetInv, VolumesKept
  <2> QED
    BY <2>3, <2>4, <2>5 DEF ResetInv
<1>2. CASE NoImage(r)
  <2>1. /\ phase = "start" /\ todo' = todo \ {r} /\ clean' = (clean /\ r \notin images)
        /\ UNCHANGED <<program, phase, used, containers, images, volumes, prunes_named,
                       opening_volumes>>
    BY <1>2 DEF NoImage
  <2>2. ResetTypeOK' /\ VolumesKept'
    BY <2>1, ResetTyped DEF ResetInv, ResetTypeOK, VolumesKept
  <2>3. PartsDone' /\ ResetHeals'
    BY <2>1 DEF ResetInv, PartsDone, ResetHeals, Gone
  <2> QED
    BY <2>2, <2>3 DEF ResetInv
<1> QED
  BY <1>1, <1>2

\* The script stops at a runner; where Docker is not to blame, at one that only
\* the copy gets stuck on.
LEMMA StartAbortsOK == ASSUME ResetInv, NEW r \in Runners, StartAborts(r) PROVE ResetInv'
<1>1. /\ phase = "start" /\ r \in todo /\ phase' = "aborted"
      /\ r \in images \/ program = "reset-runners.sh"
      /\ UNCHANGED <<program, used, todo, images, prunes_named, opening_volumes>>
  BY DEF StartAborts
<1>2. CASE containers[r] # "absent" \/ r \notin images
  <2>1. UNCHANGED <<containers, volumes, clean>>
    BY <1>2 DEF StartAborts
  <2>2. ResetTypeOK' /\ PartsDone' /\ VolumesKept'
    BY <1>1, <2>1 DEF ResetInv, ResetTypeOK, PartsDone, VolumesKept
  <2>3. ResetHeals'
    <3>1. clean => Gone(r)
      BY <1>1 DEF ResetInv, PartsDone
    <3>2. clean => /\ program = "reset-runners.sh"
                   /\ containers[r] = "stopped" \/ r \notin images
      BY <1>1, <1>2, <3>1 DEF Gone
    <3> QED
      BY <1>1, <2>1, <3>2, ResetTyped DEF ResetHeals
  <2> QED
    BY <2>2, <2>3 DEF ResetInv
<1>3. CASE ~(containers[r] # "absent" \/ r \notin images)
  <2>1. /\ clean' = FALSE
        /\ \/ UNCHANGED <<containers, volumes>>
           \/ containers' = [containers EXCEPT ![r] = "stopped"] /\ volumes' = Fresh(r)
    BY <1>3 DEF StartAborts
  <2>2. /\ containers' \in [Runners -> {"absent", "stopped", "running"}]
        /\ volumes' \in [Runners -> {"none", "fresh", "registered"}]
        /\ \A q \in Runners : containers'[q] # "absent" => volumes'[q] # "none"
        /\ \A q \in Runners : volumes[q] # "none" => volumes'[q] = volumes[q]
    BY <2>1, FreshIs, ResetTyped
  <2>3. ResetTypeOK'
    BY <1>1, <2>1, <2>2 DEF ResetInv, ResetTypeOK
  <2>4. VolumesKept'
    BY <1>1, <2>2 DEF ResetInv, VolumesKept
  <2> QED
    BY <1>1, <2>1, <2>3, <2>4 DEF ResetInv, PartsDone, ResetHeals
<1> QED
  BY <1>2, <1>3

\* docker volume prune, before or after the start of the runners.
LEMMA PruneOK == ASSUME ResetInv, Prune \/ PruneFails PROVE ResetInv'
<1>1. CASE Prune
  <2>1. /\ phase = "prune"
        /\ phase' = IF program = "reset-runner" THEN "done" ELSE "start"
        /\ volumes' = [r \in Runners |-> IF prunes_named /\ containers[r] = "absent"
                                         THEN "none" ELSE volumes[r]]
        /\ UNCHANGED <<program, used, todo, containers, images, prunes_named,
                       opening_volumes, clean>>
    BY <1>1 DEF Prune, After, resetGhosts
  <2>2. /\ volumes' \in [Runners -> {"none", "fresh", "registered"}]
        /\ \A r \in Runners : ~prunes_named \/ containers[r] # "absent" => volumes'[r] = volumes[r]
    BY <2>1, ResetTyped
  <2>3. ResetTypeOK'
    BY <2>1, <2>2, ResetTyped DEF ResetInv, ResetTypeOK
  <2>4. PartsDone' /\ ResetHeals'
    BY <2>1, ResetTyped DEF ResetInv, PartsDone, ResetHeals, Gone
  <2>5. VolumesKept'
    BY <2>1, <2>2, ResetTyped DEF ResetInv, VolumesKept
  <2> QED
    BY <2>3, <2>4, <2>5 DEF ResetInv
<1>2. CASE PruneFails
  <2>1. /\ phase = "prune" /\ clean' = FALSE
        /\ phase' = IF program = "reset-runner" THEN "done" ELSE "aborted"
        /\ UNCHANGED <<program, used, todo, containers, images, volumes, prunes_named,
                       opening_volumes>>
    BY <1>2 DEF PruneFails
  <2>2. ResetTypeOK'
    BY <2>1 DEF ResetInv, ResetTypeOK
  <2> QED
    BY <2>1, <2>2 DEF ResetInv, PartsDone, ResetHeals, VolumesKept
<1> QED
  BY <1>1, <1>2

\* Every command of both scripts, ended well or not, preserves the invariant.
LEMMA ResetStepOK == ResetInv /\ [ResetNext]_resetVars => ResetInv'
<1> SUFFICES ASSUME ResetInv, [ResetNext]_resetVars PROVE ResetInv'
  OBVIOUS
<1>1. CASE UNCHANGED resetVars
  BY <1>1 DEF resetVars, resetGhosts, ResetInv, ResetTypeOK, PartsDone, ResetHeals, VolumesKept, Gone
<1> QED
  BY <1>1, AskOK, LoopEndsOK, RemoveOK, StartOK, StartAbortsOK, PruneOK DEF ResetNext

\* Each loop does its part, and volumes outlive a reset that is not the copy's.
THEOREM ResetInductive == ResetSpec => []ResetInv
BY ResetInitOK, ResetStepOK, PTL DEF ResetSpec

\* Whatever was left behind, a run without a failure of Docker heals it, or it
\* is the copy, stuck (reset-runner:48-78, reset-runners.sh:20-50).
THEOREM ResetRepairs == ResetSpec => []ResetHeals
<1>1. ResetInv => ResetHeals
  BY DEF ResetInv
<1> QED
  BY <1>1, ResetInductive, PTL

\* A runner that was started again is still registered, except where the copy
\* prunes named volumes first (reset-runner:82, reset-runners.sh:36).
THEOREM ResetKeepsRegistration == ResetSpec => []RegistrationKept
<1>1. ResetInv => RegistrationKept
  BY ResetTyped DEF ResetInv, VolumesKept, RegistrationKept
<1> QED
  BY <1>1, ResetInductive, PTL

-----------------------------------------------------------------------------
(* The three together, and the matching the scan shares with the service *)

\* No two of the programs run in the same behaviour, so that each keeps its own
\* specification (the run MCScripts).
THEOREM ScriptsApart == ScriptsSpec => Spec /\ OcspSpec /\ ResetSpec
<1>1. ScriptsInit => Init /\ OcspInit /\ ResetInit
  BY DEF ScriptsInit
<1>2. [ScriptsNext]_scriptsVars => [Next]_vars /\ [OcspNext]_ocspVars /\ [ResetNext]_resetVars
  <2> SUFFICES ASSUME [ScriptsNext]_scriptsVars
               PROVE  [Next]_vars /\ [OcspNext]_ocspVars /\ [ResetNext]_resetVars
    OBVIOUS
  <2>1. CASE ScanRuns /\ Next
    BY <2>1 DEF ScanRuns
  <2>2. CASE OcspRuns /\ OcspNext
    BY <2>2 DEF OcspRuns
  <2>3. CASE ResetRuns /\ ResetNext
    BY <2>3 DEF ResetRuns
  <2>4. CASE UNCHANGED scriptsVars
    BY <2>4 DEF scriptsVars
  <2> QED
    BY <2>1, <2>2, <2>3, <2>4 DEF ScriptsNext
<1> QED
  BY <1>1, <1>2, PTL DEF ScriptsSpec, Spec, OcspSpec, ResetSpec

\* The state of every program keeps its type.
THEOREM ScriptsTypeCorrect == ScriptsSpec => []ScriptsTypeOK
<1>1. ScanInv /\ OcspInv /\ ResetInv => ScriptsTypeOK
  BY DEF ScanInv, OcspInv, ResetInv, ScriptsTypeOK
<1> QED
  BY <1>1, ScriptsApart, ScanInductive, OcspInductive, ResetInductive, PTL

\* An alert is kept if and only if a host has a package it concerns, and names
\* such hosts only, all of them but those lost to a fallback, whatever its CPEs
\* and its title are and for every index of Indexes; HostsConcern,
\* ConcernMatches and HostsFound say it of any index (matching.py:32-50,
\* ocs_cache.py:112-116).
THEOREM MatchingExact == ScriptsSpec => []MatchAffected
<1>1. MatchAffected
  <2> SUFFICES ASSUME NEW index \in Indexes, NEW a \in carried
               PROVE  LET affected == {h \in {h1, h2} : \E p \in Concerned(a) : Installed(index, p, h)}
                      IN  /\ a \in Match(index, carried) <=> affected # {}
                          /\ AllHosts(index, a) \subseteq affected
                          /\ \A h \in affected \ AllHosts(index, a) :
                                /\ LostToFallback(index, a, h)
                                /\ \A c \in Cpes[a] : ~Installed(index, c.product, h)
    BY DEF MatchAffected
  <2> DEFINE affected == {h \in {h1, h2} : \E p \in Concerned(a) : Installed(index, p, h)}
  <2>1. \A p \in DOMAIN index : index[p] \subseteq {h1, h2}
    BY DEF Indexes
  <2>2. AllHosts(index, a) \subseteq affected
    <3> SUFFICES ASSUME NEW h \in AllHosts(index, a) PROVE h \in affected
      OBVIOUS
    <3>1. PICK p \in Concerned(a) : p \in DOMAIN index /\ h \in index[p]
      BY HostsConcern
    <3> QED
      BY <2>1, <3>1 DEF Installed
  <2>3. affected # {} => AllHosts(index, a) # {}
    BY ConcernMatches DEF Installed
  <2>4. ASSUME NEW h \in affected \ AllHosts(index, a)
        PROVE  /\ LostToFallback(index, a, h)
               /\ \A c \in Cpes[a] : ~Installed(index, c.product, h)
    <3>1. PICK p \in Concerned(a) : p \in DOMAIN index /\ h \in index[p]
      BY <2>4 DEF Installed
    <3>2. \/ \E c \in Cpes[a] : p \in {c.product, c.qualified}
          \/ IsVendor(a) /\ p \in Hints[a]
      BY DEF Concerned
    <3>3. \A c \in Cpes[a] : c.product \in DOMAIN index => h \notin index[c.product]
      BY <2>4, HostsFound
    <3>4. CASE \E c \in Cpes[a] : p \in {c.product, c.qualified}
      <4>1. PICK c \in Cpes[a] : p = c.qualified
        BY <3>1, <3>3, <3>4
      <4>2. FindHostsByPackage(index, c.product) # {}
        BY <2>4, <3>1, <4>1, HostsFound
      <4> QED
        BY <3>1, <3>3, <4>1, <4>2 DEF LostToFallback, Installed
    <3>5. CASE IsVendor(a) /\ p \in Hints[a]
      BY <2>4, <3>1, <3>3, <3>5, HostsFound DEF LostToFallback, Installed
    <3> QED
      BY <3>2, <3>4, <3>5
  <2> QED
    BY <2>2, <2>3, <2>4 DEF Match
<1> QED
  BY <1>1, PTL
=============================================================================
