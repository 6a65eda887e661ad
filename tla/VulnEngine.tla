----------------------------- MODULE VulnEngine -----------------------------
(***************************************************************************)
(* The vuln-engine process: the four collector jobs of scheduler.py, the   *)
(* OCS cache they match against, and AlertManager.dispatch, on the one     *)
(* asyncio event loop they share.  A job runs alone from one await to the  *)
(* next; between awaits the other jobs, the refresh and the world move.    *)
(*                                                                         *)
(* A collector's several awaits and the refresh's are one step each here:  *)
(* VendorRss, NvdDelta and OcsCache have them in full, and OcsCache        *)
(* implements the Load used here.  Time is left out: an NVD window is the  *)
(* set of CVEs published between two requests.                             *)
(***************************************************************************)
EXTENDS InventoryCache, Collectors, Matching

CONSTANTS
    Advisories,
    Jobs,        \* the collector jobs of the run, among AllJobs
    Critical,    \* advisories that are CRITICAL or zero-day
    Smtp, Teams, \* whether SMTP_HOST and TEAMS_WEBHOOK_URL are set
    MaxFaults    \* bound on failed requests and restarts

AllJobs == {"nvd_delta", "cisa_kev", "vendor_rss", "intersystems"}
NoJob   == "none"
NoAlert == "none"

ASSUME VulnEngineAssumption ==
    /\ MaxFaults \in Nat /\ Smtp \in BOOLEAN /\ Teams \in BOOLEAN
    /\ Jobs \subseteq AllJobs /\ Source \in [Advisories -> Jobs]
    /\ Critical \subseteq Advisories /\ NoAlert \notin Advisories

VARIABLES
    published,   \* advisories the sources carry now (external)
    pc,          \* per job: "idle", "collecting" or "dispatching"
    asked,       \* what NVD had published when the running request was sent
    memory,      \* per collector: last_check, known_cves, seen_ids, seen_urls
    queue,       \* per job: the matched alerts dispatch() has still to handle
    posting,     \* per job: the advisory whose Teams post is awaited, or NoAlert
    loop,        \* the job whose SMTP session holds the event loop, or NoJob
    tried,       \* channels tried for an advisory since the process started
    aside,       \* advisories put aside, unmatched or not to be alerted on
    faults

jobVars    == <<pc, asked, memory, queue, posting, loop>>
ghostVars  == <<tried, aside>>
engineVars == <<published, jobVars, ghostVars, faults>>
vars       == <<inventoryVars, indexVars, engineVars>>

Of(j) == {a \in Advisories : Source[a] = j}

\* The channels dispatch() goes through for an alert.
Channels(a) ==
    {"defectdojo"} \union (IF a \in Critical /\ Smtp THEN {"email"} ELSE {})
                   \union (IF a \in Critical /\ Teams THEN {"teams"} ELSE {})

Alerts == [advisory : Advisories, hosts : SUBSET Hosts,
           since : Epochs \union {None}, at : Epochs \union {None}]

Queued(j) == {x.advisory : x \in queue[j]}

TypeOK ==
    /\ InventoryTypeOK
    /\ published \subseteq Advisories /\ asked \subseteq Advisories
    /\ pc \in [Jobs -> {"idle", "collecting", "dispatching"}]
    /\ memory \in [Jobs -> SUBSET Advisories]
    /\ queue \in [Jobs -> SUBSET Alerts]
    /\ posting \in [Jobs -> Advisories \union {NoAlert}]
    /\ loop \in Jobs \union {NoJob}
    /\ tried \in [Advisories -> SUBSET {"defectdojo", "email", "teams"}]
    /\ aside \subseteq Advisories
    /\ faults \in 0 .. MaxFaults

\* What a new process starts with.  NVD's memory stands for a last_check of
\* one hour ago; the others are empty.
Booted(old) == [j \in Jobs |-> IF j = "nvd_delta" THEN old ELSE {}]

Init ==
    /\ InventoryInit
    /\ published \in SUBSET Advisories
    /\ \E old \in SUBSET {a \in published : Source[a] = "nvd_delta"} :
          memory = Booted(old) /\ aside = old
    /\ pc = [j \in Jobs |-> "idle"] /\ asked = {}
    /\ queue = [j \in Jobs |-> {}] /\ posting = [j \in Jobs |-> NoAlert]
    /\ loop = NoJob
    /\ tried = [a \in Advisories |-> {}]
    /\ faults = 0

-----------------------------------------------------------------------------
(* The world *)

Publish(a) ==
    /\ a \notin published
    /\ published' = published \union {a}
    /\ UNCHANGED <<inventoryVars, indexVars, jobVars, ghostVars, faults>>

Change == ChangeInventory /\ UNCHANGED <<indexVars, engineVars>>

-----------------------------------------------------------------------------
(* The event loop *)

Fault == faults < MaxFaults /\ faults' = faults + 1

\* One of the refresh jobs publishes a cache.
Refresh == loop = NoJob /\ Load /\ UNCHANGED <<inventoryVars, engineVars>>

\* The job's trigger fires; APScheduler runs one instance of a job at most.
Fire(j) ==
    /\ loop = NoJob /\ pc[j] = "idle"
    /\ pc' = [pc EXCEPT ![j] = "collecting"]
    /\ asked' = IF j = "nvd_delta" THEN published \intersect Of(j) ELSE asked
    /\ UNCHANGED <<inventoryVars, indexVars, published, memory, queue, posting,
                   loop, ghostVars, faults>>

\* Slip: NVD's next window starts at the answer.
OutcomesLate(j) ==
    LET seen == memory[j]
        here == published \intersect Of(j)
    IN CASE j = "nvd_delta" ->
              UNION {{Outcome(alerts, IF NvdWindowDone(w) THEN seen \union here ELSE seen) :
                         alerts \in NvdAlerts(w)} :
                     w \in {(asked \ seen) \union edge : edge \in SUBSET seen}}
         [] j = "cisa_kev"     -> KevOutcomes(seen, here)
         [] j = "vendor_rss"   -> {RssOutcome(seen, here, Cardinality(here))}
         [] j = "intersystems" -> {IscOutcome(seen, here)}

\* Slip: the scraped and the parsed advisories are marked as seen elsewhere.
OutcomesForgetful(j) ==
    LET seen == memory[j]
        here == published \intersect Of(j)
    IN CASE j = "nvd_delta"    -> {Outcome(asked, seen \union asked)}
         [] j = "cisa_kev"     -> KevOutcomes(seen, here)
         [] j = "vendor_rss"   -> {Outcome(RssOutcome(seen, here, Cardinality(here)).alerts, seen)}
         [] j = "intersystems" -> {Outcome(IscOutcome(seen, here).alerts, seen)}

\* What collect() may return and remember.  An NVD window may hold, besides
\* the CVEs published since the last, some it has reported: those of the second
\* the last window ended in, and those modified again.
Outcomes(j) ==
    LET seen == memory[j]
        here == published \intersect Of(j)
    IN CASE j = "nvd_delta" ->
              UNION {{Outcome(alerts, IF NvdWindowDone(w) THEN seen \union asked ELSE seen) :
                         alerts \in NvdAlerts(w)} :
                     w \in {(asked \ seen) \union edge : edge \in SUBSET seen}}
         [] j = "cisa_kev"     -> KevOutcomes(seen, here)
         [] j = "vendor_rss"   -> {RssOutcome(seen, here, Cardinality(here))}
         [] j = "intersystems" -> {IscOutcome(seen, here)}

\* What the collector's own rules leave without an alert for good: the
\* advisories of a silent first load, and the RSS entries that are not serious.
Ignored(j) ==
    LET here == published \intersect Of(j)
        Silent(floor) == memory[j] = {} /\ Cardinality(here) > floor
    IN CASE j = "nvd_delta"    -> {}
         [] j = "cisa_kev"     -> IF memory[j] = {} THEN here ELSE {}
         [] j = "vendor_rss"   -> IF Silent(RssFloor) THEN here ELSE here \ Serious
         [] j = "intersystems" -> IF Silent(IscFloor) THEN here ELSE {}

Enriched(a) == [advisory |-> a, hosts |-> AllHosts(packages_index, a),
                since |-> since, at |-> last_refresh]

\* Slip: every alert is dispatched, matched or not.
CollectUnmatched(j) ==
    /\ loop = NoJob /\ pc[j] = "collecting"
    /\ \E o \in Outcomes(j) :
          /\ memory' = [memory EXCEPT ![j] = o.memory]
          /\ queue' = [queue EXCEPT ![j] =
                         {[Enriched(a) EXCEPT !.hosts = Machines] : a \in o.alerts}]
          /\ pc' = [pc EXCEPT ![j] = IF o.alerts = {} THEN "idle" ELSE "dispatching"]
          /\ aside' = (aside \ o.alerts) \union Ignored(j)
    /\ asked' = IF j = "nvd_delta" THEN {} ELSE asked
    /\ UNCHANGED <<inventoryVars, indexVars, published, posting, loop, tried, faults>>

\* The last answer arrives: collect() returns, match() runs and dispatch()
\* starts, up to its first await, all in one go.
Collect(j) ==
    /\ loop = NoJob /\ pc[j] = "collecting"
    /\ \E o \in Outcomes(j) :
          LET matched == Match(packages_index, o.alerts)
          IN  /\ memory' = [memory EXCEPT ![j] = o.memory]
              /\ queue' = [queue EXCEPT ![j] = {Enriched(a) : a \in matched}]
              /\ pc' = [pc EXCEPT ![j] = IF matched = {} THEN "idle" ELSE "dispatching"]
              /\ aside' = (aside \ matched) \union (o.alerts \ matched) \union Ignored(j)
    /\ asked' = IF j = "nvd_delta" THEN {} ELSE asked
    /\ UNCHANGED <<inventoryVars, indexVars, published, posting, loop, tried, faults>>

\* The request fails: the collector counts the error and returns [].
CollectFails(j) ==
    /\ loop = NoJob /\ pc[j] = "collecting" /\ Fault
    /\ pc' = [pc EXCEPT ![j] = "idle"]
    /\ asked' = IF j = "nvd_delta" THEN {} ELSE asked
    /\ UNCHANGED <<inventoryVars, indexVars, published, memory, queue, posting, loop,
                   ghostVars>>

\* Slips: the alert stays in the list; a job state the scheduler has not.
DoneKeeping(j, x) ==
    /\ queue' = queue
    /\ pc' = pc
DoneClosed(j, x) ==
    /\ queue' = [queue EXCEPT ![j] = @ \ {x}]
    /\ pc' = [pc EXCEPT ![j] = IF queue[j] = {x} THEN "done" ELSE "dispatching"]

\* dispatch() is through with alert x.
Done(j, x) ==
    /\ queue' = [queue EXCEPT ![j] = @ \ {x}]
    /\ pc' = [pc EXCEPT ![j] = IF queue[j] = {x} THEN "idle" ELSE "dispatching"]

\* After the e-mail: the Teams post, or nothing when there is no webhook.
AfterEmail(j, x) ==
    IF Teams
    THEN posting' = [posting EXCEPT ![j] = x.advisory] /\ UNCHANGED <<queue, pc>>
    ELSE Done(j, x) /\ UNCHANGED posting

\* The DefectDojo post of the alert at hand has ended, well or not; the result
\* is not looked at.  A critical alert goes on, without an await, into smtplib,
\* which holds the event loop until the SMTP server is done.
AfterPush(j, x) ==
    /\ tried' = [tried EXCEPT ![x.advisory] = @ \union {"defectdojo"}]
    /\ IF x.advisory \notin Critical
       THEN Done(j, x) /\ UNCHANGED <<posting, loop>>
       ELSE IF Smtp
       THEN loop' = j /\ posting' = [posting EXCEPT ![j] = x.advisory] /\ UNCHANGED <<queue, pc>>
       ELSE AfterEmail(j, x) /\ UNCHANGED loop
    /\ UNCHANGED <<inventoryVars, indexVars, published, asked, memory, aside>>

Pushing(j, x) ==
    /\ loop = NoJob /\ pc[j] = "dispatching" /\ posting[j] = NoAlert
    /\ x \in queue[j]

\* Slip: the exception of a failed post leaves dispatch().
PushEndsLoudly(j) ==
    \E x \in queue[j] :
        /\ Pushing(j, x)
        /\ \/ AfterPush(j, x)
           \/ /\ queue' = [queue EXCEPT ![j] = {}]
              /\ pc' = [pc EXCEPT ![j] = "idle"]
              /\ UNCHANGED <<inventoryVars, indexVars, published, asked, memory,
                             posting, loop, ghostVars>>
        /\ UNCHANGED faults

\* The post ends: a finding, another status, or an exception, all swallowed.
PushEnds(j) == \E x \in queue[j] : Pushing(j, x) /\ AfterPush(j, x) /\ UNCHANGED faults

\* The SMTP session ends, well or not.
EmailEnds(j) ==
    /\ loop = j
    /\ loop' = NoJob
    /\ \E x \in queue[j] :
          /\ x.advisory = posting[j]
          /\ IF Teams THEN UNCHANGED <<queue, pc, posting>>
             ELSE Done(j, x) /\ posting' = [posting EXCEPT ![j] = NoAlert]
    /\ tried' = [tried EXCEPT ![posting[j]] = @ \union {"email"}]
    /\ UNCHANGED <<inventoryVars, indexVars, published, asked, memory, aside, faults>>

\* The Teams post ends, well or not.
TeamsEnds(j) ==
    /\ loop = NoJob /\ posting[j] # NoAlert
    /\ \E x \in queue[j] : x.advisory = posting[j] /\ Done(j, x)
    /\ tried' = [tried EXCEPT ![posting[j]] = @ \union {"teams"}]
    /\ posting' = [posting EXCEPT ![j] = NoAlert]
    /\ UNCHANGED <<inventoryVars, indexVars, published, asked, memory, loop, aside,
                   faults>>

\* The service restarts: cache, memories, queues and running jobs are gone.
Restart ==
    /\ Fault /\ Forget
    /\ \E old \in SUBSET (published \intersect Of("nvd_delta")) :
          memory' = Booted(old) /\ aside' = old
    /\ pc' = [j \in Jobs |-> "idle"] /\ asked' = {}
    /\ queue' = [j \in Jobs |-> {}] /\ posting' = [j \in Jobs |-> NoAlert]
    /\ loop' = NoJob
    /\ tried' = [a \in Advisories |-> {}]
    /\ UNCHANGED <<inventoryVars, published>>

Dispatch(j) == PushEnds(j) \/ TeamsEnds(j)

Next ==
    \/ \E a \in Advisories : Publish(a)
    \/ Change \/ Refresh \/ Restart
    \/ \E j \in Jobs : \/ Fire(j) \/ Collect(j) \/ CollectFails(j)
                       \/ Dispatch(j) \/ EmailEnds(j)

\* Triggers fire; httpx's time-outs end every await, and asyncio's queue of
\* ready callbacks, first in first out, runs what has ended although other
\* jobs' e-mails hold the loop again and again.  Nothing ends an SMTP session
\* the server leaves open: smtplib is called without a time-out.
Fairness == \A j \in Jobs : WF_vars(Fire(j)) /\ SF_vars(Collect(j)) /\ SF_vars(Dispatch(j))

Spec     == Init /\ [][Next]_vars
FairSpec == Spec /\ Fairness

-----------------------------------------------------------------------------

\* An alert is dispatched with hosts, never before a cache is loaded, and each
\* host had a package the alert concerns in OCS's own tables during the refresh
\* whose index it was matched against, however old the alert is by then
\* (matching.py:27-50, ocs_cache.py:85-87): no alert mixes two caches.
QueuedTruthful ==
    \A j \in Jobs : \A x \in queue[j] :
        /\ x.hosts # {} /\ x.since # None
        /\ \A m \in x.hosts \ {Unknown} :
              \E e \in x.since .. x.at, p \in Concerned(x.advisory) :
                  m \in DOMAIN ocs[e] /\ p \in ocs[e][m]

\* Nothing is remembered as treated and then lost inside the process: what a
\* collector will not return again was put aside by a rule, waits in dispatch,
\* or went through every channel (nvd_delta.py:22-26, 89, cisa_kev.py:65,
\* vendor_rss.py:96-98, intersystems.py:108-109, alerting.py:137-145).
Accounted ==
    \A j \in Jobs : \A a \in memory[j] :
        a \in aside \/ a \in Queued(j) \/ tried[a] = Channels(a)

\* dispatch() leaves an alert only when all its channels were tried, whatever
\* failed before, for this alert or another (alerting.py:139-145).
DispatchComplete ==
    [][\A j \in Jobs : \A x \in queue[j] :
          x \in queue'[j] \/ tried'[x.advisory] = Channels(x.advisory)
             \/ Restart]_vars

\* dispatch() of every job ends, unless an SMTP session never does
\* (alerting.py:79): neither failed posts nor the other jobs hold it up.
DispatchEnds ==
    \/ \A j \in Jobs : pc[j] = "dispatching" ~> pc[j] # "dispatching"
    \/ <>[](loop # NoJob)

\* scheduler.py:27: "Job NVD delta -- toutes les 30min": it runs for ever.
NvdKeepsRunning == []<>(pc["nvd_delta"] = "collecting")

\* Every advisory is decided once and notified only if queued then.  NVD's
\* windows overlap, and a malformed KEV entry makes the additions before it
\* come up again at every poll.
fate ==
    [a \in Advisories |->
        IF \E j \in Jobs : a \in Queued(j) THEN "queued"
        ELSE IF tried[a] # {} THEN "notified"
        ELSE IF a \in aside THEN "aside" ELSE "unseen"]

Delivery == INSTANCE AlertDelivery WITH
                Repeatable <- {a \in Advisories :
                                 \/ Source[a] = "nvd_delta"
                                 \/ /\ Source[a] = "cisa_kev"
                                    /\ Malformed \intersect Of("cisa_kev") # {}}

DecidedOnce == Delivery!DeliverySpec
=============================================================================
