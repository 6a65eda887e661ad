-------------------------- MODULE VulnEngineProofs --------------------------
(***************************************************************************)
(* The alerts of one vuln-engine process: that what waits in dispatch is   *)
(* true of the inventory, that nothing a collector remembers is lost, that *)
(* dispatch leaves no channel out and comes to its end, and that an        *)
(* advisory is decided once, whatever the interleaving of the jobs, the    *)
(* refreshes and the restarts.                                             *)
(***************************************************************************)
EXTENDS VulnEngine, InventoryCacheProofs, MatchingProofs

\* Only a dispatching job has alerts, each of its own source and one per
\* advisory; they were matched against an index of the past.
QueuesOK ==
    \A j \in Jobs :
        /\ pc[j] # "dispatching" => queue[j] = {}
        /\ \A x \in queue[j] :
              /\ Source[x.advisory] = j
              /\ \A y \in queue[j] : x.advisory = y.advisory => x = y
        /\ \A x \in queue[j] : x.since # None => x.since .. x.at \subseteq 0 .. epoch

\* Between two channels of an alert: those before were tried, and the one at
\* hand is among the alert's.
PostingOK ==
    \A j \in Jobs :
        /\ loop = j => posting[j] # NoAlert
        /\ posting[j] # NoAlert =>
              /\ posting[j] \in Queued(j) \intersect Critical
              /\ "defectdojo" \in tried[posting[j]]
              /\ IF loop = j THEN Smtp
                 ELSE Teams /\ (Smtp => "email" \in tried[posting[j]])

TriedOK == \A a \in Advisories : tried[a] \subseteq Channels(a)

\* What a collector remembers its source has carried, and an advisory that
\* comes once is remembered from the moment it is decided.
Repeats ==
    {a \in Advisories : \/ Source[a] = "nvd_delta"
                        \/ /\ Source[a] = "cisa_kev"
                           /\ Malformed \intersect Of("cisa_kev") # {}}

MemoryOK ==
    /\ \A j \in Jobs : memory[j] \subseteq published \intersect Of(j)
    /\ asked \subseteq published \intersect Of("nvd_delta")
    /\ \A a \in Advisories \ Repeats :
          (a \in aside \/ tried[a] # {} \/ a \in Queued(Source[a])) => a \in memory[Source[a]]

EngineInv ==
    /\ InventoryInv /\ TypeOK
    /\ QueuesOK /\ PostingOK /\ TriedOK /\ MemoryOK
    /\ QueuedTruthful /\ Accounted

-----------------------------------------------------------------------------
(* What a collector returns *)

\* What any collector returns and keeps: it forgets nothing, remembers nothing
\* it neither returned nor ignored, and returns an advisory that comes once
\* only if it did not know it, and knows it then.
LEMMA OutcomeIs ==
    ASSUME TypeOK, MemoryOK, NEW j \in Jobs, NEW o \in Outcomes(j)
    PROVE  /\ o.alerts \subseteq published \intersect Of(j)
           /\ o.memory \subseteq published \intersect Of(j)
           /\ memory[j] \subseteq o.memory
           /\ o.memory \subseteq memory[j] \union o.alerts \union Ignored(j)
           /\ Ignored(j) \subseteq o.memory
           /\ \A a \in o.alerts \ Repeats : a \notin memory[j] /\ a \in o.memory
<1> DEFINE seen == memory[j]
           here == published \intersect Of(j)
<1>1. seen \subseteq here /\ here \subseteq Advisories
  BY DEF MemoryOK, Of
<1>2. j \in AllJobs
  BY VulnEngineAssumption
<1>3. \A a \in here : a \in Advisories /\ Source[a] = j
  BY DEF Of
<1>4. CASE j = "nvd_delta"
  <2>0. PICK w \in {(asked \ seen) \union edge : edge \in SUBSET seen} :
           \E alerts \in NvdAlerts(w) :
              o = Outcome(alerts, IF NvdWindowDone(w) THEN seen \union asked ELSE seen)
    BY <1>4 DEF Outcomes
  <2>1. PICK alerts \in NvdAlerts(w) :
              o = Outcome(alerts, IF NvdWindowDone(w) THEN seen \union asked ELSE seen)
    BY <2>0
  <2>2. w \subseteq here /\ asked \subseteq here /\ asked \ seen \subseteq w
    BY <1>1, <1>4 DEF MemoryOK
  <2>3. alerts \subseteq w /\ (NvdWindowDone(w) => alerts = w)
    BY <2>1 DEF NvdAlerts, NvdWindowDone
  <2>4. /\ o.alerts = alerts
        /\ o.memory = IF NvdWindowDone(w) THEN seen \union asked ELSE seen
    BY <2>1 DEF Outcome
  <2>5. Ignored(j) = {}
    BY <1>4 DEF Ignored
  <2>6. o.alerts \subseteq Repeats
    BY <1>3, <1>4, <2>2, <2>3, <2>4 DEF Repeats
  <2> QED
    BY <1>1, <2>2, <2>3, <2>4, <2>5, <2>6
<1>5. CASE j = "cisa_kev"
  <2>1. o \in KevOutcomes(seen, here)
    BY <1>5 DEF Outcomes
  <2>2. Ignored(j) = IF seen = {} THEN here ELSE {}
    BY <1>5 DEF Ignored
  <2>3. CASE seen = {}
    <3>1. o.alerts = {} /\ o.memory = here
      BY <2>1, <2>3 DEF KevOutcomes, Outcome
    <3> QED
      BY <1>1, <2>2, <2>3, <3>1
  <2>4. CASE seen # {} /\ (here \ seen) \intersect Malformed = {}
    <3>1. o.alerts = here \ seen /\ o.memory = here
      BY <2>1, <2>4 DEF KevOutcomes, Outcome
    <3> QED
      BY <1>1, <2>2, <2>4, <3>1
  <2>5. CASE seen # {} /\ (here \ seen) \intersect Malformed # {}
    <3>1. o.alerts \subseteq here \ seen /\ o.memory = seen
      BY <2>1, <2>5 DEF KevOutcomes, Outcome
    <3>2. o.alerts \subseteq Repeats
      BY <1>3, <1>5, <2>5, <3>1 DEF Repeats
    <3> QED
      BY <1>1, <2>2, <2>5, <3>1, <3>2
  <2> QED
    BY <2>3, <2>4, <2>5
<1>6. CASE j = "vendor_rss"
  <2>1. o = RssOutcome(seen, here, Cardinality(here))
    BY <1>6 DEF Outcomes
  <2>2. Ignored(j) = IF seen = {} /\ Cardinality(here) > RssFloor THEN here ELSE here \ Serious
    BY <1>6 DEF Ignored
  <2>3. CASE seen = {} /\ Cardinality(here) > RssFloor
    <3>1. o.alerts = {} /\ o.memory = here
      BY <2>1, <2>3 DEF RssOutcome, Outcome
    <3> QED
      BY <1>1, <2>2, <2>3, <3>1
  <2>4. CASE ~(seen = {} /\ Cardinality(here) > RssFloor)
    <3>1. o.alerts = (here \ seen) \intersect Serious /\ o.memory = seen \union here
      BY <2>1, <2>4 DEF RssOutcome, Outcome
    <3>2. Ignored(j) = here \ Serious
      BY <2>2, <2>4
    <3> QED
      BY <1>1, <3>1, <3>2
  <2> QED
    BY <2>3, <2>4
<1>7. CASE j = "intersystems"
  <2>1. o = IscOutcome(seen, here)
    BY <1>7 DEF Outcomes
  <2>2. Ignored(j) = IF seen = {} /\ Cardinality(here) > IscFloor THEN here ELSE {}
    BY <1>7 DEF Ignored
  <2>3. CASE seen = {} /\ Cardinality(here) > IscFloor
    <3>1. o.alerts = {} /\ o.memory = here
      BY <2>1, <2>3 DEF IscOutcome, Outcome
    <3> QED
      BY <1>1, <2>2, <2>3, <3>1
  <2>4. CASE ~(seen = {} /\ Cardinality(here) > IscFloor)
    <3>1. o.alerts = here \ seen /\ o.memory = seen \union here
      BY <2>1, <2>4 DEF IscOutcome, Outcome
    <3>2. Ignored(j) = {}
      BY <2>2, <2>4
    <3> QED
      BY <1>1, <3>1, <3>2
  <2> QED
    BY <2>3, <2>4
<1> QED
  BY <1>2, <1>4, <1>5, <1>6, <1>7 DEF AllJobs

-----------------------------------------------------------------------------
(* The steps of dispatch() *)

\* One channel of the alert x of job j has been tried: the next one is awaited,
\* or the alert is through with all of them.
Handles(j, x, c) ==
    /\ c \in Channels(x.advisory)
    /\ tried' = [tried EXCEPT ![x.advisory] = @ \union {c}]
    /\ pc[j] = "dispatching" /\ loop \in {j, NoJob} /\ loop' \in {j, NoJob}
    /\ UNCHANGED <<inventoryVars, indexVars, published, asked, memory, aside, faults>>
    /\ \/ /\ UNCHANGED <<queue, pc>>
          /\ posting' = [posting EXCEPT ![j] = x.advisory]
          /\ x.advisory \in Critical /\ "defectdojo" \in tried'[x.advisory]
          /\ IF loop' = j THEN Smtp ELSE Teams /\ (Smtp => "email" \in tried'[x.advisory])
       \/ /\ Done(j, x) /\ posting' = [posting EXCEPT ![j] = NoAlert] /\ loop' = NoJob
          /\ tried'[x.advisory] = Channels(x.advisory)

\* The types of the variables of dispatch(), at hand.
LEMMA Typing ==
    ASSUME EngineInv, NEW j \in Jobs
    PROVE  /\ j # NoJob
           /\ DOMAIN pc = Jobs /\ DOMAIN queue = Jobs /\ DOMAIN posting = Jobs
           /\ tried \in [Advisories -> SUBSET {"defectdojo", "email", "teams"}]
           /\ \A x \in queue[j] : x \in Alerts /\ x.advisory \in Advisories
           /\ posting[j] \in Advisories \union {NoAlert}
           /\ NoAlert \notin Advisories
           /\ (queue[j] # {} \/ posting[j] # NoAlert \/ loop = j) => pc[j] = "dispatching"
<1>1. j # NoJob
  BY VulnEngineAssumption DEF AllJobs, NoJob
<1>2. \A x \in queue[j] : x \in Alerts /\ x.advisory \in Advisories
  BY DEF EngineInv, TypeOK, Alerts
<1>3. posting[j] # NoAlert => queue[j] # {}
  BY DEF EngineInv, PostingOK, Queued
<1> QED
  BY <1>1, <1>2, <1>3, VulnEngineAssumption DEF EngineInv, TypeOK, QueuesOK, PostingOK

\* The end of a DefectDojo post, of an SMTP session and of a Teams post.
LEMMA DispatchIs ==
    ASSUME EngineInv, NEW j \in Jobs, PushEnds(j) \/ EmailEnds(j) \/ TeamsEnds(j)
    PROVE  \E x \in queue[j] : \E c : Handles(j, x, c)
<1>1. ASSUME PushEnds(j)
      PROVE  \E x \in queue[j] : Handles(j, x, "defectdojo")
  <2>1. PICK x \in queue[j] : Pushing(j, x) /\ AfterPush(j, x) /\ UNCHANGED faults
    BY <1>1 DEF PushEnds
  <2>2. /\ loop = NoJob /\ pc[j] = "dispatching" /\ posting[j] = NoAlert
        /\ tried' = [tried EXCEPT ![x.advisory] = @ \union {"defectdojo"}]
        /\ UNCHANGED <<inventoryVars, indexVars, published, asked, memory, aside, faults>>
    BY <2>1 DEF Pushing, AfterPush
  <2>3. /\ tried'[x.advisory] = tried[x.advisory] \union {"defectdojo"}
        /\ tried[x.advisory] \subseteq Channels(x.advisory)
        /\ "defectdojo" \in Channels(x.advisory)
    BY <2>2, Typing DEF EngineInv, TriedOK, Channels
  <2>4. posting = [posting EXCEPT ![j] = NoAlert]
    BY <2>2 DEF EngineInv, TypeOK
  <2>5. CASE x.advisory \notin Critical
    <3>1. Done(j, x) /\ UNCHANGED <<posting, loop>>
      BY <2>1, <2>5 DEF AfterPush
    <3>2. tried'[x.advisory] = Channels(x.advisory)
      BY <2>3, <2>5 DEF Channels
    <3> QED
      BY <2>2, <2>3, <2>4, <3>1, <3>2 DEF Handles
  <2>6. CASE x.advisory \in Critical /\ Smtp
    <3>1. loop' = j /\ posting' = [posting EXCEPT ![j] = x.advisory] /\ UNCHANGED <<queue, pc>>
      BY <2>1, <2>6 DEF AfterPush
    <3> QED
      BY <2>2, <2>3, <2>6, <3>1 DEF Handles
  <2>7. CASE x.advisory \in Critical /\ ~Smtp /\ Teams
    <3>1. posting' = [posting EXCEPT ![j] = x.advisory] /\ UNCHANGED <<queue, pc, loop>>
      BY <2>1, <2>7 DEF AfterPush, AfterEmail
    <3>2. loop' # j
      BY <2>2, <3>1, Typing
    <3> QED
      BY <2>2, <2>3, <2>7, <3>1, <3>2 DEF Handles
  <2>8. CASE x.advisory \in Critical /\ ~Smtp /\ ~Teams
    <3>1. Done(j, x) /\ UNCHANGED <<posting, loop>>
      BY <2>1, <2>8 DEF AfterPush, AfterEmail
    <3>2. tried'[x.advisory] = Channels(x.advisory)
      BY <2>3, <2>8 DEF Channels
    <3> QED
      BY <2>2, <2>3, <2>4, <3>1, <3>2 DEF Handles
  <2> QED
    BY <2>5, <2>6, <2>7, <2>8
<1>2. ASSUME EmailEnds(j)
      PROVE  \E x \in queue[j] : Handles(j, x, "email")
  <2>1. PICK x \in queue[j] :
          /\ x.advisory = posting[j]
          /\ IF Teams THEN UNCHANGED <<queue, pc, posting>>
             ELSE Done(j, x) /\ posting' = [posting EXCEPT ![j] = NoAlert]
    BY <1>2 DEF EmailEnds
  <2>2. /\ loop = j /\ loop' = NoJob
        /\ tried' = [tried EXCEPT ![x.advisory] = @ \union {"email"}]
        /\ UNCHANGED <<inventoryVars, indexVars, published, asked, memory, aside, faults>>
    BY <1>2, <2>1 DEF EmailEnds
  <2>3. pc[j] = "dispatching" /\ x.advisory \in Critical /\ Smtp
        /\ "defectdojo" \in tried[x.advisory] /\ loop' # j
    BY <2>1, <2>2, Typing DEF EngineInv, PostingOK
  <2>4. /\ tried'[x.advisory] = tried[x.advisory] \union {"email"}
        /\ tried[x.advisory] \subseteq Channels(x.advisory)
        /\ "email" \in Channels(x.advisory)
    BY <2>2, <2>3, Typing DEF EngineInv, TriedOK, Channels
  <2>5. CASE Teams
    <3>1. UNCHANGED <<queue, pc>> /\ posting' = [posting EXCEPT ![j] = x.advisory]
      BY <2>1, <2>5 DEF EngineInv, TypeOK
    <3> QED
      BY <2>2, <2>3, <2>4, <2>5, <3>1 DEF Handles
  <2>6. CASE ~Teams
    <3>1. tried'[x.advisory] = Channels(x.advisory)
      BY <2>3, <2>4, <2>6 DEF Channels
    <3> QED
      BY <2>1, <2>2, <2>3, <2>4, <2>6, <3>1 DEF Handles
  <2> QED
    BY <2>5, <2>6
<1>3. ASSUME TeamsEnds(j)
      PROVE  \E x \in queue[j] : Handles(j, x, "teams")
  <2>1. PICK x \in queue[j] : x.advisory = posting[j] /\ Done(j, x)
    BY <1>3 DEF TeamsEnds
  <2>2. /\ loop = NoJob /\ posting[j] # NoAlert /\ loop' = NoJob
        /\ tried' = [tried EXCEPT ![x.advisory] = @ \union {"teams"}]
        /\ posting' = [posting EXCEPT ![j] = NoAlert]
        /\ UNCHANGED <<inventoryVars, indexVars, published, asked, memory, aside, faults>>
    BY <1>3, <2>1 DEF TeamsEnds
  <2>3. /\ pc[j] = "dispatching" /\ x.advisory \in Critical /\ Teams
        /\ "defectdojo" \in tried[x.advisory] /\ (Smtp => "email" \in tried[x.advisory])
    BY <2>1, <2>2, Typing DEF EngineInv, PostingOK
  <2>4. /\ tried'[x.advisory] = tried[x.advisory] \union {"teams"}
        /\ tried[x.advisory] \subseteq Channels(x.advisory)
        /\ "teams" \in Channels(x.advisory)
    BY <2>2, <2>3, Typing DEF EngineInv, TriedOK, Channels
  <2>5. tried'[x.advisory] = Channels(x.advisory)
    BY <2>3, <2>4 DEF Channels
  <2> QED
    BY <2>1, <2>2, <2>3, <2>4, <2>5 DEF Handles
<1> QED
  BY <1>1, <1>2, <1>3

\* What a step of dispatch() changes: one alert leaves at most, its channels
\* all tried, and nothing tried is forgotten.
LEMMA HandlesIs ==
    ASSUME EngineInv, NEW j \in Jobs, NEW x \in queue[j], NEW c, Handles(j, x, c)
    PROVE  /\ x.advisory \in Advisories
           /\ tried' = [tried EXCEPT ![x.advisory] = @ \union {c}]
           /\ tried'[x.advisory] \subseteq Channels(x.advisory)
           /\ \A a \in Advisories : a # x.advisory => tried'[a] = tried[a]
           /\ \A a \in Advisories : tried[a] \subseteq tried'[a]
           /\ \A i \in Jobs : i # j => queue'[i] = queue[i] /\ pc'[i] = pc[i]
                                             /\ posting'[i] = posting[i] /\ loop # i /\ loop' # i
           /\ \/ UNCHANGED <<queue, pc>> /\ posting'[j] = x.advisory
              \/ /\ queue'[j] = queue[j] \ {x} /\ posting'[j] = NoAlert /\ loop' = NoJob
                 /\ pc'[j] = IF queue[j] = {x} THEN "idle" ELSE "dispatching"
                 /\ tried'[x.advisory] = Channels(x.advisory)
<1>1. /\ x.advisory \in Advisories /\ DOMAIN pc = Jobs /\ DOMAIN queue = Jobs
      /\ DOMAIN posting = Jobs /\ DOMAIN tried = Advisories
  BY Typing
<1>2. /\ tried' = [tried EXCEPT ![x.advisory] = @ \union {c}] /\ c \in Channels(x.advisory)
      /\ tried[x.advisory] \subseteq Channels(x.advisory)
  BY <1>1 DEF Handles, EngineInv, TriedOK
<1>3. \A i \in Jobs : i # NoJob
  BY Typing
<1>4. /\ tried'[x.advisory] \subseteq Channels(x.advisory)
      /\ \A a \in Advisories : a # x.advisory => tried'[a] = tried[a]
      /\ \A a \in Advisories : tried[a] \subseteq tried'[a]
  BY <1>1, <1>2
<1>5. CASE UNCHANGED <<queue, pc>> /\ posting' = [posting EXCEPT ![j] = x.advisory]
  BY <1>1, <1>2, <1>3, <1>4, <1>5 DEF Handles
<1>6. CASE /\ Done(j, x) /\ posting' = [posting EXCEPT ![j] = NoAlert] /\ loop' = NoJob
           /\ tried'[x.advisory] = Channels(x.advisory)
  BY <1>1, <1>2, <1>3, <1>4, <1>6 DEF Handles, Done
<1> QED
  BY <1>5, <1>6 DEF Handles

\* Every step of dispatch() preserves the invariant.
LEMMA HandlesOK ==
    ASSUME EngineInv, InventoryInv', NEW j \in Jobs, NEW x \in queue[j], NEW c, Handles(j, x, c)
    PROVE  EngineInv'
<1> DEFINE b == x.advisory
<1>1. /\ b \in Advisories
      /\ tried'[b] \subseteq Channels(b)
      /\ \A a \in Advisories : a # b => tried'[a] = tried[a]
      /\ \A a \in Advisories : tried[a] \subseteq tried'[a]
      /\ \A i \in Jobs : i # j => queue'[i] = queue[i] /\ pc'[i] = pc[i]
                                        /\ posting'[i] = posting[i] /\ loop # i /\ loop' # i
  BY HandlesIs
<1>2. \/ UNCHANGED <<queue, pc>> /\ posting'[j] = b
      \/ /\ queue'[j] = queue[j] \ {x} /\ posting'[j] = NoAlert /\ loop' = NoJob
         /\ pc'[j] = IF queue[j] = {x} THEN "idle" ELSE "dispatching"
         /\ tried'[b] = Channels(b)
  BY HandlesIs
<1>3. UNCHANGED <<ocs, epoch, packages_index, last_refresh, since, published, asked, memory,
                  aside, faults>>
  BY DEF Handles, inventoryVars, indexVars
<1>4. \A i \in Jobs : queue'[i] \subseteq queue[i]
  BY <1>1, <1>2
<1>5. TypeOK'
  <2>1. queue' \in [Jobs -> SUBSET Alerts] /\ pc' \in [Jobs -> {"idle", "collecting", "dispatching"}]
    BY DEF Handles, Done, EngineInv, TypeOK
  <2>2. posting' \in [Jobs -> Advisories \union {NoAlert}] /\ loop' \in Jobs \union {NoJob}
    BY <1>1 DEF Handles, EngineInv, TypeOK
  <2>3. tried' \in [Advisories -> SUBSET {"defectdojo", "email", "teams"}]
    BY <1>1 DEF Handles, EngineInv, TypeOK, Channels
  <2>4. InventoryTypeOK'
    BY DEF InventoryInv
  <2> QED
    BY <1>3, <2>1, <2>2, <2>3, <2>4 DEF EngineInv, TypeOK
<1>6. QueuesOK'
  <2>1. \A i \in Jobs : pc'[i] # "dispatching" => queue'[i] = {}
    BY <1>1, <1>2 DEF EngineInv, QueuesOK
  <2> QED
    BY <1>3, <1>4, <2>1 DEF EngineInv, QueuesOK
<1>7. PostingOK'
  <2> SUFFICES ASSUME NEW i \in Jobs
               PROVE  /\ loop' = i => posting'[i] # NoAlert
                      /\ posting'[i] # NoAlert =>
                            /\ posting'[i] \in Queued(i)' \intersect Critical
                            /\ "defectdojo" \in tried'[posting'[i]]
                            /\ IF loop' = i THEN Smtp
                               ELSE Teams /\ (Smtp => "email" \in tried'[posting'[i]])
    BY DEF PostingOK
  <2>1. CASE i # j
    <3>1. /\ queue'[i] = queue[i] /\ posting'[i] = posting[i] /\ loop # i /\ loop' # i
          /\ posting[i] \in Advisories \union {NoAlert}
      BY <1>1, <2>1, Typing
    <3>2. Queued(i)' = Queued(i)
      BY <3>1 DEF Queued
    <3> QED
      BY <1>1, <3>1, <3>2 DEF EngineInv, PostingOK
  <2>2. CASE i = j /\ UNCHANGED <<queue, pc>> /\ posting'[j] = b
    <3>1. /\ b \in Critical /\ "defectdojo" \in tried'[b] /\ b # NoAlert
          /\ IF loop' = j THEN Smtp ELSE Teams /\ (Smtp => "email" \in tried'[b])
      <4>1. ~Done(j, x)
        BY <2>2, Typing DEF Done, EngineInv, TypeOK
      <4> QED
        BY <1>1, <4>1, Typing DEF Handles
    <3>2. b \in Queued(j)'
      BY <2>2 DEF Queued
    <3> QED
      BY <2>2, <3>1, <3>2
  <2>3. CASE i = j /\ posting'[j] = NoAlert /\ loop' = NoJob
    BY <2>3, Typing
  <2> QED
    BY <1>2, <2>1, <2>2, <2>3
<1>8. TriedOK'
  <2>1. \A a \in Advisories : tried'[a] \subseteq Channels(a)
    BY <1>1 DEF EngineInv, TriedOK
  <2> QED
    BY <2>1 DEF TriedOK, Channels
<1>9. MemoryOK'
  <2>1. \A i \in Jobs : Queued(i)' \subseteq Queued(i)
    BY <1>4 DEF Queued
  <2>2. \A a \in Advisories : tried'[a] # {} => tried[a] # {} \/ a \in Queued(Source[a])
    <3>1. b \in Queued(Source[b])
      BY DEF EngineInv, QueuesOK, Queued
    <3> QED
      BY <1>1, <3>1
  <2>3. \A a \in Advisories : Source[a] \in Jobs
    BY VulnEngineAssumption
  <2> QED
    BY <1>3, <2>1, <2>2, <2>3 DEF EngineInv, MemoryOK, Repeats, Of
<1>10. QueuedTruthful'
  BY <1>3, <1>4 DEF EngineInv, QueuedTruthful
<1>11. Accounted'
  <2> SUFFICES ASSUME NEW i \in Jobs, NEW a \in memory[i]
               PROVE  a \in aside \/ a \in Queued(i)' \/ tried'[a] = Channels(a)
    BY <1>3 DEF Accounted, Channels
  <2>1. a \in Advisories /\ Source[a] = i
    BY DEF EngineInv, MemoryOK, Of
  <2>2. a \in aside \/ a \in Queued(i) \/ tried[a] = Channels(a)
    BY DEF EngineInv, Accounted
  <2>3. ASSUME tried[a] = Channels(a) PROVE tried'[a] = Channels(a)
    BY <1>1, <2>1, <2>3
  <2>4. ASSUME a \in Queued(i) PROVE a \in Queued(i)' \/ tried'[a] = Channels(a)
    <3>1. CASE queue'[i] = queue[i]
      BY <2>4, <3>1 DEF Queued
    <3>2. CASE i = j /\ queue'[j] = queue[j] \ {x} /\ tried'[b] = Channels(b)
      BY <2>4, <3>2 DEF Queued
    <3> QED
      BY <1>1, <1>2, <3>1, <3>2
  <2> QED
    BY <2>2, <2>3, <2>4
<1> QED
  BY <1>5, <1>6, <1>7, <1>8, <1>9, <1>10, <1>11 DEF EngineInv

-----------------------------------------------------------------------------
(* The steps of the collectors *)

\* The alerts of an answer all go to their own job's queue, matched against
\* the cache in force, one per advisory.
LEMMA EnrichedTruly ==
    ASSUME InventoryInv, NEW j \in Jobs, NEW alerts,
           alerts \subseteq {a \in Advisories : Source[a] = j},
           NEW x \in {Enriched(a) : a \in Match(packages_index, alerts)}
    PROVE  /\ x \in Alerts /\ Source[x.advisory] = j /\ x = Enriched(x.advisory)
           /\ x.hosts # {} /\ x.since # None /\ x.since .. x.at \subseteq 0 .. epoch
           /\ \A m \in x.hosts \ {Unknown} :
                 \E e \in x.since .. x.at, p \in Concerned(x.advisory) :
                    m \in DOMAIN ocs[e] /\ p \in ocs[e][m]
<1>1. PICK a \in alerts : AllHosts(packages_index, a) # {} /\ x = Enriched(a)
  BY DEF Match
<1>2. /\ a \in Advisories /\ Source[a] = j
      /\ x.advisory = a /\ x.hosts = AllHosts(packages_index, a)
      /\ x.since = since /\ x.at = last_refresh
  BY <1>1 DEF Enriched
<1>3. \A m \in x.hosts : \E p \in Concerned(a) : p \in Packages /\ m \in packages_index[p]
  <2>1. DOMAIN packages_index = Packages
    BY DEF InventoryInv, InventoryTypeOK
  <2> QED
    BY <1>2, <2>1, HostsConcern
<1>4. since # None
  <2>1. PICK m \in x.hosts, p \in Packages : m \in packages_index[p]
    BY <1>1, <1>2, <1>3
  <2> QED
    BY <2>1 DEF InventoryInv, PublishedPast, EmptyIndex
<1>5. since .. last_refresh \subseteq 0 .. epoch
  BY <1>4, EpochNat DEF InventoryInv, PublishedPast
<1>6. x \in Alerts
  <2>1. x.hosts \subseteq Hosts
    BY <1>3 DEF InventoryInv, InventoryTypeOK
  <2> QED
    BY <1>1, <1>2, <2>1 DEF Enriched, Alerts, InventoryInv, InventoryTypeOK
<1>7. ASSUME NEW m \in x.hosts \ {Unknown}
      PROVE  \E e \in since .. last_refresh, p \in Concerned(a) :
                m \in DOMAIN ocs[e] /\ p \in ocs[e][m]
  <2>1. PICK p \in Concerned(a) : p \in Packages /\ m \in packages_index[p]
    BY <1>3
  <2> QED
    BY <2>1 DEF InventoryInv, IndexTruthful
<1> QED
  BY <1>1, <1>2, <1>4, <1>5, <1>6, <1>7

\* collect() answers, match() sorts, dispatch() starts.
LEMMA CollectOK ==
    ASSUME EngineInv, InventoryInv', NEW j \in Jobs, Collect(j) PROVE EngineInv'
<1>1. PICK o \in Outcomes(j) :
        /\ memory' = [memory EXCEPT ![j] = o.memory]
        /\ queue' = [queue EXCEPT ![j] = {Enriched(a) : a \in Match(packages_index, o.alerts)}]
        /\ pc' = [pc EXCEPT ![j] = IF Match(packages_index, o.alerts) = {}
                                   THEN "idle" ELSE "dispatching"]
        /\ aside' = (aside \ Match(packages_index, o.alerts))
                      \union (o.alerts \ Match(packages_index, o.alerts)) \union Ignored(j)
  BY DEF Collect
<1> DEFINE matched == Match(packages_index, o.alerts)
<1>2. /\ loop = NoJob /\ pc[j] = "collecting"
      /\ asked' = IF j = "nvd_delta" THEN {} ELSE asked
      /\ UNCHANGED <<ocs, epoch, packages_index, last_refresh, since, published, posting,
                     loop, tried, faults>>
  BY DEF Collect, inventoryVars, indexVars
<1>3. /\ o.alerts \subseteq published \intersect Of(j)
      /\ o.memory \subseteq published \intersect Of(j)
      /\ memory[j] \subseteq o.memory
      /\ o.memory \subseteq memory[j] \union o.alerts \union Ignored(j)
      /\ Ignored(j) \subseteq o.memory
      /\ \A a \in o.alerts \ Repeats : a \notin memory[j] /\ a \in o.memory
  BY OutcomeIs DEF EngineInv
<1>4. matched \subseteq o.alerts
  BY DEF Match
<1>5. /\ o.alerts \subseteq {a \in Advisories : Source[a] = j}
      /\ o.memory \subseteq {a \in Advisories : Source[a] = j}
      /\ published \subseteq Advisories
  BY <1>3 DEF Of, EngineInv, TypeOK
<1>6. /\ memory'[j] = o.memory /\ queue'[j] = {Enriched(a) : a \in matched}
      /\ pc'[j] = IF matched = {} THEN "idle" ELSE "dispatching"
      /\ queue[j] = {} /\ posting[j] = NoAlert
      /\ \A i \in Jobs : i # j => /\ memory'[i] = memory[i] /\ queue'[i] = queue[i]
                                /\ pc'[i] = pc[i]
  <2>1. DOMAIN memory = Jobs /\ DOMAIN queue = Jobs /\ DOMAIN pc = Jobs
    BY DEF EngineInv, TypeOK
  <2>2. queue[j] = {} /\ posting[j] = NoAlert
    BY <1>2, Typing
  <2> QED
    BY <1>1, <2>1, <2>2
<1>7. \A x \in queue'[j] :
        /\ x \in Alerts /\ Source[x.advisory] = j /\ x = Enriched(x.advisory)
        /\ x.hosts # {} /\ x.since # None /\ x.since .. x.at \subseteq 0 .. epoch
        /\ \A m \in x.hosts \ {Unknown} :
              \E e \in x.since .. x.at, p \in Concerned(x.advisory) :
                 m \in DOMAIN ocs[e] /\ p \in ocs[e][m]
  BY <1>5, <1>6, EnrichedTruly DEF EngineInv
<1>8. Queued(j)' = matched /\ Queued(j) = {}
  <2>1. \A a : Enriched(a).advisory = a
    BY DEF Enriched
  <2> HIDE DEF matched
  <2>2. Queued(j)' = {x.advisory : x \in queue'[j]} /\ Queued(j) = {}
    BY <1>6 DEF Queued
  <2> QED
    BY <1>6, <2>1, <2>2
<1>9. \A i \in Jobs : i # j => Queued(i)' = Queued(i)
  BY <1>6 DEF Queued
<1>10. TypeOK'
  <2>1. queue' \in [Jobs -> SUBSET Alerts] /\ memory' \in [Jobs -> SUBSET Advisories]
        /\ pc' \in [Jobs -> {"idle", "collecting", "dispatching"}]
    <3>1. queue'[j] \subseteq Alerts
      BY <1>7
    <3> HIDE DEF matched
    <3> QED
      BY <1>1, <1>5, <1>6, <3>1 DEF EngineInv, TypeOK
  <2>2. aside' \subseteq Advisories /\ asked' \subseteq Advisories
    BY <1>1, <1>2, <1>3, <1>5 DEF EngineInv, TypeOK
  <2> QED
    BY <1>2, <2>1, <2>2 DEF EngineInv, TypeOK, InventoryInv
<1>11. QueuesOK'
  <2>1. \A x \in queue'[j] : \A y \in queue'[j] : x.advisory = y.advisory => x = y
    BY <1>7
  <2>2. pc'[j] # "dispatching" => queue'[j] = {}
    BY <1>6
  <2> QED
    BY <1>2, <1>6, <1>7, <2>1, <2>2 DEF EngineInv, QueuesOK
<1>12. PostingOK'
  <2>1. \A i \in Jobs : posting[i] # NoAlert => Queued(i)' = Queued(i)
    BY <1>6, <1>9
  <2> QED
    BY <1>2, <2>1 DEF EngineInv, PostingOK
<1>13. TriedOK'
  BY <1>2 DEF EngineInv, TriedOK, Channels
<1>14. MemoryOK'
  <2>1. \A i \in Jobs : memory'[i] \subseteq published' \intersect Of(i)
    BY <1>2, <1>3, <1>6 DEF EngineInv, MemoryOK
  <2>2. asked' \subseteq published' \intersect Of("nvd_delta")
    BY <1>2 DEF EngineInv, MemoryOK
  <2>3. ASSUME NEW a \in Advisories \ Repeats,
               a \in aside' \/ tried'[a] # {} \/ a \in Queued(Source[a])'
        PROVE  a \in memory'[Source[a]]
    <3>1. Source[a] \in Jobs
      BY VulnEngineAssumption
    <3>2. CASE a \in o.alerts \/ a \in Ignored(j)
      BY <1>3, <1>5, <1>6, <3>2
    <3>3. CASE ~(a \in o.alerts \/ a \in Ignored(j))
      <4>1. a \in aside \/ tried[a] # {} \/ a \in Queued(Source[a])
        BY <1>1, <1>2, <1>4, <1>8, <1>9, <2>3, <3>1, <3>3
      <4>2. a \in memory[Source[a]]
        BY <4>1 DEF EngineInv, MemoryOK
      <4> QED
        BY <1>3, <1>6, <3>1, <4>2
    <3> QED
      BY <3>2, <3>3
  <2> QED
    BY <2>1, <2>2, <2>3 DEF MemoryOK, Repeats, Of
<1>15. QueuedTruthful'
  BY <1>2, <1>6, <1>7 DEF EngineInv, QueuedTruthful
<1>16. Accounted'
  <2> SUFFICES ASSUME NEW i \in Jobs, NEW a \in memory'[i]
               PROVE  a \in aside' \/ a \in Queued(i)' \/ tried[a] = Channels(a)
    BY <1>2 DEF Accounted, Channels
  <2>1. CASE i # j
    <3>1. a \in aside \/ a \in Queued(i)' \/ tried[a] = Channels(a)
      BY <1>6, <1>9, <2>1 DEF EngineInv, Accounted
    <3>2. a \notin matched
      BY <1>4, <1>5, <1>6, <2>1 DEF EngineInv, MemoryOK, Of
    <3> QED
      BY <1>1, <3>1, <3>2
  <2>2. CASE i = j
    <3>1. CASE a \in o.alerts \/ a \in Ignored(j)
      BY <1>1, <1>8, <2>2, <3>1
    <3>2. CASE a \in memory[j] /\ a \notin matched
      <4>1. a \in aside \/ tried[a] = Channels(a)
        BY <1>8, <3>2 DEF EngineInv, Accounted
      <4> QED
        BY <1>1, <3>2, <4>1
    <3> QED
      BY <1>3, <1>4, <1>6, <2>2, <3>1, <3>2
  <2> QED
    BY <2>1, <2>2
<1> QED
  BY <1>10, <1>11, <1>12, <1>13, <1>14, <1>15, <1>16 DEF EngineInv

\* A refresh and a change of the inventory leave the past, and with it what
\* was matched, as it was.
LEMMA CacheMovesOK ==
    ASSUME EngineInv, InventoryInv', Refresh \/ Change PROVE EngineInv'
<1>1. UNCHANGED <<published, pc, asked, memory, queue, posting, loop, tried, aside, faults>>
  BY DEF Refresh, Change, engineVars, jobVars, ghostVars
<1>2. epoch \in Nat /\ epoch' \in Nat /\ epoch <= epoch' /\ \A e \in 0 .. epoch : ocs'[e] = ocs[e]
  <2>1. epoch \in Nat
    BY EpochNat DEF EngineInv, InventoryInv
  <2>2. CASE Refresh
    BY <2>1, <2>2 DEF Refresh, inventoryVars
  <2>3. CASE Change
    BY <2>1, <2>3, ChangeKeepsPast DEF Change, EngineInv, InventoryInv
  <2> QED
    BY <2>2, <2>3
<1>3. TypeOK'
  BY <1>1 DEF EngineInv, TypeOK, InventoryInv, Alerts
<1>4. QueuesOK'
  <2>1. 0 .. epoch \subseteq 0 .. epoch'
    BY <1>2
  <2> QED
    BY <1>1, <2>1 DEF EngineInv, QueuesOK
<1>5. PostingOK' /\ TriedOK' /\ Accounted'
  BY <1>1 DEF EngineInv, PostingOK, TriedOK, Accounted, Queued, Channels
<1>6. MemoryOK'
  BY <1>1 DEF EngineInv, MemoryOK, Queued, Of, Repeats
<1>7. QueuedTruthful'
  <2> SUFFICES ASSUME NEW j \in Jobs, NEW x \in queue[j]
               PROVE  /\ x.hosts # {} /\ x.since # None
                      /\ \A m \in x.hosts \ {Unknown} :
                            \E e \in x.since .. x.at, p \in Concerned(x.advisory) :
                                m \in DOMAIN ocs'[e] /\ p \in ocs'[e][m]
    BY <1>1 DEF QueuedTruthful
  <2>1. x.since .. x.at \subseteq 0 .. epoch
    BY DEF EngineInv, QueuesOK, QueuedTruthful
  <2> QED
    BY <1>2, <2>1 DEF EngineInv, QueuedTruthful
<1> QED
  BY <1>3, <1>4, <1>5, <1>6, <1>7 DEF EngineInv

\* The sources, the triggers and the failed requests touch no alert.
LEMMA QuietStepOK ==
    ASSUME EngineInv, InventoryInv',
           \/ \E a \in Advisories : Publish(a)
           \/ \E j \in Jobs : Fire(j) \/ CollectFails(j)
           \/ UNCHANGED vars
    PROVE  EngineInv'
<1>1. /\ UNCHANGED <<ocs, epoch, packages_index, last_refresh, since, memory, queue, posting,
                     loop, tried, aside>>
      /\ published \subseteq published' /\ published' \subseteq Advisories
      /\ faults' \in 0 .. MaxFaults
      /\ asked' \subseteq published' \intersect Of("nvd_delta")
      /\ pc' \in [Jobs -> {"idle", "collecting", "dispatching"}]
      /\ \A i \in Jobs : pc[i] = "dispatching" <=> pc'[i] = "dispatching"
  <2>1. ASSUME NEW a \in Advisories, Publish(a) PROVE <1>1!:
    BY <2>1 DEF Publish, inventoryVars, indexVars, jobVars, ghostVars, EngineInv, TypeOK, MemoryOK
  <2>2. ASSUME NEW j \in Jobs, Fire(j) PROVE <1>1!:
    BY <2>2 DEF Fire, inventoryVars, indexVars, jobVars, ghostVars, EngineInv, TypeOK, MemoryOK
  <2>3. ASSUME NEW j \in Jobs, CollectFails(j) PROVE <1>1!:
    BY <2>3, VulnEngineAssumption
    DEF CollectFails, Fault, inventoryVars, indexVars, jobVars, ghostVars, EngineInv, TypeOK, MemoryOK
  <2>4. ASSUME UNCHANGED vars PROVE <1>1!:
    BY <2>4 DEF vars, inventoryVars, indexVars, engineVars, jobVars, ghostVars, EngineInv, TypeOK,
                MemoryOK
  <2> QED
    BY <2>1, <2>2, <2>3, <2>4
<1>2. TypeOK'
  BY <1>1 DEF EngineInv, TypeOK, InventoryInv, Alerts, Of
<1>3. QueuesOK' /\ PostingOK' /\ TriedOK'
  BY <1>1 DEF EngineInv, QueuesOK, PostingOK, TriedOK, Queued, Channels
<1>4. MemoryOK'
  BY <1>1 DEF EngineInv, MemoryOK, Queued, Of, Repeats
<1>5. QueuedTruthful' /\ Accounted'
  BY <1>1 DEF EngineInv, QueuedTruthful, Accounted, Queued, Channels
<1> QED
  BY <1>2, <1>3, <1>4, <1>5 DEF EngineInv

\* A new process has decided nothing yet, but what NVD's last hour leaves out.
LEMMA BootedOK ==
    ASSUME InventoryInv', published' \subseteq Advisories, faults' \in 0 .. MaxFaults,
           NEW old, old \subseteq published' \intersect Of("nvd_delta"),
           memory' = Booted(old), aside' = old, asked' = {},
           pc' = [j \in Jobs |-> "idle"], queue' = [j \in Jobs |-> {}],
           posting' = [j \in Jobs |-> NoAlert], loop' = NoJob,
           tried' = [a \in Advisories |-> {}]
    PROVE  EngineInv'
<1>1. \A j \in Jobs : memory'[j] = IF j = "nvd_delta" THEN old ELSE {}
  BY DEF Booted
<1>2. \A j \in Jobs : j # NoJob
  BY VulnEngineAssumption DEF AllJobs, NoJob
<1>3. \A a \in old : a \in Advisories /\ Source[a] = "nvd_delta" /\ a \in Repeats
  BY DEF Of, Repeats
<1>4. TypeOK'
  <2>1. memory' \in [Jobs -> SUBSET Advisories]
    BY <1>3 DEF Booted
  <2> QED
    BY <1>3, <2>1 DEF TypeOK, InventoryInv
<1>5. QueuesOK' /\ PostingOK' /\ TriedOK'
  BY <1>2 DEF QueuesOK, PostingOK, TriedOK
<1>6. MemoryOK'
  <2>1. \A j \in Jobs : memory'[j] \subseteq published' \intersect Of(j)
    BY <1>1
  <2>2. \A a \in Advisories \ Repeats : a \notin aside' /\ tried'[a] = {} /\ a \notin Queued(Source[a])'
    BY <1>3, VulnEngineAssumption DEF Queued
  <2> QED
    BY <2>1, <2>2 DEF MemoryOK, Repeats, Of
<1>7. QueuedTruthful' /\ Accounted'
  BY <1>1 DEF QueuedTruthful, Accounted
<1> QED
  BY <1>4, <1>5, <1>6, <1>7 DEF EngineInv

-----------------------------------------------------------------------------
(* The theorems *)

\* The engine touches the cache through refreshes and restarts only.
LEMMA CacheStep == [Next]_vars => [InventoryNext]_<<inventoryVars, indexVars>>
<1> SUFFICES ASSUME [Next]_vars PROVE [InventoryNext]_<<inventoryVars, indexVars>>
  OBVIOUS
<1>1. CASE Change
  BY <1>1 DEF Change, InventoryNext
<1>2. CASE Refresh
  BY <1>2 DEF Refresh, InventoryNext
<1>3. CASE Restart
  BY <1>3 DEF Restart, InventoryNext
<1>4. CASE \E a \in Advisories : Publish(a)
  BY <1>4 DEF Publish
<1>5. CASE \E j \in Jobs : Fire(j) \/ Collect(j) \/ CollectFails(j)
  BY <1>5 DEF Fire, Collect, CollectFails
<1>6. CASE \E j \in Jobs : PushEnds(j) \/ TeamsEnds(j) \/ EmailEnds(j)
  BY <1>6 DEF PushEnds, TeamsEnds, EmailEnds, AfterPush
<1>7. CASE UNCHANGED vars
  BY <1>7 DEF vars
<1> QED
  BY <1>1, <1>2, <1>3, <1>4, <1>5, <1>6, <1>7 DEF Next, Dispatch

\* The matching engine, the collectors and the dispatch rely on the cache's
\* promise and on nothing else of it (scheduler.py:25-63, main.py:31-40).
THEOREM EngineUsesCache == Spec => InventorySpec
<1>1. Init => InventoryInit
  BY DEF Init
<1> QED
  BY <1>1, CacheStep, PTL DEF Spec, InventorySpec

\* A new process satisfies the invariant.
LEMMA EngineInitOK == Init => EngineInv
<1> SUFFICES ASSUME Init PROVE EngineInv
  OBVIOUS
<1>1. InventoryInv
  BY InventoryInitOK DEF Init
<1>2. PICK old \in SUBSET {a \in published : Source[a] = "nvd_delta"} :
         memory = Booted(old) /\ aside = old
  BY DEF Init
<1>3. /\ published \subseteq Advisories /\ faults = 0 /\ asked = {} /\ loop = NoJob
      /\ pc = [j \in Jobs |-> "idle"] /\ queue = [j \in Jobs |-> {}]
      /\ posting = [j \in Jobs |-> NoAlert] /\ tried = [a \in Advisories |-> {}]
      /\ 0 \in 0 .. MaxFaults
  BY VulnEngineAssumption DEF Init
<1>4. \A j \in Jobs : memory[j] = IF j = "nvd_delta" THEN old ELSE {}
  BY <1>2 DEF Booted
<1>5. \A a \in old : a \in Advisories /\ a \in published /\ Source[a] = "nvd_delta" /\ a \in Repeats
  BY <1>3 DEF Repeats
<1>6. TypeOK
  <2>1. memory \in [Jobs -> SUBSET Advisories]
    BY <1>2, <1>5 DEF Booted
  <2> QED
    BY <1>1, <1>2, <1>3, <1>5, <2>1 DEF TypeOK, InventoryInv
<1>7. QueuesOK /\ PostingOK /\ TriedOK
  BY <1>3, VulnEngineAssumption DEF QueuesOK, PostingOK, TriedOK, AllJobs, NoJob
<1>8. MemoryOK
  <2>1. \A j \in Jobs : memory[j] \subseteq published \intersect Of(j)
    BY <1>4, <1>5 DEF Of
  <2>2. \A a \in Advisories \ Repeats : a \notin aside /\ tried[a] = {} /\ a \notin Queued(Source[a])
    BY <1>2, <1>3, <1>5, VulnEngineAssumption DEF Queued
  <2> QED
    BY <1>3, <2>1, <2>2 DEF MemoryOK
<1>9. QueuedTruthful /\ Accounted
  BY <1>2, <1>3, <1>4 DEF QueuedTruthful, Accounted
<1> QED
  BY <1>1, <1>6, <1>7, <1>8, <1>9 DEF EngineInv

\* Every step of the jobs, the cache and the world preserves it.
LEMMA EngineStepOK == EngineInv /\ [Next]_vars => EngineInv'
<1> SUFFICES ASSUME EngineInv, [Next]_vars PROVE EngineInv'
  OBVIOUS
<1>1. InventoryInv'
  BY CacheStep, InventoryStepOK DEF EngineInv
<1>2. CASE Change \/ Refresh
  BY <1>1, <1>2, CacheMovesOK
<1>3. CASE \/ \E a \in Advisories : Publish(a)
           \/ \E j \in Jobs : Fire(j) \/ CollectFails(j)
           \/ UNCHANGED vars
  BY <1>1, <1>3, QuietStepOK
<1>4. CASE \E j \in Jobs : Collect(j)
  BY <1>1, <1>4, CollectOK
<1>5. CASE \E j \in Jobs : Dispatch(j) \/ EmailEnds(j)
  <2>1. PICK j \in Jobs : PushEnds(j) \/ EmailEnds(j) \/ TeamsEnds(j)
    BY <1>5 DEF Dispatch
  <2>2. PICK x \in queue[j] : \E c : Handles(j, x, c)
    BY <2>1, DispatchIs
  <2> QED
    BY <1>1, <2>2, HandlesOK
<1>6. CASE Restart
  <2>1. PICK old \in SUBSET (published \intersect Of("nvd_delta")) :
           memory' = Booted(old) /\ aside' = old
    BY <1>6 DEF Restart
  <2>2. published' = published /\ published' \subseteq Advisories /\ faults' \in 0 .. MaxFaults
    BY <1>6, VulnEngineAssumption DEF Restart, Fault, EngineInv, TypeOK
  <2>3. /\ asked' = {} /\ loop' = NoJob
        /\ pc' = [j \in Jobs |-> "idle"] /\ queue' = [j \in Jobs |-> {}]
        /\ posting' = [j \in Jobs |-> NoAlert] /\ tried' = [a \in Advisories |-> {}]
    BY <1>6 DEF Restart
  <2> QED
    BY <1>1, <2>1, <2>2, <2>3, BootedOK
<1> QED
  BY <1>2, <1>3, <1>4, <1>5, <1>6 DEF Next

\* The invariant all the results below rest on.
THEOREM EngineInductive == Spec => []EngineInv
BY EngineInitOK, EngineStepOK, PTL DEF Spec

\* Every variable of the process keeps its type.
THEOREM EngineTypeCorrect == Spec => []TypeOK
<1>1. EngineInv => TypeOK
  BY DEF EngineInv
<1> QED
  BY <1>1, EngineInductive, PTL

\* An alert has hosts, and each of them had a package the alert concerns during
\* the refresh whose index it was matched against, whatever the refreshes since
\* have published (matching.py:27-50, ocs_cache.py:85-87).
THEOREM AlertsTruthful == Spec => []QueuedTruthful
<1>1. EngineInv => QueuedTruthful
  BY DEF EngineInv
<1> QED
  BY <1>1, EngineInductive, PTL

\* What a collector will not return again was put aside by a rule, waits in
\* dispatch or went through every channel (alerting.py:137-145).
THEOREM NothingLost == Spec => []Accounted
<1>1. EngineInv => Accounted
  BY DEF EngineInv
<1> QED
  BY <1>1, EngineInductive, PTL

\* dispatch() leaves an alert only when all its channels were tried, whatever
\* failed before, for this alert or another (alerting.py:139-145).
THEOREM NoChannelSkipped == Spec => DispatchComplete
<1>1. ASSUME EngineInv, [Next]_vars, NEW j \in Jobs, NEW x \in queue[j]
      PROVE  x \in queue'[j] \/ tried'[x.advisory] = Channels(x.advisory) \/ Restart
  <2>1. CASE UNCHANGED queue
    BY <2>1
  <2>2. CASE \E i \in Jobs : Collect(i)
    <3>1. PICK i \in Jobs : Collect(i)
      BY <2>2
    <3>2. pc[i] = "collecting" /\ \E new : queue' = [queue EXCEPT ![i] = new]
      BY <3>1 DEF Collect
    <3>3. i # j
      BY <1>1, <3>2, Typing
    <3> QED
      BY <3>2, <3>3
  <2>3. CASE \E i \in Jobs : Dispatch(i) \/ EmailEnds(i)
    <3>1. PICK i \in Jobs : PushEnds(i) \/ EmailEnds(i) \/ TeamsEnds(i)
      BY <2>3 DEF Dispatch
    <3>2. PICK y \in queue[i] : \E c : Handles(i, y, c)
      BY <1>1, <3>1, DispatchIs
    <3>3. /\ i # j => queue'[j] = queue[j]
          /\ \/ UNCHANGED <<queue, pc>>
             \/ queue'[i] = queue[i] \ {y} /\ tried'[y.advisory] = Channels(y.advisory)
      BY <1>1, <3>2, HandlesIs
    <3> QED
      BY <3>3
  <2>4. CASE Restart
    BY <2>4
  <2>5. CASE \/ Change \/ Refresh \/ UNCHANGED vars
             \/ \E a \in Advisories : Publish(a)
             \/ \E i \in Jobs : Fire(i) \/ CollectFails(i)
    <3>1. UNCHANGED queue
      BY <2>5 DEF Change, Refresh, Publish, Fire, CollectFails, vars, engineVars, jobVars
    <3> QED
      BY <3>1
  <2> QED
    BY <1>1, <2>2, <2>3, <2>4, <2>5 DEF Next
<1>2. EngineInv /\ [Next]_vars =>
        [\A j \in Jobs : \A x \in queue[j] :
            x \in queue'[j] \/ tried'[x.advisory] = Channels(x.advisory) \/ Restart]_vars
  BY <1>1
<1> QED
  BY <1>2, EngineInductive, PTL DEF Spec, DispatchComplete

-----------------------------------------------------------------------------
(* dispatch() goes on, and comes to its end *)

\* Only a job that has alerts left dispatches.
WorkLeft == \A j \in Jobs : pc[j] = "dispatching" => queue[j] # {}

\* What job j awaits in dispatch(): the post of one of its alerts to DefectDojo,
\* or the SMTP session or the Teams post of the alert at hand.
Awaits(j) ==
    \E x \in queue[j] :
        \/ loop = NoJob /\ posting[j] = NoAlert
        \/ loop \in {j, NoJob} /\ posting[j] = x.advisory

\* The job whose turn it is when j dispatches: that whose e-mail holds the loop.
Holder(j) == IF loop = NoJob THEN j ELSE loop

\* How far the alert at hand is: at its post, its SMTP session, its Teams post.
Stage(j) == IF loop = j THEN 1 ELSE IF posting[j] # NoAlert THEN 2 ELSE 0

\* Job j is one alert, or one channel of its alert, nearer to its end.
Nearer(j) ==
    \/ queue'[j] \subseteq queue[j] /\ queue'[j] # queue[j]
    \/ queue'[j] = queue[j] /\ Stage(j) < Stage(j)'

Same(j) == queue'[j] = queue[j] /\ pc'[j] = pc[j] /\ Stage(j)' = Stage(j)

\* The steps that are no part of a dispatch() leave every one where it is.
LEMMA ElsewhereIs ==
    ASSUME EngineInv, [Next]_vars, NEW j \in Jobs, pc[j] = "dispatching",
           ~\E i \in Jobs : Dispatch(i) \/ EmailEnds(i)
    PROVE  Restart \/ Same(j)
<1>1. CASE \/ Change \/ Refresh \/ UNCHANGED vars \/ \E a \in Advisories : Publish(a)
  BY <1>1 DEF Change, Refresh, Publish, vars, engineVars, jobVars, Same, Stage
<1>2. ASSUME NEW i \in Jobs, Fire(i) \/ Collect(i) \/ CollectFails(i) PROVE Same(j)
  <2>1. i # j /\ UNCHANGED <<posting, loop>>
    BY <1>2 DEF Fire, Collect, CollectFails
  <2>2. pc'[j] = pc[j] /\ queue'[j] = queue[j]
    <3>1. DOMAIN pc = Jobs /\ DOMAIN queue = Jobs
      BY Typing
    <3>2. /\ \E new : pc' = [pc EXCEPT ![i] = new]
          /\ queue' = queue \/ \E new : queue' = [queue EXCEPT ![i] = new]
      BY <1>2 DEF Fire, Collect, CollectFails
    <3> QED
      BY <2>1, <3>1, <3>2
  <2> QED
    BY <2>1, <2>2 DEF Same, Stage
<1> QED
  BY <1>1, <1>2 DEF Next

\* A step of the dispatch() of one job brings it nearer to its end, and leaves
\* those of the others where they are.
LEMMA DispatchNears ==
    ASSUME EngineInv, NEW i \in Jobs, Dispatch(i) \/ EmailEnds(i)
    PROVE  /\ Nearer(i)
           /\ pc[i] = "dispatching" /\ (pc'[i] = "dispatching" => queue'[i] # {})
           /\ \A j \in Jobs \ {i} : Same(j)
<1>1. PushEnds(i) \/ EmailEnds(i) \/ TeamsEnds(i)
  BY DEF Dispatch
<1>2. PICK x \in queue[i] : \E c : Handles(i, x, c)
  BY <1>1, DispatchIs
<1>3. PICK c : Handles(i, x, c)
  BY <1>2
<1>4. /\ \A j \in Jobs : j # i => queue'[j] = queue[j] /\ pc'[j] = pc[j]
                                   /\ posting'[j] = posting[j] /\ loop # j /\ loop' # j
      /\ \/ UNCHANGED <<queue, pc>> /\ posting'[i] = x.advisory
         \/ /\ queue'[i] = queue[i] \ {x}
            /\ pc'[i] = IF queue[i] = {x} THEN "idle" ELSE "dispatching"
  BY <1>3, HandlesIs
<1>5. \A j \in Jobs \ {i} : Same(j)
  BY <1>4 DEF Same, Stage
<1>6. pc[i] = "dispatching" /\ i # NoJob /\ x.advisory # NoAlert
  BY Typing DEF Handles
<1>7. CASE queue'[i] = queue[i] \ {x} /\ pc'[i] = IF queue[i] = {x} THEN "idle" ELSE "dispatching"
  BY <1>5, <1>6, <1>7 DEF Nearer
<1>8. CASE UNCHANGED <<queue, pc>> /\ posting'[i] = x.advisory
  <2>1. CASE PushEnds(i)
    <3>1. loop = NoJob /\ posting[i] = NoAlert
      BY <2>1 DEF PushEnds, Pushing
    <3>2. Stage(i) = 0 /\ Stage(i)' \in {1, 2}
      BY <1>6, <1>8, <3>1 DEF Stage
    <3> QED
      BY <1>5, <1>6, <1>8, <3>2 DEF Nearer
  <2>2. CASE EmailEnds(i)
    <3>1. loop = i /\ loop' = NoJob
      BY <2>2 DEF EmailEnds
    <3>2. Stage(i) = 1 /\ Stage(i)' = 2
      BY <1>6, <1>8, <3>1 DEF Stage
    <3> QED
      BY <1>5, <1>6, <1>8, <3>2 DEF Nearer
  <2>3. CASE TeamsEnds(i)
    <3>1. posting' = [posting EXCEPT ![i] = NoAlert] /\ DOMAIN posting = Jobs
      BY <2>3, Typing DEF TeamsEnds
    <3> QED
      BY <1>6, <1>8, <3>1
  <2> QED
    BY <1>1, <2>1, <2>2, <2>3
<1> QED
  BY <1>4, <1>7, <1>8

\* A job starts to dispatch with an alert, and stops with its last.
LEMMA WorkLeftStep == ASSUME EngineInv, WorkLeft, [Next]_vars PROVE WorkLeft'
<1> SUFFICES ASSUME NEW j \in Jobs, pc'[j] = "dispatching" PROVE queue'[j] # {}
  BY DEF WorkLeft
<1>0. DOMAIN pc = Jobs /\ DOMAIN queue = Jobs
  BY Typing
<1>1. CASE \E i \in Jobs : Dispatch(i) \/ EmailEnds(i)
  <2>1. PICK i \in Jobs : Dispatch(i) \/ EmailEnds(i)
    BY <1>1
  <2>2. CASE i = j
    BY <2>1, <2>2, DispatchNears
  <2>3. CASE i # j
    <3>1. Same(j)
      BY <2>1, <2>3, DispatchNears
    <3> QED
      BY <3>1 DEF Same, WorkLeft
  <2> QED
    BY <2>2, <2>3
<1>2. CASE Restart
  BY <1>2 DEF Restart
<1>3. CASE pc[j] = "dispatching" /\ ~Restart /\ ~\E i \in Jobs : Dispatch(i) \/ EmailEnds(i)
  BY <1>3, ElsewhereIs DEF Same, WorkLeft
<1>4. CASE pc[j] # "dispatching" /\ \E i \in Jobs : Collect(i)
  <2>1. PICK i \in Jobs : Collect(i)
    BY <1>4
  <2>2. PICK o \in Outcomes(i) :
          LET matched == Match(packages_index, o.alerts)
          IN  /\ queue' = [queue EXCEPT ![i] = {Enriched(a) : a \in matched}]
              /\ pc' = [pc EXCEPT ![i] = IF matched = {} THEN "idle" ELSE "dispatching"]
    BY <2>1 DEF Collect
  <2>3. i = j
    BY <1>0, <1>4, <2>2
  <2> QED
    BY <1>0, <2>2, <2>3
<1>5. CASE /\ pc[j] # "dispatching"
           /\ \/ Change \/ Refresh \/ UNCHANGED vars \/ \E a \in Advisories : Publish(a)
              \/ \E i \in Jobs : Fire(i) \/ CollectFails(i)
  <2>1. \/ pc' = pc
        \/ \E i \in Jobs : \E new \in {"collecting", "idle"} : pc' = [pc EXCEPT ![i] = new]
    BY <1>5 DEF Change, Refresh, Publish, Fire, CollectFails, vars, engineVars, jobVars
  <2> QED
    BY <1>0, <1>5, <2>1
<1> QED
  BY <1>1, <1>2, <1>3, <1>4, <1>5 DEF Next

\* A dispatching job has an alert left at every await.
THEOREM WorkLeftAlways == Spec => []WorkLeft
<1>1. Init => WorkLeft
  BY DEF Init, WorkLeft
<1>2. EngineInv /\ WorkLeft /\ [Next]_vars => WorkLeft'
  BY WorkLeftStep
<1> QED
  BY <1>1, <1>2, EngineInductive, PTL DEF Spec

\* A dispatching job awaits something that can end, or the SMTP session of
\* another job holds the loop, and that one awaits it: no two jobs wait for
\* each other, and none for nothing (alerting.py:70-145).
THEOREM DispatchNeverStuck ==
    Spec => [](\A j \in Jobs :
                  pc[j] = "dispatching" => Awaits(Holder(j)))
<1>1. ASSUME EngineInv, WorkLeft, NEW j \in Jobs, pc[j] = "dispatching"
      PROVE  Awaits(Holder(j))
  <2>1. \A i \in Jobs : /\ posting[i] # NoAlert => \E x \in queue[i] : posting[i] = x.advisory
                        /\ loop = i => posting[i] # NoAlert
    <3>1. \A i \in Jobs : /\ posting[i] # NoAlert => posting[i] \in Queued(i)
                          /\ loop = i => posting[i] # NoAlert
      BY <1>1 DEF EngineInv, PostingOK
    <3> QED
      BY <3>1 DEF Queued
  <2>2. queue[j] # {}
    BY <1>1 DEF WorkLeft
  <2>3. loop \in Jobs \union {NoJob}
    BY <1>1 DEF EngineInv, TypeOK
  <2>4. CASE loop = NoJob
    BY <2>1, <2>2, <2>4 DEF Awaits, Holder
  <2>5. CASE loop # NoJob
    BY <2>1, <2>3, <2>5 DEF Awaits, Holder
  <2> QED
    BY <2>4, <2>5
<1>2. EngineInv /\ WorkLeft =>
        \A j \in Jobs : pc[j] = "dispatching" => Awaits(Holder(j))
  BY <1>1
<1> QED
  BY <1>2, EngineInductive, WorkLeftAlways, PTL

\* The safety half of DispatchEnds: each post or session that ends, well or not,
\* brings its job one alert or one channel nearer to the end of dispatch(), and
\* nothing but a restart undoes that: a list of n alerts is through after at most
\* 3n awaits of its own (alerting.py:137-145).
THEOREM DispatchAdvances ==
    Spec => [][\A j \in Jobs :
                  pc[j] = "dispatching" =>
                      \/ Restart
                      \/ Nearer(j)
                      \/ Same(j) /\ ~Dispatch(j) /\ ~EmailEnds(j)]_vars
<1>1. ASSUME EngineInv, [Next]_vars, NEW j \in Jobs, pc[j] = "dispatching"
      PROVE  Restart \/ Nearer(j) \/ (Same(j) /\ ~Dispatch(j) /\ ~EmailEnds(j))
  <2>1. CASE Dispatch(j) \/ EmailEnds(j)
    BY <1>1, <2>1, DispatchNears
  <2>2. CASE ~Dispatch(j) /\ ~EmailEnds(j)
    <3>1. CASE \E i \in Jobs : Dispatch(i) \/ EmailEnds(i)
      <4>1. PICK i \in Jobs : Dispatch(i) \/ EmailEnds(i)
        BY <3>1
      <4>2. i # j
        BY <2>2, <4>1
      <4> QED
        BY <1>1, <2>2, <4>1, <4>2, DispatchNears
    <3>2. CASE ~\E i \in Jobs : Dispatch(i) \/ EmailEnds(i)
      BY <1>1, <2>2, <3>2, ElsewhereIs
    <3> QED
      BY <3>1, <3>2
  <2> QED
    BY <2>1, <2>2
<1>2. EngineInv /\ [Next]_vars =>
        [\A j \in Jobs :
            pc[j] = "dispatching" =>
                \/ Restart
                \/ Nearer(j)
                \/ Same(j) /\ ~Dispatch(j) /\ ~EmailEnds(j)]_vars
  BY <1>1
<1> QED
  BY <1>2, EngineInductive, PTL DEF Spec

-----------------------------------------------------------------------------
(* The engine implements AlertDelivery *)

\* An advisory is queued in the queue of its source or nowhere.
LEMMA FateIs ==
    ASSUME QueuesOK, NEW a \in Advisories
    PROVE  fate[a] = IF a \in Queued(Source[a]) THEN "queued"
                     ELSE IF tried[a] # {} THEN "notified"
                     ELSE IF a \in aside THEN "aside" ELSE "unseen"
<1>1. (\E j \in Jobs : a \in Queued(j)) <=> a \in Queued(Source[a])
  BY VulnEngineAssumption DEF QueuesOK, Queued
<1> QED
  BY <1>1 DEF fate

\* The same of the next state.
LEMMA FateBecomes ==
    ASSUME QueuesOK', NEW a \in Advisories
    PROVE  fate'[a] = IF a \in Queued(Source[a])' THEN "queued"
                      ELSE IF tried'[a] # {} THEN "notified"
                      ELSE IF a \in aside' THEN "aside" ELSE "unseen"
<1>1. (\E j \in Jobs : a \in Queued(j)') <=> a \in Queued(Source[a])'
  BY VulnEngineAssumption DEF QueuesOK, Queued
<1> QED
  BY <1>1 DEF fate

\* An answer decides the advisories it returns or ignores, those that come once
\* only if they were undecided.
LEMMA CollectDecides ==
    ASSUME EngineInv, EngineInv', NEW j \in Jobs, Collect(j) PROVE Delivery!Decide
<1>1. PICK o \in Outcomes(j) :
        /\ queue' = [queue EXCEPT ![j] = {Enriched(a) : a \in Match(packages_index, o.alerts)}]
        /\ aside' = (aside \ Match(packages_index, o.alerts))
                      \union (o.alerts \ Match(packages_index, o.alerts)) \union Ignored(j)
  BY DEF Collect
<1>2. UNCHANGED tried /\ pc[j] = "collecting"
  BY DEF Collect
<1> DEFINE matched == Match(packages_index, o.alerts)
<1>3. /\ matched \subseteq o.alerts
      /\ o.alerts \subseteq {a \in Advisories : Source[a] = j}
      /\ \A a \in o.alerts \ Repeats : a \notin memory[j]
  BY OutcomeIs DEF EngineInv, Match, Of
<1>4. /\ Queued(j)' = matched /\ Queued(j) = {}
      /\ \A i \in Jobs : i # j => Queued(i)' = Queued(i)
  <2>1. \A a : Enriched(a).advisory = a
    BY DEF Enriched
  <2>2. /\ queue'[j] = {Enriched(a) : a \in Match(packages_index, o.alerts)}
        /\ \A i \in Jobs : i # j => queue'[i] = queue[i]
        /\ queue[j] = {}
    BY <1>1, <1>2, Typing DEF EngineInv, TypeOK
  <2> HIDE DEF matched
  <2>3. Queued(j)' = {x.advisory : x \in queue'[j]}
    BY DEF Queued
  <2> QED
    BY <2>1, <2>2, <2>3 DEF Queued, matched
<1> HIDE DEF matched
<1>5. \A a \in Advisories : Source[a] \in Jobs
  BY VulnEngineAssumption
<1>6. ASSUME NEW a \in Advisories
      PROVE  /\ fate'[a] \in {"unseen", "aside", "queued", "notified"}
             /\ \/ fate'[a] = fate[a]
                \/ /\ fate'[a] \in {"aside", "queued"}
                   /\ fate[a] = "unseen" \/ (a \in Repeats /\ fate[a] # "queued")
  <2>1. fate[a] = IF a \in Queued(Source[a]) THEN "queued"
                  ELSE IF tried[a] # {} THEN "notified"
                  ELSE IF a \in aside THEN "aside" ELSE "unseen"
    BY FateIs DEF EngineInv
  <2>2. fate'[a] = IF a \in Queued(Source[a])' THEN "queued"
                   ELSE IF tried[a] # {} THEN "notified"
                   ELSE IF a \in aside' THEN "aside" ELSE "unseen"
    BY <1>2, FateBecomes DEF EngineInv
  <2>3. CASE a \in matched
    <3>1. Source[a] = j /\ fate'[a] = "queued" /\ fate[a] # "queued"
      BY <1>3, <1>4, <2>1, <2>2, <2>3
    <3>2. a \notin Repeats => fate[a] = "unseen"
      BY <1>3, <2>1, <2>3, <3>1 DEF EngineInv, MemoryOK
    <3> QED
      BY <3>1, <3>2
  <2>4. CASE a \notin matched
    <3>1. a \in Queued(Source[a])' <=> a \in Queued(Source[a])
      BY <1>4, <1>5, <2>4
    <3>2. a \in aside => a \in aside'
      BY <1>1, <2>4 DEF matched
    <3> QED
      BY <2>1, <2>2, <3>1, <3>2
  <2> QED
    BY <2>3, <2>4
<1>7. fate' \in [Advisories -> {"unseen", "aside", "queued", "notified"}]
  BY <1>6 DEF fate
<1> QED
  BY <1>6, <1>7 DEF Delivery!Decide, Delivery!Fates, Repeats

\* A step of dispatch() notifies one queued advisory or decides nothing.
LEMMA HandlesNotifies ==
    ASSUME EngineInv, EngineInv', NEW j \in Jobs, NEW x \in queue[j], NEW c, Handles(j, x, c)
    PROVE  UNCHANGED fate \/ Delivery!Notify(x.advisory)
<1> DEFINE b == x.advisory
<1>1. /\ b \in Advisories /\ c \in tried'[b] /\ Source[b] = j /\ b \in Queued(j)
      /\ \A a \in Advisories : a # b => tried'[a] = tried[a]
      /\ \A i \in Jobs : i # j => Queued(i)' = Queued(i)
      /\ \/ queue'[j] = queue[j]
         \/ queue'[j] = queue[j] \ {x}
  <2>1. tried' = [tried EXCEPT ![b] = @ \union {c}] /\ b \in Advisories
    BY HandlesIs
  <2>2. c \in tried'[b]
    BY <2>1, Typing
  <2>3. Source[b] = j /\ b \in Queued(j)
    BY DEF EngineInv, QueuesOK, Queued
  <2>4. /\ \A i \in Jobs : i # j => queue'[i] = queue[i]
        /\ queue'[j] = queue[j] \/ queue'[j] = queue[j] \ {x}
        /\ \A a \in Advisories : a # b => tried'[a] = tried[a]
    BY HandlesIs
  <2> QED
    BY <2>1, <2>2, <2>3, <2>4 DEF Queued
<1>2. UNCHANGED aside
  BY DEF Handles
<1>3. \A a \in Advisories : a # b => (a \in Queued(j)' <=> a \in Queued(j))
  BY <1>1 DEF Queued
<1>4. b \in Queued(j)' <=> queue'[j] = queue[j]
  <2>1. \A y \in queue[j] : y.advisory = b => y = x
    BY DEF EngineInv, QueuesOK
  <2> QED
    BY <1>1, <2>1 DEF Queued
<1>5. ASSUME NEW a \in Advisories, a # b PROVE fate'[a] = fate[a]
  <2>1. a \in Queued(Source[a])' <=> a \in Queued(Source[a])
    BY <1>1, <1>3, <1>5, VulnEngineAssumption
  <2>2. tried'[a] = tried[a]
    BY <1>1, <1>5
  <2> QED
    BY <1>2, <2>1, <2>2, FateIs, FateBecomes DEF EngineInv
<1>6. fate[b] = "queued"
  BY <1>1, FateIs DEF EngineInv
<1>7. fate'[b] = IF queue'[j] = queue[j] THEN "queued" ELSE "notified"
  BY <1>1, <1>4, FateBecomes DEF EngineInv
<1>8. fate = [a \in Advisories |-> fate[a]] /\ fate' = [a \in Advisories |-> fate'[a]]
  BY DEF fate
<1> HIDE DEF b
<1>9. CASE queue'[j] = queue[j]
  <2>1. \A a \in Advisories : fate'[a] = fate[a]
    BY <1>5, <1>6, <1>7, <1>9
  <2> QED
    BY <1>8, <2>1
<1>10. CASE queue'[j] # queue[j]
  <2>1. fate' = [fate EXCEPT ![b] = "notified"]
    BY <1>1, <1>5, <1>7, <1>8, <1>10
  <2> QED
    BY <1>6, <2>1 DEF Delivery!Notify, b
<1> QED
  BY <1>9, <1>10

\* Every advisory is decided once: notified only if it was queued then, put
\* aside for good otherwise, until a restart forgets it; only those of the
\* sources that repeat themselves come up again (nvd_delta.py:22-26,
\* cisa_kev.py:45-65, vendor_rss.py:83-98, intersystems.py:108-109).
THEOREM EngineImplementsDelivery == Spec => DecidedOnce
<1>1. Init => Delivery!DeliveryInit
  <2> SUFFICES ASSUME Init PROVE fate \in [Advisories -> {"unseen", "aside"}]
    BY DEF Delivery!DeliveryInit
  <2>1. \A a \in Advisories : (\A j \in Jobs : a \notin Queued(j)) /\ tried[a] = {}
    BY DEF Init, Queued
  <2> QED
    BY <2>1 DEF fate
<1>2. ASSUME EngineInv, EngineInv', [Next]_vars PROVE [Delivery!DeliveryNext]_fate
  <2>1. CASE \E j \in Jobs : Collect(j)
    BY <1>2, <2>1, CollectDecides DEF Delivery!DeliveryNext
  <2>2. CASE \E j \in Jobs : Dispatch(j) \/ EmailEnds(j)
    <3>1. PICK j \in Jobs : PushEnds(j) \/ EmailEnds(j) \/ TeamsEnds(j)
      BY <2>2 DEF Dispatch
    <3>2. PICK x \in queue[j] : \E c : Handles(j, x, c)
      BY <1>2, <3>1, DispatchIs
    <3>3. UNCHANGED fate \/ Delivery!Notify(x.advisory)
      BY <1>2, <3>2, HandlesNotifies
    <3>4. x.advisory \in Advisories
      BY <1>2, Typing
    <3> QED
      BY <3>3, <3>4 DEF Delivery!DeliveryNext
  <2>3. CASE Restart
    <3>1. \A a \in Advisories : (\A j \in Jobs : a \notin Queued(j)') /\ tried'[a] = {}
      BY <2>3 DEF Restart, Queued
    <3>2. fate' \in [Advisories -> {"unseen", "aside"}]
      BY <3>1 DEF fate
    <3> QED
      BY <3>2 DEF Delivery!DeliveryNext, Delivery!Restarted
  <2>4. CASE \/ Change \/ Refresh \/ UNCHANGED vars
             \/ \E a \in Advisories : Publish(a)
             \/ \E i \in Jobs : Fire(i) \/ CollectFails(i)
    <3>1. UNCHANGED <<queue, tried, aside>>
      BY <2>4 DEF Change, Refresh, Publish, Fire, CollectFails, vars, engineVars, jobVars, ghostVars
    <3> QED
      BY <3>1 DEF fate, Queued
  <2> QED
    BY <1>2, <2>1, <2>2, <2>3, <2>4 DEF Next
<1>3. EngineInv /\ EngineInv' /\ [Next]_vars => [Delivery!DeliveryNext]_fate
  BY <1>2
<1> QED
  BY <1>1, <1>3, EngineInductive, PTL DEF Spec, DecidedOnce, Delivery!DeliverySpec
=============================================================================
