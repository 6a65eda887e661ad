------------------------------ MODULE OcsCache ------------------------------
(***************************************************************************)
(* vuln-engine/ocs_cache.py, OCSCache.refresh, as the scheduler runs it:   *)
(* once at startup (a "date" job) and then every OCS_CACHE_INTERVAL (a     *)
(* second job).  The two are distinct APScheduler jobs, so two refreshes   *)
(* may be in flight on the one event loop; each `await client.get` is a    *)
(* point where the other job, or the inventory itself, may move.           *)
(***************************************************************************)
EXTENDS InventoryCache

CONSTANTS
    Startup,    \* the job of scheduler.py:73, fired once
    Interval,   \* the job "ocs_refresh" of scheduler.py:100-105
    MaxFaults   \* bound on failed refreshes and restarts, together

ASSUME OcsCacheAssumption == MaxFaults \in Nat /\ Startup # Interval

VARIABLES
    assets,     \* self.assets
    refresh,    \* per job, the locals of its running refresh()
    faults      \* failures and restarts so far

cacheVars == <<assets, packages_index, last_refresh, since>>
vars      == <<ocs, epoch, cacheVars, refresh, faults>>

Jobs   == {Startup, Interval}
Assets == [id : Machines, hostname : Hosts, packages : SUBSET Packages]

\* The locals of refresh(): ids is what is left of machine_ids; started and
\* listed are the epochs of its first step and of the listID answer.
Refreshes ==
    [pc : {"waiting", "listing", "fetching", "ended"}, ids : SUBSET Machines,
     new_assets : SUBSET Assets, new_index : [Packages -> SUBSET Hosts],
     started : Epochs, listed : Epochs]

Fresh(pc, e) ==
    [pc |-> pc, ids |-> {}, new_assets |-> {}, new_index |-> EmptyIndex,
     started |-> e, listed |-> e]

\* Slips a rewrite of this job handling could make (used to test TypeOK and
\* CacheCatchesUp): an unknown job state; a job dropped after its first run.
RestBroken(j) == Fresh("broken", 0)
RestOnce(j) == Fresh("ended", 0)

\* After a run, failed or not, the date job is gone and the interval job waits
\* for its next fire: APScheduler logs a job's exception and keeps the job.
Rest(j) == Fresh(IF j = Startup THEN "ended" ELSE "waiting", 0)

TypeOK ==
    /\ InventoryTypeOK
    /\ assets \in SUBSET Assets
    /\ refresh \in [Jobs -> Refreshes]
    /\ faults \in 0 .. MaxFaults

Init ==
    /\ InventoryInit
    /\ assets = {}
    /\ refresh = [j \in Jobs |-> Fresh("waiting", 0)]
    /\ faults = 0

-----------------------------------------------------------------------------

\* Slip: the interval job's first run is asked for at startup as well.
StartAtOnce(j) ==
    /\ refresh[j].pc = "waiting"
    /\ refresh' = [refresh EXCEPT ![j] = Fresh("listing", epoch)]
    /\ UNCHANGED <<ocs, epoch, cacheVars, faults>>

\* The trigger of job j fires and refresh() runs up to its first await.  A job
\* has one running instance at most, and the interval job's first fire comes
\* one whole interval after the date job's.
Start(j) ==
    /\ refresh[j].pc = "waiting"
    /\ j = Interval => refresh[Startup].pc # "waiting"
    /\ refresh' = [refresh EXCEPT ![j] = Fresh("listing", epoch)]
    /\ UNCHANGED <<ocs, epoch, cacheVars, faults>>

\* Slip: packages_index.update(new_index) in place of the assignment.
ContinueMerging(j, r) ==
    IF r.ids # {}
    THEN /\ refresh' = [refresh EXCEPT ![j] = r]
         /\ UNCHANGED cacheVars
    ELSE /\ refresh' = [refresh EXCEPT ![j] = Rest(j)]
         /\ assets' = r.new_assets
         /\ packages_index' = [p \in Packages |-> packages_index[p] \union r.new_index[p]]
         /\ last_refresh' = epoch
         /\ since' = r.started

\* Job j goes on with locals r after an answer: to the next machine's await,
\* or, past the last one, to the three assignments that publish the new cache.
Continue(j, r) ==
    IF r.ids # {}
    THEN /\ refresh' = [refresh EXCEPT ![j] = r]
         /\ UNCHANGED cacheVars
    ELSE /\ refresh' = [refresh EXCEPT ![j] = Rest(j)]
         /\ assets' = r.new_assets
         /\ packages_index' = r.new_index
         /\ last_refresh' = epoch
         /\ since' = r.started

\* listID answers with the machines OCS knows now.
ListMachines(j) ==
    /\ refresh[j].pc = "listing"
    /\ Continue(j, [refresh[j] EXCEPT !.pc = "fetching", !.listed = epoch,
                                      !.ids = DOMAIN ocs[epoch]])
    /\ UNCHANGED <<ocs, epoch, faults>>

\* Slip: the index is keyed by the machine's ID name, the asset by hw["NAME"].
RecordedById(r, m, host, pkgs) ==
    [r EXCEPT
        !.ids = @ \ {m},
        !.new_assets = @ \union {[id |-> m, hostname |-> host, packages |-> pkgs]},
        !.new_index = [p \in Packages |->
                          IF p \in pkgs THEN @[p] \union {m} ELSE @[p]]]

\* The locals after machine m is recorded as an asset.
Recorded(r, m, host, pkgs) ==
    [r EXCEPT
        !.ids = @ \ {m},
        !.new_assets = @ \union {[id |-> m, hostname |-> host, packages |-> pkgs]},
        !.new_index = [p \in Packages |->
                          IF p \in pkgs THEN @[p] \union {host} ELSE @[p]]]

\* A 200 answer for machine m, with or without a hardware name.
FetchDetail(j, m, host) ==
    /\ refresh[j].pc = "fetching" /\ m \in refresh[j].ids
    /\ m \in DOMAIN ocs[epoch]
    /\ Continue(j, Recorded(refresh[j], m, host, ocs[epoch][m]))
    /\ UNCHANGED <<ocs, epoch, faults>>

\* A non-200 answer, or one without the machine's ID: an asset named
\* "unknown" with no package, and the refresh goes on.
FetchNothing(j, m) ==
    /\ refresh[j].pc = "fetching" /\ m \in refresh[j].ids
    /\ Continue(j, Recorded(refresh[j], m, Unknown, {}))
    /\ UNCHANGED <<ocs, epoch, faults>>

\* Slips: the assignments of lines 85-87 moved into a `finally`; the cache
\* emptied by the exception handler.
FailPublishing(j) ==
    /\ refresh[j].pc \in {"listing", "fetching"}
    /\ faults < MaxFaults
    /\ faults' = faults + 1
    /\ refresh' = [refresh EXCEPT ![j] = Rest(j)]
    /\ assets' = refresh[j].new_assets
    /\ packages_index' = refresh[j].new_index
    /\ last_refresh' = epoch
    /\ since' = refresh[j].started
    /\ UNCHANGED <<ocs, epoch>>
FailClearing(j) ==
    /\ refresh[j].pc \in {"listing", "fetching"}
    /\ faults < MaxFaults
    /\ faults' = faults + 1
    /\ refresh' = [refresh EXCEPT ![j] = Rest(j)]
    /\ assets' = {}
    /\ packages_index' = EmptyIndex
    /\ UNCHANGED <<ocs, epoch, last_refresh, since>>

\* Any exception (time-out, listID status, malformed JSON): logged and raised.
Fail(j) ==
    /\ refresh[j].pc \in {"listing", "fetching"}
    /\ faults < MaxFaults
    /\ faults' = faults + 1
    /\ refresh' = [refresh EXCEPT ![j] = Rest(j)]
    /\ UNCHANGED <<ocs, epoch, cacheVars>>

\* The service is restarted (rotate_token.sh, a deployment, a crash).
Restart ==
    /\ faults < MaxFaults
    /\ faults' = faults + 1
    /\ Forget
    /\ assets' = {}
    /\ refresh' = [j \in Jobs |-> Fresh("waiting", 0)]
    /\ UNCHANGED <<ocs, epoch>>

Change == ChangeInventory /\ UNCHANGED <<cacheVars, refresh, faults>>

Answer(j) ==
    \/ ListMachines(j)
    \/ \E m \in refresh[j].ids :
          FetchNothing(j, m) \/ \E host \in {m, Unknown} : FetchDetail(j, m, host)

Next ==
    \/ \E j \in Jobs : Start(j) \/ Answer(j) \/ Fail(j)
    \/ Restart
    \/ Change

\* Triggers fire, and the httpx time-out of 60s ends every await.
Fairness == \A j \in Jobs : WF_vars(Start(j) \/ Answer(j))

Spec     == Init /\ [][Next]_vars
FairSpec == Spec /\ Fairness

-----------------------------------------------------------------------------

IndexOf(A) == [p \in Packages |-> {a.hostname : a \in {x \in A : p \in x.packages}}]

\* The index and the asset list the routes and the matching engine read are
\* always those of one and the same refresh (ocs_cache.py:85-86), whatever
\* refreshes overlap: /inventory/summary and /inventory/search agree.
IndexMatchesAssets == packages_index = IndexOf(assets)

\* The published asset list covers exactly the machines OCS listed at one
\* moment of the refresh: a refresh that stops half-way publishes nothing
\* (ocs_cache.py:39-87, 94-96).
CompleteSnapshot ==
    last_refresh # None =>
        \E e \in since .. last_refresh : {a.id : a \in assets} = DOMAIN ocs[e]

\* A refresh that read OCS earlier replaces one that read it later only if it
\* is the startup job's, still in flight when the interval job fires
\* (scheduler.py:73, 100-105): no two interval refreshes ever cross.
OnlyStartupRegresses ==
    [][since' < since /\ since' # None =>
          refresh[Startup].pc # "ended" /\ refresh'[Startup].pc = "ended"]_vars

\* Once OCS stops changing, and failures and restarts stop, the cache ends up
\* being one read entirely after the last change: a failed refresh or a stale
\* overwrite by the startup job is repaired by a later interval refresh.
CacheCatchesUp == <>[](since = epoch)

\* refresh() implements the cache the matching engine relies on.
PublishedCache == InventorySpec
=============================================================================
