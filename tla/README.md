# configservices: TLA+ models, checks and proofs

The repository is the configuration of a set of self-hosted services. Most of it
is third-party software with its settings; the programs of its own are a
vulnerability-alert engine (`vuln-engine/`), a local CVE database with its
loaders and API (`cve-database-manager/`), a bridge that fills the CVE tables of
OCS Inventory from that API, and an OCSP responder in front of Vault
(`script/ocsp_responder.py`). This directory models those programs in TLA+,
checks the models with TLC and proves the central ones with TLAPS.
All paths below are relative to the root of the repository.

## 1. Inventory

### vuln-engine: one process, one asyncio event loop

| part | state | operations | modules |
|---|---|---|---|
| OCS cache, `ocs_cache.py` | `assets`, `packages_index`, `last_refresh` | `refresh()`: list the machines, one request per machine, then three assignments; `find_hosts_by_package`, `find_hosts_by_cpe` | `InventoryCache`, `InventoryCacheProofs`, `OcsCache`, `OcsCacheProofs`, `Matching` |
| matching, `matching.py` | none | `match()`: hosts from the CPEs, then from the words of the title | `Matching`, `MatchingProofs` |
| CISA KEV, `collectors/cisa_kev.py` | `known_cves` | `collect()`; the first load is silent | `Collectors`, `CisaKev`, `CollectorsProofs` |
| vendor RSS, `collectors/vendor_rss.py` | `seen_ids`, shared by the feeds | `collect()`: the feeds one after the other | `Collectors`, `VendorRss`, `CollectorsProofs` |
| InterSystems, `collectors/intersystems.py` | `seen_urls` | `collect()`: scrape one page | `Collectors`, `InterSystems`, `CollectorsProofs` |
| NVD, `collectors/nvd_delta.py` | `last_check` | `collect()`: one time window per run | `Collectors`, `NvdDelta`, `CollectorsProofs` |
| alerting, scheduler, `alerting.py`, `scheduler.py` | the jobs, the list being dispatched | a job collects, matches, dispatches: DefectDojo, then e-mail and Teams for critical alerts | `VulnEngine`, `AlertDelivery`, `VulnEngineProofs` |
| full scan, `force_full_scan.py` | collectors of its own | the whole chain once, from a shell | `ForceFullScan`, `ScriptsProofs` |
| HTTP routes, `routes.py`, `main.py` | none | read-only look-ups | `Matching` has the one `check_exposure` shares with `match()` |
| token rotation, `rotate_token.sh` | `.env` | new token, then a restart of the service | its `Restart` only |
| host import, settings | none | one loop of POSTs; constants | not modelled |

How they interact: `scheduler.py` creates the cache and the collectors, and runs
each collector as an interval job and the refresh as two jobs (one immediate,
one periodic). They are coroutines of one loop: a job runs alone from one
`await` to the next, and the others move at every `await`. They share the cache,
by reference; the memories are private to each collector, whose `status` only
`GET /feeds/status` reads. Nothing is persisted:
a restart (`rotate_token.sh` makes one regularly) empties all of it.

What is hard: two refreshes in flight, an inventory that moves during one; a
memory updated in the wrong order with respect to a failure; windows against a
clock; alerts queued while the cache they were matched on is replaced;
`smtplib`, which blocks the loop.

What makes it correct: the published cache is one whole refresh; an advisory is
neither forgotten nor repeated without a reason; an alert that is dispatched is
true of the inventory and goes through all its channels.

### cve-database-manager

| part | state | operations | modules |
|---|---|---|---|
| import, `update_cve.sh`, `import_cve.py` | the clone, the table `cve_files`, the batch | pull, diff, import in batches | `UpdateCve`, `UpdateCveProofs` |
| full crawl, `update_cve_db.py` | the same clone and table, `file_hashes` | pull, walk, ten threads over all files | `UpdateCveDb`, `UpdateCveProofs` |
| REST API, `api.py` | none | queries; the conversion of a record, its score | `CveApi` |
| bridge, `cve_bridge.py`, and its variant `ocs/cve_bridge.py` | two tables of OCS | empty, ask the API, (empty,) refill | `CveBridge`, `CveBridgeProofs` |

The bridge reads OCS's inventory, calls the API, writes OCS's database, whose
console reads it at any time. What is hard: a run that dies between two commits,
a batch the database refuses, runs that start from what the last one left, two
loaders over one clone and one table, answers of the API that are cut off or
fail as a whole. What makes it correct: what the clone holds is in the table,
or a run has said why not, and the crawl puts it there; the console sees the
tables of one run, and in the end what the inventory and the database hold.

### Others

* **OCSP responder** (`script/ocsp_responder.py`): a thread per request, two
  Vault requests per answer, a CA that issues, revokes and tidies in between
  (`OcspResponder`, `ScriptsProofs`).
* **Reset of the GitLab runners** (`gitlab/reset-runner` and its older copy
  `Image Runner/reset-runners.sh`): remove the containers, start new ones, prune
  volumes, under `set -e` and a Docker that may fail any command
  (`ResetRunners`, `ScriptsProofs`). What makes it correct: a run that broke off does not keep
  the next from putting the runners back, and no runner loses its registration.
* **GitLab CI templates** and the recipes of the runner images: YAML and
  Dockerfiles around scanners, which keep no state but artefacts.
* **OCS server, monitoring and logging stacks, registry, identity, bastion,
  quality and artefact services**: third-party programs with their settings;
  those the programs above talk to are seen through actions of the environment
  (`ChangeInventory`, `Publish`, `Vault`, `Install`).

`PROJECT.json` lists the same components with what is left out of each, and the
hazards of the code, each at its line with the properties that cover it.

## 2. Modules

A definition named in a comment as a *slip* is a plausible mistake in the
definition that follows it: the specifications never use it. It is there to show
that a property notices the mistake when it takes the other's place.

### The cache

`InventoryCache` is the cache as the rest of the engine relies on it. `ocs` is
the sequence of OCS's tables so far, so that `ocs[e]` is the inventory of epoch
`e`; `Load` replaces the index by one that was read between two epochs, each
machine at an epoch of its own; `Forget` is a restart.

`OcsCache` is `refresh()` await by await, for the two scheduler jobs
(`scheduler.py:73`, `100-105`). The locals of a running refresh are the record
`refresh[j]`: `ids` the machines still to ask for, `new_assets` and `new_index`.
`started` and `listed` are bookkeeping of the model (when the run and its list
were read). `Continue` holds the loop and the three assignments after it, which
no await separates. A non-200 detail gives an asset named "unknown" and the
refresh goes on; any exception ends it with the cache untouched.
`PublishedCache` is the refinement: `OcsCache` implements `InventoryCache`.

### The collectors

`Collectors` has, per source, one operator from (memory, answer) to (alerts, new
memory): `KevOutcomes`, `RssOutcome`, `IscOutcome`, `NvdAlerts`. Four state
machines wrap them with firing, answering, failing and restarting. An advisory
is a model value; its text is left out, except that some are `Malformed` (their
conversion raises) and some RSS entries `Serious`: an entry id keeps its text. A
feed is a list, kept as the number of times each id is in it (its order changes
nothing but the order of the alerts): the ids are marked as seen after the loop, so an id that one list has
twice is alerted on twice, and the list's length is compared with the floor. The
engine and the full scan, which are about what becomes of an alert and not of
how many there are, take an entry once per list. `halted` records which KEV
entries a run that stopped half-way had alerted on. `kevStatus`, `rssStatus`,
`iscStatus` and `nvdStatus` are `FeedStatus.status`.

`NvdDelta` keeps the clock in ticks, several to a second, because the window's
bounds are cut to the second: `last_check` becomes the run's own `now`, not the
time of the answer.

### The engine

`VulnEngine` composes the collectors, the abstract cache and `Matching` with
`AlertManager.dispatch`. It collapses the awaits of `collect()` and of
`refresh()` into one step each: the modules above have them in full, and
`OcsCache` implements the `Load` used here. It keeps those of `dispatch()`: the
DefectDojo post, the e-mail (during which `loop` is held and no other job
moves), the Teams post. `AlertDelivery` is the abstract specification: an
advisory is unseen, queued, notified or aside; `DecidedOnce` is the refinement.
`asked` is what NVD had published when the request was sent.

`ForceFullScan` is the script, one action per await. Each `collect()` swallows
its failures, so every one of them may return nothing; the vendors' feeds are
read one after the other, with `seen_ids` shared, and each may fail alone.

### The CVE database

`UpdateCve`: of a commit the model keeps its tree, CVE -> content of its file,
and whether two commits that the script compares are the same one (`ahead`,
`advanced`), for a commit may touch no CVE file. Contents are readable or not
(`json.loads`) and storable or refused by a column. `missed` records the CVEs a
run gave up on, `said` the last line of the log: "DB déjà à jour" when the pull
brought no commit, "Aucun fichier CVE modifié" when it brought none of a CVE file.

`UpdateCveDb` puts the crawl beside it, on the same clone and table: each of the
two programs pulls under the other. `worker[c]` is `process_file()` of one file,
with what `calculate_hash()` saw and what `json.load()` saw; a hash is the
content it is of. `Beside` is a step of the import with the crawl's variables
left alone; `overtaken` records the rows it sets to an older content than the
clone's, because it had read the file before the crawl pulled.

`CveApi`: the page that `LIMIT 50` may return, the score that the loops over
`metrics` leave in `cvss_score`, and the row that is no CVE record and turns the
whole answer into a 500 (the crawl stores every `.json` under `cves/`, the
`deltaLog.json` lists included). A record is reduced to its metrics, a score to
tenths with 0 for none. `CveBridge` asks it: one action per commit and per
answer, for the script of `cve-database-manager/` and for its variant under
`ocs/` (`script`), which empties both tables in one commit, once, and inserts
whatever the score. The variant also inserts the first reference as it is, into
a `varchar(255)` (`ocs/sql/ocsbase.sql:455`, `485`) of a `mysql:8.0` whose
default mode refuses longer ones, where the other script cuts it: `LongLinks` are
the CVEs with such a reference, and `InsertRaises` is how each run of the variant
ends that has one to insert.

### The others

`OcspResponder`: one action per Vault request and per response; Vault is the
environment; `thread[r].at` records the states Vault went through while the
request was being served. `ResetRunners`: one action per command that changes
something and one per failure, a `docker image inspect` that fails although the
image is there included; the loops take the runners in any order; `clean`
records that Docker has failed nothing in this run (GitLab may have), `opening_volumes` what was
there before it. `MCScripts` composes these two with `ForceFullScan`: the three
share no state, so every behaviour runs one of them.

## 3. What TLC checks

| run | properties | what it shows |
|---|---|---|
| `ocs_cache` | `TypeOK`, `IndexTruthful`, `IndexMatchesAssets`, `CompleteSnapshot`, `OnlyStartupRegresses`, `PublishedCache`, `CacheCatchesUp` | With two overlapping refreshes of a moving inventory the index and the assets are always those of one refresh, complete and true of what OCS held during it. Only the startup job's refresh can overwrite a newer one, and a later one repairs it. |
| `collectors` | `TypeOK`, `KevAccounted`, `KevRepeatsExplained`, `RssSeriousReturned`, `RssNoRepeat`, `IscAccounted`, `NvdNoGap`, `KevEventuallyKnown`, `EventuallySeen`, `NvdEventuallyReported`, `NvdStuckShows` | What is remembered was returned or belongs to a silent first load. A KEV entry returns twice in one process only if it was withdrawn in between or had been alerted on by a run that stopped half-way; an RSS entry is returned by one answer only, as often as that list has it. NVD's windows leave no gap; every advisory is looked at in the end; a malformed CVE that holds the NVD runs up shows in the feed's status. |
| `vuln_engine` | `TypeOK`, `QueuedTruthful`, `Accounted`, `DispatchComplete`, `DecidedOnce`, `DispatchEnds` | What is dispatched was matched on one cache; a remembered alert is aside, waiting or went through every channel; every dispatch ends unless an SMTP session does not. |
| `scripts` | `ScriptsTypeOK`, `ScanKeepsAlerts`, `MatchAffected`, `AnswerTrue`, `ResetHeals`, `RegistrationKept` | The other sources' failures cost the scan no NVD alert, unless an NVD entry is malformed; a feed's failure costs it no serious entry of another feed. For each of the 256 indexes of two hosts and four packages, `match()` keeps an alert exactly when a host has a package its CPEs or title name, and names such hosts only; a host it leaves out has the package under a name that a fallback was not tried for (`LostToFallback`), never under the product of a CPE. A GOOD or REVOKED answer was true at some moment of the request. A reset for which Docker fails nothing puts every runner back, whatever was there, or ends where GitLab did not answer, with nothing touched, or at a container or image the copy cannot deal with; a runner that runs again has its registration. |
| `update_cve` | `DbTypeOK`, `LagExplained`, `EventuallyImported`, `Repaired` | A row that lags behind the clone is pending in the run, or was missed by one that failed; what is published arrives otherwise, and where the crawl runs too it arrives in the end although a run missed it, unless the import overwrote the crawl's row with what it had read before. |
| `cve_bridge` | `TypeOK`, `ComputerInSearch`, `WholeRunOrNothing`, `ScoreExplained`, `BridgeCatchesUp` | The console sees the rows of one whole run or none, and in the end one answer of the API for every name of the inventory and no other row: a page of 50 of a name that has more, none for a name one of whose rows does not convert. Only in the variant, and only where an answer can hold too long a link, it has empty tables instead. The score is the CNA's first, else what the last ADP container with metrics has: over 3,843 records. |

Six more runs take a sentence of the code's own at its word and show an
execution that contradicts it:

| run | the sentence | what happens |
|---|---|---|
| `full_scan_kev` | `force_full_scan.py:47` "Deuxième run = tout est nouveau" | An empty `known_cves` is a silent load: the second run alerts on nothing. |
| `vuln_engine_smtp` | `scheduler.py:27` "Job NVD delta — toutes les 30min." | An SMTP server that keeps its session open stops every job. |
| `update_cve_said` | `update_cve.sh:29` "DB déjà à jour" | The import alone: a run is killed after its pull; the next one finds no new commit and says this, with the changed file imported by neither. |
| `cve_bridge_said` | `cve_bridge.py:218` "tables CVE inchangées" | They were emptied before the API was asked. |
| `cve_api_fallback` | `api.py:186` "Fallback : cherche dans adp->metrics" | The score of one ADP container is overwritten by the next that has metrics and no score. |
| `ocsp_unknown` | `ocsp_responder.py:139` "Construction réponse OCSP: UNKNOWN" | The builder is called without required arguments and raises; the client gets INTERNAL_ERROR. |

### Bounds, and why they are enough

* `MaxFaults` and its like count failures and restarts. Memories are emptied or
  left alone by a failure, never counted, so one or two reach every combination
  (fail then restart for the collectors, clear then fail for the bridge).
* `MaxEpoch = 1`: the inventory changes once, anywhere in two refreshes. Two
  machines and one package are enough for one machine read before the change
  and another after it.
* `RssFloor`, `IscFloor` are 5 and 3 in the code and 1 here: they only separate
  a short first answer from a long one, and both occur.
* `MaxClock = 6` with two ticks to a second and a look-back of three: several
  windows, on and off a second's edge. The liveness of NVD is stated for as long as
  the clock has not reached the bound.
* Two feeds over two entry ids, one of which a list may have twice: two lists
  that share an entry, one list that repeats it, and a first list on either side
  of the floor. The scan has two feeds with one entry in common.
* `BatchSize = 2` with two CVEs: a full batch, a partial last one, and a failed
  batch sent again. A batch that is kept because it failed grows past the size,
  as in the code.
* `MCUpdateCve` has two halves: the import alone over two CVEs whose contents
  come and go as they like, and import and crawl together over one CVE that goes
  from no file to `v1` and `v2`, through a content the table refuses or not.
  One file is enough for the races between the two programs: workers share
  nothing but the table, each with a row of its own.
* `Limit = 2` of three rows stands for `LIMIT 50`: a name's answer is whole, cut
  off, or holds the row that is no record; one of the two records has too long a
  link. The scores are checked over every
  record of at most two CNA metrics and two ADP containers of at most two: two
  of each are what the overwriting needs, and `ScoreIs` proves the same of any
  number of them.
* Two runners, the name of one being part of the other's, as `runner` and
  `runner-python3` are: containers, images and volumes in every state at start.
  Registering a runner is not an action: `opening_volumes` begins in any state.
* Two certificates and two requests in parallel, one failed query; Vault moves
  between any two of them.
* `vuln_engine` takes the NVD and RSS jobs: the one with a window and repeats,
  and one with a memory. KEV and InterSystems have the same shape as RSS.
* The four collectors share no state: `MCCollectors` runs one in each behaviour
  and leaves the others at rest, which loses no behaviour of any of them.
* The runs over `MCScripts` may deadlock: scan and reset end. No other run does.
  Symmetry is not used.

### Fairness

* Jobs: APScheduler fires an interval job for ever and keeps it after an
  exception, and httpx's time-outs end every await: weak fairness of
  `Start \/ Answer` per refresh job, of firing and answering per collector.
* `VulnEngine`: strong fairness of `Collect` and `Dispatch`, which the e-mails of
  other jobs disable again and again: a coroutine whose await is over is in
  asyncio's first-in-first-out queue and runs when the loop is free. There is
  none for `EmailEnds`: `smtplib` is called without a time-out.
* Scripts: `update_cve.sh` and the bridge are run again and again
  (`cve_bridge.py:4` names cron), and their steps end. `Repaired` assumes the same
  of the crawl, by hand or by cron, and that no content of a file comes back:
  beside the crawl, upstream moves a file only to a content of a later `Date`,
  the `cveMetadata.dateUpdated` a record carries (`api.py:128`).
* No fairness is assumed of failures, restarts or the environment.

## 4. What is proved

For every set of machines, packages, advisories, contents, requests and runners,
every finite set of CVEs and every value of the bounds; TLAPS checks each leaf. A
proof module
states, for its component, an invariant that holds initially, a lemma per action
that keeps it, and the theorems that follow. TLC checked each invariant on its
run first. The assumptions are those named in the modules (`...Assumption`):
bounds in `Nat`, a second of at least one tick, distinct jobs, "no such value"
constants outside the sets they complete. `DateAssumption` and `ResetAssumption`
say more and are explained below.

| property | theorem | inductive invariant |
|---|---|---|
| `IndexMatchesAssets`, `CompleteSnapshot`, `IndexTruthful` | `CacheConsistent`, `CacheComplete`, `CacheTruthful` | `OcsCacheProofs!IInv` |
| `OnlyStartupRegresses` | `OnlyStartupGoesBack` | `IInv` and `OrderInv` |
| `PublishedCache` (refinement) | `CacheImplementsInventory` | `IInv` and `OrderInv` |
| `KevAccounted`, `KevRepeatsExplained` | `KevNothingForgotten`, `KevNoRepeat` | `KevInv` |
| `RssSeriousReturned`, `RssNoRepeat` | `RssNothingLost`, `RssOnce` | `RssInv` |
| `IscAccounted` | `IscNothingLost` | `IscInv` |
| `NvdNoGap` | `NvdWindowsMeet` | `NvdInv` |
| `QueuedTruthful`, `Accounted`, `DispatchComplete` | `AlertsTruthful`, `NothingLost`, `NoChannelSkipped` | `EngineInv` |
| `DecidedOnce` (refinement) | `EngineImplementsDelivery` | `EngineInv` |
| `ScanKeepsAlerts` | `ScanLosesNothing` | `ScanInv` |
| `MatchAffected` | `MatchingExact` | none: lemmas on the operators |
| `AnswerTrue` | `OcspAnswersTrue` | `OcspInv` |
| `ResetHeals`, `RegistrationKept` | `ResetRepairs`, `ResetKeepsRegistration` | `ResetInv` |
| `LagExplained` | `LagAccounted` (import alone), `DbLagAccounted` (with the crawl) | `UpdateCveProofs!IInv`, `DbInv` |
| `ComputerInSearch`, `WholeRunOrNothing` | `SearchKnows`, `NeverPart` | `CveBridgeProofs!IInv` |
| `ScoreExplained` | `ScoresExplained`, from `ScoreIs` | none: a theorem on the operator |
| the type invariants | `...TypeCorrect` | the same |

Of the liveness properties, what the prover can be asked is the safety half:
that the steps the fairness assumes lead where the property says, and that
nothing takes it back. What remains to TLC is that those steps are taken.

| liveness property | what is proved of it | inductive invariant |
|---|---|---|
| `CacheCatchesUp` | `QuietRefreshCatchesUp`, `CaughtUpStays`, `CaughtUpIsCurrent`, `IntervalCatchesUp` | `IInv`, `OrderInv` and `CatchingUp` |
| `DispatchEnds` | `DispatchNeverStuck`, `DispatchAdvances` | `EngineInv` and `WorkLeft` |
| `NvdStuckShows` | `NvdNeverPassesMalformed` | `NvdInv` and `NvdReadable` |
| `EventuallyImported` | `LagAccounted`: between two runs, what lags was missed | `UpdateCveProofs!IInv` |
| `Repaired` | `CrawlLeavesNothing`, `SkipsAreStored` | `AllInv` and `Crawled` |
| `BridgeCatchesUp` | `QuietRunRefills`, `EveryRunBegins`, `NothingInvented` | `QuietInv`, `OnlyDue` |

Three of these theorems, `QuietRefreshCatchesUp`, `CrawlLeavesNothing` and
`QuietRunRefills`, are about a stretch of a behaviour: from a state in which the
run at hand has just started, through the steps they list. That there are such
states is `IntervalCatchesUp`, the second conjunct of `CrawlPull`, and
`EveryRunBegins`; the invariants they assume besides are proved of every
reachable state.

### The arguments

**The cache** (`InventoryCacheProofs`, `OcsCacheProofs`). None of the published
cache's properties is inductive, for they say nothing of the refresh about to
replace it. `IInv` adds, for each job, what the locals of its running refresh
stand for (`JobOK`): `new_index` is the index of `new_assets`; the machines
recorded and the ids left are together the list answered at the epoch `listed`;
every asset with packages is what OCS held for that machine at some epoch since
the run started, and is named after it or "unknown". `CacheOK` says the same of
the published cache, from `since` to `last_refresh`. Publishing turns the first
into the second; recording a machine moves one id from one side to the other; an
inventory change appends an epoch and disturbs nothing. `OrderInv` is about the
two jobs: while the interval's refresh is in flight, the startup job has been
fired, and no refresh published or in flight started after it (`IntervalLast`); a
refresh records a machine once (`Once`). So an interval refresh never publishes
over a newer one, and only the startup job can. For the refinement, publishing
maps to `Load`: `JobOK` supplies the epoch each machine was read at. The abstract
cache has an invariant of its own, `InventoryInv`, which the engine uses.
`CatchingUp` says that the startup job is over and that the cache is up to date,
or an interval refresh started at the present epoch is in flight: by `IntervalLast`
no other refresh can publish, so that it stays so until OCS changes, the process
restarts or, the cache not being up to date yet, the refresh fails.

**The collectors** (`CollectorsProofs`). What each adds to its property is the
relation of memory and history: KEV's alerts are still in the catalogue or were
withdrawn, and in memory unless that is empty or a run stopped half-way
(`KevMemoryOK`); every RSS entry returned is marked, those of the call in progress
included (`RssMarked`), so that a later answer adds none of it; NVD's `last_check`, `now` and the times of the CVEs are
in order and before the clock (`NvdTimesOK`). The last needs the arithmetic of
bounds cut to the second: a CVE modified between two windows is
always in the second, since that one begins at or before the second the first
was cut to. A CVE that does not convert is never reported, so that by `NvdNoGap`
no window begins after it (`NvdNeverPassesMalformed`). `CollectorsApart`: the composition implies each of the four specifications.

**The engine** (`MatchingProofs`, `VulnEngineProofs`). `EngineInv` joins the
cache's invariant to what the queue of a dispatching job holds (`QueuesOK`:
alerts of its own source, one per advisory, matched on an index of the past), to
the alert between two channels (`PostingOK`), to what was tried (`TriedOK`) and to
the memories (`MemoryOK`: what comes once is in memory from the moment it is
decided). `Handles` says what the three steps of dispatch have in common: one
alert gets one more of its channels, and leaves when it has all. Dispatch proofs
are made on it, once. `EngineUsesCache`: the engine is a behaviour of
`InventoryCache`. `EngineImplementsDelivery`: collecting maps to `Decide`, the
last channel to `Notify`, everything else stutters.
That dispatch comes to its end is `DispatchAdvances`: the alerts left, and then the
`Stage` of the one at hand, decrease at each step of the job and at no other.
`DispatchNeverStuck` says that such a step is there to be awaited; it needs
`WorkLeft`, that a job with no alert left does not dispatch.

The matching lemmas hold for every index: `HostsConcern`, a host of an alert was
found under a name the alert concerns; `ConcernMatches`, a host under any such name
makes the alert match, although the fallbacks are tried only when the names before
them found nobody; `HostsFound`, a host that is not found under such a name was lost to a
fallback. `MatchingExact` restates this for the indexes of two hosts over which
the run ranges.

**The loaders** (`UpdateCveProofs`). Alone, the import needs to know what its
locals stand for: `$BEFORE` is the clone's commit until the pull, the list names
files of the clone, the batch holds what the clone holds, and both are empty
outside an import (`RunOK`). `HeadsOK`: what is the same commit has the same
tree, so that a run that stops because its pull brought no commit leaves no change
behind that it should have imported. The crawl pulls under the import and nothing of that
is left: what carries the second proof is an order. By `DateAssumption` a
content has a date; beside the crawl, the trees move to later dates only, so that the clone
follows upstream and `$BEFORE` follows the clone (`Ordered`), and no pull hides a
change that no diff of the import shows. `CrawlTypeOK` and `LocalsOK` are the rest of `DbInv`.

The same order is what makes it right to skip a file by its hash (`HashInv`): a
worker hashes before it loads, so that whatever pull falls in between, the content
it stores is the hashed one or a later one. Where the recorded hash is the
clone's, the row is thus both no older and no newer than the clone's file
(`SkipsAreStored`); had the code loaded first, TLC finds the row that is
skipped for ever. `overtaken` is the exception: the import may put back
an older row, without touching the hash. `Crawled` follows one crawl: while the clone
stands still, what a worker has in hand is the clone's, and a file it is done with
is `Settled`, which no step of the import undoes without overtaking the row.

**The bridge** (`CveBridgeProofs`). `RunOK`: the tables a run found are there until
it empties them, and the machines' table is empty from the first `DELETE` to the
commit that fills it. The order of the two `DELETE`s, and that both inserts are
in one commit, make `ComputerInSearch` and `WholeRunOrNothing` follow. `OnlyDue`
adds that answers hold only rows that are due to a name, so that nothing else is
ever found, shown or put back. `QuietInv` follows one run that nothing disturbs: what it has
found is one answer for each name it has asked for and nothing else (`AsAnswered`,
`OneMore`), and both tables are empty from the first question to the commit, so
that no older row survives, and nothing is there when the variant's insert raises
(`HeldUp`).

The score is about a fold over sequences of any length, whose `CHOOSE`-defined
recursion the library's induction theorems cannot be applied to here.
`MinimalSubset` takes their place: of the finite sets of a kind, one has no
smaller one of the kind among its subsets, which is the well-foundedness of
strict inclusion. It gives the greatest and the least index of a metric or a
container (`Extremes`), and that a recursion on finite sets has the closed form
one guesses for it (`LoopIs`): whatever container the loop reaches, the last with
metrics up to there has decided. `ScoreIs` is that form.

**The scripts** (`ScriptsProofs`). `ScanInv`: what NVD carried at the start is in
`all_alerts` once its step is over, so is every serious entry of a feed that was
read, and the list matched is the whole of it.
`ThreadOK`: what each step of a request has learned was true of Vault at a moment
since it began, except where a broken certificate still reads as good and cannot
be built from. `PartsDone`: what a clean run has removed or started when it is
at each phase, the runners in any order; `VolumesKept`: unless
the old copy prunes named volumes, a registered volume stays until the end of the
run, and past it if its runner's container runs.
`ResetAssumption`: a runner's name is like itself, as `docker ps --filter name=`
has it. `ScriptsApart`: the composition implies each specification.

### Only model-checked

* Liveness: `CacheCatchesUp`, `KevEventuallyKnown`, `EventuallySeen`,
  `NvdEventuallyReported`, `NvdStuckShows`, `DispatchEnds`, `EventuallyImported`,
  `Repaired`, `BridgeCatchesUp`. The prover does not handle fairness, which is
  about ENABLED. Of six of them the safety half is proved (above). The other
  three, `KevEventuallyKnown`, `EventuallySeen` and `NvdEventuallyReported`, are
  about the next good run of a collector; what that run does with an answer is
  in their component's inductive invariant.
* The six runs that end in a violation.

## 5. What is left out

* Texts: of findings, mails, cards, logs; the counters and texts of `FeedStatus`.
  The words of a title are given by `Hints`, since
  `_extract_product_hints` is string handling.
* NVD's paging, which the code does not ask for, and the 32-bit ids
  `upsert_cve_search` derives from a hash (collisions are left out).
* The connection pool the crawl's threads share: `SimpleConnectionPool` is not
  the class psycopg2 offers for threads, but whether sharing it fails depends on
  the library and the interpreter, and no line here tells.
* The routes that only read: three of `routes.py`, and the two of `api.py` for a
  single CVE, which make one SELECT and the conversion of `CveApi`.
* `bulk_import_hosts.py`: a loop of independent POSTs that keeps nothing. Of
  `rotate_token.sh`, the token request and the `.env` rewrite: any DefectDojo
  post may fail in the models, whatever the reason.
* Overlapping bridge runs: cron could start one before the last has ended, and
  both then insert after both have cleared, into `cve_search_computer`, which has
  no key. Two are never in the model at once, so `WholeRunOrNothing` says nothing
  of them.
* What the bridge makes of an answer the API gives is modelled, whether such an
  answer should be given is not: no property says that the CVEs beyond `LIMIT 50`,
  or the records beside one that does not convert, ever reach the console.
* Which registrations a reset loses: of a runner it does not start again, and
  those the copy prunes before it starts anything (`RegistrationKept` is about
  the others).
* Files removed upstream: `--diff-filter=AM` ignores them and cvelistV5 removes none.

Disagreements met while modelling and not stated as runs:

* `cisa_kev.py:33-34`: after an empty catalogue the next load is silent again.
* `vendor_rss.py:67-68`: on the first run only the first feed with entries is silent,
  since the memory is shared; `107-109` reports "ok" though every feed failed.
* `ocs/cve_bridge.py:105`, `131`: the variant has no `[:255]`, so that one due
  CVE with a longer first reference keeps the console's tables empty for good
  (`HeldUp`; without it `BridgeCatchesUp` is violated).
* `routes.py:14` says "tous les collectors" and leaves InterSystems out; `98-101`
  lists the products of a CVE as `matched_packages`, whether a host has one or not.
* `update_cve_db.py:67-68` and `update_cve.sh`: an import that read a file before
  the crawl pulled may store it after the crawl has stored the newer one; the
  hash the crawl recorded then keeps every later crawl from repairing the row
  (`overtaken`; without that exception `Repaired` is violated).
* `cve_files.hash` is an MD5 or a SHA-256 depending on who wrote the row.
* `reset-runners.sh:18` announces the removal of the existing containers and
  removes those that run; `reset-runner:89` says "succès" though an image was
  missing.
* `ocs_cache.py:114`: hosts are looked up in the fallback only when none of the
  exact names has one; `116` names the package after the product even when the vendor's name
  matched.
* `matching.py:39`: a KEV alert has no CPE and its title is not tried.
* `force_full_scan.py:73-74`: one URL is forgotten, so one advisory comes
  back, under a comment that wants all; `92-93` counts failed posts as pushed.
* `gitlab/gitlab-ci.yml:321`: a file is compared with its own copy.
* `api.py:73`: the 404 is raised inside the `try` and becomes a 500.

## 6. Plan

Done, in this order: `InventoryCache`, `OcsCache` and its proofs (every alert
depends on the cache), the collectors, `Matching`, `VulnEngine` with
`AlertDelivery`, `ForceFullScan`, `UpdateCve` and its proofs, `CveBridge`,
`OcspResponder`, `UpdateCveDb`, `CveApi` and the bridge's variant,
`ResetRunners`, the collectors' status,
then the proofs of the other modules: every safety invariant of the passing
runs, the two action properties and the two refinements, the score for records of
any size, and the safety halves of six liveness properties.

Left to TLC, for good: that the steps fairness is about are taken, and the six
runs that end in a violation (section 4).
Worth stating next, if the code grows: overlapping bridge runs, once
`cve_bridge.py` takes a lock that says what they may do; a collector that
answers before the first refresh, once `scheduler.py` waits for it.
