---------------------------- MODULE UpdateCveDb -----------------------------
(***************************************************************************)
(* cve-database-manager/update_cve_db.py, the crawl over every file, and   *)
(* update_cve.sh beside it: they share the clone and the table, and each   *)
(* pulls under the other.  The crawl's threads read a file twice, to hash  *)
(* it and to load it, and skip a file whose hash file_hashes has.  A hash  *)
(* is the content it is of: update_cve.sh never reads or writes one here   *)
(* (the two programs also use different algorithms).                       *)
(***************************************************************************)
EXTENDS UpdateCve

CONSTANT Date    \* content of a file -> its cveMetadata.dateUpdated

ASSUME DateAssumption == Date \in [Contents \union {NoFile} -> Nat]

VARIABLES
    file_hashes, \* the table, CVE -> the content hashed when its row was stored
    crawl,       \* main(): "idle", "walking" (os.walk) or "working" (the pool)
    worker,      \* CVE -> the process_file() of its file, and its locals
    overtaken    \* CVEs whose row the import has set to an older content than
                 \* the clone's since a crawl last stored it

crawlVars == <<file_hashes, crawl, worker>>
dbVars    == <<vars, crawlVars, overtaken>>

Worker(step, hash, data) == [step |-> step, hash |-> hash, data |-> data]
Done == Worker("done", NoFile, NoFile)

DbTypeOK ==
    /\ TypeOK
    /\ file_hashes \in Trees
    /\ crawl \in {"idle", "walking", "working"}
    /\ worker \in [Cves -> [step : {"queued", "hashed", "loaded", "done"},
                            hash : Contents \union {NoFile},
                            data : (Contents \ Unreadable) \union {NoFile}]]
    /\ overtaken \subseteq Cves

\* The table was filled by a crawl.
DbInit ==
    /\ Init
    /\ file_hashes = cve_files /\ crawl = "idle" /\ worker = [c \in Cves |-> Done]
    /\ overtaken = {}

-----------------------------------------------------------------------------

\* git_pull(): what no run of update_cve.sh has pending is left to the crawl.
CrawlPull ==
    /\ crawl = "idle" /\ crawl' = "walking"
    /\ Pulled
    /\ UNCHANGED <<upstream, cve_files, runVars, said, faults, file_hashes, worker, overtaken>>
    /\ missed' = missed \union (Changed(clone, upstream) \ Pending')

\* CalledProcessError is caught: the crawl goes over the clone as it is.
CrawlPullFails ==
    /\ crawl = "idle" /\ Fault /\ crawl' = "walking"
    /\ UNCHANGED <<upstream, clone, commits, cve_files, runVars, said, missed, file_hashes, worker, overtaken>>

\* os.walk() and submit(), for every file there is.
Walk ==
    /\ crawl = "walking" /\ crawl' = "working"
    /\ worker' = [c \in Cves |-> IF clone[c] = NoFile THEN Done
                                 ELSE Worker("queued", NoFile, NoFile)]
    /\ UNCHANGED <<vars, file_hashes, overtaken>>

Step(c, w) ==
    worker' = [worker EXCEPT ![c] = w] /\ UNCHANGED <<crawl, overtaken>>

\* calculate_hash()
Hash(c) ==
    /\ worker[c].step = "queued"
    /\ Step(c, Worker("hashed", clone[c], NoFile))
    /\ UNCHANGED <<vars, file_hashes>>

\* Slip: the content is read first, and hashed after.
LoadFirst(c) ==
    /\ worker[c].step = "hashed"
    /\ Step(c, IF worker[c].hash \in Unreadable THEN Done
               ELSE Worker("loaded", clone[c], worker[c].hash))
    /\ UNCHANGED <<vars, file_hashes>>

\* json.load() of the file opened again; an error is printed.
Load(c) ==
    /\ worker[c].step = "hashed"
    /\ Step(c, IF clone[c] \in Unreadable THEN Done
               ELSE Worker("loaded", worker[c].hash, clone[c]))
    /\ UNCHANGED <<vars, file_hashes>>

\* The SELECT, and "has not changed", or both rows in one commit; a content the
\* table refuses raises, and the error is printed.
Store(c) ==
    LET w == worker[c]
    IN  /\ w.step = "loaded"
        /\ worker' = [worker EXCEPT ![c] = Done]
        /\ IF w.hash = file_hashes[c] \/ w.data \in Refused
           THEN UNCHANGED <<cve_files, file_hashes, missed, overtaken>>
           ELSE /\ cve_files' = [cve_files EXCEPT ![c] = w.data]
                /\ file_hashes' = [file_hashes EXCEPT ![c] = w.hash]
                /\ missed' = (missed \ {c}) \union (IF w.data = clone[c] THEN {} ELSE {c})
                /\ overtaken' = overtaken \ {c}
        /\ UNCHANGED <<upstream, clone, commits, runVars, said, faults, crawl>>

\* No connection, or one that breaks: printed too.
WorkerFails(c) ==
    /\ worker[c].step # "done" /\ Fault
    /\ Step(c, Done)
    /\ UNCHANGED <<upstream, clone, commits, cve_files, runVars, said, missed, file_hashes>>

CrawlEnds ==
    /\ crawl = "working" /\ worker = [c \in Cves |-> Done]
    /\ crawl' = "idle"
    /\ UNCHANGED <<vars, file_hashes, worker, overtaken>>

CrawlKilled ==
    /\ crawl # "idle" /\ Fault
    /\ crawl' = "idle" /\ worker' = [c \in Cves |-> Done]
    /\ UNCHANGED <<upstream, clone, commits, cve_files, runVars, said, missed, file_hashes, overtaken>>

Crawl ==
    \/ CrawlPull \/ Walk \/ CrawlEnds
    \/ \E c \in Cves : Hash(c) \/ Load(c) \/ Store(c)

\* Beside a step of update_cve.sh: a row it sets to something else than the file
\* that is there now was read before the crawl pulled.
Beside ==
    /\ overtaken' = overtaken \union {c \in Cves : cve_files'[c] \notin {cve_files[c], clone[c]}}
    /\ UNCHANGED crawlVars

\* A record carries the date of its update: no content comes back.
PublishNewer ==
    /\ \/ \E c \in Cves, v \in Contents : Date[upstream[c]] < Date[v] /\ Publish(c, v)
       \/ PublishOther
    /\ UNCHANGED <<crawlVars, overtaken>>

DbNext ==
    \/ PublishNewer \/ (Run /\ Beside) \/ ((PullFails \/ Killed) /\ Beside)
    \/ Crawl \/ CrawlPullFails \/ CrawlKilled \/ \E c \in Cves : WorkerFails(c)

\* Both programs are run again and again, and their steps end.
DbSpec     == DbInit /\ [][DbNext]_dbVars
DbFairSpec == DbSpec /\ WF_dbVars(Run /\ Beside) /\ WF_dbVars(Crawl)

-----------------------------------------------------------------------------

\* A crawl that is run again repairs what failed, killed and overlapping runs
\* of both programs left: what upstream publishes, readable and accepted, is in
\* the table in the end, although files change between their two readings.  It
\* does not repair a row the import overwrote with an older content after the
\* crawl had recorded the hash of the newer one (update_cve_db.py:42-45,67-68).
CrawlRepairs ==
    \A c \in Cves, v \in Contents \ (Unreadable \union Refused) :
        upstream[c] = v ~> cve_files[c] = v \/ upstream[c] # v \/ c \in overtaken
=============================================================================
