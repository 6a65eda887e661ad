----------------------------- MODULE UpdateCve ------------------------------
(***************************************************************************)
(* cve-database-manager/update_cve.sh and the import_cve.py it runs: pull  *)
(* the cvelistV5 clone, import the files that changed between the commits  *)
(* before and after the pull.  What a run does not import, no later run    *)
(* looks at again: the next one starts from the new commit.                *)
(*                                                                         *)
(* Of a commit the model keeps its tree, CVE -> content of its JSON file,  *)
(* and which of the commits it compares are the same one: two commits may  *)
(* have the same CVE files.  The files of a diff are taken in any order.   *)
(***************************************************************************)
EXTENDS Integers, FiniteSets

CONSTANTS
    Cves,
    Contents,    \* contents of a CVE's file
    Unreadable,  \* contents json.loads refuses
    Refused,     \* contents that parse but that a jsonb column refuses
    NoFile,      \* a CVE that has no file, or no row
    BatchSize,   \* BATCH_SIZE, import_cve.py:21
    MaxFaults    \* bound on failed pulls and batches, and on killed runs

ASSUME UpdateCveAssumption ==
    /\ BatchSize \in Nat \ {0} /\ MaxFaults \in Nat
    /\ NoFile \notin Contents
    /\ Unreadable \subseteq Contents /\ Refused \subseteq Contents
    /\ IsFiniteSet(Cves)

VARIABLES
    upstream,    \* origin/main (external)
    clone,       \* HEAD of CVE_REPO_PATH and its working tree
    ahead,       \* origin/main has commits that HEAD lacks
    advanced,    \* HEAD is no longer the commit $BEFORE
    cve_files,   \* the table, CVE -> content of its row
    pc,          \* "idle", "pulling", "diffing" or "importing"
    before,      \* $BEFORE
    files,       \* files of the list that are still to be read
    batch,       \* batch
    said,        \* the last line of the log, "killed" where a run had none
    missed,      \* CVEs a run ended without importing, and not imported since
    faults

commits == <<ahead, advanced>>
runVars == <<pc, before, files, batch>>
vars    == <<upstream, clone, commits, cve_files, runVars, said, missed, faults>>

Trees == [Cves -> Contents \union {NoFile}]

TypeOK ==
    /\ upstream \in Trees /\ clone \in Trees /\ before \in Trees
    /\ cve_files \in Trees
    /\ pc \in {"idle", "pulling", "diffing", "importing"}
    /\ files \subseteq Cves
    /\ batch \subseteq Cves \X (Contents \ Unreadable)
    /\ said \in {"nothing yet", "started", "up to date", "no CVE file", "done", "killed"}
    /\ commits \in BOOLEAN \X BOOLEAN
    /\ missed \subseteq Cves
    /\ faults \in 0 .. MaxFaults

\* git diff --diff-filter=AM $BEFORE $AFTER
Changed(from, to) == {c \in Cves : to[c] # from[c] /\ to[c] # NoFile}

InBatch(b) == {row[1] : row \in b}

\* Rows read from a file that has changed since: another program has pulled.
Overtaken(b) == {row[1] : row \in {r \in b : r[2] # clone[r[1]]}}

\* The table starts as a full import of the clone.
Init ==
    /\ upstream \in [Cves -> (Contents \ (Unreadable \union Refused)) \union {NoFile}]
    /\ clone = upstream /\ cve_files = upstream
    /\ ahead = FALSE /\ advanced = FALSE
    /\ pc = "idle" /\ before = clone /\ files = {} /\ batch = {}
    /\ said = "nothing yet" /\ missed = {} /\ faults = 0

-----------------------------------------------------------------------------

\* Upstream commits new content of a CVE.  CVE files are never removed.
Publish(c, v) ==
    /\ upstream[c] # v
    /\ upstream' = [upstream EXCEPT ![c] = v] /\ ahead' = TRUE
    /\ UNCHANGED <<clone, advanced, cve_files, runVars, said, missed, faults>>

\* A commit that touches no CVE file.
PublishOther ==
    /\ ahead' = TRUE
    /\ UNCHANGED <<upstream, clone, advanced, cve_files, runVars, said, missed, faults>>

Fault == faults < MaxFaults /\ faults' = faults + 1

\* The script is run and notes the commit it starts from.
Begin ==
    /\ pc = "idle"
    /\ pc' = "pulling" /\ before' = clone /\ advanced' = FALSE
    /\ said' = "started"
    /\ UNCHANGED <<upstream, clone, ahead, cve_files, files, batch, missed, faults>>

\* git pull, by either program.
Pulled == clone' = upstream /\ ahead' = FALSE /\ advanced' = (advanced \/ ahead)

\* Slip: $BEFORE is read after the pull.
PullFirst ==
    /\ pc = "pulling" /\ pc' = "diffing"
    /\ clone' = upstream /\ before' = upstream /\ ahead' = FALSE /\ advanced' = FALSE
    /\ UNCHANGED <<upstream, cve_files, files, batch, said, missed, faults>>

Pull ==
    /\ pc = "pulling"
    /\ pc' = "diffing" /\ Pulled
    /\ UNCHANGED <<upstream, cve_files, before, files, batch, said, missed, faults>>

\* The status of `git pull | tee` is tee's: the script goes on.
PullFails ==
    /\ pc = "pulling" /\ Fault
    /\ pc' = "diffing"
    /\ UNCHANGED <<upstream, clone, commits, cve_files, before, files, batch, said, missed>>

\* The same commit: "DB deja a jour" and exit.  Another one: "Aucun fichier CVE
\* modifie" and exit, or the list is written, PostgreSQL is awaited and
\* import_cve.py started.
Diff ==
    /\ pc = "diffing"
    /\ \/ /\ ~advanced
          /\ pc' = "idle" /\ said' = "up to date" /\ UNCHANGED files
       \/ /\ advanced /\ Changed(before, clone) = {}
          /\ pc' = "idle" /\ said' = "no CVE file" /\ UNCHANGED files
       \/ /\ advanced /\ Changed(before, clone) # {}
          /\ pc' = "importing" /\ files' = Changed(before, clone) /\ UNCHANGED said
    /\ UNCHANGED <<upstream, clone, commits, cve_files, before, batch, missed, faults>>

\* executemany() on batch b is one transaction: a refused row fails it whole.
BatchStored(b) ==
    /\ \A row \in b : row[2] \notin Refused
    /\ cve_files' = [c \in Cves |-> IF c \in InBatch(b)
                                    THEN (CHOOSE row \in b : row[1] = c)[2]
                                    ELSE cve_files[c]]
    /\ missed' = (missed \ InBatch(b)) \union Overtaken(b)
    /\ UNCHANGED faults

BatchFails(b) ==
    /\ UNCHANGED cve_files
    /\ \/ (\E row \in b : row[2] \in Refused) /\ UNCHANGED faults
       \/ Fault

\* Slip: the batch is emptied whether or not it was stored.
AddFileDropping(c) ==
    /\ pc = "importing" /\ c \in files /\ clone[c] \notin Unreadable
    /\ files' = files \ {c}
    /\ LET b == batch \union {<<c, clone[c]>>}
       IN  IF Cardinality(b) < BatchSize
           THEN batch' = b /\ UNCHANGED <<cve_files, missed, faults>>
           ELSE /\ batch' = {}
                /\ BatchStored(b) \/ (BatchFails(b) /\ UNCHANGED missed)
    /\ UNCHANGED <<upstream, clone, commits, pc, before, said>>

\* The next file joins the batch, and a full batch is sent.  If that fails the
\* batch is kept, and sent again with the next file.
AddFile(c) ==
    /\ pc = "importing" /\ c \in files /\ clone[c] \notin Unreadable
    /\ files' = files \ {c}
    /\ LET b == batch \union {<<c, clone[c]>>}
       IN  \/ /\ Cardinality(b) < BatchSize
              /\ batch' = b /\ UNCHANGED <<cve_files, missed, faults>>
           \/ /\ Cardinality(b) >= BatchSize
              /\ \/ BatchStored(b) /\ batch' = {}
                 \/ BatchFails(b) /\ batch' = b /\ UNCHANGED missed
    /\ UNCHANGED <<upstream, clone, commits, pc, before, said>>

\* json.loads raises: the file is counted as an error and skipped.
SkipFile(c) ==
    /\ pc = "importing" /\ c \in files /\ clone[c] \in Unreadable
    /\ files' = files \ {c}
    /\ missed' = missed \union {c}
    /\ UNCHANGED <<upstream, clone, commits, cve_files, pc, before, batch, said, faults>>

\* Slip: a job state the script has not.
FinishOpen ==
    /\ pc = "importing" /\ files = {}
    /\ pc' = "done" /\ batch' = {} /\ said' = "done"
    /\ UNCHANGED <<upstream, clone, commits, cve_files, before, files, missed, faults>>

\* The last batch is sent, once; the script logs that the update is done.
Finish ==
    /\ pc = "importing" /\ files = {}
    /\ pc' = "idle" /\ batch' = {} /\ said' = "done"
    /\ \/ BatchStored(batch)
       \/ batch # {} /\ BatchFails(batch) /\ missed' = missed \union InBatch(batch)
    /\ UNCHANGED <<upstream, clone, commits, before, files>>

\* What the running run has yet to import.
Pending ==
    CASE pc = "idle"      -> {}
      [] pc = "importing" -> files \union InBatch(batch)
      [] OTHER            -> Changed(before, clone)

\* The machine stops, or import_cve.py dies on its connection.
Killed ==
    /\ pc # "idle" /\ Fault
    /\ pc' = "idle" /\ files' = {} /\ batch' = {} /\ said' = "killed"
    /\ missed' = missed \union Pending
    /\ UNCHANGED <<upstream, clone, commits, cve_files, before>>

Run ==
    \/ Begin \/ Pull \/ Diff \/ Finish
    \/ \E c \in Cves : AddFile(c) \/ SkipFile(c)

Next ==
    \/ \E c \in Cves, v \in Contents : Publish(c, v)
    \/ PublishOther
    \/ Run \/ PullFails \/ Killed

\* The script is run again and again, and its steps end.
Spec     == Init /\ [][Next]_vars
FairSpec == Spec /\ WF_vars(Run)

-----------------------------------------------------------------------------

Stale == {c \in Cves : clone[c] # NoFile /\ cve_files[c] # clone[c]}

\* A row differs from the clone's file only while a run is about to import it,
\* or because the run that should have imported it said so or was killed:
\* neither the diff, nor a batch that is kept and sent again, nor the last,
\* partial one loses a file silently (update_cve.sh:21-34, import_cve.py:36-87).
LagExplained == Stale \subseteq Pending \union missed

\* What upstream publishes is in the table in the end, unless upstream changes
\* it again or a run has missed it.
EventuallyImported ==
    \A c \in Cves, v \in Contents :
        upstream[c] = v ~> cve_files[c] = v \/ upstream[c] # v \/ c \in missed

\* update_cve.sh:29: "Aucune mise a jour disponible, DB deja a jour.": the
\* table then holds what the clone holds.  Nothing but a run moves the clone
\* where the import runs alone, so this is said of the moment of that line.
UpToDateIsTrue == pc = "idle" /\ said = "up to date" => Stale = {}
=============================================================================
