----------------------------- MODULE CveBridge ------------------------------
(***************************************************************************)
(* cve-database-manager/cve_bridge.py and its variant ocs/cve_bridge.py:   *)
(* refill the two CVE tables of OCS Inventory from the answers of the CVE  *)
(* API, one per software name.  The tables are emptied (by two commits,    *)
(* twice; the variant by one, once), filled in one transaction, and read   *)
(* by the OCS console at any time.                                         *)
(*                                                                         *)
(* A row is <<software name, CVE>>; machines, publishers and versions are  *)
(* repeated per row and left out.                                          *)
(***************************************************************************)
EXTENDS CveApi

CONSTANTS
    Names,       \* software names
    LongLinks,   \* CVEs whose first reference does not fit LINK, a varchar(255)
    MaxFaults    \* bound on failed API calls and on runs that a fault ends

ASSUME CveBridgeAssumption == MaxFaults \in Nat /\ LongLinks \subseteq Cves

VARIABLES
    script,               \* "manager", or "ocs": the variant
    inventory,            \* the software names in OCS (external)
    cve_files,            \* cve_files[n]: the rows that n matches (external)
    cve_search_computer,  \* the committed rows of the table
    cve_search,           \* idem
    pc,
    names,                \* unique_names: those the run has still to ask for
    found,                \* name_to_cves, as the rows to insert
    opening,              \* the committed rows when the run began
    outcome,              \* how the last run ended
    faults

tables  == <<cve_search_computer, cve_search>>
runVars == <<pc, names, found, opening>>
vars    == <<script, inventory, cve_files, tables, runVars, outcome, faults>>

Rows == Names \X Cves

Steps == {"idle", "clearing computer", "clearing search", "clearing both", "asking",
          "clearing computer again", "clearing search again", "inserting"}

TypeOK ==
    /\ script \in {"manager", "ocs"}
    /\ inventory \subseteq Names /\ cve_files \in [Names -> SUBSET Cves]
    /\ cve_search_computer \subseteq Rows /\ cve_search \subseteq Rows
    /\ pc \in Steps /\ names \subseteq Names /\ found \subseteq Rows
    /\ opening \subseteq Rows
    /\ outcome \in {"nothing yet", "unchanged", "done", "raised"}
    /\ faults \in 0 .. MaxFaults

Init ==
    /\ script \in {"manager", "ocs"}
    /\ inventory \in SUBSET Names /\ cve_files \in [Names -> SUBSET Cves]
    /\ cve_search_computer = {} /\ cve_search = {}
    /\ pc = "idle" /\ names = {} /\ found = {} /\ opening = {}
    /\ outcome = "nothing yet" /\ faults = 0

-----------------------------------------------------------------------------

Install(n) ==
    /\ inventory' = IF n \in inventory THEN inventory \ {n} ELSE inventory \union {n}
    /\ UNCHANGED <<script, cve_files, tables, runVars, outcome, faults>>

Publish(n, c) ==
    /\ c \notin cve_files[n]
    /\ cve_files' = [cve_files EXCEPT ![n] = @ \union {c}]
    /\ UNCHANGED <<script, inventory, tables, runVars, outcome, faults>>

Fault == faults < MaxFaults /\ faults' = faults + 1

\* Slip: the dictionary of answers outlives the run.
BeginKeeping ==
    /\ pc = "idle" /\ inventory # {}
    /\ names' = inventory /\ found' = found /\ opening' = cve_search_computer
    /\ pc' = IF script = "manager" THEN "clearing computer" ELSE "clearing both"
    /\ UNCHANGED <<script, inventory, cve_files, tables, outcome, faults>>

\* The run connects and reads the software names; without any it returns.
Begin ==
    /\ pc = "idle" /\ inventory # {}
    /\ names' = inventory /\ found' = {} /\ opening' = cve_search_computer
    /\ pc' = IF script = "manager" THEN "clearing computer" ELSE "clearing both"
    /\ UNCHANGED <<script, inventory, cve_files, tables, outcome, faults>>

\* Slip: cve_search is emptied first.
ClearComputerLast(at, next) ==
    /\ pc = at /\ pc' = next
    /\ cve_search' = {}
    /\ UNCHANGED <<script, inventory, cve_files, cve_search_computer, names, found, opening, outcome, faults>>

\* clear_old_data(): each DELETE has a commit of its own.
ClearComputer(at, next) ==
    /\ pc = at /\ pc' = next
    /\ cve_search_computer' = {}
    /\ UNCHANGED <<script, inventory, cve_files, cve_search, names, found, opening, outcome, faults>>

ClearSearch(at, next) ==
    /\ pc = at /\ pc' = next
    /\ cve_search' = {}
    /\ UNCHANGED <<script, inventory, cve_files, cve_search_computer, names, found, opening, outcome, faults>>

\* The variant has one commit for both.
ClearBoth ==
    /\ pc = "clearing both" /\ pc' = "asking"
    /\ cve_search_computer' = {} /\ cve_search' = {}
    /\ UNCHANGED <<script, inventory, cve_files, names, found, opening, outcome, faults>>

Clear ==
    \/ ClearBoth
    \/ ClearComputer("clearing computer", "clearing search")
    \/ ClearSearch("clearing search", "asking")
    \/ ClearComputer("clearing computer again", "clearing search again")
    \/ ClearSearch("clearing search again", "inserting")

\* Only the manager's script drops what the API scores under 6.0, or not at all.
Kept(n, cves) ==
    {<<n, c>> : c \in {d \in cves : script = "manager" => cvss[d] >= 60}}

\* The answer for one name, or none: a failed call, and any status but 200,
\* read as no CVE.
Answered(n) ==
    /\ pc = "asking" /\ n \in names
    /\ names' = names \ {n}
    /\ \/ /\ \E page \in Pages(cve_files[n]) :
                found' = found \union (IF Answers(page) THEN Kept(n, page) ELSE {})
          /\ UNCHANGED faults
       \/ found' = found /\ Fault
    /\ UNCHANGED <<script, inventory, cve_files, tables, pc, opening, outcome>>

\* Slip: an outcome the log does not have.
SortedSilently ==
    /\ pc = "asking" /\ names = {} /\ script = "manager"
    /\ pc' = IF found = {} THEN "idle" ELSE "clearing computer again"
    /\ outcome' = IF found = {} THEN "nothing" ELSE outcome
    /\ UNCHANGED <<script, inventory, cve_files, tables, names, found, opening, faults>>

\* All answers are in: nothing to insert, "tables CVE inchangees" and return;
\* or the tables are emptied, again.
Sorted ==
    /\ pc = "asking" /\ names = {} /\ script = "manager"
    /\ pc' = IF found = {} THEN "idle" ELSE "clearing computer again"
    /\ outcome' = IF found = {} THEN "unchanged" ELSE outcome
    /\ UNCHANGED <<script, inventory, cve_files, tables, names, found, opening, faults>>

\* The variant goes on to insert, be it nothing.
SortedOcs ==
    /\ pc = "asking" /\ names = {} /\ script = "ocs"
    /\ pc' = "inserting"
    /\ UNCHANGED <<script, inventory, cve_files, tables, names, found, opening, outcome, faults>>

\* The variant inserts the first reference as it is, and a strict MySQL refuses
\* one that is too long; the manager's script cuts it.
Refused == script = "ocs" /\ \E row \in found : row[2] \in LongLinks

\* Slip: the rows are committed one by one.
InsertOneByOne ==
    /\ pc = "inserting"
    /\ \E row \in found :
          /\ cve_search_computer' = cve_search_computer \union {row}
          /\ cve_search' = cve_search \union {row}
          /\ found' = found \ {row}
          /\ pc' = IF found = {row} THEN "idle" ELSE pc
          /\ outcome' = IF found = {row} THEN "done" ELSE outcome
    /\ UNCHANGED <<script, inventory, cve_files, names, opening, faults>>

\* The rows of one transaction, up to its commit.
Insert ==
    /\ pc = "inserting" /\ ~Refused
    /\ cve_search_computer' = cve_search_computer \union found
    /\ cve_search' = cve_search \union found
    /\ pc' = "idle" /\ outcome' = "done"
    /\ UNCHANGED <<script, inventory, cve_files, names, found, opening, faults>>

\* Nobody catches the error: the run ends without its commit.
InsertRaises ==
    /\ pc = "inserting" /\ Refused
    /\ pc' = "idle" /\ outcome' = "raised"
    /\ UNCHANGED <<script, inventory, cve_files, tables, names, found, opening, faults>>

\* Another error of the OCS database, or the end of the process: no handler.
Raise ==
    /\ pc # "idle" /\ Fault
    /\ pc' = "idle" /\ outcome' = "raised"
    /\ UNCHANGED <<script, inventory, cve_files, tables, names, found, opening>>

Run ==
    \/ Begin \/ Clear \/ (\E n \in Names : Answered(n)) \/ Sorted \/ SortedOcs
    \/ Insert \/ InsertRaises

Next ==
    \/ \E n \in Names : Install(n) \/ \E c \in Cves : Publish(n, c)
    \/ Run \/ Raise

\* cron runs the script again and again; its queries end, and the API calls
\* have a time-out of 3s.
Spec     == Init /\ [][Next]_vars
FairSpec == Spec /\ WF_vars(Run)

-----------------------------------------------------------------------------

\* The console never shows a CVE on a machine that the CVE search does not
\* know, in the middle of a run or after one that raised (lines 93-96, 225-230).
ComputerInSearch == cve_search_computer \subseteq cve_search

\* The console shows all the rows of one run, or none: what it shows while the
\* tables are being refilled, or after a failure, is never part of a run.
WholeRunOrNothing ==
    cve_search_computer \in {{}, found} \/ cve_search_computer = opening

\* What the API can answer for n, as the rows that are kept of it: those of a
\* page, which leaves some out when n matches more than Limit, or none when a
\* member of the page does not convert.
AnswerRows(n) ==
    {IF Answers(page) THEN Kept(n, page) ELSE {} : page \in Pages(cve_files[n])}

\* The rows are those of one answer for each of these names, and no others.
AsAnswered(rows, some) ==
    /\ rows \subseteq some \X Cves
    /\ \A n \in some : {row \in rows : row[1] = n} \in AnswerRows(n)

\* The tables are empty and the variant cannot insert some answer.
HeldUp ==
    /\ script = "ocs" /\ cve_search_computer = {} /\ cve_search = {}
    /\ \E n \in inventory : \E rows \in AnswerRows(n) : \E row \in rows : row[2] \in LongLinks

\* When the inventory and the database stop changing, the console shows, again
\* and again, one answer of the API for every name and nothing else: no row of
\* software that is gone, of an earlier run or under the score survives.  Only
\* the variant, and only where a link is too long, leaves the tables empty
\* instead (cve-database-manager/cve_bridge.py:185-263, ocs/cve_bridge.py:105).
BridgeCatchesUp ==
    <>[][FALSE]_<<inventory, cve_files>>
        => []<>(inventory # {} => AsAnswered(cve_search_computer, inventory) \/ HeldUp)

\* Line 218: "tables CVE inchangees": the run that says so left the tables as
\* it found them.
UnchangedIsTrue ==
    pc = "idle" /\ outcome = "unchanged" => cve_search_computer = opening
=============================================================================
