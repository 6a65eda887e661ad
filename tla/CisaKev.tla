------------------------------ MODULE CisaKev -------------------------------
(***************************************************************************)
(* vuln-engine/collectors/cisa_kev.py between two restarts and across      *)
(* them: the catalogue moves, requests fail, and known_cves is only in     *)
(* memory.                                                                 *)
(***************************************************************************)
EXTENDS Collectors

CONSTANTS
    KevCves,     \* CVE ids the catalogue may hold
    MaxKevFaults \* bound on failed requests, empty answers and restarts

ASSUME KevAssumption == MaxKevFaults \in Nat

VARIABLES
    catalog,     \* the catalogue CISA publishes (external)
    kev_pc,      \* "idle", or "asking": in the await of client.get
    known_cves,  \* self.known_cves
    kevStatus,   \* self.status.status, as GET /feeds/status shows it
    kevReturned, \* CVEs alerted on since the process started
    kevAgain,    \* those alerted on more than once since it started
    kevSilenced, \* CVEs catalogued without an alert since it started
    withdrawn,   \* CVEs withdrawn from the catalogue since it started
    halted,      \* CVEs alerted on by a run that a malformed entry stopped half-way
    kevFaults

kevGhosts == <<kevReturned, kevAgain, kevSilenced, halted>>
kevVars   == <<catalog, kev_pc, known_cves, kevStatus, kevGhosts, withdrawn, kevFaults>>

KevTypeOK ==
    /\ catalog \subseteq KevCves /\ known_cves \subseteq KevCves
    /\ kev_pc \in {"idle", "asking"}
    /\ kevStatus \in {"idle", "ok (initial load)", "ok", "error"}
    /\ kevReturned \subseteq KevCves /\ kevAgain \subseteq kevReturned
    /\ kevSilenced \subseteq KevCves /\ withdrawn \subseteq KevCves
    /\ halted \subseteq KevCves /\ kevFaults \in 0 .. MaxKevFaults

KevNewProcess ==
    /\ kev_pc' = "idle" /\ known_cves' = {} /\ kevStatus' = "idle"
    /\ kevReturned' = {} /\ kevAgain' = {}
    /\ kevSilenced' = {} /\ withdrawn' = {} /\ halted' = {}

KevInit ==
    /\ catalog \in SUBSET KevCves \ {{}}
    /\ kev_pc = "idle" /\ known_cves = {} /\ kevStatus = "idle"
    /\ kevReturned = {} /\ kevAgain = {}
    /\ kevSilenced = {} /\ withdrawn = {} /\ halted = {} /\ kevFaults = 0

-----------------------------------------------------------------------------

KevPublish(c) ==
    /\ c \notin catalog
    /\ catalog' = catalog \union {c}
    /\ UNCHANGED <<kev_pc, known_cves, kevStatus, kevGhosts, withdrawn, kevFaults>>

\* The catalogue itself is never empty.
KevWithdraw(c) ==
    /\ c \in catalog /\ catalog # {c}
    /\ catalog' = catalog \ {c}
    /\ withdrawn' = withdrawn \union {c}
    /\ UNCHANGED <<kev_pc, known_cves, kevStatus, kevGhosts, kevFaults>>

KevFire ==
    /\ kev_pc = "idle"
    /\ kev_pc' = "asking"
    /\ UNCHANGED <<catalog, known_cves, kevStatus, kevGhosts, withdrawn, kevFaults>>

\* collect() from the answer to its return, no await in between.
KevDigest(entries) ==
    \E o \in KevOutcomes(known_cves, entries) :
        /\ kev_pc' = "idle"
        /\ known_cves' = o.memory
        /\ kevStatus' = IF known_cves = {} THEN "ok (initial load)"
                        ELSE IF o.memory = entries THEN "ok" ELSE "error"
        /\ kevReturned' = kevReturned \union o.alerts
        /\ kevAgain' = kevAgain \union (kevReturned \intersect o.alerts)
        /\ kevSilenced' = IF known_cves = {} THEN kevSilenced \union entries ELSE kevSilenced
        /\ halted' = IF known_cves # {} /\ o.memory # entries
                     THEN halted \union o.alerts ELSE halted
        /\ UNCHANGED <<catalog, withdrawn>>

KevAnswer == kev_pc = "asking" /\ KevDigest(catalog) /\ UNCHANGED kevFaults

KevFault == kevFaults < MaxKevFaults /\ kevFaults' = kevFaults + 1

\* A 200 answer without "vulnerabilities" reads as an empty catalogue.
KevAnswerEmpty == kev_pc = "asking" /\ KevFault /\ KevDigest({})

\* A time-out, an HTTP status or an entry without cveID: caught and counted.
KevFail ==
    /\ kev_pc = "asking" /\ KevFault
    /\ kev_pc' = "idle" /\ kevStatus' = "error"
    /\ UNCHANGED <<catalog, known_cves, kevGhosts, withdrawn>>

KevRestart == KevFault /\ KevNewProcess /\ UNCHANGED catalog

KevNext ==
    \/ \E c \in KevCves : KevPublish(c) \/ KevWithdraw(c)
    \/ KevFire \/ KevAnswer \/ KevAnswerEmpty \/ KevFail \/ KevRestart

KevSpec == KevInit /\ [][KevNext]_kevVars

-----------------------------------------------------------------------------

\* A CVE the collector will not alert on any more was alerted on, or was
\* catalogued by a silent load: no run forgets an addition (lines 43-65).
KevAccounted == known_cves \subseteq kevReturned \union kevSilenced

\* Two runs of one process alert on the same CVE only if it left the catalogue
\* in between, or if it is one of those that a run which stopped half-way had
\* alerted on: the stop repeats no other CVE (lines 43-65, 70-73).
KevRepeatsExplained == kevAgain \subseteq withdrawn \union halted

\* A CVE that stays in the catalogue is known in the end, unless a malformed
\* entry stops every run (lines 43-65).
KevEventuallyKnown ==
    \A c \in KevCves :
        []<>(c \in known_cves \/ c \notin catalog \/ catalog \intersect Malformed # {})
=============================================================================
