------------------------------ MODULE NvdDelta ------------------------------
(***************************************************************************)
(* vuln-engine/collectors/nvd_delta.py: each run asks NVD for the CVEs     *)
(* modified in a window that starts where the last good run's ended.  Time *)
(* is a count of ticks; the request prints its bounds to the second, and   *)
(* CVEs go on being modified while the request is in flight.               *)
(***************************************************************************)
EXTENDS Collectors

CONSTANTS
    NvdCves,
    TicksPerSecond, \* resolution of NVD's lastModified under a second
    Lookback,    \* ticks of timedelta(hours=1), nvd_delta.py:16
    MaxClock,    \* bound on time, which starts at Lookback
    MaxNvdFaults \* bound on failed requests and restarts

ASSUME NvdAssumption ==
    /\ TicksPerSecond \in Nat \ {0} /\ Lookback \in Nat
    /\ MaxClock \in Nat /\ Lookback <= MaxClock /\ MaxNvdFaults \in Nat

VARIABLES
    clock,
    modified,    \* modified[c]: when NVD last modified CVE c, Never if not yet
    last_check,  \* self.last_check
    nvdStatus,   \* self.status.status, as GET /feeds/status shows it
    nvd_pc,      \* "idle", or "asking": in the await of client.get
    now,         \* the local `now` of the running collect(); 0 outside
    horizon,     \* start of the unbroken coverage that last_check ends
    reported,    \* <<CVE, modification>> pairs returned as alerts, ever
    nvdFaults

nvdVars == <<clock, modified, last_check, nvdStatus, nvd_pc, now, horizon, reported, nvdFaults>>

Never == -1
Clock == 0 .. MaxClock

\* strftime("%Y-%m-%dT%H:%M:%S.000") drops what is below the second.
Second(t) == t - (t % TicksPerSecond)

NvdTypeOK ==
    /\ clock \in Clock
    /\ modified \in [NvdCves -> Clock \union {Never}]
    /\ last_check \in Clock /\ now \in Clock /\ horizon \in Clock
    /\ nvd_pc \in {"idle", "asking"} /\ nvdStatus \in {"idle", "ok", "error"}
    /\ reported \subseteq NvdCves \X Clock
    /\ nvdFaults \in 0 .. MaxNvdFaults

NvdInit ==
    /\ clock = Lookback
    /\ modified \in [NvdCves -> 0 .. Lookback \union {Never}]
    /\ last_check = 0 /\ horizon = 0
    /\ nvdStatus = "idle" /\ nvd_pc = "idle" /\ now = 0 /\ reported = {} /\ nvdFaults = 0

-----------------------------------------------------------------------------

NvdTick ==
    /\ clock < MaxClock
    /\ clock' = clock + 1
    /\ UNCHANGED <<modified, last_check, nvdStatus, nvd_pc, now, horizon, reported, nvdFaults>>

NvdModify(c) ==
    /\ modified' = [modified EXCEPT ![c] = clock]
    /\ UNCHANGED <<clock, last_check, nvdStatus, nvd_pc, now, horizon, reported, nvdFaults>>

\* collect() up to its await: `now` is read before the request is sent.
NvdFire ==
    /\ nvd_pc = "idle"
    /\ nvd_pc' = "asking" /\ now' = clock
    /\ UNCHANGED <<clock, modified, last_check, nvdStatus, horizon, reported, nvdFaults>>

\* NVD's answer: critical CVEs last modified between the two printed bounds.
NvdWindow == {c \in NvdCves : Second(last_check) <= modified[c] /\ modified[c] <= Second(now)}

\* Slip: the next window starts at the time of the answer.
NvdAnswerLate ==
    /\ nvd_pc = "asking" /\ nvd_pc' = "idle" /\ now' = 0
    /\ \E alerts \in NvdAlerts(NvdWindow) :
          reported' = reported \union {<<c, modified[c]>> : c \in alerts}
    /\ last_check' = IF NvdWindowDone(NvdWindow) THEN clock ELSE last_check
    /\ nvdStatus' = IF NvdWindowDone(NvdWindow) THEN "ok" ELSE "error"
    /\ UNCHANGED <<clock, modified, horizon, nvdFaults>>

\* Slip: an item that does not convert ends the loop quietly.
NvdAnswerQuiet ==
    /\ nvd_pc = "asking" /\ nvd_pc' = "idle" /\ now' = 0
    /\ \E alerts \in NvdAlerts(NvdWindow) :
          reported' = reported \union {<<c, modified[c]>> : c \in alerts}
    /\ last_check' = IF NvdWindowDone(NvdWindow) THEN now ELSE last_check
    /\ nvdStatus' = "ok"
    /\ UNCHANGED <<clock, modified, horizon, nvdFaults>>

\* The answer is digested without an await; a malformed item keeps the
\* alerts made before it, leaves last_check where it was and shows as error.
NvdAnswer ==
    /\ nvd_pc = "asking" /\ nvd_pc' = "idle" /\ now' = 0
    /\ \E alerts \in NvdAlerts(NvdWindow) :
          reported' = reported \union {<<c, modified[c]>> : c \in alerts}
    /\ last_check' = IF NvdWindowDone(NvdWindow) THEN now ELSE last_check
    /\ nvdStatus' = IF NvdWindowDone(NvdWindow) THEN "ok" ELSE "error"
    /\ UNCHANGED <<clock, modified, horizon, nvdFaults>>

NvdFault == nvdFaults < MaxNvdFaults /\ nvdFaults' = nvdFaults + 1

\* Time-out or HTTP status: last_check stays, so the next window is longer.
NvdFail ==
    /\ nvd_pc = "asking" /\ NvdFault
    /\ nvd_pc' = "idle" /\ now' = 0 /\ nvdStatus' = "error"
    /\ UNCHANGED <<clock, modified, last_check, horizon, reported>>

\* Slip: a new process starts from the present.
NvdRestartNow ==
    /\ NvdFault
    /\ nvd_pc' = "idle" /\ now' = 0 /\ nvdStatus' = "idle"
    /\ last_check' = clock
    /\ horizon' = IF clock - Lookback <= last_check THEN horizon ELSE clock - Lookback
    /\ UNCHANGED <<clock, modified, reported>>

\* A new process starts one look-back before the present.  Coverage is broken
\* if the last good run is older than that.
NvdRestart ==
    /\ NvdFault
    /\ nvd_pc' = "idle" /\ now' = 0 /\ nvdStatus' = "idle"
    /\ last_check' = clock - Lookback
    /\ horizon' = IF clock - Lookback <= last_check THEN horizon ELSE clock - Lookback
    /\ UNCHANGED <<clock, modified, reported>>

NvdNext ==
    \/ NvdTick \/ \E c \in NvdCves : NvdModify(c)
    \/ NvdFire \/ NvdAnswer \/ NvdFail \/ NvdRestart

NvdSpec == NvdInit /\ [][NvdNext]_nvdVars

-----------------------------------------------------------------------------

\* No modification falls between two windows: the latest modification of a
\* CVE, if it is before the second in which last_check lies, was reported.
\* This spans failed runs, requests overtaken by modifications, the rounding
\* of both bounds, and restarts less than a look-back after the last good run
\* (lines 16, 22-26, 89, 94-97).
NvdNoGap ==
    \A c \in NvdCves :
        horizon <= modified[c] /\ modified[c] < Second(last_check)
            => <<c, modified[c]>> \in reported

\* A modification made while the process covers it is reported in the end
\* unless a later one replaces it, as long as no malformed CVE is modified:
\* one such CVE in the window holds every later run up (lines 47-89).
NvdHeldUp == \E b \in NvdCves \intersect Malformed : modified[b] # Never

NvdEventuallyReported ==
    \A c \in NvdCves :
        []<>(\/ modified[c] <= horizon \/ modified[c] > Second(MaxClock) \/ NvdHeldUp
             \/ <<c, modified[c]>> \in reported)
\* A malformed CVE that holds the runs up does not do so in silence: the feed's
\* status shows an error, until a restart or, after time is bounded here, a new
\* modification takes the CVE out of the windows (lines 47-51, 94-97).
NvdStuckShows ==
    \A b \in NvdCves \intersect Malformed :
        last_check <= modified[b] /\ modified[b] <= Second(MaxClock)
            ~> \/ nvdStatus = "error"
               \/ modified[b] < last_check \/ modified[b] > Second(MaxClock)
=============================================================================
