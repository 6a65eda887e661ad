--------------------------- MODULE AlertDelivery ----------------------------
(***************************************************************************)
(* What one vuln-engine process promises about an advisory: it is decided  *)
(* once, when a collector first returns or catalogues it; it is notified   *)
(* only if it was queued then; what was put aside is never notified later, *)
(* and what was queued is never put aside.                                 *)
(***************************************************************************)
EXTENDS FiniteSets

CONSTANTS
    Advisories,
    Repeatable    \* advisories a source may legitimately bring up again

VARIABLE fate

Fates == {"unseen", "aside", "queued", "notified"}

DeliveryInit == fate \in [Advisories -> {"unseen", "aside"}]

\* An answer of a source is sorted into what is put aside and what is queued.
Decide ==
    /\ fate' \in [Advisories -> Fates]
    /\ \A a \in Advisories :
          \/ fate'[a] = fate[a]
          \/ /\ fate'[a] \in {"aside", "queued"}
             /\ fate[a] = "unseen" \/ (a \in Repeatable /\ fate[a] # "queued")

Notify(a) == fate[a] = "queued" /\ fate' = [fate EXCEPT ![a] = "notified"]

\* A restart forgets every decision.
Restarted == fate' \in [Advisories -> {"unseen", "aside"}]

DeliveryNext == Decide \/ (\E a \in Advisories : Notify(a)) \/ Restarted

DeliverySpec == DeliveryInit /\ [][DeliveryNext]_fate
=============================================================================
