---------------------------- MODULE MCVulnEngine ----------------------------
(* VulnEngine on one machine and one package.  n1 is an NVD CVE with a CPE,  *)
(* r1 and r2 RSS entries found by their title, k1 a KEV entry, i1 and i2     *)
(* InterSystems advisories; other is the name of a package no machine has.   *)
EXTENDS VulnEngine, TLC

CONSTANTS n1, r1, r2, k1, i1, i2, openssl, other

MCSource ==
    [a \in Advisories |-> CASE a = n1 -> "nvd_delta"
                            [] a = k1 -> "cisa_kev"
                            [] a \in {r1, r2} -> "vendor_rss"
                            [] a \in {i1, i2} -> "intersystems"]

MCCpes ==
    [a \in Advisories |-> IF a = n1 THEN {[product |-> other, qualified |-> openssl]} ELSE {}]

MCHints == [a \in Advisories |-> IF a \in {n1, i2} THEN {} ELSE {openssl}]
=============================================================================
