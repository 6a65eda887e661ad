------------------------------ MODULE Matching ------------------------------
(***************************************************************************)
(* vuln-engine/matching.py and the two look-ups of ocs_cache.py, as pure   *)
(* operators over an index packages -> hosts.  A name is a model value: a  *)
(* CPE carries its product and its "vendor-product" (one of fewer than     *)
(* five parts is no CPE of the model: it matches nothing), a title the     *)
(* words that are left once the stop words are out.                        *)
(***************************************************************************)
EXTENDS FiniteSets

CONSTANTS
    Source,   \* advisory -> the job whose collector emits it
    Cpes,     \* advisory -> its affected CPEs: [product, qualified]
    Hints     \* advisory -> the product hints of its title

Lookup(index, name) == IF name \in DOMAIN index THEN index[name] ELSE {}

FindHostsByPackage(index, name) == Lookup(index, name)

\* Slip: the vendor-product fallback is lost.
FindHostsByProduct(index, cpe) == FindHostsByPackage(index, cpe.product)

\* The product first and, when no host has it, vendor-product.
FindHostsByCpe(index, cpe) ==
    LET exact == FindHostsByPackage(index, cpe.product)
    IN  IF exact # {} THEN exact ELSE FindHostsByPackage(index, cpe.qualified)

HostsByCpe(index, a)  == UNION {FindHostsByCpe(index, c) : c \in Cpes[a]}
HostsByHint(index, a) == UNION {FindHostsByPackage(index, h) : h \in Hints[a]}

\* AlertSource.VENDOR, which the two "vendor_advisory" collectors set.
IsVendor(a) == Source[a] \in {"vendor_rss", "intersystems"}

\* The names an alert is looked up under, from the docstrings of match() and
\* find_hosts_by_cpe(): both names of its CPEs, and the title words of a
\* vendor advisory.
Concerned(a) ==
    {c.product : c \in Cpes[a]} \union {c.qualified : c \in Cpes[a]}
        \union (IF IsVendor(a) THEN Hints[a] ELSE {})

\* alert.matched_hosts: by CPE, else, for a vendor advisory, by title.
AllHosts(index, a) ==
    IF HostsByCpe(index, a) # {} \/ ~IsVendor(a)
    THEN HostsByCpe(index, a)
    ELSE HostsByHint(index, a)

\* match(): only the alerts with a host are kept.
Match(index, alerts) == {a \in alerts : AllHosts(index, a) # {}}
=============================================================================
