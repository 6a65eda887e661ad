--------------------------- MODULE MatchingProofs ---------------------------
(***************************************************************************)
(* What match() answers, for every index, every set of CPEs and every      *)
(* title.                                                                  *)
(***************************************************************************)
EXTENDS Matching, TLAPS

\* A host of an alert was found under one of the names the alert concerns.
LEMMA HostsConcern ==
    ASSUME NEW index, NEW a, NEW h \in AllHosts(index, a)
    PROVE  \E p \in Concerned(a) : p \in DOMAIN index /\ h \in index[p]
<1>1. \A name : h \in FindHostsByPackage(index, name) =>
                    name \in DOMAIN index /\ h \in index[name]
  BY DEF FindHostsByPackage, Lookup
<1>2. ASSUME h \in HostsByCpe(index, a)
      PROVE  \E p \in Concerned(a) : p \in DOMAIN index /\ h \in index[p]
  <2>1. PICK c \in Cpes[a] : h \in FindHostsByCpe(index, c)
    BY <1>2 DEF HostsByCpe
  <2>2. \/ h \in FindHostsByPackage(index, c.product)
        \/ h \in FindHostsByPackage(index, c.qualified)
    BY <2>1 DEF FindHostsByCpe
  <2> QED
    BY <1>1, <2>2 DEF Concerned
<1>3. ASSUME IsVendor(a), h \in HostsByHint(index, a)
      PROVE  \E p \in Concerned(a) : p \in DOMAIN index /\ h \in index[p]
  <2>1. PICK p \in Hints[a] : h \in FindHostsByPackage(index, p)
    BY <1>3 DEF HostsByHint
  <2> QED
    BY <1>1, <1>3, <2>1 DEF Concerned
<1> QED
  BY <1>2, <1>3 DEF AllHosts

\* A host found under any of these names makes the alert a match: the fallbacks
\* look the other names up only when the first ones found nothing at all.
LEMMA ConcernMatches ==
    ASSUME NEW index, NEW a, NEW p \in Concerned(a), p \in DOMAIN index, index[p] # {}
    PROVE  AllHosts(index, a) # {}
<1>1. FindHostsByPackage(index, p) # {}
  BY DEF FindHostsByPackage, Lookup
<1>2. ASSUME NEW c \in Cpes[a], p \in {c.product, c.qualified}
      PROVE  HostsByCpe(index, a) # {}
  <2>1. FindHostsByCpe(index, c) # {}
    BY <1>1, <1>2 DEF FindHostsByCpe
  <2> QED
    BY <2>1 DEF HostsByCpe
<1>3. ASSUME IsVendor(a), p \in Hints[a] PROVE HostsByHint(index, a) # {}
  BY <1>1, <1>3 DEF HostsByHint
<1> QED
  BY <1>2, <1>3 DEF Concerned, AllHosts

\* A host with the product of a CPE is found; so is one with the other name, or
\* with a title word of a vendor advisory, when what comes before finds nobody.
LEMMA HostsFound ==
    ASSUME NEW index, NEW a, NEW p, p \in DOMAIN index, NEW h \in index[p],
           h \notin AllHosts(index, a)
    PROVE  /\ \A c \in Cpes[a] : p # c.product
           /\ \A c \in Cpes[a] : p = c.qualified => FindHostsByPackage(index, c.product) # {}
           /\ IsVendor(a) /\ p \in Hints[a] => HostsByCpe(index, a) # {}
<1>1. h \in FindHostsByPackage(index, p)
  BY DEF FindHostsByPackage, Lookup
<1>2. h \notin HostsByCpe(index, a)
  BY DEF AllHosts
<1>3. ASSUME NEW c \in Cpes[a] PROVE h \notin FindHostsByCpe(index, c)
  BY <1>2, <1>3 DEF HostsByCpe
<1>4. \A c \in Cpes[a] : p # c.product
  BY <1>1, <1>3 DEF FindHostsByCpe
<1>5. \A c \in Cpes[a] : p = c.qualified => FindHostsByPackage(index, c.product) # {}
  BY <1>1, <1>3 DEF FindHostsByCpe
<1>6. IsVendor(a) /\ p \in Hints[a] => HostsByCpe(index, a) # {}
  BY <1>1 DEF AllHosts, HostsByHint
<1> QED
  BY <1>4, <1>5, <1>6
=============================================================================
