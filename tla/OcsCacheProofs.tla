--------------------------- MODULE OcsCacheProofs ---------------------------
(***************************************************************************)
(* Safety of OCSCache.refresh for any fleet, any package set and any       *)
(* interleaving of the startup and the interval refresh: what the routes   *)
(* and the matching engine read is always one complete, consistent and     *)
(* truthful snapshot, and catches up with OCS when OCS stops changing.     *)
(***************************************************************************)
EXTENDS OcsCache, InventoryCacheProofs

\* What the assets of A say was in OCS's tables at some epoch of lo .. hi.
Truth(A, lo, hi) ==
    \A a \in A : a.packages # {} =>
        \E e \in lo .. hi : a.id \in DOMAIN ocs[e] /\ a.packages = ocs[e][a.id]

Named(A) == \A a \in A : a.hostname \in {a.id, Unknown}

Covers(A, rest, e) == rest \union {a.id : a \in A} = DOMAIN ocs[e]

\* The locals r of a refresh describe what it has read so far.
JobOK(r) ==
    /\ r.new_index = IndexOf(r.new_assets)
    /\ r.pc # "fetching" => r.new_assets = {}
    /\ r.started <= epoch
    /\ r.pc = "fetching" =>
          /\ r.listed \in r.started .. epoch
          /\ Covers(r.new_assets, r.ids, r.listed)
    /\ Truth(r.new_assets, r.started, epoch)
    /\ Named(r.new_assets)

\* The published cache describes one refresh from its start to its end.
CacheOK ==
    /\ IndexMatchesAssets
    /\ Named(assets)
    /\ last_refresh = None => assets = {} /\ since = None
    /\ last_refresh # None =>
          /\ since \in 0 .. last_refresh
          /\ last_refresh \in 0 .. epoch
          /\ Truth(assets, since, last_refresh)
          /\ \E e \in since .. last_refresh : Covers(assets, {}, e)

IInv == TypeOK /\ CacheOK /\ \A j \in Jobs : JobOK(refresh[j])

-----------------------------------------------------------------------------

\* No assets, no index: a refresh before its first detail answer.
LEMMA IndexOfNone == IndexOf({}) = EmptyIndex
BY DEF IndexOf, EmptyIndex

\* The locals between two runs of a job.
LEMMA FreshOK ==
    ASSUME TypeOK, NEW e \in 0 .. epoch,
           NEW pc \in {"waiting", "listing", "ended"}
    PROVE  Fresh(pc, e) \in Refreshes /\ JobOK(Fresh(pc, e))
<1>1. e \in Epochs /\ epoch \in Nat
  BY InventoryAssumption DEF TypeOK, InventoryTypeOK, Epochs
<1>2. Fresh(pc, e) \in Refreshes
  BY <1>1 DEF Fresh, Refreshes, EmptyIndex
<1>3. JobOK(Fresh(pc, e))
  BY <1>1, IndexOfNone DEF JobOK, Fresh, Truth, Named
<1> QED BY <1>2, <1>3

\* Publishing, or going on with, the locals of a refresh that are in order.
LEMMA ContinueOK ==
    ASSUME IInv, NEW j \in Jobs, NEW r \in Refreshes, r.pc = "fetching", JobOK(r),
           Continue(j, r), UNCHANGED <<ocs, epoch, faults>>
    PROVE  IInv'
<1>1. /\ epoch \in Epochs /\ epoch \in Nat /\ None = -1
      /\ r.started \in Nat /\ r.new_assets \in SUBSET Assets
      /\ r.new_index \in [Packages -> SUBSET Hosts] /\ r.started \in Epochs
  BY InventoryAssumption
  DEF IInv, TypeOK, InventoryTypeOK, Refreshes, Epochs, None
<1>2. /\ Rest(j) \in Refreshes
      /\ JobOK(Rest(j))
  BY FreshOK, <1>1 DEF Rest, IInv
<1>3. CASE r.ids # {}
  <2>1. refresh' = [refresh EXCEPT ![j] = r] /\ UNCHANGED cacheVars
    BY <1>3 DEF Continue
  <2>2. TypeOK'
    BY <2>1 DEF IInv, TypeOK, InventoryTypeOK, cacheVars
  <2>3. CacheOK'
    BY <2>1 DEF IInv, CacheOK, IndexMatchesAssets, Named, Truth, Covers, cacheVars, IndexOf
  <2>4. \A k \in Jobs : JobOK(refresh[k])'
    <3> SUFFICES ASSUME NEW k \in Jobs PROVE JobOK(refresh[k])'
      OBVIOUS
    <3>1. refresh'[k] = IF k = j THEN r ELSE refresh[k]
      BY <2>1 DEF IInv, TypeOK
    <3>2. JobOK(refresh'[k])
      BY <3>1 DEF IInv
    <3> QED BY <3>2 DEF JobOK, Truth, Named, Covers, IndexOf
  <2> QED BY <2>2, <2>3, <2>4 DEF IInv
<1>4. CASE r.ids = {}
  <2>1. /\ refresh' = [refresh EXCEPT ![j] = Rest(j)]
        /\ assets' = r.new_assets /\ packages_index' = r.new_index
        /\ last_refresh' = epoch /\ since' = r.started
    BY <1>4 DEF Continue
  <2>2. TypeOK'
    BY <2>1, <1>1, <1>2 DEF IInv, TypeOK, InventoryTypeOK
  <2>3. CacheOK'
    <3>1. IndexMatchesAssets'
      BY <2>1 DEF IndexMatchesAssets, JobOK, IndexOf
    <3>2. Named(assets)'
      BY <2>1 DEF JobOK, Named
    <3>3. last_refresh' # None
      BY <2>1, <1>1
    <3>4. since' \in 0 .. last_refresh' /\ last_refresh' \in 0 .. epoch'
      BY <2>1, <1>1 DEF JobOK
    <3>5. Truth(assets, since, last_refresh)'
      BY <2>1 DEF JobOK, Truth
    <3>6. \E e \in since' .. last_refresh' : Covers(assets', {}, e)
      BY <2>1, <1>4 DEF JobOK
    <3>7. (\E e \in since .. last_refresh : Covers(assets, {}, e))'
      BY <3>6 DEF Covers
    <3> QED BY <3>1, <3>2, <3>3, <3>4, <3>5, <3>7 DEF CacheOK
  <2>4. \A k \in Jobs : JobOK(refresh[k])'
    <3> SUFFICES ASSUME NEW k \in Jobs PROVE JobOK(refresh[k])'
      OBVIOUS
    <3>1. refresh'[k] = IF k = j THEN Rest(j) ELSE refresh[k]
      BY <2>1 DEF IInv, TypeOK
    <3>2. JobOK(refresh'[k])
      BY <3>1, <1>2 DEF IInv
    <3> QED BY <3>2 DEF JobOK, Truth, Named, Covers, IndexOf
  <2> QED BY <2>2, <2>3, <2>4 DEF IInv
<1> QED BY <1>3, <1>4

\* Recording one machine's answer keeps the locals in order: the index gets
\* the very host name the asset gets, under the very packages.
LEMMA RecordedOK ==
    ASSUME TypeOK, NEW r \in Refreshes, JobOK(r), r.pc = "fetching",
           NEW m \in r.ids, NEW host \in {m, Unknown}, NEW pkgs \in SUBSET Packages,
           pkgs # {} => m \in DOMAIN ocs[epoch] /\ pkgs = ocs[epoch][m]
    PROVE  /\ Recorded(r, m, host, pkgs) \in Refreshes
           /\ Recorded(r, m, host, pkgs).pc = "fetching"
           /\ JobOK(Recorded(r, m, host, pkgs))
<1> DEFINE a == [id |-> m, hostname |-> host, packages |-> pkgs]
           s == Recorded(r, m, host, pkgs)
<1>1. a \in Assets
  BY DEF Assets, Hosts, Refreshes
<1>2. /\ s.ids = r.ids \ {m} /\ s.new_assets = r.new_assets \union {a}
      /\ s.new_index = [p \in Packages |->
                          IF p \in pkgs THEN r.new_index[p] \union {host} ELSE r.new_index[p]]
      /\ s.pc = r.pc /\ s.started = r.started /\ s.listed = r.listed
  BY DEF Recorded, Refreshes
<1>3. host \in Hosts
  BY DEF Hosts, Refreshes
<1>4. s \in Refreshes
  BY <1>1, <1>3 DEF Recorded, Refreshes
<1>5. s.new_index = IndexOf(s.new_assets)
  <2>1. \A p \in Packages : s.new_index[p] = {x.hostname : x \in {y \in s.new_assets : p \in y.packages}}
    <3> SUFFICES ASSUME NEW p \in Packages
                 PROVE  s.new_index[p] = {x.hostname : x \in {y \in s.new_assets : p \in y.packages}}
      OBVIOUS
    <3>1. r.new_index[p] = {x.hostname : x \in {y \in r.new_assets : p \in y.packages}}
      BY DEF JobOK, IndexOf
    <3>2. CASE p \in pkgs
      <4>1. {y \in s.new_assets : p \in y.packages}
               = {y \in r.new_assets : p \in y.packages} \union {a}
        BY <1>2, <3>2
      <4>2. {x.hostname : x \in {y \in r.new_assets : p \in y.packages} \union {a}}
               = {x.hostname : x \in {y \in r.new_assets : p \in y.packages}} \union {host}
        <5>1. a.hostname = host
          OBVIOUS
        <5> HIDE DEF a
        <5> QED BY <5>1
      <4>3. s.new_index[p] = r.new_index[p] \union {host}
        BY <1>2, <3>2
      <4> QED BY <3>1, <4>1, <4>2, <4>3
    <3>3. CASE p \notin pkgs
      BY <3>1, <3>3, <1>2
    <3> QED BY <3>2, <3>3
  <2> QED BY <2>1, <1>2 DEF IndexOf
<1>6. s.pc = "fetching" /\ s.started <= epoch /\ s.listed \in s.started .. epoch
  BY <1>2 DEF JobOK
<1>7. Covers(s.new_assets, s.ids, s.listed)
  <2>1. a.id = m
    OBVIOUS
  <2>2. {x.id : x \in r.new_assets \union {a}} = {x.id : x \in r.new_assets} \union {m}
    <3> HIDE DEF a
    <3> QED BY <2>1
  <2>3. (r.ids \ {m}) \union ({x.id : x \in r.new_assets} \union {m}) = DOMAIN ocs[r.listed]
    BY DEF JobOK, Covers
  <2> QED BY <1>2, <2>2, <2>3 DEF Covers
<1>8. Truth(s.new_assets, s.started, epoch)
  <2>1. epoch \in r.started .. epoch
    BY InventoryAssumption DEF TypeOK, InventoryTypeOK, Refreshes, Epochs, JobOK
  <2> QED BY <1>2, <2>1 DEF JobOK, Truth
<1>9. Named(s.new_assets)
  BY <1>2 DEF JobOK, Named
<1>10. JobOK(s)
  <2> HIDE DEF s
  <2> QED BY <1>5, <1>6, <1>7, <1>8, <1>9 DEF JobOK
<1> QED BY <1>4, <1>6, <1>10

-----------------------------------------------------------------------------

\* The cache is empty and both jobs wait for their trigger.
LEMMA InitOK == Init => IInv
<1> SUFFICES ASSUME Init PROVE IInv
  OBVIOUS
<1>1. PICK i \in Inventories : ocs = [e \in Epochs |-> i]
  BY DEF Init, InventoryInit
<1>2. /\ epoch = 0 /\ packages_index = EmptyIndex /\ last_refresh = None
      /\ since = None /\ assets = {} /\ faults = 0
      /\ refresh = [j \in Jobs |-> Fresh("waiting", 0)]
  BY DEF Init, InventoryInit
<1>3. 0 \in Epochs /\ 0 \in 0 .. epoch /\ 0 \in 0 .. MaxFaults
  BY <1>2, InventoryAssumption, OcsCacheAssumption DEF Epochs
<1>4. Fresh("waiting", 0) \in Refreshes
  BY <1>3 DEF Fresh, Refreshes, EmptyIndex
<1>5. TypeOK
  BY <1>1, <1>2, <1>3, <1>4 DEF TypeOK, InventoryTypeOK, EmptyIndex
<1>6. JobOK(Fresh("waiting", 0))
  BY FreshOK, <1>3, <1>5
<1>7. CacheOK
  BY <1>2, IndexOfNone DEF CacheOK, IndexMatchesAssets, Named
<1> QED BY <1>2, <1>5, <1>6, <1>7 DEF IInv

\* The inventory moves under running refreshes: what they read stays true of
\* the epoch at which they read it.
LEMMA ChangeOK == IInv /\ Change => IInv'
<1> SUFFICES ASSUME IInv, Change PROVE IInv'
  OBVIOUS
<1>1. /\ ChangeInventory
      /\ UNCHANGED <<assets, packages_index, last_refresh, since, refresh, faults>>
  BY DEF Change, cacheVars
<1>2. /\ epoch' = epoch + 1 /\ epoch' \in Epochs
      /\ ocs' \in [Epochs -> Inventories]
      /\ \A e \in 0 .. epoch : ocs'[e] = ocs[e]
  BY <1>1, ChangeKeepsPast DEF IInv, TypeOK
<1>3. epoch \in Nat
  BY InventoryAssumption DEF IInv, TypeOK, InventoryTypeOK, Epochs
<1>4. TypeOK'
  BY <1>1, <1>2 DEF IInv, TypeOK, InventoryTypeOK
<1>5. CacheOK'
  <2>1. CASE last_refresh = None
    BY <2>1, <1>1 DEF IInv, CacheOK, IndexMatchesAssets, IndexOf, Named
  <2>2. CASE last_refresh # None
    <3>1. since \in 0 .. last_refresh /\ last_refresh \in 0 .. epoch
      BY <2>2 DEF IInv, CacheOK
    <3>2. since .. last_refresh \subseteq 0 .. epoch
      BY <3>1, <1>3
    <3>3. Truth(assets, since, last_refresh)'
      BY <2>2, <1>1, <1>2, <3>2 DEF IInv, CacheOK, Truth
    <3>4. (\E e \in since .. last_refresh : Covers(assets, {}, e))'
      BY <2>2, <1>1, <1>2, <3>2 DEF IInv, CacheOK, Covers
    <3>5. IndexMatchesAssets' /\ Named(assets)'
      BY <1>1 DEF IInv, CacheOK, IndexMatchesAssets, IndexOf, Named
    <3>6. last_refresh' \in 0 .. epoch'
      BY <1>1, <1>2, <1>3, <3>1
    <3> QED BY <2>2, <1>1, <3>1, <3>3, <3>4, <3>5, <3>6 DEF CacheOK
  <2> QED BY <2>1, <2>2
<1>6. \A j \in Jobs : JobOK(refresh[j])'
  <2> SUFFICES ASSUME NEW j \in Jobs PROVE JobOK(refresh[j])'
    OBVIOUS
  <2>1. PICK r \in Refreshes : r = refresh[j]
    BY DEF IInv, TypeOK
  <2>2. JobOK(r)
    BY <2>1 DEF IInv
  <2>3. r.started \in Nat /\ r.listed \in Nat
    BY DEF Refreshes, Epochs
  <2>4. /\ r.started .. epoch \subseteq 0 .. epoch
        /\ r.started .. epoch \subseteq r.started .. epoch'
    BY <2>3, <1>3, <1>2
  <2>5. r.started <= epoch'
    BY <2>2, <2>3, <1>2, <1>3 DEF JobOK
  <2>6. r.pc = "fetching" =>
           r.listed \in r.started .. epoch' /\ Covers(r.new_assets, r.ids, r.listed)'
    BY <2>2, <2>4, <1>2 DEF JobOK, Covers
  <2>7. Truth(r.new_assets, r.started, epoch)'
    BY <2>2, <2>4, <1>2 DEF JobOK, Truth
  <2>8. refresh'[j] = r
    BY <1>1, <2>1
  <2> QED BY <2>2, <2>5, <2>6, <2>7, <2>8 DEF JobOK, IndexOf, Named
<1> QED BY <1>4, <1>5, <1>6 DEF IInv

\* A job's locals are replaced and the published cache is untouched.
LEMMA LocalsOK ==
    ASSUME IInv, NEW j \in Jobs, NEW r \in Refreshes, JobOK(r),
           refresh' = [refresh EXCEPT ![j] = r],
           UNCHANGED <<ocs, epoch, cacheVars>>, faults' \in 0 .. MaxFaults
    PROVE  IInv'
<1>1. UNCHANGED <<assets, packages_index, last_refresh, since>>
  BY DEF cacheVars
<1>2. TypeOK'
  BY <1>1 DEF IInv, TypeOK, InventoryTypeOK
<1>3. CacheOK'
  BY <1>1 DEF IInv, CacheOK, IndexMatchesAssets, Named, Truth, Covers, IndexOf
<1>4. ASSUME NEW k \in Jobs PROVE JobOK(refresh[k])'
  <2>1. refresh'[k] = IF k = j THEN r ELSE refresh[k]
    BY DEF IInv, TypeOK
  <2>2. JobOK(refresh'[k])
    BY <2>1 DEF IInv
  <2> QED BY <2>2 DEF JobOK, Truth, Named, Covers, IndexOf
<1> QED BY <1>2, <1>3, <1>4 DEF IInv

\* Every step of every job, a restart and a change of the inventory keep IInv.
LEMMA StepOK == IInv /\ [Next]_vars => IInv'
<1> SUFFICES ASSUME IInv, [Next]_vars PROVE IInv'
  OBVIOUS
<1>1. /\ epoch \in Nat /\ 0 \in 0 .. epoch /\ epoch \in 0 .. epoch
      /\ faults \in 0 .. MaxFaults /\ MaxFaults \in Nat
  BY InventoryAssumption, OcsCacheAssumption DEF IInv, TypeOK, InventoryTypeOK, Epochs
<1>2. ASSUME NEW j \in Jobs PROVE Rest(j) \in Refreshes /\ JobOK(Rest(j))
  BY FreshOK, <1>1 DEF Rest, IInv
<1>3. ASSUME NEW j \in Jobs, Start(j) PROVE IInv'
  <2>1. Fresh("listing", epoch) \in Refreshes /\ JobOK(Fresh("listing", epoch))
    BY FreshOK, <1>1 DEF IInv
  <2>2. PICK r \in Refreshes : r = Fresh("listing", epoch) /\ JobOK(r)
    BY <2>1
  <2> QED BY <1>1, <1>3, <2>2, LocalsOK DEF Start
<1>4. ASSUME NEW j \in Jobs, ListMachines(j) PROVE IInv'
  <2>1. PICK q \in Refreshes : q = refresh[j] /\ JobOK(q)
    BY DEF IInv, TypeOK
  <2>2. /\ q.pc = "listing" /\ UNCHANGED <<ocs, epoch, faults>>
        /\ Continue(j, [q EXCEPT !.pc = "fetching", !.listed = epoch,
                                 !.ids = DOMAIN ocs[epoch]])
    BY <1>4, <2>1 DEF ListMachines
  <2>3. PICK r : r = [q EXCEPT !.pc = "fetching", !.listed = epoch,
                               !.ids = DOMAIN ocs[epoch]]
    OBVIOUS
  <2>4. DOMAIN ocs[epoch] \in SUBSET Machines /\ epoch \in Epochs
    BY DEF IInv, TypeOK, InventoryTypeOK, Inventories
  <2>5. r \in Refreshes
    BY <2>3, <2>4 DEF Refreshes
  <2>6. /\ r.pc = "fetching" /\ r.listed = epoch /\ r.ids = DOMAIN ocs[epoch]
        /\ r.new_assets = q.new_assets /\ r.new_index = q.new_index /\ r.started = q.started
    BY <2>3 DEF Refreshes
  <2>7. q.new_assets = {} /\ q.started \in Nat
    BY <2>1, <2>2 DEF JobOK, Refreshes, Epochs
  <2>8. Covers(r.new_assets, r.ids, r.listed)
    BY <2>6, <2>7 DEF Covers
  <2>9. r.listed \in r.started .. epoch
    BY <2>1, <2>6, <2>7, <1>1 DEF JobOK
  <2>10. JobOK(r)
    BY <2>1, <2>6, <2>8, <2>9 DEF JobOK
  <2> QED BY <2>2, <2>3, <2>5, <2>6, <2>10, ContinueOK
<1>5. ASSUME NEW j \in Jobs, NEW m \in refresh[j].ids, NEW host \in {m, Unknown},
             FetchDetail(j, m, host)
      PROVE  IInv'
  <2>1. PICK q \in Refreshes : q = refresh[j] /\ JobOK(q)
    BY DEF IInv, TypeOK
  <2>2. PICK pkgs : pkgs = ocs[epoch][m]
    OBVIOUS
  <2>3. PICK r : r = Recorded(q, m, host, pkgs)
    OBVIOUS
  <2>4. /\ q.pc = "fetching" /\ m \in q.ids /\ m \in DOMAIN ocs[epoch]
        /\ Continue(j, r) /\ UNCHANGED <<ocs, epoch, faults>>
    BY <1>5, <2>1, <2>2, <2>3 DEF FetchDetail
  <2>5. pkgs \in SUBSET Packages
    BY <2>2, <2>4 DEF IInv, TypeOK, InventoryTypeOK, Inventories
  <2>6. r \in Refreshes /\ r.pc = "fetching" /\ JobOK(r)
    BY <2>1, <2>2, <2>3, <2>4, <2>5, RecordedOK DEF IInv
  <2> QED BY <2>4, <2>6, ContinueOK
<1>6. ASSUME NEW j \in Jobs, NEW m \in refresh[j].ids, FetchNothing(j, m)
      PROVE  IInv'
  <2>1. PICK q \in Refreshes : q = refresh[j] /\ JobOK(q)
    BY DEF IInv, TypeOK
  <2>2. PICK r : r = Recorded(q, m, Unknown, {})
    OBVIOUS
  <2>3. /\ q.pc = "fetching" /\ m \in q.ids
        /\ Continue(j, r) /\ UNCHANGED <<ocs, epoch, faults>>
    BY <1>6, <2>1, <2>2 DEF FetchNothing
  <2>4. r \in Refreshes /\ r.pc = "fetching" /\ JobOK(r)
    BY <2>1, <2>2, <2>3, RecordedOK DEF IInv
  <2> QED BY <2>3, <2>4, ContinueOK
<1>7. ASSUME NEW j \in Jobs, Fail(j) PROVE IInv'
  <2>1. PICK r \in Refreshes : r = Rest(j) /\ JobOK(r)
    BY <1>2
  <2>2. faults' \in 0 .. MaxFaults
    BY <1>1, <1>7 DEF Fail
  <2> QED BY <1>7, <2>1, <2>2, LocalsOK DEF Fail
<1>8. CASE Restart
  <2>1. /\ packages_index' = EmptyIndex /\ last_refresh' = None /\ since' = None
        /\ assets' = {} /\ refresh' = [j \in Jobs |-> Fresh("waiting", 0)]
        /\ UNCHANGED <<ocs, epoch>> /\ faults' \in 0 .. MaxFaults
    BY <1>8, <1>1 DEF Restart, Forget
  <2>2. PICK r \in Refreshes : r = Fresh("waiting", 0) /\ JobOK(r)
    BY FreshOK, <1>1 DEF IInv
  <2>3. TypeOK'
    BY <2>1, <2>2 DEF IInv, TypeOK, InventoryTypeOK, EmptyIndex
  <2>4. IndexMatchesAssets'
    BY <2>1, IndexOfNone DEF IndexMatchesAssets, IndexOf
  <2>5. CacheOK'
    BY <2>1, <2>4 DEF CacheOK, Named
  <2>6. \A j \in Jobs : JobOK(refresh[j])'
    BY <2>1, <2>2 DEF JobOK, Truth, Named, Covers, IndexOf
  <2> QED BY <2>3, <2>5, <2>6 DEF IInv
<1>9. CASE Change
  BY <1>9, ChangeOK
<1>10. CASE UNCHANGED vars
  <2>1. /\ UNCHANGED <<ocs, epoch, faults, refresh>>
        /\ UNCHANGED <<assets, packages_index, last_refresh, since>>
    BY <1>10 DEF vars, cacheVars
  <2>2. TypeOK'
    BY <2>1 DEF IInv, TypeOK, InventoryTypeOK
  <2>3. CacheOK'
    BY <2>1 DEF IInv, CacheOK, IndexMatchesAssets, Named, Truth, Covers, IndexOf
  <2>4. \A j \in Jobs : JobOK(refresh[j])'
    BY <2>1 DEF IInv, JobOK, Truth, Named, Covers, IndexOf
  <2> QED BY <2>2, <2>3, <2>4 DEF IInv
<1> QED
  BY <1>3, <1>4, <1>5, <1>6, <1>7, <1>8, <1>9, <1>10 DEF Next, Answer

\* The inductive invariant holds in every reachable state.
THEOREM Inductive == Spec => []IInv
BY InitOK, StepOK, PTL DEF Spec

\* The invariant implies that the index holds true facts of the refresh's
\* own time span only.
LEMMA IndexTruthfulOK == IInv => IndexTruthful
<1> SUFFICES ASSUME IInv, NEW p \in Packages, NEW m \in packages_index[p] \ {Unknown}
             PROVE  \E e \in since .. last_refresh :
                       e \in Epochs /\ m \in DOMAIN ocs[e] /\ p \in ocs[e][m]
  BY DEF IndexTruthful
<1>1. PICK a \in assets : a.hostname = m /\ p \in a.packages
  BY DEF IInv, CacheOK, IndexMatchesAssets, IndexOf
<1>2. a.id = m
  BY <1>1 DEF IInv, CacheOK, Named
<1>3. last_refresh # None
  BY <1>1 DEF IInv, CacheOK
<1>4. PICK e \in since .. last_refresh : m \in DOMAIN ocs[e] /\ a.packages = ocs[e][m]
  BY <1>1, <1>2, <1>3 DEF IInv, CacheOK, Truth
<1>5. e \in Epochs
  BY <1>3, <1>4, InventoryAssumption
  DEF IInv, TypeOK, InventoryTypeOK, CacheOK, Epochs, None
<1> QED BY <1>1, <1>4, <1>5

\* The types of every variable (ocs_cache.py:15-18 and refresh's locals).
THEOREM TypeCorrect == Spec => []TypeOK
BY Inductive, PTL DEF IInv

\* However refreshes overlap, /inventory/summary, /inventory/search and the
\* matching engine read the index and the assets of one and the same refresh.
THEOREM CacheConsistent == Spec => []IndexMatchesAssets
BY Inductive, PTL DEF IInv, CacheOK

\* A refresh that stopped half-way is never what they read.
THEOREM CacheComplete == Spec => []CompleteSnapshot
<1>1. IInv => CompleteSnapshot
  BY DEF IInv, CacheOK, CompleteSnapshot, Covers
<1> QED BY <1>1, Inductive, PTL

\* No host is matched on software OCS did not show during that refresh.
THEOREM CacheTruthful == Spec => []IndexTruthful
BY IndexTruthfulOK, Inductive, PTL
-----------------------------------------------------------------------------
(* The refinement of InventoryCache, and the order of the refreshes *)

\* Each machine is answered for once in a refresh.
Once(r) ==
    \A a \in r.new_assets :
        /\ a.id \notin r.ids
        /\ \A b \in r.new_assets : a.id = b.id => a = b

InFlight(j) == refresh[j].pc \in {"listing", "fetching"}

\* An interval refresh in flight started after whatever is published, and after
\* the startup refresh if that is still in flight.
IntervalLast ==
    InFlight(Interval) =>
        /\ refresh[Startup].pc # "waiting"
        /\ since <= refresh[Interval].started
        /\ InFlight(Startup) => refresh[Startup].started <= refresh[Interval].started

OrderInv == IntervalLast /\ \A j \in Jobs : Once(refresh[j])

\* A step of the running refresh j: to its next await with locals r, or to the
\* publication of r, after which j rests.
Resumed(j, r) ==
    /\ InFlight(j) /\ r.pc = "fetching" /\ r.started = refresh[j].started
    /\ Continue(j, r) /\ UNCHANGED <<ocs, epoch, faults>>

\* Recording the answer for a machine that was still to be asked for.
LEMMA RecordedOnce ==
    ASSUME NEW r \in Refreshes, Once(r), NEW m \in r.ids, NEW host, NEW pkgs
    PROVE  /\ Once(Recorded(r, m, host, pkgs))
           /\ Recorded(r, m, host, pkgs).started = r.started
<1> DEFINE a == [id |-> m, hostname |-> host, packages |-> pkgs]
           s == Recorded(r, m, host, pkgs)
<1>1. /\ s.ids = r.ids \ {m} /\ s.new_assets = r.new_assets \union {a}
      /\ s.started = r.started
  BY DEF Recorded, Refreshes
<1>2. a.id = m
  OBVIOUS
<1> HIDE DEF a, s
<1>3. ASSUME NEW b \in s.new_assets
      PROVE  b.id \notin s.ids /\ \A c \in s.new_assets : b.id = c.id => b = c
  BY <1>1, <1>2, <1>3 DEF Once
<1>4. Once(s)
  BY <1>3 DEF Once
<1> QED
  BY <1>1, <1>4 DEF s

\* Every answer resumes its refresh with locals that are in order.
LEMMA AnswerResumes ==
    ASSUME IInv, \A j \in Jobs : Once(refresh[j]), NEW j \in Jobs, Answer(j)
    PROVE  \E r \in Refreshes : JobOK(r) /\ Once(r) /\ Resumed(j, r)
<1>1. PICK q \in Refreshes : q = refresh[j] /\ JobOK(q) /\ Once(q)
  BY DEF IInv, TypeOK
<1>2. CASE ListMachines(j)
  <2>1. /\ q.pc = "listing" /\ UNCHANGED <<ocs, epoch, faults>>
        /\ Continue(j, [q EXCEPT !.pc = "fetching", !.listed = epoch,
                                 !.ids = DOMAIN ocs[epoch]])
    BY <1>1, <1>2 DEF ListMachines
  <2>2. PICK r : r = [q EXCEPT !.pc = "fetching", !.listed = epoch,
                               !.ids = DOMAIN ocs[epoch]]
    OBVIOUS
  <2>3. DOMAIN ocs[epoch] \in SUBSET Machines /\ epoch \in Epochs /\ epoch \in Nat
    BY InventoryAssumption DEF IInv, TypeOK, InventoryTypeOK, Inventories, Epochs
  <2>4. r \in Refreshes
    BY <2>2, <2>3 DEF Refreshes
  <2>5. /\ r.pc = "fetching" /\ r.listed = epoch /\ r.ids = DOMAIN ocs[epoch]
        /\ r.new_assets = q.new_assets /\ r.new_index = q.new_index /\ r.started = q.started
    BY <2>2 DEF Refreshes
  <2>6. q.new_assets = {} /\ q.started \in Nat
    BY <1>1, <2>1 DEF JobOK, Refreshes, Epochs
  <2>7. Covers(r.new_assets, r.ids, r.listed)
    BY <2>5, <2>6 DEF Covers
  <2>8. r.listed \in r.started .. epoch
    BY <1>1, <2>3, <2>5, <2>6 DEF JobOK
  <2>9. JobOK(r)
    BY <1>1, <2>5, <2>7, <2>8 DEF JobOK
  <2>10. Once(r)
    BY <2>5, <2>6 DEF Once
  <2> QED
    BY <1>1, <2>1, <2>2, <2>4, <2>5, <2>9, <2>10 DEF Resumed, InFlight
<1>3. ASSUME NEW m \in refresh[j].ids, NEW host \in {m, Unknown}, FetchDetail(j, m, host)
      PROVE  \E r \in Refreshes : JobOK(r) /\ Once(r) /\ Resumed(j, r)
  <2>1. PICK pkgs : pkgs = ocs[epoch][m]
    OBVIOUS
  <2>2. PICK r : r = Recorded(q, m, host, pkgs)
    OBVIOUS
  <2>3. /\ q.pc = "fetching" /\ m \in q.ids /\ m \in DOMAIN ocs[epoch]
        /\ Continue(j, r) /\ UNCHANGED <<ocs, epoch, faults>>
    BY <1>1, <1>3, <2>1, <2>2 DEF FetchDetail
  <2>4. pkgs \in SUBSET Packages
    BY <2>1, <2>3 DEF IInv, TypeOK, InventoryTypeOK, Inventories
  <2>5. r \in Refreshes /\ r.pc = "fetching" /\ JobOK(r)
    BY <1>1, <2>1, <2>2, <2>3, <2>4, RecordedOK DEF IInv
  <2>6. Once(r) /\ r.started = q.started
    BY <1>1, <2>2, <2>3, RecordedOnce
  <2> QED
    BY <1>1, <2>3, <2>5, <2>6 DEF Resumed, InFlight
<1>4. ASSUME NEW m \in refresh[j].ids, FetchNothing(j, m)
      PROVE  \E r \in Refreshes : JobOK(r) /\ Once(r) /\ Resumed(j, r)
  <2>1. PICK r : r = Recorded(q, m, Unknown, {})
    OBVIOUS
  <2>2. /\ q.pc = "fetching" /\ m \in q.ids
        /\ Continue(j, r) /\ UNCHANGED <<ocs, epoch, faults>>
    BY <1>1, <1>4, <2>1 DEF FetchNothing
  <2>3. r \in Refreshes /\ r.pc = "fetching" /\ JobOK(r)
    BY <1>1, <2>1, <2>2, RecordedOK DEF IInv
  <2>4. Once(r) /\ r.started = q.started
    BY <1>1, <2>1, <2>2, RecordedOnce
  <2> QED
    BY <1>1, <2>2, <2>3, <2>4 DEF Resumed, InFlight
<1> QED
  BY <1>2, <1>3, <1>4 DEF Answer

\* What a job's next locals are, for each kind of step.
LEMMA ResumedIs ==
    ASSUME IInv, NEW j \in Jobs, NEW r \in Refreshes, Resumed(j, r)
    PROVE  \/ /\ refresh' = [refresh EXCEPT ![j] = r]
              /\ UNCHANGED <<assets, packages_index, last_refresh, since>>
           \/ /\ refresh' = [refresh EXCEPT ![j] = Rest(j)]
              /\ assets' = r.new_assets /\ packages_index' = r.new_index
              /\ last_refresh' = epoch /\ since' = r.started
BY DEF Resumed, Continue, cacheVars

\* No refresh is in flight at the start.
LEMMA OrderInitOK == Init => OrderInv
<1> SUFFICES ASSUME Init PROVE OrderInv
  OBVIOUS
<1>1. \A j \in Jobs : refresh[j].pc = "waiting" /\ refresh[j].new_assets = {}
  BY DEF Init, Fresh
<1> QED
  BY <1>1 DEF OrderInv, IntervalLast, InFlight, Once, Jobs

\* Triggers, answers, failures and restarts preserve the order of the refreshes.
LEMMA OrderStepOK == IInv /\ OrderInv /\ [Next]_vars => OrderInv'
<1> SUFFICES ASSUME IInv, OrderInv, [Next]_vars PROVE OrderInv'
  OBVIOUS
<1>1. /\ epoch \in Nat /\ since \in Int /\ since <= epoch
      /\ \A j \in Jobs : refresh[j] \in Refreshes /\ refresh[j].started \in Nat
                           /\ refresh[j].started <= epoch
      /\ refresh \in [Jobs -> Refreshes]
  <2>1. epoch \in Nat /\ refresh \in [Jobs -> Refreshes]
    BY InventoryAssumption DEF IInv, TypeOK, InventoryTypeOK, Epochs
  <2>2. since \in Int /\ since <= epoch
    BY <2>1, InventoryAssumption DEF IInv, TypeOK, InventoryTypeOK, CacheOK, Epochs, None
  <2>3. \A j \in Jobs : refresh[j].started \in Nat /\ refresh[j].started <= epoch
    BY <2>1 DEF IInv, JobOK, Refreshes, Epochs
  <2> QED
    BY <2>1, <2>2, <2>3
<1>2. Startup \in Jobs /\ Interval \in Jobs /\ Startup # Interval
  BY OcsCacheAssumption DEF Jobs
<1>3. ASSUME NEW j \in Jobs
      PROVE  /\ Rest(j).pc \notin {"listing", "fetching"}
             /\ j = Startup => Rest(j).pc = "ended"
             /\ Once(Rest(j))
  BY DEF Rest, Fresh, Once
<1>4. ASSUME NEW j \in Jobs, Start(j) PROVE OrderInv'
  <2>1. PICK f : f = Fresh("listing", epoch)
    OBVIOUS
  <2>2. f.pc = "listing" /\ f.started = epoch /\ Once(f)
    BY <2>1 DEF Fresh, Once
  <2>3. /\ refresh' = [refresh EXCEPT ![j] = f] /\ since' = since
        /\ refresh[j].pc = "waiting"
        /\ j = Interval => refresh[Startup].pc # "waiting"
    BY <1>4, <2>1 DEF Start, cacheVars
  <2>4. \A k \in Jobs : refresh'[k] = IF k = j THEN f ELSE refresh[k]
    BY <1>1, <2>3
  <2>5. IntervalLast'
    BY <1>1, <1>2, <2>2, <2>3, <2>4 DEF OrderInv, IntervalLast, InFlight
  <2> QED
    BY <2>2, <2>4, <2>5 DEF OrderInv, Once
<1>5. ASSUME NEW j \in Jobs, Answer(j) PROVE OrderInv'
  <2>1. PICK r \in Refreshes : JobOK(r) /\ Once(r) /\ Resumed(j, r)
    BY <1>5, AnswerResumes DEF OrderInv
  <2>2. InFlight(j) /\ r.pc = "fetching" /\ r.started = refresh[j].started
    BY <2>1 DEF Resumed
  <2>3. CASE /\ refresh' = [refresh EXCEPT ![j] = r]
             /\ UNCHANGED <<assets, packages_index, last_refresh, since>>
    <3>1. \A k \in Jobs : refresh'[k] = IF k = j THEN r ELSE refresh[k]
      BY <1>1, <2>3
    <3>2. IntervalLast'
      BY <1>1, <1>2, <2>2, <2>3, <3>1 DEF OrderInv, IntervalLast, InFlight
    <3> QED
      BY <2>1, <3>1, <3>2 DEF OrderInv, Once
  <2>4. CASE /\ refresh' = [refresh EXCEPT ![j] = Rest(j)]
             /\ since' = r.started
    <3>1. \A k \in Jobs : refresh'[k] = IF k = j THEN Rest(j) ELSE refresh[k]
      BY <1>1, <2>4
    <3>2. IntervalLast'
      BY <1>1, <1>2, <1>3, <2>2, <2>4, <3>1 DEF OrderInv, IntervalLast, InFlight, Jobs
    <3> QED
      BY <1>3, <3>1, <3>2 DEF OrderInv, Once
  <2> QED
    BY <2>1, <2>3, <2>4, ResumedIs
<1>6. ASSUME NEW j \in Jobs, Fail(j) PROVE OrderInv'
  <2>1. /\ refresh' = [refresh EXCEPT ![j] = Rest(j)] /\ since' = since
        /\ InFlight(j)
    BY <1>6 DEF Fail, cacheVars, InFlight
  <2>2. \A k \in Jobs : refresh'[k] = IF k = j THEN Rest(j) ELSE refresh[k]
    BY <1>1, <2>1
  <2>3. IntervalLast'
    BY <1>1, <1>2, <1>3, <2>1, <2>2 DEF OrderInv, IntervalLast, InFlight, Jobs
  <2> QED
    BY <1>3, <2>2, <2>3 DEF OrderInv, Once
<1>7. CASE Restart
  <2>1. \A j \in Jobs : refresh'[j].pc = "waiting" /\ refresh'[j].new_assets = {}
    BY <1>7 DEF Restart, Fresh
  <2> QED
    BY <1>2, <2>1 DEF OrderInv, IntervalLast, InFlight, Once
<1>8. CASE Change
  BY <1>8 DEF Change, cacheVars, OrderInv, IntervalLast, InFlight, Once
<1>9. CASE UNCHANGED vars
  BY <1>9 DEF vars, cacheVars, OrderInv, IntervalLast, InFlight, Once
<1> QED
  BY <1>4, <1>5, <1>6, <1>7, <1>8, <1>9 DEF Next

\* Refreshes overlap in one order only, and none answers for a machine twice
\* (scheduler.py:73, 100-105; ocs_cache.py:49-83).
THEOREM OrderInductive == Spec => []OrderInv
BY OrderInitOK, OrderStepOK, Inductive, PTL DEF Spec

\* Only the startup refresh, as it ends, can publish an older read over a newer
\* one (scheduler.py:73, 100-105).
THEOREM OnlyStartupGoesBack == Spec => OnlyStartupRegresses
<1> DEFINE GoesBack == since' < since /\ since' # None =>
                         refresh[Startup].pc # "ended" /\ refresh'[Startup].pc = "ended"
<1>1. ASSUME IInv, OrderInv, [Next]_vars PROVE GoesBack \/ UNCHANGED vars
  <2> SUFFICES ASSUME since' < since, since' # None, ~UNCHANGED vars
               PROVE  refresh[Startup].pc # "ended" /\ refresh'[Startup].pc = "ended"
    OBVIOUS
  <2>1. since' # since
    <3>1. since \in Int
      BY <1>1, InventoryAssumption DEF IInv, TypeOK, InventoryTypeOK, Epochs, None
    <3> QED
      BY <3>1
  <2>2. PICK j \in Jobs : Answer(j)
    BY <1>1, <2>1 DEF Next, Start, Fail, Restart, Forget, Change, cacheVars
  <2>3. PICK r \in Refreshes : Resumed(j, r)
    BY <1>1, <2>2, AnswerResumes DEF OrderInv
  <2>4. /\ InFlight(j) /\ since' = refresh[j].started
        /\ refresh' = [refresh EXCEPT ![j] = Rest(j)]
    BY <1>1, <2>1, <2>3, ResumedIs DEF Resumed
  <2>5. j # Interval
    <3>1. refresh[Interval].started \in Nat /\ since \in Int
      BY <1>1, InventoryAssumption
      DEF IInv, TypeOK, InventoryTypeOK, Refreshes, Epochs, None, Jobs
    <3> QED
      BY <1>1, <2>4, <3>1 DEF OrderInv, IntervalLast
  <2>6. refresh'[Startup] = Rest(Startup) /\ InFlight(Startup)
    BY <1>1, <2>4, <2>5 DEF Jobs, IInv, TypeOK
  <2> QED
    BY <2>6 DEF Rest, Fresh, InFlight
<1>2. IInv /\ OrderInv /\ [Next]_vars => [GoesBack]_vars
  BY <1>1
<1> QED
  BY <1>2, Inductive, OrderInductive, PTL DEF Spec, OnlyStartupRegresses
\* The index of a refresh that asked for every machine once is the index of a
\* read of the inventory, machine by machine, since the refresh started.
LEMMA IndexWasRead ==
    ASSUME TypeOK, NEW r \in Refreshes, JobOK(r), Once(r)
    PROVE  \E at \in [Machines -> r.started .. epoch] :
              \E named, silent \in SUBSET Machines :
                 r.new_index = IndexRead(at, named, silent)
<1> DEFINE A == r.new_assets
           Heard(m, e) == \E a \in A : a.id = m /\ m \in DOMAIN ocs[e] /\ a.packages = ocs[e][m]
           silent == {m \in Machines : \A a \in A : a.id = m => a.packages = {}}
           named == {m \in Machines : \E a \in A : a.id = m /\ a.hostname = m}
           at == [m \in Machines |-> IF m \in silent THEN r.started
                                     ELSE CHOOSE e \in r.started .. epoch : Heard(m, e)]
<1>1. A \subseteq Assets /\ Truth(A, r.started, epoch) /\ Named(A) /\ r.new_index = IndexOf(A)
  BY DEF JobOK, Refreshes
<1>2. r.started \in r.started .. epoch
  BY InventoryAssumption DEF JobOK, Refreshes, TypeOK, InventoryTypeOK, Epochs
<1>3. ASSUME NEW m \in Machines \ silent
      PROVE  at[m] \in r.started .. epoch /\ Heard(m, at[m])
  <2>1. PICK a \in A : a.id = m /\ a.packages # {}
    BY <1>3
  <2>2. \E e \in r.started .. epoch : Heard(m, e)
    BY <1>1, <2>1 DEF Truth
  <2>3. at[m] = CHOOSE e \in r.started .. epoch : Heard(m, e)
    BY <1>3
  <2> HIDE DEF Heard, at, silent
  <2> QED
    BY <2>2, <2>3
<1>4. at \in [Machines -> r.started .. epoch]
  <2>1. \A m \in silent : at[m] = r.started
    OBVIOUS
  <2>2. \A m \in Machines : at[m] \in r.started .. epoch
    <3> HIDE DEF at, silent
    <3> QED
      BY <1>2, <1>3, <2>1
  <2>3. at = [m \in Machines |-> at[m]]
    OBVIOUS
  <2> HIDE DEF at
  <2> QED
    BY <2>2, <2>3
<1>5. named \in SUBSET Machines /\ silent \in SUBSET Machines
  OBVIOUS
<1> HIDE DEF at
\* What an asset contributes is what the read of its machine contributes.
<1>6. ASSUME NEW a \in A, a.packages # {}
      PROVE  /\ a.id \in Machines \ silent
             /\ a.id \in DOMAIN ocs[at[a.id]] /\ a.packages = ocs[at[a.id]][a.id]
             /\ a.hostname = IF a.id \in named THEN a.id ELSE Unknown
  <2>1. a.id \in Machines \ silent
    BY <1>1, <1>6 DEF Assets
  <2>2. PICK b \in A : /\ b.id = a.id /\ a.id \in DOMAIN ocs[at[a.id]]
                       /\ b.packages = ocs[at[a.id]][a.id]
    BY <1>3, <2>1
  <2>3. b = a
    BY <2>2 DEF Once
  <2>4. a.hostname = IF a.id \in named THEN a.id ELSE Unknown
    <3>1. CASE a.hostname = a.id
      BY <2>1, <3>1
    <3>2. CASE a.hostname # a.id
      <4>1. a.hostname = Unknown
        BY <1>1, <3>2 DEF Named
      <4>2. a.id \notin named
        BY <3>2 DEF Once
      <4> QED
        BY <4>1, <4>2
    <3> QED
      BY <3>1, <3>2
  <2> QED
    BY <2>1, <2>2, <2>3, <2>4
<1>7. ASSUME NEW p \in Packages
      PROVE  IndexOf(A)[p] = IndexRead(at, named, silent)[p]
  <2>1. IndexOf(A)[p] = {a.hostname : a \in {x \in A : p \in x.packages}}
    BY DEF IndexOf
  <2>2. IndexRead(at, named, silent)[p] =
          {IF m \in named THEN m ELSE Unknown :
             m \in {n \in Machines \ silent :
                      n \in DOMAIN ocs[at[n]] /\ p \in ocs[at[n]][n]}}
    BY DEF IndexRead
  <2>3. ASSUME NEW h \in IndexOf(A)[p] PROVE h \in IndexRead(at, named, silent)[p]
    <3>1. PICK a \in A : p \in a.packages /\ h = a.hostname
      BY <2>1, <2>3
    <3> HIDE DEF A, named, silent
    <3> QED
      BY <1>6, <2>2, <3>1
  <2>4. ASSUME NEW h \in IndexRead(at, named, silent)[p] PROVE h \in IndexOf(A)[p]
    <3> HIDE DEF named, silent
    <3>1. PICK m \in Machines \ silent : /\ m \in DOMAIN ocs[at[m]] /\ p \in ocs[at[m]][m]
                                         /\ h = IF m \in named THEN m ELSE Unknown
      BY <2>2, <2>4
    <3>2. PICK a \in A : a.id = m /\ a.packages = ocs[at[m]][m]
      BY <1>3, <3>1
    <3>3. a.hostname = h
      BY <1>6, <3>1, <3>2
    <3> QED
      BY <2>1, <3>1, <3>2, <3>3
  <2> QED
    BY <2>3, <2>4
<1>8. IndexOf(A) = IndexRead(at, named, silent)
  BY <1>7 DEF IndexOf, IndexRead
<1> QED
  BY <1>1, <1>4, <1>5, <1>8

\* refresh() implements the cache the matching engine relies on: a step is a
\* change of the inventory, the publication of one read of it, a restart, or
\* nothing the matching engine can see (ocs_cache.py:20-96).
THEOREM CacheImplementsInventory == Spec => PublishedCache
<1>1. Init => InventoryInit
  BY DEF Init
<1>2. ASSUME IInv, OrderInv, [Next]_vars PROVE [InventoryNext]_<<inventoryVars, indexVars>>
  <2>1. ASSUME NEW j \in Jobs, Start(j) \/ Fail(j)
        PROVE  UNCHANGED <<inventoryVars, indexVars>>
    BY <2>1 DEF Start, Fail, cacheVars, inventoryVars, indexVars
  <2>2. ASSUME NEW j \in Jobs, Answer(j)
        PROVE  [InventoryNext]_<<inventoryVars, indexVars>>
    <3>1. PICK r \in Refreshes : JobOK(r) /\ Once(r) /\ Resumed(j, r)
      BY <1>2, <2>2, AnswerResumes DEF OrderInv
    <3>2. UNCHANGED inventoryVars
      BY <3>1 DEF Resumed, inventoryVars
    <3>3. CASE UNCHANGED <<assets, packages_index, last_refresh, since>>
      BY <3>2, <3>3 DEF indexVars
    <3>4. CASE /\ packages_index' = r.new_index
               /\ last_refresh' = epoch /\ since' = r.started
      <4>1. r.started \in 0 .. epoch
        BY <1>2, <3>1, InventoryAssumption
        DEF JobOK, Refreshes, Epochs, IInv, TypeOK, InventoryTypeOK
      <4>2. PICK at \in [Machines -> r.started .. epoch], named \in SUBSET Machines,
                 silent \in SUBSET Machines : r.new_index = IndexRead(at, named, silent)
        BY <1>2, <3>1, IndexWasRead DEF IInv
      <4>3. Load
        BY <3>4, <4>1, <4>2 DEF Load
      <4> QED
        BY <3>2, <4>3 DEF InventoryNext
    <3> QED
      BY <1>2, <3>1, <3>3, <3>4, ResumedIs
  <2>3. CASE Restart
    BY <2>3 DEF Restart, InventoryNext, inventoryVars
  <2>4. CASE Change
    BY <2>4 DEF Change, cacheVars, InventoryNext, indexVars
  <2>5. CASE UNCHANGED vars
    BY <2>5 DEF vars, cacheVars, inventoryVars, indexVars
  <2> QED
    BY <1>2, <2>1, <2>2, <2>3, <2>4, <2>5 DEF Next
<1>3. IInv /\ OrderInv /\ [Next]_vars => [InventoryNext]_<<inventoryVars, indexVars>>
  BY <1>2
<1> QED
  BY <1>1, <1>3, Inductive, OrderInductive, PTL DEF Spec, PublishedCache, InventorySpec
-----------------------------------------------------------------------------
(* Catching up *)

\* The cache was read after the last change.
UpToDate == since = epoch

\* The published assets are the machines OCS lists now, with the packages it
\* has of them now or with none.
Current ==
    /\ {a.id : a \in assets} = DOMAIN ocs[epoch]
    /\ \A a \in assets : a.packages # {} => a.packages = ocs[epoch][a.id]

\* A refresh of one epoch has read that epoch only.
LEMMA CaughtUp == ASSUME IInv, since = epoch PROVE Current
<1>1. epoch \in Nat /\ last_refresh # None /\ last_refresh = epoch
  BY InventoryAssumption DEF IInv, TypeOK, InventoryTypeOK, CacheOK, Epochs, None
<1>2. \A e \in since .. last_refresh : e = epoch
  BY <1>1
<1>3. Truth(assets, since, last_refresh) /\ \E e \in since .. last_refresh : Covers(assets, {}, e)
  BY <1>1 DEF IInv, CacheOK
<1> QED
  BY <1>2, <1>3 DEF Current, Truth, Covers

\* What CacheCatchesUp promises is worth having: a cache read after the last
\* change is the inventory of now, up to the machines that did not answer
\* (ocs_cache.py:39-87).
THEOREM CaughtUpIsCurrent == Spec => [](UpToDate => Current)
<1>1. IInv => (UpToDate => Current)
  BY CaughtUp DEF UpToDate
<1> QED
  BY <1>1, Inductive, PTL

\* The startup job is over, and the cache is up to date or an interval refresh
\* that will make it so is in flight.
CatchingUp ==
    /\ refresh[Startup].pc = "ended"
    /\ \/ since = epoch
       \/ InFlight(Interval) /\ refresh[Interval].started = epoch

\* Every interval refresh that starts when the startup job is over is one.
THEOREM IntervalCatchesUp ==
    Spec => [][Start(Interval) /\ refresh[Startup].pc = "ended" => CatchingUp']_vars
<1>1. ASSUME IInv, Start(Interval), refresh[Startup].pc = "ended" PROVE CatchingUp'
  <2>1. Interval \in Jobs /\ Startup # Interval /\ refresh \in [Jobs -> Refreshes]
    BY <1>1, OcsCacheAssumption DEF Jobs, IInv, TypeOK
  <2>2. refresh' = [refresh EXCEPT ![Interval] = Fresh("listing", epoch)] /\ epoch' = epoch
    BY <1>1 DEF Start
  <2>3. refresh'[Startup] = refresh[Startup]
    BY <2>1, <2>2
  <2> QED
    BY <1>1, <2>1, <2>2, <2>3 DEF CatchingUp, InFlight, Fresh
<1>2. IInv => [Start(Interval) /\ refresh[Startup].pc = "ended" => CatchingUp']_vars
  BY <1>1
<1> QED
  BY <1>2, Inductive, PTL

\* With no change of the inventory, and no failure or an up-to-date cache, the
\* jobs keep it so: the one refresh that can still publish started since.
LEMMA CatchingUpStays ==
    ASSUME IInv, OrderInv, CatchingUp, NEW j \in Jobs,
           Start(j) \/ Answer(j) \/ (Fail(j) /\ since = epoch)
    PROVE  CatchingUp' /\ (since = epoch => since' = epoch')
<1>1. /\ epoch \in Nat /\ refresh \in [Jobs -> Refreshes] /\ since \in Int
      /\ refresh[Interval].started \in Nat /\ refresh[Interval].started <= epoch
  BY InventoryAssumption
  DEF IInv, TypeOK, InventoryTypeOK, JobOK, Refreshes, Epochs, None, Jobs
<1>2. Startup \in Jobs /\ Interval \in Jobs /\ Startup # Interval
  BY OcsCacheAssumption DEF Jobs
<1>3. j = Interval
  BY DEF CatchingUp, Start, Answer, ListMachines, FetchDetail, FetchNothing, Fail, Jobs
<1>4. CASE Start(j)
  <2>1. refresh' = [refresh EXCEPT ![j] = Fresh("listing", epoch)]
        /\ UNCHANGED <<epoch, since>> /\ refresh[j].pc = "waiting"
    BY <1>4 DEF Start, cacheVars
  <2>2. refresh'[Startup] = refresh[Startup]
    BY <1>1, <1>2, <1>3, <2>1
  <2> QED
    BY <1>3, <2>1, <2>2 DEF CatchingUp, InFlight
<1>5. CASE Fail(j) /\ since = epoch
  <2>1. refresh' = [refresh EXCEPT ![j] = Rest(j)] /\ UNCHANGED <<epoch, since>>
    BY <1>5 DEF Fail, cacheVars
  <2>2. refresh'[Startup] = refresh[Startup]
    BY <1>1, <1>2, <1>3, <2>1
  <2> QED
    BY <1>5, <2>1, <2>2 DEF CatchingUp
<1>6. CASE Answer(j)
  <2>1. PICK r \in Refreshes : Resumed(j, r)
    BY <1>6, AnswerResumes DEF OrderInv
  <2>2. InFlight(j) /\ r.pc = "fetching" /\ r.started = refresh[j].started /\ epoch' = epoch
    BY <2>1 DEF Resumed
  <2>3. CASE refresh' = [refresh EXCEPT ![j] = r] /\ since' = since
    <3>1. refresh'[Startup] = refresh[Startup] /\ refresh'[Interval] = r
      BY <1>1, <1>2, <1>3, <2>3
    <3> QED
      BY <1>3, <2>2, <2>3, <3>1 DEF CatchingUp, InFlight
  <2>4. CASE refresh' = [refresh EXCEPT ![j] = Rest(j)] /\ since' = r.started
    <3>1. refresh'[Startup] = refresh[Startup]
      BY <1>1, <1>2, <1>3, <2>4
    <3>2. since <= refresh[Interval].started
      BY <1>3, <2>2 DEF OrderInv, IntervalLast
    <3>3. since' = epoch
      BY <1>1, <1>3, <2>2, <2>4, <3>2 DEF CatchingUp
    <3> QED
      BY <2>2, <3>1, <3>3 DEF CatchingUp
  <2> QED
    BY <2>1, <2>3, <2>4, ResumedIs
<1> QED
  BY <1>4, <1>5, <1>6

\* The safety half of CacheCatchesUp.  When the startup refresh is over, an
\* interval refresh that starts after the last change and does not fail
\* publishes the inventory of now, and no refresh that follows takes it back
\* (ocs_cache.py:85-87, scheduler.py:100-105).
THEOREM QuietRefreshCatchesUp ==
    /\ IInv /\ OrderInv /\ CatchingUp
    /\ [][\E j \in Jobs : Start(j) \/ Answer(j)]_vars
    => [](~InFlight(Interval) => UpToDate /\ Current)
<1>1. ASSUME IInv, OrderInv, CatchingUp, [\E j \in Jobs : Start(j) \/ Answer(j)]_vars
      PROVE  IInv' /\ OrderInv' /\ CatchingUp'
  <2>1. [Next]_vars
    BY <1>1 DEF Next
  <2>2. CatchingUp'
    <3>1. CASE UNCHANGED vars
      BY <1>1, <3>1 DEF vars, cacheVars, CatchingUp, InFlight
    <3> QED
      BY <1>1, <3>1, CatchingUpStays
  <2> QED
    BY <1>1, <2>1, <2>2, StepOK, OrderStepOK
<1>2. IInv /\ CatchingUp => (~InFlight(Interval) => UpToDate /\ Current)
  BY CaughtUp DEF CatchingUp, UpToDate
<1> QED
  BY <1>1, <1>2, PTL

\* And then failures do no harm: an up-to-date cache stays until the inventory
\* changes or the process restarts (ocs_cache.py:89-96).
THEOREM CaughtUpStays ==
    /\ IInv /\ OrderInv /\ CatchingUp /\ UpToDate
    /\ [][\E j \in Jobs : Start(j) \/ Answer(j) \/ Fail(j)]_vars
    => [](UpToDate /\ Current)
<1>1. ASSUME IInv, OrderInv, CatchingUp, UpToDate,
             [\E j \in Jobs : Start(j) \/ Answer(j) \/ Fail(j)]_vars
      PROVE  IInv' /\ OrderInv' /\ CatchingUp' /\ UpToDate'
  <2>1. [Next]_vars
    BY <1>1 DEF Next
  <2>2. CatchingUp' /\ UpToDate'
    <3>1. CASE UNCHANGED vars
      BY <1>1, <3>1 DEF vars, cacheVars, CatchingUp, InFlight, UpToDate
    <3> QED
      BY <1>1, <3>1, CatchingUpStays DEF UpToDate
  <2> QED
    BY <1>1, <2>1, <2>2, StepOK, OrderStepOK
<1>2. ASSUME IInv, OrderInv, CatchingUp, UpToDate PROVE Current
  BY <1>2, CaughtUp DEF UpToDate
<1> QED
  BY <1>1, <1>2, PTL
=============================================================================
