------------------------ MODULE InventoryCacheProofs ------------------------
(***************************************************************************)
(* What follows from the cache's promise alone, for OcsCache, which keeps  *)
(* it, and VulnEngine, which relies on it.                                 *)
(***************************************************************************)
EXTENDS InventoryCache, TLAPS

\* Before the first refresh the index is empty; after it, the refresh it is of
\* ran in the past.
PublishedPast ==
    /\ since = None => packages_index = EmptyIndex
    /\ since # None => since \in 0 .. epoch /\ last_refresh \in since .. epoch

InventoryInv == InventoryTypeOK /\ PublishedPast /\ IndexTruthful

-----------------------------------------------------------------------------

\* An epoch of the past is untouched by a change of the inventory.
LEMMA ChangeKeepsPast ==
    ASSUME InventoryTypeOK, ChangeInventory
    PROVE  /\ epoch' = epoch + 1 /\ epoch' \in Epochs
           /\ ocs' \in [Epochs -> Inventories]
           /\ \A e \in 0 .. epoch : ocs'[e] = ocs[e]
<1>1. epoch \in Nat /\ epoch + 1 \in Epochs /\ epoch' = epoch + 1
  BY InventoryAssumption DEF InventoryTypeOK, ChangeInventory, Epochs
<1>2. PICK i \in Inventories : ocs' = [ocs EXCEPT ![epoch + 1] = i]
  BY DEF ChangeInventory
<1>3. ocs' \in [Epochs -> Inventories]
  BY <1>1, <1>2 DEF InventoryTypeOK
<1>4. \A e \in 0 .. epoch : ocs'[e] = ocs[e]
  BY <1>1, <1>2, InventoryAssumption DEF InventoryTypeOK, Epochs
<1> QED BY <1>1, <1>3, <1>4

\* The epochs up to the present are numbers within the bound, none of them None.
LEMMA EpochNat ==
    ASSUME InventoryTypeOK
    PROVE  /\ epoch \in Nat /\ epoch \in Epochs
           /\ \A e \in 0 .. epoch : e \in Epochs /\ e # None
BY InventoryAssumption DEF InventoryTypeOK, Epochs, None

\* The empty index holds nothing that could be wrong.
LEMMA EmptyIndexOK ==
    ASSUME packages_index = EmptyIndex
    PROVE  packages_index \in [Packages -> SUBSET Hosts] /\ IndexTruthful
BY DEF EmptyIndex, IndexTruthful

\* Nothing is published when the process starts.
LEMMA InventoryInitOK == InventoryInit => InventoryInv
<1> SUFFICES ASSUME InventoryInit PROVE InventoryInv
  OBVIOUS
<1>1. PICK i \in Inventories : ocs = [e \in Epochs |-> i]
  BY DEF InventoryInit
<1>2. /\ epoch = 0 /\ packages_index = EmptyIndex /\ last_refresh = None /\ since = None
      /\ 0 \in Epochs
  BY InventoryAssumption DEF InventoryInit, Epochs
<1> QED
  BY <1>1, <1>2, EmptyIndexOK DEF InventoryInv, InventoryTypeOK, PublishedPast

\* A change of the inventory touches neither the past nor the index read from it.
LEMMA ChangeInventoryOK ==
    ASSUME InventoryInv, ChangeInventory, UNCHANGED indexVars PROVE InventoryInv'
<1>1. /\ epoch' = epoch + 1 /\ epoch' \in Epochs /\ ocs' \in [Epochs -> Inventories]
      /\ \A e \in 0 .. epoch : ocs'[e] = ocs[e]
  BY ChangeKeepsPast DEF InventoryInv
<1>2. epoch \in Nat
  BY EpochNat DEF InventoryInv
<1>3. UNCHANGED <<packages_index, last_refresh, since>>
  BY DEF indexVars
<1>4. InventoryTypeOK'
  BY <1>1, <1>3 DEF InventoryInv, InventoryTypeOK
<1>5. PublishedPast'
  BY <1>1, <1>2, <1>3 DEF InventoryInv, PublishedPast, EmptyIndex
<1>6. IndexTruthful'
  <2>1. CASE since = None
    BY <1>3, <2>1, EmptyIndexOK DEF InventoryInv, PublishedPast, IndexTruthful, EmptyIndex
  <2>2. CASE since # None
    <3>1. since .. last_refresh \subseteq 0 .. epoch
      BY <1>2, <2>2 DEF InventoryInv, PublishedPast
    <3> QED
      BY <1>1, <1>3, <3>1 DEF InventoryInv, IndexTruthful
  <2> QED
    BY <2>1, <2>2
<1> QED
  BY <1>4, <1>5, <1>6 DEF InventoryInv

\* What a refresh publishes was read from the inventory since it started.
LEMMA LoadOK == ASSUME InventoryInv, Load, UNCHANGED inventoryVars PROVE InventoryInv'
<1>0. PICK s \in 0 .. epoch :
        /\ \E at \in [Machines -> s .. epoch] :
           \E named, silent \in SUBSET Machines :
               packages_index' = IndexRead(at, named, silent)
        /\ last_refresh' = epoch /\ since' = s
  BY DEF Load
<1>1. PICK at \in [Machines -> s .. epoch],
           named \in SUBSET Machines, silent \in SUBSET Machines :
        packages_index' = IndexRead(at, named, silent)
  BY <1>0
<1>2. epoch \in Nat /\ epoch \in Epochs /\ \A e \in 0 .. epoch : e \in Epochs /\ e # None
  BY EpochNat DEF InventoryInv
<1>3. UNCHANGED <<ocs, epoch>>
  BY DEF inventoryVars
<1>4. ASSUME NEW p \in Packages, NEW h \in IndexRead(at, named, silent)[p]
      PROVE  \/ h = Unknown
             \/ h \in Machines /\ h \in DOMAIN ocs[at[h]] /\ p \in ocs[at[h]][h]
  BY <1>4 DEF IndexRead
<1>5. packages_index' \in [Packages -> SUBSET Hosts]
  <2>1. \A p \in Packages : IndexRead(at, named, silent)[p] \subseteq Hosts
    BY <1>4 DEF Hosts
  <2>2. packages_index' = [p \in Packages |-> IndexRead(at, named, silent)[p]]
    BY <1>0, <1>1 DEF IndexRead
  <2> QED
    BY <2>1, <2>2
<1>6. InventoryTypeOK'
  BY <1>0, <1>1, <1>2, <1>3, <1>5 DEF InventoryInv, InventoryTypeOK
<1>7. PublishedPast'
  BY <1>0, <1>1, <1>2, <1>3 DEF PublishedPast
<1>8. IndexTruthful'
  <2> SUFFICES ASSUME NEW p \in Packages, NEW m \in packages_index'[p] \ {Unknown}
               PROVE  \E e \in s .. epoch : e \in Epochs /\ m \in DOMAIN ocs[e] /\ p \in ocs[e][m]
    BY <1>0, <1>1, <1>3 DEF IndexTruthful
  <2>1. m \in Machines /\ m \in DOMAIN ocs[at[m]] /\ p \in ocs[at[m]][m]
    BY <1>0, <1>1, <1>4
  <2>2. at[m] \in s .. epoch /\ at[m] \in Epochs
    BY <1>2, <2>1
  <2> QED
    BY <2>1, <2>2
<1> QED
  BY <1>6, <1>7, <1>8 DEF InventoryInv

\* Every step of the promise preserves the invariant.
LEMMA InventoryStepOK ==
    InventoryInv /\ [InventoryNext]_<<inventoryVars, indexVars>> => InventoryInv'
<1> SUFFICES ASSUME InventoryInv, [InventoryNext]_<<inventoryVars, indexVars>>
             PROVE  InventoryInv'
  OBVIOUS
<1>1. CASE ChangeInventory /\ UNCHANGED indexVars
  BY <1>1, ChangeInventoryOK
<1>2. CASE Load /\ UNCHANGED inventoryVars
  BY <1>2, LoadOK
<1>3. CASE Forget /\ UNCHANGED inventoryVars
  <2>1. packages_index' = EmptyIndex /\ last_refresh' = None /\ since' = None
    BY <1>3 DEF Forget
  <2>2. UNCHANGED <<ocs, epoch>>
    BY <1>3 DEF inventoryVars
  <2>3. packages_index' \in [Packages -> SUBSET Hosts] /\ IndexTruthful'
    BY <2>1 DEF EmptyIndex, IndexTruthful
  <2> QED
    BY <2>1, <2>2, <2>3 DEF InventoryInv, InventoryTypeOK, PublishedPast, EmptyIndex
<1>4. CASE UNCHANGED <<inventoryVars, indexVars>>
  <2>1. UNCHANGED <<ocs, epoch, packages_index, last_refresh, since>>
    BY <1>4 DEF inventoryVars, indexVars
  <2> QED
    BY <2>1 DEF InventoryInv, InventoryTypeOK, PublishedPast, IndexTruthful, EmptyIndex
<1> QED
  BY <1>1, <1>2, <1>3, <1>4 DEF InventoryNext

\* The promise of the cache, whatever implements it: the index holds what OCS
\* held during one refresh of the past, or nothing (ocs_cache.py:15-18, 63-87).
THEOREM InventoryInductive == InventorySpec => []InventoryInv
BY InventoryInitOK, InventoryStepOK, PTL DEF InventorySpec
=============================================================================
