--------------------------- MODULE InventoryCache ---------------------------
(***************************************************************************)
(* What vuln-engine's OCS cache promises to the matching engine: the index *)
(* packages -> hosts it serves was read from OCS Inventory, machine by     *)
(* machine, between the start of some refresh and the moment that refresh  *)
(* was published; it is replaced as a whole and only a restart empties it. *)
(*                                                                         *)
(* OcsCache.tla is the detailed, many-awaits version of the same cache and *)
(* implements this specification.                                          *)
(***************************************************************************)
EXTENDS Integers

CONSTANTS
    Machines,   \* machine IDs OCS Inventory may list
    Packages,   \* package names, lowered and stripped (ocs_cache.py:67)
    Unknown,    \* the host name "unknown" of a machine without hardware data
    MaxEpoch    \* bound on the number of changes of the real inventory

ASSUME InventoryAssumption == MaxEpoch \in Nat /\ Unknown \notin Machines

VARIABLES
    ocs,             \* ocs[e]: OCS's own tables after e changes (external)
    epoch,           \* number of changes so far; ocs[epoch] is the present
    packages_index,  \* package -> hosts; a missing key reads as {}
    last_refresh,    \* epoch at which the cache was published, or None
    since            \* epoch at which the published refresh had started

inventoryVars == <<ocs, epoch>>
indexVars     == <<packages_index, last_refresh, since>>

None        == -1
Epochs      == 0 .. MaxEpoch
Hosts       == Machines \union {Unknown}
Inventories == UNION {[D -> SUBSET Packages] : D \in SUBSET Machines}
EmptyIndex  == [p \in Packages |-> {}]

InventoryTypeOK ==
    /\ ocs \in [Epochs -> Inventories]
    /\ epoch \in Epochs
    /\ packages_index \in [Packages -> SUBSET Hosts]
    /\ last_refresh \in Epochs \union {None}
    /\ since \in Epochs \union {None}

-----------------------------------------------------------------------------

InventoryInit ==
    /\ \E i \in Inventories : ocs = [e \in Epochs |-> i]
    /\ epoch = 0
    /\ packages_index = EmptyIndex
    /\ last_refresh = None
    /\ since = None

\* A machine is enrolled, removed, or changes its software, at any time.
ChangeInventory ==
    /\ epoch < MaxEpoch
    /\ epoch' = epoch + 1
    /\ \E i \in Inventories : ocs' = [ocs EXCEPT ![epoch + 1] = i]

\* The index of a refresh that read machine m at epoch at[m], under its own
\* name when m \in named, and got no usable answer for the machines of silent.
IndexRead(at, named, silent) ==
    [p \in Packages |->
        {IF m \in named THEN m ELSE Unknown :
            m \in {n \in Machines \ silent :
                     n \in DOMAIN ocs[at[n]] /\ p \in ocs[at[n]][n]}}]

\* A refresh started at epoch s is published in one step.
Load ==
    \E s \in 0 .. epoch :
        /\ \E at \in [Machines -> s .. epoch] :
           \E named, silent \in SUBSET Machines :
               packages_index' = IndexRead(at, named, silent)
        /\ last_refresh' = epoch
        /\ since' = s

\* The process restarts: nothing of the cache is persisted.
Forget ==
    /\ packages_index' = EmptyIndex
    /\ last_refresh' = None
    /\ since' = None

InventoryNext ==
    \/ ChangeInventory /\ UNCHANGED indexVars
    \/ Load /\ UNCHANGED inventoryVars
    \/ Forget /\ UNCHANGED inventoryVars

InventorySpec == InventoryInit /\ [][InventoryNext]_<<inventoryVars, indexVars>>

\* A host is indexed under a package only if OCS held that package for that
\* machine at some moment of the refresh that built the index
\* (ocs_cache.py:63-74, 85-87): no host survives from an older refresh.
IndexTruthful ==
    \A p \in Packages : \A m \in packages_index[p] \ {Unknown} :
        \E e \in since .. last_refresh :
            e \in Epochs /\ m \in DOMAIN ocs[e] /\ p \in ocs[e][m]
=============================================================================
