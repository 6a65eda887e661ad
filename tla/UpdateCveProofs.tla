-------------------------- MODULE UpdateCveProofs ---------------------------
(***************************************************************************)
(* LagExplained for every set of CVEs, contents and batch size: for        *)
(* update_cve.sh alone, then with the crawl beside it.                     *)
(*                                                                         *)
(* The invariant that carries the first says what the locals of a run      *)
(* stand for: $BEFORE is the clone until the pull, the list names files of *)
(* the clone, and the batch holds their contents; both are empty outside   *)
(* an import.  The crawl pulls under the import, so that nothing of this   *)
(* is left: a batch may hold contents the clone has left, and $BEFORE may  *)
(* be behind the clone already when the import pulls.  In both, commits    *)
(* that compare as the same one have the same tree.  What carries the      *)
(* second is an order: the trees only ever move to later dates.  The same  *)
(* order says that what the crawl skips is in the table, and so what one   *)
(* whole crawl leaves behind.                                              *)
(***************************************************************************)
EXTENDS UpdateCveDb, TLAPS

RunOK ==
    /\ pc = "pulling" => before = clone
    /\ pc # "importing" => files = {} /\ batch = {}
    /\ \A c \in files : clone[c] # NoFile
    /\ \A row \in batch : row[2] = clone[row[1]]

IInv == TypeOK /\ RunOK /\ LagExplained

\* What is the same commit has the same tree.
HeadsOK ==
    /\ ~ahead => clone = upstream
    /\ pc \in {"pulling", "diffing"} /\ ~advanced => before = clone

-----------------------------------------------------------------------------

\* A stored batch gives its CVEs what the clone holds, and only them.
LEMMA StoredRows ==
    ASSUME NEW b, b \subseteq Cves \X (Contents \ Unreadable),
           \A row \in b : row[2] = clone[row[1]], clone \in Trees, cve_files \in Trees,
           BatchStored(b)
    PROVE  /\ cve_files' \in Trees
           /\ \A c \in InBatch(b) : cve_files'[c] = clone[c]
           /\ \A c \in Cves \ InBatch(b) : cve_files'[c] = cve_files[c]
           /\ missed' = missed \ InBatch(b) /\ faults' = faults
<1>1. ASSUME NEW c \in InBatch(b)
      PROVE  /\ c \in Cves
             /\ (CHOOSE row \in b : row[1] = c)[2] = clone[c]
             /\ clone[c] \in Contents
  <2>1. \E row \in b : row[1] = c
    BY <1>1 DEF InBatch
  <2>2. /\ (CHOOSE row \in b : row[1] = c) \in b
        /\ (CHOOSE row \in b : row[1] = c)[1] = c
    BY <2>1
  <2> QED
    BY <2>2
<1>2. cve_files' = [c \in Cves |-> IF c \in InBatch(b)
                                   THEN (CHOOSE row \in b : row[1] = c)[2]
                                   ELSE cve_files[c]]
  BY DEF BatchStored
<1>3. ASSUME NEW c \in InBatch(b)
      PROVE  cve_files'[c] = clone[c]
  BY <1>1, <1>2, <1>3
<1>4. ASSUME NEW c \in Cves \ InBatch(b)
      PROVE  cve_files'[c] = cve_files[c]
  BY <1>2, <1>4
<1>5. cve_files' \in Trees
  BY <1>1, <1>2 DEF Trees
<1>6. missed' = missed \ InBatch(b) /\ faults' = faults
  <2>1. Overtaken(b) = {}
    BY DEF Overtaken
  <2> QED
    BY <2>1 DEF BatchStored
<1> QED
  BY <1>3, <1>4, <1>5, <1>6

\* The bound on faults is never passed.
LEMMA MaxFaultsNat == MaxFaults \in Nat
BY UpdateCveAssumption

\* The bound on failures is kept by what counts one.
LEMMA FaultOK == ASSUME TypeOK, Fault PROVE faults' \in 0 .. MaxFaults
<1>1. faults \in 0 .. MaxFaults
  BY DEF TypeOK
<1> QED
  BY <1>1, MaxFaultsNat DEF Fault

\* Each step that moves the commits leaves two Booleans.
LEMMA CommitsOK ==
    ASSUME TypeOK,
           \/ ahead' = TRUE /\ UNCHANGED advanced
           \/ advanced' = FALSE /\ UNCHANGED ahead
           \/ Pulled
    PROVE  commits' \in BOOLEAN \X BOOLEAN
BY DEF TypeOK, commits, Pulled

\* The script starts at the commit upstream is at.
LEMMA HeadsInitOK == Init => HeadsOK
BY DEF Init, HeadsOK

\* A pull, by either program, takes the tree of the newest commit.
LEMMA HeadsPulled ==
    ASSUME TypeOK, HeadsOK, Pulled, UNCHANGED <<upstream, before>>,
           pc' \in {"pulling", "diffing"} => pc \in {"pulling", "diffing"}
    PROVE  HeadsOK'
BY DEF TypeOK, HeadsOK, Pulled

\* A step that moves neither commits nor trees may at most end the run.
LEMMA HeadsKept ==
    ASSUME HeadsOK, UNCHANGED <<upstream, clone, commits, before>>,
           pc' \in {"pulling", "diffing"} => pc \in {"pulling", "diffing"}
    PROVE  HeadsOK'
BY DEF HeadsOK, commits

\* What is the same commit has the same tree after every step.
LEMMA HeadsStep == ASSUME TypeOK, HeadsOK, [Next]_vars PROVE HeadsOK'
<1>1. CASE Begin
  BY <1>1 DEF Begin, HeadsOK
<1>2. CASE Pull
  BY <1>2, HeadsPulled DEF Pull
<1>3. CASE PublishOther \/ \E c \in Cves, v \in Contents : Publish(c, v)
  BY <1>3 DEF PublishOther, Publish, HeadsOK, runVars
<1>4. CASE PullFails \/ Diff \/ Finish \/ Killed \/ \E c \in Cves : AddFile(c) \/ SkipFile(c)
  <2>1. /\ UNCHANGED <<upstream, clone, commits, before>>
        /\ pc' \in {"pulling", "diffing"} => pc \in {"pulling", "diffing"}
    BY <1>4 DEF PullFails, Diff, Finish, Killed, AddFile, SkipFile
  <2> QED
    BY <2>1, HeadsKept
<1>5. CASE UNCHANGED vars
  BY <1>5, HeadsKept DEF vars, runVars
<1> QED
  BY <1>1, <1>2, <1>3, <1>4, <1>5 DEF Next, Run

\* The script starts with a table that holds what the clone holds.
LEMMA InitOK == Init => IInv
<1> SUFFICES ASSUME Init PROVE IInv
  OBVIOUS
<1>1. upstream \in Trees
  BY DEF Init, Trees
<1>2. TypeOK
  <2>1. faults = 0 /\ 0 \in 0 .. MaxFaults
    <3>1. 0 \in 0 .. MaxFaults
      BY MaxFaultsNat
    <3> QED
      BY <3>1 DEF Init
  <2> QED
    BY <1>1, <2>1 DEF Init, TypeOK, commits
<1>3. RunOK /\ Stale = {}
  BY DEF Init, RunOK, Stale
<1> QED
  BY <1>2, <1>3 DEF IInv, LagExplained

\* The run's own bookkeeping, up to the batches.
LEMMA BeginOK == ASSUME IInv, Begin PROVE IInv'
<1>1. commits' \in BOOLEAN \X BOOLEAN
  BY CommitsOK DEF IInv, Begin
<1>2. TypeOK'
  BY <1>1 DEF IInv, TypeOK, Begin
<1> QED
  BY <1>2 DEF IInv, RunOK, LagExplained, Stale, Pending, Changed, InBatch, Begin

\* git pull brings changes that the diff is then about, or leaves the clone.
LEMMA PullOK == ASSUME IInv, Pull \/ PullFails PROVE IInv'
<1>1. TypeOK' /\ RunOK'
  <2>1. faults' \in 0 .. MaxFaults
    BY FaultOK DEF IInv, TypeOK, Pull, PullFails
  <2>2. UNCHANGED <<files, batch, before, missed, said, cve_files, upstream>>
        /\ pc = "pulling" /\ pc' = "diffing" /\ clone' \in {clone, upstream}
    BY DEF Pull, Pulled, PullFails
  <2>3. commits' \in BOOLEAN \X BOOLEAN
    BY CommitsOK DEF IInv, TypeOK, Pull, PullFails
  <2> QED
    BY <2>1, <2>2, <2>3 DEF IInv, TypeOK, RunOK
<1>2. CASE Pull
  <2>1. Stale \subseteq missed
    BY <1>2 DEF IInv, RunOK, LagExplained, Pending, Changed, Pull, Pulled
  <2>2. Stale' \subseteq Changed(before, clone') \union Stale
    BY <1>2 DEF IInv, RunOK, Stale, Changed, Pull, Pulled
  <2>3. Pending' = Changed(before, clone')
    BY <1>2 DEF Pending, Pull, Changed
  <2> QED
    BY <1>1, <1>2, <2>1, <2>2, <2>3 DEF IInv, LagExplained, Pull
<1>3. CASE PullFails
  BY <1>1, <1>3 DEF IInv, LagExplained, Stale, Pending, Changed, PullFails
<1> QED
  BY <1>2, <1>3

\* There is nothing to diff between a commit and itself.
LEMMA SameTree ==
    ASSUME HeadsOK, pc = "diffing", ~advanced PROVE Changed(before, clone) = {}
BY DEF HeadsOK, Changed

\* The diff names every file that the pull changed.
LEMMA DiffOK == ASSUME IInv, HeadsOK, Diff PROVE IInv'
<1>0. /\ pc = "diffing" /\ files = {} /\ batch = {}
      /\ UNCHANGED <<upstream, clone, commits, cve_files, before, batch, missed, faults>>
      /\ files' = Changed(before, clone) /\ said' \in {"up to date", "no CVE file", said}
      /\ \/ pc' = "idle" /\ Changed(before, clone) = {}
         \/ pc' = "importing"
  BY SameTree DEF Diff, IInv, RunOK
<1>1. TypeOK' /\ RunOK'
  BY <1>0 DEF IInv, TypeOK, RunOK, Changed
<1>2. Pending = Changed(before, clone) /\ Stale' = Stale
  BY <1>0 DEF Pending, Stale
<1>3. Pending' = Changed(before, clone)
  BY <1>0 DEF Pending, InBatch
<1> QED
  BY <1>0, <1>1, <1>2, <1>3 DEF IInv, LagExplained

-----------------------------------------------------------------------------

\* Whatever becomes of a full batch, it is in the table or still in batch.
LEMMA AddFileOK == ASSUME IInv, NEW c \in Cves, AddFile(c) PROVE IInv'
<1> DEFINE b == batch \union {<<c, clone[c]>>}
<1>1. /\ b \subseteq Cves \X (Contents \ Unreadable)
      /\ \A row \in b : row[2] = clone[row[1]]
      /\ InBatch(b) = InBatch(batch) \union {c}
  <2>1. clone[c] \in Contents \ Unreadable
    BY DEF AddFile, IInv, TypeOK, Trees, RunOK
  <2>2. b \subseteq Cves \X (Contents \ Unreadable)
    <3>1. <<c, clone[c]>> \in Cves \X (Contents \ Unreadable)
      BY <2>1
    <3>2. batch \subseteq Cves \X (Contents \ Unreadable)
      BY DEF IInv, TypeOK
    <3> QED
      BY <3>1, <3>2
  <2>3. \A row \in b : row[2] = clone[row[1]]
    BY DEF IInv, RunOK
  <2>4. InBatch(b) = InBatch(batch) \union {c}
    <3>1. <<c, clone[c]>>[1] = c
      OBVIOUS
    <3> QED
      BY <3>1 DEF InBatch
  <2> QED
    BY <2>2, <2>3, <2>4
<1>2. pc = "importing" /\ Pending = files \union InBatch(batch) /\ c \in files
  BY DEF AddFile, Pending
<1>3. \/ batch' = b /\ UNCHANGED <<cve_files, missed>> /\ faults' \in 0 .. MaxFaults
      \/ batch' = {} /\ BatchStored(b)
  BY FaultOK DEF AddFile, BatchFails, IInv, TypeOK
<1>4. CASE batch' = b /\ UNCHANGED <<cve_files, missed>> /\ faults' \in 0 .. MaxFaults
  <2>1. TypeOK' /\ RunOK'
    BY <1>1, <1>2, <1>4 DEF AddFile, IInv, TypeOK, RunOK
  <2>2. Pending' = Pending /\ Stale' = Stale
    <3>1. pc' = "importing" /\ files' = files \ {c} /\ clone' = clone
      BY <1>2 DEF AddFile
    <3>2. InBatch(batch') = InBatch(batch) \union {c}
      BY <1>1, <1>4
    <3>3. Pending' = files' \union InBatch(batch')
      BY <3>1 DEF Pending, InBatch
    <3>4. Pending' = Pending
      BY <3>1, <3>2, <3>3, <1>2
    <3> QED
      BY <3>1, <3>4, <1>4 DEF Stale
  <2> QED
    BY <1>4, <2>1, <2>2 DEF IInv, LagExplained
<1>5. CASE batch' = {} /\ BatchStored(b)
  <2>1. /\ cve_files' \in Trees
        /\ \A d \in InBatch(b) : cve_files'[d] = clone[d]
        /\ \A d \in Cves \ InBatch(b) : cve_files'[d] = cve_files[d]
    BY <1>1, <1>5, StoredRows DEF IInv, TypeOK
  <2>2. missed' = missed \ InBatch(b) /\ faults' = faults
    BY <1>1, <1>5, StoredRows DEF IInv, TypeOK
  <2>3. pc' = "importing" /\ files' = files \ {c} /\ clone' = clone
    BY <1>2 DEF AddFile
  <2>4. TypeOK' /\ RunOK'
    BY <1>2, <1>5, <2>1, <2>2, <2>3 DEF AddFile, IInv, TypeOK, RunOK
  <2>5. Stale' \subseteq Stale \ InBatch(b)
    BY <2>1, <2>3 DEF Stale, IInv, TypeOK
  <2>6. files' \subseteq Pending'
    BY <2>3 DEF Pending
  <2> QED
    BY <1>1, <1>2, <2>2, <2>3, <2>4, <2>5, <2>6 DEF IInv, LagExplained
<1> QED
  BY <1>3, <1>4, <1>5

\* A file that does not parse is given up on.
LEMMA SkipFileOK == ASSUME IInv, NEW c \in Cves, SkipFile(c) PROVE IInv'
BY DEF SkipFile, IInv, TypeOK, RunOK, LagExplained, Stale, Pending, InBatch

\* The rest of the batch is stored, or given up on, at the end of the run.
LEMMA FinishOK == ASSUME IInv, Finish PROVE IInv'
<1>1. /\ batch \subseteq Cves \X (Contents \ Unreadable)
      /\ \A row \in batch : row[2] = clone[row[1]]
      /\ Stale \subseteq InBatch(batch) \union missed
      /\ InBatch(batch) \subseteq Cves
  BY DEF IInv, TypeOK, RunOK, LagExplained, Pending, InBatch, Finish
<1>2. CASE BatchStored(batch)
  <2>1. /\ cve_files' \in Trees
        /\ \A d \in InBatch(batch) : cve_files'[d] = clone[d]
        /\ \A d \in Cves \ InBatch(batch) : cve_files'[d] = cve_files[d]
    BY <1>1, <1>2, StoredRows DEF IInv, TypeOK
  <2>2. missed' = missed \ InBatch(batch) /\ faults' = faults
    BY <1>1, <1>2, StoredRows DEF IInv, TypeOK
  <2>3. TypeOK' /\ RunOK'
    BY <2>1, <2>2 DEF Finish, IInv, TypeOK, RunOK
  <2>4. Stale' \subseteq Stale \ InBatch(batch)
    BY <2>1 DEF Finish, Stale
  <2> QED
    BY <1>1, <2>2, <2>3, <2>4 DEF IInv, LagExplained
<1>3. CASE BatchFails(batch) /\ missed' = missed \union InBatch(batch)
  <2>1. TypeOK' /\ RunOK'
    <3>1. faults' \in 0 .. MaxFaults
      BY <1>3, FaultOK DEF BatchFails, IInv, TypeOK
    <3> QED
      BY <1>1, <1>3, <3>1 DEF Finish, BatchFails, IInv, TypeOK, RunOK
  <2>2. Stale' = Stale
    BY <1>3 DEF Finish, BatchFails, Stale
  <2> QED
    BY <1>1, <1>3, <2>1, <2>2 DEF IInv, LagExplained
<1> QED
  BY <1>2, <1>3 DEF Finish

\* A killed run leaves its changes missed.
LEMMA KilledOK == ASSUME IInv, Killed PROVE IInv'
<1>1. Pending \subseteq Cves
  BY DEF IInv, TypeOK, Pending, InBatch, Changed
<1>2. TypeOK' /\ RunOK'
  <2>1. faults' \in 0 .. MaxFaults
    BY FaultOK DEF Killed, IInv
  <2> QED
    BY <1>1, <2>1 DEF Killed, IInv, TypeOK, RunOK
<1>3. Stale' = Stale
  BY DEF Killed, Stale
<1> QED
  BY <1>2, <1>3 DEF IInv, LagExplained, Killed

\* What upstream publishes lags behind nothing until it is pulled.
LEMMA PublishOK ==
    ASSUME IInv, NEW c \in Cves, NEW v \in Contents, Publish(c, v) PROVE IInv'
<1>0. commits' \in BOOLEAN \X BOOLEAN
  BY CommitsOK DEF Publish, IInv
<1>1. TypeOK' /\ RunOK'
  BY <1>0 DEF Publish, IInv, TypeOK, RunOK, runVars, Trees
<1>2. Stale' = Stale /\ Pending' = Pending
  BY DEF Publish, Stale, Pending, runVars, Changed, InBatch
<1> QED
  BY <1>1, <1>2 DEF Publish, IInv, LagExplained

\* Nor does what only touches other files.
LEMMA PublishOtherOK == ASSUME IInv, PublishOther PROVE IInv'
<1>0. commits' \in BOOLEAN \X BOOLEAN
  BY CommitsOK DEF PublishOther, IInv
<1>1. TypeOK' /\ RunOK'
  BY <1>0 DEF PublishOther, IInv, TypeOK, RunOK, runVars
<1>2. Stale' = Stale /\ Pending' = Pending
  BY DEF PublishOther, Stale, Pending, runVars, Changed, InBatch
<1> QED
  BY <1>1, <1>2 DEF PublishOther, IInv, LagExplained

\* Every step of a run, and of upstream, preserves the invariant.
LEMMA StepOK == IInv /\ HeadsOK /\ [Next]_vars => IInv'
<1> SUFFICES ASSUME IInv, HeadsOK, [Next]_vars PROVE IInv'
  OBVIOUS
<1>1. CASE UNCHANGED vars
  BY <1>1 DEF vars, runVars, IInv, TypeOK, RunOK, LagExplained, Stale, Pending, Changed, InBatch
<1>2. CASE Run
  BY <1>2, BeginOK, PullOK, DiffOK, FinishOK, AddFileOK, SkipFileOK DEF Run
<1>3. CASE PullFails \/ Killed
  BY <1>3, PullOK, KilledOK
<1>4. CASE PublishOther \/ \E c \in Cves, v \in Contents : Publish(c, v)
  BY <1>4, PublishOK, PublishOtherOK
<1> QED
  BY <1>1, <1>2, <1>3, <1>4 DEF Next

-----------------------------------------------------------------------------

\* The strengthening is an invariant of the script (update_cve.sh:19-67 and
\* import_cve.py:23-90) for every tree, content and batch size.
THEOREM Inductive == Spec => [](IInv /\ HeadsOK)
<1>1. IInv => TypeOK
  BY DEF IInv
<1>2. IInv /\ HeadsOK /\ [Next]_vars => HeadsOK'
  BY <1>1, HeadsStep
<1> QED
  BY <1>2, InitOK, HeadsInitOK, StepOK, PTL DEF Spec

\* The script's state keeps its types, for every tree, content and batch size.
THEOREM TypeCorrect == Spec => []TypeOK
<1>1. IInv => TypeOK
  BY DEF IInv
<1> QED
  BY <1>1, Inductive, PTL

\* No file is lost silently, whatever fails and whatever is published: a row
\* that lags behind the clone is about to be imported or was given up on.
THEOREM LagAccounted == Spec => []LagExplained
<1>1. IInv => LagExplained
  BY DEF IInv
<1> QED
  BY <1>1, Inductive, PTL

-----------------------------------------------------------------------------
(* With the crawl *)

Older(v, w) == v = w \/ Date[v] < Date[w]

\* The clone follows upstream, $BEFORE is behind the clone until the pull, and
\* no file disappears.
Ordered ==
    /\ \A c \in Cves : Older(clone[c], upstream[c])
    /\ pc = "pulling" => \A c \in Cves : Older(before[c], clone[c])
    /\ \A c \in Cves : clone[c] # NoFile => upstream[c] # NoFile

LocalsOK ==
    /\ pc # "importing" => files = {} /\ batch = {}
    /\ \A c \in files : clone[c] # NoFile

RunInv == TypeOK /\ Ordered /\ LocalsOK /\ LagExplained

DbInv == DbTypeOK /\ RunInv /\ HeadsOK
-----------------------------------------------------------------------------
(* The order of the contents *)

\* Contents in the order of their dates: each step of a tree keeps to it.
LEMMA OlderTransitive ==
    ASSUME NEW u \in Contents \union {NoFile}, NEW v \in Contents \union {NoFile},
           NEW w \in Contents \union {NoFile}, Older(u, v), Older(v, w)
    PROVE  /\ Older(u, w)
           /\ v # w => u # w
<1>1. Date[u] \in Nat /\ Date[v] \in Nat /\ Date[w] \in Nat
  BY DateAssumption
<1> QED
  BY <1>1 DEF Older

\* A tree is one of the trees at every CVE.
LEMMA TreeAt ==
    ASSUME TypeOK, NEW c \in Cves
    PROVE  /\ upstream[c] \in Contents \union {NoFile}
           /\ clone[c] \in Contents \union {NoFile}
           /\ before[c] \in Contents \union {NoFile}
           /\ cve_files[c] \in Contents \union {NoFile}
BY DEF TypeOK, Trees

-----------------------------------------------------------------------------
(* The import *)

\* A stored batch gives its CVEs what the clone holds, except those it counts
\* as overtaken.
LEMMA StoredMixed ==
    ASSUME TypeOK, NEW b, b \subseteq Cves \X (Contents \ Unreadable), BatchStored(b)
    PROVE  /\ cve_files' \in Trees
           /\ \A c \in InBatch(b) \ Overtaken(b) : cve_files'[c] = clone[c]
           /\ \A c \in Cves \ InBatch(b) : cve_files'[c] = cve_files[c]
           /\ missed' = (missed \ InBatch(b)) \union Overtaken(b)
           /\ Overtaken(b) \subseteq InBatch(b) /\ InBatch(b) \subseteq Cves
           /\ faults' = faults
<1> DEFINE row(c) == CHOOSE r \in b : r[1] = c
<1>1. ASSUME NEW c \in InBatch(b)
      PROVE  row(c) \in b /\ row(c)[1] = c /\ c \in Cves /\ row(c)[2] \in Contents
  <2>1. \E r \in b : r[1] = c
    BY <1>1 DEF InBatch
  <2>2. row(c) \in b /\ row(c)[1] = c
    BY <2>1
  <2> HIDE DEF row
  <2> QED
    BY <2>2
<1>2. cve_files' = [c \in Cves |-> IF c \in InBatch(b) THEN row(c)[2] ELSE cve_files[c]]
  BY DEF BatchStored
<1> HIDE DEF row
<1>3. cve_files' \in Trees
  BY <1>1, <1>2, TreeAt DEF Trees
<1>4. ASSUME NEW c \in InBatch(b) \ Overtaken(b) PROVE cve_files'[c] = clone[c]
  <2>1. row(c)[2] = clone[c]
    BY <1>1, <1>4 DEF Overtaken
  <2> QED
    BY <1>1, <1>2, <2>1
<1>5. \A c \in Cves \ InBatch(b) : cve_files'[c] = cve_files[c]
  BY <1>2
<1>6. Overtaken(b) \subseteq InBatch(b) /\ InBatch(b) \subseteq Cves
  BY DEF Overtaken, InBatch
<1> QED
  BY <1>3, <1>4, <1>5, <1>6 DEF BatchStored

\* Storing a batch of the run leaves no row behind unaccounted for.
LEMMA StoredAccounts ==
    ASSUME TypeOK, NEW b, b \subseteq Cves \X (Contents \ Unreadable), BatchStored(b),
           clone' = clone, NEW rest, Stale \subseteq rest \union InBatch(b) \union missed
    PROVE  Stale' \subseteq rest \union missed'
<1>1. /\ \A c \in InBatch(b) \ Overtaken(b) : cve_files'[c] = clone[c]
      /\ \A c \in Cves \ InBatch(b) : cve_files'[c] = cve_files[c]
      /\ missed' = (missed \ InBatch(b)) \union Overtaken(b)
  BY StoredMixed
<1>2. ASSUME NEW c \in Stale', c \notin Overtaken(b) PROVE c \in Stale /\ c \notin InBatch(b)
  BY <1>1, <1>2 DEF Stale
<1> QED
  BY <1>1, <1>2

\* A run starts with $BEFORE at the clone.
LEMMA RunBeginOK == ASSUME RunInv, Begin PROVE RunInv'
<1>0. commits' \in BOOLEAN \X BOOLEAN
  BY CommitsOK DEF Begin, RunInv
<1>1. TypeOK' /\ LocalsOK'
  BY <1>0 DEF Begin, RunInv, TypeOK, LocalsOK
<1>2. Ordered'
  BY DEF Begin, RunInv, Ordered, Older
<1>3. LagExplained'
  BY DEF Begin, RunInv, LagExplained, Stale, Pending, Changed, InBatch
<1> QED
  BY <1>1, <1>2, <1>3 DEF RunInv

\* The pull: what it changes is in the diff, for nothing comes back to what
\* $BEFORE held.
LEMMA RunPullOK == ASSUME RunInv, Pull PROVE RunInv'
<1>1. /\ pc = "pulling" /\ pc' = "diffing" /\ clone' = upstream
      /\ UNCHANGED <<upstream, cve_files, before, files, batch, said, missed, faults>>
      /\ commits' \in BOOLEAN \X BOOLEAN
  BY CommitsOK DEF Pull, Pulled, RunInv
<1>2. TypeOK' /\ LocalsOK'
  BY <1>1 DEF RunInv, TypeOK, LocalsOK
<1>3. Ordered'
  BY <1>1 DEF RunInv, Ordered, Older
<1>4. LagExplained'
  <2> SUFFICES ASSUME NEW c \in Cves, upstream[c] # NoFile, cve_files[c] # upstream[c],
                      c \notin missed
               PROVE  before[c] # upstream[c]
    BY <1>1 DEF LagExplained, Stale, Pending, Changed
  <2>1. Older(before[c], clone[c]) /\ Older(clone[c], upstream[c])
    BY <1>1 DEF RunInv, Ordered
  <2>2. CASE clone[c] # upstream[c]
    BY <2>1, <2>2, OlderTransitive, TreeAt DEF RunInv
  <2>3. CASE clone[c] = upstream[c]
    <3>1. c \in Stale
      BY <2>3 DEF Stale
    <3>2. c \in Changed(before, clone)
      BY <1>1, <3>1 DEF RunInv, LagExplained, Pending
    <3> QED
      BY <2>3, <3>2 DEF Changed
  <2> QED
    BY <2>2, <2>3
<1> QED
  BY <1>2, <1>3, <1>4 DEF RunInv

\* A failed pull leaves the clone where it, or the crawl, had brought it.
LEMMA RunPullFailsOK == ASSUME RunInv, PullFails PROVE RunInv'
<1>1. /\ pc = "pulling" /\ pc' = "diffing"
      /\ UNCHANGED <<upstream, clone, commits, cve_files, before, files, batch, said, missed>>
      /\ faults' \in 0 .. MaxFaults
  BY FaultOK DEF PullFails, RunInv
<1>2. TypeOK' /\ LocalsOK'
  BY <1>1 DEF RunInv, TypeOK, LocalsOK
<1>3. Ordered'
  BY <1>1 DEF RunInv, Ordered, Older
<1>4. LagExplained'
  BY <1>1 DEF RunInv, LagExplained, Stale, Pending, Changed
<1> QED
  BY <1>2, <1>3, <1>4 DEF RunInv

\* The diff names every file that left $BEFORE, whoever pulled it.
LEMMA RunDiffOK == ASSUME RunInv, HeadsOK, Diff PROVE RunInv'
<1>1. /\ pc = "diffing" /\ files' = Changed(before, clone) /\ batch = {}
      /\ pc' = IF Changed(before, clone) = {} THEN "idle" ELSE "importing"
      /\ said' \in {"up to date", "no CVE file", said}
      /\ UNCHANGED <<upstream, clone, commits, cve_files, before, batch, missed, faults>>
  BY SameTree DEF Diff, RunInv, LocalsOK
<1>2. TypeOK'
  BY <1>1 DEF RunInv, TypeOK, Changed
<1>3. Ordered' /\ LocalsOK'
  BY <1>1 DEF RunInv, Ordered, Older, LocalsOK, Changed
<1>4. LagExplained'
  <2>1. Pending' = Pending
    BY <1>1 DEF Pending, InBatch
  <2>2. Stale' = Stale
    BY <1>1 DEF Stale
  <2> QED
    BY <1>1, <2>1, <2>2 DEF RunInv, LagExplained
<1> QED
  BY <1>2, <1>3, <1>4 DEF RunInv

\* A file read into the batch is accounted for until the batch is stored.
LEMMA RunAddFileOK == ASSUME RunInv, NEW c \in Cves, AddFile(c) PROVE RunInv'
<1> DEFINE b == batch \union {<<c, clone[c]>>}
<1>1. /\ pc = "importing" /\ c \in files /\ clone[c] \notin Unreadable
      /\ files' = files \ {c}
      /\ UNCHANGED <<upstream, clone, commits, pc, before, said>>
      /\ \/ batch' = b /\ UNCHANGED <<cve_files, missed>> /\ faults' \in 0 .. MaxFaults
         \/ batch' = {} /\ BatchStored(b)
  <2>1. faults' = faults => faults' \in 0 .. MaxFaults
    BY DEF RunInv, TypeOK
  <2> QED
    BY <2>1, FaultOK DEF AddFile, BatchFails, RunInv
<1>2. b \subseteq Cves \X (Contents \ Unreadable)
  <2>1. clone[c] \in Contents \ Unreadable
    BY <1>1, TreeAt DEF RunInv, LocalsOK
  <2>2. <<c, clone[c]>> \in Cves \X (Contents \ Unreadable)
    BY <2>1
  <2>3. batch \subseteq Cves \X (Contents \ Unreadable)
    BY DEF RunInv, TypeOK
  <2> QED
    BY <2>2, <2>3
<1>3. InBatch(b) = InBatch(batch) \union {c}
  <2>1. <<c, clone[c]>>[1] = c
    OBVIOUS
  <2> QED
    BY <2>1 DEF InBatch
<1>4. Pending = files' \union InBatch(b) /\ Stale \subseteq Pending \union missed
  BY <1>1, <1>3 DEF Pending, RunInv, LagExplained
<1> HIDE DEF b
<1>5. Ordered' /\ LocalsOK'
  BY <1>1 DEF RunInv, Ordered, Older, LocalsOK
<1>6. CASE batch' = b /\ UNCHANGED <<cve_files, missed>> /\ faults' \in 0 .. MaxFaults
  <2>1. TypeOK'
    BY <1>1, <1>2, <1>6 DEF RunInv, TypeOK
  <2>2. Pending' = files' \union InBatch(b) /\ Stale' = Stale
    BY <1>1, <1>6 DEF Pending, Stale, InBatch
  <2> QED
    BY <1>4, <1>5, <1>6, <2>1, <2>2 DEF RunInv, LagExplained
<1>7. CASE batch' = {} /\ BatchStored(b)
  <2>1. cve_files' \in Trees /\ missed' \subseteq Cves /\ faults' = faults
    <3>1. missed \subseteq Cves
      BY DEF RunInv, TypeOK
    <3> QED
      BY <1>2, <1>7, <3>1, StoredMixed DEF RunInv
  <2>2. TypeOK'
    BY <1>1, <1>7, <2>1 DEF RunInv, TypeOK
  <2>3. Stale' \subseteq files' \union missed'
    BY <1>1, <1>2, <1>4, <1>7, StoredAccounts DEF RunInv
  <2>4. files' \subseteq Pending'
    BY <1>1 DEF Pending
  <2> QED
    BY <1>5, <2>2, <2>3, <2>4 DEF RunInv, LagExplained
<1> QED
  BY <1>1, <1>6, <1>7

\* A file that does not parse is given up on, with the crawl running as without.
LEMMA RunSkipFileOK == ASSUME RunInv, NEW c \in Cves, SkipFile(c) PROVE RunInv'
<1>1. TypeOK' /\ LocalsOK'
  BY DEF SkipFile, RunInv, TypeOK, LocalsOK
<1>2. Ordered'
  BY DEF SkipFile, RunInv, Ordered, Older
<1>3. LagExplained'
  BY DEF SkipFile, RunInv, LagExplained, Stale, Pending, InBatch
<1> QED
  BY <1>1, <1>2, <1>3 DEF RunInv

\* The end of a run accounts for its last batch, with the crawl running.
LEMMA RunFinishOK == ASSUME RunInv, Finish PROVE RunInv'
<1>1. /\ pc = "importing" /\ files = {} /\ pc' = "idle" /\ batch' = {} /\ said' = "done"
      /\ UNCHANGED <<upstream, clone, commits, before, files>>
      /\ \/ BatchStored(batch)
         \/ BatchFails(batch) /\ missed' = missed \union InBatch(batch)
  BY DEF Finish
<1>2. /\ batch \subseteq Cves \X (Contents \ Unreadable)
      /\ InBatch(batch) \subseteq Cves /\ missed \subseteq Cves
      /\ Stale \subseteq InBatch(batch) \union missed
  BY <1>1 DEF RunInv, TypeOK, LagExplained, Pending, InBatch
<1>3. Ordered' /\ LocalsOK'
  BY <1>1 DEF RunInv, Ordered, Older, LocalsOK
<1>4. CASE BatchStored(batch)
  <2>1. cve_files' \in Trees /\ missed' \subseteq Cves /\ faults' = faults
    BY <1>2, <1>4, StoredMixed DEF RunInv
  <2>2. TypeOK'
    BY <1>1, <2>1 DEF RunInv, TypeOK
  <2>3. Stale \subseteq {} \union InBatch(batch) \union missed
    BY <1>2
  <2>4. Stale' \subseteq {} \union missed'
    BY <1>1, <1>2, <1>4, <2>3, StoredAccounts DEF RunInv
  <2> QED
    BY <1>3, <2>2, <2>4 DEF RunInv, LagExplained
<1>5. CASE BatchFails(batch) /\ missed' = missed \union InBatch(batch)
  <2>1. cve_files' = cve_files /\ faults' \in 0 .. MaxFaults
    <3>1. faults' = faults => faults' \in 0 .. MaxFaults
      BY DEF RunInv, TypeOK
    <3> QED
      BY <1>5, <3>1, FaultOK DEF BatchFails, RunInv
  <2>2. TypeOK'
    BY <1>1, <1>2, <1>5, <2>1 DEF RunInv, TypeOK
  <2>3. Stale' = Stale
    BY <1>1, <2>1 DEF Stale
  <2> QED
    BY <1>2, <1>3, <1>5, <2>2, <2>3 DEF RunInv, LagExplained
<1> QED
  BY <1>1, <1>4, <1>5

\* A killed run leaves its changes missed, with the crawl running.
LEMMA RunKilledOK == ASSUME RunInv, Killed PROVE RunInv'
<1>1. Pending \subseteq Cves
  BY DEF RunInv, TypeOK, Pending, InBatch, Changed
<1>2. TypeOK'
  BY <1>1, FaultOK DEF Killed, RunInv, TypeOK
<1>3. Ordered' /\ LocalsOK'
  BY DEF Killed, RunInv, Ordered, Older, LocalsOK
<1>4. Stale' = Stale
  BY DEF Killed, Stale
<1> QED
  BY <1>2, <1>3, <1>4 DEF RunInv, LagExplained, Killed

-----------------------------------------------------------------------------
(* Upstream and the crawl *)

\* The steps of the crawl that neither pull nor store, and a commit to other
\* files, leave the trees, the table and the import's locals as they were.
LEMMA RunUntouched ==
    ASSUME RunInv, UNCHANGED <<upstream, clone, cve_files, runVars, said, missed>>,
           commits' \in BOOLEAN \X BOOLEAN, faults' \in 0 .. MaxFaults
    PROVE  RunInv'
<1>1. UNCHANGED <<upstream, clone, cve_files, pc, before, files, batch, said, missed>>
  BY DEF runVars
<1>2. TypeOK'
  BY <1>1 DEF RunInv, TypeOK
<1>3. Ordered' /\ LocalsOK'
  BY <1>1 DEF RunInv, Ordered, Older, LocalsOK
<1>4. LagExplained'
  BY <1>1 DEF RunInv, LagExplained, Stale, Pending, Changed, InBatch
<1> QED
  BY <1>2, <1>3, <1>4 DEF RunInv

\* Upstream moves a file to a later date only.
LEMMA PublishNewerOK == ASSUME RunInv, PublishNewer PROVE RunInv'
<1>0. CASE PublishOther
  <2>1. commits' \in BOOLEAN \X BOOLEAN
    BY <1>0, CommitsOK DEF PublishOther, RunInv
  <2>2. faults' \in 0 .. MaxFaults
    BY <1>0 DEF PublishOther, RunInv, TypeOK
  <2> QED
    BY <1>0, <2>1, <2>2, RunUntouched DEF PublishOther
<1> SUFFICES ASSUME ~PublishOther PROVE RunInv'
  BY <1>0
<1>1. PICK c \in Cves, v \in Contents : Date[upstream[c]] < Date[v] /\ Publish(c, v)
  BY DEF PublishNewer
<1>2. /\ upstream' = [upstream EXCEPT ![c] = v]
      /\ commits' \in BOOLEAN \X BOOLEAN
      /\ UNCHANGED <<clone, cve_files, pc, before, files, batch, said, missed, faults>>
  BY <1>1, CommitsOK DEF Publish, runVars, RunInv
<1>3. TypeOK' /\ LocalsOK'
  BY <1>2 DEF RunInv, TypeOK, Trees, LocalsOK
<1>4. Ordered'
  <2>1. \A d \in Cves : upstream'[d] = IF d = c THEN v ELSE upstream[d]
    BY <1>2 DEF RunInv, TypeOK, Trees
  <2>2. v \in Contents \union {NoFile} /\ v # NoFile
    BY UpdateCveAssumption
  <2>3. Older(clone[c], v)
    <3>1. Older(upstream[c], v) /\ Older(clone[c], upstream[c])
      BY <1>1 DEF Older, RunInv, Ordered
    <3> QED
      BY <2>2, <3>1, OlderTransitive, TreeAt DEF RunInv
  <2>4. \A d \in Cves : Older(clone[d], upstream'[d])
    BY <2>1, <2>3 DEF RunInv, Ordered
  <2> QED
    BY <1>2, <2>1, <2>2, <2>4 DEF RunInv, Ordered, Older
<1>5. Stale' = Stale /\ Pending' = Pending
  BY <1>2 DEF Stale, Pending, Changed, InBatch
<1> QED
  BY <1>2, <1>3, <1>4, <1>5 DEF RunInv, LagExplained

\* The crawl's pull moves the clone under the run; what the run will not import
\* is counted as missed until a worker stores it.
LEMMA CrawlPullOK == ASSUME RunInv, CrawlPull PROVE RunInv'
<1>1. /\ clone' = upstream /\ commits' \in BOOLEAN \X BOOLEAN
      /\ UNCHANGED <<upstream, cve_files, pc, before, files, batch, said, faults>>
      /\ missed' = missed \union (Changed(clone, upstream) \ Pending')
  BY CommitsOK DEF CrawlPull, Pulled, runVars, RunInv
<1>2. TypeOK'
  <2>1. missed' \subseteq Cves
    BY <1>1 DEF RunInv, TypeOK, Changed
  <2> QED
    BY <1>1, <2>1 DEF RunInv, TypeOK
<1>3. Ordered'
  <2>1. pc = "pulling" => \A c \in Cves : Older(before[c], upstream[c])
    BY OlderTransitive, TreeAt DEF RunInv, Ordered
  <2> QED
    BY <1>1, <2>1 DEF RunInv, Ordered, Older
<1>4. LocalsOK'
  BY <1>1 DEF RunInv, LocalsOK, Ordered, TypeOK
<1>5. LagExplained'
  <2> SUFFICES ASSUME NEW c \in Cves, upstream[c] # NoFile, cve_files[c] # upstream[c]
               PROVE  c \in Pending' \union missed'
    BY <1>1 DEF LagExplained, Stale
  <2>1. CASE clone[c] # upstream[c]
    <3>1. c \in Changed(clone, upstream)
      BY <2>1 DEF Changed
    <3> QED
      BY <1>1, <3>1
  <2>2. CASE clone[c] = upstream[c]
    <3>1. c \in Stale
      BY <2>2 DEF Stale
    <3>2. c \in Pending => c \in Pending'
      BY <1>1, <2>2 DEF Pending, Changed, InBatch
    <3> QED
      BY <1>1, <3>1, <3>2 DEF RunInv, LagExplained
  <2> QED
    BY <2>1, <2>2
<1> QED
  BY <1>2, <1>3, <1>4, <1>5 DEF RunInv

\* A worker sets its row to the file of the clone, or is counted as missing it.
LEMMA StoreOK == ASSUME DbTypeOK, RunInv, NEW c \in Cves, Store(c) PROVE RunInv'
<1> DEFINE w == worker[c]
<1>1. w.data \in Contents \union {NoFile}
  BY DEF DbTypeOK
<1>2. UNCHANGED <<upstream, clone, commits, pc, before, files, batch, said, faults>>
  BY DEF Store, runVars
<1>3. \/ UNCHANGED <<cve_files, missed>>
      \/ /\ cve_files' = [cve_files EXCEPT ![c] = w.data]
         /\ missed' = (missed \ {c}) \union (IF w.data = clone[c] THEN {} ELSE {c})
  BY DEF Store
<1>4. TypeOK'
  <2>1. cve_files' \in Trees /\ missed' \subseteq Cves
    BY <1>1, <1>3 DEF RunInv, TypeOK, Trees
  <2> QED
    BY <1>2, <2>1 DEF RunInv, TypeOK
<1>5. Ordered' /\ LocalsOK'
  BY <1>2 DEF RunInv, Ordered, Older, LocalsOK
<1>6. Pending' = Pending
  BY <1>2 DEF Pending, Changed, InBatch
<1> HIDE DEF w
<1>7. Stale' \subseteq Pending \union missed'
  <2>1. CASE UNCHANGED <<cve_files, missed>>
    BY <1>2, <2>1 DEF RunInv, LagExplained, Stale
  <2>2. CASE /\ cve_files' = [cve_files EXCEPT ![c] = w.data]
             /\ missed' = (missed \ {c}) \union (IF w.data = clone[c] THEN {} ELSE {c})
    <3>1. \A d \in Cves : cve_files'[d] = IF d = c THEN w.data ELSE cve_files[d]
      BY <2>2 DEF RunInv, TypeOK, Trees
    <3>2. ASSUME NEW d \in Stale', d # c PROVE d \in Stale
      BY <1>2, <3>1, <3>2 DEF Stale
    <3>3. c \in Stale' => c \in missed'
      BY <1>2, <2>2, <3>1 DEF Stale
    <3> QED
      BY <2>2, <3>2, <3>3 DEF RunInv, LagExplained
  <2> QED
    BY <1>3, <2>1, <2>2
<1> QED
  BY <1>4, <1>5, <1>6, <1>7 DEF RunInv, LagExplained

\* The types of the crawl's own state.
CrawlTypeOK ==
    /\ file_hashes \in Trees
    /\ crawl \in {"idle", "walking", "working"}
    /\ worker \in [Cves -> [step : {"queued", "hashed", "loaded", "done"},
                            hash : Contents \union {NoFile},
                            data : (Contents \ Unreadable) \union {NoFile}]]
    /\ overtaken \subseteq Cves

\* A step of the import leaves the locals of the crawl as they are.
LEMMA BesideOK == ASSUME CrawlTypeOK, Beside PROVE CrawlTypeOK'
BY DEF Beside, CrawlTypeOK, crawlVars

\* A worker moves to locals of the right types.
LEMMA WorkerOK ==
    ASSUME CrawlTypeOK, NEW c \in Cves,
           NEW step \in {"queued", "hashed", "loaded", "done"},
           NEW hash \in Contents \union {NoFile},
           NEW data \in (Contents \ Unreadable) \union {NoFile},
           worker' = [worker EXCEPT ![c] = Worker(step, hash, data)],
           UNCHANGED <<crawl, overtaken, file_hashes>>
    PROVE  CrawlTypeOK'
<1>1. Worker(step, hash, data) \in
        [step : {"queued", "hashed", "loaded", "done"}, hash : Contents \union {NoFile},
         data : (Contents \ Unreadable) \union {NoFile}]
  BY DEF Worker
<1> QED
  BY <1>1 DEF CrawlTypeOK

\* Every step of the crawl keeps the types of both programs and the import's
\* invariant.
LEMMA CrawlStepOK ==
    ASSUME RunInv, CrawlTypeOK,
           Crawl \/ CrawlPullFails \/ CrawlKilled \/ \E c \in Cves : WorkerFails(c)
    PROVE  RunInv' /\ CrawlTypeOK'
<1>0. faults \in 0 .. MaxFaults /\ commits \in BOOLEAN \X BOOLEAN /\ TypeOK
  BY DEF RunInv, TypeOK
<1>1. NoFile \in (Contents \ Unreadable) \union {NoFile} /\ NoFile \in Contents \union {NoFile}
  OBVIOUS
<1>2. CASE CrawlPull
  BY <1>2, CrawlPullOK DEF CrawlPull, CrawlTypeOK
<1>3. CASE CrawlPullFails
  BY <1>0, <1>3, FaultOK, RunUntouched DEF CrawlPullFails, CrawlTypeOK
<1>4. CASE Walk
  <2>1. RunInv'
    BY <1>0, <1>4, RunUntouched DEF Walk, vars
  <2>2. CrawlTypeOK'
    BY <1>4 DEF Walk, CrawlTypeOK, Done, Worker
  <2> QED
    BY <2>1, <2>2
<1>5. ASSUME NEW c \in Cves, Hash(c) PROVE RunInv' /\ CrawlTypeOK'
  <2>1. RunInv'
    BY <1>0, <1>5, RunUntouched DEF Hash, vars
  <2>2. clone[c] \in Contents \union {NoFile}
    BY <1>0, TreeAt
  <2>3. CrawlTypeOK'
    BY <1>1, <1>5, <2>2, WorkerOK DEF Hash, Step
  <2> QED
    BY <2>1, <2>3
<1>6. ASSUME NEW c \in Cves, Load(c) PROVE RunInv' /\ CrawlTypeOK'
  <2>1. RunInv'
    BY <1>0, <1>6, RunUntouched DEF Load, vars
  <2>2. clone[c] \in Contents \union {NoFile} /\ worker[c].hash \in Contents \union {NoFile}
    BY <1>0, TreeAt DEF CrawlTypeOK
  <2>3. UNCHANGED <<crawl, overtaken, file_hashes>>
    BY <1>6 DEF Load, Step
  <2>4. CASE clone[c] \in Unreadable
    <3>1. worker' = [worker EXCEPT ![c] = Worker("done", NoFile, NoFile)]
      BY <1>6, <2>4 DEF Load, Step, Done
    <3> QED
      BY <1>1, <2>1, <2>3, <3>1, WorkerOK
  <2>5. CASE clone[c] \notin Unreadable
    <3>1. worker' = [worker EXCEPT ![c] = Worker("loaded", worker[c].hash, clone[c])]
      BY <1>6, <2>5 DEF Load, Step
    <3>2. clone[c] \in (Contents \ Unreadable) \union {NoFile}
      BY <2>2, <2>5
    <3> QED
      BY <2>1, <2>2, <2>3, <3>1, <3>2, WorkerOK
  <2> QED
    BY <2>4, <2>5
<1>7. ASSUME NEW c \in Cves, Store(c) PROVE RunInv' /\ CrawlTypeOK'
  <2>1. DbTypeOK
    BY <1>0 DEF DbTypeOK, CrawlTypeOK
  <2>2. worker[c].hash \in Contents \union {NoFile}
    BY DEF CrawlTypeOK
  <2>3. file_hashes' \in Trees /\ overtaken' \subseteq Cves /\ crawl' = crawl
    BY <1>7, <2>2 DEF Store, CrawlTypeOK, Trees
  <2>4. Done \in [step : {"queued", "hashed", "loaded", "done"}, hash : Contents \union {NoFile},
                  data : (Contents \ Unreadable) \union {NoFile}]
    BY DEF Done, Worker
  <2>5. CrawlTypeOK'
    BY <1>7, <2>3, <2>4 DEF Store, CrawlTypeOK
  <2> QED
    BY <1>7, <2>1, <2>5, StoreOK
<1>8. ASSUME NEW c \in Cves, WorkerFails(c) PROVE RunInv' /\ CrawlTypeOK'
  <2>1. RunInv'
    BY <1>0, <1>8, FaultOK, RunUntouched DEF WorkerFails
  <2>2. CrawlTypeOK'
    BY <1>1, <1>8, WorkerOK DEF WorkerFails, Step, Done
  <2> QED
    BY <2>1, <2>2
<1>9. CASE CrawlEnds
  <2>1. RunInv'
    BY <1>0, <1>9, RunUntouched DEF CrawlEnds, vars
  <2> QED
    BY <1>9, <2>1 DEF CrawlEnds, CrawlTypeOK
<1>10. CASE CrawlKilled
  <2>1. RunInv'
    BY <1>0, <1>10, FaultOK, RunUntouched DEF CrawlKilled
  <2>2. CrawlTypeOK'
    BY <1>10 DEF CrawlKilled, CrawlTypeOK, Done, Worker
  <2> QED
    BY <2>1, <2>2
<1> QED
  BY <1>2, <1>3, <1>4, <1>5, <1>6, <1>7, <1>8, <1>9, <1>10 DEF Crawl

-----------------------------------------------------------------------------
(* Both programs *)

\* What is the same commit has the same tree, whichever program pulls.
LEMMA HeadsDbStep == ASSUME TypeOK, HeadsOK, [DbNext]_dbVars PROVE HeadsOK'
<1>1. CASE [Next]_vars
  BY <1>1, HeadsStep
<1>2. CASE CrawlPull
  BY <1>2, HeadsPulled DEF CrawlPull, runVars
<1>3. CASE Crawl \/ CrawlPullFails \/ CrawlKilled \/ \E c \in Cves : WorkerFails(c)
  <2>1. CrawlPull \/ UNCHANGED <<upstream, clone, commits, runVars>>
    BY <1>3 DEF Crawl, Walk, CrawlEnds, Hash, Load, Store, CrawlPullFails, CrawlKilled,
                WorkerFails, vars
  <2> QED
    BY <1>2, <2>1, HeadsKept DEF runVars
<1>4. CASE UNCHANGED dbVars
  BY <1>1, <1>4 DEF dbVars
<1> QED
  BY <1>1, <1>3, <1>4 DEF DbNext, PublishNewer, Next

\* Both programs start with nothing in flight.
LEMMA DbInitOK == DbInit => DbInv
<1> SUFFICES ASSUME DbInit PROVE DbInv
  OBVIOUS
<1>1. TypeOK /\ LagExplained /\ HeadsOK
  BY InitOK, HeadsInitOK DEF DbInit, IInv
<1>2. LocalsOK
  BY DEF DbInit, Init, LocalsOK
<1>3. Ordered
  BY DEF DbInit, Init, Ordered, Older
<1>4. CrawlTypeOK
  BY <1>1 DEF DbInit, TypeOK, CrawlTypeOK, Done, Worker
<1> QED
  BY <1>1, <1>2, <1>3, <1>4 DEF DbInv, RunInv, DbTypeOK, CrawlTypeOK

\* Every step of either program, and of upstream, preserves the invariant of both.
LEMMA DbStepOK == DbInv /\ [DbNext]_dbVars => DbInv'
<1> SUFFICES ASSUME RunInv, HeadsOK, CrawlTypeOK, [DbNext]_dbVars
             PROVE  RunInv' /\ CrawlTypeOK'
  BY HeadsDbStep DEF DbInv, RunInv, DbTypeOK, CrawlTypeOK
<1>1. RunInv /\ HeadsOK /\ CrawlTypeOK
  OBVIOUS
<1>2. CASE PublishNewer
  BY <1>1, <1>2, PublishNewerOK DEF PublishNewer, CrawlTypeOK, crawlVars
<1>3. CASE Run /\ Beside
  <2>1. RunInv'
    BY <1>1, <1>3, RunBeginOK, RunPullOK, RunDiffOK, RunFinishOK, RunAddFileOK, RunSkipFileOK
    DEF Run
  <2> QED
    BY <1>1, <1>3, <2>1, BesideOK
<1>4. CASE (PullFails \/ Killed) /\ Beside
  BY <1>1, <1>4, RunPullFailsOK, RunKilledOK, BesideOK
<1>5. CASE Crawl \/ CrawlPullFails \/ CrawlKilled \/ \E c \in Cves : WorkerFails(c)
  BY <1>1, <1>5, CrawlStepOK
<1>6. CASE UNCHANGED dbVars
  <2>1. RunInv'
    BY <1>1, <1>6, RunUntouched DEF dbVars, vars, RunInv, TypeOK
  <2> QED
    BY <1>1, <1>6, <2>1 DEF dbVars, crawlVars, CrawlTypeOK
<1> QED
  BY <1>2, <1>3, <1>4, <1>5, <1>6 DEF DbNext

\* The order of the trees and the account of the rows that lag are an invariant
\* of both programs over one clone (update_cve.sh, import_cve.py,
\* update_cve_db.py).
THEOREM DbInductive == DbSpec => []DbInv
BY DbInitOK, DbStepOK, PTL DEF DbSpec

\* The state both programs share, and their locals, keep their types.
THEOREM DbTypeCorrect == DbSpec => []DbTypeOK
<1>1. DbInv => DbTypeOK
  BY DEF DbInv
<1> QED
  BY <1>1, DbInductive, PTL

\* With a crawl that pulls under the import, a row that lags behind the clone is
\* still about to be imported or was given up on: neither program loses a file
\* silently to the other (update_cve.sh:21-34, update_cve_db.py:18-75).
THEOREM DbLagAccounted == DbSpec => []LagExplained
<1>1. DbInv => LagExplained
  BY DEF DbInv, RunInv
<1> QED
  BY <1>1, DbInductive, PTL
-----------------------------------------------------------------------------
(* What the crawl skips *)

\* The rows, the recorded hashes and what either program has in hand are read
\* from the clone; a worker hashes before it loads; and the content of a row is
\* the one its hash is of, or a later one, unless the import has overtaken it.
RowsOrdered ==
    \A c \in Cves :
        /\ Older(cve_files[c], clone[c]) /\ Older(file_hashes[c], clone[c])
        /\ c \notin overtaken => Older(file_hashes[c], cve_files[c])

FromClone(b) == \A row \in b : Older(row[2], clone[row[1]])

WorkerOrdered(c) ==
    LET w == worker[c]
    IN  /\ w.step \in {"hashed", "loaded"} => Older(w.hash, clone[c])
        /\ w.step = "loaded" => Older(w.hash, w.data) /\ Older(w.data, clone[c])

HashInv == RowsOrdered /\ FromClone(batch) /\ \A c \in Cves : WorkerOrdered(c)

\* A file that the crawl would skip is in the table as it is in the clone.
SkipOK ==
    \A c \in Cves \ overtaken : file_hashes[c] = clone[c] => cve_files[c] = clone[c]

\* Two contents each older than the other are the same.
LEMMA OlderBoth ==
    ASSUME NEW v \in Contents \union {NoFile}, NEW w \in Contents \union {NoFile},
           Older(v, w), Older(w, v)
    PROVE  v = w
<1>1. Date[v] \in Nat /\ Date[w] \in Nat
  BY DateAssumption
<1> QED
  BY <1>1 DEF Older

\* The hash is older than the row, and the row than the file: where the hash is
\* the file's, so is the row.
LEMMA HashInvSkips == ASSUME TypeOK, CrawlTypeOK, HashInv PROVE SkipOK
<1> SUFFICES ASSUME NEW c \in Cves \ overtaken, file_hashes[c] = clone[c]
             PROVE  cve_files[c] = clone[c]
  BY DEF SkipOK
<1>1. Older(cve_files[c], clone[c]) /\ Older(clone[c], cve_files[c])
  BY DEF HashInv, RowsOrdered
<1> QED
  BY <1>1, OlderBoth, TreeAt

\* What is older than the clone is older than the clone a pull brings.
LEMMA PulledFrom ==
    ASSUME TypeOK, Ordered, clone' \in {clone, upstream}, NEW c \in Cves,
           NEW v \in Contents \union {NoFile}, Older(v, clone[c])
    PROVE  Older(v, clone'[c])
<1>1. clone[c] \in Contents \union {NoFile} /\ upstream[c] \in Contents \union {NoFile}
  BY TreeAt
<1>2. Older(clone[c], upstream[c])
  BY DEF Ordered
<1> QED
  BY <1>1, <1>2, OlderTransitive

\* A step that stores nothing and gives no worker anything, with or without a
\* pull, keeps the order.
LEMMA HashKept ==
    ASSUME TypeOK, CrawlTypeOK, Ordered, HashInv,
           clone' \in {clone, upstream}, UNCHANGED <<cve_files, file_hashes>>,
           overtaken \subseteq overtaken', batch' \subseteq batch,
           \A c \in Cves : worker'[c] = worker[c] \/ worker'[c].step \in {"queued", "done"}
    PROVE  HashInv'
<1>1. RowsOrdered'
  <2> SUFFICES ASSUME NEW c \in Cves
               PROVE  /\ Older(cve_files[c], clone'[c]) /\ Older(file_hashes[c], clone'[c])
                      /\ c \notin overtaken' => Older(file_hashes[c], cve_files[c])
    BY DEF RowsOrdered, Older
  <2>1. cve_files[c] \in Contents \union {NoFile} /\ file_hashes[c] \in Contents \union {NoFile}
    BY TreeAt DEF CrawlTypeOK, Trees
  <2> QED
    BY <2>1, PulledFrom DEF HashInv, RowsOrdered
<1>2. FromClone(batch)'
  <2> SUFFICES ASSUME NEW row \in batch PROVE Older(row[2], clone'[row[1]])
    BY DEF FromClone, Older
  <2>1. row[1] \in Cves /\ row[2] \in Contents \union {NoFile}
    BY DEF TypeOK
  <2> QED
    BY <2>1, PulledFrom DEF HashInv, FromClone
<1>3. ASSUME NEW c \in Cves PROVE WorkerOrdered(c)'
  <2>1. CASE worker'[c].step \in {"queued", "done"}
    BY <2>1 DEF WorkerOrdered
  <2>2. CASE worker'[c] = worker[c]
    <3>1. worker[c].hash \in Contents \union {NoFile} /\ worker[c].data \in Contents \union {NoFile}
      BY DEF CrawlTypeOK
    <3>2. WorkerOrdered(c)
      BY DEF HashInv
    <3>3. /\ worker[c].step \in {"hashed", "loaded"} => Older(worker[c].hash, clone'[c])
          /\ worker[c].step = "loaded" => /\ Older(worker[c].hash, worker[c].data)
                                         /\ Older(worker[c].data, clone'[c])
      BY <3>1, <3>2, PulledFrom DEF WorkerOrdered
    <3> QED
      BY <2>2, <3>3 DEF WorkerOrdered, Older
  <2> QED
    BY <2>1, <2>2
<1> QED
  BY <1>1, <1>2, <1>3 DEF HashInv

\* A batch that is stored gives each row a content the clone has or had: the
\* clone's, the row's own, or one that overtakes it.
LEMMA HashBatchStored ==
    ASSUME TypeOK, CrawlTypeOK, HashInv, Beside, clone' = clone, batch' = {},
           NEW b, b \subseteq Cves \X (Contents \ Unreadable), FromClone(b), BatchStored(b)
    PROVE  HashInv'
<1> DEFINE row(c) == CHOOSE r \in b : r[1] = c
<1>1. ASSUME NEW c \in Cves PROVE Older(cve_files'[c], clone[c])
  <2>1. cve_files'[c] = IF c \in InBatch(b) THEN row(c)[2] ELSE cve_files[c]
    BY DEF BatchStored
  <2>2. CASE c \in InBatch(b)
    <3>1. \E r \in b : r[1] = c
      BY <2>2 DEF InBatch
    <3>2. row(c) \in b /\ row(c)[1] = c
      BY <3>1
    <3> HIDE DEF row
    <3> QED
      BY <2>1, <2>2, <3>2 DEF FromClone
  <2>3. CASE c \notin InBatch(b)
    BY <2>1, <2>3 DEF HashInv, RowsOrdered
  <2> QED
    BY <2>2, <2>3
<1>2. /\ UNCHANGED <<file_hashes, worker>>
      /\ \A c \in Cves : c \notin overtaken'
            => c \notin overtaken /\ cve_files'[c] \in {cve_files[c], clone[c]}
  BY DEF Beside, crawlVars
<1>3. RowsOrdered'
  <2> SUFFICES ASSUME NEW c \in Cves
               PROVE  /\ Older(cve_files'[c], clone[c]) /\ Older(file_hashes[c], clone[c])
                      /\ c \notin overtaken' => Older(file_hashes[c], cve_files'[c])
    BY <1>2 DEF RowsOrdered, Older
  <2> QED
    BY <1>1, <1>2 DEF HashInv, RowsOrdered
<1>4. FromClone(batch)'
  BY DEF FromClone
<1>5. \A c \in Cves : WorkerOrdered(c)'
  BY <1>2 DEF HashInv, WorkerOrdered, Older
<1> QED
  BY <1>3, <1>4, <1>5 DEF HashInv

\* The import reads from the clone what it batches, and stores what it batched.
LEMMA HashAddFile ==
    ASSUME RunInv, CrawlTypeOK, HashInv, NEW c \in Cves, AddFile(c), Beside
    PROVE  HashInv'
<1> DEFINE b == batch \union {<<c, clone[c]>>}
<1>1. /\ c \in files /\ clone[c] \notin Unreadable /\ clone' = clone
      /\ \/ batch' = b /\ UNCHANGED cve_files
         \/ batch' = {} /\ BatchStored(b)
  BY DEF AddFile, BatchFails
<1>2. FromClone(b)
  <2>1. <<c, clone[c]>>[1] = c /\ <<c, clone[c]>>[2] = clone[c]
    OBVIOUS
  <2> QED
    BY <2>1 DEF HashInv, FromClone, Older
<1>3. b \subseteq Cves \X (Contents \ Unreadable)
  <2>1. clone[c] \in Contents \ Unreadable /\ c \in Cves
    BY <1>1, TreeAt DEF RunInv, LocalsOK
  <2>2. <<c, clone[c]>> \in Cves \X (Contents \ Unreadable)
    BY <2>1
  <2>3. batch \subseteq Cves \X (Contents \ Unreadable)
    BY DEF RunInv, TypeOK
  <2> QED
    BY <2>2, <2>3
<1> HIDE DEF b
<1>4. CASE batch' = b /\ UNCHANGED cve_files
  <2>1. UNCHANGED <<file_hashes, worker>> /\ overtaken \subseteq overtaken'
    BY DEF Beside, crawlVars
  <2>2. RowsOrdered'
    BY <1>1, <1>4, <2>1 DEF HashInv, RowsOrdered, Older
  <2>3. FromClone(batch)'
    BY <1>1, <1>2, <1>4 DEF FromClone, Older
  <2>4. \A d \in Cves : WorkerOrdered(d)'
    BY <1>1, <2>1 DEF HashInv, WorkerOrdered, Older
  <2> QED
    BY <2>2, <2>3, <2>4 DEF HashInv
<1>5. CASE batch' = {} /\ BatchStored(b)
  BY <1>1, <1>2, <1>3, <1>5, HashBatchStored DEF RunInv
<1> QED
  BY <1>1, <1>4, <1>5

\* Every step of the import, of its faults and of upstream keeps the order.
LEMMA HashImportOK ==
    ASSUME RunInv, CrawlTypeOK, HashInv, (Run \/ PullFails \/ Killed) /\ Beside
    PROVE  HashInv'
<1>0. /\ UNCHANGED <<file_hashes, worker>> /\ overtaken \subseteq overtaken'
      /\ TypeOK /\ Ordered
  BY DEF Beside, crawlVars, RunInv
<1>1. CASE Begin \/ Pull \/ Diff \/ PullFails \/ Killed \/ \E c \in Cves : SkipFile(c)
  <2>1. clone' \in {clone, upstream} /\ cve_files' = cve_files /\ batch' \subseteq batch
    BY <1>1 DEF Begin, Pull, Pulled, Diff, PullFails, Killed, SkipFile
  <2> QED
    BY <1>0, <2>1, HashKept
<1>2. CASE \E c \in Cves : AddFile(c)
  BY <1>2, HashAddFile
<1>3. CASE Finish
  <2>1. CASE BatchStored(batch)
    BY <1>0, <1>3, <2>1, HashBatchStored DEF Finish, HashInv, TypeOK
  <2>2. CASE BatchFails(batch)
    <3>1. cve_files' = cve_files /\ clone' = clone /\ batch' \subseteq batch
      BY <1>3, <2>2 DEF BatchFails, Finish
    <3> QED
      BY <1>0, <3>1, HashKept
  <2> QED
    BY <1>3, <2>1, <2>2 DEF Finish
<1> QED
  BY <1>1, <1>2, <1>3 DEF Run

\* A worker hashes what is in the clone, and what it loads after is no older:
\* what it stores together is in that order.
LEMMA HashWorkerOK ==
    ASSUME RunInv, CrawlTypeOK, HashInv, NEW c \in Cves, Hash(c) \/ Load(c) \/ Store(c)
    PROVE  HashInv'
<1>1. UNCHANGED <<clone, batch>>
  BY DEF Hash, Load, Store, vars, runVars
<1>2. FromClone(batch)'
  BY <1>1 DEF HashInv, FromClone, Older
<1>3. ASSUME NEW d \in Cves, d # c PROVE WorkerOrdered(d)'
  <2>1. worker'[d] = worker[d]
    BY <1>3 DEF Hash, Load, Store, Step, CrawlTypeOK
  <2> QED
    BY <1>1, <2>1 DEF HashInv, WorkerOrdered, Older
<1>4. WorkerOrdered(c)
  BY DEF HashInv
<1>5. CASE Hash(c)
  <2>1. worker'[c] = Worker("hashed", clone[c], NoFile)
    BY <1>5 DEF Hash, Step, CrawlTypeOK
  <2>2. WorkerOrdered(c)'
    BY <1>1, <2>1 DEF WorkerOrdered, Worker, Older
  <2>3. RowsOrdered'
    BY <1>1, <1>5 DEF Hash, Step, vars, HashInv, RowsOrdered, Older
  <2> QED
    BY <1>2, <1>3, <2>2, <2>3 DEF HashInv
<1>6. CASE Load(c)
  <2>1. /\ worker[c].step = "hashed"
        /\ \/ worker'[c] = Done
           \/ worker'[c] = Worker("loaded", worker[c].hash, clone[c])
    BY <1>6 DEF Load, Step, CrawlTypeOK
  <2>2. WorkerOrdered(c)'
    BY <1>1, <1>4, <2>1 DEF WorkerOrdered, Worker, Done, Older
  <2>3. RowsOrdered'
    BY <1>1, <1>6 DEF Load, Step, vars, HashInv, RowsOrdered, Older
  <2> QED
    BY <1>2, <1>3, <2>2, <2>3 DEF HashInv
<1>7. CASE Store(c)
  <2> DEFINE w == worker[c]
  <2>1. w.step = "loaded" /\ worker'[c] = Done
    BY <1>7 DEF Store, CrawlTypeOK
  <2>2. WorkerOrdered(c)'
    BY <2>1 DEF WorkerOrdered, Done, Worker
  <2>3. Older(w.hash, clone[c]) /\ Older(w.hash, w.data) /\ Older(w.data, clone[c])
    BY <1>4, <2>1 DEF WorkerOrdered
  <2>4. \/ UNCHANGED <<cve_files, file_hashes, overtaken>>
        \/ /\ cve_files' = [cve_files EXCEPT ![c] = w.data]
           /\ file_hashes' = [file_hashes EXCEPT ![c] = w.hash]
           /\ overtaken' = overtaken \ {c}
    BY <1>7 DEF Store
  <2> HIDE DEF w
  <2>5. RowsOrdered'
    <3>1. CASE UNCHANGED <<cve_files, file_hashes, overtaken>>
      BY <1>1, <3>1 DEF HashInv, RowsOrdered, Older
    <3>2. CASE /\ cve_files' = [cve_files EXCEPT ![c] = w.data]
               /\ file_hashes' = [file_hashes EXCEPT ![c] = w.hash]
               /\ overtaken' = overtaken \ {c}
      <4>1. /\ cve_files'[c] = w.data /\ file_hashes'[c] = w.hash
            /\ \A d \in Cves \ {c} : /\ cve_files'[d] = cve_files[d]
                                     /\ file_hashes'[d] = file_hashes[d]
                                     /\ d \in overtaken' <=> d \in overtaken
        BY <3>2 DEF RunInv, TypeOK, CrawlTypeOK, Trees
      <4>2. ASSUME NEW d \in Cves
            PROVE  /\ Older(cve_files'[d], clone[d]) /\ Older(file_hashes'[d], clone[d])
                   /\ d \notin overtaken' => Older(file_hashes'[d], cve_files'[d])
        BY <2>3, <4>1 DEF HashInv, RowsOrdered
      <4> QED
        BY <1>1, <4>2 DEF RowsOrdered, Older
    <3> QED
      BY <2>4, <3>1, <3>2
  <2> QED
    BY <1>2, <1>3, <2>2, <2>5 DEF HashInv
<1> QED
  BY <1>5, <1>6, <1>7

\* Every step of both programs, and of upstream, keeps the order.
LEMMA HashStepOK ==
    ASSUME RunInv, CrawlTypeOK, HashInv, [DbNext]_dbVars PROVE HashInv'
<1>0. TypeOK /\ Ordered
  BY DEF RunInv
<1>1. CASE PublishNewer
  BY <1>0, <1>1, HashKept DEF PublishNewer, Publish, PublishOther, runVars, crawlVars
<1>2. CASE (Run \/ PullFails \/ Killed) /\ Beside
  BY <1>2, HashImportOK
<1>3. CASE CrawlPull \/ CrawlPullFails \/ Walk \/ CrawlEnds \/ CrawlKilled
           \/ \E c \in Cves : WorkerFails(c)
  <2>1. /\ clone' \in {clone, upstream} /\ UNCHANGED <<cve_files, file_hashes, overtaken, batch>>
    BY <1>3 DEF CrawlPull, Pulled, CrawlPullFails, Walk, CrawlEnds, CrawlKilled, WorkerFails,
                Step, vars, runVars
  <2>2. \A c \in Cves : worker'[c] = worker[c] \/ worker'[c].step \in {"queued", "done"}
    <3>1. CASE \E c \in Cves : WorkerFails(c)
      BY <3>1 DEF WorkerFails, Step, Done, Worker, CrawlTypeOK
    <3>2. CASE CrawlPull \/ CrawlPullFails \/ Walk \/ CrawlEnds \/ CrawlKilled
      BY <3>2 DEF CrawlPull, CrawlPullFails, Walk, CrawlEnds, CrawlKilled, Done, Worker
    <3> QED
      BY <1>3, <3>1, <3>2
  <2> QED
    BY <1>0, <2>1, <2>2, HashKept
<1>4. CASE \E c \in Cves : Hash(c) \/ Load(c) \/ Store(c)
  BY <1>4, HashWorkerOK
<1>5. CASE UNCHANGED dbVars
  BY <1>0, <1>5, HashKept DEF dbVars, vars, runVars, crawlVars
<1> QED
  BY <1>1, <1>2, <1>3, <1>4, <1>5 DEF DbNext, Crawl

\* Both programs start with a table whose hashes are of its rows.
LEMMA HashInitOK == DbInit => HashInv
<1> SUFFICES ASSUME DbInit PROVE HashInv
  OBVIOUS
<1>1. RowsOrdered
  BY DEF DbInit, Init, RowsOrdered, Older
<1>2. FromClone(batch)
  BY DEF DbInit, Init, FromClone
<1>3. \A c \in Cves : WorkerOrdered(c)
  BY DEF DbInit, WorkerOrdered, Done, Worker
<1> QED
  BY <1>1, <1>2, <1>3 DEF HashInv

\* What the invariants of both programs say together.
AllInv == DbInv /\ HashInv

\* Every step of both programs preserves them together.
LEMMA AllStepOK == AllInv /\ [DbNext]_dbVars => AllInv'
<1>1. DbInv => RunInv /\ CrawlTypeOK
  BY DEF DbInv, DbTypeOK, CrawlTypeOK
<1> QED
  BY <1>1, DbStepOK, HashStepOK DEF AllInv

\* They hold from the start.
LEMMA AllInitOK == DbInit => AllInv
BY DbInitOK, HashInitOK DEF AllInv

\* They are an invariant of both programs.
THEOREM AllInductive == DbSpec => []AllInv
BY AllInitOK, AllStepOK, PTL DEF DbSpec

\* What the crawl skips as unchanged is in the table, however pulls of either
\* program fall between its two readings of a file; only a row the import has
\* overtaken may be skipped while it lags (update_cve_db.py:24-48,66-68).
THEOREM SkipsAreStored == DbSpec => []SkipOK
<1>1. AllInv => SkipOK
  BY HashInvSkips DEF AllInv, DbInv, DbTypeOK, RunInv, CrawlTypeOK
<1> QED
  BY <1>1, AllInductive, PTL

-----------------------------------------------------------------------------
(* One whole crawl *)

\* Steps during which the crawl neither fails nor has its clone moved; upstream
\* and the import go on beside it, and the import may fail.
Settling ==
    \/ PublishNewer
    \/ (Run \/ PullFails \/ Killed) /\ Beside /\ UNCHANGED clone
    \/ Walk \/ CrawlEnds
    \/ \E c \in Cves : Hash(c) \/ Load(c) \/ Store(c)

Settled(c) ==
    \/ clone[c] \in {NoFile} \union Unreadable \union Refused
    \/ cve_files[c] = clone[c]
    \/ c \in overtaken

Crawled ==
    \/ crawl = "walking"
    \/ /\ crawl = "idle" => worker = [c \in Cves |-> Done]
       /\ \A c \in Cves :
            LET w == worker[c]
            IN  /\ w.step \in {"hashed", "loaded"} => w.hash = clone[c]
                /\ w.step = "loaded" => w.data = clone[c]
                /\ w.step = "done" => Settled(c)
\* Such a step is one of both programs.
LEMMA SettlingIsNext == Settling => DbNext
BY DEF Settling, DbNext, Crawl

\* A file that was dealt with stays so while its clone does: the import gives a
\* row nothing but the clone's content without overtaking it.
LEMMA SettledStays ==
    ASSUME NEW c \in Cves, Settled(c), clone' = clone,
           \/ Beside
           \/ cve_files'[c] = cve_files[c] /\ (c \in overtaken => c \in overtaken')
    PROVE  Settled(c)'
BY DEF Settled, Beside

\* What a worker has in hand stays what is in the clone, and it is done with a
\* file only when the file is dealt with.
LEMMA CrawledStep ==
    ASSUME AllInv, Crawled, [Settling]_dbVars PROVE Crawled'
<1>0. TypeOK /\ CrawlTypeOK /\ HashInv
  BY DEF AllInv, DbInv, RunInv, DbTypeOK, CrawlTypeOK
<1>1. CASE crawl' = "walking"
  BY <1>1 DEF Crawled
<1> DEFINE HandOK(c) ==
             /\ worker[c].step \in {"hashed", "loaded"} => worker[c].hash = clone[c]
             /\ worker[c].step = "loaded" => worker[c].data = clone[c]
             /\ worker[c].step = "done" => Settled(c)
<1>2. CASE Walk
  <2>1. clone' = clone /\ crawl' = "working"
    BY <1>2 DEF Walk, vars
  <2>2. ASSUME NEW c \in Cves PROVE HandOK(c)'
    <3>1. CASE clone[c] = NoFile
      BY <1>2, <2>1, <3>1 DEF Walk, Done, Worker, Settled
    <3>2. CASE clone[c] # NoFile
      BY <1>2, <2>1, <3>2 DEF Walk, Worker
    <3> QED
      BY <3>1, <3>2
  <2> QED
    BY <2>1, <2>2 DEF Crawled
<1>3. ASSUME crawl # "walking", UNCHANGED <<clone, crawl, worker>>,
             \A c \in Cves : Settled(c) => Settled(c)'
      PROVE  Crawled'
  BY <1>3 DEF Crawled
<1>4. CASE PublishNewer \/ UNCHANGED dbVars
  <2>1. UNCHANGED <<clone, cve_files, overtaken, crawl, worker>>
    BY <1>4 DEF PublishNewer, Publish, PublishOther, dbVars, vars, crawlVars
  <2> QED
    BY <1>1, <1>3, <2>1, SettledStays
<1>5. CASE (Run \/ PullFails \/ Killed) /\ Beside /\ UNCHANGED clone
  <2>1. UNCHANGED <<clone, crawl, worker>> /\ Beside
    BY <1>5 DEF Beside, crawlVars
  <2> QED
    BY <1>1, <1>3, <2>1, SettledStays
<1>6. CASE CrawlEnds
  <2>1. /\ UNCHANGED <<clone, cve_files, overtaken, worker>> /\ crawl = "working"
        /\ crawl' = "idle" /\ worker = [c \in Cves |-> Done]
    BY <1>6 DEF CrawlEnds, vars
  <2>2. \A c \in Cves : HandOK(c)
    BY <2>1 DEF Crawled
  <2>3. ASSUME NEW c \in Cves PROVE HandOK(c)'
    BY <2>1, <2>2, SettledStays
  <2> QED
    BY <2>1, <2>3 DEF Crawled
<1>7. ASSUME NEW c \in Cves, Hash(c) \/ Load(c) \/ Store(c) PROVE Crawled'
  <2>1. UNCHANGED <<clone, crawl>> /\ worker[c].step # "done"
    BY <1>7 DEF Hash, Load, Store, Step, vars
  <2>2. crawl # "walking" => crawl = "working" \/ crawl = "idle"
    BY <1>0 DEF CrawlTypeOK
  <2>3. CASE crawl = "walking"
    BY <1>1, <2>1, <2>3
  <2>4. CASE crawl # "walking"
    <3>1. crawl = "working"
      <4>1. crawl = "idle" => worker[c].step = "done"
        BY <2>4 DEF Crawled, Done, Worker
      <4> QED
        BY <2>1, <2>2, <2>4, <4>1
    <3>2. \A d \in Cves : HandOK(d)
      BY <2>4 DEF Crawled
    <3>3. ASSUME NEW d \in Cves, d # c PROVE HandOK(d)'
      <4>1. /\ worker'[d] = worker[d] /\ cve_files'[d] = cve_files[d]
            /\ d \in overtaken => d \in overtaken'
        BY <1>0, <1>7, <3>3 DEF Hash, Load, Store, Step, vars, CrawlTypeOK, TypeOK, Trees
      <4>2. Settled(d) => Settled(d)'
        BY <2>1, <4>1, SettledStays
      <4> QED
        BY <2>1, <3>2, <4>1, <4>2
    <3>4. HandOK(c)'
      <4>1. CASE Hash(c)
        <5>1. worker'[c] = Worker("hashed", clone[c], NoFile)
          BY <1>0, <4>1 DEF Hash, Step, CrawlTypeOK
        <5> QED
          BY <2>1, <5>1 DEF Worker
      <4>2. CASE Load(c)
        <5>1. /\ worker[c].step = "hashed"
              /\ worker'[c] = IF clone[c] \in Unreadable THEN Done
                             ELSE Worker("loaded", worker[c].hash, clone[c])
          BY <1>0, <4>2 DEF Load, Step, CrawlTypeOK
        <5>2. CASE clone[c] \in Unreadable
          BY <2>1, <5>1, <5>2 DEF Done, Worker, Settled
        <5>3. CASE clone[c] \notin Unreadable
          BY <2>1, <3>2, <5>1, <5>3 DEF Worker
        <5> QED
          BY <5>2, <5>3
      <4>3. CASE Store(c)
        <5>1. worker[c].hash = clone[c] /\ worker[c].data = clone[c]
          BY <3>2, <4>3 DEF Store
        <5>2. worker'[c] = Done
          BY <1>0, <4>3 DEF Store, CrawlTypeOK
        <5>3. Settled(c)'
          <6>1. CASE clone[c] = file_hashes[c] \/ clone[c] \in Refused
            <7>1. Settled(c)
              BY <1>0, <6>1, HashInvSkips DEF SkipOK, Settled
            <7>2. UNCHANGED <<cve_files, overtaken>>
              BY <4>3, <5>1, <6>1 DEF Store
            <7> QED
              BY <2>1, <7>1, <7>2, SettledStays
          <6>2. CASE clone[c] # file_hashes[c] /\ clone[c] \notin Refused
            <7>1. cve_files' = [cve_files EXCEPT ![c] = clone[c]]
              BY <4>3, <5>1, <6>2 DEF Store
            <7>2. cve_files'[c] = clone[c]
              BY <1>0, <7>1 DEF TypeOK, Trees
            <7> QED
              BY <2>1, <7>2 DEF Settled
          <6> QED
            BY <6>1, <6>2
        <5> QED
          BY <5>2, <5>3 DEF Done, Worker
      <4> QED
        BY <1>7, <4>1, <4>2, <4>3
    <3>5. \A d \in Cves : HandOK(d)'
      BY <3>3, <3>4
    <3> QED
      BY <2>1, <3>1, <3>5 DEF Crawled
  <2> QED
    BY <2>3, <2>4
<1> QED
  BY <1>2, <1>4, <1>5, <1>6, <1>7 DEF Settling

\* At the end every file is dealt with.
LEMMA CrawledEnds ==
    ASSUME Crawled, crawl = "idle" PROVE \A c \in Cves : Settled(c)
BY DEF Crawled, Done, Worker

\* A crawl that none of its workers fails and under which nobody moves the clone
\* ends with every readable file that the table accepts in the table, whatever
\* it was that earlier runs failed to import, and whatever the import and
\* upstream do beside it: only a row the import overtook may still lag
\* (update_cve_db.py:33-97).  It is the safety half of CrawlRepairs.
THEOREM CrawlLeavesNothing ==
    AllInv /\ crawl = "walking" /\ [][Settling]_dbVars
        => [](crawl = "idle" => \A c \in Cves : Settled(c))
<1>1. crawl = "walking" => Crawled
  BY DEF Crawled
<1>2. AllInv /\ Crawled /\ [Settling]_dbVars => AllInv' /\ Crawled'
  BY AllStepOK, CrawledStep, SettlingIsNext
<1>3. Crawled => (crawl = "idle" => \A c \in Cves : Settled(c))
  BY CrawledEnds
<1> QED
  BY <1>1, <1>2, <1>3, PTL
=============================================================================
