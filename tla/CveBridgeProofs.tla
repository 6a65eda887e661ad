-------------------------- MODULE CveBridgeProofs ---------------------------
(***************************************************************************)
(* What the OCS console can read while the bridge refills its two tables,  *)
(* in every state of every run of either script, for any software, CVEs,   *)
(* scores and page size; what a run that nothing disturbs ends with; and   *)
(* the score of a record of any size.                                      *)
(***************************************************************************)
EXTENDS MCCveBridge, TLAPS, FiniteSetTheorems, WellFoundedInduction

\* The tables a run found are there until it empties them; from its first
\* DELETE to its commit, the machines' table is empty.
RunOK ==
    /\ pc \in {"clearing computer", "clearing both"} => cve_search_computer = opening
    /\ pc \in Steps \ {"idle", "clearing computer", "clearing both"} => cve_search_computer = {}

IInv == TypeOK /\ RunOK /\ ComputerInSearch /\ WholeRunOrNothing

-----------------------------------------------------------------------------

\* The bound on failed calls is kept by what counts one.
LEMMA FaultOK == ASSUME TypeOK, Fault PROVE faults' \in 0 .. MaxFaults
<1>1. faults \in 0 .. MaxFaults /\ MaxFaults \in Nat
  BY CveBridgeAssumption DEF TypeOK
<1> QED
  BY <1>1 DEF Fault

\* A page holds matches only, whichever of them the query returns.
LEMMA PageOfMatches ==
    ASSUME NEW matches, NEW page \in Pages(matches) PROVE page \subseteq matches
BY DEF Pages

\* What is kept of an answer for n are rows of n for CVEs of the answer.
LEMMA KeptRows ==
    ASSUME NEW n \in Names, NEW cves \in SUBSET Cves PROVE Kept(n, cves) \subseteq Rows
BY DEF Kept, Rows

\* Both scripts start from empty tables, any inventory and any database.
LEMMA InitOK == Init => IInv
<1> SUFFICES ASSUME Init PROVE IInv
  OBVIOUS
<1>1. 0 \in 0 .. MaxFaults
  BY CveBridgeAssumption
<1>2. TypeOK
  BY <1>1 DEF Init, TypeOK, Steps
<1> QED
  BY <1>2 DEF Init, IInv, RunOK, ComputerInSearch, WholeRunOrNothing

\* One DELETE with its commit: the machines' table before the search table.
LEMMA ClearOK == ASSUME IInv, Clear PROVE IInv'
<1> USE DEF IInv, TypeOK, RunOK, ComputerInSearch, WholeRunOrNothing, Steps
<1>1. CASE ClearBoth
  BY <1>1 DEF ClearBoth
<1>2. CASE ClearComputer("clearing computer", "clearing search")
  BY <1>2 DEF ClearComputer
<1>3. CASE ClearSearch("clearing search", "asking")
  BY <1>3 DEF ClearSearch
<1>4. CASE ClearComputer("clearing computer again", "clearing search again")
  BY <1>4 DEF ClearComputer
<1>5. CASE ClearSearch("clearing search again", "inserting")
  BY <1>5 DEF ClearSearch
<1> QED
  BY <1>1, <1>2, <1>3, <1>4, <1>5 DEF Clear

\* The rows of an answer join the run's own, never the tables.
LEMMA AnsweredOK == ASSUME IInv, NEW n \in Names, Answered(n) PROVE IInv'
<1>1. /\ pc = "asking" /\ pc' = pc /\ names' = names \ {n}
      /\ UNCHANGED <<script, inventory, cve_files, cve_search_computer, cve_search, opening, outcome>>
  BY DEF Answered, tables
<1>2. found' \subseteq Rows
  <2>1. \A page \in Pages(cve_files[n]) : Kept(n, page) \subseteq Rows
    BY PageOfMatches, KeptRows DEF IInv, TypeOK
  <2> QED
    BY <2>1 DEF Answered, IInv, TypeOK
<1>3. faults' \in 0 .. MaxFaults
  BY FaultOK DEF Answered, IInv, TypeOK
<1>4. TypeOK'
  BY <1>1, <1>2, <1>3 DEF IInv, TypeOK
<1>5. cve_search_computer = {}
  BY <1>1 DEF IInv, RunOK, Steps
<1> QED
  BY <1>1, <1>4, <1>5 DEF IInv, RunOK, ComputerInSearch, WholeRunOrNothing

\* Every statement of either script, wherever it raises, preserves the invariant.
LEMMA StepOK == IInv /\ [Next]_vars => IInv'
<1> SUFFICES ASSUME IInv, [Next]_vars PROVE IInv'
  OBVIOUS
<1> USE DEF IInv, TypeOK, RunOK, ComputerInSearch, WholeRunOrNothing, Steps
<1>1. ASSUME NEW n \in Names, Install(n) PROVE IInv'
  BY <1>1 DEF Install, tables, runVars
<1>2. ASSUME NEW n \in Names, NEW c \in Cves, Publish(n, c) PROVE IInv'
  <2>1. cve_files' \in [Names -> SUBSET Cves]
    BY <1>2 DEF Publish
  <2> QED
    BY <1>2, <2>1 DEF Publish, tables, runVars
<1>3. CASE Begin
  BY <1>3 DEF Begin, tables
<1>4. CASE Clear
  BY <1>4, ClearOK
<1>5. ASSUME NEW n \in Names, Answered(n) PROVE IInv'
  BY <1>5, AnsweredOK
<1>6. CASE Sorted
  BY <1>6 DEF Sorted, tables
<1>7. CASE SortedOcs
  BY <1>7 DEF SortedOcs, tables
<1>8. CASE Insert
  BY <1>8 DEF Insert
<1>9. CASE Raise
  BY <1>9, FaultOK DEF Raise, tables
<1>10. CASE UNCHANGED vars
  BY <1>10 DEF vars, tables, runVars
<1>11. CASE InsertRaises
  BY <1>11 DEF InsertRaises, tables
<1> QED
  BY <1>1, <1>2, <1>3, <1>4, <1>5, <1>6, <1>7, <1>8, <1>9, <1>10, <1>11 DEF Next, Run

-----------------------------------------------------------------------------

\* What the tables hold at each step of a run of either script, one run at a time
\* (cve-database-manager/cve_bridge.py:89-233, ocs/cve_bridge.py:89-206).
THEOREM Inductive == Spec => []IInv
BY InitOK, StepOK, PTL DEF Spec

\* The tables, the answers and the run's locals keep their types.
THEOREM TypeCorrect == Spec => []TypeOK
BY Inductive, PTL DEF IInv

\* The console never shows a CVE on a machine that the CVE search does not know,
\* in any order of commits and after any failure (cve_bridge.py:93-96, 225-230).
THEOREM SearchKnows == Spec => []ComputerInSearch
BY Inductive, PTL DEF IInv

\* The console shows the rows of one run, those the run found there, or none:
\* never a part of them (cve_bridge.py:89-96, 225-263).
THEOREM NeverPart == Spec => []WholeRunOrNothing
BY Inductive, PTL DEF IInv

-----------------------------------------------------------------------------
(* What a row stands for *)

Due(n) == Kept(n, cve_files[n] \ NoRecord)

DueTo(some) == UNION {Due(n) : n \in some}

\* Every row the run has, or a table holds, is of a CVE that its name matches.
OnlyDue == cve_search_computer \union cve_search \union found \union opening \subseteq DueTo(Names)

\* An answer gives rows that are due.
LEMMA AnswerDue ==
    ASSUME TypeOK, NEW n \in Names, NEW page \in Pages(cve_files[n]), Answers(page)
    PROVE  Kept(n, page) \subseteq Due(n)
<1>1. page \subseteq cve_files[n]
  BY PageOfMatches
<1>2. page \subseteq cve_files[n] \ NoRecord
  BY <1>1 DEF Answers
<1> QED
  BY <1>2 DEF Due, Kept

\* What is due stays due: cve_files only gains rows.
LEMMA DueGrows ==
    ASSUME TypeOK, NEW n \in Names, script' = script, cve_files'[n] = cve_files[n]
                   \/ \E c : cve_files'[n] = cve_files[n] \union {c}
    PROVE  Due(n) \subseteq Due(n)'
BY DEF Due, Kept

\* Nothing but a row that is due gets into a table or into the answers.
LEMMA OnlyDueStep == IInv /\ OnlyDue /\ [Next]_vars => OnlyDue'
<1> SUFFICES ASSUME IInv, OnlyDue, [Next]_vars PROVE OnlyDue'
  OBVIOUS
<1>0. TypeOK
  BY DEF IInv
<1>1. ASSUME NEW n \in Names, NEW c \in Cves, Publish(n, c) PROVE OnlyDue'
  <2>1. \A m \in Names : cve_files'[m] = cve_files[m] \/ cve_files'[m] = cve_files[m] \union {c}
    BY <1>0, <1>1 DEF Publish, TypeOK
  <2>2. script' = script
    BY <1>1 DEF Publish
  <2>3. \A m \in Names : Due(m) \subseteq Due(m)'
    BY <1>0, <2>1, <2>2, DueGrows
  <2>4. DueTo(Names) \subseteq DueTo(Names)'
    BY <2>3 DEF DueTo
  <2> QED
    BY <1>1, <2>4 DEF Publish, OnlyDue, tables, runVars
<1>2. ASSUME NEW n \in Names, Answered(n) PROVE OnlyDue'
  <2>1. UNCHANGED <<script, cve_files, cve_search_computer, cve_search, opening>>
    BY <1>2 DEF Answered, tables
  <2>2. found' \subseteq found \union Due(n)
    BY <1>0, <1>2, AnswerDue DEF Answered
  <2>3. DueTo(Names)' = DueTo(Names)
    BY <2>1 DEF DueTo, Due, Kept
  <2>4. Due(n) \subseteq DueTo(Names)
    BY DEF DueTo
  <2> QED
    BY <2>1, <2>2, <2>3, <2>4 DEF OnlyDue
<1>3. ASSUME UNCHANGED <<script, cve_files>>,
             /\ cve_search_computer' \subseteq cve_search_computer \union found
             /\ cve_search' \subseteq cve_search \union found
             /\ found' \subseteq found
             /\ opening' \in {opening, cve_search_computer}
      PROVE  OnlyDue'
  <2>1. DueTo(Names)' = DueTo(Names)
    BY <1>3 DEF DueTo, Due, Kept
  <2> QED
    BY <1>3, <2>1 DEF OnlyDue
<1>4. CASE \/ Begin \/ Clear \/ Sorted \/ SortedOcs \/ Insert \/ InsertRaises \/ Raise
           \/ UNCHANGED vars \/ \E n \in Names : Install(n)
  BY <1>3, <1>4 DEF Begin, Clear, ClearBoth, ClearComputer, ClearSearch, Sorted, SortedOcs,
     Insert, InsertRaises, Raise, Install, vars, tables, runVars
<1> QED
  BY <1>1, <1>2, <1>4 DEF Next, Run

\* The console never shows a CVE the database does not hold for that name, a
\* row that is no record, or, for the manager's script, a CVE the API scores
\* under 6.0 or not at all: in no state, whatever answers fail or are cut off
\* (cve_bridge.py:55-66, 196-213, api.py:153-166).
THEOREM NothingInvented == Spec => [](cve_search_computer \union cve_search \subseteq DueTo(Names))
<1>1. Init => OnlyDue
  BY DEF Init, OnlyDue
<1>2. OnlyDue => cve_search_computer \union cve_search \subseteq DueTo(Names)
  BY DEF OnlyDue
<1> QED
  BY <1>1, <1>2, OnlyDueStep, Inductive, PTL DEF Spec

-----------------------------------------------------------------------------
(* A run that nothing disturbs *)

\* A run has just begun.
Begun ==
    /\ IInv
    /\ pc \in {"clearing computer", "clearing both"}
    /\ inventory # {} /\ names = inventory /\ found = {}

\* The script alone moves, and no call of the API fails.
Undisturbed == Run /\ UNCHANGED faults

\* Both tables hold one answer for each name of the inventory, and no others.
Refilled ==
    cve_search = cve_search_computer /\ AsAnswered(cve_search_computer, inventory)

\* The answers so far are those of the names asked so far, and both tables are
\* empty from the first question to the commit.
QuietInv ==
    /\ IInv
    /\ pc # "idle" => names \subseteq inventory /\ AsAnswered(found, inventory \ names)
    /\ pc \in Steps \ {"idle", "clearing computer", "clearing search", "clearing both"} =>
          cve_search = {}
    /\ pc \in {"clearing computer again", "clearing search again", "inserting"} => names = {}
    /\ pc = "idle" => Refilled \/ HeldUp

\* A run has no row before its first answer.
LEMMA NothingAsked == AsAnswered({}, {})
BY DEF AsAnswered

\* One more answer.
LEMMA OneMore ==
    ASSUME NEW rows, NEW some, NEW n, n \notin some, AsAnswered(rows, some),
           NEW page \in Pages(cve_files[n]), cve_files[n] \subseteq Cves
    PROVE  AsAnswered(rows \union (IF Answers(page) THEN Kept(n, page) ELSE {}), some \union {n})
<1> DEFINE answer == IF Answers(page) THEN Kept(n, page) ELSE {}
           all == rows \union answer
<1>1. answer \in AnswerRows(n)
  BY DEF AnswerRows
<1>2. answer \subseteq {n} \X Cves
  <2>1. page \subseteq Cves
    BY PageOfMatches
  <2> QED
    BY <2>1 DEF Kept
<1>3. rows \subseteq some \X Cves
  BY DEF AsAnswered
<1> HIDE DEF answer
<1>4. all \subseteq (some \union {n}) \X Cves
  BY <1>2, <1>3
<1>5. {row \in all : row[1] = n} = answer
  BY <1>2, <1>3
<1>6. ASSUME NEW m \in some PROVE {row \in all : row[1] = m} = {row \in rows : row[1] = m}
  BY <1>2, <1>6
<1>7. \A m \in some : {row \in all : row[1] = m} \in AnswerRows(m)
  BY <1>6 DEF AsAnswered
<1>8. AsAnswered(all, some \union {n})
  BY <1>1, <1>4, <1>5, <1>7 DEF AsAnswered
<1> QED
  BY <1>8 DEF answer

\* Each step of an undisturbed run.
LEMMA QuietStep == QuietInv /\ [Undisturbed]_vars => QuietInv'
<1> SUFFICES ASSUME QuietInv, [Undisturbed]_vars PROVE QuietInv'
  OBVIOUS
<1>0. TypeOK /\ RunOK /\ IInv'
  BY StepOK DEF QuietInv, IInv, Undisturbed, Next
<1>1. UNCHANGED <<script, inventory, cve_files>>
  BY DEF Undisturbed, Run, Begin, Clear, ClearBoth, ClearComputer, ClearSearch, Answered,
     Sorted, SortedOcs, Insert, InsertRaises, vars
<1>2. \A n : AnswerRows(n)' = AnswerRows(n)
  BY <1>1 DEF AnswerRows, Kept
<1>3. ASSUME NEW n \in Names, Answered(n), UNCHANGED faults PROVE QuietInv'
  <2>1. PICK page \in Pages(cve_files[n]) :
          found' = found \union (IF Answers(page) THEN Kept(n, page) ELSE {})
    <3>0. faults \in Nat
      <4>1. faults \in 0 .. MaxFaults
        BY <1>0 DEF TypeOK
      <4> QED
        BY <4>1, CveBridgeAssumption
    <3>1. ~Fault
      BY <1>3, <3>0 DEF Fault
    <3> QED
      BY <1>3, <3>1 DEF Answered
  <2>2. /\ pc = "asking" /\ pc' = pc /\ n \in names /\ names' = names \ {n}
        /\ UNCHANGED <<cve_search_computer, cve_search>>
    BY <1>3 DEF Answered, tables
  <2>3. names \subseteq inventory /\ AsAnswered(found, inventory \ names)
    BY <2>2 DEF QuietInv
  <2>4. inventory \ names' = (inventory \ names) \union {n} /\ n \notin inventory \ names
    BY <2>2, <2>3
  <2>5. cve_files[n] \subseteq Cves
    BY <1>0 DEF TypeOK
  <2>6. AsAnswered(found', inventory \ names')
    BY <2>1, <2>3, <2>4, <2>5, OneMore
  <2>7. AsAnswered(found, inventory \ names)'
    BY <1>1, <1>2, <2>6 DEF AsAnswered
  <2> QED
    BY <1>0, <1>1, <2>2, <2>3, <2>7 DEF QuietInv, Steps
<1>4. CASE Begin
  <2>1. inventory' \ names' = {} /\ found' = {} /\ names' = inventory'
    BY <1>1, <1>4 DEF Begin
  <2>2. AsAnswered(found, inventory \ names)'
    BY <2>1, NothingAsked DEF AsAnswered
  <2> QED
    BY <1>0, <1>4, <2>1, <2>2 DEF Begin, QuietInv, Steps
<1>5. CASE Clear
  <2>1. AsAnswered(found, inventory \ names)' /\ UNCHANGED <<found, names>>
    BY <1>1, <1>2, <1>5 DEF Clear, ClearBoth, ClearComputer, ClearSearch, QuietInv, AsAnswered
  <2> QED
    BY <1>0, <1>1, <1>5, <2>1 DEF Clear, ClearBoth, ClearComputer, ClearSearch, QuietInv, Steps
<1>6. CASE Sorted
  <2>1. cve_search_computer = {} /\ cve_search = {}
    BY <1>0, <1>6 DEF Sorted, RunOK, QuietInv, Steps
  <2>2. /\ AsAnswered(found, inventory) /\ names = {}
        /\ UNCHANGED <<found, names, cve_search_computer, cve_search>>
    BY <1>6 DEF Sorted, QuietInv, tables, AsAnswered
  <2>3. AsAnswered(found, inventory)' /\ inventory' \ names' = inventory'
    BY <1>1, <1>2, <2>2 DEF AsAnswered
  <2>4. CASE found = {}
    <3>1. Refilled'
      BY <2>1, <2>2, <2>3, <2>4 DEF Refilled, AsAnswered
    <3> QED
      BY <1>0, <1>6, <2>4, <3>1 DEF Sorted, QuietInv, Steps
  <2>5. CASE found # {}
    BY <1>0, <1>1, <1>6, <2>1, <2>2, <2>3, <2>5 DEF Sorted, QuietInv, Steps, AsAnswered
  <2> QED
    BY <2>4, <2>5
<1>7. CASE SortedOcs
  <2>1. AsAnswered(found, inventory \ names)'
    BY <1>1, <1>2, <1>7 DEF SortedOcs, QuietInv, AsAnswered
  <2> QED
    BY <1>0, <1>1, <1>7, <2>1 DEF SortedOcs, tables, QuietInv, Steps
<1>8. CASE Insert
  <2>1. cve_search_computer = {} /\ cve_search = {}
    BY <1>0, <1>8 DEF Insert, RunOK, QuietInv, Steps
  <2>2. AsAnswered(found, inventory)
    BY <1>8 DEF Insert, QuietInv, AsAnswered
  <2>3. Refilled'
    BY <1>1, <1>2, <1>8, <2>1, <2>2 DEF Insert, Refilled, AsAnswered
  <2> QED
    BY <1>0, <1>8, <2>3 DEF Insert, QuietInv, Steps
<1>9. CASE InsertRaises
  <2>1. cve_search_computer = {} /\ cve_search = {}
    BY <1>0, <1>9 DEF InsertRaises, RunOK, QuietInv, Steps
  <2>2. AsAnswered(found, inventory)
    BY <1>9 DEF InsertRaises, QuietInv, AsAnswered
  <2>3. PICK row \in found : row[2] \in LongLinks
    BY <1>9 DEF InsertRaises, Refused
  <2>4. /\ row[1] \in inventory /\ row \in {r \in found : r[1] = row[1]}
        /\ {r \in found : r[1] = row[1]} \in AnswerRows(row[1])
    BY <2>2, <2>3 DEF AsAnswered
  <2>5. HeldUp'
    BY <1>1, <1>2, <1>9, <2>1, <2>3, <2>4 DEF InsertRaises, Refused, HeldUp, tables
  <2> QED
    BY <1>0, <1>9, <2>5 DEF InsertRaises, QuietInv, Steps
<1>10. CASE UNCHANGED vars
  BY <1>0, <1>2, <1>10 DEF QuietInv, Refilled, HeldUp, AsAnswered, vars, tables, runVars
<1> QED
  BY <1>3, <1>4, <1>5, <1>6, <1>7, <1>8, <1>9, <1>10 DEF Undisturbed, Run

\* Every run begins as QuietRunRefills assumes, whatever the last one left.
THEOREM EveryRunBegins == Spec => [][Begin => Begun']_vars
<1>1. ASSUME IInv, IInv', [Next]_vars, Begin PROVE Begun'
  BY <1>1 DEF Begin, Begun
<1> QED
  BY <1>1, Inductive, PTL DEF Spec

\* A run during which no call fails and nothing is installed or published ends
\* with the two tables holding one answer of the API for each name of the
\* inventory and nothing else: no row of an earlier run, of software that is gone
\* or under the score survives.  Only the variant can end otherwise, with both
\* tables empty, and only when a CVE that can be in an answer has a link too long
\* for its column (cve_bridge.py:185-263, ocs/cve_bridge.py:105, 163-206).
THEOREM QuietRunRefills == Begun /\ [][Undisturbed]_vars => [](pc = "idle" => Refilled \/ HeldUp)
<1>1. Begun => QuietInv
  <2>1. Begun => inventory \ names = {}
    BY DEF Begun
  <2> QED
    BY <2>1, NothingAsked DEF Begun, QuietInv, Steps
<1>2. QuietInv => (pc = "idle" => Refilled \/ HeldUp)
  BY DEF QuietInv
<1> QED
  BY <1>1, <1>2, QuietStep, PTL

-----------------------------------------------------------------------------
(* The score of a record *)

\* Among some subsets of a finite set there is one that holds no other of them:
\* what takes the place of induction over finite sets.
LEMMA MinimalSubset ==
    ASSUME NEW S, IsFiniteSet(S), NEW some \in SUBSET SUBSET S, some # {}
    PROVE  \E T \in some : \A U \in some : U \subseteq T => U = T
<1>1. IsWellFoundedOn(StrictSubsetOrdering(S), SUBSET S)
  BY FS_StrictSubsetOrderingWellFounded, FS_FiniteSubsetsOfFinite
<1>2. PICK T \in some : \A U \in some : ~(<<U, T>> \in StrictSubsetOrdering(S))
  BY <1>1, WFMin
<1>3. ASSUME NEW U \in some, U \subseteq T PROVE U = T
  BY <1>2, <1>3 DEF StrictSubsetOrdering
<1> QED
  BY <1>3

\* A finite set of numbers that is not empty has a greatest one and a least one.
LEMMA Extremes ==
    ASSUME NEW S, IsFiniteSet(S), S # {}, \A x \in S : x \in Int
    PROVE  /\ Max(S) \in S /\ \A y \in S : Max(S) >= y
           /\ Min(S) \in S /\ \A y \in S : Min(S) <= y
<1> DEFINE HasBoth(T) == /\ \E x \in T : \A y \in T : x >= y
                         /\ \E x \in T : \A y \in T : x <= y
           Bad == {T \in SUBSET S : T # {} /\ ~HasBoth(T)}
<1>1. Bad = {}
  <2> SUFFICES ASSUME Bad # {} PROVE FALSE
    OBVIOUS
  <2>0. Bad \in SUBSET SUBSET S
    OBVIOUS
  <2> HIDE DEF Bad
  <2>1. PICK T \in Bad : \A U \in Bad : U \subseteq T => U = T
    BY <2>0, MinimalSubset
  <2> USE DEF Bad
  <2>2. PICK x \in T : TRUE
    BY <2>1
  <2>3. CASE T \ {x} = {}
    BY <2>1, <2>2, <2>3
  <2>4. CASE T \ {x} # {}
    <3>1. HasBoth(T \ {x})
      <4>1. T \ {x} \in SUBSET S /\ T \ {x} \notin Bad
        BY <2>1, <2>2
      <4> QED
        BY <2>4, <4>1
    <3>2. PICK z \in T \ {x} : \A y \in T \ {x} : z >= y
      BY <3>1
    <3>3. PICK a \in T \ {x} : \A y \in T \ {x} : a <= y
      BY <3>1
    <3>4. \A y \in T : y \in Int
      BY <2>1
    <3>5. HasBoth(T)
      BY <2>2, <3>2, <3>3, <3>4
    <3> QED
      BY <2>1, <3>5
  <2> QED
    BY <2>3, <2>4
<1>2. HasBoth(S)
  BY <1>1
<1> QED
  BY <1>2 DEF Max, Min

\* What one list of metrics gives: the score before it if it is empty, else the
\* first score in it (api.py:174-182, 187-197).
LEMMA AfterMetricsIs ==
    ASSUME NEW M, NEW metrics \in Seq(M), NEW score, NEW keys
    PROVE  AfterMetrics(score, metrics, keys) =
             IF metrics = <<>> THEN score ELSE FirstScore(metrics, keys)
<1> DEFINE I == {i \in 1 .. Len(metrics) : BaseScore(metrics[i], keys) # 0}
<1>1. I = {i \in DOMAIN metrics : BaseScore(metrics[i], keys) # 0}
  OBVIOUS
<1>2. I # {} => Min(I) # 0
  <2>1. IsFiniteSet(1 .. Len(metrics))
    BY FS_Interval
  <2>2. IsFiniteSet(I)
    BY <2>1, FS_Subset
  <2>3. \A i \in I : i \in Int /\ i # 0
    OBVIOUS
  <2> HIDE DEF I
  <2> QED
    BY <2>2, <2>3, Extremes
<1> QED
  BY <1>1, <1>2 DEF AfterMetrics, SelectInSeq, FirstScore

\* One more container: the last with metrics decides, whether it has a score or
\* not.
LEMMA LastOfStep ==
    ASSUME NEW M, NEW adp \in Seq(Seq(M)), NEW t \in SUBSET DOMAIN adp, t # {}
    PROVE  /\ Max(t) \in t
           /\ LastOf(adp, t) = AfterMetrics(LastOf(adp, t \ {Max(t)}), adp[Max(t)], AdpKeys)
<1> DEFINE x == Max(t)
           Full(u) == {i \in u : adp[i] # << >>}
<1>1. t \subseteq Int /\ IsFiniteSet(t)
  <2>1. IsFiniteSet(1 .. Len(adp))
    BY FS_Interval
  <2> QED
    BY <2>1, FS_Subset
<1>2. x \in t /\ \A y \in t : x >= y
  BY <1>1, Extremes
<1>3. adp[x] \in Seq(M)
  BY <1>2
<1>4. CASE adp[x] = << >>
  <2>1. Full(t) = Full(t \ {x})
    BY <1>4
  <2> QED
    BY <1>2, <1>3, <1>4, <2>1, AfterMetricsIs DEF LastOf
<1>5. CASE adp[x] # << >>
  <2>1. x \in Full(t) /\ \A y \in Full(t) : x >= y
    BY <1>2, <1>5
  <2>2. Max(Full(t)) = x
    <3>0. Full(t) \in SUBSET t
      OBVIOUS
    <3>1. Full(t) \in SUBSET Int /\ IsFiniteSet(Full(t)) /\ Full(t) # {}
      BY <1>1, <2>1, <3>0, FS_Subset
    <3>2. Max(Full(t)) \in Full(t) /\ \A y \in Full(t) : Max(Full(t)) >= y
      BY <3>1, Extremes
    <3>3. Max(Full(t)) \in Int /\ x \in Int
      BY <1>1, <1>2, <3>2
    <3>4. Max(Full(t)) >= x /\ x >= Max(Full(t))
      BY <2>1, <3>2
    <3> HIDE DEF x, Full
    <3> QED
      BY <3>3, <3>4
  <2> QED
    BY <1>2, <1>3, <1>5, <2>1, <2>2, AfterMetricsIs DEF LastOf
<1> QED
  BY <1>2, <1>4, <1>5

\* The loop over the containers, whatever their number: its result is the
\* fixed point of the fold's equation, and there is one only.
LEMMA LoopIs ==
    ASSUME NEW M, NEW adp \in Seq(Seq(M))
    PROVE  FoldLeft(LAMBDA s, metrics : AfterMetrics(s, metrics, AdpKeys), 0, adp)
             = LastOf(adp, DOMAIN adp)
<1> DEFINE D == DOMAIN adp
           Loop(f) == [t \in SUBSET D |->
                         IF t = {} THEN 0
                         ELSE LET x == Max(t) IN AfterMetrics(f[t \ {x}], adp[x], AdpKeys)]
           result == CHOOSE f : f = Loop(f)
           given == [t \in SUBSET D |-> LastOf(adp, t)]
<1>1. FoldLeft(LAMBDA s, metrics : AfterMetrics(s, metrics, AdpKeys), 0, adp) = result[D]
  BY DEF FoldLeft, MapThenFoldSet
<1>2. given = Loop(given)
  <2> SUFFICES ASSUME NEW t \in SUBSET D
               PROVE  given[t] = IF t = {} THEN 0
                         ELSE AfterMetrics(given[t \ {Max(t)}], adp[Max(t)], AdpKeys)
    OBVIOUS
  <2>1. CASE t = {}
    BY <2>1 DEF LastOf
  <2>2. CASE t # {}
    <3>1. t \ {Max(t)} \in SUBSET D
      OBVIOUS
    <3> QED
      BY <2>2, <3>1, LastOfStep
  <2> QED
    BY <2>1, <2>2
<1>3. result = Loop(result)
  BY <1>2
<1> HIDE DEF result, given
<1>4. \A t \in SUBSET D : result[t] = given[t]
  <2> DEFINE Bad == {t \in SUBSET D : result[t] # given[t]}
  <2> SUFFICES ASSUME Bad # {} PROVE FALSE
    OBVIOUS
  <2>1. IsFiniteSet(D)
    BY FS_Interval
  <2>2. Bad \in SUBSET SUBSET D
    OBVIOUS
  <2> HIDE DEF Bad
  <2>3. PICK t \in Bad : \A u \in Bad : u \subseteq t => u = t
    BY <2>1, <2>2, MinimalSubset
  <2> USE DEF Bad
  <2>4. t \in SUBSET D /\ result[t] # given[t]
    BY <2>3
  <2>5. CASE t = {}
    BY <1>2, <1>3, <2>4, <2>5
  <2>6. CASE t # {}
    <3>1. Max(t) \in t
      BY <2>4, <2>6, LastOfStep
    <3>2. t \ {Max(t)} \in SUBSET D /\ t \ {Max(t)} \notin Bad
      BY <2>3, <2>4, <3>1
    <3>3. result[t \ {Max(t)}] = given[t \ {Max(t)}]
      BY <3>2
    <3> QED
      BY <1>2, <1>3, <2>4, <2>6, <3>3
  <2> QED
    BY <2>5, <2>6
<1> QED
  BY <1>1, <1>4 DEF given

\* The score api.py gives a record, whatever the numbers of its metrics and
\* containers are (api.py:174-197).
THEOREM ScoreIs ==
    ASSUME NEW M, NEW r, r.cna \in Seq(M), r.adp \in Seq(Seq(M))
    PROVE  CvssScore(r) = ExplainedScore(r)
<1>1. AfterMetrics(0, r.cna, CnaKeys) = FirstScore(r.cna, CnaKeys)
  <2>1. FirstScore(<< >>, CnaKeys) = 0
    BY DEF FirstScore
  <2> QED
    BY <2>1, AfterMetricsIs
<1>2. FoldLeft(LAMBDA s, metrics : AfterMetrics(s, metrics, AdpKeys), 0, r.adp)
        = LastOf(r.adp, DOMAIN r.adp)
  BY LoopIs
<1> QED
  BY <1>1, <1>2 DEF CvssScore, ExplainedScore

\* The score of a CVE is the first of its CNA; without one, what the last ADP
\* container with metrics has, and nothing else (api.py:174-197).
THEOREM ScoresExplained == Spec => []ScoreExplained
<1>1. ScoreExplained
  <2> SUFFICES ASSUME NEW r \in AllRecords PROVE CvssScore(r) = ExplainedScore(r)
    BY DEF ScoreExplained
  <2>1. ASSUME NEW S, NEW s \in Upto2(S) PROVE s \in Seq(S)
    <3>1. PICK m \in 0 .. 2 : s \in [1 .. m -> S]
      BY DEF Upto2, BoundedSeq, SeqOf
    <3> QED
      BY <3>1
  <2> DEFINE M == CnaMetrics \union AdpMetrics
  <2>2. r.cna \in Upto2(CnaMetrics) /\ r.adp \in Upto2(Upto2(AdpMetrics))
    BY DEF AllRecords
  <2>3. r.cna \in Seq(CnaMetrics) /\ r.adp \in Seq(Upto2(AdpMetrics))
    BY <2>1, <2>2
  <2>4. r.cna \in Seq(M) /\ r.adp \in Seq(Seq(M))
    BY <2>1, <2>3
  <2> QED
    BY <2>4, ScoreIs
<1> QED
  BY <1>1, PTL
=============================================================================
