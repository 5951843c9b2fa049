------------------------------ MODULE Tools_proofs ------------------------------
(***************************************************************************)
(* Proofs about the repository's own tools: the rewriting of history       *)
(* (HistoryDrop), for any paths, rules, versions and bounds, and the       *)
(* reading of captures (CaptureTools), for any packets, waits, units of    *)
(* time and bounds.                                                        *)
(***************************************************************************)
EXTENDS HistoryDrop, CaptureTools, Lemmas

-------------------------------------------------------------------------------
(* The history of the repository.                                          *)

Commits == [tree : Trees, touched : SUBSET Paths, merge : BOOLEAN]

\* What a recorded commit adds to the history.
LEMMA RecordType ==
  ASSUME TypeOK, NEW r \in Refs, NEW tree \in Trees, NEW parents,
         NEW reached \in SUBSET (1..Len(log)), NEW merge \in BOOLEAN,
         Record(r, tree, parents, reached, merge)
  PROVE  /\ log' \in Seq(Commits)
         /\ Len(log') = Len(log) + 1
         /\ \A i \in 1..Len(log) : log'[i] = log[i]
         /\ log'[Len(log) + 1] =
              [tree |-> tree, touched |-> Touches(tree, parents), merge |-> merge]
         /\ reach'[r] = reached \cup {Len(log) + 1}
         /\ \A q \in Refs \ {r} : reach'[q] = reach[q] /\ tip'[q] = tip[q]
         /\ tip'[r] = Len(log) + 1
         /\ TypeOK'
<1> DEFINE c == [tree |-> tree, touched |-> Touches(tree, parents), merge |-> merge]
<1>1. c \in Commits
  BY DEF Commits, Touches
<1>2. log \in Seq(Commits) /\ log' = Append(log, c)
  BY DEF TypeOK, Record, Commits
<1> HIDE DEF c
<1>3. /\ log' \in Seq(Commits)
      /\ Len(log') = Len(log) + 1 /\ Len(log) \in Nat
      /\ \A i \in 1..Len(log) : log'[i] = log[i]
      /\ log'[Len(log) + 1] = c
  BY <1>1, <1>2
<1>4. /\ reach' = [reach EXCEPT ![r] = reached \cup {Len(log) + 1}]
      /\ tip' = [tip EXCEPT ![r] = Len(log) + 1]
      /\ reach \in [Refs -> SUBSET (1..Len(log))]
      /\ tip \in [Refs -> 0..Len(log)]
  BY DEF TypeOK, Record
<1>5. /\ reach'[r] = reached \cup {Len(log) + 1} /\ tip'[r] = Len(log) + 1
      /\ \A q \in Refs \ {r} : reach'[q] = reach[q] /\ tip'[q] = tip[q]
  BY <1>4
<1>6. reach' \in [Refs -> SUBSET (1..Len(log'))]
  <2>1. \A q \in Refs : reach'[q] \subseteq 1..Len(log')
    <3> SUFFICES ASSUME NEW q \in Refs PROVE reach'[q] \subseteq 1..Len(log')
      OBVIOUS
    <3>1. CASE q = r
      <4>1. \A i \in reached : i \in 1..Len(log)
        OBVIOUS
      <4>2. \A i \in 1..Len(log) : i \in 1..Len(log')
        BY <1>3
      <4>3. Len(log) + 1 \in 1..Len(log')
        BY <1>3
      <4> QED
        BY <1>5, <3>1, <4>1, <4>2, <4>3
    <3>2. CASE q # r
      <4>1. reach'[q] = reach[q] /\ reach[q] \in SUBSET (1..Len(log))
        BY <1>4, <1>5, <3>2
      <4> QED
        BY <1>3, <4>1
    <3> QED
      BY <3>1, <3>2
  <2> QED
    BY <1>4, <2>1
<1>7. tip' \in [Refs -> 0..Len(log')]
  BY <1>3, <1>4
<1>8. \A d \in drops' : d.base \in 0..Len(log')
  BY <1>3 DEF TypeOK, Record
<1>9. TypeOK'
  BY <1>3, <1>6, <1>7, <1>8 DEF TypeOK, Record, Commits
<1> QED
  BY <1>3, <1>5, <1>9 DEF c

\* The tree at a ref's tip is a tree.
LEMMA TipTreeType ==
  ASSUME TypeOK, NEW r \in Refs
  PROVE  TipTree(r) \in Trees
<1>1. CASE tip[r] = 0
  BY <1>1 DEF TipTree, EmptyTree, Trees
<1>2. CASE tip[r] # 0
  <2>1. tip[r] \in 1..Len(log)
    BY <1>2 DEF TypeOK
  <2>2. log \in Seq(Commits)
    BY DEF TypeOK, Commits
  <2>3. log[tip[r]] \in Commits
    BY <2>1, <2>2
  <2> QED
    BY <1>2, <2>3 DEF TipTree, Commits
<1> QED
  BY <1>1, <1>2

\* Taking paths out of the commits leaves commits.
LEMMA WithoutType ==
  ASSUME NEW c \in Commits, NEW paths
  PROVE  /\ Without(c, paths) \in Commits
         /\ \A p \in Paths : Without(c, paths).tree[p] = IF p \in paths THEN Gone ELSE c.tree[p]
         /\ Without(c, paths).touched = c.touched \ paths
<1>1. PICK tr \in Trees, to \in SUBSET Paths, me \in BOOLEAN :
        c = [tree |-> tr, touched |-> to, merge |-> me]
  BY DEF Commits
<1>2. PICK tree : tree = [p \in Paths |-> IF p \in paths THEN Gone ELSE tr[p]]
  OBVIOUS
<1>3. tree \in Trees
  BY <1>2 DEF Trees
<1>4. [c EXCEPT !.tree = tree] = [tree |-> tree, touched |-> to, merge |-> me]
  BY <1>1
<1>5. Without(c, paths) = [tree |-> tree, touched |-> to \ paths, merge |-> me]
  <2>1. c.tree = tr /\ c.touched = to
    BY <1>1
  <2>2. Without(c, paths) = [[c EXCEPT !.tree = tree] EXCEPT !.touched = to \ paths]
    BY <1>2, <2>1 DEF Without
  <2> QED
    BY <1>4, <2>2
<1> QED
  BY <1>1, <1>2, <1>3, <1>5 DEF Commits

-------------------------------------------------------------------------------
(* Type correctness. *)

LEMMA InternalType ==
  ASSUME TypeOK, NEW revs \in SUBSET Refs
  PROVE  HistoryInternal(revs) \in SUBSET Paths
<1>1. log \in Seq(Commits) /\ \A r \in Refs : reach[r] \in SUBSET (1..Len(log))
  BY DEF TypeOK, Commits
<1>2. \A r \in revs : \A i \in reach[r] : log[i] \in Commits
  BY <1>1
<1> QED
  BY <1>2 DEF HistoryInternal, HistoryPaths, Commits

LEMMA TypeStep == TypeOK /\ [Next]_vars => TypeOK'
<1> SUFFICES ASSUME TypeOK, [Next]_vars PROVE TypeOK'
  OBVIOUS
<1>1. ASSUME NEW r \in Refs, Commit(r) PROVE TypeOK'
  <2>1. PICK p \in Paths, v \in Versions \cup {Gone} :
          Record(r, [TipTree(r) EXCEPT ![p] = v], {TipTree(r)}, reach[r], FALSE)
    BY <1>1 DEF Commit
  <2>2. [TipTree(r) EXCEPT ![p] = v] \in Trees
    BY TipTreeType DEF Trees
  <2>3. reach[r] \in SUBSET (1..Len(log))
    BY DEF TypeOK
  <2> QED
    BY <2>1, <2>2, <2>3, RecordType
<1>2. CASE Branch
  <2>1. "side" \in Refs /\ "main" \in Refs
    BY DEF Refs
  <2> QED
    BY <1>2, <2>1 DEF TypeOK, Branch
<1>3. CASE Merge
  <2>1. PICK tree \in Trees :
          Record("main", tree, {TipTree("main"), TipTree("side")},
                 reach["main"] \cup reach["side"], TRUE)
    BY <1>3 DEF Merge
  <2>2. "main" \in Refs /\ reach["main"] \cup reach["side"] \in SUBSET (1..Len(log))
    BY DEF TypeOK, Refs
  <2> QED
    BY <2>1, <2>2, RecordType
<1>4. CASE EditOps
  <2>1. ops' \in [present : BOOLEAN, rules : BOOLEAN, copy : Copies]
    <3>1. CASE \E p \in Paths, v \in Versions \cup {Gone, Other} : ops' = [ops EXCEPT !.copy[p] = v]
      <4>1. PICK p \in Paths, v \in Versions \cup {Gone, Other} :
              ops' = [ops EXCEPT !.copy = [@ EXCEPT ![p] = v]]
        BY <3>1
      <4>2. [ops.copy EXCEPT ![p] = v] \in Copies
        BY DEF TypeOK, Copies
      <4> QED
        BY <4>1, <4>2 DEF TypeOK
    <3>2. CASE ops' = [ops EXCEPT !.rules = ~@] \/ ops' = [ops EXCEPT !.present = ~@]
      BY <3>2 DEF TypeOK
    <3> QED
      BY <1>4, <3>1, <3>2 DEF EditOps
  <2> QED
    BY <1>4, <2>1 DEF TypeOK, EditOps, Listed
<1>5. CASE Clone
  BY <1>5 DEF TypeOK, Clone, Steps
<1>6. CASE EditDrops
  <2>1. EmptyTree \in Copies
    BY DEF EmptyTree, Copies
  <2>2. Len(log) \in Nat
    BY DEF TypeOK
  <2>3. drops' \subseteq [base : Nat, path : Paths] /\ \A d \in drops' : d.base \in 0..Len(log)
    BY <1>6, <2>2 DEF TypeOK, EditDrops, NoBase
  <2> QED
    BY <1>6, <2>1, <2>3 DEF TypeOK, EditDrops, Steps
<1>7. CASE OpsConfirm
  <2>1. EmptyTree \in Copies
    BY DEF EmptyTree, Copies
  <2> QED
    BY <1>7, <2>1 DEF TypeOK, OpsConfirm, Steps
<1>8. CASE ListDrops
  <2>1. HistoryInternal(Refs) \in SUBSET Paths
    BY InternalType
  <2>2. ops.present \in BOOLEAN
    BY DEF TypeOK
  <2>4. dropFile' \in [paths : SUBSET Paths, named : BOOLEAN]
    <3>1. CASE ReadDropsOk /\ RulesOk
      <4>1. dropFile' = [paths |-> HistoryInternal(Refs), named |-> ops.present]
        BY <1>8, <3>1 DEF ListDrops
      <4>2. PICK h \in SUBSET Paths, b \in BOOLEAN : dropFile' = [paths |-> h, named |-> b]
        BY Zenon, <2>1, <2>2, <4>1
      <4> QED
        BY <4>2
    <3>2. CASE ~(ReadDropsOk /\ RulesOk)
      <4>1. dropFile' = [paths |-> {}, named |-> FALSE]
        BY Zenon, <1>8, <3>2 DEF ListDrops
      <4> QED
        BY <4>1
    <3> QED
      BY <3>1, <3>2
  <2>3. step' \in Steps
    BY <1>8 DEF ListDrops, Steps
  <2>5. step' = "listed" => dropFile'.paths \subseteq Listed'
    <3>1. Listed' = Listed
      BY <1>8 DEF ListDrops, Listed
    <3>2. step' = "listed" => dropFile'.paths \subseteq Listed
      BY <1>8 DEF ListDrops
    <3> QED
      BY <3>1, <3>2
  <2>6. step' # "rewritten"
    BY <1>8 DEF ListDrops
  <2> QED
    BY <1>8, <2>4, <2>3, <2>5, <2>6 DEF TypeOK, ListDrops
<1>9. CASE FilterRepo
  <2>1. log \in Seq(Commits)
    BY DEF TypeOK, Commits
  <2>2. \A i \in DOMAIN log : Without(log[i], dropFile.paths) \in Commits
    BY <2>1, WithoutType
  <2>3. log' \in Seq(Commits) /\ Len(log') = Len(log)
    BY <1>9, <2>1, <2>2 DEF FilterRepo
  <2>4. dropFile'.paths \subseteq Listed'
    BY <1>9 DEF TypeOK, FilterRepo, Listed
  <2> QED
    BY <1>9, <2>3, <2>4 DEF TypeOK, FilterRepo, Steps, Commits
<1>10. CASE UNCHANGED vars
  BY <1>10 DEF TypeOK, vars, Listed
<1> QED
  BY <1>1, <1>2, <1>3, <1>4, <1>5, <1>6, <1>7, <1>8, <1>9, <1>10 DEF Next

LEMMA TypeInit == Init => TypeOK
<1> SUFFICES ASSUME Init PROVE TypeOK
  OBVIOUS
<1>1. EmptyTree \in Copies
  BY DEF EmptyTree, Copies
<1>2. log \in Seq(Commits) /\ Len(log) = 0
  BY DEF Init
<1>3. tip \in [Refs -> 0..Len(log)] /\ reach \in [Refs -> SUBSET (1..Len(log))]
  BY <1>2 DEF Init
<1>4. ops \in [present : BOOLEAN, rules : BOOLEAN, copy : Copies]
  BY <1>1 DEF Init
<1>5. dropFile \in [paths : SUBSET Paths, named : BOOLEAN] /\ held \in Copies
  BY <1>1 DEF Init
<1> QED
  BY <1>2, <1>3, <1>4, <1>5 DEF Init, TypeOK, Steps, Commits

\* Every state of the program and of its files has its type.
THEOREM TypeCorrect == Spec => []TypeOK
BY TypeInit, TypeStep, PTL DEF Spec

-------------------------------------------------------------------------------
(* What is dropped was confirmed.                                          *)

\* Once ops-confirm has passed and until the list is edited, every entry of the
\* drop list has a copy identical to its version at the base.
Confirmed ==
  step \in {"confirmed", "listed"} =>
    \A d \in drops : held[d.path] # Gone /\ Show(d) = held[d.path]

\* What list printed is what is internal in the history, and all of it listed.
ListIsCurrent ==
  step = "listed" =>
    /\ dropFile.paths \subseteq Listed
    /\ \A p \in HistoryPaths(Refs) :
         p \in Listed \/ belongs_in_ops(p, IF dropFile.named THEN NamePaths ELSE {})
           => p \in dropFile.paths

\* git log names every path some commit carries.
CarriedIsTouched ==
  \A r \in Refs : \A i \in reach[r] : \A p \in Paths :
    log[i].tree[p] # Gone => \E j \in reach[r] : p \in log[j].touched

TipsReached == \A r \in Refs : IF tip[r] = 0 THEN reach[r] = {} ELSE tip[r] \in reach[r]

IInv ==
  /\ TypeOK
  /\ Confirmed
  /\ ListIsCurrent
  /\ TipsReached
  /\ CarriedIsTouched
  /\ RewriteLeavesNoInternal

LEMMA IInvInit == Init => IInv
<1> SUFFICES ASSUME Init PROVE IInv
  OBVIOUS
<1>1. TypeOK
  BY TypeInit
<1>2. Confirmed /\ ListIsCurrent /\ RewriteLeavesNoInternal
  BY DEF Init, Confirmed, ListIsCurrent, RewriteLeavesNoInternal
<1>3. TipsReached /\ CarriedIsTouched
  BY DEF Init, TipsReached, CarriedIsTouched
<1> QED
  BY <1>1, <1>2, <1>3 DEF IInv

\* A commit recorded on a ref touches every file it holds that its parents,
\* reachable from the ref, do not hold alike.
LEMMA RecordCarries ==
  ASSUME IInv, NEW r \in Refs, NEW tree \in Trees, NEW parents,
         NEW reached \in SUBSET (1..Len(log)), NEW merge \in BOOLEAN,
         Record(r, tree, parents, reached, merge),
         parents # {},
         reach[r] \subseteq reached,
         \A i \in reached : \E q \in Refs : i \in reach[q] /\ reach[q] \subseteq reached,
         \A t \in parents : \/ t = EmptyTree
                            \/ \E q \in Refs : /\ tip[q] # 0 /\ t = TipTree(q)
                                               /\ reach[q] \subseteq reached
  PROVE  TipsReached' /\ CarriedIsTouched'
<1> DEFINE n == Len(log) + 1
<1>1. /\ Len(log) \in Nat
      /\ \A i \in 1..Len(log) : log'[i] = log[i]
      /\ log'[n].tree = tree /\ log'[n].touched = Touches(tree, parents)
      /\ reach'[r] = reached \cup {n} /\ tip'[r] = n
      /\ \A q \in Refs \ {r} : reach'[q] = reach[q] /\ tip'[q] = tip[q]
  <2>1. TypeOK
    BY DEF IInv
  <2>2. Len(log) \in Nat
    BY <2>1 DEF TypeOK
  <2>3. log'[n] = [tree |-> tree, touched |-> Touches(tree, parents), merge |-> merge]
    <3>1. log'[Len(log) + 1] =
            [tree |-> tree, touched |-> Touches(tree, parents), merge |-> merge]
      BY <2>1, RecordType
    <3> QED
      BY <3>1
  <2>4. /\ \A i \in 1..Len(log) : log'[i] = log[i]
        /\ reach'[r] = reached \cup {n} /\ tip'[r] = n
        /\ \A q \in Refs \ {r} : reach'[q] = reach[q] /\ tip'[q] = tip[q]
    <3> HIDE DEF n
    <3>1. n = Len(log) + 1
      BY DEF n
    <3>2. \A i \in 1..Len(log) : log'[i] = log[i]
      BY <2>1, RecordType
    <3>3. reach'[r] = reached \cup {Len(log) + 1} /\ tip'[r] = Len(log) + 1
      BY <2>1 DEF Record, TypeOK
    <3>4. \A q \in Refs \ {r} : reach'[q] = reach[q] /\ tip'[q] = tip[q]
      BY <2>1 DEF Record, TypeOK
    <3> QED
      BY <3>1, <3>2, <3>3, <3>4
  <2> QED
    BY <2>2, <2>3, <2>4
<1>2. \A q \in Refs : reach[q] \subseteq 1..Len(log) /\ tip[q] \in 0..Len(log)
  BY DEF IInv, TypeOK
<1>3. TipsReached'
  BY <1>1 DEF TipsReached, IInv
<1> HIDE DEF n
<1>4. \A i \in reached, p \in Paths :
        log[i].tree[p] # Gone => \E j \in reached : p \in log[j].touched
  BY DEF IInv, CarriedIsTouched
<1>5. \A p \in Paths : tree[p] # Gone => \E j \in reached \cup {n} : p \in log'[j].touched
  <2> SUFFICES ASSUME NEW p \in Paths, tree[p] # Gone
               PROVE  \E j \in reached \cup {n} : p \in log'[j].touched
    OBVIOUS
  <2>1. CASE p \in Touches(tree, parents)
    <3>1. log'[n].touched = Touches(tree, parents)
      BY <1>1
    <3> QED
      BY <2>1, <3>1
  <2>2. CASE p \notin Touches(tree, parents)
    <3>1. PICK t \in parents : t[p] = tree[p]
      BY <2>2 DEF Touches
    <3>2. t # EmptyTree
      BY <3>1 DEF EmptyTree
    <3>3. PICK q \in Refs : tip[q] # 0 /\ t = TipTree(q) /\ reach[q] \subseteq reached
      BY <3>2
    <3>4. tip[q] \in reached /\ log[tip[q]].tree[p] # Gone
      BY <3>1, <3>3 DEF IInv, TipsReached, TipTree
    <3>5. PICK j \in reached : p \in log[j].touched
      BY <1>4, <3>4
    <3>6. j \in 1..Len(log)
      BY <3>5
    <3> QED
      BY <1>1, <3>5, <3>6
  <2> QED
    BY <2>1, <2>2
<1>6. ASSUME NEW q \in Refs, NEW i \in reach'[q], NEW p \in Paths, log'[i].tree[p] # Gone
      PROVE  \E j \in reach'[q] : p \in log'[j].touched
  <2>1. CASE q # r
    <3>1. reach'[q] = reach[q] /\ i \in 1..Len(log)
      BY <1>1, <1>2, <2>1
    <3>2. log[i].tree[p] # Gone
      BY <1>1, <1>6, <3>1
    <3>3. PICK j \in reach[q] : p \in log[j].touched
      BY <3>1, <3>2 DEF IInv, CarriedIsTouched
    <3>4. j \in 1..Len(log)
      BY <1>2, <3>3
    <3> QED
      BY <1>1, <3>1, <3>3, <3>4
  <2>2. CASE q = r /\ i = n
    <3>1. tree[p] # Gone /\ reach'[q] = reached \cup {n}
      BY <1>1, <1>6, <2>2
    <3> QED
      BY <1>5, <3>1
  <2>3. CASE q = r /\ i \in reached
    <3>1. i \in 1..Len(log)
      BY <2>3
    <3>2. log[i].tree[p] # Gone
      BY <1>1, <1>6, <3>1
    <3>3. PICK j \in reached : p \in log[j].touched
      BY <1>4, <2>3, <3>2
    <3>4. j \in 1..Len(log)
      BY <3>3
    <3> QED
      BY <1>1, <2>3, <3>3, <3>4
  <2> QED
    BY <1>1, <1>6, <2>1, <2>2, <2>3
<1> QED
  BY <1>3, <1>6 DEF CarriedIsTouched

\* A step that leaves the commits and the refs alone keeps what is said of them.
LEMMA HistoryKept ==
  ASSUME IInv, UNCHANGED <<log, tip, reach>>
  PROVE  TipsReached' /\ CarriedIsTouched'
BY DEF IInv, TipsReached, CarriedIsTouched

\* While the history is still made, no list and no confirmation exists.
LEMMA LandingStep ==
  ASSUME IInv, step' = "landing"
  PROVE  Confirmed' /\ ListIsCurrent' /\ RewriteLeavesNoInternal'
BY DEF Confirmed, ListIsCurrent, RewriteLeavesNoInternal

LEMMA CommitStep == ASSUME IInv, NEW r \in Refs, Commit(r) PROVE IInv'
<1>1. TypeOK'
  BY TypeStep, Zenon DEF IInv, Next
<1> DEFINE parents == {TipTree(r)}
<1>2. PICK p \in Paths, v \in Versions \cup {Gone} :
        Record(r, [TipTree(r) EXCEPT ![p] = v], parents, reach[r], FALSE)
  BY DEF Commit
<1>3. [TipTree(r) EXCEPT ![p] = v] \in Trees
  BY TipTreeType DEF Trees, IInv
<1>4. reach[r] \in SUBSET (1..Len(log))
  BY DEF IInv, TypeOK
<1>5. /\ parents # {} /\ reach[r] \subseteq reach[r] /\ FALSE \in BOOLEAN
      /\ \A i \in reach[r] : \E q \in Refs : i \in reach[q] /\ reach[q] \subseteq reach[r]
      /\ \A t \in parents : \/ t = EmptyTree
                            \/ \E q \in Refs : /\ tip[q] # 0 /\ t = TipTree(q)
                                               /\ reach[q] \subseteq reach[r]
  BY DEF TipTree
<1> HIDE DEF parents
<1>6. TipsReached' /\ CarriedIsTouched'
  BY <1>2, <1>3, <1>4, <1>5, RecordCarries
<1>7. step' = "landing"
  BY <1>2 DEF Record
<1> QED
  BY <1>1, <1>6, <1>7, LandingStep DEF IInv

LEMMA MergeStep == ASSUME IInv, Merge PROVE IInv'
<1>1. TypeOK'
  BY TypeStep, Zenon DEF IInv, Next
<1> DEFINE parents == {TipTree("main"), TipTree("side")}
           reached == reach["main"] \cup reach["side"]
<1>2. PICK tree \in Trees : Record("main", tree, parents, reached, TRUE)
  BY DEF Merge
<1>3. "main" \in Refs /\ "side" \in Refs /\ reached \in SUBSET (1..Len(log))
  BY DEF IInv, TypeOK, Refs
<1>4. /\ parents # {} /\ reach["main"] \subseteq reached /\ TRUE \in BOOLEAN
      /\ \A i \in reached : \E q \in Refs : i \in reach[q] /\ reach[q] \subseteq reached
  BY <1>3
<1>5. \A t \in parents : \/ t = EmptyTree
                         \/ \E q \in Refs : /\ tip[q] # 0 /\ t = TipTree(q)
                                            /\ reach[q] \subseteq reached
  BY <1>3 DEF TipTree
<1> HIDE DEF parents, reached
<1>6. TipsReached' /\ CarriedIsTouched'
  BY <1>2, <1>3, <1>4, <1>5, RecordCarries
<1>7. step' = "landing"
  BY <1>2 DEF Record
<1> QED
  BY <1>1, <1>6, <1>7, LandingStep DEF IInv

LEMMA BranchStep == ASSUME IInv, Branch PROVE IInv'
<1>1. TypeOK'
  BY TypeStep, Zenon DEF IInv, Next
<1>2. /\ tip \in [Refs -> 0..Len(log)] /\ reach \in [Refs -> SUBSET (1..Len(log))]
      /\ "main" \in Refs /\ "side" \in Refs
  BY DEF IInv, TypeOK, Refs
<1>3. /\ tip'["side"] = tip["main"] /\ reach'["side"] = reach["main"]
      /\ \A q \in Refs \ {"side"} : tip'[q] = tip[q] /\ reach'[q] = reach[q]
      /\ log' = log
  BY <1>2 DEF Branch
<1>4. TipsReached'
  BY <1>2, <1>3 DEF TipsReached, IInv
<1>5. CarriedIsTouched'
  BY <1>2, <1>3 DEF CarriedIsTouched, IInv
<1>6. step' = "landing"
  BY DEF Branch
<1> QED
  BY <1>1, <1>4, <1>5, <1>6, LandingStep DEF IInv

LEMMA EditOpsStep == ASSUME IInv, EditOps PROVE IInv'
<1>1. TypeOK'
  BY TypeStep, Zenon DEF IInv, Next
<1>2. UNCHANGED <<log, tip, reach, drops, step, dropFile, held>>
  BY DEF EditOps
<1>3. Confirmed' /\ ListIsCurrent' /\ RewriteLeavesNoInternal'
  BY <1>2 DEF IInv, Confirmed, Show, ListIsCurrent, Listed, HistoryPaths, belongs_in_ops,
              RewriteLeavesNoInternal, Carried, CarriedBy
<1> QED
  BY <1>1, <1>2, <1>3, HistoryKept DEF IInv

LEMMA ClonedStep ==
  ASSUME IInv, [Next]_vars, UNCHANGED <<log, tip, reach>>, step' = "cloned"
  PROVE  IInv'
<1>1. TypeOK'
  BY TypeStep DEF IInv
<1>2. Confirmed' /\ ListIsCurrent' /\ RewriteLeavesNoInternal'
  BY DEF Confirmed, ListIsCurrent, RewriteLeavesNoInternal
<1> QED
  BY <1>1, <1>2, HistoryKept DEF IInv

LEMMA OpsConfirmStep == ASSUME IInv, OpsConfirm PROVE IInv'
<1>1. TypeOK'
  BY TypeStep, Zenon DEF IInv, Next
<1>2. UNCHANGED <<log, tip, reach, drops>> /\ step' \in {"confirmed", "cloned"}
  BY DEF OpsConfirm
<1>3. Confirmed'
  <2> SUFFICES ASSUME step' = "confirmed", NEW d \in drops
               PROVE  held'[d.path] # Gone /\ Show(d) = held'[d.path]
    BY <1>2 DEF Confirmed, Show
  <2>1. OpsConfirmed /\ held' = ops.copy
    BY DEF OpsConfirm
  <2> QED
    BY <2>1 DEF OpsConfirmed, Unconfirmed
<1>4. ListIsCurrent' /\ RewriteLeavesNoInternal'
  BY <1>2 DEF ListIsCurrent, RewriteLeavesNoInternal
<1> QED
  BY <1>1, <1>2, <1>3, <1>4, HistoryKept DEF IInv

LEMMA ListDropsStep == ASSUME IInv, ListDrops PROVE IInv'
<1>1. TypeOK'
  BY TypeStep, Zenon DEF IInv, Next
<1>2. UNCHANGED <<log, tip, reach, drops, held>> /\ step \in {"confirmed", "listed"}
      /\ step' \in {"confirmed", "listed"}
  BY DEF ListDrops
<1>3. Confirmed'
  BY <1>2 DEF IInv, Confirmed, Show
<1>4. ListIsCurrent'
  <2> SUFFICES ASSUME step' = "listed" PROVE ListIsCurrent'
    BY DEF ListIsCurrent
  <2>1. /\ dropFile' = [paths |-> HistoryInternal(Refs), named |-> ops.present]
        /\ dropFile'.paths \subseteq Listed
    BY DEF ListDrops
  <2>2. Listed' = Listed /\ HistoryPaths(Refs)' = HistoryPaths(Refs)
    BY <1>2 DEF Listed, HistoryPaths
  <2>3. \A p \in HistoryPaths(Refs) :
          p \in Listed \/ belongs_in_ops(p, IF dropFile'.named THEN NamePaths ELSE {})
            => p \in dropFile'.paths
    BY <2>1 DEF HistoryInternal, belongs_in_ops, NameRules
  <2> QED
    BY <2>1, <2>2, <2>3 DEF ListIsCurrent, belongs_in_ops
<1>5. RewriteLeavesNoInternal'
  BY <1>2 DEF RewriteLeavesNoInternal
<1> QED
  BY <1>1, <1>2, <1>3, <1>4, <1>5, HistoryKept DEF IInv

LEMMA FilterRepoStep == ASSUME IInv, FilterRepo PROVE IInv'
<1>1. TypeOK'
  BY TypeStep, Zenon DEF IInv, Next
<1>2. UNCHANGED <<tip, reach, drops, dropFile>> /\ step = "listed" /\ step' = "rewritten"
  BY DEF FilterRepo
<1>3. \A r \in Refs : reach[r] \subseteq 1..Len(log)
  BY DEF IInv, TypeOK
<1>4. \A i \in 1..Len(log) :
        /\ \A p \in Paths : log'[i].tree[p] = IF p \in dropFile.paths THEN Gone ELSE log[i].tree[p]
        /\ log'[i].touched = log[i].touched \ dropFile.paths
  <2>1. log \in Seq(Commits)
    BY DEF IInv, TypeOK, Commits
  <2>2. \A i \in 1..Len(log) : log[i] \in Commits /\ log'[i] = Without(log[i], dropFile.paths)
    BY <2>1 DEF FilterRepo
  <2> QED
    BY <2>2, WithoutType
<1>5. TipsReached'
  BY <1>2 DEF IInv, TipsReached
<1>6. CarriedIsTouched'
  <2> SUFFICES ASSUME NEW r \in Refs, NEW i \in reach[r], NEW p \in Paths,
                      log'[i].tree[p] # Gone
               PROVE  \E j \in reach[r] : p \in log'[j].touched
    BY <1>2 DEF CarriedIsTouched
  <2>1. p \notin dropFile.paths /\ log[i].tree[p] # Gone
    BY <1>3, <1>4
  <2>2. PICK j \in reach[r] : p \in log[j].touched
    BY <2>1 DEF IInv, CarriedIsTouched
  <2> QED
    BY <1>3, <1>4, <2>1, <2>2
<1>7. RewriteLeavesNoInternal'
  <2> SUFFICES ASSUME NEW p \in Carried',
                      p \in Listed \/ belongs_in_ops(p, IF dropFile.named THEN NamePaths ELSE {})
               PROVE  FALSE
    BY <1>2 DEF RewriteLeavesNoInternal, Listed, belongs_in_ops
  <2>0. PICK r \in Refs : \E i \in reach[r] : log'[i].tree[p] # Gone /\ p \in Paths
    BY <1>2 DEF Carried, CarriedBy, Refs
  <2>1. PICK i \in reach[r] : log'[i].tree[p] # Gone /\ p \in Paths
    BY <2>0
  <2>2. p \notin dropFile.paths /\ log[i].tree[p] # Gone
    BY <1>3, <1>4, <2>1
  <2>3. p \in HistoryPaths(Refs)
    BY <2>1, <2>2 DEF IInv, CarriedIsTouched, HistoryPaths
  <2> QED
    BY <1>2, <2>2, <2>3 DEF IInv, ListIsCurrent
<1> QED
  BY <1>1, <1>2, <1>5, <1>6, <1>7 DEF IInv, Confirmed, ListIsCurrent

LEMMA IInvStep == IInv /\ [Next]_vars => IInv'
<1> SUFFICES ASSUME IInv, [Next]_vars PROVE IInv'
  OBVIOUS
<1>1. CASE Clone
  BY <1>1, ClonedStep DEF Clone
<1>2. CASE EditDrops
  BY <1>2, ClonedStep DEF EditDrops
<1>3. CASE UNCHANGED vars
  <2>1. TypeOK'
    BY TypeStep DEF IInv
  <2>2. UNCHANGED <<log, tip, reach, drops, step, dropFile, held>>
    BY <1>3 DEF vars
  <2>3. Confirmed' /\ ListIsCurrent' /\ RewriteLeavesNoInternal'
    BY <2>2 DEF IInv, Confirmed, Show, ListIsCurrent, Listed, HistoryPaths, belongs_in_ops,
                RewriteLeavesNoInternal, Carried, CarriedBy
  <2> QED
    BY <2>1, <2>2, <2>3, HistoryKept DEF IInv
<1> QED
  BY <1>1, <1>2, <1>3, CommitStep, MergeStep, BranchStep, EditOpsStep, OpsConfirmStep,
     ListDropsStep, FilterRepoStep DEF Next

\* Of what is carried, only the rewrite takes anything out of the history, and
\* only paths list printed.
LEMMA OnlyListedAreDropped ==
  ASSUME IInv, [Next]_vars, NEW p \in Carried, p \notin Carried'
  PROVE  step = "listed" /\ p \in dropFile.paths
<1>0. PICK r \in Refs : \E i \in reach[r] : log[i].tree[p] # Gone /\ p \in Paths
  BY DEF Carried, CarriedBy, Refs
<1>1. PICK i \in reach[r] : log[i].tree[p] # Gone /\ p \in Paths
  BY <1>0
<1>2. i \in 1..Len(log) /\ reach \in [Refs -> SUBSET (1..Len(log))]
  BY DEF IInv, TypeOK
<1>3. i \in reach'[r] => log'[i].tree[p] = Gone
  BY <1>1 DEF Carried, CarriedBy, Refs
<1>4. TypeOK
  BY DEF IInv
<1>5. ASSUME NEW q \in Refs, NEW tree \in Trees, NEW parents,
             NEW reached \in SUBSET (1..Len(log)), NEW merge \in BOOLEAN,
             Record(q, tree, parents, reached, merge), reach[q] \subseteq reached
      PROVE  FALSE
  <2>1. /\ \A k \in 1..Len(log) : log'[k] = log[k]
        /\ reach'[q] = reached \cup {Len(log) + 1}
        /\ \A x \in Refs \ {q} : reach'[x] = reach[x]
    <3>1. \A k \in 1..Len(log) : log'[k] = log[k]
      BY <1>4, <1>5, RecordType
    <3>2. reach'[q] = reached \cup {Len(log) + 1}
      BY <1>2, <1>5 DEF Record
    <3>3. \A x \in Refs \ {q} : reach'[x] = reach[x]
      BY <1>2, <1>5 DEF Record
    <3> QED
      BY <3>1, <3>2, <3>3
  <2> QED
    BY <1>1, <1>2, <1>3, <1>5, <2>1
<1>6. ASSUME NEW q \in Refs, Commit(q) PROVE FALSE
  <2>1. PICK x \in Paths, v \in Versions \cup {Gone} :
          Record(q, [TipTree(q) EXCEPT ![x] = v], {TipTree(q)}, reach[q], FALSE)
    BY <1>6 DEF Commit
  <2>2. [TipTree(q) EXCEPT ![x] = v] \in Trees /\ reach[q] \in SUBSET (1..Len(log))
    BY <1>2, <1>4, TipTreeType DEF Trees
  <2> QED
    BY <1>5, <2>1, <2>2
<1>7. ASSUME Merge PROVE FALSE
  <2>1. PICK tree \in Trees :
          Record("main", tree, {TipTree("main"), TipTree("side")},
                 reach["main"] \cup reach["side"], TRUE)
    BY <1>7 DEF Merge
  <2>2. "main" \in Refs /\ reach["main"] \cup reach["side"] \in SUBSET (1..Len(log))
    BY <1>2 DEF Refs
  <2> QED
    BY <1>5, <2>1, <2>2
<1>8. ASSUME Branch PROVE FALSE
  <2>1. reach["side"] = {} \/ r # "side"
    BY <1>8 DEF IInv, TipsReached, Branch, Refs
  <2> QED
    BY <1>1, <1>2, <1>3, <1>8, <2>1 DEF Branch
<1>9. ASSUME UNCHANGED <<log, reach>> PROVE FALSE
  BY <1>1, <1>3, <1>9
<1>10. ASSUME FilterRepo PROVE p \in dropFile.paths
  <2>1. log \in Seq(Commits)
    BY <1>4 DEF TypeOK, Commits
  <2>2. log[i] \in Commits /\ log'[i] = Without(log[i], dropFile.paths) /\ i \in reach'[r]
    BY <1>2, <1>10, <2>1 DEF FilterRepo
  <2> QED
    BY <1>1, <1>3, <2>2, WithoutType
<1> QED
  BY <1>6, <1>7, <1>8, <1>9, <1>10 DEF Next, EditOps, Clone, EditDrops, OpsConfirm, ListDrops,
     FilterRepo, vars

-------------------------------------------------------------------------------
(* The theorems. *)

LEMMA Invariance == Spec => []IInv
BY IInvInit, IInvStep, PTL DEF Spec

\* A rewrite made with the name rules at hand leaves no internal path on any
\* ref (list_drops over --all).
THEOREM RewriteIsComplete == Spec => []RewriteLeavesNoInternal
<1>1. IInv => RewriteLeavesNoInternal
  BY DEF IInv
<1> QED
  BY <1>1, Invariance, PTL

\* A check that passes is over a history whose commits carry nothing internal.
THEOREM CheckIsRight == Spec => []CheckOkMeansClean
<1>1. IInv => CheckOkMeansClean
  <2> SUFFICES ASSUME IInv, CheckOk, NEW p \in CarriedBy("main"),
                      p \in Listed \/ belongs_in_ops(p, NameRules)
               PROVE  FALSE
    BY DEF CheckOkMeansClean
  <2>1. "main" \in Refs /\ p \in Paths
    BY DEF Refs, CarriedBy
  <2>2. PICK i \in reach["main"] : log[i].tree[p] # Gone
    BY DEF CarriedBy
  <2>3. PICK j \in reach["main"] : p \in log[j].touched
    BY <2>1, <2>2 DEF IInv, CarriedIsTouched
  <2>4. p \in HistoryInternal({"main"})
    BY <2>3 DEF HistoryInternal, HistoryPaths
  <2> QED
    BY <2>4 DEF CheckOk
<1> QED
  BY <1>1, Invariance, PTL

\* What the rewrite takes out of the history is on the drop list and was seen in
\* the ops checkout, identical to its base, by the last ops-confirm that passed.
THEOREM DropsAreConfirmed == Spec => NothingDroppedUnconfirmed
<1>1. IInv /\ [Next]_vars =>
        [\A p \in Carried \ Carried' :
           /\ held[p] # Gone
           /\ \E d \in drops : d.path = p /\ Show(d) = held[p]]_vars
  <2> SUFFICES ASSUME IInv, [Next]_vars, NEW p \in Carried, p \notin Carried'
               PROVE  held[p] # Gone /\ \E d \in drops : d.path = p /\ Show(d) = held[p]
    OBVIOUS
  <2>1. step = "listed" /\ p \in dropFile.paths
    BY OnlyListedAreDropped
  <2>2. PICK d \in drops : d.path = p
    BY <2>1 DEF IInv, ListIsCurrent, Listed
  <2>3. held[d.path] # Gone /\ Show(d) = held[d.path]
    BY <2>1 DEF IInv, Confirmed
  <2> QED
    BY <2>2, <2>3
<1> QED
  BY <1>1, Invariance, PTL DEF Spec, NothingDroppedUnconfirmed

-------------------------------------------------------------------------------
(* The corpus of captures.                                                 *)

Arrivals == [t : Nat, pkt : AllPackets]
Captures == [order : Orders, prec : Precisions, header : Headers,
             records : Seq(TapRecords), tail : Seq(TapRecords)]

\* Times never run back, as packets come in and as they are recorded.
Rising(came) == \A j, k \in 1..Len(came) : j <= k => came[j].t <= came[k].t
RecordedRising(recs, prec) ==
  \A j, k \in 1..Len(recs) : j <= k => TimeOf(recs[j], prec) <= TimeOf(recs[k], prec)

\* A record holds a packet and its time, to the precision.
Tells(r, prec, arrival) ==
  /\ r.pkt = arrival.pkt
  /\ Near(TimeOf(r, prec), arrival.t, prec)
  /\ r.frac <= (IF prec = "nano" THEN SECOND ELSE USEC)

\* f holds what came in during its capture, record by record.
IsCaptureOf(f, came) ==
  /\ Len(f.records) = Len(came) /\ Len(f.tail) <= 1
  /\ f.header # "WHOLE" => came = <<>> /\ f.tail = <<>>
  /\ RecordedRising(f.records, f.prec)
  /\ \A j \in 1..Len(came) : Tells(f.records[j], f.prec, came[j])

\* The inductive invariant: what is being captured can still be recorded, and
\* every file of the corpus records what came in.
CorpusInv ==
  /\ open \in [order : Orders, prec : Precisions] \cup {NONE}
  /\ open = NONE => seen = <<>>
  /\ open # NONE => Len(files) < Len(MaxPackets)
  /\ seen \in Seq(Arrivals) /\ Rising(seen)
  /\ files \in Seq(Captures) /\ truth \in Seq(Seq(Arrivals))
  /\ Len(files) = Len(truth) /\ Len(files) <= Len(MaxPackets)
  /\ \A i \in 1..Len(files) : IsCaptureOf(files[i], truth[i])

-------------------------------------------------------------------------------
(* Times.                                                                  *)

LEMMA Units ==
  /\ SECOND \in Nat \ {0} /\ FINE \in Nat \ {0} /\ USEC \in Nat \ {0} /\ TICKS \in Nat \ {0}
  /\ SECOND = FINE * USEC /\ SECOND <= FINE * TICKS /\ 0..USEC \subseteq 0..SECOND
<1>1. PICK F, U, T : /\ F = FINE /\ U = USEC /\ T = TICKS
                     /\ F \in Nat \ {0} /\ U \in Nat \ {0} /\ T \in Nat \ {0} /\ U <= T
  BY PcapAssumption
<1>2. SECOND = U * F
  BY <1>1 DEF SECOND
<1>3. U * F \in Nat \ {0} /\ U * F = F * U /\ U * F >= U
  BY <1>1, Z3
<1>4. F * U <= F * T
  BY <1>1, Z3
<1> QED
  BY <1>1, <1>2, <1>3, <1>4

LEMMA NatParts ==
  ASSUME NEW n \in Nat, NEW d \in Nat \ {0}
  PROVE  n \div d \in Nat /\ n % d \in 0..d - 1 /\ n = d * (n \div d) + (n % d)
<1>1. PICK q, r : q = n \div d /\ r = n % d
  OBVIOUS
<1>2. n = d * q + r /\ q \in Int /\ r \in 0..d - 1
  BY <1>1, DivMod
<1>3. CASE q < 0
  <2>1. PICK e \in Int : q = -1 - e /\ e >= 0
    <3>1. q = -1 - (-1 - q) /\ -1 - q \in Int /\ -1 - q >= 0
      BY <1>2, <1>3
    <3> QED
      BY <3>1
  <2>2. d * q = -d - d * e /\ d * e >= 0 /\ d * e \in Int
    BY <2>1, Z3
  <2> QED
    BY <1>2, <2>2
<1> QED
  BY <1>1, <1>2, <1>3

\* The quotient of the larger is the larger, or its remainder is.
LEMMA PartsRise ==
  ASSUME NEW n \in Nat, NEW m \in Nat, n <= m, NEW d \in Nat \ {0}
  PROVE  n \div d < m \div d \/ (n \div d = m \div d /\ n % d <= m % d)
<1>1. PICK q, r, p, s : q = n \div d /\ r = n % d /\ p = m \div d /\ s = m % d
  OBVIOUS
<1>2. /\ n = d * q + r /\ q \in Nat /\ r \in 0..d - 1
      /\ m = d * p + s /\ p \in Nat /\ s \in 0..d - 1
  BY <1>1, NatParts
<1>3. CASE p < q
  <2>1. PICK e \in Nat : q = p + 1 + e
    <3>1. q = p + 1 + (q - p - 1) /\ q - p - 1 \in Nat
      BY <1>2, <1>3
    <3> QED
      BY <3>1
  <2>2. d * q = d * p + d + d * e /\ d * e \in Nat /\ d * p \in Nat
    BY <1>2, <2>1, Z3
  <2> QED
    BY <1>2, <2>2
<1>4. CASE p = q
  <2>1. d * q \in Nat
    BY <1>2, Z3
  <2> QED
    BY <1>1, <1>2, <1>4, <2>1
<1> QED
  BY <1>1, <1>2, <1>3, <1>4

\* The nearest integer is half the divisor off at the most.
LEMMA NearestIs ==
  ASSUME NEW n \in Nat, NEW d \in Nat \ {0}, NEW c, c = Nearest(n, d)
  PROVE  c \in Nat /\ 2 * (d * c - n) <= d /\ 2 * (n - d * c) <= d
<1>1. PICK q, r : q = n \div d /\ r = n % d
  OBVIOUS
<1>2. q \in Nat /\ r \in 0..d - 1 /\ n = d * q + r /\ d * q \in Nat /\ d * (q + 1) = d * q + d
  <2>1. q \in Nat /\ r \in 0..d - 1 /\ n = d * q + r
    BY <1>1, NatParts
  <2>2. d * q \in Nat /\ d * (q + 1) = d * q + d
    BY <2>1, Z3
  <2> QED
    BY <2>1, <2>2
<1>3. c = IF 2 * r < d \/ (2 * r = d /\ q % 2 = 0) THEN q ELSE q + 1
  BY <1>1 DEF Nearest
<1>4. (c = q /\ 2 * r <= d) \/ (c = q + 1 /\ 2 * r >= d)
  BY <1>2, <1>3
<1> QED
  BY <1>2, <1>4

LEMMA NearestRises ==
  ASSUME NEW n \in Nat, NEW m \in Nat, n <= m, NEW d \in Nat \ {0}
  PROVE  Nearest(n, d) <= Nearest(m, d)
<1>1. PICK q, r, p, s : q = n \div d /\ r = n % d /\ p = m \div d /\ s = m % d
  OBVIOUS
<1>2. q \in Nat /\ r \in 0..d - 1 /\ p \in Nat /\ s \in 0..d - 1
  BY <1>1, NatParts
<1>3. /\ Nearest(n, d) = IF 2 * r < d \/ (2 * r = d /\ q % 2 = 0) THEN q ELSE q + 1
      /\ Nearest(m, d) = IF 2 * s < d \/ (2 * s = d /\ p % 2 = 0) THEN p ELSE p + 1
  BY <1>1 DEF Nearest
<1>4. q < p \/ (q = p /\ r <= s)
  BY <1>1, PartsRise
<1>5. CASE q < p
  BY <1>2, <1>3, <1>5
<1>6. CASE q = p /\ r <= s
  <2>1. PICK even : even = (q % 2 = 0) /\ even = (p % 2 = 0)
    BY <1>6
  <2> QED
    BY <1>2, <1>3, <1>6, <2>1
<1> QED
  BY <1>4, <1>5, <1>6

LEMMA NearestFits ==
  ASSUME NEW n \in Nat, NEW d \in Nat \ {0}, NEW b \in Nat, n <= d * b
  PROVE  Nearest(n, d) <= b
<1>1. PICK c : c = Nearest(n, d)
  OBVIOUS
<1>2. c \in Nat /\ 2 * (d * c - n) <= d
  BY <1>1, NearestIs
<1>3. CASE c > b
  <2>1. PICK e \in Nat : c = b + 1 + e
    <3>1. c = b + 1 + (c - b - 1) /\ c - b - 1 \in Nat
      BY <1>2, <1>3
    <3> QED
      BY <3>1
  <2>2. d * c = d * b + d + d * e /\ d * e \in Nat /\ d * b \in Nat
    BY <2>1, Z3
  <2> QED
    BY <1>2, <2>2
<1> QED
  BY <1>1, <1>2, <1>3

\* A double is half a tick off at the most, and doubles rise with the times.
LEMMA DoubleIs ==
  ASSUME NEW t \in Nat
  PROVE  /\ Double(t) \in Nat
         /\ 2 * (SECOND * Double(t) - TICKS * t) <= SECOND
         /\ 2 * (TICKS * t - SECOND * Double(t)) <= SECOND
<1>1. PICK S, T, k : /\ S = SECOND /\ T = TICKS /\ k = Double(t)
                     /\ S \in Nat \ {0} /\ T \in Nat \ {0}
  BY Units
<1>2. t * T \in Nat /\ t * T = T * t
  BY <1>1, Z3
<1>3. k = Nearest(t * T, S)
  BY <1>1 DEF Double
<1>4. PICK n \in Nat : n = t * T
  BY <1>2
<1>5. k \in Nat /\ 2 * (S * k - n) <= S /\ 2 * (n - S * k) <= S
  BY <1>1, <1>3, <1>4, NearestIs
<1> QED
  BY <1>1, <1>2, <1>4, <1>5

LEMMA DoublesRise ==
  ASSUME NEW t \in Nat, NEW u \in Nat, t <= u
  PROVE  Double(t) <= Double(u)
<1>1. PICK S, T : S = SECOND /\ T = TICKS /\ S \in Nat \ {0} /\ T \in Nat \ {0}
  BY Units
<1>2. PICK a \in Nat, b \in Nat : a = t * T /\ b = u * T
  <2>1. t * T \in Nat /\ u * T \in Nat
    BY <1>1, Z3
  <2> QED
    BY <2>1
<1>3. a <= b
  BY <1>1, <1>2, Z3
<1>4. Nearest(a, S) <= Nearest(b, S)
  BY <1>1, <1>3, NearestRises
<1> QED
  BY <1>1, <1>2, <1>4 DEF Double

\* Where the exact time is off less, so is the double.
LEMMA DoubleIsNear ==
  ASSUME NEW t \in Nat, NEW e \in Nat, NEW w \in Nat,
         2 * (TICKS * e - TICKS * t) <= w, 2 * (TICKS * t - TICKS * e) <= w
  PROVE  /\ 2 * (Double(e) * SECOND - t * TICKS) <= SECOND + w
         /\ -(2 * (Double(e) * SECOND - t * TICKS)) <= SECOND + w
<1>1. PICK S, T, k : /\ S = SECOND /\ T = TICKS /\ k = Double(e)
                     /\ S \in Nat \ {0} /\ T \in Nat \ {0}
  BY Units
<1>2. k \in Nat /\ 2 * (S * k - T * e) <= S /\ 2 * (T * e - S * k) <= S
  BY <1>1, DoubleIs
<1>3. PICK x, y, z : /\ x = S * k /\ y = T * e /\ z = T * t
                     /\ x \in Int /\ y \in Int /\ z \in Int
  <2>1. S * k \in Int /\ T * e \in Int /\ T * t \in Int
    BY <1>1, <1>2, Z3
  <2> QED
    BY <2>1
<1>4. k * S = x /\ t * T = z
  BY <1>1, <1>2, <1>3, Z3
<1>5. /\ 2 * (y - z) <= w /\ 2 * (z - y) <= w
      /\ 2 * (x - y) <= S /\ 2 * (y - x) <= S
  BY <1>1, <1>2, <1>3
<1>6. 2 * (x - z) <= S + w /\ -(2 * (x - z)) <= S + w
  BY <1>1, <1>3, <1>5
<1> QED
  BY <1>1, <1>4, <1>6

-------------------------------------------------------------------------------
(* What the writers record.                                                *)

\* A record of tcpdump's.
LEMMA StampIs ==
  ASSUME NEW t \in Nat, NEW prec \in Precisions, NEW r, r = Stamp(t, prec)
  PROVE  /\ r.sec \in Nat /\ r.frac \in 0..SECOND
         /\ r.frac <= (IF prec = "nano" THEN SECOND ELSE USEC)
         /\ Exactly(r, prec) \in Nat
         /\ Exactly(r, prec) <= t
         /\ IF prec = "nano" THEN Exactly(r, prec) = t ELSE t < Exactly(r, prec) + FINE
<1>1. PICK F, U, S : /\ F = FINE /\ U = USEC /\ S = SECOND /\ S = F * U
                     /\ F \in Nat \ {0} /\ U \in Nat \ {0} /\ S \in Nat \ {0}
  BY Units
<1>2. PICK a, b : a = t \div S /\ b = t % S
  OBVIOUS
<1>3. t = S * a + b /\ a \in Nat /\ b \in 0..S - 1 /\ S * a \in Nat /\ a * S = S * a
  <2>1. t = S * a + b /\ a \in Nat /\ b \in 0..S - 1
    BY <1>1, <1>2, NatParts
  <2>2. S * a \in Nat /\ a * S = S * a
    BY <1>1, <2>1, Z3
  <2> QED
    BY <2>1, <2>2
<1>4. CASE prec = "nano"
  <2>1. r.sec = a /\ r.frac = b
    BY <1>1, <1>2, <1>4 DEF Stamp
  <2>2. Exactly(r, prec) = a * S + b
    BY <1>1, <1>4, <2>1 DEF Exactly
  <2> QED
    BY <1>1, <1>3, <1>4, <2>1, <2>2
<1>5. CASE prec = "usec"
  <2>1. PICK c, d : c = b \div F /\ d = b % F
    OBVIOUS
  <2>2. b = F * c + d /\ c \in Nat /\ d \in 0..F - 1
    <3>1. b \in Nat
      BY <1>1, <1>3
    <3> QED
      BY <1>1, <2>1, <3>1, NatParts
  <2>3. c <= U /\ c * F = F * c /\ F * c \in Nat
    <3>1. F * c < F * U
      <4>1. F * c \in Int /\ F * U \in Int
        BY <1>1, <2>2, Z3
      <4> QED
        BY <1>1, <1>3, <2>2, <4>1
    <3>2. c < U
      BY <1>1, <2>2, <3>1, Z3
    <3>3. c * F = F * c /\ F * c \in Nat
      BY <1>1, <2>2, Z3
    <3> QED
      BY <1>1, <2>2, <3>2, <3>3
  <2>4. r.sec = a /\ r.frac = c
    BY <1>1, <1>2, <1>5, <2>1 DEF Stamp
  <2>5. Exactly(r, prec) = a * S + c * F
    BY <1>1, <1>5, <2>4 DEF Exactly
  <2>6. Exactly(r, prec) = t - d
    BY <1>1, <1>3, <2>2, <2>3, <2>5
  <2>7. c \in 0..S
    BY <1>1, <2>2, <2>3, Units
  <2>8. Exactly(r, prec) \in Nat
    BY <1>1, <1>3, <2>3, <2>5
  <2> QED
    BY <1>1, <1>3, <1>5, <2>2, <2>3, <2>4, <2>6, <2>7, <2>8
<1> QED
  BY <1>4, <1>5 DEF Precisions

\* tcpdump's records rise with the times.
LEMMA StampsRise ==
  ASSUME NEW t \in Nat, NEW u \in Nat, t <= u, NEW prec \in Precisions
  PROVE  Exactly(Stamp(t, prec), prec) <= Exactly(Stamp(u, prec), prec)
<1>1. PICK F, U, S : /\ F = FINE /\ U = USEC /\ S = SECOND /\ S = F * U
                     /\ F \in Nat \ {0} /\ U \in Nat \ {0} /\ S \in Nat \ {0}
  BY Units
<1>2. PICK x, y : /\ x = Exactly(Stamp(t, prec), prec) /\ y = Exactly(Stamp(u, prec), prec)
                  /\ x \in Nat /\ y \in Nat /\ x <= t /\ y <= u
  BY StampIs
<1>3. CASE prec = "nano"
  <2>1. x = t /\ y = u
    BY <1>2, <1>3, StampIs
  <2> QED
    BY <1>2, <2>1
<1>4. CASE prec = "usec"
  <2>1. u < y + F
    BY <1>1, <1>2, <1>4, StampIs
  <2>2. ASSUME NEW v \in Nat
        PROVE  \E m \in Int : Exactly(Stamp(v, prec), prec) = F * m
    <3>1. PICK a, c : a = v \div S /\ c = (v % S) \div F
      OBVIOUS
    <3>2. a \in Nat /\ c \in Nat
      <4>1. PICK b : b = v % S
        OBVIOUS
      <4>2. a \in Nat /\ b \in Nat
        <5>1. a \in Nat /\ b \in 0..S - 1
          BY <1>1, <3>1, <4>1, NatParts
        <5> QED
          BY <1>1, <5>1
      <4>3. c = b \div F
        BY <3>1, <4>1
      <4> QED
        BY <1>1, <4>2, <4>3, NatParts
    <3>3. Stamp(v, prec).sec = a /\ Stamp(v, prec).frac = c
      BY <1>1, <1>4, <3>1 DEF Stamp
    <3>4. Exactly(Stamp(v, prec), prec) = a * S + c * F
      BY <1>1, <1>4, <3>3 DEF Exactly
    <3>5. a * S + c * F = F * (U * a + c) /\ U * a + c \in Int
      BY <1>1, <3>2, Z3
    <3> QED
      BY <3>4, <3>5
  <2>3. PICK m \in Int, n \in Int : x = F * m /\ y = F * n
    BY <1>2, <2>2
  <2>4. CASE n < m
    <3>1. PICK d \in Nat : m = n + 1 + d
      <4>1. m = n + 1 + (m - n - 1) /\ m - n - 1 \in Nat
        BY <2>4
      <4> QED
        BY <4>1
    <3>2. F * m = F * n + F + F * d /\ F * d \in Nat
      BY <1>1, <3>1, Z3
    <3> QED
      BY <1>1, <1>2, <2>1, <2>3, <3>2
  <2>5. CASE m <= n
    <3>1. F * m <= F * n
      BY <1>1, <2>5, Z3
    <3> QED
      BY <1>2, <2>3, <3>1
  <2> QED
    BY <2>4, <2>5
<1> QED
  BY <1>3, <1>4 DEF Precisions

\* A record of write_pcap's.
LEMMA RoundedIs ==
  ASSUME NEW k \in Nat, NEW r, r = Rounded(k)
  PROVE  /\ r.sec = k \div TICKS /\ r.frac = Nearest((k % TICKS) * USEC, TICKS)
         /\ r.sec \in Nat /\ r.frac \in 0..SECOND /\ r.frac <= USEC
         /\ Exactly(r, "usec") = FINE * (USEC * r.sec + r.frac)
         /\ Exactly(r, "usec") \in Nat
         /\ 2 * (TICKS * Exactly(r, "usec") - SECOND * k) <= FINE * TICKS
         /\ 2 * (SECOND * k - TICKS * Exactly(r, "usec")) <= FINE * TICKS
<1>1. PICK F, U, T : /\ F = FINE /\ U = USEC /\ T = TICKS /\ SECOND = F * U
                     /\ F \in Nat \ {0} /\ U \in Nat \ {0} /\ T \in Nat \ {0}
  BY Units
<1>2. PICK a, b : a = k \div T /\ b = k % T
  OBVIOUS
<1>3. k = T * a + b /\ a \in Nat /\ b \in 0..T - 1
  BY <1>1, <1>2, NatParts
<1>4. PICK x \in Nat : x = b * U /\ x <= T * U
  <2>1. b \in Nat /\ b <= T
    BY <1>1, <1>3
  <2>2. b * U \in Nat /\ b * U <= T * U
    BY <1>1, <2>1, Z3
  <2> QED
    BY <2>2
<1>5. PICK c : c = Nearest(x, T)
  OBVIOUS
<1>6. c \in Nat /\ 2 * (T * c - x) <= T /\ 2 * (x - T * c) <= T /\ c <= U
  BY <1>1, <1>4, <1>5, NearestIs, NearestFits
<1>7. r.sec = a /\ r.frac = c
  BY <1>1, <1>2, <1>4, <1>5 DEF Rounded
<1>8. Exactly(r, "usec") = a * (F * U) + c * F
  BY <1>1, <1>7 DEF Exactly
<1>9. a * (F * U) + c * F = F * (U * a + c) /\ F * (U * a + c) \in Nat
  BY <1>1, <1>3, <1>6, Z3
<1>10. PICK y \in Int : y = T * c - x /\ 2 * y <= T /\ -(2 * y) <= T
  <2>1. T * c \in Int
    BY <1>1, <1>6, Z3
  <2>2. T * c - x \in Int
    BY <1>4, <2>1
  <2> QED
    BY <1>6, <2>1, <2>2
<1>11. T * (F * (U * a + c)) - (F * U) * k = F * y
  BY <1>1, <1>3, <1>4, <1>6, <1>10, Z3
<1>12. 2 * (F * y) <= F * T /\ -(2 * (F * y)) <= F * T
  BY <1>1, <1>10, Z3
<1>13. PICK e \in Nat : e = F * (U * a + c) /\ Exactly(r, "usec") = e
  BY <1>8, <1>9
<1>14. PICK p, q, z : /\ p = T * e /\ q = (F * U) * k /\ z = F * y
                      /\ p \in Int /\ q \in Int /\ z \in Int
  <2>1. T * e \in Int /\ (F * U) * k \in Int /\ F * y \in Int
    BY <1>1, <1>10, <1>13, Z3
  <2> QED
    BY <2>1
<1>15. p - q = z
  BY <1>11, <1>13, <1>14
<1>16. 2 * (p - q) <= F * T /\ 2 * (q - p) <= F * T
  <2>1. F * T \in Int
    BY <1>1, Z3
  <2> QED
    BY <1>12, <1>14, <1>15, <2>1
<1>17. c \in 0..SECOND
  BY <1>1, <1>6, Units
<1>18. /\ r.sec = k \div TICKS /\ r.frac = Nearest((k % TICKS) * USEC, TICKS)
  BY DEF Rounded
<1> QED
  BY <1>1, <1>3, <1>6, <1>7, <1>13, <1>14, <1>16, <1>17, <1>18

\* write_pcap's records rise with the times.
LEMMA RoundedRise ==
  ASSUME NEW k \in Nat, NEW l \in Nat, k <= l
  PROVE  Exactly(Rounded(k), "usec") <= Exactly(Rounded(l), "usec")
<1>1. PICK F, U, T : /\ F = FINE /\ U = USEC /\ T = TICKS
                     /\ F \in Nat \ {0} /\ U \in Nat \ {0} /\ T \in Nat \ {0}
  BY Units
<1>2. PICK a, b, p, q : a = k \div T /\ b = k % T /\ p = l \div T /\ q = l % T
  OBVIOUS
<1>3. a \in Nat /\ b \in 0..T - 1 /\ p \in Nat /\ q \in 0..T - 1
  BY <1>1, <1>2, NatParts
<1>4. a < p \/ (a = p /\ b <= q)
  <2>1. T \in Nat \ {0} /\ k \in Nat /\ l \in Nat /\ k <= l
    BY <1>1
  <2>2. k \div T < l \div T \/ (k \div T = l \div T /\ k % T <= l % T)
    BY <2>1, PartsRise, Zenon
  <2> QED
    BY <1>2, <2>2
<1>5. PICK c, d : c = Nearest(b * U, T) /\ d = Nearest(q * U, T)
  OBVIOUS
<1>6. /\ Rounded(k).sec = a /\ Rounded(k).frac = c /\ Rounded(l).sec = p /\ Rounded(l).frac = d
      /\ Exactly(Rounded(k), "usec") = F * (U * a + c)
      /\ Exactly(Rounded(l), "usec") = F * (U * p + d)
      /\ c <= U /\ c \in Nat /\ d \in Nat
  <2>1. /\ Rounded(k).sec = a /\ Rounded(k).frac = c /\ Rounded(l).sec = p /\ Rounded(l).frac = d
    BY <1>1, <1>2, <1>5, RoundedIs
  <2>2. /\ Exactly(Rounded(k), "usec") = FINE * (USEC * Rounded(k).sec + Rounded(k).frac)
        /\ Exactly(Rounded(l), "usec") = FINE * (USEC * Rounded(l).sec + Rounded(l).frac)
        /\ Rounded(k).frac <= USEC /\ Rounded(k).frac \in 0..SECOND /\ Rounded(l).frac \in 0..SECOND
    BY RoundedIs
  <2>3. SECOND \in Nat
    BY Units
  <2> QED
    BY <1>1, <2>1, <2>2, <2>3
<1>7. U * a + c <= U * p + d
  <2>1. CASE a < p
    <3>1. PICK e \in Nat : p = a + 1 + e
      <4>1. p = a + 1 + (p - a - 1) /\ p - a - 1 \in Nat
        BY <1>3, <2>1
      <4> QED
        BY <4>1
    <3>2. U * p = U * a + U + U * e /\ U * e \in Nat /\ U * a \in Nat
      BY <1>1, <1>3, <3>1, Z3
    <3> QED
      BY <1>1, <1>6, <3>2
  <2>2. CASE a = p /\ b <= q
    <3>1. PICK x \in Nat, y \in Nat : x = b * U /\ y = q * U
      <4>1. b \in Nat /\ q \in Nat
        BY <1>1, <1>3
      <4>2. b * U \in Nat /\ q * U \in Nat
        BY <1>1, <4>1, Z3
      <4> QED
        BY <4>2
    <3>2. x <= y
      BY <1>1, <1>3, <2>2, <3>1, Z3
    <3>3. c <= d
      BY <1>1, <1>5, <3>1, <3>2, NearestRises
    <3>4. U * a \in Nat
      BY <1>1, <1>3, Z3
    <3> QED
      BY <1>6, <2>2, <3>3, <3>4
  <2> QED
    BY <1>4, <2>1, <2>2
<1>8. PICK v \in Nat, w \in Nat : v = U * a + c /\ w = U * p + d /\ v <= w
  <2>1. U * a + c \in Nat /\ U * p + d \in Nat
    BY <1>1, <1>3, <1>6, Z3
  <2> QED
    BY <1>7, <2>1
<1>9. F * v <= F * w
  BY <1>1, <1>8, Z3
<1> QED
  BY <1>6, <1>8, <1>9

\* The stamp of a time: tcpdump's, or that of a tool that holds a double.
Writers == {"tap", "tool"}
StampBy(writer, t, prec) == IF writer = "tap" THEN Stamp(t, prec) ELSE Rounded(Double(t))

LEMMA StampTells ==
  ASSUME NEW a \in Arrivals, NEW prec \in Precisions, NEW writer \in Writers,
         writer = "tool" => prec = "usec"
  PROVE  /\ Recorded(StampBy(writer, a.t, prec), a.pkt) \in TapRecords
         /\ Tells(Recorded(StampBy(writer, a.t, prec), a.pkt), prec, a)
         /\ Exactly(Recorded(StampBy(writer, a.t, prec), a.pkt), prec) \in Nat
<1>1. PICK s, r : s = StampBy(writer, a.t, prec) /\ r = Recorded(s, a.pkt)
  OBVIOUS
<1>2. PICK t \in Nat, p \in AllPackets : t = a.t /\ p = a.pkt
  BY DEF Arrivals
<1>3. r = [sec |-> s.sec, frac |-> s.frac, pkt |-> p] /\ Exactly(r, prec) = Exactly(s, prec)
  BY <1>1, <1>2 DEF Recorded, Exactly
<1>4. PICK S, T, F : /\ S = SECOND /\ T = TICKS /\ F = FINE /\ S <= F * T
                     /\ S \in Nat \ {0} /\ T \in Nat \ {0} /\ F \in Nat \ {0}
  BY Units
<1>5. PICK w : w = IF prec = "nano" THEN 0 ELSE 2 * F * T
  OBVIOUS
<1>6. F * T \in Nat /\ 2 * F * T = 2 * (F * T)
  BY <1>4, Z3
<1>7. w \in Nat
  BY <1>5, <1>6
<1>8. /\ s.sec \in Nat /\ s.frac \in 0..SECOND
      /\ s.frac <= (IF prec = "nano" THEN SECOND ELSE USEC)
      /\ Exactly(s, prec) \in Nat
      /\ Near(Double(Exactly(s, prec)), t, prec)
  <2>1. CASE writer = "tap"
    <3>1. s = Stamp(t, prec)
      BY <1>1, <1>2, <2>1 DEF StampBy
    <3>2. PICK e \in Nat : e = Exactly(s, prec)
      BY <3>1, StampIs
    <3>3. e <= t /\ IF prec = "nano" THEN e = t ELSE t < e + F
      BY <1>4, <3>1, <3>2, StampIs
    <3>4. 2 * (T * e - T * t) <= w /\ 2 * (T * t - T * e) <= w
      <4>1. PICK d \in Nat : t = e + d /\ d <= F /\ (prec = "nano" => d = 0)
        <5>1. t = e + (t - e) /\ t - e \in Nat /\ t - e <= F /\ (prec = "nano" => t - e = 0)
          BY <1>4, <3>3
        <5> QED
          BY <5>1
      <4>2. T * t = T * e + T * d /\ T * d \in Nat /\ T * e \in Nat /\ T * d <= F * T
        BY <1>4, <4>1, Z3
      <4>3. prec = "nano" => T * d = 0
        BY <1>4, <4>1
      <4> QED
        BY <1>5, <1>6, <4>2, <4>3
    <3>5. /\ 2 * (Double(e) * SECOND - t * TICKS) <= SECOND + w
          /\ -(2 * (Double(e) * SECOND - t * TICKS)) <= SECOND + w
      BY <1>4, <1>7, <3>4, DoubleIsNear
    <3>6. Near(Double(e), t, prec)
      BY <1>4, <1>5, <3>5 DEF Near
    <3> QED
      BY <3>1, <3>2, <3>6, StampIs
  <2>2. CASE writer = "tool"
    <3>1. PICK k : k = Double(t) /\ k \in Nat
      BY DoubleIs
    <3>2. s = Rounded(k) /\ prec = "usec"
      BY <1>1, <1>2, <2>2, <3>1 DEF StampBy
    <3>3. PICK e \in Nat : /\ e = Exactly(s, prec)
                           /\ 2 * (T * e - S * k) <= F * T /\ 2 * (S * k - T * e) <= F * T
      BY <1>4, <3>1, <3>2, RoundedIs
    <3>4. 2 * (S * k - T * t) <= S /\ 2 * (T * t - S * k) <= S
      BY <1>4, <3>1, DoubleIs
    <3>5. T * e \in Int /\ S * k \in Int /\ T * t \in Int
      BY <1>4, <3>1, Z3
    <3>6. 2 * (T * e - T * t) <= w /\ 2 * (T * t - T * e) <= w
      <4>1. PICK x \in Int, y \in Int, z \in Int : x = T * e /\ y = S * k /\ z = T * t
        BY <3>5
      <4>2. PICK g \in Nat : g = F * T
        BY <1>6
      <4>3. w = 2 * g /\ S <= g
        BY <1>4, <1>5, <1>6, <3>2, <4>2
      <4>4. 2 * (x - z) <= w /\ 2 * (z - x) <= w
        BY <1>4, <3>3, <3>4, <4>1, <4>2, <4>3
      <4> QED
        BY <4>1, <4>4
    <3>7. /\ 2 * (Double(e) * SECOND - t * TICKS) <= SECOND + w
          /\ -(2 * (Double(e) * SECOND - t * TICKS)) <= SECOND + w
      BY <1>4, <1>7, <3>6, DoubleIsNear
    <3>8. Near(Double(e), t, prec)
      BY <1>4, <1>5, <3>7 DEF Near
    <3> QED
      BY <3>1, <3>2, <3>3, <3>8, RoundedIs
  <2> QED
    BY <2>1, <2>2 DEF Writers
<1>9. r \in TapRecords
  BY <1>3, <1>8 DEF TapRecords
<1>10. Tells(r, prec, a)
  <2>1. r.pkt = a.pkt /\ r.frac = s.frac
    BY <1>2, <1>3
  <2>2. TimeOf(r, prec) = Double(Exactly(s, prec))
    BY <1>3 DEF TimeOf
  <2> QED
    BY <1>2, <1>8, <2>1, <2>2 DEF Tells
<1> QED
  BY <1>1, <1>2, <1>3, <1>8, <1>9, <1>10

\* Records of arrivals in order, by one writer, are in order.
LEMMA RecordsRise ==
  ASSUME NEW prec \in Precisions, NEW writer \in Writers, writer = "tool" => prec = "usec",
         NEW came \in Seq(Arrivals), Rising(came),
         NEW recs \in Seq(TapRecords), Len(recs) = Len(came),
         \A j \in 1..Len(came) :
           recs[j] = Recorded(StampBy(writer, came[j].t, prec), came[j].pkt)
  PROVE  RecordedRising(recs, prec)
<1> SUFFICES ASSUME NEW j \in 1..Len(recs), NEW k \in 1..Len(recs), j <= k
             PROVE  TimeOf(recs[j], prec) <= TimeOf(recs[k], prec)
  BY DEF RecordedRising
<1>1. PICK a \in Arrivals, b \in Arrivals : a = came[j] /\ b = came[k] /\ a.t <= b.t
  <2>1. /\ came[j] \in Arrivals /\ came[k] \in Arrivals
        /\ j \in 1..Len(came) /\ k \in 1..Len(came)
    BY ElementOfSeq
  <2>2. came[j].t <= came[k].t
    BY <2>1 DEF Rising
  <2> QED
    BY <2>1, <2>2
<1>2. PICK t \in Nat, u \in Nat : t = a.t /\ u = b.t /\ t <= u
  BY <1>1 DEF Arrivals
<1>3. PICK x, y : x = StampBy(writer, t, prec) /\ y = StampBy(writer, u, prec)
  OBVIOUS
<1>4. recs[j] = Recorded(x, a.pkt) /\ recs[k] = Recorded(y, b.pkt)
  BY <1>1, <1>2, <1>3
<1>5. Exactly(recs[j], prec) = Exactly(x, prec) /\ Exactly(recs[k], prec) = Exactly(y, prec)
  BY <1>4 DEF Recorded, Exactly
<1>6. Exactly(recs[j], prec) \in Nat /\ Exactly(recs[k], prec) \in Nat
  BY <1>1, <1>2, <1>3, <1>4, StampTells
<1>7. Exactly(x, prec) <= Exactly(y, prec)
  <2>1. CASE writer = "tap"
    BY <1>2, <1>3, <2>1, StampsRise DEF StampBy
  <2>2. CASE writer = "tool"
    <3>1. Double(t) \in Nat /\ Double(u) \in Nat /\ Double(t) <= Double(u)
      BY <1>2, DoubleIs, DoublesRise
    <3>2. x = Rounded(Double(t)) /\ y = Rounded(Double(u)) /\ prec = "usec"
      BY <1>3, <2>2 DEF StampBy
    <3> QED
      BY <3>1, <3>2, RoundedRise
  <2> QED
    BY <2>1, <2>2 DEF Writers
<1> QED
  BY <1>5, <1>6, <1>7, DoublesRise DEF TimeOf

LEMMA PrefixOf ==
  ASSUME NEW D, NEW s \in Seq(D), NEW n \in 0..Len(s)
  PROVE  /\ SubSeq(s, 1, n) \in Seq(D) /\ Len(SubSeq(s, 1, n)) = n
         /\ \A i \in 1..n : SubSeq(s, 1, n)[i] = s[i]
<1>1. n \in Nat /\ \A i \in 1..n : i \in 1..Len(s) /\ s[i] \in D
  BY LenProperties, ElementOfSeq
<1>2. /\ SubSeq(s, 1, n) \in Seq(D)
      /\ Len(SubSeq(s, 1, n)) = IF 1 <= n THEN n - 1 + 1 ELSE 0
      /\ \A i \in 1..(n - 1 + 1) : SubSeq(s, 1, n)[i] = s[1 + i - 1]
  BY <1>1, SubSeqProperties
<1>3. n - 1 + 1 = n /\ \A i \in 1..n : 1 + i - 1 = i
  BY <1>1
<1> QED
  BY <1>1, <1>2, <1>3

LEMMA RisingPrefix ==
  ASSUME NEW came \in Seq(Arrivals), Rising(came), NEW n \in 0..Len(came)
  PROVE  Rising(SubSeq(came, 1, n))
<1>1. n \in Nat /\ Len(came) \in Nat
  BY LenProperties
<1>2. Len(SubSeq(came, 1, n)) = n /\ \A i \in 1..n : SubSeq(came, 1, n)[i] = came[i]
  BY PrefixOf
<1>3. \A i \in 1..n : i \in 1..Len(came)
  BY <1>1
<1> QED
  BY <1>2, <1>3 DEF Rising

\* A file of any of the writers is a capture of what came in.
LEMMA CaptureOf ==
  ASSUME NEW came \in Seq(Arrivals), Rising(came), NEW prec \in Precisions,
         NEW writer \in Writers, writer = "tool" => prec = "usec",
         NEW f, f.prec = prec, NEW recs \in Seq(TapRecords),
         f.records = recs, Len(recs) = Len(came), Len(f.tail) <= 1,
         f.header # "WHOLE" => came = <<>> /\ f.tail = <<>>,
         \A j \in 1..Len(came) :
           recs[j] = Recorded(StampBy(writer, came[j].t, prec), came[j].pkt)
  PROVE  IsCaptureOf(f, came)
<1>1. RecordedRising(recs, prec)
  BY RecordsRise
<1>2. ASSUME NEW j \in 1..Len(came) PROVE Tells(recs[j], prec, came[j])
  <2>1. PICK a \in Arrivals : a = came[j]
    BY ElementOfSeq
  <2>2. recs[j] = Recorded(StampBy(writer, a.t, prec), a.pkt)
    BY <2>1
  <2> QED
    BY <2>1, <2>2, StampTells
<1> QED
  BY <1>1, <1>2 DEF IsCaptureOf

LEMMA LeftIsCapture ==
  ASSUME CorpusInv, open # NONE, NEW n \in 0..Len(seen), NEW header \in Headers,
         NEW body \in BOOLEAN, body => n < Len(seen), header # "WHOLE" => n = 0 /\ ~body
  PROVE  /\ Left(n, header, body) \in Captures
         /\ IsCaptureOf(Left(n, header, body), SubSeq(seen, 1, n))
<1> DEFINE rec(i) == Recorded(Stamp(seen[i].t, open.prec), seen[i].pkt)
           f == Left(n, header, body)
           came == SubSeq(seen, 1, n)
<1>1. /\ seen \in Seq(Arrivals) /\ Rising(seen) /\ Len(seen) \in Nat /\ n \in Nat
      /\ open.order \in Orders /\ open.prec \in Precisions
  BY LenProperties DEF CorpusInv
<1>2. \A i \in 1..Len(seen) : /\ rec(i) \in TapRecords
                              /\ rec(i) = Recorded(StampBy("tap", seen[i].t, open.prec), seen[i].pkt)
  <2> SUFFICES ASSUME NEW i \in 1..Len(seen)
               PROVE  /\ rec(i) \in TapRecords
                      /\ rec(i) = Recorded(StampBy("tap", seen[i].t, open.prec), seen[i].pkt)
    OBVIOUS
  <2>1. seen[i] \in Arrivals /\ "tap" \in Writers /\ "tap" # "tool"
    BY <1>1, ElementOfSeq DEF Writers
  <2>2. rec(i) = Recorded(StampBy("tap", seen[i].t, open.prec), seen[i].pkt)
    BY DEF StampBy
  <2> HIDE DEF rec
  <2> QED
    BY <1>1, <2>1, <2>2, StampTells
<1>3. /\ came \in Seq(Arrivals) /\ Len(came) = n /\ Rising(came)
      /\ \A i \in 1..n : came[i] = seen[i]
  BY <1>1, PrefixOf, RisingPrefix
<1>4. PICK recs \in Seq(TapRecords) : recs = [i \in 1..n |-> rec(i)]
  <2>1. \A i \in 1..n : rec(i) \in TapRecords
    BY <1>1, <1>2
  <2> HIDE DEF rec
  <2>2. [i \in 1..n |-> rec(i)] \in Seq(TapRecords)
    BY <1>1, <2>1, IsASeq
  <2> QED
    BY <2>2
<1>5. Len(recs) = n /\ \A i \in 1..n : recs[i] = rec(i)
  <2> HIDE DEF rec
  <2> QED
    BY <1>1, <1>4
<1>6. PICK tail \in Seq(TapRecords) : /\ tail = IF body THEN <<rec(n + 1)>> ELSE <<>>
                                      /\ Len(tail) <= 1
  <2>1. body => rec(n + 1) \in TapRecords
    BY <1>1, <1>2
  <2> HIDE DEF rec
  <2>2. PICK tail : tail = IF body THEN <<rec(n + 1)>> ELSE <<>>
    OBVIOUS
  <2>3. CASE body
    <3>1. PICK x \in TapRecords : x = rec(n + 1)
      BY <2>1, <2>3
    <3>2. <<x>> \in Seq(TapRecords) /\ Len(<<x>>) = 1
      OBVIOUS
    <3>3. tail = <<x>>
      BY <2>2, <2>3, <3>1
    <3>4. tail \in Seq(TapRecords) /\ Len(tail) <= 1
      BY <3>2, <3>3
    <3> QED
      BY <2>2, <3>4
  <2>4. CASE ~body
    <3>1. tail = <<>>
      BY <2>2, <2>4
    <3>2. tail \in Seq(TapRecords) /\ Len(tail) <= 1
      BY <3>1, EmptySeq
    <3> QED
      BY <2>2, <3>2
  <2> QED
    BY <2>3, <2>4
<1>7. f = [order |-> open.order, prec |-> open.prec, header |-> header,
           records |-> recs, tail |-> tail]
  BY <1>4, <1>6 DEF Left
<1>8. f \in Captures
  BY <1>1, <1>7 DEF Captures
<1>9. header # "WHOLE" => came = <<>> /\ tail = <<>>
  <2>1. n = 0 => came = <<>>
    BY <1>3, EmptySeq
  <2> QED
    BY <1>6, <2>1
<1>10. \A j \in 1..Len(came) :
         recs[j] = Recorded(StampBy("tap", came[j].t, open.prec), came[j].pkt)
  <2>1. \A j \in 1..n : j \in 1..Len(seen)
    BY <1>1
  <2> HIDE DEF rec, came
  <2> QED
    BY <1>2, <1>3, <1>5, <2>1
<1>11. /\ f.prec = open.prec /\ f.records = recs /\ Len(recs) = Len(came) /\ Len(f.tail) <= 1
       /\ f.header # "WHOLE" => came = <<>> /\ f.tail = <<>>
  BY <1>3, <1>5, <1>6, <1>7, <1>9
<1> HIDE DEF f, came, rec
<1>12. IsCaptureOf(f, came)
  <2>1. PICK prec \in Precisions, writer \in Writers : prec = open.prec /\ writer = "tap"
    BY <1>1 DEF Writers
  <2>2. \A j \in 1..Len(came) : recs[j] = Recorded(StampBy(writer, came[j].t, prec), came[j].pkt)
    BY <1>10, <2>1
  <2>3. writer = "tool" => prec = "usec"
    BY <2>1
  <2> QED
    BY <1>3, <1>11, <2>1, <2>2, <2>3, CaptureOf
<1> QED
  BY <1>8, <1>12 DEF f, came

LEMMA WrittenIsCapture ==
  ASSUME CorpusInv
  PROVE  /\ write_pcap(InMemory(seen)) \in Captures
         /\ IsCaptureOf(write_pcap(InMemory(seen)), seen)
<1> DEFINE rec(i) == Recorded(StampBy("tool", seen[i].t, "usec"), seen[i].pkt)
           f == write_pcap(InMemory(seen))
<1>1. PICK n \in Nat : n = Len(seen) /\ DOMAIN seen = 1..n
  BY LenProperties DEF CorpusInv
<1>2. seen \in Seq(Arrivals) /\ Rising(seen)
  BY DEF CorpusInv
<1>3. \A i \in 1..n : rec(i) \in TapRecords
  <2> SUFFICES ASSUME NEW i \in 1..n PROVE rec(i) \in TapRecords
    OBVIOUS
  <2>1. seen[i] \in Arrivals /\ "tool" \in Writers /\ "usec" \in Precisions
    BY <1>1, <1>2, ElementOfSeq DEF Writers, Precisions
  <2> QED
    BY <2>1, StampTells
<1>4. PICK recs \in Seq(TapRecords) : recs = [i \in 1..n |-> rec(i)]
  <2> HIDE DEF rec
  <2>1. [i \in 1..n |-> rec(i)] \in Seq(TapRecords)
    BY <1>3, IsASeq
  <2> QED
    BY <2>1
<1>5. Len(recs) = n /\ \A i \in 1..n : recs[i] = rec(i)
  <2> HIDE DEF rec
  <2> QED
    BY <1>4
<1>6. f = [order |-> "<", prec |-> "usec", header |-> "WHOLE", tail |-> <<>>, records |-> recs]
  <2>1. PICK mem : mem = InMemory(seen)
    OBVIOUS
  <2>2. mem = [i \in 1..n |-> [t |-> Double(seen[i].t), pkt |-> seen[i].pkt]]
    BY <1>1, <2>1 DEF InMemory
  <2>3. /\ DOMAIN mem = 1..n
        /\ \A i \in 1..n : mem[i].t = Double(seen[i].t) /\ mem[i].pkt = seen[i].pkt
    BY <2>2
  <2>4. \A i \in 1..n : Recorded(Rounded(mem[i].t), mem[i].pkt) = rec(i)
    BY <2>3 DEF StampBy
  <2>5. [i \in DOMAIN mem |-> Recorded(Rounded(mem[i].t), mem[i].pkt)] = recs
    <3> HIDE DEF rec
    <3> QED
      BY <1>4, <2>3, <2>4
  <2> QED
    BY <2>1, <2>5 DEF write_pcap
<1>7. f \in Captures
  <2>1. <<>> \in Seq(TapRecords)
    BY EmptySeq
  <2> QED
    BY <1>6, <2>1 DEF Captures, Orders, Precisions, Headers
<1>8. /\ f.prec = "usec" /\ f.records = recs /\ Len(recs) = Len(seen)
      /\ Len(f.tail) <= 1 /\ f.header = "WHOLE"
  BY <1>1, <1>5, <1>6
<1>9. \A j \in 1..Len(seen) : recs[j] = Recorded(StampBy("tool", seen[j].t, "usec"), seen[j].pkt)
  BY <1>1, <1>5
<1>10. "usec" \in Precisions /\ "tool" \in Writers
  BY DEF Precisions, Writers
<1> HIDE DEF f, rec
<1>11. IsCaptureOf(f, seen)
  BY <1>2, <1>8, <1>9, <1>10, CaptureOf
<1> QED
  BY <1>7, <1>11 DEF f

-------------------------------------------------------------------------------
(* CorpusInv is inductive.                                                 *)

LEMMA CorpusInvInit == CorpusInit => CorpusInv
<1> SUFFICES ASSUME CorpusInit PROVE CorpusInv
  OBVIOUS
<1>1. open = NONE /\ seen = <<>> /\ files = <<>> /\ truth = <<>>
  BY DEF CorpusInit
<1>2. /\ <<>> \in Seq(Arrivals) /\ <<>> \in Seq(Captures) /\ <<>> \in Seq(Seq(Arrivals))
      /\ Len(<<>>) = 0
  BY EmptySeq
<1>3. Len(MaxPackets) \in Nat
  BY CorpusAssumption, LenProperties
<1>4. Rising(<<>>)
  BY <1>2 DEF Rising
<1> QED
  BY <1>1, <1>2, <1>3, <1>4 DEF CorpusInv

LEMMA OpenStep == ASSUME CorpusInv, Open PROVE CorpusInv'
<1>1. /\ open' \in [order : Orders, prec : Precisions] /\ seen = <<>>
      /\ Len(files) < Len(MaxPackets) /\ seen' = seen /\ files' = files /\ truth' = truth
  BY DEF CorpusInv, Open
<1> QED
  BY <1>1 DEF CorpusInv, Rising

LEMMA PacketStep ==
  ASSUME CorpusInv, NEW p \in AllPackets, NEW wait \in Waits, Packet(p, wait)
  PROVE  CorpusInv'
<1> DEFINE now == IF seen = <<>> THEN 0 ELSE Last(seen).t
<1>1. seen \in Seq(Arrivals) /\ Rising(seen) /\ wait \in Nat
  BY CorpusAssumption DEF CorpusInv
<1>2. PICK n \in Nat : n = Len(seen)
  BY <1>1, LenProperties
<1>3. now \in Nat /\ \A j \in 1..n : seen[j].t <= now /\ seen[j].t \in Nat
  <2>1. \A j \in 1..n : seen[j].t \in Nat
    <3> SUFFICES ASSUME NEW j \in 1..n PROVE seen[j].t \in Nat
      OBVIOUS
    <3>1. seen[j] \in Arrivals
      BY <1>1, <1>2, ElementOfSeq
    <3> QED
      BY <3>1 DEF Arrivals
  <2>2. CASE n = 0
    <3>1. seen = <<>>
      BY <1>1, <1>2, <2>2, EmptySeq
    <3> QED
      BY <2>2, <3>1
  <2>3. CASE n # 0
    <3>1. seen # <<>> /\ n \in 1..n
      BY <1>2, <2>3
    <3>2. now = seen[n].t
      BY <1>2, <3>1 DEF Last
    <3>3. \A j \in 1..n : seen[j].t <= seen[n].t
      BY <1>1, <1>2, <3>1 DEF Rising
    <3> QED
      BY <2>1, <3>1, <3>2, <3>3
  <2> QED
    BY <2>2, <2>3
<1>4. PICK x \in Arrivals : x = [t |-> now + wait, pkt |-> p]
  <2> HIDE DEF now
  <2>1. now + wait \in Nat
    BY <1>1, <1>3
  <2> QED
    BY <2>1 DEF Arrivals
<1>5. /\ open # NONE /\ open' = open /\ files' = files /\ truth' = truth
      /\ seen' = Append(seen, x)
  BY <1>4 DEF Packet
<1> HIDE DEF now
<1>6. /\ seen' \in Seq(Arrivals) /\ Len(seen') = n + 1 /\ seen'[n + 1] = x
      /\ \A j \in 1..n : seen'[j] = seen[j]
  BY <1>1, <1>2, <1>5, AppendAt, AppendProperties
<1>7. Rising(seen')
  <2> SUFFICES ASSUME NEW j \in 1..(n + 1), NEW k \in 1..(n + 1), j <= k
               PROVE  seen'[j].t <= seen'[k].t
    BY <1>6 DEF Rising
  <2>1. x.t \in Nat /\ now <= x.t
    BY <1>1, <1>3, <1>4
  <2>2. CASE k \in 1..n
    <3>1. j \in 1..n
      BY <2>2
    <3> QED
      BY <1>1, <1>2, <1>6, <2>2, <3>1 DEF Rising
  <2>3. CASE k = n + 1 /\ j \in 1..n
    BY <1>3, <1>6, <2>1, <2>3
  <2>4. CASE k = n + 1 /\ j = n + 1
    BY <1>6, <2>1, <2>4
  <2> QED
    BY <1>2, <2>2, <2>3, <2>4
<1> QED
  BY <1>5, <1>6, <1>7 DEF CorpusInv

LEMMA ClosedStep ==
  ASSUME CorpusInv, open # NONE, NEW n \in 0..Len(seen), NEW f \in Captures, Closed(f, n),
         IsCaptureOf(f, SubSeq(seen, 1, n))
  PROVE  CorpusInv'
<1> DEFINE came == SubSeq(seen, 1, n)
<1>1. came \in Seq(Arrivals)
  BY PrefixOf DEF CorpusInv
<1>2. PICK N \in Nat : N = Len(files) /\ N = Len(truth) /\ N < Len(MaxPackets)
  BY LenProperties DEF CorpusInv
<1>3. files' = Append(files, f) /\ truth' = Append(truth, came) /\ open' = NONE /\ seen' = <<>>
  BY DEF Closed
<1>4. IsCaptureOf(f, came)
  OBVIOUS
<1> HIDE DEF came
<1>5. PICK B : B = Seq(Arrivals)
  OBVIOUS
<1>6. files \in Seq(Captures) /\ truth \in Seq(B) /\ came \in B
  BY <1>1, <1>5 DEF CorpusInv
<1>7. /\ files' \in Seq(Captures) /\ Len(files') = N + 1 /\ files'[N + 1] = f
      /\ \A i \in 1..N : files'[i] = files[i]
  <2>1. PICK C : C = Captures
    OBVIOUS
  <2>2. files \in Seq(C) /\ f \in C
    BY <1>6, <2>1
  <2>3. PICK s \in Seq(C) : s = files /\ N = Len(s)
    BY <1>2, <2>2
  <2>4. /\ Append(s, f) \in Seq(C) /\ Len(Append(s, f)) = N + 1
        /\ Append(s, f)[N + 1] = f /\ \A i \in 1..N : Append(s, f)[i] = s[i]
    BY <2>2, <2>3, AppendAt, AppendProperties
  <2> QED
    BY <1>3, <2>1, <2>3, <2>4
<1>8. /\ truth' \in Seq(B) /\ Len(truth') = N + 1 /\ truth'[N + 1] = came
      /\ \A i \in 1..N : truth'[i] = truth[i]
  BY <1>2, <1>3, <1>6, AppendAt, AppendProperties
<1>9. \A i \in 1..(N + 1) : IsCaptureOf(files'[i], truth'[i])
  <2>1. \A i \in 1..N : IsCaptureOf(files[i], truth[i])
    BY <1>2 DEF CorpusInv
  <2>2. 1..(N + 1) = (1..N) \cup {N + 1}
    BY OneMore
  <2> QED
    BY <1>4, <1>7, <1>8, <2>1, <2>2
<1>10. N + 1 <= Len(MaxPackets)
  <2>1. Len(MaxPackets) \in Nat
    BY CorpusAssumption, LenProperties
  <2> QED
    BY <1>2, <2>1
<1>11. <<>> \in Seq(Arrivals) /\ Rising(<<>>)
  BY EmptySeq DEF Rising
<1> QED
  BY <1>3, <1>5, <1>7, <1>8, <1>9, <1>10, <1>11 DEF CorpusInv

LEMMA KillStep == ASSUME CorpusInv, Kill PROVE CorpusInv'
<1>1. open # NONE /\ Len(seen) \in Nat
  BY LenProperties DEF Kill, CorpusInv
<1>2. ASSUME NEW n \in 0..Len(seen), NEW header \in Headers, NEW body \in BOOLEAN,
             body => n < Len(seen), header # "WHOLE" => n = 0 /\ ~body,
             Closed(Left(n, header, body), n)
      PROVE  CorpusInv'
  <2>1. /\ Left(n, header, body) \in Captures
        /\ IsCaptureOf(Left(n, header, body), SubSeq(seen, 1, n))
    BY <1>1, <1>2, LeftIsCapture
  <2> QED
    BY <1>1, <1>2, <2>1, ClosedStep
<1>3. CASE \E n \in 0..Len(seen) : Closed(Left(n, "WHOLE", FALSE), n)
  <2>1. PICK n \in 0..Len(seen), header \in Headers, body \in BOOLEAN :
          Closed(Left(n, header, body), n) /\ header = "WHOLE" /\ body = FALSE
    BY <1>3 DEF Headers
  <2> QED
    BY <1>2, <2>1
<1>4. CASE \E n \in 0..Len(seen) - 1 : Closed(Left(n, "WHOLE", TRUE), n)
  <2>1. PICK n \in 0..Len(seen) - 1, header \in Headers :
          Closed(Left(n, header, TRUE), n) /\ header = "WHOLE"
    BY <1>4 DEF Headers
  <2>2. n \in 0..Len(seen) /\ n < Len(seen)
    BY <1>1
  <2> QED
    BY <1>2, <2>1, <2>2
<1>5. CASE \E header \in {"PART", "NONE"} : Closed(Left(0, header, FALSE), 0)
  <2>1. PICK n \in 0..Len(seen) : n = 0
    BY <1>1
  <2>2. PICK header \in Headers, body \in BOOLEAN : Closed(Left(n, header, body), n) /\ body = FALSE
    BY <1>5, <2>1 DEF Headers
  <2> QED
    BY <1>2, <2>1, <2>2
<1> QED
  BY <1>3, <1>4, <1>5 DEF Kill

LEMMA WriteStep == ASSUME CorpusInv, Write PROVE CorpusInv'
<1>1. open # NONE /\ Closed(write_pcap(InMemory(seen)), Len(seen))
  BY DEF Write
<1>2. /\ write_pcap(InMemory(seen)) \in Captures
      /\ IsCaptureOf(write_pcap(InMemory(seen)), seen)
  BY WrittenIsCapture
<1>3. SubSeq(seen, 1, Len(seen)) = seen /\ Len(seen) \in 0..Len(seen)
  BY SubSeqFull, LenProperties DEF CorpusInv
<1> QED
  BY <1>1, <1>2, <1>3, ClosedStep

LEMMA CorpusInvStep == CorpusInv /\ [CorpusNext]_corpusVars => CorpusInv'
<1> SUFFICES ASSUME CorpusInv, [CorpusNext]_corpusVars PROVE CorpusInv'
  OBVIOUS
<1>1. CASE Open
  BY <1>1, OpenStep
<1>2. CASE Kill
  BY <1>2, KillStep
<1>3. CASE Write
  BY <1>3, WriteStep
<1>4. ASSUME NEW p \in AllPackets, NEW wait \in Waits, Packet(p, wait) PROVE CorpusInv'
  BY <1>4, PacketStep
<1>5. CASE UNCHANGED corpusVars
  BY <1>5 DEF corpusVars, CorpusInv, Rising
<1> QED
  BY <1>1, <1>2, <1>3, <1>4, <1>5 DEF CorpusNext

\* Every file of the corpus records what came in during its capture.
THEOREM CorpusSafety == CorpusSpec => []CorpusInv
<1> QED
  BY CorpusInvInit, CorpusInvStep, PTL DEF CorpusSpec

LEMMA OneFile ==
  ASSUME CorpusInv, NEW i \in 1..Len(files)
  PROVE  files[i] \in Captures /\ truth[i] \in Seq(Arrivals) /\ IsCaptureOf(files[i], truth[i])
<1>1. PICK B : B = Seq(Arrivals)
  OBVIOUS
<1>2. truth \in Seq(B) /\ i \in 1..Len(truth) /\ files \in Seq(Captures)
  BY <1>1 DEF CorpusInv
<1>3. files[i] \in Captures /\ truth[i] \in B
  BY <1>2, ElementOfSeq
<1> QED
  BY <1>1, <1>3 DEF CorpusInv

LEMMA CorpusInvType == CorpusInv => CorpusTypeOK
<1> SUFFICES ASSUME CorpusInv PROVE CorpusTypeOK
  OBVIOUS
<1>1. DOMAIN files = 1..Len(files)
  BY LenProperties DEF CorpusInv
<1>2. ASSUME NEW i \in 1..Len(files)
      PROVE  /\ files[i].order \in Orders /\ files[i].prec \in Precisions
             /\ files[i].records \in Seq(TapRecords)
             /\ \A j \in DOMAIN files[i].records :
                  files[i].records[j].frac <= (IF files[i].prec = "nano" THEN SECOND ELSE USEC)
             /\ files[i].tail \in Seq(TapRecords) /\ Len(files[i].tail) <= 1
             /\ files[i].header \in Headers
             /\ files[i].header # "WHOLE" => files[i].records = <<>> /\ files[i].tail = <<>>
  <2>1. PICK f \in Captures, came \in Seq(Arrivals) : f = files[i] /\ came = truth[i]
    BY OneFile
  <2>2. IsCaptureOf(f, came)
    BY <2>1, OneFile
  <2>3. /\ f.order \in Orders /\ f.prec \in Precisions
        /\ f.records \in Seq(TapRecords) /\ f.tail \in Seq(TapRecords) /\ f.header \in Headers
    BY DEF Captures
  <2>4. DOMAIN f.records = 1..Len(came) /\ Len(f.records) = Len(came)
    BY <2>2, <2>3, LenProperties DEF IsCaptureOf
  <2>5. \A j \in DOMAIN f.records : f.records[j].frac <= (IF f.prec = "nano" THEN SECOND ELSE USEC)
    BY <2>2, <2>4 DEF IsCaptureOf, Tells
  <2>6. f.header # "WHOLE" => f.records = <<>> /\ f.tail = <<>>
    <3>1. Len(<<>>) = 0
      OBVIOUS
    <3>2. ASSUME f.header # "WHOLE" PROVE f.records = <<>>
      <4>1. Len(f.records) = 0
        BY <2>2, <3>1, <3>2 DEF IsCaptureOf
      <4> QED
        BY <2>3, <4>1, EmptySeq
    <3> QED
      BY <2>2, <3>2 DEF IsCaptureOf
  <2> QED
    BY <2>1, <2>2, <2>3, <2>5, <2>6 DEF IsCaptureOf
<1> QED
  BY <1>1, <1>2 DEF CorpusInv, CorpusTypeOK

\* Files keep the shape the readers count on (pcap.py:22-47).
THEOREM CorpusTypeCorrect == CorpusSpec => []CorpusTypeOK
<1> QED
  BY CorpusSafety, CorpusInvType, PTL

-------------------------------------------------------------------------------
(* What the common reader reads.                                           *)

LEMMA CompleteIs ==
  ASSUME NEW f \in Captures, NEW came \in Seq(Arrivals), IsCaptureOf(f, came), NEW order
  PROVE  /\ Complete(f, f.order) = f.records
         /\ Complete(f, order) = IF f.order = order THEN f.records ELSE <<>>
<1>1. f.records \in Seq(TapRecords)
  BY DEF Captures
<1>2. ASSUME f.header # "WHOLE" PROVE f.records = <<>>
  <2>1. Len(f.records) = Len(<<>>) /\ Len(<<>>) = 0
    BY <1>2 DEF IsCaptureOf
  <2> QED
    BY <1>1, <2>1, EmptySeq
<1> QED
  BY <1>2 DEF Complete

\* h lists, in their order, the places at which the n records of f are REAC.
ReacAt(f, came, n, h) ==
  /\ n = Len(came) /\ n = Len(f.records)
  /\ InOrderOf(h, {k \in 1..n : IsReac(f.records[k].pkt)})
  /\ Those(f.records, IsReac) = [j \in 1..Len(h) |-> f.records[h[j]]]
  /\ ReacOf(came) = [j \in 1..Len(h) |-> came[h[j]]]
  /\ read_pcap(f) = [j \in 1..Len(h) |-> ReacFrame(f.records[h[j]], f.prec)]

LEMMA ReadPlaces ==
  ASSUME NEW f \in Captures, NEW came \in Seq(Arrivals), IsCaptureOf(f, came)
  PROVE  \E n \in Nat : \E h \in Seq(1..n) : ReacAt(f, came, n, h)
<1>1. PICK recs \in Seq(TapRecords) : recs = f.records
  BY DEF Captures
<1>2. PICK n \in Nat : /\ n = Len(came) /\ n = Len(recs)
                       /\ DOMAIN recs = 1..n /\ DOMAIN came = 1..n
  BY <1>1, LenProperties DEF IsCaptureOf
<1> DEFINE P == {k \in 1..n : IsReac(recs[k].pkt)}
<1>3. P = {k \in DOMAIN came : IsReac(came[k].pkt)} /\ P = {k \in DOMAIN recs : IsReac(recs[k].pkt)}
  BY <1>1, <1>2 DEF IsCaptureOf, Tells
<1>4. P \cap 1..n = P
  OBVIOUS
<1> HIDE DEF P
<1>5. PICK h \in Seq(1..n) : InOrderOf(h, P) /\ PicksAlong(h, n, P)
  <2>1. \E h \in Seq(1..n) : InOrderOf(h, P \cap 1..n) /\ PicksAlong(h, n, P)
    BY PickedPlaces
  <2> QED
    BY <1>4, <2>1
<1>6. /\ Picked(recs, P) = [j \in 1..Len(h) |-> recs[h[j]]]
      /\ Picked(came, P) = [j \in 1..Len(h) |-> came[h[j]]]
  BY <1>2, <1>5 DEF PicksAlong
<1>7. /\ Those(recs, IsReac) = [j \in 1..Len(h) |-> recs[h[j]]]
      /\ ReacOf(came) = [j \in 1..Len(h) |-> came[h[j]]]
  BY <1>3, <1>6 DEF Those, ReacOf
<1>8. read_pcap(f) = [j \in 1..Len(h) |-> ReacFrame(recs[h[j]], f.prec)]
  <2>1. Complete(f, f.order) = recs
    BY <1>1, CompleteIs
  <2>2. PICK reac : reac = Those(recs, IsReac)
    OBVIOUS
  <2>3. reac = [j \in 1..Len(h) |-> recs[h[j]]] /\ DOMAIN reac = 1..Len(h)
    BY <1>7, <2>2
  <2>4. read_pcap(f) = [j \in DOMAIN reac |-> ReacFrame(reac[j], f.prec)]
    BY <2>1, <2>2 DEF read_pcap, _pcap_header
  <2> QED
    BY <2>3, <2>4
<1> QED
  <2>1. ReacAt(f, came, n, h)
    BY <1>1, <1>2, <1>5, <1>7, <1>8 DEF P, ReacAt
  <2> QED
    BY <2>1

\* What read_pcap promises of a capture.
Reads(f, came) ==
  LET got == read_pcap(f)
      want == ReacOf(came)
  IN  /\ Len(got) = Len(want)
      /\ \A j \in DOMAIN got :
           /\ got[j].payload = want[j].pkt /\ got[j].seq = want[j].pkt.seq
           /\ Near(got[j].ts, want[j].t, f.prec)
           /\ j > 1 => got[j - 1].ts <= got[j].ts

LEMMA CaptureRead ==
  ASSUME NEW f \in Captures, NEW came \in Seq(Arrivals), IsCaptureOf(f, came)
  PROVE  Reads(f, came)
<1> DEFINE got == read_pcap(f)
           want == ReacOf(came)
<1>0. PICK n \in Nat : \E h \in Seq(1..n) : ReacAt(f, came, n, h)
  BY ReadPlaces
<1>1. PICK h \in Seq(1..n) : ReacAt(f, came, n, h)
  BY <1>0
<1>2. PICK m \in Nat : m = Len(h)
  BY LenProperties
<1>3. Len(got) = m /\ Len(want) = m /\ DOMAIN got = 1..m
  <2>1. /\ want = [k \in 1..Len(h) |-> came[h[k]]]
        /\ got = [k \in 1..Len(h) |-> ReacFrame(f.records[h[k]], f.prec)]
    BY <1>1 DEF ReacAt
  <2> HIDE DEF got, want
  <2> QED
    BY <1>2, <2>1
<1>4. ASSUME NEW j \in 1..m
      PROVE  /\ h[j] \in 1..n /\ want[j] = came[h[j]]
             /\ Tells(f.records[h[j]], f.prec, came[h[j]])
             /\ got[j] = ReacFrame(f.records[h[j]], f.prec)
  <2>1. h[j] \in 1..n
    BY <1>2, ElementOfSeq
  <2>2. Tells(f.records[h[j]], f.prec, came[h[j]])
    BY <1>1, <2>1 DEF IsCaptureOf, ReacAt
  <2>3. /\ want = [k \in 1..Len(h) |-> came[h[k]]]
        /\ got = [k \in 1..Len(h) |-> ReacFrame(f.records[h[k]], f.prec)]
    BY <1>1 DEF ReacAt
  <2> HIDE DEF got, want
  <2> QED
    BY <1>2, <2>1, <2>2, <2>3
<1> HIDE DEF got, want
<1>5. ASSUME NEW j \in 1..m
      PROVE  /\ got[j].payload = want[j].pkt /\ got[j].seq = want[j].pkt.seq
             /\ got[j].ts = TimeOf(f.records[h[j]], f.prec)
             /\ Near(got[j].ts, want[j].t, f.prec)
  <2>1. PICK r, a, g : r = f.records[h[j]] /\ a = came[h[j]] /\ g = got[j]
    OBVIOUS
  <2>2. g = ReacFrame(r, f.prec) /\ a = want[j] /\ Tells(r, f.prec, a)
    BY <1>4, <2>1
  <2>3. g.payload = r.pkt /\ g.seq = r.pkt.seq /\ g.ts = TimeOf(r, f.prec)
    BY <2>2 DEF ReacFrame
  <2>4. g.payload = a.pkt /\ g.seq = a.pkt.seq
    BY <2>2, <2>3 DEF Tells
  <2>5. Near(g.ts, a.t, f.prec)
    BY <2>2, <2>3 DEF Tells
  <2> QED
    BY <2>1, <2>2, <2>3, <2>4, <2>5
<1>6. ASSUME NEW j \in 1..m, j > 1 PROVE got[j - 1].ts <= got[j].ts
  <2>1. j - 1 \in 1..m /\ j - 1 < j
    BY <1>6
  <2>2. h[j - 1] < h[j]
    BY <1>1, <1>2, <2>1 DEF InOrderOf, ReacAt
  <2>3. h[j - 1] \in 1..n /\ h[j] \in 1..n /\ h[j - 1] <= h[j]
    BY <1>4, <2>1, <2>2
  <2>4. TimeOf(f.records[h[j - 1]], f.prec) <= TimeOf(f.records[h[j]], f.prec)
    BY <1>1, <2>3 DEF IsCaptureOf, RecordedRising, ReacAt
  <2> QED
    BY <1>5, <2>1, <2>4
<1> QED
  BY <1>3, <1>5, <1>6 DEF Reads, got, want

LEMMA InvReads == CorpusInv => ReadIsWhatCameIn
<1> SUFFICES ASSUME CorpusInv, NEW i \in DOMAIN files PROVE Reads(files[i], truth[i])
  BY DEF ReadIsWhatCameIn, Reads
<1>1. i \in 1..Len(files)
  BY LenProperties DEF CorpusInv
<1> QED
  BY <1>1, OneFile, CaptureRead

\* read_pcap gives the REAC packets that are wholly in the file, in order and
\* at the times they came in to the precision of the file and of a double, and
\* times never run back (pcap.py:25-28, 70-98).
THEOREM ReaderCorrect == CorpusSpec => []ReadIsWhatCameIn
<1> QED
  BY CorpusSafety, InvReads, PTL

-------------------------------------------------------------------------------
(* What the index says.                                                    *)

LEMMA PickedCount ==
  ASSUME NEW D, NEW fs \in Seq(D), NEW P, P \subseteq 1..Len(fs)
  PROVE  IsFiniteSet(P) /\ Len(Picked(fs, P)) = Cardinality(P)
<1>1. PICK n \in Nat : n = Len(fs)
  BY LenProperties
<1>2. PICK h \in Seq(1..n) : InOrderOf(h, P) /\ PicksAlong(h, n, P)
  <2>1. P \cap 1..n = P
    BY <1>1
  <2>2. \E h \in Seq(1..n) : InOrderOf(h, P \cap 1..n) /\ PicksAlong(h, n, P)
    BY PickedPlaces
  <2> QED
    BY <2>1, <2>2
<1>3. PICK m \in Nat : m = Len(h)
  BY LenProperties
<1>4. Picked(fs, P) = [j \in 1..m |-> fs[h[j]]]
  BY <1>1, <1>2, <1>3 DEF PicksAlong
<1>5. Len(Picked(fs, P)) = m
  BY <1>3, <1>4
<1>6. IsFiniteSet(P) /\ Len(h) = Cardinality(P)
  BY <1>2, PlacesCount
<1> QED
  BY <1>3, <1>5, <1>6

\* Where more is picked, there is more of it.
LEMMA FewerPicked ==
  ASSUME NEW D, NEW fs \in Seq(D), NEW E, NEW gs \in Seq(E), NEW P, NEW Q,
         P \subseteq Q, P \subseteq 1..Len(fs), Q \subseteq 1..Len(gs)
  PROVE  Len(Picked(fs, P)) <= Len(Picked(gs, Q))
<1>1. IsFiniteSet(P) /\ Len(Picked(fs, P)) = Cardinality(P)
  BY PickedCount
<1>2. IsFiniteSet(Q) /\ Len(Picked(gs, Q)) = Cardinality(Q)
  BY PickedCount
<1>3. Cardinality(P) <= Cardinality(Q)
  BY <1>2, FS_Subset
<1> QED
  BY <1>1, <1>2, <1>3

LEMMA KindOfReac ==
  ASSUME NEW p
  PROVE  classify(p) # NONE <=> IsReac(p)
<1>1. CASE ~IsReac(p)
  BY <1>1 DEF classify
<1>2. CASE IsReac(p)
  <2>1. classify(p) \in Marked \cup CONTROL_SUBTYPES \cup {"SHORT", "UNKNOWN_CDEA", "UNKNOWN_TYPE"}
    BY <1>2 DEF classify, Marked, CONTROL_SUBTYPES
  <2> QED
    BY <1>2, <2>1, IndexAssumption
<1> QED
  BY <1>1, <1>2

\* The two classifications.
LEMMA KindsAgree ==
  ASSUME NEW p \in AllPackets, IsReac(p)
  PROVE  /\ SameKind(p, ParsedKind(p), classify(p))
         /\ classify(p) = "FILLER" <=> p.type = "0000" /\ p.cut # "op"
         /\ classify(p) \in CONTROL_SUBTYPES \cup {"UNKNOWN_CDEA"}
              <=> p.type \in {"cdea", "cfea"} /\ p.cut # "op"
<1>1. p.cut \in {"none", "block", "op"}
  BY CorpusAssumption
<1>2. CASE p.cut = "op"
  BY <1>2 DEF SameKind, ParsedKind, classify, CONTROL_SUBTYPES
<1>3. CASE p.cut # "op" /\ p.type = "0000"
  BY <1>1, <1>3 DEF SameKind, ParsedKind, classify, CONTROL_SUBTYPES
<1>4. CASE p.cut # "op" /\ p.type = "cfea"
  BY <1>1, <1>4 DEF SameKind, ParsedKind, classify, CONTROL_SUBTYPES
<1>5. CASE p.cut # "op" /\ p.type = "cdea"
  BY <1>1, <1>5 DEF SameKind, ParsedKind, classify, CONTROL_SUBTYPES, Class01
<1>6. CASE p.cut # "op" /\ p.type \notin {"0000", "cfea", "cdea"}
  BY <1>1, <1>6 DEF SameKind, ParsedKind, classify, CONTROL_SUBTYPES
<1> QED
  BY <1>2, <1>3, <1>4, <1>5, <1>6

\* What scan says of the REAC frames it has taken, of n.
Indexed(reac, f, n, max) ==
  LET ts(i) == TimeOf(reac[i], ScanPrecision(f))
      ofKind(ks) == {i \in DOMAIN reac : classify(reac[i].pkt) \in ks}
      ofBox == {i \in DOMAIN reac : reac[i].pkt.src \in Boxes}
      first(S) == ts(Min(S)) - ts(1)
  IN  [sampled |-> Sampled(n, max),
       frame_count |-> IF max # NONE /\ n > max THEN max + 1 ELSE n,
       reac_frames |-> Len(reac),
       duration |-> IF reac = <<>> THEN 0 ELSE ts(Len(reac)) - ts(1),
       sources |-> [s \in {reac[i].pkt.src : i \in DOMAIN reac} |->
                      Cardinality({i \in DOMAIN reac : reac[i].pkt.src = s})],
       audio |-> Cardinality(ofKind({"FILLER"})),
       control |-> Cardinality(ofKind(CONTROL_SUBTYPES \cup {"UNKNOWN_CDEA"})),
       landmarks |-> [k \in {m \in Marked : ofKind({m}) # {}} |-> first(ofKind({k}))],
       first_box |-> IF ofBox = {} THEN NONE ELSE first(ofBox)]

LEMMA ScanIndexes ==
  ASSUME NEW f, NEW max, NEW all, all = Complete(f, f.order),
         NEW taken, taken = IF max # NONE /\ Len(all) > max THEN SubSeq(all, 1, max) ELSE all
  PROVE  scan(f, max) = Indexed(Those(taken, IsReac), f, Len(all), max)
<1>1. Those(taken, LAMBDA p : classify(p) # NONE) = Those(taken, IsReac)
  <2>1. {i \in DOMAIN taken : classify(taken[i].pkt) # NONE} = {i \in DOMAIN taken : IsReac(taken[i].pkt)}
    BY KindOfReac
  <2> QED
    BY <2>1 DEF Those
<1>2. scan(f, max) = Indexed(Those(taken, LAMBDA p : classify(p) # NONE), f, Len(all), max)
  BY DEF scan, Indexed
<1> QED
  BY <1>1, <1>2

\* What the index promises of a capture: its account r agrees with the frames
\* got by the common reader.
Agrees(r, got, f, came) ==
  LET typed(T) == Cardinality({j \in DOMAIN got : /\ got[j].payload.type \in T
                                                  /\ got[j].payload.cut # "op"})
      same(j) == SameKind(got[j].payload, ParsedKind(got[j].payload), classify(got[j].payload))
  IN  /\ \A j \in DOMAIN got : same(j)
      /\ r.reac_frames <= Len(got)
      /\ ~r.sampled =>
           /\ r.frame_count = Len(came)
           /\ r.reac_frames = Len(got)
           /\ r.audio = typed({"0000"})
           /\ r.control = typed({"cdea", "cfea"})
           /\ \A s \in DOMAIN r.sources :
                r.sources[s] = Cardinality({j \in DOMAIN got : got[j].src = s})
           /\ (f.order = "<" \/ f.prec = "usec") /\ got # <<>> =>
                /\ r.duration = Last(got).ts - got[1].ts
                /\ \A k \in DOMAIN r.landmarks : r.landmarks[k] = FirstOf(got, k)

LEMMA CaptureIndexed ==
  ASSUME NEW f \in Captures, NEW came \in Seq(Arrivals), IsCaptureOf(f, came),
         NEW max \in Nat \cup {NONE}
  PROVE  Agrees(scan(f, max), read_pcap(f), f, came)
<1>1. PICK recs \in Seq(TapRecords) : recs = f.records /\ recs = Complete(f, f.order)
  BY CompleteIs DEF Captures
<1>2. PICK n \in Nat : \E h \in Seq(1..n) : ReacAt(f, came, n, h)
  BY ReadPlaces
<1>3. PICK h \in Seq(1..n) : ReacAt(f, came, n, h)
  BY <1>2
<1>4. PICK m \in Nat : m = Len(h)
  BY LenProperties
<1>5. PICK sel : sel = Those(recs, IsReac) /\ sel = [j \in 1..m |-> recs[h[j]]]
  BY <1>1, <1>3, <1>4 DEF ReacAt
<1>6. PICK got : got = read_pcap(f) /\ got = [j \in 1..m |-> ReacFrame(recs[h[j]], f.prec)]
  BY <1>1, <1>3, <1>4 DEF ReacAt
<1>7. /\ n = Len(recs) /\ n = Len(came) /\ DOMAIN recs = 1..n
      /\ Len(sel) = m /\ DOMAIN sel = 1..m /\ Len(got) = m /\ DOMAIN got = 1..m
  <2>1. n = Len(recs) /\ n = Len(came)
    BY <1>1, <1>3 DEF ReacAt
  <2>2. DOMAIN recs = 1..Len(recs)
    BY LenProperties
  <2>3. Len(sel) = m /\ DOMAIN sel = 1..m
    BY <1>5
  <2>4. Len(got) = m /\ DOMAIN got = 1..m
    BY <1>6
  <2> QED
    BY <2>1, <2>2, <2>3, <2>4
<1>8. ASSUME NEW j \in 1..m
      PROVE  /\ got[j].payload = sel[j].pkt /\ got[j].src = sel[j].pkt.src
             /\ got[j].ts = TimeOf(sel[j], f.prec)
             /\ sel[j].pkt \in AllPackets /\ IsReac(sel[j].pkt)
  <2>1. h[j] \in {k \in 1..n : IsReac(recs[k].pkt)}
    BY <1>1, <1>3, <1>4 DEF ReacAt, InOrderOf
  <2>2. recs[h[j]] \in TapRecords
    BY <1>7, <2>1, ElementOfSeq
  <2>3. PICK r \in TapRecords : r = recs[h[j]] /\ IsReac(r.pkt)
    BY <2>1, <2>2
  <2>4. sel[j] = r /\ got[j] = ReacFrame(r, f.prec)
    BY <1>5, <1>6, <2>3
  <2> QED
    BY <2>3, <2>4 DEF ReacFrame, TapRecords
<1>9. \A j \in 1..m : SameKind(got[j].payload, ParsedKind(got[j].payload), classify(got[j].payload))
  BY <1>8, KindsAgree
<1> DEFINE taken == IF max # NONE /\ Len(recs) > max THEN SubSeq(recs, 1, max) ELSE recs
           r == scan(f, max)
<1>10. r = Indexed(Those(taken, IsReac), f, n, max)
  <2>1. PICK all : all = Complete(f, f.order) /\ all = recs /\ Len(all) = n
    BY <1>1, <1>7
  <2>2. PICK some : some = taken
                    /\ some = IF max # NONE /\ Len(all) > max THEN SubSeq(all, 1, max) ELSE all
    BY <2>1
  <2>3. scan(f, max) = Indexed(Those(some, IsReac), f, Len(all), max)
    BY <2>1, <2>2, ScanIndexes
  <2> QED
    BY <2>1, <2>2, <2>3
<1>11. r.reac_frames = Len(Those(taken, IsReac)) /\ r.sampled = (max # NONE /\ n > max)
  <2>1. PICK reac : reac = Those(taken, IsReac)
    OBVIOUS
  <2>2. /\ Indexed(reac, f, n, max).reac_frames = Len(reac)
        /\ Indexed(reac, f, n, max).sampled = (max # NONE /\ n > max)
    BY DEF Indexed, Sampled
  <2> QED
    BY <1>10, <2>1, <2>2
<1>12. CASE max # NONE /\ n > max
  <2>1. max \in 0..Len(recs) /\ max \in Nat /\ max < n
    BY <1>7, <1>12
  <2>2. PICK part \in Seq(TapRecords) : /\ part = taken /\ Len(part) = max /\ DOMAIN part = 1..max
                                        /\ \A i \in 1..max : part[i] = recs[i]
    <3>1. PICK part : part = taken /\ part = SubSeq(recs, 1, max)
      BY <1>7, <1>12
    <3>2. /\ part \in Seq(TapRecords) /\ Len(part) = max
          /\ \A i \in 1..max : part[i] = recs[i]
      BY <2>1, <3>1, PrefixOf
    <3>3. DOMAIN part = 1..max
      BY <3>2, LenProperties
    <3> QED
      BY <3>1, <3>2, <3>3
  <2> DEFINE P == {i \in DOMAIN part : IsReac(part[i].pkt)}
             Q == {i \in DOMAIN recs : IsReac(recs[i].pkt)}
  <2>3. P \subseteq Q
    BY <1>7, <2>1, <2>2
  <2>4. P \subseteq 1..Len(part) /\ Q \subseteq 1..Len(recs)
    BY <1>7, <2>2
  <2> HIDE DEF P, Q
  <2>5. Len(Picked(part, P)) <= Len(Picked(recs, Q))
    BY <2>3, <2>4, FewerPicked
  <2>6. Len(Those(part, IsReac)) <= Len(sel)
    BY <1>5, <2>5 DEF Those, P, Q
  <2>7. r.reac_frames <= Len(got) /\ r.sampled
    BY <1>7, <1>11, <1>12, <2>2, <2>6
  <2> HIDE DEF r, taken
  <2> QED
    BY <1>6, <1>7, <1>9, <2>7 DEF Agrees, r
<1>13. CASE ~(max # NONE /\ n > max)
  <2>1. r = Indexed(sel, f, n, max)
    BY <1>5, <1>7, <1>10, <1>13
  <2> HIDE DEF r, taken
  <2>2. r.reac_frames = Len(got) /\ r.frame_count = Len(came)
    BY <1>7, <1>13, <2>1 DEF Indexed
  <2>3. r.audio = Cardinality({j \in DOMAIN got : /\ got[j].payload.type \in {"0000"}
                                                  /\ got[j].payload.cut # "op"})
    <3>1. {i \in DOMAIN sel : classify(sel[i].pkt) \in {"FILLER"}} =
            {j \in DOMAIN got : got[j].payload.type \in {"0000"} /\ got[j].payload.cut # "op"}
      BY <1>7, <1>8, KindsAgree
    <3>2. r.audio = Cardinality({i \in DOMAIN sel : classify(sel[i].pkt) \in {"FILLER"}})
      BY <2>1 DEF Indexed
    <3> QED
      BY <3>1, <3>2
  <2>4. r.control = Cardinality({j \in DOMAIN got : /\ got[j].payload.type \in {"cdea", "cfea"}
                                                    /\ got[j].payload.cut # "op"})
    <3>1. {i \in DOMAIN sel : classify(sel[i].pkt) \in CONTROL_SUBTYPES \cup {"UNKNOWN_CDEA"}} =
            {j \in DOMAIN got : got[j].payload.type \in {"cdea", "cfea"} /\ got[j].payload.cut # "op"}
      BY <1>7, <1>8, KindsAgree
    <3>2. r.control = Cardinality({i \in DOMAIN sel :
                                     classify(sel[i].pkt) \in CONTROL_SUBTYPES \cup {"UNKNOWN_CDEA"}})
      BY <2>1 DEF Indexed
    <3> QED
      BY <3>1, <3>2
  <2>5. ASSUME NEW s \in DOMAIN r.sources
        PROVE  r.sources[s] = Cardinality({j \in DOMAIN got : got[j].src = s})
    <3>1. r.sources = [x \in {sel[i].pkt.src : i \in DOMAIN sel} |->
                         Cardinality({i \in DOMAIN sel : sel[i].pkt.src = x})]
      BY <2>1 DEF Indexed
    <3>2. {i \in DOMAIN sel : sel[i].pkt.src = s} = {j \in DOMAIN got : got[j].src = s}
      BY <1>7, <1>8
    <3>3. r.sources[s] = Cardinality({i \in DOMAIN sel : sel[i].pkt.src = s})
      BY <2>5, <3>1
    <3> QED
      BY <3>2, <3>3
  <2>6. ASSUME f.order = "<" \/ f.prec = "usec", got # <<>>
        PROVE  /\ r.duration = Last(got).ts - got[1].ts
               /\ \A k \in DOMAIN r.landmarks : r.landmarks[k] = FirstOf(got, k)
    <3>1. ScanPrecision(f) = f.prec
      BY <2>6 DEF ScanPrecision, Captures, Orders, Precisions
    <3>2. m > 0 /\ 1 \in 1..m /\ m \in 1..m /\ sel # <<>>
      <4>1. m = 0 => got = <<>>
        BY <1>6
      <4>2. sel = <<>> => Len(sel) = 0
        OBVIOUS
      <4> QED
        BY <1>7, <2>6, <4>1, <4>2
    <3>3. r.duration = TimeOf(sel[m], f.prec) - TimeOf(sel[1], f.prec)
      BY <1>7, <2>1, <3>1, <3>2 DEF Indexed
    <3>4. Last(got) = got[m]
      BY <1>7 DEF Last
    <3>5. ASSUME NEW k \in DOMAIN r.landmarks
          PROVE  r.landmarks[k] = FirstOf(got, k)
      <4> DEFINE S == {i \in DOMAIN sel : classify(sel[i].pkt) \in {k}}
                 T == {j \in DOMAIN got : classify(got[j].payload) = k}
      <4>1. r.landmarks = [x \in {y \in Marked : {i \in DOMAIN sel : classify(sel[i].pkt) \in {y}} # {}} |->
                             TimeOf(sel[Min({i \in DOMAIN sel : classify(sel[i].pkt) \in {x}})], f.prec)
                               - TimeOf(sel[1], f.prec)]
        BY <2>1, <3>1 DEF Indexed
      <4>2. S # {} /\ r.landmarks[k] = TimeOf(sel[Min(S)], f.prec) - TimeOf(sel[1], f.prec)
        BY <3>5, <4>1
      <4>3. S = T
        BY <1>7, <1>8
      <4>4. S \subseteq 1..m /\ S \in SUBSET Int /\ IsFiniteSet(S)
        <5>1. S \subseteq 1..m
          BY <1>7
        <5>2. IsFiniteSet(1..m)
          BY FS_Interval
        <5> QED
          BY <5>1, <5>2, FS_Subset
      <4> HIDE DEF S, T
      <4>5. Min(S) \in 1..m
        BY <4>2, <4>4, MaxMinType
      <4>6. FirstOf(got, k) = got[Min(T)].ts - got[1].ts
        BY DEF FirstOf, T
      <4> QED
        BY <1>8, <3>2, <4>2, <4>3, <4>5, <4>6
    <3> QED
      BY <1>8, <3>2, <3>3, <3>4, <3>5
  <2>7. r.reac_frames <= Len(got)
    BY <1>7, <2>2
  <2>8. \A j \in DOMAIN got :
          SameKind(got[j].payload, ParsedKind(got[j].payload), classify(got[j].payload))
    BY <1>7, <1>9
  <2>9. Agrees(r, got, f, came)
    BY <2>2, <2>3, <2>4, <2>5, <2>6, <2>7, <2>8 DEF Agrees
  <2> QED
    BY <1>6, <2>9 DEF r
<1> QED
  BY <1>12, <1>13

LEMMA InvIndexed == CorpusInv => IndexAgreesWithReader
<1> SUFFICES ASSUME CorpusInv, NEW i \in DOMAIN files, NEW max \in MaxRecords
             PROVE  Agrees(scan(files[i], max), read_pcap(files[i]), files[i], truth[i])
  BY DEF IndexAgreesWithReader, Agrees
<1>1. i \in 1..Len(files)
  BY LenProperties DEF CorpusInv
<1>2. max \in Nat \cup {NONE}
  BY CorpusAssumption
<1> QED
  BY <1>1, <1>2, OneFile, CaptureIndexed

\* The index says of a capture what the common reader and ctrl.parse say of it,
\* and never more (build_capture_index.py:32-35).
THEOREM IndexCorrect == CorpusSpec => []IndexAgreesWithReader
<1> QED
  BY CorpusSafety, InvIndexed, PTL

-------------------------------------------------------------------------------
(* What the anatomy shows.                                                 *)

\* The members of fs that are in A, in their order.
InAt(fs, A) == {i \in DOMAIN fs : fs[i] \in A}
Kept(fs, A) == Picked(fs, InAt(fs, A))

LEMMA KeptType ==
  ASSUME NEW D, NEW fs \in Seq(D), NEW A
  PROVE  Kept(fs, A) \in Seq(D)
<1>1. PICK u \in [0..Len(fs) -> Seq(D)] : Picked(fs, InAt(fs, A)) = u[Len(fs)]
  BY PickedIsLoop
<1>2. Len(fs) \in 0..Len(fs)
  BY LenProperties
<1> QED
  BY <1>1, <1>2 DEF Kept

LEMMA KeptMore ==
  ASSUME NEW D, NEW fs \in Seq(D), NEW x \in D, NEW A
  PROVE  Kept(Append(fs, x), A) = IF x \in A THEN Append(Kept(fs, A), x) ELSE Kept(fs, A)
<1>1. PICK n \in Nat : n = Len(fs) /\ DOMAIN fs = 1..n
  BY LenProperties
<1>2. PICK more \in Seq(D) : more = Append(fs, x)
  BY AppendProperties
<1>3. Len(more) = n + 1 /\ more[n + 1] = x /\ \A j \in 1..n : more[j] = fs[j]
  BY <1>1, <1>2, AppendAt
<1>4. DOMAIN more = 1..(n + 1)
  BY <1>2, <1>3, LenProperties
<1>5. PICK P, Q : P = InAt(fs, A) /\ Q = InAt(more, A)
  OBVIOUS
<1>6. (\A j \in 1..n : j \in Q <=> j \in P) /\ (n + 1 \in Q <=> x \in A)
  BY <1>1, <1>3, <1>4, <1>5 DEF InAt
<1>7. Picked(more, Q) = IF n + 1 \in Q THEN Append(Picked(fs, P), x) ELSE Picked(fs, P)
  <2>1. \A j \in 1..Len(fs) : j \in Q <=> j \in P
    BY <1>1, <1>6
  <2>2. Picked(Append(fs, x), Q) =
          IF Len(fs) + 1 \in Q THEN Append(Picked(fs, P), x) ELSE Picked(fs, P)
    BY <2>1, PickedAppend
  <2> QED
    BY <1>1, <1>2, <2>2
<1> QED
  BY <1>1, <1>2, <1>5, <1>6, <1>7 DEF Kept

LEMMA KeptOfNone == ASSUME NEW A PROVE Kept(<<>>, A) = <<>>
BY PickedOfNone DEF Kept

LEMMA PrefixMore ==
  ASSUME NEW D, NEW fs \in Seq(D), NEW m \in 1..Len(fs)
  PROVE  SubSeq(fs, 1, m) = Append(SubSeq(fs, 1, m - 1), fs[m])
<1>1. PICK k \in Nat : m = k + 1 /\ k \in 0..Len(fs) /\ m \in 0..Len(fs)
  <2>1. m - 1 \in Nat /\ m = (m - 1) + 1 /\ m - 1 \in 0..Len(fs) /\ m \in 0..Len(fs)
    BY LenProperties
  <2> QED
    BY <2>1
<1>2. PICK s : s = SubSeq(fs, 1, k)
  OBVIOUS
<1>3. s \in Seq(D) /\ Len(s) = k /\ \A i \in 1..k : s[i] = fs[i]
  BY <1>1, <1>2, PrefixOf
<1>4. PICK x \in D : x = fs[m]
  BY ElementOfSeq
<1>5. PICK t \in Seq(D) : t = Append(s, x)
  BY <1>3, AppendProperties
<1>6. Len(t) = k + 1 /\ t[k + 1] = x /\ \A i \in 1..k : t[i] = s[i]
  BY <1>3, <1>5, AppendAt
<1>7. PICK u : u = SubSeq(fs, 1, m)
  OBVIOUS
<1>8. u \in Seq(D) /\ Len(u) = m /\ \A i \in 1..m : u[i] = fs[i]
  BY <1>1, <1>7, PrefixOf
<1>9. \A i \in 1..m : u[i] = t[i]
  <2>1. 1..m = (1..k) \cup {m}
    BY <1>1
  <2> QED
    BY <1>1, <1>3, <1>4, <1>6, <1>8, <2>1
<1>10. u = t
  BY <1>1, <1>5, <1>6, <1>8, <1>9, SeqEqual
<1>11. m - 1 = k
  BY <1>1
<1> QED
  BY <1>2, <1>4, <1>5, <1>7, <1>10, <1>11

\* To keep some of those kept is to keep what is both.
LEMMA KeptTwice ==
  ASSUME NEW D, NEW fs \in Seq(D), NEW A, NEW B
  PROVE  Kept(Kept(fs, B), A) = Kept(fs, A \cap B)
<1>1. PICK n \in Nat : n = Len(fs)
  BY LenProperties
<1> DEFINE pre(m) == SubSeq(fs, 1, m)
           Both == {m \in 0..n : Kept(Kept(pre(m), B), A) = Kept(pre(m), A \cap B)}
<1>2. 0 \in Both
  <2>1. pre(0) = <<>>
    BY SubSeqEmpty
  <2> HIDE DEF pre
  <2> QED
    BY <2>1, KeptOfNone
<1>3. ASSUME NEW m \in 1..n, m - 1 \in Both PROVE m \in Both
  <2>1. PICK s \in Seq(D), x \in D : s = pre(m - 1) /\ x = fs[m] /\ pre(m) = Append(s, x)
    <3>1. m - 1 \in 0..Len(fs) /\ m \in 1..Len(fs)
      BY <1>1
    <3>2. pre(m - 1) \in Seq(D)
      BY <3>1, PrefixOf
    <3>3. fs[m] \in D
      BY <3>1, ElementOfSeq
    <3>4. pre(m) = Append(pre(m - 1), fs[m])
      BY <3>1, PrefixMore
    <3> HIDE DEF pre
    <3> QED
      BY <3>2, <3>3, <3>4
  <2>2. PICK X \in Seq(D), Y \in Seq(D) : X = Kept(s, B) /\ Y = Kept(s, A \cap B)
    BY KeptType
  <2>3. Kept(X, A) = Y
    <3>1. Kept(Kept(pre(m - 1), B), A) = Kept(pre(m - 1), A \cap B)
      BY <1>3
    <3> HIDE DEF pre
    <3> QED
      BY <2>1, <2>2, <3>1
  <2>4. Kept(Append(s, x), B) = IF x \in B THEN Append(X, x) ELSE X
    <3>1. Kept(Append(s, x), B) = IF x \in B THEN Append(Kept(s, B), x) ELSE Kept(s, B)
      BY KeptMore
    <3> QED
      BY <2>2, <3>1
  <2>5. Kept(Append(s, x), A \cap B) = IF x \in A \cap B THEN Append(Y, x) ELSE Y
    <3>1. PICK C : C = A \cap B
      OBVIOUS
    <3>2. Kept(Append(s, x), C) = IF x \in C THEN Append(Kept(s, C), x) ELSE Kept(s, C)
      BY KeptMore
    <3> QED
      BY <2>2, <3>1, <3>2
  <2>6. Kept(Append(X, x), A) = IF x \in A THEN Append(Kept(X, A), x) ELSE Kept(X, A)
    BY KeptMore
  <2>7. Kept(Kept(Append(s, x), B), A) = Kept(Append(s, x), A \cap B)
    BY <2>3, <2>4, <2>5, <2>6
  <2>8. m \in 0..n
    BY <1>1
  <2> HIDE DEF pre
  <2> QED
    BY <2>1, <2>7, <2>8
<1>4. 0..n \subseteq Both
  <2> HIDE DEF Both, pre
  <2>1. \A m \in 1..n : m - 1 \in Both => m \in Both
    BY <1>3
  <2> QED
    BY <1>2, <2>1, UpToInduction
<1>5. n \in Both
  <2>1. n \in 0..n
    OBVIOUS
  <2> HIDE DEF Both, pre
  <2> QED
    BY <1>4, <2>1
<1>6. pre(n) = fs
  BY <1>1, SubSeqFull
<1> HIDE DEF pre
<1> QED
  BY <1>5, <1>6

ReacOnes == {r \in TapRecords : IsReac(r.pkt)}
ShownOnes == {r \in TapRecords : Shown(r.pkt)}

LEMMA ThoseAreKept ==
  ASSUME NEW list \in Seq(TapRecords)
  PROVE  Those(list, IsReac) = Kept(list, ReacOnes) /\ Those(list, Shown) = Kept(list, ShownOnes)
<1>1. \A i \in DOMAIN list : list[i] \in TapRecords
  BY LenProperties, ElementOfSeq
<1>2. /\ {i \in DOMAIN list : IsReac(list[i].pkt)} = InAt(list, ReacOnes)
      /\ {i \in DOMAIN list : Shown(list[i].pkt)} = InAt(list, ShownOnes)
  BY <1>1 DEF InAt, ReacOnes, ShownOnes
<1> QED
  BY <1>2 DEF Those, Kept

\* The ethertype of REAC is at one of the places.
LEMMA ShownIs ==
  ASSUME NEW p
  PROVE  Shown(p) <=> \E i \in 1..3 : p.words[i] = "8819"
<1> DEFINE at == {i \in 1..3 : p.words[i] = "8819"}
<1>1. CASE at = {}
  BY <1>1 DEF Shown, reac_off
<1>2. CASE at # {}
  <2>1. reac_off(p) = 8 + 4 * Min(at)
    BY <1>2 DEF reac_off
  <2>2. at \subseteq 1..3 /\ IsFiniteSet(at)
    <3>1. at \subseteq 1..3
      <4>1. \A i \in at : i \in 1..3
        OBVIOUS
      <4> QED
        BY <4>1
    <3>2. IsFiniteSet(1..3)
      <4>1. 1 \in Int /\ 3 \in Int
        OBVIOUS
      <4> QED
        BY <4>1, FS_Interval, Zenon
    <3> HIDE DEF at
    <3> QED
      BY <3>1, <3>2, FS_Subset
  <2> HIDE DEF at
  <2>3. at \in SUBSET Int
    BY <2>2
  <2>4. Min(at) \in at
    BY <1>2, <2>2, <2>3, MaxMinType
  <2>5. Min(at) \in 1..3
    BY <2>2, <2>4
  <2>6. reac_off(p) >= 0
    BY <2>1, <2>5
  <2> QED
    BY <1>2, <2>6 DEF Shown, at
<1> QED
  BY <1>1, <1>2

LEMMA ReacIsShown == ReacOnes \subseteq ShownOnes
<1>1. \A p : IsReac(p) => \E i \in 1..3 : p.words[i] = "8819"
  BY DEF IsReac, Tagged
<1> QED
  BY <1>1, ShownIs DEF ReacOnes, ShownOnes

LEMMA FramesAre ==
  ASSUME NEW f \in Captures, NEW came \in Seq(Arrivals), IsCaptureOf(f, came)
  PROVE  \/ f.tail = <<>> /\ AnatomyFrames(f) = f.records
         \/ /\ f.tail # <<>> /\ f.tail[1] \in TapRecords
            /\ AnatomyFrames(f) = Append(f.records, f.tail[1])
<1>1. PICK recs \in Seq(TapRecords), tail \in Seq(TapRecords) : recs = f.records /\ tail = f.tail
  BY DEF Captures
<1>2. Len(tail) <= 1 /\ Len(recs) \in Nat /\ Len(tail) \in Nat
  BY <1>1, LenProperties DEF IsCaptureOf
<1>3. f.header = "WHOLE" => AnatomyFrames(f) = recs \o tail
  BY <1>1 DEF AnatomyFrames
<1>4. f.header # "WHOLE" => AnatomyFrames(f) = recs /\ tail = <<>>
  <2>1. Complete(f, f.order) = recs
    BY <1>1, CompleteIs
  <2> QED
    BY <1>1, <2>1 DEF AnatomyFrames, Complete, IsCaptureOf
<1>5. CASE tail = <<>>
  <2>1. recs \o tail = recs
    BY <1>5, ConcatEmptySeq
  <2> QED
    BY <1>1, <1>3, <1>4, <1>5, <2>1
<1>6. CASE tail # <<>>
  <2>1. Len(tail) = 1 /\ f.header = "WHOLE"
    <3>1. Len(tail) \in Nat \ {0}
      BY <1>6, EmptySeq
    <3>2. f.header = "WHOLE"
      BY <1>4, <1>6
    <3>3. ASSUME NEW l \in Nat \ {0}, l <= 1 PROVE l = 1
      BY <3>3
    <3>4. Len(tail) = 1
      BY <1>2, <3>1, <3>3
    <3> QED
      BY <3>2, <3>4
  <2>2. PICK x \in TapRecords : x = tail[1]
    <3>1. 1 \in 1..Len(tail)
      BY <2>1
    <3> QED
      BY <3>1, ElementOfSeq
  <2>3. PICK s, t : s = recs \o tail /\ t = Append(recs, x)
    OBVIOUS
  <2>4. PICK n \in Nat : n = Len(recs)
    BY <1>2
  <2>5. /\ s \in Seq(TapRecords) /\ Len(s) = n + 1
        /\ \A i \in 1..(n + 1) : s[i] = IF i <= n THEN recs[i] ELSE tail[i - n]
    <3>1. /\ recs \o tail \in Seq(TapRecords) /\ Len(recs \o tail) = Len(recs) + Len(tail)
          /\ \A i \in 1..Len(recs) + Len(tail) :
               (recs \o tail)[i] = IF i <= Len(recs) THEN recs[i] ELSE tail[i - Len(recs)]
      BY ConcatProperties
    <3>2. Len(recs) + Len(tail) = n + 1
      BY <2>1, <2>4
    <3> QED
      BY <2>3, <2>4, <3>1, <3>2
  <2>6. /\ t \in Seq(TapRecords) /\ Len(t) = n + 1 /\ t[n + 1] = x
        /\ \A i \in 1..n : t[i] = recs[i]
    BY <2>3, <2>4, AppendAt, AppendProperties
  <2>7. ASSUME NEW i \in 1..(n + 1) PROVE s[i] = t[i]
    <3>1. CASE i \in 1..n
      <4>1. i <= n
        BY <3>1
      <4> QED
        BY <2>5, <2>6, <3>1, <4>1
    <3>2. CASE i = n + 1
      <4>1. ~(i <= n) /\ i - n = 1
        BY <3>2
      <4> QED
        BY <2>2, <2>5, <2>6, <3>2, <4>1
    <3> QED
      BY <3>1, <3>2
  <2>8. s = t
    BY <2>5, <2>6, <2>7, SeqEqual
  <2> QED
    BY <1>1, <1>3, <1>6, <2>1, <2>2, <2>3, <2>8
<1> QED
  BY <1>5, <1>6

\* All but the last member of a list that one was appended to.
LEMMA AllButLast ==
  ASSUME NEW D, NEW s \in Seq(D), NEW x \in D
  PROVE  SubSeq(Append(s, x), 1, Len(Append(s, x)) - 1) = s
<1>1. PICK n \in Nat : n = Len(s)
  BY LenProperties
<1>2. PICK t \in Seq(D) : t = Append(s, x)
  BY AppendProperties
<1>3. Len(t) = n + 1 /\ \A i \in 1..n : t[i] = s[i]
  BY <1>1, <1>2, AppendAt
<1>4. PICK u : u = SubSeq(t, 1, n)
  OBVIOUS
<1>5. n \in 0..Len(t) /\ Len(t) - 1 = n
  BY <1>3
<1>6. u \in Seq(D) /\ Len(u) = n /\ \A i \in 1..n : u[i] = t[i]
  BY <1>4, <1>5, PrefixOf
<1>7. u = s
  BY <1>1, <1>3, <1>6, SeqEqual
<1> QED
  BY <1>2, <1>4, <1>5, <1>7

\* What the anatomy promises of a file.
Anatomy(f, came) ==
  LET shown == AnatomyReac(f)
      cut == IF f.tail # <<>> /\ Shown(f.tail[1].pkt) THEN 1 ELSE 0
      plain == Those(SubSeq(shown, 1, Len(shown) - cut), IsReac)
      got == read_pcap(f)
  IN  IF AnatomyDies(f) THEN came = <<>> ELSE
      /\ [j \in DOMAIN plain |-> plain[j].pkt] = [j \in DOMAIN got |-> got[j].payload]
      /\ \A p \in AllPackets : Shown(p) =>
           Len(Those(IoDiffFrames(f, p.src, p.size), Shown))
             <= Len(AnatomyStream(f, p.src, p.size))

LEMMA CaptureShown ==
  ASSUME NEW f \in Captures, NEW came \in Seq(Arrivals), IsCaptureOf(f, came)
  PROVE  LET shown == AnatomyReac(f)
             cut == IF f.tail # <<>> /\ Shown(f.tail[1].pkt) THEN 1 ELSE 0
         IN  SubSeq(shown, 1, Len(shown) - cut) = Kept(f.records, ShownOnes)
<1> DEFINE shown == AnatomyReac(f)
           cut == IF f.tail # <<>> /\ Shown(f.tail[1].pkt) THEN 1 ELSE 0
<1>1. PICK recs \in Seq(TapRecords) : recs = f.records
  BY DEF Captures
<1>2. PICK kept \in Seq(TapRecords) : kept = Kept(recs, ShownOnes)
  BY KeptType
<1>3. Len(kept) \in Nat /\ SubSeq(kept, 1, Len(kept)) = kept
  BY LenProperties, SubSeqFull
<1>4. CASE f.tail = <<>> /\ AnatomyFrames(f) = recs
  <2>1. shown = kept /\ cut = 0
    BY <1>2, <1>4, ThoseAreKept DEF AnatomyReac
  <2>2. Len(kept) - 0 = Len(kept)
    BY <1>3
  <2> HIDE DEF shown, cut
  <2> QED
    BY <1>1, <1>2, <1>3, <2>1, <2>2 DEF shown, cut
<1>5. CASE /\ f.tail # <<>> /\ f.tail[1] \in TapRecords
           /\ AnatomyFrames(f) = Append(recs, f.tail[1])
  <2>1. PICK x \in TapRecords : x = f.tail[1]
    BY <1>5
  <2>2. Append(recs, x) \in Seq(TapRecords)
    BY AppendProperties
  <2>3. shown = Kept(Append(recs, x), ShownOnes)
    BY <1>5, <2>1, <2>2, ThoseAreKept DEF AnatomyReac
  <2>4. shown = IF x \in ShownOnes THEN Append(kept, x) ELSE kept
    BY <1>2, <2>3, KeptMore
  <2>5. cut = IF x \in ShownOnes THEN 1 ELSE 0
    BY <1>5, <2>1 DEF ShownOnes
  <2>6. SubSeq(Append(kept, x), 1, Len(Append(kept, x)) - 1) = kept
    BY AllButLast
  <2>7. Len(kept) - 0 = Len(kept)
    BY <1>3
  <2> HIDE DEF shown, cut
  <2>8. SubSeq(shown, 1, Len(shown) - cut) = kept
    BY <1>3, <2>4, <2>5, <2>6, <2>7
  <2> QED
    BY <1>1, <1>2, <2>8 DEF shown, cut
<1> QED
  BY <1>1, <1>4, <1>5, FramesAre

LEMMA CaptureAnatomy ==
  ASSUME NEW f \in Captures, NEW came \in Seq(Arrivals), IsCaptureOf(f, came)
  PROVE  Anatomy(f, came)
<1> DEFINE shown == AnatomyReac(f)
           cut == IF f.tail # <<>> /\ Shown(f.tail[1].pkt) THEN 1 ELSE 0
           plain == Those(SubSeq(shown, 1, Len(shown) - cut), IsReac)
           got == read_pcap(f)
<1>1. PICK recs \in Seq(TapRecords) : recs = f.records
  BY DEF Captures
<1>2. PICK kept \in Seq(TapRecords) : kept = Kept(recs, ShownOnes)
  BY KeptType
<1>3. plain = Those(recs, IsReac)
  <2>1. plain = Kept(kept, ReacOnes)
    BY <1>1, <1>2, CaptureShown, ThoseAreKept
  <2>2. Kept(kept, ReacOnes) = Kept(recs, ReacOnes \cap ShownOnes)
    BY <1>2, KeptTwice
  <2>3. ReacOnes \cap ShownOnes = ReacOnes
    BY ReacIsShown
  <2> HIDE DEF plain
  <2> QED
    BY <2>1, <2>2, <2>3, ThoseAreKept
<1>4. PICK n \in Nat : \E h \in Seq(1..n) : ReacAt(f, came, n, h)
  BY ReadPlaces
<1>5. PICK h \in Seq(1..n) : ReacAt(f, came, n, h)
  BY <1>4
<1>6. PICK m \in Nat : m = Len(h)
  BY LenProperties
<1>7. /\ plain = [j \in 1..m |-> recs[h[j]]]
      /\ got = [j \in 1..m |-> ReacFrame(recs[h[j]], f.prec)]
  <2> HIDE DEF plain
  <2> QED
    BY <1>1, <1>3, <1>5, <1>6 DEF ReacAt
<1>8. [j \in DOMAIN plain |-> plain[j].pkt] = [j \in DOMAIN got |-> got[j].payload]
  <2> HIDE DEF plain, got
  <2>1. DOMAIN plain = 1..m /\ DOMAIN got = 1..m
    BY <1>7
  <2>2. \A j \in 1..m : plain[j].pkt = got[j].payload
    BY <1>7 DEF ReacFrame
  <2> QED
    BY <2>1, <2>2
<1>9. ASSUME NEW p \in AllPackets, Shown(p)
      PROVE  Len(Those(IoDiffFrames(f, p.src, p.size), Shown)) <= Len(AnatomyStream(f, p.src, p.size))
  <2>1. PICK some \in Seq(TapRecords) : some = Complete(f, "<") /\ some \in {recs, <<>>}
    BY <1>1, CompleteIs, EmptySeq
  <2>2. PICK frames \in Seq(TapRecords) :
          /\ frames = AnatomyFrames(f) /\ Len(recs) <= Len(frames)
          /\ \A i \in 1..Len(recs) : frames[i] = recs[i]
    <3>1. CASE AnatomyFrames(f) = recs
      <4>1. Len(recs) \in Nat
        BY LenProperties
      <4> QED
        BY <3>1, <4>1
    <3>2. CASE f.tail[1] \in TapRecords /\ AnatomyFrames(f) = Append(recs, f.tail[1])
      <4>1. PICK x \in TapRecords : x = f.tail[1]
        BY <3>2
      <4>2. PICK k \in Nat : k = Len(recs)
        BY LenProperties
      <4>3. PICK t \in Seq(TapRecords) : t = Append(recs, x)
        BY AppendProperties
      <4>4. Len(t) = k + 1 /\ \A i \in 1..k : t[i] = recs[i]
        BY <4>2, <4>3, AppendAt
      <4>5. Len(recs) <= Len(t)
        BY <4>2, <4>4
      <4> QED
        BY <3>2, <4>1, <4>2, <4>3, <4>4, <4>5
    <3> QED
      BY <1>1, <3>1, <3>2, FramesAre
  <2> DEFINE Whole == {r \in TapRecords : r.pkt.src = p.src /\ r.pkt.size = p.size /\ r.pkt.cut = "none"}
             Streamed == {r \in TapRecords : Shown(r.pkt) /\ r.pkt.src = p.src /\ r.pkt.size = p.size}
  <2>3. IoDiffFrames(f, p.src, p.size) = Kept(some, Whole)
    <3>1. {i \in DOMAIN some : /\ some[i].pkt.src = p.src /\ some[i].pkt.size = p.size
                               /\ some[i].pkt.cut = "none"} = InAt(some, Whole)
      <4>1. \A i \in DOMAIN some : some[i] \in TapRecords
        BY LenProperties, ElementOfSeq
      <4> QED
        BY <4>1 DEF InAt
    <3> QED
      BY <2>1, <3>1 DEF IoDiffFrames, Those, Kept
  <2>4. AnatomyStream(f, p.src, p.size) = Kept(frames, Streamed)
    <3>1. {i \in DOMAIN frames : /\ Shown(frames[i].pkt) /\ frames[i].pkt.src = p.src
                                 /\ frames[i].pkt.size = p.size} = InAt(frames, Streamed)
      <4>1. \A i \in DOMAIN frames : frames[i] \in TapRecords
        BY LenProperties, ElementOfSeq
      <4> QED
        BY <4>1 DEF InAt
    <3> QED
      BY <2>2, <3>1 DEF AnatomyStream, Those, Kept
  <2>5. ShownOnes \cap Whole \subseteq Streamed
    BY DEF ShownOnes
  <2> HIDE DEF Whole, Streamed
  <2>6. PICK whole \in Seq(TapRecords) : whole = Kept(some, Whole)
    BY KeptType
  <2>7. Those(whole, Shown) = Kept(some, ShownOnes \cap Whole)
    BY <2>6, ThoseAreKept, KeptTwice
  <2> DEFINE P == InAt(some, ShownOnes \cap Whole)
             Q == InAt(frames, Streamed)
  <2>8. P \subseteq Q /\ P \subseteq 1..Len(some) /\ Q \subseteq 1..Len(frames)
    <3>1. DOMAIN some = 1..Len(some) /\ DOMAIN frames = 1..Len(frames)
      BY LenProperties
    <3>2. P \subseteq 1..Len(some) /\ Q \subseteq 1..Len(frames)
      BY <3>1 DEF InAt
    <3>3. ASSUME NEW i \in P PROVE i \in Q
      <4>1. i \in 1..Len(some) /\ some[i] \in ShownOnes \cap Whole
        BY <3>1, <3>3 DEF InAt
      <4>2. some = recs
        <5>1. Len(<<>>) = 0
          OBVIOUS
        <5>2. some # <<>>
          BY <4>1, <5>1
        <5> QED
          BY <2>1, <5>2
      <4>3. i \in 1..Len(frames) /\ frames[i] = some[i]
        <5>1. Len(recs) \in Nat /\ Len(frames) \in Nat
          BY LenProperties
        <5> QED
          BY <2>2, <4>1, <4>2, <5>1
      <4> QED
        BY <2>5, <3>1, <4>1, <4>3 DEF InAt
    <3> QED
      BY <3>2, <3>3
  <2> HIDE DEF P, Q
  <2>9. Len(Picked(some, P)) <= Len(Picked(frames, Q))
    BY <2>8, FewerPicked
  <2> QED
    BY <2>3, <2>4, <2>6, <2>7, <2>9 DEF Kept, P, Q
<1>10. AnatomyDies(f) => came = <<>>
  BY DEF AnatomyDies, IsCaptureOf
<1> HIDE DEF shown, cut, plain, got
<1> QED
  BY <1>8, <1>9, <1>10 DEF Anatomy, shown, cut, plain, got

LEMMA InvAnatomy == CorpusInv => AnatomySeesTheReaders
<1> SUFFICES ASSUME CorpusInv, NEW i \in DOMAIN files PROVE Anatomy(files[i], truth[i])
  BY DEF AnatomySeesTheReaders, Anatomy
<1>1. i \in 1..Len(files)
  BY LenProperties DEF CorpusInv
<1> QED
  BY <1>1, OneFile, CaptureAnatomy

\* The anatomy shows the packets of the common reader in their order, whatever
\* the file ends in, and dies only on one without a magic, where there is none;
\* the I/O diff takes no REAC packet it does not show.
THEOREM AnatomyCorrect == CorpusSpec => []AnatomySeesTheReaders
<1> QED
  BY CorpusSafety, InvAnatomy, PTL

-------------------------------------------------------------------------------
(* What the gate says.                                                     *)

\* A record that came in whole with some packet.
CameIn(x, came) == \E j \in DOMAIN came : \E k \in DOMAIN came[j].pkt.sysex : x = came[j].pkt.sysex[k]

\* A file that is not both of nanoseconds and of a little-endian machine.
GateKnows(f) == f.order = ">" \/ f.prec = "usec"

LEMMA GateReads ==
  ASSUME NEW f \in Captures, NEW came \in Seq(Arrivals), IsCaptureOf(f, came), NEW x
  PROVE  /\ x \in Records0500(f) => CameIn(x, came) /\ x.tag = "0500"
         /\ GateKnows(f) /\ CameIn(x, came) /\ x.tag = "0500" => x \in Records0500(f)
<1>1. PICK recs \in Seq(TapRecords) : recs = f.records
  BY DEF Captures
<1>2. PICK n \in Nat : /\ n = Len(recs) /\ DOMAIN recs = 1..n /\ DOMAIN came = 1..n
                       /\ \A j \in 1..n : recs[j].pkt = came[j].pkt
  BY <1>1, LenProperties DEF IsCaptureOf, Tells
<1>3. PICK frames : frames = GateFrames(f)
  OBVIOUS
<1>4. frames \in {recs, <<>>} /\ (GateKnows(f) => frames = recs)
  <2>1. PICK order : order = IF f.order = "<" /\ f.prec = "usec" THEN "<" ELSE ">"
    OBVIOUS
  <2>2. frames = IF f.order = order THEN recs ELSE <<>>
    BY <1>1, <1>3, <2>1, CompleteIs DEF GateFrames
  <2>3. GateKnows(f) => f.order = order
    BY <2>1 DEF GateKnows, Captures, Orders
  <2> QED
    BY <2>2, <2>3
<1>5. x \in Records0500(f) <=> /\ x.tag = "0500"
                               /\ \E j \in DOMAIN frames : \E k \in DOMAIN frames[j].pkt.sysex :
                                    x = frames[j].pkt.sysex[k]
  BY <1>3 DEF Records0500, ToSet
<1>6. (\E j \in DOMAIN recs : \E k \in DOMAIN recs[j].pkt.sysex : x = recs[j].pkt.sysex[k])
        <=> CameIn(x, came)
  BY <1>2 DEF CameIn
<1>7. DOMAIN <<>> = {}
  OBVIOUS
<1> QED
  BY <1>4, <1>5, <1>6, <1>7

HasCounterexample(came) == \E x : CameIn(x, came) /\ Counterexample(x)
Has0500(came) == \E x : CameIn(x, came) /\ x.tag = "0500"
Fails(f) == GateScan(f).anomalies \/ GateScan(f).bad
Finds(f) == GateScan(f).records \/ GateScan(f).bad

LEMMA GateScans ==
  ASSUME NEW f \in Captures, NEW came \in Seq(Arrivals), IsCaptureOf(f, came)
  PROVE  /\ Fails(f) => HasCounterexample(came)
         /\ Finds(f) => Has0500(came)
         /\ GateKnows(f) /\ HasCounterexample(came) => Fails(f)
         /\ GateKnows(f) /\ Has0500(came) => Finds(f)
<1>1. PICK X : X = Records0500(f)
  OBVIOUS
<1>2. /\ \A x \in X : CameIn(x, came) /\ x.tag = "0500"
      /\ GateKnows(f) => \A x : CameIn(x, came) /\ x.tag = "0500" => x \in X
  BY <1>1, GateReads
<1>3. /\ Fails(f) <=> \E x \in X : Anomalous(x) \/ ~x.ok
      /\ Finds(f) <=> X # {}
  BY <1>1 DEF Fails, Finds, GateScan
<1> QED
  BY <1>2, <1>3 DEF HasCounterexample, Has0500, Counterexample

LEMMA InvGate == CorpusInv => GateIsRight
<1> SUFFICES ASSUME CorpusInv PROVE GateIsRight
  OBVIOUS
<1>1. \A i \in DOMAIN files : files[i] \in Captures /\ truth[i] \in Seq(Arrivals)
                              /\ IsCaptureOf(files[i], truth[i])
  <2>1. DOMAIN files = 1..Len(files)
    BY LenProperties DEF CorpusInv
  <2> QED
    BY <2>1, OneFile
<1>2. \A i \in DOMAIN files :
        /\ Fails(files[i]) => HasCounterexample(truth[i])
        /\ Finds(files[i]) => Has0500(truth[i])
        /\ GateKnows(files[i]) /\ HasCounterexample(truth[i]) => Fails(files[i])
        /\ GateKnows(files[i]) /\ Has0500(truth[i]) => Finds(files[i])
  BY <1>1, GateScans
<1>3. ASSUME NEW missing \in BOOLEAN
      PROVE  GateMain(files, missing) =
               IF missing \/ ~\E i \in DOMAIN files : Finds(files[i]) THEN 2
               ELSE IF \E i \in DOMAIN files : Fails(files[i]) THEN 1 ELSE 0
  <2>1. PICK r : r = [i \in DOMAIN files |-> GateScan(files[i])]
    OBVIOUS
  <2>2. \A i \in DOMAIN files : /\ r[i].records \/ r[i].bad <=> Finds(files[i])
                                /\ r[i].anomalies \/ r[i].bad <=> Fails(files[i])
    BY <2>1 DEF Finds, Fails
  <2>3. GateMain(files, missing) =
          IF missing \/ ~\E i \in DOMAIN files : r[i].records \/ r[i].bad THEN 2
          ELSE IF \E i \in DOMAIN files : r[i].anomalies \/ r[i].bad THEN 1 ELSE 0
    BY <2>1 DEF GateMain
  <2> QED
    BY <2>2, <2>3
<1>4. \A i \in DOMAIN files : Fails(files[i]) => Finds(files[i])
  BY DEF Finds, Fails, GateScan, Anomalous
<1>5. PICK S : S = {i \in DOMAIN files : files[i].order = ">" \/ files[i].prec = "usec"}
  OBVIOUS
<1>6. \A i \in S : i \in DOMAIN files /\ GateKnows(files[i])
  BY <1>5 DEF GateKnows
<1>7. ASSUME NEW missing \in BOOLEAN, NEW code, code = GateMain(files, missing)
      PROVE  /\ code = 0 => ~\E i \in S : HasCounterexample(truth[i])
             /\ code = 1 => \E i \in DOMAIN files : HasCounterexample(truth[i])
             /\ ~missing /\ (\E i \in S : Has0500(truth[i])) => code # 2
             /\ code = 0 => ~missing /\ \E i \in DOMAIN files : Has0500(truth[i])
  BY <1>2, <1>3, <1>6, <1>7
<1>8. \A i \in DOMAIN files :
        /\ Holds(truth[i], Counterexample) <=> HasCounterexample(truth[i])
        /\ Holds(truth[i], Is0500) <=> Has0500(truth[i])
  BY DEF Holds, HasCounterexample, Has0500, CameIn, Is0500
<1>9. GateVerdict(S)
  BY <1>6, <1>7, <1>8 DEF GateVerdict
<1> QED
  BY <1>5, <1>9 DEF GateIsRight

\* Over captures the gate can read, it passes only a corpus without a
\* counterexample, and fails only one with one (verify_tag_0500.py:143-176).
THEOREM GateCorrect == CorpusSpec => []GateIsRight
<1> QED
  BY CorpusSafety, InvGate, PTL
================================================================================
