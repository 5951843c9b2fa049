----------------------------- MODULE HistoryDrop -----------------------------
(***************************************************************************)
(* tools/history_drop.py and the rewrite its docstring prescribes.         *)
(*                                                                         *)
(* The history is a list of commits on main and on a side branch, which    *)
(* main may merge.  An operator clones it and runs ops-confirm, list, git  *)
(* filter-repo and check, in this order, each only once the one before it  *)
(* exited 0; after an edit of the drop list he starts over.  The private   *)
(* ops checkout belongs to others and may change between any two steps.    *)
(***************************************************************************)
EXTENDS Naturals, Sequences, FiniteSets

CONSTANTS
  Paths,           \* the paths a commit may touch
  PatternPaths,    \* those the pattern rules class as internal
  NamePaths,       \* those only the name rules of the ops checkout do
  Versions,        \* what a file may hold
  MaxCommits,      \* bound: commits
  MaxEntries,      \* bound: entries on the drop list
  MaxOpsEdits      \* bound: changes of the ops checkout

Gone == "gone"     \* the file is not there
Other == "other"   \* the file holds none of the versions the history has

ASSUME HistoryAssumption ==
  /\ PatternPaths \subseteq Paths /\ NamePaths \subseteq Paths
  /\ Gone \notin Versions /\ Other \notin Versions
  /\ MaxCommits \in Nat /\ MaxEntries \in Nat /\ MaxOpsEdits \in Nat

VARIABLES
  log,             \* the commits: the tree of each, and the paths it touches
  tip,             \* per ref, its commit, or 0
  reach,           \* per ref, the commits reachable from it
  drops,           \* the drop list: paths, each with the base its copy is compared at
  ops,             \* the ops checkout: is it there, its rules, its copies
  opsEdits,        \* changes of the ops checkout so far
  step,            \* how far the operator is
  dropFile,        \* what list printed: paths, and whether name rules were read
  held             \* history: the copies ops-confirm saw when it last passed

vars == <<log, tip, reach, drops, ops, opsEdits, step, dropFile, held>>

Refs == {"main", "side"}
Trees == [Paths -> Versions \cup {Gone}]
Copies == [Paths -> Versions \cup {Gone, Other}]
EmptyTree == [p \in Paths |-> Gone]
TipTree(r) == IF tip[r] = 0 THEN EmptyTree ELSE log[tip[r]].tree

Init ==
  /\ log = <<>>
  /\ tip = [r \in Refs |-> 0]
  /\ reach = [r \in Refs |-> {}]
  /\ drops = {}
  /\ ops \in [present : {FALSE}, rules : {FALSE}, copy : {EmptyTree}]
  /\ opsEdits = 0
  /\ step = "landing"
  /\ dropFile = [paths |-> {}, named |-> FALSE]
  /\ held = EmptyTree

-------------------------------------------------------------------------------
(* What the tool reads. *)

\* read_drops: a path before any "# base" line, or no path at all, is an error.
NoBase == 0
ReadDropsOk == drops # {} /\ \A d \in drops : d.base # NoBase
Listed == {d.path : d \in drops}

\* ops_root and read_rules: a checkout without the rules file is an error, no
\* checkout is an empty rule set.
RulesOk == ops.present => ops.rules
NameRules == IF ops.present THEN NamePaths ELSE {}

belongs_in_ops(p, names) == p \in PatternPaths \/ p \in names

\* Mutant: merges are not diffed.
HistoryPathsNoMerges(revs) ==
  UNION {log[i].touched : i \in {j \in UNION {reach[r] : r \in revs} : ~log[j].merge}}

\* Mutant: what the tips hold.
HistoryPathsOfTips(revs) == UNION {{p \in Paths : TipTree(r)[p] # Gone} : r \in revs}

\* history_paths: what the commits reachable from revs touch, a merge against
\* each of its parents.
HistoryPaths(revs) == UNION {log[i].touched : i \in UNION {reach[r] : r \in revs}}

HistoryInternal(revs) ==
  {p \in HistoryPaths(revs) : p \in Listed \/ belongs_in_ops(p, NameRules)}

\* git show <base>:<path>
Show(d) == log[d.base].tree[d.path]

\* Mutant: the copies are looked for, not read.
UnconfirmedMissing == {d \in drops : ops.copy[d.path] = Gone}

Unconfirmed == {d \in drops : ops.copy[d.path] # Show(d)}

-------------------------------------------------------------------------------
(* The history and the ops checkout. *)

Touches(tree, parents) == {p \in Paths : \E t \in parents : t[p] # tree[p]}

Record(r, tree, parents, reached, merge) ==
  /\ step = "landing" /\ Len(log) < MaxCommits
  /\ log' = Append(log, [tree |-> tree, touched |-> Touches(tree, parents), merge |-> merge])
  /\ tip' = [tip EXCEPT ![r] = Len(log) + 1]
  /\ reach' = [reach EXCEPT ![r] = reached \cup {Len(log) + 1}]
  /\ UNCHANGED <<drops, ops, opsEdits, step, dropFile, held>>

Commit(r) ==
  \E p \in Paths, v \in Versions \cup {Gone} :
    /\ TipTree(r)[p] # v
    /\ Record(r, [TipTree(r) EXCEPT ![p] = v], {TipTree(r)}, reach[r], FALSE)

\* The side branch leaves main where it is.
Branch ==
  /\ step = "landing" /\ tip["side"] = 0 /\ tip["main"] # 0
  /\ tip' = [tip EXCEPT !["side"] = tip["main"]]
  /\ reach' = [reach EXCEPT !["side"] = reach["main"]]
  /\ UNCHANGED <<log, drops, ops, opsEdits, step, dropFile, held>>

\* Each path comes from either parent; one may be made anew in the merge.
Merge ==
  /\ ~(reach["side"] \subseteq reach["main"])
  /\ \E tree \in Trees :
       /\ \A p, q \in {x \in Paths : tree[x] \notin {TipTree("main")[x], TipTree("side")[x]}} :
            p = q
       /\ Record("main", tree, {TipTree("main"), TipTree("side")},
                 reach["main"] \cup reach["side"], TRUE)

\* Others change the ops checkout: a copy, the rules file, the checkout itself.
\* Until ops-confirm has passed it is as they left it, in any state.
EditOps ==
  /\ step \in {"confirmed", "listed", "rewritten"}
  /\ opsEdits < MaxOpsEdits
  /\ \/ \E p \in Paths, v \in Versions \cup {Gone, Other} : ops' = [ops EXCEPT !.copy[p] = v]
     \/ ops' = [ops EXCEPT !.rules = ~@]
     \/ ops' = [ops EXCEPT !.present = ~@]
  /\ ops' # ops
  /\ opsEdits' = opsEdits + 1
  /\ UNCHANGED <<log, tip, reach, drops, step, dropFile, held>>

-------------------------------------------------------------------------------
(* The operator. *)

Clone ==
  /\ step = "landing" /\ tip["main"] # 0
  /\ step' = "cloned"
  /\ ops' \in [present : BOOLEAN, rules : BOOLEAN, copy : Copies]
  /\ UNCHANGED <<log, tip, reach, drops, opsEdits, dropFile, held>>

BeforeRewrite == step \in {"cloned", "confirmed", "listed"}

\* The drop list is edited in the clone; from there on he starts over.
EditDrops ==
  /\ BeforeRewrite
  /\ \/ \E d \in [base : {NoBase} \cup 1..Len(log), path : Paths] :
          d \notin drops /\ Cardinality(drops) < MaxEntries /\ drops' = drops \cup {d}
     \/ \E d \in drops : drops' = drops \ {d}
  /\ step' = "cloned"
  /\ held' = EmptyTree
  /\ UNCHANGED <<log, tip, reach, ops, opsEdits, dropFile>>

\* main(["ops-confirm"]) exits 0.  An unreadable list, a base without its path
\* and an absent checkout all end it with 1.
OpsConfirmed ==
  /\ ReadDropsOk
  /\ ops.present
  /\ \A d \in drops : Show(d) # Gone
  /\ Unconfirmed = {}

OpsConfirm ==
  /\ BeforeRewrite
  /\ step' = IF OpsConfirmed THEN "confirmed" ELSE "cloned"
  /\ held' = IF OpsConfirmed THEN ops.copy ELSE EmptyTree
  /\ UNCHANGED <<log, tip, reach, drops, ops, opsEdits, dropFile>>

\* Mutant: it exits 0 whatever the drop list lacks.
ListDropsAnyway ==
  /\ step \in {"confirmed", "listed"}
  /\ IF ReadDropsOk /\ RulesOk
       THEN /\ dropFile' = [paths |-> HistoryInternal(Refs), named |-> ops.present]
            /\ step' = "listed"
       ELSE /\ dropFile' = [paths |-> {}, named |-> FALSE]
            /\ step' = "confirmed"
  /\ UNCHANGED <<log, tip, reach, drops, ops, opsEdits, held>>

\* main(["list"]) prints every internal path of every ref, those the drop list
\* lacks too, and exits 0 only if it lacks none.
ListDrops ==
  /\ step \in {"confirmed", "listed"}
  /\ IF ReadDropsOk /\ RulesOk
       THEN /\ dropFile' = [paths |-> HistoryInternal(Refs), named |-> ops.present]
            /\ step' = IF dropFile'.paths \subseteq Listed THEN "listed" ELSE "confirmed"
       ELSE /\ dropFile' = [paths |-> {}, named |-> FALSE]
            /\ step' = "confirmed"
  /\ UNCHANGED <<log, tip, reach, drops, ops, opsEdits, held>>

\* git filter-repo --invert-paths --paths-from-file: no commit of any ref
\* carries or touches the paths any more.
Without(c, paths) ==
  [c EXCEPT !.tree = [p \in Paths |-> IF p \in paths THEN Gone ELSE c.tree[p]],
            !.touched = @ \ paths]

FilterRepo ==
  /\ step = "listed"
  /\ step' = "rewritten"
  /\ log' = [i \in DOMAIN log |-> Without(log[i], dropFile.paths)]
  /\ UNCHANGED <<tip, reach, drops, ops, opsEdits, dropFile, held>>

\* main(["check"]) over HEAD exits 0.
CheckOk == ReadDropsOk /\ RulesOk /\ HistoryInternal({"main"}) = {}

Next ==
  \/ \E r \in Refs : Commit(r)
  \/ Branch
  \/ Merge
  \/ EditOps
  \/ Clone
  \/ EditDrops
  \/ OpsConfirm
  \/ ListDrops
  \/ FilterRepo

Spec == Init /\ [][Next]_vars

-------------------------------------------------------------------------------
Steps == {"landing", "cloned", "confirmed", "listed", "rewritten"}

(* The operator gets past list only with a file of paths the drop list has   *)
(* (history_drop.py: list exits 1 on a path the list lacks).                 *)
TypeOK ==
  /\ log \in Seq([tree : Trees, touched : SUBSET Paths, merge : BOOLEAN])
  /\ tip \in [Refs -> 0..Len(log)]
  /\ reach \in [Refs -> SUBSET (1..Len(log))]
  /\ drops \subseteq [base : Nat, path : Paths]
  /\ \A d \in drops : d.base \in 0..Len(log)
  /\ ops \in [present : BOOLEAN, rules : BOOLEAN, copy : Copies]
  /\ opsEdits \in Nat
  /\ step \in Steps
  /\ dropFile \in [paths : SUBSET Paths, named : BOOLEAN]
  /\ held \in Copies
  /\ step \in {"listed", "rewritten"} => dropFile.paths \subseteq Listed

CarriedBy(r) == {p \in Paths : \E i \in reach[r] : log[i].tree[p] # Gone}
Carried == CarriedBy("main") \cup CarriedBy("side")

\* "The history rewrite drops only what freereac-ops holds"
\* (tests/test_history_drop.py): a path the rewrite takes out of the history was
\* on the drop list, and the last ops-confirm that passed saw a copy of it
\* identical to its version at the base, whatever was edited in between.
NothingDroppedUnconfirmed ==
  [][\A p \in Carried \ Carried' :
       /\ held[p] # Gone
       /\ \E d \in drops : d.path = p /\ Show(d) = held[p]]_vars

\* A rewrite whose list was made with the name rules at hand leaves no internal
\* path on any ref: none added and deleted again, none a merge brought in.
RewriteLeavesNoInternal ==
  step = "rewritten" =>
    \A p \in Carried : ~(p \in Listed \/ belongs_in_ops(p, IF dropFile.named THEN NamePaths ELSE {}))

\* When check passes, no commit of main carries a path the drop list or the
\* patterns class as internal, nor one of the name rules if the ops checkout is
\* there (it says RULES-ABSENT if not): BUILDING.md's "confirms the public
\* history carries no internal material".
CheckOkMeansClean ==
  step # "landing" /\ CheckOk =>
    \A p \in CarriedBy("main") : ~(p \in Listed \/ belongs_in_ops(p, NameRules))
=============================================================================
