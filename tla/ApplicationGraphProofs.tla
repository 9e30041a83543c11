------------------------ MODULE ApplicationGraphProofs ------------------------
(***************************************************************************)
(* Theorems about ApplicationGraph, for every catalog, whatever operators  *)
(* supply, force, uninstall or resume: rows and plans keep their types,    *)
(* what a plan has still to do agrees with what dbpm has read, upgrades go *)
(* through their minors, scripts find what they need, plans deliver, and   *)
(* no step takes from an application what it depends on, except where      *)
(* DependenciesKept says that no guard of dbpm looks.                      *)
(***************************************************************************)
EXTENDS ApplicationGraph, FiniteSetTheorems, TLAPS

USE DEF Idle, Removing

-----------------------------------------------------------------------------
(* Versions *)

\* Nothing is older than a version and newer than it.
LEMMA LessAsymmetric ==
    ASSUME NEW v \in Version, NEW w \in Version, Less(v, w)
    PROVE  ~Less(w, v)
  BY DEF Less, Version

\* Nothing is older than what NotInstalled stands for.
LEMMA NothingOlder ==
    ASSUME NEW v \in Version
    PROVE  ~Less(v, NotInstalled.version)
  BY DEF Less, Version, NotInstalled

LEMMA NotOlderThanItself ==
    ASSUME NEW v \in Version
    PROVE  ~Less(v, v)
  BY DEF Less, Version

-----------------------------------------------------------------------------
(* Types *)

Row == [version: Version, status: {"-", "R", "F", "C"}, needs: SUBSET Need]

LEMMA NotInstalledType == NotInstalled \in Row /\ NotInstalled.status = "-"
  BY DEF NotInstalled, Row, Version

LEMMA SourceFields ==
    ASSUME NEW s \in Catalog
    PROVE  /\ s.app \in App /\ s.version \in Version
           /\ s.needs \in SUBSET Need
  BY CatalogAssumption DEF Source

\* What a command that has passed its checks carries out.
LEMMA SubmitPlan ==
    ASSUME NEW mode \in Mode, NEW graph \in BOOLEAN, NEW force \in BOOLEAN,
           NEW root \in Catalog, NEW D \in Supplies,
           Submit(mode, graph, force, root, D)
    PROVE  /\ plan = NoPlan /\ registry' = registry /\ running' = running
           /\ plan' \in Plan /\ plan'.root = {root}
           /\ plan'.mode = mode /\ plan'.graph = graph
           /\ plan'.known = Known(root, D) /\ ~plan'.chain
           /\ plan'.force = force
           /\ plan'.todo \subseteq Catalog
           /\ \A s, t \in plan'.todo : s.app = t.app => s = t
           /\ plan'.doomed = Doomed(mode, graph, root, plan'.todo)
<1> DEFINE known == Known(root, D)
           seen  == Seen(known)
<1>1. PICK T \in Resolutions(mode, graph, seen, root, D) :
          /\ PlanPasses(mode, graph, force, seen, known, root, T)
          /\ plan' = [mode |-> mode, root |-> {root}, todo |-> T,
                      doomed |-> Doomed(mode, graph, root, T), known |-> known,
                      single |-> root.needs = {} /\ D = {}, graph |-> graph,
                      chain |-> FALSE, force |-> force]
  BY DEF Submit
<1>2. /\ T \subseteq D \cup {root} \cup {s \in Catalog : s.origin = "registry"}
      /\ \A s, t \in T : s.app = t.app => s = t
  BY DEF Resolutions
<1>3. T \subseteq Catalog
  BY <1>2, CatalogAssumption
<1>4. Doomed(mode, graph, root, T) \in SUBSET App
  BY DEF Doomed
<1>5. known \in SUBSET App
  <2>1. \A d \in D : d \in Catalog
    BY CatalogAssumption
  <2> QED BY <2>1, SourceFields DEF Known, Need
<1>6. plan' \in Plan
  <2>1. (root.needs = {} /\ D = {}) \in BOOLEAN
    OBVIOUS
  <2> HIDE DEF known, seen
  <2> QED BY <1>1, <1>3, <1>4, <1>5, <2>1 DEF Plan
<1>7. /\ plan'.todo = T /\ plan'.mode = mode /\ plan'.graph = graph
      /\ plan'.root = {root} /\ plan'.known = known /\ plan'.chain = FALSE
      /\ plan'.force = force /\ plan'.doomed = Doomed(mode, graph, root, T)
  BY <1>1
<1> QED BY <1>1, <1>2, <1>3, <1>6, <1>7 DEF Submit

\* What it has passed.
LEMMA SubmitPasses ==
    ASSUME NEW mode \in Mode, NEW graph \in BOOLEAN, NEW force \in BOOLEAN,
           NEW root \in Catalog, NEW D \in Supplies,
           Submit(mode, graph, force, root, D)
    PROVE  /\ plan'.todo \in Resolutions(mode, graph, Seen(Known(root, D)), root, D)
           /\ PlanPasses(mode, graph, force, Seen(Known(root, D)), Known(root, D),
                         root, plan'.todo)
BY DEF Submit

LEMMA TypesStart == Init => TypeOK
<1> SUFFICES ASSUME Init PROVE TypeOK
  OBVIOUS
<1>1. registry \in [App -> Row]
  BY NotInstalledType DEF Init
<1>2. \A a \in App : registry[a] = NotInstalled
  BY DEF Init
<1> QED BY <1>1, <1>2, NotInstalledType DEF Init, TypeOK, Row

\* A command changes nothing in Core.
LEMMA PlanTypes ==
    ASSUME TypeOK, plan = NoPlan, registry' = registry, running' = running,
           plan' \in Plan \/ plan' = NoPlan
    PROVE  TypeOK'
<1>1. running = {}
  BY DEF TypeOK, NoPlan
<1> QED BY <1>1 DEF TypeOK

\* The plan of a command.
LEMMA NewPlanTypes ==
    ASSUME NEW mode \in Mode, NEW root \in Catalog, NEW T \in SUBSET Catalog
    PROVE  \A chain \in BOOLEAN : Solo(mode, root, T, chain) \in Plan
  BY SourceFields DEF Plan, Solo

LEMMA ChainTypes ==
    ASSUME NEW root \in Catalog
    PROVE  Milestones(registry[root.app].version, root) \cup {root} \in SUBSET Catalog
  BY DEF Milestones

\* Replacing one row by a row that is registered, or by none.
LEMMA RowTypes ==
    ASSUME TypeOK, NEW a \in App, NEW r \in Row,
           r.status = "-" <=> r = NotInstalled,
           registry' = [registry EXCEPT ![a] = r]
    PROVE  /\ registry' \in [App -> Row]
           /\ \A b \in App : registry'[b].status = "-" <=> registry'[b] = NotInstalled
           /\ registry'[a] = r
           /\ \A b \in App \ {a} : registry'[b] = registry[b]
<1>1. registry \in [App -> Row]
  BY DEF TypeOK, Row
<1>2. /\ registry' \in [App -> Row] /\ registry'[a] = r
      /\ \A b \in App \ {a} : registry'[b] = registry[b]
  BY <1>1
<1> QED BY <1>2 DEF TypeOK

\* The row of a script that has ended.
LEMMA StatusTypes ==
    ASSUME TypeOK, NEW s \in running, NEW status \in {"R", "F", "C"},
           registry' = [registry EXCEPT ![s.app].status = status]
    PROVE  /\ s \in Catalog /\ s.app \in App
           /\ registry' \in [App -> Row]
           /\ \A b \in App : registry'[b].status = "-" <=> registry'[b] = NotInstalled
           /\ registry'[s.app].version = registry[s.app].version
           /\ registry'[s.app].status = status
           /\ \A b \in App \ {s.app} : registry'[b] = registry[b]
<1>1. s \in Catalog
  BY DEF TypeOK, Plan, NoPlan
<1>2. s.app \in App
  BY <1>1, SourceFields
<1> DEFINE r == [registry[s.app] EXCEPT !.status = status]
<1>3. registry[s.app] \in Row
  BY <1>2 DEF TypeOK, Row
<1>4. r \in Row /\ r.status = status /\ r.version = registry[s.app].version
  BY <1>3 DEF Row
<1>5. registry' = [registry EXCEPT ![s.app] = r]
  BY <1>2 DEF TypeOK
<1>6. r.status = "-" <=> r = NotInstalled
  BY <1>4, NotInstalledType
<1> HIDE DEF r
<1> QED BY <1>1, <1>2, <1>4, <1>5, <1>6, RowTypes

LEMMA RowVersion ==
    ASSUME TypeOK, NEW a \in App
    PROVE  [registry[a] EXCEPT !.status = "C"].version = registry[a].version
  BY DEF TypeOK

LEMMA AfterTypes ==
    ASSUME plan \in Plan, NEW s \in Catalog
    PROVE  After(s) \in Plan \/ After(s) = NoPlan
  BY DEF After, Plan

LEMMA TypesStep == TypeOK /\ [Next]_vars => TypeOK'
<1> SUFFICES ASSUME TypeOK, [Next]_vars PROVE TypeOK'
  OBVIOUS
<1>1. ASSUME NEW mode \in Mode, NEW graph \in BOOLEAN, NEW root \in Catalog,
             NEW force \in BOOLEAN, NEW D \in Supplies,
             Submit(mode, graph, force, root, D)
      PROVE  TypeOK'
  BY <1>1, SubmitPlan, PlanTypes
<1>2. ASSUME NEW root \in Catalog, UpgradeChain(root) PROVE TypeOK'
  <2> DEFINE T == Milestones(registry[root.app].version, root) \cup {root}
  <2>1. T \in SUBSET Catalog
    BY ChainTypes
  <2>2. /\ plan = NoPlan /\ registry' = registry /\ running' = running
        /\ plan' = Solo("upgrade", root, Milestones(registry[root.app].version, root)
                                          \cup {root}, TRUE)
    BY <1>2, RowVersion DEF UpgradeChain
  <2> QED BY <2>1, <2>2, NewPlanTypes, PlanTypes DEF Mode
<1>3. ASSUME NEW root \in Catalog, UninstallRecorded(root) \/ Resume(root)
      PROVE  TypeOK'
  <2>1. PICK mode \in Mode :
            /\ plan = NoPlan /\ registry' = registry /\ running' = running
            /\ plan' = Solo(mode, root, {root}, FALSE)
    BY <1>3 DEF UninstallRecorded, Resume, Mode
  <2>2. plan' \in Plan
    BY <2>1, NewPlanTypes
  <2> QED BY <2>1, <2>2, PlanTypes
<1>4. ASSUME ResetEnvironment PROVE TypeOK'
  <2>1. plan' \in Plan
    BY <1>4 DEF ResetEnvironment, Plan, Mode
  <2> QED BY <1>4, <2>1, PlanTypes DEF ResetEnvironment
<1>5. ASSUME NEW a \in App, Remove(a) PROVE TypeOK'
  <2>1. plan \in Plan
    BY <1>5 DEF Remove, TypeOK, NoPlan
  <2>2. plan' \in Plan \/ plan' = NoPlan
    BY <1>5, <2>1 DEF Remove, Plan
  <2>3. /\ registry' \in [App -> Row]
        /\ \A b \in App : registry'[b].status = "-" <=> registry'[b] = NotInstalled
    BY <1>5, NotInstalledType, RowTypes DEF Remove
  <2>4. running' = {}
    BY <1>5 DEF Remove
  <2> QED BY <2>2, <2>3, <2>4 DEF TypeOK, Row
<1>6. ASSUME NEW s \in Catalog, ScriptStarts(s) PROVE TypeOK'
  <2>1. s.app \in App /\ s.version \in Version /\ s.needs \in SUBSET Need
    BY SourceFields
  <2> DEFINE r == [version |-> s.version, status |-> "R", needs |-> s.needs]
  <2>2. r \in Row /\ r.status = "R" /\ r # NotInstalled
    BY <2>1, NotInstalledType DEF Row
  <2>3. registry' = [registry EXCEPT ![s.app] = r]
    BY <1>6 DEF ScriptStarts
  <2> HIDE DEF r
  <2>4. /\ registry' \in [App -> Row]
        /\ \A b \in App : registry'[b].status = "-" <=> registry'[b] = NotInstalled
        /\ registry'[s.app] = r
    BY <2>1, <2>2, <2>3, RowTypes
  <2>5. running' = {s} /\ plan' = plan /\ s \in plan.todo
    BY <1>6 DEF ScriptStarts, Ready
  <2> QED BY <2>2, <2>4, <2>5 DEF TypeOK, Row
<1>7. ASSUME NEW s \in Catalog, ScriptEnds(s) \/ ScriptFails(s) PROVE TypeOK'
  <2>1. PICK status \in {"R", "F", "C"} :
            registry' = [registry EXCEPT ![s.app].status = status]
    BY <1>7 DEF ScriptEnds, ScriptFails
  <2>2. s \in running /\ running' = {}
    BY <1>7 DEF ScriptEnds, ScriptFails
  <2>3. plan \in Plan
    BY <2>2 DEF TypeOK, NoPlan
  <2>4. plan' \in Plan \/ plan' = NoPlan
    BY <1>7, <2>3, AfterTypes DEF ScriptEnds, ScriptFails
  <2>5. /\ registry' \in [App -> Row]
        /\ \A b \in App : registry'[b].status = "-" <=> registry'[b] = NotInstalled
    BY <2>1, <2>2, StatusTypes
  <2> QED BY <2>2, <2>4, <2>5 DEF TypeOK, Row
<1>8. ASSUME NEW s \in Catalog, UninstallRuns(s) PROVE TypeOK'
  <2>1. s.app \in App
    BY SourceFields
  <2>2. plan \in Plan /\ running' = {}
    BY <1>8 DEF UninstallRuns, TypeOK, NoPlan
  <2>3. plan' \in Plan \/ plan' = NoPlan
    BY <1>8, <2>2, AfterTypes DEF UninstallRuns
  <2>4. /\ registry' \in [App -> Row]
        /\ \A b \in App : registry'[b].status = "-" <=> registry'[b] = NotInstalled
    BY <1>8, <2>1, NotInstalledType, RowTypes DEF UninstallRuns
  <2> QED BY <2>2, <2>3, <2>4 DEF TypeOK, Row
<1>9. ASSUME Interrupted PROVE TypeOK'
  BY <1>9 DEF Interrupted, TypeOK, NoPlan
<1>10. CASE UNCHANGED vars
  BY <1>10 DEF vars, TypeOK
<1> QED BY <1>1, <1>2, <1>3, <1>4, <1>5, <1>6, <1>7, <1>8, <1>9, <1>10 DEF Next,
           Install, Upgrade, Reinstall, ReinstallGraph, Uninstall, Mode

\* Rows, plans and the running script keep their types, and a script runs
\* only for an application that is registered as running.
THEOREM TypesKept == Spec => []TypeOK
  BY TypesStart, TypesStep, PTL DEF Spec

-----------------------------------------------------------------------------
(* What a plan has still to do agrees with what is registered *)

\* Of what dbpm knows an installation finds nothing, and a reinstallation
\* neither once its removals are done; an upgrade finds nothing newer than what
\* it brings; a resume finds what is not complete; a reset deploys nothing.
TodoInv ==
    /\ plan.mode \in {"install", "reinstall"} =>
         /\ \A s, t \in plan.todo : s.app = t.app => s = t
         /\ \A s \in plan.todo \ running :
                s.app \in plan.known \ plan.doomed => registry[s.app] = NotInstalled
    /\ plan.mode = "upgrade" =>
         /\ plan.doomed = {}
         /\ \A s \in plan.todo \ running : ~Less(s.version, registry[s.app].version)
    /\ plan.mode = "resume" =>
         /\ \A s, t \in plan.todo : s = t
         /\ plan.doomed = {}
         /\ \A s \in plan.todo \ running : registry[s.app].status \in {"R", "F"}
    /\ plan.mode = "reset" => plan.todo = {}

LEMMA TodoStart == Init => TodoInv
  BY DEF Init, TodoInv, NoPlan

\* The dependents of a that a plan for the sources T is checked against.
Others(a, graph, T) == Dependents(a) \ (IF graph THEN {t.app : t \in T} ELSE {})

\* What a command deploys and dbpm has read, and all that an upgrade deploys,
\* is checked against the registered row and all its dependents.
LEMMA SubmitChecked ==
    ASSUME TypeOK,
           NEW mode \in Mode, NEW graph \in BOOLEAN, NEW force \in BOOLEAN,
           NEW root \in Catalog, NEW D \in Supplies,
           Submit(mode, graph, force, root, D),
           NEW s \in plan'.todo,
           s.app \in Known(root, D) \/ ChildMode(mode, graph, root, s) = "upgrade"
    PROVE  LET m    == ChildMode(mode, graph, root, s)
               deps == Others(s.app, graph, plan'.todo)
           IN  /\ s \in Catalog /\ s.app \in App /\ s.app \in Known(root, D)
               /\ Seen(Known(root, D))[s.app] = registry[s.app]
               /\ StateAllows(m, registry[s.app], s, deps)
               /\ MajorAllows(m, registry[s.app], s, deps, force)
<1> DEFINE m == ChildMode(mode, graph, root, s)
           known == Known(root, D)
           seen == Seen(known)
           deps == SeenDependents(known, s.app)
                     \ (IF graph THEN {t.app : t \in plan'.todo} ELSE {})
<1>1. s \in Catalog /\ s.app \in App
  BY SubmitPlan, SourceFields
<1>2. StateAllows(m, seen[s.app], s, deps) /\ MajorAllows(m, seen[s.app], s, deps, force)
  <2>1. PlanPasses(mode, graph, force, seen, known, root, plan'.todo)
    BY SubmitPasses
  <2> HIDE DEF seen, known
  <2> QED BY <2>1 DEF PlanPasses
<1>3. s.app \in known
  <2>1. CASE m = "upgrade"
    <3>1. seen[s.app].status = "C"
      BY <1>2, <2>1 DEF StateAllows
    <3> QED BY <1>1, <3>1, NotInstalledType DEF Seen
  <2> QED BY <2>1
<1>4. seen[s.app] = registry[s.app] /\ SeenDependents(known, s.app) = Dependents(s.app)
  BY <1>1, <1>3 DEF Seen, SeenDependents
<1>5. deps = Others(s.app, graph, plan'.todo)
  BY <1>4 DEF Others
<1> HIDE DEF m, seen, known, deps
<1> QED BY <1>1, <1>2, <1>3, <1>4, <1>5 DEF m, seen, known

LEMMA SubmitTodo ==
    ASSUME TypeOK,
           NEW mode \in {"install", "upgrade", "reinstall", "uninstall"},
           NEW graph \in BOOLEAN, graph => mode = "reinstall", NEW force \in BOOLEAN,
           NEW root \in Catalog, NEW D \in Supplies,
           Submit(mode, graph, force, root, D)
    PROVE  TodoInv'
<1>0. mode \in Mode
  BY DEF Mode
<1>1. /\ mode \in Mode /\ plan'.mode = mode /\ registry' = registry
      /\ plan'.todo \subseteq Catalog /\ plan'.known = Known(root, D)
      /\ \A s, t \in plan'.todo : s.app = t.app => s = t
      /\ plan'.doomed = Doomed(mode, graph, root, plan'.todo)
  BY <1>0, SubmitPlan
<1>2. ASSUME mode \in {"install", "reinstall"}, NEW s \in plan'.todo,
             s.app \in Known(root, D), s.app \notin plan'.doomed
      PROVE  registry[s.app] = NotInstalled
  <2>1. ChildMode(mode, graph, root, s) = "install"
    <3>1. s.app \in App
      BY <1>1, SourceFields
    <3>2. CASE mode = "install"
      BY <3>2 DEF ChildMode
    <3>3. CASE mode = "reinstall"
      <4>1. ~graph /\ s.app # root.app
        BY <1>1, <1>2, <3>1, <3>3 DEF Doomed
      <4> QED BY <3>3, <4>1 DEF ChildMode
    <3> QED BY <1>2, <3>2, <3>3
  <2>2. StateAllows("install", registry[s.app], s, Others(s.app, graph, plan'.todo))
    BY <1>1, <1>2, <2>1, SubmitChecked
  <2> QED BY <2>2 DEF StateAllows
<1>3. ASSUME mode = "upgrade", NEW s \in plan'.todo
      PROVE  ~Less(s.version, registry[s.app].version)
  <2>1. ChildMode(mode, graph, root, s) = "upgrade"
    BY <1>3 DEF ChildMode
  <2>2. /\ StateAllows("upgrade", registry[s.app], s, Others(s.app, graph, plan'.todo))
        /\ s \in Catalog /\ s.app \in App
    BY <1>1, <2>1, SubmitChecked
  <2>3. Less(registry[s.app].version, s.version)
    BY <2>2 DEF StateAllows
  <2>4. s.version \in Version /\ registry[s.app].version \in Version
    BY <2>2, SourceFields DEF TypeOK
  <2> QED BY <2>3, <2>4, LessAsymmetric
<1>4. mode = "upgrade" => plan'.doomed = {}
  BY <1>1 DEF Doomed
<1> QED BY <1>1, <1>2, <1>3, <1>4 DEF TodoInv

\* What is left of a plan when one of its sources is done.
LEMMA AfterPlan ==
    ASSUME plan \in Plan, NEW s \in Catalog, plan' = After(s)
    PROVE  \/ plan' = NoPlan
           \/ /\ plan'.mode = plan.mode /\ plan'.doomed = plan.doomed
              /\ plan'.known = plan.known /\ plan'.todo = plan.todo \ {s}
  BY DEF After, Plan

\* A script that ends, well or not.
LEMMA TodoEnds ==
    ASSUME TypeOK, TodoInv, NEW s \in running, running' = {},
           NEW status \in {"R", "F", "C"},
           registry' = [registry EXCEPT ![s.app].status = status],
           plan' = NoPlan \/ plan' = After(s)
    PROVE  TodoInv'
<1>1. /\ s \in Catalog /\ plan \in Plan /\ s \in plan.todo /\ running = {s}
  BY DEF TypeOK, Plan, NoPlan
<1>2. CASE plan' = NoPlan
  BY <1>2 DEF TodoInv, NoPlan
<1>3. CASE /\ plan'.mode = plan.mode /\ plan'.doomed = plan.doomed
           /\ plan'.known = plan.known /\ plan'.todo = plan.todo \ {s}
  <2>1. /\ registry'[s.app].version = registry[s.app].version
        /\ \A b \in App \ {s.app} : registry'[b] = registry[b]
    BY StatusTypes
  <2>2. \A t \in plan'.todo : /\ t \in plan.todo \ running /\ t # s
                              /\ t.app \in App
    BY <1>1, <1>3, SourceFields DEF Plan
  <2>3. \A t \in plan'.todo : registry'[t.app].version = registry[t.app].version
    BY <2>1, <2>2
  <2> QED BY <1>1, <1>3, <2>1, <2>2, <2>3 DEF TodoInv
<1> QED BY <1>1, <1>2, <1>3, AfterPlan

LEMMA TodoRemoves ==
    ASSUME TypeOK, TodoInv, NEW a \in App, Remove(a)
    PROVE  TodoInv'
<1>1. /\ plan \in Plan /\ a \in plan.doomed /\ running = {} /\ running' = {}
  BY DEF Remove, TypeOK, NoPlan
<1>2. CASE plan' = NoPlan
  BY <1>2 DEF TodoInv, NoPlan
<1>3. CASE plan' = [plan EXCEPT !.doomed = @ \ {a}]
  <2>1. /\ plan'.mode = plan.mode /\ plan'.todo = plan.todo
        /\ plan'.known = plan.known /\ plan'.doomed = plan.doomed \ {a}
    BY <1>1, <1>3 DEF Plan
  <2>2. /\ registry'[a] = NotInstalled
        /\ \A b \in App \ {a} : registry'[b] = registry[b]
    BY NotInstalledType, RowTypes DEF Remove
  <2>3. \A t \in plan'.todo : t.app \in App
    BY <1>1, <2>1, SourceFields DEF Plan
  <2> QED BY <1>1, <2>1, <2>2, <2>3 DEF TodoInv
<1> QED BY <1>2, <1>3 DEF Remove

LEMMA TodoStarts ==
    ASSUME TypeOK, TodoInv, NEW s \in Catalog, ScriptStarts(s)
    PROVE  TodoInv'
<1>1. /\ plan \in Plan /\ plan' = plan /\ s \in plan.todo
      /\ running = {} /\ running' = {s} /\ s.app \in App
  BY SourceFields DEF ScriptStarts, Ready, TypeOK, NoPlan
<1>2. /\ registry'[s.app].version = s.version
      /\ \A b \in App \ {s.app} : registry'[b] = registry[b]
  BY <1>1 DEF ScriptStarts, TypeOK
<1>3. \A t \in plan.todo : t.app \in App
  BY <1>1, SourceFields DEF Plan
<1>4. ASSUME plan.mode = "upgrade", NEW t \in plan.todo \ {s}
      PROVE  ~Less(t.version, registry'[t.app].version)
  <2>1. CASE t.app = s.app
    <3>1. ~Less(t.version, s.version)
      BY <1>4, <2>1 DEF ScriptStarts, Ready
    <3> QED BY <1>2, <2>1, <3>1
  <2>2. CASE t.app # s.app
    BY <1>1, <1>2, <1>3, <1>4, <2>2 DEF TodoInv
  <2> QED BY <2>1, <2>2
<1> QED BY <1>1, <1>2, <1>3, <1>4 DEF TodoInv

LEMMA TodoStep ==
    ASSUME TypeOK, TodoInv, [Next]_vars
    PROVE  TodoInv'
<1>1. ASSUME NEW mode \in {"install", "upgrade", "reinstall", "uninstall"},
             NEW graph \in BOOLEAN, graph => mode = "reinstall", NEW force \in BOOLEAN,
             NEW root \in Catalog, NEW D \in Supplies,
             Submit(mode, graph, force, root, D)
      PROVE  TodoInv'
  BY <1>1, SubmitTodo
<1>2. ASSUME NEW root \in Catalog, UpgradeChain(root) PROVE TodoInv'
  <2> DEFINE row == [registry[root.app] EXCEPT !.status = "C"]
             T   == Milestones(row.version, root) \cup {root}
  <2>1. /\ \A s \in T : StateAllows("upgrade", row, s, {})
        /\ plan'.mode = "upgrade" /\ plan'.todo = T /\ plan'.doomed = {}
        /\ registry' = registry
    BY <1>2 DEF UpgradeChain, Solo
  <2>2. row.version = registry[root.app].version /\ row.version \in Version
    BY SourceFields, RowVersion DEF TypeOK
  <2>3. ASSUME NEW s \in T PROVE ~Less(s.version, registry[s.app].version)
    <3>1. s.app = root.app /\ s \in Catalog
      BY DEF Milestones
    <3>2. Less(row.version, s.version)
      BY <2>1 DEF StateAllows
    <3> QED BY <2>2, <3>1, <3>2, SourceFields, LessAsymmetric
  <2> HIDE DEF T
  <2> QED BY <2>1, <2>3 DEF TodoInv
<1>3. ASSUME NEW root \in Catalog, UninstallRecorded(root) PROVE TodoInv'
  BY <1>3 DEF UninstallRecorded, Solo, TodoInv
<1>4. ASSUME NEW root \in Catalog, Resume(root) PROVE TodoInv'
  <2>1. /\ plan'.mode = "resume" /\ plan'.todo = {root} /\ plan'.doomed = {}
        /\ registry' = registry
    BY <1>4 DEF Resume, Solo
  <2>2. registry[root.app].status \in {"R", "F"}
    BY <1>4 DEF Resume, StateAllows
  <2> QED BY <2>1, <2>2 DEF TodoInv
<1>5. ASSUME ResetEnvironment PROVE TodoInv'
  BY <1>5 DEF ResetEnvironment, TodoInv
<1>6. ASSUME NEW a \in App, Remove(a) PROVE TodoInv'
  BY <1>6, TodoRemoves
<1>7. ASSUME NEW s \in Catalog, ScriptStarts(s) PROVE TodoInv'
  BY <1>7, TodoStarts
<1>8. ASSUME NEW s \in Catalog, ScriptEnds(s) \/ ScriptFails(s) PROVE TodoInv'
  BY <1>8, TodoEnds DEF ScriptEnds, ScriptFails
<1>9. ASSUME NEW s \in Catalog, UninstallRuns(s) PROVE TodoInv'
  <2>1. plan \in Plan /\ plan.mode = "uninstall" /\ plan' = After(s)
    BY <1>9 DEF UninstallRuns, TypeOK, NoPlan
  <2>2. plan' = NoPlan \/ plan'.mode = "uninstall"
    BY <2>1, AfterPlan
  <2> QED BY <2>2 DEF TodoInv, NoPlan
<1>10. ASSUME Interrupted PROVE TodoInv'
  BY <1>10 DEF Interrupted, TodoInv, NoPlan
<1>11. CASE UNCHANGED vars
  BY <1>11 DEF vars, TodoInv
<1> QED BY <1>1, <1>2, <1>3, <1>4, <1>5, <1>6, <1>7, <1>8, <1>9, <1>10, <1>11
        DEF Next, Install, Upgrade, Reinstall, ReinstallGraph, Uninstall

-----------------------------------------------------------------------------
(* What a plan may do to what is registered *)

\* A step that starts no script leaves every row its version, or removes it,
\* and no row of it becomes running.
LEMMA OtherSteps ==
    ASSUME TypeOK, [Next]_vars, ~\E s \in Catalog : ScriptStarts(s), NEW a \in App
    PROVE  /\ \/ registry'[a].version = registry[a].version
              \/ registry'[a] = NotInstalled
           /\ ~(registry[a].status = "C" /\ registry'[a].status = "R")
<1>1. CASE registry' = registry
  BY <1>1
<1>2. ASSUME NEW b \in App, registry' = [registry EXCEPT ![b] = NotInstalled]
      PROVE  /\ \/ registry'[a].version = registry[a].version
                \/ registry'[a] = NotInstalled
             /\ ~(registry[a].status = "C" /\ registry'[a].status = "R")
  <2>1. registry'[b] = NotInstalled /\ \A c \in App \ {b} : registry'[c] = registry[c]
    BY <1>2, NotInstalledType, RowTypes
  <2> QED BY <2>1, NotInstalledType
<1>3. ASSUME NEW s \in running, NEW status \in {"R", "F", "C"},
             registry' = [registry EXCEPT ![s.app].status = status]
      PROVE  /\ \/ registry'[a].version = registry[a].version
                \/ registry'[a] = NotInstalled
             /\ ~(registry[a].status = "C" /\ registry'[a].status = "R")
  <2>1. /\ registry'[s.app].version = registry[s.app].version
        /\ \A c \in App \ {s.app} : registry'[c] = registry[c]
    BY <1>3, StatusTypes
  <2>2. registry[s.app].status = "R"
    BY DEF TypeOK
  <2> QED BY <2>1, <2>2
<1>4. ASSUME NEW mode \in Mode, NEW graph \in BOOLEAN, NEW root \in Catalog,
             NEW force \in BOOLEAN, NEW D \in Supplies,
             Submit(mode, graph, force, root, D)
      PROVE  registry' = registry
  BY <1>4 DEF Submit
<1>5. ASSUME NEW root \in Catalog,
             UpgradeChain(root) \/ UninstallRecorded(root) \/ Resume(root)
      PROVE  registry' = registry
  BY <1>5 DEF UpgradeChain, UninstallRecorded, Resume
<1>6. CASE ResetEnvironment \/ Interrupted \/ UNCHANGED vars
  BY <1>1, <1>6 DEF ResetEnvironment, Interrupted, vars
<1>7. ASSUME NEW b \in App, Remove(b)
      PROVE  registry' = [registry EXCEPT ![b] = NotInstalled]
  BY <1>7 DEF Remove
<1>8. ASSUME NEW s \in Catalog, UninstallRuns(s)
      PROVE  s.app \in App /\ registry' = [registry EXCEPT ![s.app] = NotInstalled]
  BY <1>8, SourceFields DEF UninstallRuns
<1>9. ASSUME NEW s \in Catalog, ScriptEnds(s) \/ ScriptFails(s)
      PROVE  s \in running /\ \E status \in {"R", "F", "C"} :
                 registry' = [registry EXCEPT ![s.app].status = status]
  BY <1>9 DEF ScriptEnds, ScriptFails
<1> QED BY <1>1, <1>2, <1>3, <1>4, <1>5, <1>6, <1>7, <1>8, <1>9 DEF Next,
           Install, Upgrade, Reinstall, ReinstallGraph, Uninstall, Mode

\* What a script may find in its row when it starts.
LEMMA ScriptFinds ==
    ASSUME TypeOK, TodoInv, NEW s \in Catalog, ScriptStarts(s)
    PROVE  /\ s.app \in App
           /\ registry'[s.app].version = s.version
           /\ \A b \in App \ {s.app} : registry'[b] = registry[b]
           /\ s.app \in plan.known =>
                /\ plan.mode # "resume" => ~Less(s.version, registry[s.app].version)
                /\ registry[s.app].status = "C" => plan.mode = "upgrade"
<1>1. /\ plan \in Plan /\ s \in plan.todo \ running
      /\ s.app \in App /\ s.version \in Version
  BY SourceFields DEF ScriptStarts, Ready, TypeOK, NoPlan
<1>2. /\ registry'[s.app].version = s.version
      /\ \A b \in App \ {s.app} : registry'[b] = registry[b]
  BY <1>1 DEF ScriptStarts, TypeOK
<1>3. s.app \notin plan.doomed
  BY DEF ScriptStarts
<1>4. plan.mode \in {"install", "reinstall", "upgrade", "resume"}
  BY <1>1 DEF ScriptStarts, Plan, Mode, TodoInv
<1>5. CASE plan.mode \in {"install", "reinstall"}
  <2>1. s.app \in plan.known => registry[s.app] = NotInstalled
    BY <1>1, <1>3, <1>5 DEF TodoInv
  <2> QED BY <1>1, <1>2, <2>1, NothingOlder, NotInstalledType
<1>6. CASE plan.mode = "upgrade"
  BY <1>1, <1>2, <1>6 DEF TodoInv
<1>7. CASE plan.mode = "resume"
  <2>1. registry[s.app].status \in {"R", "F"}
    BY <1>1, <1>7 DEF TodoInv
  <2> QED BY <1>1, <1>2, <1>7, <2>1
<1> QED BY <1>4, <1>5, <1>6, <1>7

LEMMA Invariants == Spec => [](TypeOK /\ TodoInv)
<1>1. Init => TypeOK /\ TodoInv
  BY TypesStart, TodoStart
<1>2. TypeOK /\ TodoInv /\ [Next]_vars => (TypeOK /\ TodoInv)'
  BY TypesStep, TodoStep
<1> QED BY <1>1, <1>2, PTL DEF Spec

\* No application goes back to an older version other than by being removed
\* (_enforce_installed_state on every package of a plan, and the order of the
\* chain's steps), by a resume with the source of another version, or because
\* dbpm has not asked Core about it; for every catalog.
THEOREM NoDowngrades == Spec => NeverDowngraded
<1> DEFINE Kept == \A a \in App : Less(registry'[a].version, registry[a].version)
              => \/ registry'[a] = NotInstalled
                 \/ plan.mode = "resume" \/ a \notin plan.known
<1>1. TypeOK /\ TodoInv /\ [Next]_vars => [Kept]_vars
  <2> SUFFICES ASSUME TypeOK, TodoInv, [Next]_vars, NEW a \in App,
                      Less(registry'[a].version, registry[a].version),
                      plan.mode # "resume", a \in plan.known
               PROVE  registry'[a] = NotInstalled
    OBVIOUS
  <2>1. registry[a].version \in Version
    BY DEF TypeOK
  <2>2. registry'[a].version # registry[a].version
    BY <2>1, NotOlderThanItself
  <2>3. CASE \E s \in Catalog : ScriptStarts(s)
    BY <2>2, <2>3, ScriptFinds
  <2>4. CASE ~\E s \in Catalog : ScriptStarts(s)
    BY <2>2, <2>4, OtherSteps
  <2> QED BY <2>3, <2>4
<1>2. Spec => [](TypeOK /\ TodoInv)
  BY Invariants
<1> QED BY <1>1, <1>2, PTL DEF Spec, NeverDowngraded

\* An application whose row dbpm has read is deployed over, when it is
\* complete, by an upgrade only (an install refuses it, a reinstall has removed
\* it, a resume wants it incomplete); for every catalog.
THEOREM NothingCompleteRedeployed == Spec => KnownOnlyUpgraded
<1> DEFINE Kept == \A a \in plan.known :
              registry[a].status = "C" /\ registry'[a].status = "R"
                  => plan.mode = "upgrade"
<1>1. TypeOK /\ TodoInv /\ [Next]_vars => [Kept]_vars
  <2> SUFFICES ASSUME TypeOK, TodoInv, [Next]_vars, NEW a \in plan.known,
                      registry[a].status = "C", registry'[a].status = "R"
               PROVE  plan.mode = "upgrade"
    OBVIOUS
  <2>1. a \in App
    BY DEF TypeOK, Plan, NoPlan
  <2>2. PICK s \in Catalog : ScriptStarts(s)
    BY <2>1, OtherSteps
  <2>3. a = s.app
    BY <2>1, <2>2, ScriptFinds
  <2> QED BY <2>2, <2>3, ScriptFinds
<1>2. Spec => [](TypeOK /\ TodoInv)
  BY Invariants
<1> QED BY <1>1, <1>2, PTL DEF Spec, KnownOnlyUpgraded

-----------------------------------------------------------------------------
(* The graph in Core, and what a plan has still to do to it *)

Deploys == plan.mode \in {"install", "upgrade", "reinstall"}

\* No source that is still to be deployed is one of what s needs.
NeedsDone(s) == \A n \in s.needs : \A t \in plan.todo : t.app # n.app

\* The running script has registered its source; what it needs is in place.
RunningInv ==
    \A s \in running :
        /\ plan.mode # "uninstall" /\ s.app \notin plan.doomed
        /\ registry[s.app].version = s.version /\ registry[s.app].needs = s.needs
        /\ \A t \in plan.todo \ {s} : t.app = s.app => ~Less(t.version, s.version)
        /\ plan.mode # "resume" /\ ~plan.chain => Served(s, registry) /\ NeedsDone(s)

\* A need of what is still to be deployed is met by a source of the plan, or
\* already and by what the plan does not touch.
Provided(n) ==
    \/ \E t \in plan.todo : t.app = n.app /\ Satisfies(t.version, n.range)
    \/ /\ Holds(registry[n.app], n.range) /\ n.app \notin plan.doomed
       /\ \A t \in plan.todo : t.app # n.app

PendingInv ==
    Deploys /\ ~plan.chain =>
        \A s \in plan.todo \ running : \A n \in s.needs : Provided(n)

\* A plan has one source for each application, or is a chain.
OneEachInv ==
    IF plan.chain THEN plan.mode = "upgrade" /\ \A root \in plan.root : root.needs = {}
    ELSE \A s, t \in plan.todo : s.app = t.app => s = t

\* Unless it is forced, what others depend on is upgraded within its major
\* version only.
UpgradeInv ==
    plan.mode = "upgrade" /\ ~plan.chain /\ ~plan.force =>
        \A s \in plan.todo \ running : \/ s.version[1] <= registry[s.app].version[1]
                                        \/ Dependents(s.app) = {}

\* What is to be removed and known has no dependents, other than in a graph,
\* which removes them as well, and in a reset, which removes everything.
RemovalInv ==
    /\ plan.mode # "reset" =>
           \A a \in plan.doomed : \E s \in plan.todo \ running : s.app = a
    /\ plan.mode # "reset" => \A a \in plan.doomed \cap plan.known :
           IF plan.graph THEN Dependents(a) \subseteq plan.doomed
           ELSE Dependents(a) = {}
    /\ plan.graph => plan.mode = "reinstall"
    /\ plan.graph /\ running # {} => plan.doomed = {}
    /\ plan.mode = "reset" =>
           \A a \in App : registry[a] # NotInstalled => a \in plan.doomed
    /\ plan.mode = "uninstall" => plan.doomed = {}

\* The root of a deployment is still to be deployed, or in place.
RootInv ==
    Deploys \/ plan.mode = "resume" => \A root \in plan.root :
        \/ /\ root \in plan.todo
           /\ \A t \in plan.todo \ {root} :
                  t.app = root.app => Less(t.version, root.version)
        \/ /\ registry[root.app] = [version |-> root.version, status |-> "C",
                                    needs |-> root.needs]
           /\ \A t \in plan.todo : t.app # root.app
           /\ Deploys => Served(root, registry) /\ NeedsDone(root)

GraphInv ==
    /\ RunningInv /\ PendingInv /\ OneEachInv /\ UpgradeInv /\ RemovalInv
    /\ RootInv

-----------------------------------------------------------------------------
(* Sources, rows and dependents *)

LEMMA AppsCounted == Cardinality(App) \in Nat
<1>1. IsFiniteSet(App)
  BY CatalogAssumption
<1> QED BY <1>1, FS_CardinalityType

\* No source needs its own application.
LEMMA NeedsOthers ==
    ASSUME NEW s \in Catalog, NEW n \in s.needs
    PROVE  /\ n \in Need /\ n.app \in App /\ n.range \in VersionRange
           /\ n.app # s.app
<1>1. n \in Need /\ s.app \in App
  BY SourceFields
<1>2. n.app # s.app
  <2>1. PICK rank \in [App -> 1..Cardinality(App)] :
            \A t \in Catalog : \A m \in t.needs : rank[m.app] < rank[t.app]
    BY CatalogAssumption DEF Acyclic
  <2>2. rank[n.app] < rank[s.app]
    BY <2>1
  <2>3. rank[s.app] \in Int
    BY <1>1, <2>1, AppsCounted
  <2> QED BY <2>2, <2>3
<1> QED BY <1>1, <1>2 DEF Need

\* A set of integers within bounds has a greatest one.
LEMMA GreatestExists ==
    ASSUME NEW N \in Nat, NEW S \in SUBSET (1..N), S # {}
    PROVE  \E x \in S : \A y \in S : y <= x
<1> DEFINE R == {N - x : x \in S}
<1>1. R \subseteq Nat /\ R # {}
  OBVIOUS
<1>2. PICK r \in R : \A q \in R : ~ (<<q, r>> \in OpToRel(<, Nat))
  BY <1>1, NatLessThanWellFounded, WFMin
<1>3. \A q \in R : ~ (q < r)
  BY <1>1, <1>2 DEF OpToRel
<1>4. PICK x \in S : r = N - x
  OBVIOUS
<1>5. ASSUME NEW y \in S PROVE y <= x
  <2>1. ~ (N - y < r)
    BY <1>3
  <2> QED BY <1>4, <2>1
<1> QED BY <1>5

\* Of any sources there is one that none of the others needs.
LEMMA UnneededExists ==
    ASSUME NEW T \in SUBSET Catalog, T # {}
    PROVE  \E t \in T : \A u \in T : \A m \in u.needs : m.app # t.app
<1>1. PICK rank \in [App -> 1..Cardinality(App)] :
          \A t \in Catalog : \A m \in t.needs : rank[m.app] < rank[t.app]
  BY CatalogAssumption DEF Acyclic
<1> DEFINE S == {rank[t.app] : t \in T}
<1>2. Cardinality(App) \in Nat /\ \A t \in T : rank[t.app] \in 1..Cardinality(App)
  BY <1>1, AppsCounted, SourceFields
<1>3. S \in SUBSET (1..Cardinality(App)) /\ S # {}
  BY <1>2
<1>4. PICK t \in T : \A u \in T : rank[u.app] <= rank[t.app]
  <2> HIDE DEF S
  <2>1. PICK x \in S : \A y \in S : y <= x
    BY <1>2, <1>3, GreatestExists
  <2> QED BY <2>1 DEF S
<1>5. ASSUME NEW u \in T, NEW m \in u.needs, m.app = t.app PROVE FALSE
  BY <1>1, <1>2, <1>4, <1>5
<1> QED BY <1>4, <1>5

\* What a command deploys are the root and what something it deploys needs.
LEMMA AllButRootNeeded ==
    ASSUME NEW mode, NEW graph, NEW seen, NEW root \in Catalog, NEW D \in Supplies,
           NEW T \in Resolutions(mode, graph, seen, root, D)
    PROVE  /\ T \subseteq Catalog /\ root \in T
           /\ \A t \in T \ {root} : \E u \in T : \E m \in u.needs : m.app = t.app
<1>1. T \subseteq D \cup {root} \cup {u \in Catalog : u.origin = "registry"}
  BY DEF Resolutions
<1>2. ASSUME NEW t \in T \ {root}
      PROVE  \E u \in T : \E m \in u.needs : m.app = t.app
  <2>1. PICK u \in T : \E m \in Visits(mode, graph, seen, u, T, D) : m.app = t.app
    BY DEF Resolutions
  <2> QED BY <2>1 DEF Visits, Unmet
<1>3. root \in T
  BY DEF Resolutions
<1> QED BY <1>1, <1>2, <1>3, CatalogAssumption

\* So nothing that it deploys needs the root.
LEMMA NothingNeedsRoot ==
    ASSUME NEW mode, NEW graph, NEW seen, NEW root \in Catalog, NEW D \in Supplies,
           NEW T \in Resolutions(mode, graph, seen, root, D),
           NEW s \in T, NEW n \in s.needs
    PROVE  n.app # root.app
<1>1. PICK t \in T : \A u \in T : \A m \in u.needs : m.app # t.app
  BY AllButRootNeeded, UnneededExists
<1>2. t = root
  BY <1>1, AllButRootNeeded
<1> QED BY <1>1, <1>2

\* A root without dependencies is all that is deployed.
LEMMA ResolvesAlone ==
    ASSUME NEW mode, NEW graph, NEW seen, NEW root \in Catalog, NEW D \in Supplies,
           NEW T \in Resolutions(mode, graph, seen, root, D), root.needs = {}
    PROVE  T = {root}
<1>1. T \subseteq Catalog /\ root \in T
  BY AllButRootNeeded
<1>2. ASSUME T \ {root} # {} PROVE FALSE
  <2>1. PICK t \in T \ {root} : \A u \in T \ {root} : \A m \in u.needs : m.app # t.app
    BY <1>1, <1>2, UnneededExists
  <2>2. PICK u \in T : \E m \in u.needs : m.app = t.app
    BY <2>1, AllButRootNeeded
  <2> QED BY <2>1, <2>2
<1> QED BY <1>1, <1>2

\* An application that is taken away depends on nothing any more.
LEMMA Removal ==
    ASSUME TypeOK, NEW a \in App, registry' = [registry EXCEPT ![a] = NotInstalled]
    PROVE  /\ registry'[a] = NotInstalled
           /\ \A b \in App \ {a} : registry'[b] = registry[b]
           /\ \A b \in App : Dependents(b)' = Dependents(b) \ {a}
<1>1. registry'[a] = NotInstalled /\ \A b \in App \ {a} : registry'[b] = registry[b]
  BY NotInstalledType, RowTypes
<1>2. NotInstalled.needs = {}
  BY DEF NotInstalled
<1>3. \A b \in App : Dependents(b)' = Dependents(b) \ {a}
  BY <1>1, <1>2 DEF Dependents
<1> QED BY <1>1, <1>3

\* A script that ends, well or not, leaves version and dependencies as they are.
LEMMA StatusChange ==
    ASSUME TypeOK, NEW s \in running, NEW status \in {"R", "F", "C"},
           registry' = [registry EXCEPT ![s.app].status = status]
    PROVE  /\ registry'[s.app] = [version |-> registry[s.app].version,
                                  status |-> status,
                                  needs |-> registry[s.app].needs]
           /\ \A b \in App \ {s.app} : registry'[b] = registry[b]
           /\ \A b \in App : /\ registry'[b].version = registry[b].version
                             /\ registry'[b] = NotInstalled <=> registry[b] = NotInstalled
                             /\ Dependents(b)' = Dependents(b)
<1>1. s.app \in App
  BY SourceFields DEF TypeOK, Plan, NoPlan
<1>2. registry \in [App -> Row]
  BY DEF TypeOK, Row
<1>3. /\ registry'[s.app] = [version |-> registry[s.app].version, status |-> status,
                             needs |-> registry[s.app].needs]
      /\ \A b \in App \ {s.app} : registry'[b] = registry[b]
  BY <1>1, <1>2 DEF Row
<1>4. \A b \in App : /\ registry'[b].version = registry[b].version
                     /\ registry'[b].needs = registry[b].needs
  BY <1>3
<1>5. registry'[s.app] # NotInstalled /\ registry[s.app] # NotInstalled
  BY <1>3, NotInstalledType DEF TypeOK
<1>6. \A b \in App : registry'[b] = NotInstalled <=> registry[b] = NotInstalled
  BY <1>3, <1>5
<1>7. \A b \in App : Dependents(b)' = Dependents(b)
  BY <1>4 DEF Dependents
<1> QED BY <1>3, <1>4, <1>6, <1>7

\* Between plans there is nothing left to hold.
LEMMA NothingPlanned ==
    ASSUME plan' = NoPlan, running' = {}
    PROVE  GraphInv'
BY DEF GraphInv, RunningInv, PendingInv, OneEachInv, UpgradeInv, RemovalInv, RootInv,
       Deploys, NoPlan

-----------------------------------------------------------------------------
(* The graph while plans are carried out *)

LEMMA NoPlanFields ==
    /\ NoPlan.mode = "none" /\ NoPlan.todo = {} /\ NoPlan.doomed = {}
    /\ NoPlan.root = {} /\ NoPlan.graph = FALSE /\ NoPlan.known = App
    /\ NoPlan.chain = FALSE /\ NoPlan.force = FALSE
BY DEF NoPlan

\* What is under way in every state of the system.
LEMMA AtWork ==
    ASSUME TypeOK
    PROVE  /\ plan.todo \subseteq Catalog /\ plan.doomed \subseteq App
           /\ plan.root \subseteq Catalog /\ running \subseteq plan.todo
           /\ \A s \in plan.todo : /\ s.app \in App /\ s.version \in Version
                                   /\ s.needs \subseteq Need
           /\ \A a \in App : /\ registry[a] \in Row /\ registry[a].version \in Version
                             /\ registry[a].needs \subseteq Need
<1>1. /\ plan.todo \subseteq Catalog /\ plan.doomed \subseteq App
      /\ plan.root \subseteq Catalog
  BY NoPlanFields DEF TypeOK, Plan
<1> QED BY <1>1, SourceFields DEF TypeOK, Row

\* The script of a source that is ready finds what it needs.
LEMMA StartsOnNeeds ==
    ASSUME TypeOK, TodoInv, GraphInv, NEW s \in Catalog, ScriptStarts(s)
    PROVE  /\ plan \in Plan /\ plan' = plan /\ s \in plan.todo
           /\ plan.mode \in {"install", "upgrade", "reinstall", "resume"}
           /\ running = {} /\ running' = {s} /\ s.app \notin plan.doomed
           /\ registry'[s.app] = [version |-> s.version, status |-> "R",
                                  needs |-> s.needs]
           /\ \A a \in App \ {s.app} : registry'[a] = registry[a]
           /\ \A t \in plan.todo \ {s} : s.app = t.app => ~Less(t.version, s.version)
           /\ plan.mode # "resume" /\ ~plan.chain => Served(s, registry) /\ NeedsDone(s)
           /\ plan.graph => plan.doomed = {}
           /\ \A t \in plan.todo : \A n \in s.needs : n.app # t.app
<1>1. /\ plan \in Plan /\ plan' = plan /\ s \in plan.todo
      /\ plan.mode # "uninstall" /\ running = {} /\ running' = {s}
  BY DEF ScriptStarts, Ready, TypeOK, NoPlan
<1>2. plan.mode \in {"install", "upgrade", "reinstall", "resume"}
  BY <1>1 DEF Plan, Mode, TodoInv
<1>3. s.app \notin plan.doomed /\ (plan.graph => plan.doomed = {})
  BY <1>1 DEF ScriptStarts
<1>4. /\ registry'[s.app] = [version |-> s.version, status |-> "R", needs |-> s.needs]
      /\ \A a \in App \ {s.app} : registry'[a] = registry[a]
  BY <1>1, AtWork DEF ScriptStarts, TypeOK
<1>5. /\ \A t \in plan.todo \ {s} : s.app = t.app => ~Less(t.version, s.version)
      /\ \A t \in plan.todo \ {s} : \A n \in s.needs : n.app # t.app
  BY <1>1 DEF ScriptStarts, Ready
<1>6. \A t \in plan.todo : \A n \in s.needs : n.app # t.app
  BY <1>5, NeedsOthers
<1>7. plan.mode # "resume" /\ ~plan.chain => Served(s, registry) /\ NeedsDone(s)
  BY <1>1, <1>2, <1>6 DEF GraphInv, PendingInv, Deploys, Provided, Served, Holds, NeedsDone
<1> QED BY <1>1, <1>2, <1>3, <1>4, <1>5, <1>6, <1>7

\* A caret range accepts every newer version of the major version it accepts.
LEMMA CaretAccepts ==
    ASSUME NEW r \in VersionRange, r.kind = "caret", NEW v \in Version, NEW w \in Version,
           Satisfies(v, r), ~Less(w, v), w[1] <= v[1]
    PROVE  Satisfies(w, r)
BY DEF Satisfies, Bound, Less, Version, VersionRange

LEMMA StartKeepsInv ==
    ASSUME TypeOK, TodoInv, GraphInv, NEW s \in Catalog, ScriptStarts(s)
    PROVE  GraphInv'
<1>1. /\ plan' = plan /\ s \in plan.todo /\ running = {} /\ running' = {s}
      /\ plan.mode \in {"install", "upgrade", "reinstall", "resume"}
      /\ s.app \notin plan.doomed
      /\ registry'[s.app] = [version |-> s.version, status |-> "R", needs |-> s.needs]
      /\ \A a \in App \ {s.app} : registry'[a] = registry[a]
      /\ \A t \in plan.todo \ {s} : s.app = t.app => ~Less(t.version, s.version)
      /\ plan.mode # "resume" /\ ~plan.chain => Served(s, registry) /\ NeedsDone(s)
      /\ plan.graph => plan.doomed = {}
      /\ \A t \in plan.todo : \A n \in s.needs : n.app # t.app
  BY StartsOnNeeds
<1>2. /\ plan.todo \subseteq Catalog /\ plan.doomed \subseteq App
      /\ plan.root \subseteq Catalog
      /\ \A t \in plan.todo : t.app \in App /\ t.version \in Version
  BY AtWork
<1>3. \A t \in plan.todo : Dependents(t.app)' \subseteq Dependents(t.app)
  BY <1>1, <1>2 DEF Dependents
<1>5. \A n \in s.needs : n.app \in App /\ n.app # s.app
  BY NeedsOthers
<1>6. RunningInv'
  <2>1. Served(s, registry) => Served(s, registry)'
    BY <1>1, <1>5 DEF Served
  <2> QED BY <1>1, <2>1 DEF RunningInv, NeedsDone
<1>7. PendingInv'
  <2> SUFFICES ASSUME Deploys', ~plan.chain, NEW t \in plan.todo \ {s}, NEW n \in t.needs
               PROVE  Provided(n)'
    BY <1>1 DEF PendingInv
  <2>1. Provided(n) /\ n.app \in App
    BY <1>1, <1>2, NeedsOthers DEF GraphInv, PendingInv, Deploys
  <2> QED BY <1>1, <2>1 DEF Provided, Holds
<1>8. OneEachInv'
  BY <1>1 DEF GraphInv, OneEachInv
<1>9. UpgradeInv'
  <2> SUFFICES ASSUME plan.mode = "upgrade", ~plan.chain, ~plan.force,
                      NEW t \in plan.todo \ {s}
               PROVE  \/ t.version[1] <= registry'[t.app].version[1]
                      \/ Dependents(t.app)' = {}
    BY <1>1 DEF UpgradeInv
  <2>1. t.app # s.app
    BY <1>1 DEF GraphInv, OneEachInv
  <2> QED BY <1>1, <1>2, <1>3, <2>1 DEF GraphInv, UpgradeInv
<1>10. RemovalInv'
  <2>1. \A a \in plan.doomed : \E t \in plan.todo \ {s} : t.app = a
    BY <1>1 DEF GraphInv, RemovalInv
  <2>2. ~plan.graph => \A a \in plan.doomed \cap plan.known : Dependents(a)' = {}
    BY <1>1, <1>3, <2>1 DEF GraphInv, RemovalInv
  <2> QED BY <1>1, <2>1, <2>2 DEF GraphInv, RemovalInv
<1>11. RootInv'
  <2> SUFFICES ASSUME Deploys \/ plan.mode = "resume", NEW root \in plan.root,
                      root \notin plan.todo
               PROVE  /\ registry'[root.app] = registry[root.app]
                      /\ Deploys /\ Served(root, registry) /\ NeedsDone(root)
                             => Served(root, registry)'
    BY <1>1 DEF GraphInv, RootInv, Deploys, NeedsDone
  <2>1. root.app # s.app /\ root.app \in App
    BY <1>1, <1>2, SourceFields DEF GraphInv, RootInv
  <2>2. \A n \in root.needs : n.app \in App
    BY <1>2, NeedsOthers
  <2> QED BY <1>1, <2>1, <2>2 DEF Served, NeedsDone
<1> QED BY <1>6, <1>7, <1>8, <1>9, <1>10, <1>11 DEF GraphInv

\* What is left of a plan when one of its sources is done.
LEMMA PlanLeft ==
    ASSUME plan \in Plan, NEW s, plan' = After(s)
    PROVE  \/ plan' = NoPlan
           \/ /\ plan'.mode = plan.mode /\ plan'.doomed = plan.doomed
              /\ plan'.root = plan.root /\ plan'.graph = plan.graph
              /\ plan'.known = plan.known /\ plan'.chain = plan.chain
              /\ plan'.force = plan.force /\ plan'.todo = plan.todo \ {s}
  BY DEF After, Plan

LEMMA EndKeepsInv ==
    ASSUME TypeOK, TodoInv, GraphInv, NEW s \in Catalog, ScriptEnds(s)
    PROVE  GraphInv'
<1>1. /\ s \in running /\ running' = {} /\ plan' = After(s) /\ plan \in Plan
      /\ running = {s} /\ s \in plan.todo /\ s.app \in App
  BY AtWork DEF ScriptEnds, TypeOK, NoPlan
<1>2. /\ registry'[s.app] = [version |-> registry[s.app].version, status |-> "C",
                             needs |-> registry[s.app].needs]
      /\ \A b \in App \ {s.app} : registry'[b] = registry[b]
      /\ \A b \in App : Dependents(b)' = Dependents(b)
  BY <1>1, StatusChange DEF ScriptEnds
<1>3. CASE plan' = NoPlan
  BY <1>1, <1>2, <1>3, NothingPlanned
<1>4. CASE /\ plan'.mode = plan.mode /\ plan'.doomed = plan.doomed
           /\ plan'.root = plan.root /\ plan'.graph = plan.graph
           /\ plan'.known = plan.known /\ plan'.chain = plan.chain
           /\ plan'.force = plan.force /\ plan'.todo = plan.todo \ {s}
  <2>1. /\ registry'[s.app] = [version |-> s.version, status |-> "C", needs |-> s.needs]
        /\ plan.mode # "uninstall" /\ s.app \notin plan.doomed
        /\ \A t \in plan.todo \ {s} : t.app = s.app => ~Less(t.version, s.version)
        /\ plan.mode # "resume" /\ ~plan.chain => Served(s, registry) /\ NeedsDone(s)
    BY <1>1, <1>2 DEF GraphInv, RunningInv
  <2>2. /\ plan.todo \subseteq Catalog /\ plan.doomed \subseteq App
        /\ plan.root \subseteq Catalog
        /\ \A t \in plan.todo : t.app \in App
    BY AtWork
  <2>3. \A b \in App : registry'[b].version = registry[b].version
    BY <1>2
  <2>4. PendingInv'
    <3> SUFFICES ASSUME Deploys, ~plan.chain, NEW t \in plan.todo \ {s}, NEW n \in t.needs
                 PROVE  Provided(n)'
      BY <1>1, <1>4 DEF PendingInv, Deploys
    <3>1. Provided(n) /\ n.app \in App
      BY <1>1, <2>2, NeedsOthers DEF GraphInv, PendingInv
    <3>2. CASE n.app = s.app
      <4>1. \A u, v \in plan.todo : u.app = v.app => u = v
        BY DEF GraphInv, OneEachInv
      <4>2. Satisfies(s.version, n.range)
        BY <1>1, <3>1, <3>2, <4>1 DEF Provided
      <4>3. \A u \in plan.todo \ {s} : u.app # s.app
        BY <1>1, <4>1
      <4> QED BY <1>4, <2>1, <3>2, <4>2, <4>3 DEF Provided, Holds
    <3>3. CASE n.app # s.app
      <4>1. registry'[n.app] = registry[n.app]
        BY <1>2, <3>1, <3>3
      <4> QED BY <1>4, <3>1, <3>3, <4>1 DEF Provided
    <3> QED BY <3>2, <3>3
  <2>5. OneEachInv'
    BY <1>4 DEF GraphInv, OneEachInv
  <2>6. UpgradeInv'
    BY <1>1, <1>2, <1>4, <2>2, <2>3 DEF GraphInv, UpgradeInv
  <2>7. RemovalInv'
    <3>1. plan.mode # "reset"
      BY <1>1 DEF TodoInv
    <3>2. \A a \in plan.doomed : Dependents(a)' = Dependents(a)
      BY <1>2, <2>2
    <3> QED BY <1>1, <1>4, <2>1, <3>1, <3>2 DEF GraphInv, RemovalInv
  <2>8. RootInv'
    <3> SUFFICES ASSUME Deploys \/ plan.mode = "resume", NEW root \in plan.root,
                        root \notin plan.todo \ {s}
                 PROVE  /\ registry'[root.app] = [version |-> root.version,
                                                  status |-> "C", needs |-> root.needs]
                        /\ \A t \in plan.todo \ {s} : t.app # root.app
                        /\ Deploys => Served(root, registry)' /\ NeedsDone(root)
      BY <1>4 DEF GraphInv, RootInv, Deploys, NeedsDone
    <3>1. \A n \in root.needs : n.app \in App /\ n.app # root.app
      BY <2>2, NeedsOthers
    <3>2. CASE root = s
      <4>1. \A t \in plan.todo \ {s} : t.app # root.app
        BY <1>1, <2>1, <3>2 DEF GraphInv, RootInv
      <4>2. Deploys => Served(s, registry) /\ NeedsDone(s)
        BY <2>1, <3>2 DEF Deploys, GraphInv, OneEachInv, Served, NeedsDone
      <4> QED BY <1>2, <2>1, <3>1, <3>2, <4>1, <4>2 DEF Served
    <3>3. CASE root # s
      <4>1. /\ registry[root.app] = [version |-> root.version, status |-> "C",
                                     needs |-> root.needs]
            /\ \A t \in plan.todo : t.app # root.app
            /\ Deploys => Served(root, registry) /\ NeedsDone(root)
        BY <3>3 DEF GraphInv, RootInv
      <4>2. root.app # s.app /\ root.app \in App
        BY <1>1, <2>2, <4>1, SourceFields
      <4>3. NeedsDone(root) => \A n \in root.needs : n.app # s.app
        BY <1>1 DEF NeedsDone
      <4> QED BY <1>2, <3>1, <4>1, <4>2, <4>3 DEF Served
    <3> QED BY <3>2, <3>3
  <2> QED BY <1>1, <1>2, <2>4, <2>5, <2>6, <2>7, <2>8 DEF GraphInv, RunningInv
<1> QED BY <1>1, <1>3, <1>4, PlanLeft

LEMMA RemoveKeepsInv ==
    ASSUME TypeOK, TodoInv, GraphInv, NEW a \in App, Remove(a)
    PROVE  GraphInv'
<1>1. /\ plan \in Plan /\ a \in plan.doomed /\ running = {} /\ running' = {}
      /\ registry' = [registry EXCEPT ![a] = NotInstalled]
  BY DEF Remove, TypeOK, NoPlan
<1>3. /\ registry'[a] = NotInstalled
      /\ \A b \in App \ {a} : registry'[b] = registry[b]
      /\ \A b \in App : Dependents(b)' = Dependents(b) \ {a}
  BY <1>1, Removal
<1>4. CASE plan' = NoPlan
  BY <1>1, <1>4, NothingPlanned
<1>5. CASE plan' = [plan EXCEPT !.doomed = @ \ {a}]
  <2>1. /\ plan'.mode = plan.mode /\ plan'.todo = plan.todo /\ plan'.root = plan.root
        /\ plan'.graph = plan.graph /\ plan'.doomed = plan.doomed \ {a}
        /\ plan'.known = plan.known /\ plan'.chain = plan.chain
        /\ plan'.force = plan.force
    BY <1>1, <1>5 DEF Plan
  <2>2. /\ plan.todo \subseteq Catalog /\ plan.doomed \subseteq App
        /\ plan.root \subseteq Catalog
        /\ \A t \in plan.todo : t.app \in App
    BY AtWork
  <2>3. PendingInv'
    <3> SUFFICES ASSUME Deploys, ~plan.chain, NEW t \in plan.todo, NEW n \in t.needs
                 PROVE  Provided(n)'
      BY <1>1, <2>1 DEF PendingInv, Deploys
    <3>1. Provided(n) /\ n.app \in App
      BY <1>1, <2>2, NeedsOthers DEF GraphInv, PendingInv
    <3> QED BY <1>1, <1>3, <2>1, <3>1 DEF Provided
  <2>4. OneEachInv'
    BY <2>1 DEF GraphInv, OneEachInv
  <2>5. UpgradeInv'
    BY <1>1, <2>1 DEF UpgradeInv, TodoInv
  <2>6. RemovalInv'
    <3>1. plan.mode # "uninstall"
      BY <1>1 DEF GraphInv, RemovalInv
    <3>2. \A b \in (plan.doomed \ {a}) \cap plan.known : plan.mode # "reset" =>
              IF plan.graph THEN Dependents(b)' \subseteq plan.doomed \ {a}
              ELSE Dependents(b)' = {}
      BY <1>3, <2>2 DEF GraphInv, RemovalInv
    <3> QED BY <1>1, <1>3, <2>1, <3>1, <3>2 DEF GraphInv, RemovalInv
  <2>7. RootInv'
    <3> SUFFICES ASSUME Deploys \/ plan.mode = "resume", NEW root \in plan.root,
                        root \notin plan.todo
                 PROVE  /\ registry'[root.app] = registry[root.app]
                        /\ Deploys /\ Served(root, registry) /\ NeedsDone(root)
                               => Served(root, registry)'
      BY <2>1 DEF GraphInv, RootInv, Deploys, NeedsDone
    <3>1. PICK t \in plan.todo : t.app = a
      BY <1>1 DEF Deploys, GraphInv, RemovalInv
    <3>2. root.app # a /\ root.app \in App
      BY <2>2, <3>1, SourceFields DEF GraphInv, RootInv
    <3>3. \A n \in root.needs : n.app \in App
      BY <2>2, NeedsOthers
    <3> QED BY <1>3, <3>1, <3>2, <3>3 DEF Served, NeedsDone
  <2> QED BY <1>1, <2>3, <2>4, <2>5, <2>6, <2>7 DEF GraphInv, RunningInv
<1> QED BY <1>4, <1>5 DEF Remove

LEMMA UninstallKeepsInv ==
    ASSUME TypeOK, TodoInv, GraphInv, NEW s \in Catalog, UninstallRuns(s)
    PROVE  GraphInv'
<1>1. /\ plan \in Plan /\ plan.mode = "uninstall"
      /\ running = {} /\ running' = {} /\ plan' = After(s)
  BY DEF UninstallRuns, TypeOK, NoPlan
<1>2. plan.doomed = {} /\ ~plan.graph
  BY <1>1 DEF GraphInv, RemovalInv
<1>4. CASE plan' = NoPlan
  BY <1>1, <1>4, NothingPlanned
<1>5. CASE /\ plan'.mode = plan.mode /\ plan'.doomed = plan.doomed
           /\ plan'.root = plan.root /\ plan'.graph = plan.graph
           /\ plan'.known = plan.known /\ plan'.chain = plan.chain
           /\ plan'.force = plan.force /\ plan'.todo = plan.todo \ {s}
  <2>1. OneEachInv'
    BY <1>5 DEF GraphInv, OneEachInv
  <2>2. RemovalInv'
    BY <1>1, <1>2, <1>5 DEF GraphInv, RemovalInv
  <2> QED BY <1>1, <1>5, <2>1, <2>2
          DEF GraphInv, RunningInv, PendingInv, UpgradeInv, RootInv, Deploys
<1> QED BY <1>1, <1>4, <1>5, PlanLeft

\* What a new plan deploys needs nothing but what it deploys as well, in a
\* version that is accepted, and what is in place and stays.
LEMMA SubmitProvides ==
    ASSUME TypeOK,
           NEW mode \in {"install", "upgrade", "reinstall"},
           NEW graph \in BOOLEAN, graph => mode = "reinstall", NEW force \in BOOLEAN,
           NEW root \in Catalog, NEW D \in Supplies,
           Submit(mode, graph, force, root, D),
           NEW s \in plan'.todo, NEW n \in s.needs
    PROVE  Provided(n)'
<1> DEFINE T == plan'.todo
           seen == Seen(Known(root, D))
<1>0. mode \in Mode
  BY DEF Mode
<1>1. /\ registry' = registry
      /\ plan'.doomed = Doomed(mode, graph, root, T)
      /\ T \subseteq Catalog
  BY <1>0, SubmitPlan
<1>2. T \in Resolutions(mode, graph, seen, root, D)
  BY <1>0, SubmitPasses
<1>3. n.app \in App /\ n.app # root.app
  <2>1. s \in Catalog
    BY <1>1
  <2> HIDE DEF T, seen
  <2>2. n.app # root.app
    BY <1>0, <1>1, <1>2, NothingNeedsRoot DEF T
  <2> QED BY <2>1, <2>2, NeedsOthers
<1>4. CASE n \in Visits(mode, graph, seen, s, T, D)
  <2>1. PICK t \in T : t.app = n.app /\ Satisfies(t.version, n.range)
    BY <1>2, <1>4 DEF Resolutions
  <2> QED BY <2>1 DEF Provided
<1>5. CASE n \notin Visits(mode, graph, seen, s, T, D)
  <2>1. ~graph /\ Holds(seen[n.app], n.range)
    BY <1>5 DEF Visits, Unmet
  <2>2. n.app \in Known(root, D) /\ seen[n.app] = registry[n.app]
    BY <1>3, <2>1, NotInstalledType DEF Seen, Holds
  <2>3. n.app \notin plan'.doomed
    BY <1>1, <1>3, <2>1 DEF Doomed
  <2>4. ASSUME NEW t \in T, t.app = n.app PROVE FALSE
    <3> DEFINE m == ChildMode(mode, graph, root, t)
               deps == Others(t.app, graph, T)
    <3>1. StateAllows(m, registry[t.app], t, deps)
      BY <1>0, <1>1, <2>2, <2>4, SubmitChecked
    <3>2. t # root
      BY <1>3, <2>4
    <3>3. registry[t.app].status = "C"
      BY <2>1, <2>2, <2>4 DEF Holds
    <3>4. CASE mode = "upgrade"
      <4>1. m = "upgrade"
        BY <3>4 DEF ChildMode
      <4>2. Less(registry[t.app].version, t.version)
        BY <3>1, <4>1 DEF StateAllows
      <4>3. \E d \in Available(T, D, n) : Less(seen[n.app].version, d.version)
        BY <2>2, <2>4, <4>2 DEF Available
      <4> QED BY <1>5, <3>4, <4>3 DEF Visits
    <3>5. CASE mode # "upgrade"
      <4>1. m = "install"
        BY <2>1, <3>2, <3>5 DEF ChildMode
      <4>2. registry[t.app] = NotInstalled
        BY <3>1, <4>1 DEF StateAllows
      <4> QED BY <3>3, <4>2, NotInstalledType
    <3> QED BY <3>4, <3>5
  <2> HIDE DEF T, seen
  <2> QED BY <1>1, <2>1, <2>2, <2>3, <2>4 DEF Provided, T
<1> QED BY <1>4, <1>5

LEMMA SubmitKeepsInv ==
    ASSUME TypeOK, GraphInv,
           NEW mode \in {"install", "upgrade", "reinstall", "uninstall"},
           NEW graph \in BOOLEAN, graph => mode = "reinstall", NEW force \in BOOLEAN,
           NEW root \in Catalog, NEW D \in Supplies,
           Submit(mode, graph, force, root, D)
    PROVE  GraphInv'
<1> DEFINE T == plan'.todo
<1>1. /\ mode \in Mode /\ registry' = registry /\ running' = {}
      /\ plan'.mode = mode /\ plan'.graph = graph /\ plan'.root = {root}
      /\ plan'.known = Known(root, D) /\ ~plan'.chain /\ plan'.force = force
      /\ T \subseteq Catalog /\ root \in T
      /\ \A s, t \in T : s.app = t.app => s = t
      /\ plan'.doomed = Doomed(mode, graph, root, T)
  <2>1. mode \in Mode
    BY DEF Mode
  <2>2. running' = running /\ plan = NoPlan
    BY <2>1, SubmitPlan
  <2>3. running = {}
    BY <2>2, AtWork, NoPlanFields
  <2>4. root \in T
    <3>1. T \in Resolutions(mode, graph, Seen(Known(root, D)), root, D)
      BY <2>1, SubmitPasses
    <3> QED BY <3>1 DEF Resolutions
  <2>5. /\ registry' = registry
        /\ plan'.mode = mode /\ plan'.graph = graph /\ plan'.root = {root}
        /\ plan'.known = Known(root, D) /\ ~plan'.chain /\ plan'.force = force
        /\ T \subseteq Catalog /\ \A s, t \in T : s.app = t.app => s = t
        /\ plan'.doomed = Doomed(mode, graph, root, T)
    <3> HIDE DEF T
    <3> QED BY <2>1, SubmitPlan DEF T
  <2> QED BY <2>1, <2>2, <2>3, <2>4, <2>5
<1>3. \A a \in App : Dependents(a)' = Dependents(a)
  BY <1>1 DEF Dependents
<1>5. PendingInv'
  BY <1>1, SubmitProvides DEF PendingInv, Deploys
<1>6. UpgradeInv'
  <2> SUFFICES ASSUME mode = "upgrade", ~force, NEW s \in T
               PROVE  \/ s.version[1] <= registry[s.app].version[1]
                      \/ Dependents(s.app) = {}
    BY <1>1, <1>3, SourceFields DEF UpgradeInv
  <2>1. /\ Others(s.app, graph, T) = Dependents(s.app)
        /\ ChildMode(mode, graph, root, s) = "upgrade"
    BY DEF ChildMode, Others
  <2>2. MajorAllows("upgrade", registry[s.app], s, Dependents(s.app), force)
    BY <1>1, <2>1, SubmitChecked
  <2>3. s.version[1] > registry[s.app].version[1] => Dependents(s.app) = {}
    BY <2>2 DEF MajorAllows
  <2>4. s.version[1] \in Nat /\ registry[s.app].version[1] \in Nat
    <3>1. s.version \in Version /\ registry[s.app].version \in Version
      BY <1>1, SourceFields, AtWork
    <3> QED BY <3>1 DEF Version
  <2> QED BY <2>3, <2>4
<1>7. RemovalInv'
  <2>1. ASSUME NEW a \in plan'.doomed
        PROVE  /\ \E s \in T : s.app = a
               /\ a \in Known(root, D) =>
                    IF graph THEN Dependents(a) \subseteq plan'.doomed
                    ELSE Dependents(a) = {}
    <3>1. /\ mode = "reinstall" /\ a \in App
          /\ a = root.app \/ (graph /\ \E s \in T : s.app = a)
      BY <1>1, <2>1 DEF Doomed
    <3>2. PICK s \in T : s.app = a /\ (~graph => s = root)
      BY <1>1, <3>1
    <3>3. ChildMode(mode, graph, root, s) = "reinstall"
      BY <3>1, <3>2 DEF ChildMode
    <3>4. ASSUME a \in Known(root, D) PROVE Others(s.app, graph, T) = {}
      <4>1. StateAllows("reinstall", registry[s.app], s, Others(s.app, graph, T))
        BY <1>1, <3>2, <3>3, <3>4, SubmitChecked
      <4> QED BY <4>1 DEF StateAllows
    <3>5. graph /\ a \in Known(root, D) => Dependents(a) \subseteq plan'.doomed
      BY <1>1, <3>1, <3>2, <3>4 DEF Doomed, Dependents, Others
    <3> QED BY <3>2, <3>4, <3>5 DEF Others
  <2>2. mode # "reinstall" => plan'.doomed = {}
    BY <1>1 DEF Doomed
  <2>4. \A a \in plan'.doomed : a \in App
    BY <1>1 DEF Doomed
  <2> QED BY <1>1, <1>3, <2>1, <2>2, <2>4 DEF RemovalInv
<1>8. RootInv' /\ OneEachInv'
  BY <1>1 DEF RootInv, OneEachInv
<1> QED BY <1>1, <1>5, <1>6, <1>7, <1>8 DEF GraphInv, RunningInv

LEMMA OlderMinor ==
    ASSUME NEW v \in Version, NEW w \in Version, Less(Minor(v), Minor(w))
    PROVE  Less(v, w)
BY DEF Less, Minor, Version

LEMMA ChainKeepsInv ==
    ASSUME TypeOK, GraphInv, NEW root \in Catalog, UpgradeChain(root)
    PROVE  GraphInv'
<1> DEFINE from == registry[root.app].version
           M == Milestones(from, root)
<1>1. plan = NoPlan /\ registry' = registry /\ running' = running /\ root.needs = {}
  BY DEF UpgradeChain, Chained, Alone
<1>2. root.app \in App /\ registry[root.app] \in Row
  BY SourceFields, AtWork
<1>3. [registry[root.app] EXCEPT !.status = "C"].version = from
  BY <1>2 DEF Row
<1>4. /\ plan'.mode = "upgrade" /\ plan'.chain /\ plan'.root = {root}
      /\ plan'.todo = M \cup {root} /\ plan'.doomed = {} /\ ~plan'.graph
  BY <1>3 DEF UpgradeChain, Solo
<1>5. running' = {}
  BY <1>1, AtWork, NoPlanFields
<1>6. \A t \in M : t \in Catalog /\ Less(Minor(t.version), Minor(root.version))
  BY DEF Milestones
<1> HIDE DEF M
<1>7. \A t \in M : Less(t.version, root.version)
  BY <1>6, OlderMinor, SourceFields
<1>8. RootInv'
  BY <1>1, <1>4, <1>7 DEF RootInv
<1> QED BY <1>1, <1>4, <1>5, <1>8
        DEF GraphInv, RunningInv, PendingInv, OneEachInv, UpgradeInv, RemovalInv

LEMMA OthersKeepInv ==
    ASSUME TypeOK, GraphInv,
           \/ \E root \in Catalog : UninstallRecorded(root) \/ Resume(root)
           \/ ResetEnvironment
    PROVE  GraphInv'
<1>1. plan = NoPlan /\ registry' = registry /\ running' = running
  BY DEF UninstallRecorded, Resume, ResetEnvironment
<1>2. running' = {}
  BY <1>1, AtWork, NoPlanFields
<1>5. ASSUME NEW root \in Catalog, UninstallRecorded(root) \/ Resume(root)
      PROVE  GraphInv'
  <2>1. PICK mode \in {"uninstall", "resume"} : plan' = Solo(mode, root, {root}, FALSE)
    BY <1>5 DEF UninstallRecorded, Resume
  <2> QED BY <1>2, <2>1
          DEF GraphInv, RunningInv, PendingInv, OneEachInv, UpgradeInv, RemovalInv,
              RootInv, Deploys, Solo
<1>7. ASSUME ResetEnvironment PROVE GraphInv'
  <2>1. plan' = Removing("reset", {a \in App : registry[a] # NotInstalled})
    BY <1>7 DEF ResetEnvironment
  <2> QED BY <1>1, <1>2, <2>1
          DEF GraphInv, RunningInv, PendingInv, OneEachInv, UpgradeInv, RemovalInv,
              RootInv, Deploys
<1> QED BY <1>5, <1>7

\* Plans that fail leave nothing to be done.
LEMMA FailureKeepsInv ==
    ASSUME (\E s \in Catalog : ScriptFails(s)) \/ Interrupted
    PROVE  GraphInv'
<1>1. plan' = NoPlan /\ running' = {}
  BY DEF ScriptFails, Interrupted
<1> QED BY <1>1, NothingPlanned

LEMMA GraphStep == TypeOK /\ TodoInv /\ GraphInv /\ [Next]_vars => GraphInv'
<1> SUFFICES ASSUME TypeOK, TodoInv, GraphInv, [Next]_vars PROVE GraphInv'
  OBVIOUS
<1>1. ASSUME NEW root \in Catalog, NEW D \in Supplies,
             \/ Install(root, D) \/ \E force \in BOOLEAN : Upgrade(root, D, force)
             \/ Reinstall(root, D) \/ ReinstallGraph(root, D) \/ Uninstall(root, D)
      PROVE  GraphInv'
  <2>1. Install(root, D) => GraphInv'
    BY SubmitKeepsInv DEF Install
  <2>2. (\E force \in BOOLEAN : Upgrade(root, D, force)) => GraphInv'
    BY SubmitKeepsInv DEF Upgrade
  <2>3. Reinstall(root, D) => GraphInv'
    BY SubmitKeepsInv DEF Reinstall
  <2>4. ReinstallGraph(root, D) => GraphInv'
    BY SubmitKeepsInv DEF ReinstallGraph
  <2>5. Uninstall(root, D) => GraphInv'
    BY SubmitKeepsInv DEF Uninstall
  <2> QED BY <1>1, <2>1, <2>2, <2>3, <2>4, <2>5
<1>2. CASE UNCHANGED vars
  BY <1>2 DEF vars, GraphInv, RunningInv, PendingInv, OneEachInv, UpgradeInv,
     RemovalInv, RootInv, Deploys, Provided, NeedsDone, Served, Dependents
<1> QED BY <1>1, <1>2, ChainKeepsInv, OthersKeepInv, RemoveKeepsInv, StartKeepsInv,
           EndKeepsInv, FailureKeepsInv, UninstallKeepsInv DEF Next

LEMMA GraphInvariant == Spec => [](TypeOK /\ TodoInv /\ GraphInv)
<1>1. Init => TypeOK /\ TodoInv
  BY TypesStart, TodoStart
<1>2. Init => GraphInv
  BY DEF Init, GraphInv, RunningInv, PendingInv, OneEachInv, UpgradeInv, RemovalInv,
         RootInv, Deploys, NoPlan
<1>3. TypeOK /\ TodoInv /\ GraphInv /\ [Next]_vars => (TypeOK /\ TodoInv /\ GraphInv)'
  BY TypesStep, TodoStep, GraphStep
<1> QED BY <1>1, <1>2, <1>3, PTL DEF Spec

\* A script runs because a deployment has started it.
LEMMA OnlyStartsStart ==
    ASSUME [Next]_vars, NEW s \in Catalog, running = {}, running' = {s}
    PROVE  ScriptStarts(s)
<1>1. running' # running
  OBVIOUS
<1>2. ~UNCHANGED vars /\ ~ResetEnvironment /\ ~Interrupted
  BY <1>1 DEF vars, ResetEnvironment, Interrupted
<1>3. ASSUME NEW root \in Catalog
      PROVE  /\ ~UpgradeChain(root) /\ ~UninstallRecorded(root) /\ ~Resume(root)
             /\ ~ScriptEnds(root) /\ ~ScriptFails(root) /\ ~UninstallRuns(root)
  BY <1>1 DEF UpgradeChain, UninstallRecorded, Resume, ScriptEnds, ScriptFails,
              UninstallRuns
<1>4. ASSUME NEW root \in Catalog, NEW D \in Supplies
      PROVE  /\ ~Install(root, D) /\ ~\E force \in BOOLEAN : Upgrade(root, D, force)
             /\ ~Reinstall(root, D)
             /\ ~ReinstallGraph(root, D) /\ ~Uninstall(root, D)
  BY <1>1 DEF Install, Upgrade, Reinstall, ReinstallGraph, Uninstall, Submit
<1>5. \A a \in App : ~Remove(a)
  BY <1>1 DEF Remove
<1>6. PICK t \in Catalog : ScriptStarts(t)
  BY <1>2, <1>3, <1>4, <1>5 DEF Next
<1>7. t = s
  BY <1>6 DEF ScriptStarts
<1> QED BY <1>6, <1>7

\* A step that does not start a script breaks a need only by taking away what
\* is needed.
LEMMA OnlyRemovalsBreak ==
    ASSUME TypeOK, [Next]_vars, ~\E s \in Catalog : ScriptStarts(s), NEW a \in App,
           NEW n \in registry[a].needs, InPlace(n, registry), ~InPlace(n, registry')
    PROVE  Remove(n.app) \/ \E s \in Catalog : UninstallRuns(s)
<1>1. n.app \in App
  BY AtWork DEF Need
<1>2. registry'[n.app] # registry[n.app]
  BY DEF InPlace
<1>3. ASSUME NEW s \in running, NEW status \in {"R", "F", "C"},
             registry' = [registry EXCEPT ![s.app].status = status]
      PROVE  FALSE
  BY <1>1, <1>3, StatusChange DEF InPlace
<1>4. ASSUME NEW mode \in Mode, NEW graph \in BOOLEAN, NEW force \in BOOLEAN,
             NEW root \in Catalog, NEW D \in Supplies,
             Submit(mode, graph, force, root, D)
      PROVE  FALSE
  BY <1>2, <1>4 DEF Submit
<1>5. ASSUME NEW root \in Catalog,
             UpgradeChain(root) \/ UninstallRecorded(root) \/ Resume(root)
      PROVE  FALSE
  BY <1>2, <1>5 DEF UpgradeChain, UninstallRecorded, Resume
<1>6. ~ResetEnvironment /\ ~Interrupted /\ ~UNCHANGED vars
  BY <1>2 DEF ResetEnvironment, Interrupted, vars
<1>7. ASSUME NEW b \in App, Remove(b) PROVE b = n.app
  BY <1>1, <1>2, <1>7, Removal DEF Remove
<1>8. ASSUME NEW s \in Catalog, ScriptEnds(s) \/ ScriptFails(s) PROVE FALSE
  BY <1>3, <1>8 DEF ScriptEnds, ScriptFails
<1> QED BY <1>4, <1>5, <1>6, <1>7, <1>8 DEF Next,
           Install, Upgrade, Reinstall, ReinstallGraph, Uninstall, Mode

\* A script that registers its source breaks nothing that depends on it.
LEMMA StartsBreakNothing ==
    ASSUME TypeOK, TodoInv, GraphInv, NEW s \in Catalog, ScriptStarts(s),
           NEW a \in App, NEW n \in registry[a].needs, InPlace(n, registry),
           n.app \in plan.known, plan.mode # "resume", ~plan.force, ~plan.chain
    PROVE  InPlace(n, registry')
<1>1. /\ s \in plan.todo /\ s \in plan.todo \ running
      /\ plan.mode \in {"install", "upgrade", "reinstall"} /\ s.app \notin plan.doomed
      /\ registry'[s.app] = [version |-> s.version, status |-> "R", needs |-> s.needs]
      /\ \A b \in App \ {s.app} : registry'[b] = registry[b]
  BY StartsOnNeeds
<1>2. n \in Need /\ n.app \in App /\ n.range \in VersionRange /\ s.version \in Version
      /\ s.app \in App /\ registry[s.app].version \in Version
  BY AtWork, SourceFields DEF Need
<1>3. CASE n.app # s.app
  BY <1>1, <1>2, <1>3 DEF InPlace
<1>4. CASE n.app = s.app
  <2>1. plan.mode = "upgrade"
    BY <1>1, <1>4 DEF TodoInv, InPlace
  <2>2. a \in Dependents(s.app)
    BY <1>4 DEF Dependents
  <2>3. s.version[1] <= registry[s.app].version[1]
    BY <1>1, <2>1, <2>2 DEF GraphInv, UpgradeInv
  <2>4. ~Less(s.version, registry[s.app].version)
    BY <1>1, <2>1 DEF TodoInv
  <2>5. registry'[s.app] # NotInstalled /\ registry'[s.app].version = s.version
    BY <1>1, NotInstalledType
  <2> QED BY <1>2, <1>4, <2>3, <2>4, <2>5, CaretAccepts DEF InPlace
<1> QED BY <1>3, <1>4

\* A removal breaks only what is to be removed as well.
LEMMA RemovalsBreakDoomed ==
    ASSUME TypeOK, GraphInv, NEW b \in App, Remove(b), b \in plan.known,
           NEW a \in App, NEW n \in registry[a].needs, n.app = b
    PROVE  a \in plan.doomed
<1>1. plan \in Plan /\ b \in plan.doomed /\ a \in Dependents(b)
  BY DEF Remove, TypeOK, NoPlan, Dependents
<1>2. registry[a] # NotInstalled
  BY DEF NotInstalled
<1> QED BY <1>1, <1>2 DEF GraphInv, RemovalInv, Plan

\* No step of an install, upgrade, reinstall or reset takes from a registered
\* application what it depends on, for every catalog and whatever operators
\* supply, unless the application goes in the same plan, the upgrade is forced
\* or a chain, or dbpm has not asked Core about what it replaces (the guards of
\* _enforce_installed_state and _enforce_major_upgrade_dependencies).
THEOREM GraphIsKept == Spec => DependenciesKept
<1> DEFINE Kept == \A a \in App \ plan.doomed : \A n \in registry[a].needs :
          InPlace(n, registry) /\ ~InPlace(n, registry')
              => \/ plan.mode \in {"uninstall", "resume"}
                 \/ plan.force \/ plan.chain
                 \/ n.app \notin plan.known
<1>1. TypeOK /\ TodoInv /\ GraphInv /\ [Next]_vars => [Kept]_vars
  <2> SUFFICES ASSUME TypeOK, TodoInv, GraphInv, [Next]_vars,
                      NEW a \in App \ plan.doomed, NEW n \in registry[a].needs,
                      InPlace(n, registry), ~InPlace(n, registry'),
                      plan.mode \notin {"uninstall", "resume"}, ~plan.force,
                      ~plan.chain, n.app \in plan.known
               PROVE  FALSE
    OBVIOUS
  <2>1. n.app \in App
    BY AtWork DEF Need
  <2>2. ASSUME NEW s \in Catalog, ScriptStarts(s) PROVE FALSE
    BY <2>2, StartsBreakNothing
  <2>3. ~Remove(n.app)
    BY <2>1, RemovalsBreakDoomed
  <2>4. ASSUME NEW s \in Catalog, UninstallRuns(s) PROVE FALSE
    BY <2>4 DEF UninstallRuns
  <2> QED BY <2>2, <2>3, <2>4, OnlyRemovalsBreak
<1> QED BY <1>1, GraphInvariant, PTL DEF Spec, DependenciesKept

\* Scripts start on complete dependencies of accepted versions only, for every
\* catalog and in every plan that resolves dependencies at all (the order of
\* the resolver, and what it takes for satisfied).
THEOREM ScriptsFindDependencies == Spec => DeployedOnDependencies
<1> DEFINE Found == \A s \in Catalog :
          running = {} /\ running' = {s} /\ plan.mode # "resume" /\ ~plan.chain
              => Served(s, registry)
<1>1. TypeOK /\ TodoInv /\ GraphInv /\ [Next]_vars => [Found]_vars
  <2> SUFFICES ASSUME TypeOK, TodoInv, GraphInv, [Next]_vars, NEW s \in Catalog,
                      running = {}, running' = {s}, plan.mode # "resume", ~plan.chain
               PROVE  Served(s, registry)
    OBVIOUS
  <2>1. ScriptStarts(s)
    BY OnlyStartsStart
  <2> QED BY <2>1, StartsOnNeeds
<1> QED BY <1>1, GraphInvariant, PTL DEF Spec, DeployedOnDependencies

\* A plan that ends without a fault has deployed its root and everything that
\* it depends on, for every catalog.
THEOREM PlansDeliver == Spec => PlanDelivers
<1> DEFINE Delivered == \A s \in Catalog, root \in plan.root :
              plan.todo = {s} /\ ScriptEnds(s)
              => /\ registry'[root.app] = [version |-> root.version, status |-> "C",
                                           needs |-> root.needs]
                 /\ plan.mode # "resume" => Served(root, registry')
<1>1. TypeOK /\ TodoInv /\ GraphInv => [Delivered]_vars
  <2> SUFFICES ASSUME TypeOK, TodoInv, GraphInv, NEW s \in Catalog, NEW root \in plan.root,
                      plan.todo = {s}, ScriptEnds(s)
               PROVE  /\ registry'[root.app] = [version |-> root.version, status |-> "C",
                                                needs |-> root.needs]
                      /\ plan.mode # "resume" => Served(root, registry')
    OBVIOUS
  <2>1. /\ s \in running /\ plan \in Plan /\ s.app \in App /\ root \in Catalog
        /\ root.app \in App
    BY AtWork, SourceFields DEF ScriptEnds, TypeOK, NoPlan
  <2>2. /\ registry'[s.app] = [version |-> registry[s.app].version, status |-> "C",
                               needs |-> registry[s.app].needs]
        /\ \A b \in App \ {s.app} : registry'[b] = registry[b]
    BY <2>1, StatusChange DEF ScriptEnds, GraphInv
  <2>3. /\ plan.mode # "uninstall"
        /\ registry[s.app].version = s.version /\ registry[s.app].needs = s.needs
        /\ plan.mode # "resume" /\ ~plan.chain => Served(s, registry)
    BY <2>1 DEF GraphInv, RunningInv
  <2>4. Deploys \/ plan.mode = "resume"
    BY <2>1, <2>3 DEF Plan, Mode, Deploys, TodoInv
  <2>5. \A n \in root.needs : n.app \in App /\ n.app # root.app
    BY <2>1, NeedsOthers
  <2>6. CASE root = s
    <3>1. plan.mode # "resume" => Served(s, registry)
      <4>1. plan.chain => s.needs = {}
        BY <2>6 DEF GraphInv, OneEachInv
      <4> QED BY <2>3, <4>1 DEF Served
    <3> QED BY <2>1, <2>2, <2>3, <2>5, <2>6, <3>1 DEF Served
  <2>7. CASE root # s
    <3>1. /\ registry[root.app] = [version |-> root.version, status |-> "C",
                                   needs |-> root.needs]
          /\ s.app # root.app
          /\ Deploys => Served(root, registry) /\ \A n \in root.needs : n.app # s.app
      BY <2>4, <2>7 DEF GraphInv, RootInv, NeedsDone
    <3> QED BY <2>1, <2>2, <2>4, <2>5, <3>1 DEF Served
  <2> QED BY <2>6, <2>7
<1> QED BY <1>1, GraphInvariant, PTL DEF Spec, PlanDelivers

-----------------------------------------------------------------------------
(* Upgrades pass through the published minor versions *)

Published(a) == {t \in Catalog : t.app = a /\ t.origin = "maven"}

\* What a package upgraded on its own has still to pass through.
MinorsInv ==
    plan.mode = "upgrade" /\ plan.single => \A root \in plan.root :
        LET from == registry[root.app].version IN
        /\ plan.doomed = {}
        /\ root.origin = "maven" =>
             /\ \A s \in plan.todo :
                    s.app = root.app /\ ~Less(Minor(root.version), Minor(s.version))
             /\ \A s \in plan.todo \ running : ~Less(Minor(s.version), Minor(from))
             /\ \/ plan.todo = {root} /\ (running = {} => Direct(from, root))
                \/ \A t \in Published(root.app) :
                       Less(Minor(from), Minor(t.version))
                       /\ Less(Minor(t.version), Minor(root.version))
                       => \E u \in plan.todo \ running : Minor(u.version) = Minor(t.version)

LEMMA MinorOrder ==
    ASSUME NEW v \in Version, NEW w \in Version
    PROVE  /\ Less(Minor(v), Minor(w)) => Less(v, w)
           /\ Minor(v) \in Version
           /\ ~Less(Minor(v), Minor(v))
BY DEF Less, Minor, Version

LEMMA LessTransitive ==
    ASSUME NEW u \in Version, NEW v \in Version, NEW w \in Version
    PROVE  /\ Less(u, v) /\ ~Less(w, v) => Less(u, w)
           /\ ~Less(v, u) /\ Less(v, w) => Less(u, w)
           /\ Less(u, v) \/ Less(v, u) \/ u = v
BY DEF Less, Version

\* Every published minor version between has its milestone, the lowest patch.
LEMMA MilestoneExists ==
    ASSUME NEW from \in Version, NEW root \in Catalog, NEW t \in Published(root.app),
           Less(Minor(from), Minor(t.version)), Less(Minor(t.version), Minor(root.version))
    PROVE  \E u \in Milestones(from, root) : Minor(u.version) = Minor(t.version)
<1> DEFINE B == {u \in Published(root.app) : Minor(u.version) = Minor(t.version)}
           P == {u.version[3] : u \in B}
<1>1. \A u \in B : u \in Catalog /\ u.version \in Version /\ u.version[3] \in Nat
  BY SourceFields DEF Published, Version
<1>2. t \in B
  OBVIOUS
<1>3. P \subseteq Nat /\ P # {}
  BY <1>1, <1>2
<1>4. PICK p \in P : \A q \in P : ~ (<<q, p>> \in OpToRel(<, Nat))
  BY <1>3, NatLessThanWellFounded, WFMin
<1>5. \A q \in P : ~ (q < p)
  BY <1>3, <1>4 DEF OpToRel
<1>6. PICK u \in B : p = u.version[3]
  OBVIOUS
<1>7. \A w \in B : ~ (w.version[3] < u.version[3])
  BY <1>5, <1>6
<1>8. \A w \in B : ~Less(w.version, u.version)
  BY <1>1, <1>7 DEF Less, Minor, Version
<1>9. /\ u \in Catalog /\ u.app = root.app /\ u.origin = "maven"
      /\ Minor(u.version) = Minor(t.version)
  BY DEF Published
<1>10. ASSUME NEW w \in Catalog, w.app = root.app, w.origin = "maven",
              Minor(w.version) = Minor(u.version)
       PROVE  w \in B
  BY <1>9, <1>10 DEF Published
<1> HIDE DEF B, P
<1>11. u \in Milestones(from, root)
  BY <1>8, <1>9, <1>10 DEF Milestones
<1> QED BY <1>9, <1>11

\* An upgrade that is no chain goes directly, or finds no minors in between.
LEMMA UpgradeBegins ==
    ASSUME TypeOK, NEW root \in Catalog, NEW D \in Supplies, NEW force \in BOOLEAN,
           Upgrade(root, D, force)
    PROVE  MinorsInv'
<1> DEFINE from == registry[root.app].version
<1>0. from \in Version /\ root.version \in Version /\ registry[root.app] \in Row
      /\ root.app \in App
  BY SourceFields, AtWork
<1> SUFFICES ASSUME plan'.single PROVE MinorsInv'
  BY DEF MinorsInv
<1>1. /\ Submit("upgrade", FALSE, force, root, D) /\ ~Chained(root, D)
      /\ "upgrade" \in Mode /\ FALSE \in BOOLEAN
  BY DEF Upgrade, Mode
<1>2. PICK T \in Resolutions("upgrade", FALSE, Seen(Known(root, D)), root, D) :
          /\ PlanPasses("upgrade", FALSE, force, Seen(Known(root, D)), Known(root, D),
                        root, T)
          /\ plan' = [mode |-> "upgrade", root |-> {root}, todo |-> T,
                      doomed |-> Doomed("upgrade", FALSE, root, T),
                      known |-> Known(root, D), single |-> root.needs = {} /\ D = {},
                      graph |-> FALSE, chain |-> FALSE, force |-> force]
  BY <1>1 DEF Submit
<1>3. root.needs = {} /\ D = {}
  BY <1>2
<1>4. T = {root}
  BY <1>2, <1>3, ResolvesAlone
<1>5. Seen(Known(root, D))[root.app] = registry[root.app]
  BY <1>0 DEF Seen, Known
<1>6. registry[root.app].status = "C" /\ Less(from, root.version)
  <2>1. \E deps : StateAllows(ChildMode("upgrade", FALSE, root, root),
                              Seen(Known(root, D))[root.app], root, deps)
    BY <1>2, <1>4 DEF PlanPasses
  <2> QED BY <1>5, <2>1 DEF StateAllows, ChildMode
<1>7. root.origin = "maven" => Direct(from, root) \/ Milestones(from, root) = {}
  BY <1>1, <1>3, <1>6, NotInstalledType DEF Chained, Alone
<1>8. ~Less(Minor(root.version), Minor(from))
  BY <1>0, <1>6 DEF Less, Minor, Version
<1>9. ~Less(Minor(root.version), Minor(root.version))
  BY <1>0, MinorOrder
<1>10. /\ plan'.root = {root} /\ plan'.todo = {root} /\ plan'.doomed = {}
       /\ registry' = registry /\ running' = {}
  <2>1. running' = {} /\ registry' = registry
    BY <1>1, AtWork, NoPlanFields DEF Submit
  <2> QED BY <1>2, <1>4, <2>1 DEF Doomed
<1>11. root.origin = "maven" /\ ~Direct(from, root) =>
           \A t \in Published(root.app) :
               ~ (/\ Less(Minor(from), Minor(t.version))
                  /\ Less(Minor(t.version), Minor(root.version)))
  BY <1>0, <1>7, MilestoneExists
<1> QED BY <1>8, <1>9, <1>10, <1>11 DEF MinorsInv

\* A chain has a step for every minor version in between.
LEMMA ChainBegins ==
    ASSUME TypeOK, NEW root \in Catalog, UpgradeChain(root)
    PROVE  MinorsInv'
<1> DEFINE from == registry[root.app].version
<1>0. from \in Version /\ root.version \in Version /\ registry[root.app] \in Row
      /\ root.app \in App
  BY SourceFields, AtWork
<1> DEFINE M == Milestones(from, root)
<1>1. [registry[root.app] EXCEPT !.status = "C"].version = from
  BY <1>0 DEF Row
<1>2. /\ plan'.mode = "upgrade" /\ plan'.root = {root} /\ plan'.single
      /\ plan'.todo = M \cup {root} /\ plan'.doomed = {}
      /\ \A s \in M \cup {root} :
             StateAllows("upgrade", [registry[root.app] EXCEPT !.status = "C"], s, {})
      /\ registry' = registry
  BY <1>1 DEF UpgradeChain, Solo
<1>3. running' = {}
  BY AtWork, NoPlanFields DEF UpgradeChain
<1>4. \A s \in M \cup {root} : s \in Catalog /\ s.app = root.app /\ s.version \in Version
  BY SourceFields DEF Milestones
<1>5. \A s \in M \cup {root} : Less(from, s.version)
  BY <1>1, <1>2 DEF StateAllows
<1>6. \A s \in M \cup {root} : ~Less(Minor(s.version), Minor(from))
  BY <1>0, <1>4, <1>5 DEF Less, Minor, Version
<1>7. \A s \in M : Less(Minor(s.version), Minor(root.version))
  BY DEF Milestones
<1>8. \A s \in M \cup {root} : ~Less(Minor(root.version), Minor(s.version))
  BY <1>0, <1>4, <1>7, LessAsymmetric, MinorOrder
<1>9. \A t \in Published(root.app) :
          Less(Minor(from), Minor(t.version))
          /\ Less(Minor(t.version), Minor(root.version))
          => \E u \in M : Minor(u.version) = Minor(t.version)
  BY <1>0, MilestoneExists
<1> HIDE DEF M
<1> QED BY <1>2, <1>3, <1>4, <1>6, <1>8, <1>9 DEF MinorsInv

\* A step of an upgrade starts: what was registered before is older, and no
\* older step of the plan is left.
LEMMA MinorsStart ==
    ASSUME TypeOK, MinorsInv, NEW s \in Catalog, ScriptStarts(s)
    PROVE  MinorsInv'
<1>1. /\ plan' = plan /\ s \in plan.todo /\ running = {} /\ running' = {s}
      /\ \A t \in plan.todo \ {s} : s.app = t.app => ~Less(t.version, s.version)
      /\ s.app \in App /\ s.version \in Version
      /\ registry'[s.app].version = s.version
  BY AtWork DEF ScriptStarts, Ready, TypeOK
<1> SUFFICES ASSUME plan.mode = "upgrade", plan.single, NEW root \in plan.root,
                    root.origin = "maven"
             PROVE  LET from == registry'[root.app].version IN
                    /\ \A t \in plan.todo \ {s} : ~Less(Minor(t.version), Minor(from))
                    /\ \/ plan.todo = {root}
                       \/ \A t \in Published(root.app) :
                              Less(Minor(from), Minor(t.version))
                              /\ Less(Minor(t.version), Minor(root.version))
                              => \E u \in plan.todo \ {s} :
                                     Minor(u.version) = Minor(t.version)
  BY <1>1 DEF MinorsInv
<1>2. /\ \A t \in plan.todo : t.app = root.app /\ t.version \in Version
      /\ registry'[root.app].version = s.version
      /\ registry[root.app].version \in Version /\ root.version \in Version
  BY <1>1, AtWork, SourceFields DEF MinorsInv
<1>3. \A t \in plan.todo \ {s} : ~Less(Minor(t.version), Minor(s.version))
  BY <1>1, <1>2, MinorOrder
<1>4. ~Less(Minor(s.version), Minor(registry[root.app].version))
  BY <1>1 DEF MinorsInv
<1>5. ASSUME plan.todo # {root}, NEW t \in Published(root.app),
             Less(Minor(s.version), Minor(t.version)),
             Less(Minor(t.version), Minor(root.version))
      PROVE  \E u \in plan.todo \ {s} : Minor(u.version) = Minor(t.version)
  <2>1. t.version \in Version
    BY SourceFields DEF Published
  <2>2. Less(Minor(registry[root.app].version), Minor(t.version))
    BY <1>1, <1>2, <1>4, <1>5, <2>1, LessTransitive, MinorOrder
  <2>3. PICK u \in plan.todo : Minor(u.version) = Minor(t.version)
    BY <1>5, <2>2 DEF MinorsInv
  <2>4. u # s
    BY <1>1, <1>5, <2>3, MinorOrder
  <2> QED BY <2>3, <2>4
<1> QED BY <1>2, <1>3, <1>5

LEMMA MinorsStep == TypeOK /\ MinorsInv /\ [Next]_vars => MinorsInv'
<1> SUFFICES ASSUME TypeOK, MinorsInv, [Next]_vars PROVE MinorsInv'
  OBVIOUS
<1>1. ASSUME NEW root \in Catalog, NEW D \in Supplies,
             Install(root, D) \/ Reinstall(root, D) \/ ReinstallGraph(root, D)
             \/ Uninstall(root, D)
      PROVE  MinorsInv'
  <2>1. PICK mode \in {"install", "reinstall", "uninstall"}, graph \in BOOLEAN :
            Submit(mode, graph, FALSE, root, D)
    BY <1>1 DEF Install, Reinstall, ReinstallGraph, Uninstall
  <2>2. plan'.mode # "upgrade"
    BY <2>1 DEF Submit
  <2> QED BY <2>2 DEF MinorsInv
<1>0. ASSUME (\E root \in Catalog : UninstallRecorded(root) \/ Resume(root))
             \/ ResetEnvironment
      PROVE  MinorsInv'
  <2>1. plan'.mode \in {"uninstall", "resume", "reset"}
    BY <1>0 DEF UninstallRecorded, Resume, ResetEnvironment, Solo, Removing
  <2> QED BY <2>1 DEF MinorsInv
<1>2. ASSUME plan' = NoPlan PROVE MinorsInv'
  BY <1>2, NoPlanFields DEF MinorsInv
<1>3. ASSUME NEW a \in App, Remove(a) PROVE MinorsInv'
  <2>1. plan \in Plan /\ a \in plan.doomed
    BY <1>3 DEF Remove, TypeOK, NoPlan
  <2>2. CASE plan' = [plan EXCEPT !.doomed = @ \ {a}]
    <3>1. plan'.mode = plan.mode /\ plan'.single = plan.single /\ plan'.root = plan.root
      BY <2>1, <2>2 DEF Plan
    <3> QED BY <2>1, <3>1 DEF MinorsInv
  <2> QED BY <1>2, <1>3, <2>2 DEF Remove
<1>4. ASSUME NEW s \in Catalog, ScriptEnds(s) PROVE MinorsInv'
  <2>1. /\ plan \in Plan /\ s \in running /\ running = {s} /\ s \in plan.todo
        /\ running' = {} /\ s.app \in App
        /\ \/ plan' = NoPlan
           \/ plan' = [plan EXCEPT !.todo = @ \ {s}]
    BY <1>4, AtWork DEF ScriptEnds, After, TypeOK, NoPlan
  <2>2. \A a \in App : registry'[a].version = registry[a].version
    BY <1>4, <2>1, StatusTypes DEF ScriptEnds
  <2>3. CASE plan' = [plan EXCEPT !.todo = @ \ {s}] /\ plan' # NoPlan
    <3>1. /\ plan'.mode = plan.mode /\ plan'.single = plan.single /\ plan'.root = plan.root
          /\ plan'.doomed = plan.doomed /\ plan'.todo = plan.todo \ {s}
      BY <2>1, <2>3 DEF Plan
    <3>2. plan.todo # {s}
      BY <1>4, <2>3 DEF ScriptEnds, After
    <3>3. \A root \in plan.root : root.app \in App
      BY AtWork, SourceFields
    <3> QED BY <2>1, <2>2, <3>1, <3>2, <3>3 DEF MinorsInv
  <2> QED BY <1>2, <2>1, <2>3
<1>5. ASSUME NEW s \in Catalog, UninstallRuns(s) PROVE MinorsInv'
  <2>1. plan \in Plan /\ plan.mode = "uninstall" /\ plan' = After(s)
    BY <1>5 DEF UninstallRuns, TypeOK, NoPlan
  <2> QED BY <2>1, PlanLeft, NoPlanFields DEF MinorsInv
<1>6. CASE UNCHANGED vars
  BY <1>6 DEF vars, MinorsInv
<1> QED BY <1>0, <1>1, <1>2, <1>3, <1>4, <1>5, <1>6, UpgradeBegins, ChainBegins,
           MinorsStart DEF Next, ScriptFails, Interrupted

\* A package upgraded on its own from Maven passes through the minor versions
\* published in between, unless it says that it upgrades directly; for every
\* catalog (resolve_upgrade_chain, and the order of the chain's steps).
THEOREM MinorsNotSkipped == Spec => ThroughMinors
<1> DEFINE Through == \A s \in Catalog, root \in plan.root :
          /\ running = {} /\ running' = {s}
          /\ plan.mode = "upgrade" /\ plan.single /\ root.origin = "maven"
          => LET from == registry[s.app].version
             IN  \/ Direct(from, root)
                 \/ ~\E t \in Catalog :
                        /\ t.app = s.app /\ t.origin = "maven"
                        /\ Less(Minor(from), Minor(t.version))
                        /\ Less(Minor(t.version), Minor(s.version))
<1>1. TypeOK /\ MinorsInv /\ [Next]_vars => [Through]_vars
  <2> SUFFICES ASSUME TypeOK, MinorsInv, [Next]_vars, NEW s \in Catalog,
                      NEW root \in plan.root, running = {}, running' = {s},
                      plan.mode = "upgrade", plan.single, root.origin = "maven",
                      ~Direct(registry[s.app].version, root), NEW t \in Catalog,
                      t.app = s.app, t.origin = "maven",
                      Less(Minor(registry[s.app].version), Minor(t.version)),
                      Less(Minor(t.version), Minor(s.version))
               PROVE  FALSE
    BY DEF vars
  <2>1. ScriptStarts(s)
    BY OnlyStartsStart
  <2>2. /\ s \in plan.todo
        /\ \A u \in plan.todo \ {s} : s.app = u.app => ~Less(u.version, s.version)
    BY <2>1 DEF ScriptStarts, Ready
  <2>3. /\ \A u \in plan.todo : u.app = root.app /\ u.version \in Version
        /\ ~Less(Minor(root.version), Minor(s.version)) /\ root.version \in Version
        /\ s.version \in Version /\ t.version \in Version
    BY <2>2, AtWork, SourceFields DEF MinorsInv
  <2>4. Less(Minor(t.version), Minor(root.version))
    BY <2>3, LessTransitive, MinorOrder
  <2>5. PICK u \in plan.todo : Minor(u.version) = Minor(t.version)
    BY <2>2, <2>3, <2>4 DEF MinorsInv, Published
  <2>6. Less(u.version, s.version) /\ u # s
    BY <2>3, <2>5, MinorOrder
  <2> QED BY <2>2, <2>3, <2>5, <2>6
<1>2. Init => MinorsInv
  BY DEF Init, MinorsInv, NoPlan
<1>3. Spec => [](TypeOK /\ MinorsInv)
  BY <1>2, MinorsStep, TypesStart, TypesStep, PTL DEF Spec
<1> QED BY <1>1, <1>3, PTL DEF Spec, ThroughMinors
===============================================================================
