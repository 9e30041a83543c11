--------------------------- MODULE ApplicationGraph ---------------------------
(***************************************************************************)
(* The applications registered in Core and the plans that change them      *)
(* (cli._build_plan and its relatives, resolver, chain, environment, and   *)
(* executor.execute_plan): an operator submits one command after another,  *)
(* dbpm resolves the dependency graph, checks the plan against what Core   *)
(* says is installed, and then removes and deploys application by          *)
(* application.  Every script may fail and dbpm may die between two calls. *)
(*                                                                         *)
(* One operator is at work: several of them on one application are the     *)
(* subject of CompositeOperation.  Scripts and hooks are those of ordinary *)
(* applications; Core itself is installed, complete and stays.             *)
(***************************************************************************)
EXTENDS Integers, FiniteSets

CONSTANTS
    App,           \* names of applications
    Catalog,       \* the package sources an operator may name
    Supplies,      \* what an operator may pass with --dependency-source
    Locked,        \* does Core say DEPLOY_LOCKED=Y?
    Capabilities   \* the DBPM_ALLOW_ capabilities Core grants

\* Versions are <<major, minor, patch>>.
Version == Nat \X Nat \X Nat

\* A dependency of a manifest, and what scripts.upgrade_from asks for.
VersionRange == [kind: {"exact", "tilde", "caret"}, base: Version]
Need  == [app: App, range: VersionRange]

\* A package that can be deployed, and where dbpm is told to get it.
Source == [app: App, version: Version, needs: SUBSET Need,
           upgradeFrom: SUBSET VersionRange,   \* at most one
           origin: {"directory", "maven", "registry"}]

Capability == {"GRAPH_RESET", "MUTABLE_SOURCE", "SAME_VERSION_REPLACE",
               "ENVIRONMENT_RESET"}

\* The manifests have no cycle: _resolve_dependency_order raises on one.
Acyclic == \E rank \in [App -> 1..Cardinality(App)] :
               \A s \in Catalog : \A n \in s.needs : rank[n.app] < rank[s.app]

ASSUME CatalogAssumption ==
    /\ IsFiniteSet(App) /\ IsFiniteSet(Catalog)
    /\ Catalog \subseteq Source
    /\ \A s \in Catalog : Cardinality(s.upgradeFrom) <= 1
    /\ Acyclic
    /\ Supplies \subseteq SUBSET Catalog
    /\ \A D \in Supplies : \A s, t \in D : s.app = t.app => s = t
    /\ Locked \in BOOLEAN
    /\ Capabilities \subseteq Capability

VARIABLES
    registry,   \* Core's APPLICATION and APP_DEPENDENCY rows
    plan,       \* the plan that is being carried out
    running     \* the source whose script is running, as a set of at most one

vars == <<registry, plan, running>>

-----------------------------------------------------------------------------
(* Types *)

NotInstalled == [version |-> <<0, 0, 0>>, status |-> "-", needs |-> {}]

Mode == {"install", "upgrade", "reinstall", "uninstall", "resume", "reset"}

\* todo: the sources still to be deployed (or uninstalled); doomed: the
\* applications still to be removed first; known: the applications whose rows
\* dbpm has read for the plan; single: a plan without "packages"; graph: the
\* whole graph of the root is replaced; chain: an upgrade through milestones;
\* force: --allow-dependent-break is given.  A reset has no root.
Plan == [mode: Mode, root: SUBSET Catalog, todo: SUBSET Catalog,
         doomed: SUBSET App, known: SUBSET App, single: BOOLEAN,
         graph: BOOLEAN, chain: BOOLEAN, force: BOOLEAN]

\* A plan for the root alone.
Solo(mode, root, todo, chain) ==
    [mode |-> mode, root |-> {root}, todo |-> todo, doomed |-> {},
     known |-> {root.app}, single |-> TRUE, graph |-> FALSE, chain |-> chain,
     force |-> FALSE]

\* A plan that deploys nothing.
Removing(mode, doomed) ==
    [mode |-> mode, root |-> {}, todo |-> {}, doomed |-> doomed,
     known |-> App, single |-> FALSE, graph |-> FALSE, chain |-> FALSE,
     force |-> FALSE]

NoPlan == Removing("none", {})

Idle == plan = NoPlan

TypeOK ==
    /\ registry \in [App -> [version: Version, status: {"-", "R", "F", "C"},
                             needs: SUBSET Need]]
    /\ \A a \in App : registry[a].status = "-" <=> registry[a] = NotInstalled
    /\ Idle \/ plan \in Plan
    /\ running \subseteq plan.todo
    /\ \A s, t \in running : s = t
    /\ \A s \in running : registry[s.app].status = "R"

-----------------------------------------------------------------------------
(* Versions and ranges *)

Less(v, w) ==
    \/ v[1] < w[1]
    \/ v[1] = w[1] /\ v[2] < w[2]
    \/ v[1] = w[1] /\ v[2] = w[2] /\ v[3] < w[3]

\* Below which version a range ends.
Bound(r) == CASE r.kind = "caret" -> <<r.base[1] + 1, 0, 0>>
              [] r.kind = "tilde" -> <<r.base[1], r.base[2] + 1, 0>>
              [] r.kind = "exact" -> <<r.base[1], r.base[2], r.base[3] + 1>>

Satisfies(v, r) == ~Less(v, r.base) /\ Less(v, Bound(r))

\* Mutant: the status is not looked at.
HoldsAnyStatus(row, r) == row.status # "-" /\ Satisfies(row.version, r)

\* An installed application that an install need not touch.
Holds(row, r) == row.status = "C" /\ Satisfies(row.version, r)

\* The applications registered as depending on a.
Dependents(a) == {b \in App : \E n \in registry[b].needs : n.app = a}

-----------------------------------------------------------------------------
(* The resolver: which sources a command deploys *)

\* dbpm asks Core about the root, what it needs and what was supplied; of
\* every other application it knows no row and no dependents.
Known(root, D) ==
    {root.app} \cup {n.app : n \in root.needs} \cup {d.app : d \in D}

Seen(known) == [a \in App |-> IF a \in known THEN registry[a] ELSE NotInstalled]

SeenDependents(known, a) == IF a \in known THEN Dependents(a) ELSE {}

Supplied(D, n) == {d \in D : d.app = n.app}

\* What those that need n.app find under its name: what was supplied, and
\* what was loaded from the registry for one of the sources T.  (The manifests
\* list their needs in an order in which it is loaded before it is looked for.)
Available(T, D, n) == {d \in D \cup T : d.app = n.app}

\* The needs of s that an install has to do something about.
Unmet(graph, seen, s) == {n \in s.needs : graph \/ ~Holds(seen[n.app], n.range)}

\* The needs of s that make dbpm visit their source.
Visits(mode, graph, seen, s, T, D) ==
    Unmet(graph, seen, s) \cup
    {n \in s.needs : /\ mode = "upgrade"
                     /\ \E d \in Available(T, D, n) :
                            Less(seen[n.app].version, d.version)}

\* An upgrade does not accept a source for what is not installed, or one of a
\* version that the consumer does not accept.
Refused(mode, seen, s, T, D) ==
    /\ mode = "upgrade"
    /\ \E n \in s.needs : \E d \in Available(T, D, n) :
           ~Satisfies(d.version, n.range) \/ seen[n.app] = NotInstalled

\* For an unmet need of a package that came from the registry, and for which
\* nothing was supplied, dbpm loads a version from there that the range
\* accepts, and offers it to everyone else.
Loaded(graph, seen, T, D) ==
    {t \in T : /\ t.origin = "registry"
               /\ \E s \in T : /\ s.origin = "registry"
                               /\ \E n \in Unmet(graph, seen, s) :
                                     /\ n.app = t.app /\ Supplied(D, n) = {}
                                     /\ Satisfies(t.version, n.range)}

\* The sets of sources with which _resolve_dependency_order can answer; none
\* when it raises.
Resolutions(mode, graph, seen, root, D) ==
    LET candidates == D \cup {s \in Catalog : s.origin = "registry"}
        Resolved(T) ==
            /\ T \subseteq {root} \cup D \cup Loaded(graph, seen, T, D)
            /\ \A s, t \in T : s.app = t.app => s = t
            /\ \A s \in T :
                 /\ ~Refused(mode, seen, s, T, D)
                 /\ \A n \in Visits(mode, graph, seen, s, T, D) :
                      \E t \in T : t.app = n.app /\ Satisfies(t.version, n.range)
            /\ \A t \in T \ {root} : \E s \in T :
                   \E n \in Visits(mode, graph, seen, s, T, D) : n.app = t.app
    IN  {T \in {U \cup {root} : U \in SUBSET candidates} : Resolved(T)}

-----------------------------------------------------------------------------
(* What a plan must pass before anything is changed *)

\* Each package of a plan has a mode of its own.
ChildMode(mode, graph, root, s) ==
    IF graph THEN "reinstall"
    ELSE IF s = root \/ mode \in {"upgrade", "uninstall"} THEN mode ELSE "install"

\* The capabilities a reinstall must have been granted.
Required(mode, graph, seen, root) ==
    {c \in Capability :
        /\ mode = "reinstall"
        /\ \/ c = "GRAPH_RESET" /\ graph
           \/ /\ seen[root.app] # NotInstalled
              /\ \/ c = "MUTABLE_SOURCE" /\ root.origin = "directory"
                 \/ /\ c = "SAME_VERSION_REPLACE"
                    /\ seen[root.app].version = root.version}

\* DeploymentPolicy.evaluate: --allow-destructive counts for the root only.
Permitted(mode, root, s) ==
    /\ mode \in {"reinstall", "uninstall"} => ~Locked
    /\ mode = "uninstall" => s = root

\* Mutants: the dependents of a reinstalled application are not looked at; an
\* upgrade accepts any other version.
StateAllowsUnasked(mode, row, s, dependents) ==
    CASE mode = "install"   -> row = NotInstalled
      [] mode = "upgrade"   -> row.status = "C" /\ Less(row.version, s.version)
      [] mode = "reinstall" -> TRUE
      [] mode = "uninstall" -> row.status \in {"-", "C"}
      [] mode = "resume"    -> row.status \in {"R", "F"}

StateAllowsDowngrade(mode, row, s, dependents) ==
    CASE mode = "install"   -> row = NotInstalled
      [] mode = "upgrade"   -> row.status = "C" /\ row.version # s.version
      [] mode = "reinstall" -> dependents = {}
      [] mode = "uninstall" -> row.status \in {"-", "C"}
      [] mode = "resume"    -> row.status \in {"R", "F"}

\* _enforce_installed_state.
StateAllows(mode, row, s, dependents) ==
    CASE mode = "install"   -> row = NotInstalled
      [] mode = "upgrade"   -> row.status = "C" /\ Less(row.version, s.version)
      [] mode = "reinstall" -> dependents = {}
      [] mode = "uninstall" -> row.status \in {"-", "C"}
      [] mode = "resume"    -> row.status \in {"R", "F"}

\* _enforce_major_upgrade_dependencies.
MajorAllows(mode, row, s, dependents, force) ==
    mode = "upgrade" /\ s.version[1] > row.version[1] => dependents = {} \/ force

\* Mutant: only the root is checked against what is registered.
PlanPassesForRoot(mode, graph, force, seen, known, root, T) ==
    /\ Required(mode, graph, seen, root) \subseteq Capabilities
    /\ \A s \in T : Permitted(ChildMode(mode, graph, root, s), root, s)
    /\ LET deps == SeenDependents(known, root.app)
                     \ (IF graph THEN {t.app : t \in T} ELSE {})
       IN  /\ StateAllows(mode, seen[root.app], root, deps)
           /\ MajorAllows(mode, seen[root.app], root, deps, force)

PlanPasses(mode, graph, force, seen, known, root, T) ==
    /\ Required(mode, graph, seen, root) \subseteq Capabilities
    /\ \A s \in T :
         LET m    == ChildMode(mode, graph, root, s)
             deps == SeenDependents(known, s.app)
                       \ (IF graph THEN {t.app : t \in T} ELSE {})
         IN  /\ Permitted(m, root, s)
             /\ StateAllows(m, seen[s.app], s, deps)
             /\ MajorAllows(m, seen[s.app], s, deps, force)

-----------------------------------------------------------------------------
(* The commands *)

Init ==
    /\ registry = [a \in App |-> NotInstalled]
    /\ plan = NoPlan
    /\ running = {}

\* What must go before it is deployed: the root of a reinstall, or its graph.
Doomed(mode, graph, root, T) ==
    {a \in App : /\ mode = "reinstall"
                 /\ a = root.app \/ (graph /\ \E s \in T : s.app = a)}

\* A command that is resolved, checked and started.
Submit(mode, graph, force, root, D) ==
    /\ Idle
    /\ LET known == Known(root, D)
           seen  == Seen(known)
       IN  \E T \in Resolutions(mode, graph, seen, root, D) :
             /\ PlanPasses(mode, graph, force, seen, known, root, T)
             /\ plan' = [mode |-> mode, root |-> {root}, todo |-> T,
                         doomed |-> Doomed(mode, graph, root, T), known |-> known,
                         single |-> root.needs = {} /\ D = {}, graph |-> graph,
                         chain |-> FALSE, force |-> force]
    /\ UNCHANGED <<registry, running>>

Install(root, D) == Submit("install", FALSE, FALSE, root, D)

\* One package on its own: Maven's milestones, in a plan of several upgrades.
Minor(v) == <<v[1], v[2], 0>>

\* Mutant: the milestones from the second minor on.
LateMilestones(from, root) ==
    LET published == {s \in Catalog : s.app = root.app /\ s.origin = "maven"}
        between   == {s \in published : /\ Less(Minor(from), Minor(s.version))
                                        /\ Less(Minor(s.version), Minor(root.version))}
    IN  {s \in between : \E t \in between : Less(Minor(t.version), Minor(s.version))}

Milestones(from, root) ==
    LET published == {s \in Catalog : s.app = root.app /\ s.origin = "maven"}
        between   == {s \in published : /\ Less(Minor(from), Minor(s.version))
                                        /\ Less(Minor(s.version), Minor(root.version))}
    IN  {s \in between : \A t \in between :
             Minor(t.version) = Minor(s.version) => ~Less(t.version, s.version)}

Direct(from, root) == \E r \in root.upgradeFrom : Satisfies(from, r)

Alone(root, D) == root.needs = {} /\ D = {}

Chained(root, D) ==
    /\ Alone(root, D) /\ registry[root.app] # NotInstalled
    /\ root.origin = "maven"
    /\ ~Direct(registry[root.app].version, root)
    /\ Milestones(registry[root.app].version, root) # {}

\* resolve_upgrade_chain refuses to chain what is not from Maven.
Unchainable(root, D) ==
    /\ Alone(root, D) /\ registry[root.app] # NotInstalled
    /\ root.origin # "maven" /\ root.upgradeFrom # {}
    /\ ~Direct(registry[root.app].version, root)

Upgrade(root, D, force) ==
    /\ ~Chained(root, D) /\ ~Unchainable(root, D)
    /\ Submit("upgrade", FALSE, force, root, D)

\* The first step is checked against a state that _build_chain_plan made up
\* (this version, "C"), and no step against dependents, with and without
\* --allow-dependent-break.  The later steps are checked against what their
\* predecessor has left; what a milestone needs is not looked at.
UpgradeChain(root) ==
    /\ Idle
    /\ Chained(root, {})
    /\ LET row == [registry[root.app] EXCEPT !.status = "C"]
           T   == Milestones(row.version, root) \cup {root}
       IN  /\ \A s \in T : StateAllows("upgrade", row, s, {})
           /\ plan' = Solo("upgrade", root, T, TRUE)
    /\ UNCHANGED <<registry, running>>

Reinstall(root, D) == Submit("reinstall", FALSE, FALSE, root, D)

\* reinstall --cascade graph.  Without dependencies it is a plain reinstall
\* that asks for one more capability.
ReinstallGraph(root, D) ==
    ~Alone(root, D) /\ Submit("reinstall", TRUE, FALSE, root, D)

\* Dependents are read and not looked at.
Uninstall(root, D) == Submit("uninstall", FALSE, FALSE, root, D)

\* uninstall --application: from the receipt that was written when this version
\* was deployed, without resolving anything.
UninstallRecorded(root) ==
    /\ Idle
    /\ registry[root.app].version = root.version
    /\ Permitted("uninstall", root, root)
    /\ StateAllows("uninstall", registry[root.app], root, {})
    /\ plan' = Solo("uninstall", root, {root}, FALSE)
    /\ UNCHANGED <<registry, running>>

\* resume looks neither at dependencies nor at the version that is registered.
Resume(root) ==
    /\ Idle
    /\ StateAllows("resume", registry[root.app], root, {})
    /\ plan' = Solo("resume", root, {root}, FALSE)
    /\ UNCHANGED <<registry, running>>

\* dev reset-environment.
ResetEnvironment ==
    /\ Idle
    /\ "ENVIRONMENT_RESET" \in Capabilities /\ ~Locked
    /\ \E a \in App : registry[a] # NotInstalled
    /\ plan' = Removing("reset", {a \in App : registry[a] # NotInstalled})
    /\ UNCHANGED <<registry, running>>

-----------------------------------------------------------------------------
(* Carrying out the plan *)

\* Mutant: the order of the command line.
ReadyInAnyOrder == plan.todo

\* Dependencies before their consumers, older before newer; an uninstall the
\* other way round.
Ready ==
    {s \in plan.todo : \A t \in plan.todo \ {s} :
        LET first == IF plan.mode = "uninstall" THEN s ELSE t
            later == IF plan.mode = "uninstall" THEN t ELSE s
        IN  /\ \A n \in later.needs : n.app # first.app
            /\ t.app = s.app => ~Less(t.version, s.version)}

\* A graph is removed consumer first before anything is deployed, by the new
\* manifests' dependencies; a reset follows the registered ones; a plain
\* reinstall removes its root when the root's turn has come.
MayRemove(a) ==
    CASE plan.graph          -> \A s \in plan.todo : s.app \in plan.doomed
                                    => \A n \in s.needs : n.app # a
      [] plan.mode = "reset" -> Dependents(a) \cap plan.doomed = {}
      [] OTHER               -> \E s \in Ready : s.app = a

\* pkg_application.delete_application_p: the rows go with the application.
Remove(a) ==
    /\ running = {}
    /\ a \in plan.doomed /\ MayRemove(a)
    /\ registry' = [registry EXCEPT ![a] = NotInstalled]
    /\ plan' = IF plan.todo = {} /\ plan.doomed = {a} THEN NoPlan
               ELSE [plan EXCEPT !.doomed = @ \ {a}]
    /\ UNCHANGED running

\* The deployment script registers its version and its dependencies first.
ScriptStarts(s) ==
    /\ running = {}
    /\ s \in Ready /\ plan.mode # "uninstall"
    /\ IF plan.graph THEN plan.doomed = {} ELSE s.app \notin plan.doomed
    /\ running' = {s}
    /\ registry' = [registry EXCEPT ![s.app] =
                        [version |-> s.version, status |-> "R", needs |-> s.needs]]
    /\ UNCHANGED plan

After(s) == IF plan.todo = {s} THEN NoPlan ELSE [plan EXCEPT !.todo = @ \ {s}]

ScriptEnds(s) ==
    /\ s \in running
    /\ registry' = [registry EXCEPT ![s.app].status = "C"]
    /\ plan' = After(s)
    /\ running' = {}

\* Mutant: the failed script is still taken for running.
ScriptFailsUnnoticed(s) ==
    /\ s \in running
    /\ \E status \in {"R", "F"} :
           registry' = [registry EXCEPT ![s.app].status = status]
    /\ plan' = NoPlan
    /\ UNCHANGED running

\* The script fails, or dbpm dies and the script with it.
ScriptFails(s) ==
    /\ s \in running
    /\ \E status \in {"R", "F"} :
           registry' = [registry EXCEPT ![s.app].status = status]
    /\ plan' = NoPlan
    /\ running' = {}

UninstallRuns(s) ==
    /\ running = {}
    /\ s \in Ready /\ plan.mode = "uninstall"
    /\ registry' = [registry EXCEPT ![s.app] = NotInstalled]
    /\ plan' = After(s)
    /\ UNCHANGED running

\* A removal, an uninstall script or a call between two scripts fails, or
\* dbpm dies there.
Interrupted ==
    /\ ~Idle /\ running = {}
    /\ plan' = NoPlan
    /\ UNCHANGED <<registry, running>>

Next ==
    \/ \E root \in Catalog, D \in Supplies :
         \/ Install(root, D)
         \/ \E force \in BOOLEAN : Upgrade(root, D, force)
         \/ Reinstall(root, D)
         \/ ReinstallGraph(root, D)
         \/ Uninstall(root, D)
    \/ \E root \in Catalog : \/ UpgradeChain(root)
                              \/ UninstallRecorded(root)
                              \/ Resume(root)
    \/ ResetEnvironment
    \/ \E a \in App : Remove(a)
    \/ \E s \in Catalog :
         \/ ScriptStarts(s)
         \/ ScriptEnds(s)
         \/ ScriptFails(s)
         \/ UninstallRuns(s)
    \/ Interrupted

Spec == Init /\ [][Next]_vars

-----------------------------------------------------------------------------
(* Properties *)

\* What a registered application depends on is there, and for a caret range of
\* a version that it accepts.  (An upgrade within a major version breaks exact
\* and tilde ranges, and nothing in dbpm looks at them.)
InPlace(n, rows) ==
    /\ rows[n.app] # NotInstalled
    /\ n.range.kind = "caret" => Satisfies(rows[n.app].version, n.range)

\* No step of an install, upgrade, reinstall or reset takes from a registered
\* application what it depends on, also in the middle of a plan and after
\* plans that failed, unless that application is to be removed by the same
\* plan (the guards on dependents, and the order of the removals).  Excepted
\* are an upgrade that the operator forces, what the plan does to applications
\* that dbpm has not asked Core about, and the steps of a chain: no guard looks
\* at their dependents, so a chain over a major version breaks them although
\* docs/commands/upgrade.md:65 says that it is stopped.
DependenciesKept ==
    [][\A a \in App \ plan.doomed : \A n \in registry[a].needs :
          InPlace(n, registry) /\ ~InPlace(n, registry')
              => \/ plan.mode \in {"uninstall", "resume"}
                 \/ plan.force \/ plan.chain
                 \/ n.app \notin plan.known]_vars

Served(s, rows) ==
    \A n \in s.needs : /\ rows[n.app].status = "C"
                       /\ Satisfies(rows[n.app].version, n.range)

\* The script of an install, upgrade or reinstall starts only when all that
\* its package depends on is complete and of an accepted version (the order of
\* _resolve_dependency_order, and what it treats as satisfied); a resume and
\* the steps of a chain resolve nothing.
DeployedOnDependencies ==
    [][\A s \in Catalog :
          running = {} /\ running' = {s} /\ plan.mode # "resume" /\ ~plan.chain
              => Served(s, registry)]_vars

\* An application goes back to an older version only by being removed, by a
\* resume with the source of another version, or because dbpm has not asked
\* Core about it.
NeverDowngraded ==
    [][\A a \in App : Less(registry'[a].version, registry[a].version)
          => \/ registry'[a] = NotInstalled
             \/ plan.mode = "resume" \/ a \notin plan.known]_vars

\* An application that dbpm has found complete is deployed over only to upgrade
\* it: no install runs the install script of a dependency that is there, and
\* no resume repeats what is done.  dbpm does not ask Core about dependencies of
\* dependencies; those from the registry it deploys again, complete or not,
\* where spec/deployment-modes.md:21 wants packages that are not registered.
KnownOnlyUpgraded ==
    [][\A a \in plan.known : registry[a].status = "C" /\ registry'[a].status = "R"
                                 => plan.mode = "upgrade"]_vars

\* A package upgraded on its own from Maven passes through every minor version
\* that is published between the old one and the new one, unless it declares
\* that it upgrades from the old one directly.
ThroughMinors ==
    [][\A s \in Catalog, root \in plan.root :
          /\ running = {} /\ running' = {s}
          /\ plan.mode = "upgrade" /\ plan.single /\ root.origin = "maven"
          => LET from == registry[s.app].version
             IN  \/ Direct(from, root)
                 \/ ~\E t \in Catalog :
                        /\ t.app = s.app /\ t.origin = "maven"
                        /\ Less(Minor(from), Minor(t.version))
                        /\ Less(Minor(t.version), Minor(s.version))]_vars

\* A deployment that ends without a fault has done what its command says: the
\* root is there in the selected version, complete, and so is everything it
\* depends on (which resume does not promise), however many packages the plan
\* had and whatever faults earlier plans had.
PlanDelivers ==
    [][\A s \in Catalog, root \in plan.root :
          plan.todo = {s} /\ ScriptEnds(s)
          => /\ registry'[root.app] = [version |-> root.version, status |-> "C",
                                       needs |-> root.needs]
             /\ plan.mode # "resume" => Served(root, registry')]_vars
===============================================================================
