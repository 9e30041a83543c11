--------------------------- MODULE ScriptGeneration ---------------------------
(***************************************************************************)
(* The deployment scripts that dbpm generates from a source tree           *)
(* (script_generator.py): an install script for an empty schema and, from  *)
(* the second release on, an update script for a schema of the release     *)
(* before.  Developers edit the tree and say how an object evolves with    *)
(* alter, recreate and drop scripts.  Both scripts are then run.           *)
(*                                                                         *)
(* The views stand for what is deployed with CREATE OR REPLACE after the   *)
(* tables; tables that need a sequence or a type are outside the model: an *)
(* update script creates new ones after the tables, an install script      *)
(* before them.  What the statements do in the database, that a Metadata   *)
(* script can be run again, and that developers commit only trees without  *)
(* dangling references, is assumed (external).                             *)
(***************************************************************************)
EXTENDS TableOrder

CONSTANTS
    MaxForm,      \* bound: the versions there may be of one file
    MaxEdits,     \* bound: the edits of one release
    MaxReleases,  \* bound: the releases
    ForeignKeys,  \* the sets of references that tables may have
    FirstTrees    \* the trees that development may begin with

VARIABLES
    before,       \* the tree of the release before, at --from
    after,        \* the tree at --to
    scripts,      \* the kinds of lifecycle scripts each object has in it
    release,      \* the number of this release
    edits,        \* the edits of this release so far
    phase,        \* "editing", "sorting", "refused" or "deployed"
    fresh,        \* a schema that the install script ran in
    upgraded      \* a schema that has followed all releases

tree == <<before, after, scripts, release, edits>>
vars == <<orderVars, tree, phase, fresh, upgraded>>

-----------------------------------------------------------------------------
(* Trees and schemas *)

\* Objects in the order of their paths: Tables/..., then Views/....
View == MaxTable + 1
Object == 1..View

NoTable == [form |-> 0, refs |-> {}]
TableDDL == [form: 1..MaxForm, refs: ForeignKeys]

\* seeds: the Metadata scripts of the tables.
Tree == [table: [Table -> TableDDL \cup {NoTable}], view: 0..MaxForm,
         seeds: [Table -> 0..MaxForm]]
EmptyTree == [table |-> [t \in Table |-> NoTable], view |-> 0,
              seeds |-> [t \in Table |-> 0]]

\* No object has more than two kinds of lifecycle scripts.
Actions == {S \in SUBSET {"alter", "recreate", "drop"} : Cardinality(S) <= 2}

ASSUME GenerationAssumption ==
    /\ MaxForm \in Nat
    /\ ForeignKeys \subseteq SUBSET Reference
    /\ FirstTrees \subseteq Tree

Tables(x) == {t \in Table : x.table[t] # NoTable}
Objects(x) == Tables(x) \cup {v \in {View} : x.view # 0}
Seeded(x) == {t \in Table : x.seeds[t] # 0}

\* A tree that developers commit: what it refers to is there.
Sane(x) ==
    /\ \A t \in Tables(x) : x.table[t].refs \subseteq Tables(x) \cup {Elsewhere}
    /\ Seeded(x) \subseteq Tables(x)

\* A schema is a tree, where the seeds are rows, with what Core has registered
\* in it (owned) and whether the script that ran last completed.
Bare == [table |-> [t \in Table |-> NoTable], view |-> 0,
         seeds |-> [t \in Table |-> 0], owned |-> {}, complete |-> TRUE]

Init ==
    /\ before = EmptyTree
    /\ after \in FirstTrees
    /\ scripts = [o \in Object |-> {}]
    /\ release = 1
    /\ edits = 0
    /\ phase = "editing"
    /\ fresh = Bare
    /\ upgraded = Bare
    /\ names = {}
    /\ refs = [t \in Table |-> {}]
    /\ inDegree = [t \in Table |-> 0]
    /\ ready = {}
    /\ sorted = <<>>

-----------------------------------------------------------------------------
(* Developers *)

\* A commit that edits an object, with the lifecycle scripts it has from then.
Edit(x, o, actions) ==
    /\ phase \in {"editing", "refused"}
    /\ edits < MaxEdits
    /\ after' = x
    /\ scripts' = [scripts EXCEPT ![o] = actions]
    /\ edits' = edits + 1
    /\ phase' = "editing"
    /\ UNCHANGED <<orderVars, before, release, fresh, upgraded>>

EditTable(t, ddl, actions) == Edit([after EXCEPT !.table[t] = ddl], t, actions)

EditView(form, actions) == Edit([after EXCEPT !.view = form], View, actions)

EditSeed(t, form) == Edit([after EXCEPT !.seeds[t] = form], t, scripts[t])

-----------------------------------------------------------------------------
(* What has changed: _diff_paths, _changed_lifecycle *)

New == Tables(after) \ Tables(before)
Kept == Tables(after) \cap Tables(before)
Changed == {t \in Kept : after.table[t] # before.table[t]}
With(action) == {o \in Object : action \in scripts[o]}
Evolved == With("alter") \cup With("recreate")

\* The lifecycle scripts that _render_update refuses.
Conflicting ==
    \/ \E o \in Object : Cardinality(scripts[o]) > 1
    \/ ~ (Evolved \subseteq Kept)

\* Its warnings; the statements they are about are left out.
Warned == (Changed \ Evolved) \cup ((Objects(before) \ Objects(after)) \ With("drop"))
WarnedSeeds == Seeded(before) \ Seeded(after)

Replaced == {v \in {View} : after.view \notin {before.view, 0}}
Reseeded == {t \in Seeded(after) : after.seeds[t] # before.seeds[t]}
Registered == New \cup Evolved \cup Replaced

-----------------------------------------------------------------------------
(* The scripts: _render_install, _render_update *)

Line(what, o) == [do |-> what, on |-> o]
Lines(what, objects) == [i \in DOMAIN objects |-> Line(what, objects[i])]

\* The elements of a sequence that are in S, in its order.
Chosen(s, S) ==
    LET from[i \in 0..Len(s)] ==
            IF i = 0 THEN <<>>
            ELSE IF s[i] \in S THEN Append(from[i - 1], s[i]) ELSE from[i - 1]
    IN  from[Len(s)]

ByPath(S) == Chosen([o \in Object |-> o], S)

\* Mutant: the sections are in path order.
InPathOrder(S) == ByPath(S)

\* _render_object_sections: in the order of the sorted tables.
InOrder(S) == Chosen(sorted, S)

InstallScript ==
    Lines("register", ByPath(Objects(after)))
        \o Lines("create", InOrder(Tables(after)))
        \o Lines("replace", ByPath(Objects(after) \ Table))
        \o Lines("seed", InOrder(Seeded(after)))

\* Each recreate script is followed by the DDL.
Recreations ==
    LET tables == ByPath(With("recreate")) IN
    [i \in 1..(2 * Len(tables)) |->
        IF i % 2 = 1 THEN Line("recreate", tables[(i + 1) \div 2])
                     ELSE Line("create", tables[i \div 2])]

\* Mutant: tables are recreated after new ones are created.
UpdateScriptNewTablesFirst ==
    Lines("register", ByPath(Registered))
        \o Lines("drop", ByPath(With("drop")))
        \o Lines("alter", ByPath(With("alter")))
        \o Lines("create", InOrder(New))
        \o Recreations
        \o Lines("replace", ByPath(Replaced))
        \o Lines("seed", InOrder(Reseeded))

UpdateScript ==
    Lines("register", ByPath(Registered))
        \o Lines("drop", ByPath(With("drop")))
        \o Lines("alter", ByPath(With("alter")))
        \o Recreations
        \o Lines("create", InOrder(New))
        \o Lines("replace", ByPath(Replaced))
        \o Lines("seed", InOrder(Reseeded))

-----------------------------------------------------------------------------
(* What they do in a schema *)

Referred(t) == after.table[t].refs \ {Elsewhere}

\* An alter script is written for the table of the release before; seed rows
\* refer to the seed rows of the tables that their table refers to, as these are
\* in the same tree.
Succeeds(db, line) ==
    LET o == line.on
        present(S) == \A t \in S : db.table[t] # NoTable
    IN  /\ line.do \in {"create", "alter"} => present(Referred(o))
        /\ line.do = "create" => db.table[o] = NoTable
        /\ line.do = "alter" => db.table[o] = before.table[o]
        /\ line.do = "recreate" => present({o})
        /\ line.do = "drop" => o \in Objects(db)
        /\ line.do = "seed" =>
               /\ present({o})
               /\ \A p \in Referred(o) \cap Seeded(after) : db.seeds[p] = after.seeds[p]

\* With a table go the foreign keys of others that refer to it.
WithoutTable(db, t) ==
    [u \in Table |-> IF u = t THEN NoTable
                     ELSE [db.table[u] EXCEPT !.refs = @ \ {t}]]

\* A table that is dropped, or dropped and created again, loses its rows.
Effect(db, line) ==
    LET o == line.on IN
    CASE line.do = "register" -> [db EXCEPT !.owned = @ \cup {o}]
      [] line.do \in {"create", "alter"} -> [db EXCEPT !.table[o] = after.table[o]]
      [] line.do = "replace" -> [db EXCEPT !.view = after.view]
      [] line.do = "seed" -> [db EXCEPT !.seeds[o] = after.seeds[o]]
      [] line.do = "recreate" -> [db EXCEPT !.table = WithoutTable(db, o), !.seeds[o] = 0]
      [] line.do = "drop" /\ o = View -> [db EXCEPT !.view = 0, !.owned = @ \ {o}]
      [] line.do = "drop" /\ o # View ->
             [db EXCEPT !.table = WithoutTable(db, o), !.owned = @ \ {o},
                        !.seeds[o] = 0]

\* WHENEVER SQLERROR EXIT FAILURE: the first line that fails is the last.
Execute(db, line) ==
    IF db.complete /\ Succeeds(db, line) THEN Effect(db, line)
                                         ELSE [db EXCEPT !.complete = FALSE]

RunIn(db, script) ==
    LET run[i \in 0..Len(script)] ==
            IF i = 0 THEN db ELSE Execute(run[i - 1], script[i])
    IN  run[Len(script)]

-----------------------------------------------------------------------------
(* dbpm generate-scripts, and what comes of it *)

Generate ==
    /\ phase = "editing"
    /\ Sane(after)
    /\ phase' = "sorting"
    /\ Prepare(Tables(after), [t \in Table |-> after.table[t].refs])
    /\ UNCHANGED <<tree, fresh, upgraded>>

Sort ==
    /\ phase = "sorting"
    /\ Place
    /\ UNCHANGED <<tree, phase, fresh, upgraded>>

RefuseCircular ==
    /\ phase = "sorting"
    /\ Circular
    /\ phase' = "refused"
    /\ UNCHANGED <<orderVars, tree, fresh, upgraded>>

RefuseConflicting ==
    /\ phase = "sorting"
    /\ Finished /\ ~ Circular
    /\ release > 1 /\ Conflicting
    /\ phase' = "refused"
    /\ UNCHANGED <<orderVars, tree, fresh, upgraded>>

\* Without --from there is an install script only.
DeployFirst ==
    /\ phase = "sorting"
    /\ Finished /\ ~ Circular
    /\ release = 1
    /\ fresh' = RunIn(Bare, InstallScript)
    /\ upgraded' = RunIn(Bare, InstallScript)
    /\ phase' = "deployed"
    /\ UNCHANGED <<orderVars, tree>>

DeployNext ==
    /\ phase = "sorting"
    /\ Finished /\ ~ Circular
    /\ release > 1 /\ ~ Conflicting
    /\ fresh' = RunIn(Bare, InstallScript)
    /\ upgraded' = RunIn(upgraded, UpdateScript)
    /\ phase' = "deployed"
    /\ UNCHANGED <<orderVars, tree>>

\* The order of an update serves a release in which only what is gone is
\* dropped, and no altered table referred to it; altered and recreated tables
\* refer to no new ones; what refers to a recreated table is new, or recreated
\* later; and the Metadata script of a recreated table has changed.  For the
\* generator reads none of the scripts and warns of none of this.
OrderServes ==
    /\ With("drop") \subseteq Objects(before) \ Objects(after)
    /\ \A t \in With("alter") : before.table[t].refs \cap With("drop") = {}
    /\ \A t \in Evolved : Referred(t) \cap New = {}
    /\ \A t \in Tables(after) \ (New \cup Warned) :
           \A p \in Referred(t) \cap With("recreate") : t \in With("recreate") /\ p < t
    /\ With("recreate") \cap Seeded(after) \subseteq Reseeded

\* The series goes on after a release without warnings that the order serves.
NextRelease ==
    /\ phase = "deployed"
    /\ release < MaxReleases
    /\ release > 1 => OrderServes /\ Warned = {} /\ WarnedSeeds = {}
    /\ before' = after
    /\ scripts' = [o \in Object |-> {}]
    /\ release' = release + 1
    /\ edits' = 0
    /\ phase' = "editing"
    /\ fresh' = Bare
    /\ UNCHANGED <<orderVars, after, upgraded>>

Next ==
    \/ \E t \in Table, ddl \in TableDDL \cup {NoTable}, actions \in Actions :
           EditTable(t, ddl, actions)
    \/ \E form \in 0..MaxForm, actions \in Actions : EditView(form, actions)
    \/ \E t \in Table, form \in 0..MaxForm : EditSeed(t, form)
    \/ Generate
    \/ Sort
    \/ RefuseCircular
    \/ RefuseConflicting
    \/ DeployFirst
    \/ DeployNext
    \/ NextRelease

Spec == Init /\ [][Next]_vars

-----------------------------------------------------------------------------
(* What generated scripts promise *)

\* The install script of every tree that is not refused runs to its end in an
\* empty schema and leaves there the tree, all of it registered for the
\* uninstall (_render_install).
InstallDelivers ==
    phase = "deployed" =>
        fresh = [table |-> after.table, view |-> after.view, seeds |-> after.seeds,
                 owned |-> Objects(after), complete |-> TRUE]

\* A schema that has followed the releases is that of a fresh install: the
\* update script runs to its end and makes every object the tree's but for
\* those the generator warned of (_render_update), with the rows of the tree's
\* Metadata scripts.
UpgradeMatchesInstall ==
    phase = "deployed" /\ (release > 1 => OrderServes) =>
        /\ upgraded.complete
        /\ \A t \in Table \ Warned : upgraded.table[t] = fresh.table[t]
        /\ View \notin Warned => upgraded.view = fresh.view
        /\ \A t \in Table \ WarnedSeeds : upgraded.seeds[t] = fresh.seeds[t]
        /\ fresh.owned \ Warned = upgraded.owned \ Warned
=============================================================================
