# dbpm in TLA+

Specifications, model-checking runs and proofs for dbpm, the package manager for
Oracle database applications in `src/src/dbpm`. Paths below are relative to
`src/src/dbpm` unless they start with `docs/`, `spec/` or `tests/`.

Run a configuration with `tlc -config <run>.cfg <MC module>.tla` and check the
proofs of a module with `tlapm <module>.tla`.

## The system

dbpm is a command line program without a server. What lasts between two commands
is in these places: the **Core registry** in the target database (which
applications are installed, at which version, in which deployment status, and the
record of the current composite operation with its lease), the **runtime prefix**
(a directory with payloads, command links, receipts and a journal), the
**lifecycle receipt** (the plan that was executed last) with the snapshots of working
copies, the **artifact cache**, and, outside, the **Maven repository** and the
**package registry** that publishers fill. Several dbpm processes may work on all of
them. Each can die or be interrupted anywhere, and a SQL call, a request or a rename
may fail.

| Component | Source | State | Operations | What makes it correct |
|---|---|---|---|---|
| operation record and lease | `db.py` | pointer to the current operation, its row (state, attempt, token, expiry) | begin, current, acquire, record, renew, release | only the newest attempt writes; a process that lost its lease stays out |
| composite executor | `executor.py`, `cli.py` | local variables of a process; recorded state | install, upgrade, reinstall, resume, runtime reconcile | recorded completion is true; one deployer at a time; runtime follows database; recovery |
| runtime prefix | `application_runtime.py` | payloads, `bin`, receipt, archives, backups, staging, lock, journal | stage, activate, recover, collect, roll back, uninstall, resume | activation is all or nothing; what is active or retained is intact |
| plans over the application graph | `resolver.py`, `chain.py`, `environment.py`, `planner.py`, `cli.py`, `executor.py` | application and dependency rows | install, upgrade, chain, reinstall, graph reinstall, uninstall, resume, reset | dependencies are kept where guards look; nothing known to be complete is deployed over by accident |
| lifecycle receipt | `lifecycle.py` | one JSON file | write, load | a resume carries out its operation's plan |
| sources, artifact cache, lockfile | `source.py`, `lockfile.py`, `lifecycle.py`, `cli.py` | cached archives, extracted trees, snapshots, `dbpm-lock.json` | download, verify, extract, snapshot, lock, install from a lockfile | what runs is what was pinned, and what the provenance says |
| publishing and registry | `publisher.py`, `registry.py`, `cli.py` | files and version list of a repository, registry entries, publish receipts | publish, registry index | what is listed or indexed is what is served |
| script generator | `script_generator.py` | git trees, generated scripts | generate-scripts | install builds the tree; updates lead to the same schema |
| manifest, workspace, provenance | same names | none | parse, validate | - |
| initializer, connection, progress | `initializer.py`, `connect.py`, `progress.py` | none | write templates; run SQL*Plus; print | - |

How they interact: a command builds a plan (resolver, chain, policy), checks it
against Core, writes the lifecycle receipt, begins an operation and acquires its
lease (`db.py`), runs the database scripts one package after another, records that
the database phase is complete, stages and activates the runtime, validates it and
releases the lease. A resume reads the lifecycle receipt and the operation record
and continues. The packages of a plan come from working copies, which are copied
before they run, or from archives of a repository, which are extracted in the cache
and run from there.

What is hard: the windows between reading the record, beginning and acquiring;
scripts that outlast a lease which nothing renews; crashes between an effect and
its record; a runtime outage after the database phase; a journal that must
describe a directory at every rename; a collection that races another activation;
files that are cut off, replaced or shared between the moment they are checked and
the moment they run; publishers who overtake each other between two uploads; update
scripts whose statements depend on each other;
and the long sequences of legal commands over a graph of applications. The list is
in `PROJECT.json` under "hazards", each at its line.

## Modules

| Module | Models |
|---|---|
| `OperationLedger` | abstract: an operation has numbered attempts, and only the newest one writes |
| `OperationLease` | `db.py`: record, lease, fencing; processes that vanish; time |
| `OperationLeaseProofs` | its theorems |
| `CompositeOperation` | `executor._execute_composite_operation` and the commands around it; extends `OperationLease` |
| `CompositeOperationProofs` | its theorems: lease protocol, one deployer, true completion |
| `RuntimeActivation` | `application_runtime.py`, rename by rename |
| `RuntimeActivationProofs` | the lock, the types, the generations, and the active graph and rollback target with any number of processes |
| `RuntimePrefixProofs` | what activations leave in a prefix; extends `RuntimeActivationProofs` |
| `ApplicationGraph` | plans, gates and the registered applications |
| `ApplicationGraphProofs` | its theorems |
| `Publication` | `publisher.py`, `registry.py`: publishers, repository, registry |
| `PublicationProofs` | its invariant |
| `ArtifactCache` | `source.py`, `lockfile.py`, `lifecycle.snapshot_plan`; extends `Publication` |
| `ArtifactCacheProofs` | their theorems, composed |
| `TableOrder` | `script_generator._topological_sort` |
| `ScriptGeneration` | the scripts that `script_generator.py` generates, release after release; extends `TableOrder` |
| `ScriptGenerationProofs` | the theorems of both |
| `MC...` | instances for TLC |

### OperationLease

`pointer` is the row of the current operation, `row` the operation rows, `lease` and
`seen` are what each process holds and has read. An action is a PL/SQL block, which
Oracle runs atomically, with one exception: `begin_operation` checks the previous
operation in one transaction and replaces it in a second (`BeginCheck`,
`BeginCommit`, `BeginBusy`). `Unfenced(p)` is the check that `record`, `renew` and
`release` repeat in SQL: same operation, same attempt, same token, not expired.
Fresh identifiers and tokens are taken in a fixed order from a finite set, which
stands for UUIDs. `Vanish` is a process that dies with its lease.

### CompositeOperation

`pc[p]` is the call process p makes next, `job[p]` its plan and its local variables
(the plan, whether the database phase is done, which package is next). The actions
follow `_execute_composite_operation` from the begin to the release, with the
early returns and exceptions it has: begin refused, lease refused, preflight
refused or failing, script failing, evidence, runtime unreachable, lost lease, and
the release in `finally`. `database`, `runtime`, `receipt`, `stage` and `prefixUp`
are the world outside. A multi-package plan (`Grouped`) activates its runtime inside
the database phase, as `executor.execute_plan` does at line 193. Faults: an
exception or Ctrl-C (`Interrupt`), a kill (`Crash`), an outage (`PrefixDown`), a
failing script, removal, activation or health check.

A script that fails may have told Core so or not, or have completed, when a
post-action after it fails. `runtime reconcile --replace` is tried when the runtime of
another version is active (`Retries`).

Abstractions: the three places that record `RESOLVED` are one; "staged" and the
collision check are one step; so are recording `VALIDATED` and returning. The
evidence check of a resume is one read. An error in it leaks the lease as a crash
does. All plans of an instance deploy the same package list, and reinstalls of a
grouped plan are graph reinstalls. `openedFor` is a history variable: the plan an
operation was begun with.

### RuntimeActivation

The variables are the files and directories under a prefix; `cmd[p]` holds what a
process has in memory, `before` the prefix as the running activation found it. An
action is a rename, a replaced file or a removed tree, because those are the places
where the code can stop. Links, a rebuilt `bin` directory and the undo are each one
step, `rmtree` is atomic, and the newest staging directory is the one with the
highest number. `ErrorAt`, `InterruptAt` and `KillAt` name the steps where a fault
may strike. Errors are placed where the `except` clause undoes them, and interrupts
where the journal covers what was done; the places left out are hazards with a
note, and `InterruptedActivation` shows what becomes of a leftover journal.
A resume looks for a staging directory outside the lock and clears one that is not
ready (`SelectUnready`), also while its owner still stages there; that owner may find
a payload directory that exists again (`StageOccupied`) or staged payloads gone.
`ExclusiveMutation` is about what the lock protects: payloads, `bin`, receipts and
journal, not the staging directories.
Rollback's comparison with the database versions is left to the operator.

### ApplicationGraph

`registry` is Core's application row of each application with its dependency rows,
`plan` the plan being carried out, `running` the source whose script runs. A
command is resolved, checked and started in one step (`Submit`), since a single
operator is at work; then applications are removed and deployed one by one, and
every one of those steps can fail. `Resolutions` gives the answers of
`_resolve_dependency_order` as sets: supplied sources, and what the registry has for
a need of a package that came from the registry, which the code then offers to every
other consumer too (`Available`, `Loaded`; manifests are taken to list their needs in
an order in which it is loaded before it is looked for). `Seen` is what dbpm knows, the
rows of the root, of what it needs directly and of what was supplied. The order of the
plan is `Ready`: any order that puts dependencies first. `PlanPasses` is the policy,
`_enforce_installed_state` and the major-version guard with the mode that each
package of the plan gets. `UpgradeChain` is `resolve_upgrade_chain` with the state
that `_build_chain_plan` makes up. Uninstall and resume have the guards of the code
and no others: an uninstall takes a package from its dependents, a resume deploys any
version over an incomplete row.

The code therefore does not keep the registered graph sound in general, and
`DependenciesKept` says which steps do: those of an install, upgrade, reinstall or
reset, but for a forced upgrade, the steps of a chain, and what a plan does to
applications whose rows dbpm has not read. The catalog of the run has all these
cases: two new major versions, one at the end of a chain, three registry packages in a
row, and dependents of each.

Not in it: several operators, artifacts and their checksums, dirty sources and
approvals, runtime-only packages, `validate`, `bootstrap-core`, lockfile installs.
What a script registers, and when, is Core's: it registers its version and its
dependencies when it starts and its status when it ends. The steps of a chain are
deployed without looking at dependencies, as in the code; published milestones of
the instance have none.

### Publication

`repository[v][f]` says of which build the file is that the repository serves,
`listed` is `maven-metadata.xml`, `index` the registry's checksum of a version; a
checkout has a `manifest`, a publish `receipt` and at most one command (`job`). Every
action of a publish is one request or one file written, in the order of
`publish_to_repository`, `verify_publish` and `_run_publish`; `Abort` may follow any of
them. A build is a number, since no two archives have the same bytes (the build time
is in them). The checksums of a file are uploaded with it (`sums`, `pom`). Whether
the repository lets a file be replaced is its own affair: `Replaceable` names the
versions for which it does, as repositories do for snapshots. Each publisher has an
artifact cache of his own; two who share one would overwrite each other's ZIP between
the build and the uploads (`publisher.py:111-119`, `220`, `234`), which is not modelled.

### ArtifactCache

The commands of `order`, each at a `step`, with what they hold in memory (`seen`); the
files are `coordinate` (one for each route and version, as `maven/`, `maven-url/` and
`url/` are apart), `byChecksum`, `temp` (the `.tmp` directory of an extraction), `tree`,
`snapshot`, `lock` and the `working` copy. A file has the build its bytes are from and
whether it is all of them; its checksum is that of the build only if it is whole. An
action is one of the calls that `_resolve_remote_zip`, `_load_zip_source`, `_extract_zip`,
`snapshot_plan` and the lockfile functions make, so that another command, a kill or a
publisher may come between any two. What is written in place (a download, the copy
under the checksum, the lockfile) is there as a part first; what is renamed into place
(a tree, a snapshot) is not. `outcome` records what a deployment ran from and what its
provenance says.

Nothing in dbpm keeps two commands from preparing one version at the same time. Then
they share the download, the copy and the `.tmp` directory: each may truncate or remove
what the other is writing (`Emptied`), name what the other has not finished
(`FinishExtract`, `Rename`), or remove a tree that the other one has named
(`RemoveTree`). `Overlap` says whether operators let that happen. With `Overlap = TRUE`
the run `SharedCache` finds a tree that is removed before its script runs; everything the
cache promises is stated for `Overlap = FALSE`.

### TableOrder and ScriptGeneration

`TableOrder` is the loop of `_topological_sort`, one turn an action. In `ScriptGeneration`
developers edit a tree (`after`) and give changed objects lifecycle scripts, the
generator sorts the tables, refuses conflicting scripts or circular references and
produces a sequence of statements, and these run in an empty schema (`fresh`) and in
one that has followed all releases (`upgraded`). `Succeeds` and `Effect` say what a
statement needs and does in Oracle, and are external, as are the developers.
`UpgradeMatchesInstall` promises nothing about a release for which the fixed order of an
update script is wrong: `OrderServes` names the five cases, each at the hazard of
`script_generator.py:447`. One of them is about rows: a recreated table is created empty
by its DDL, and a Metadata script that has not changed is not run again, without a
warning. It is a condition on what developers commit; the generator checks none of it. A script is run line by line (`RunIn`), and the objects of a
section are picked out of the sorted ones (`Chosen`): both are recursive functions
on `0..n`, so that they can be reasoned about.

## Runs

Bounds are those of the `.cfg` files. Deadlock is not checked where tokens,
operations, commands or faults are bounded and the system may stop for that
reason; it is checked in `ApplicationGraph`, which has no such bound.

| Run | Instance | States | Shows |
|---|---|---|---|
| `OperationLease` | 3 processes, 2 operations, 3 attempts, clock to 3 | 40 thousand | one writer, the newest attempt, fenced for good, refinement of `OperationLedger` |
| `CompositeOperation` | 2 processes, 2 packages, 2 operations, 3 leases, 2 faults anywhere | 1.7 million | recorded completion is true, `VALIDATED` is consistent, runtime follows database, completed work is not replayed, one deployer, only lease-protocol steps |
| `CompositeRecovers` | 1 process at a time, 3 faults, slow scripts, fairness | 13 thousand | every operation begun is completed or superseded |
| `RuntimeActivation` | 1 process, 3 graphs, 4 commands, 1 fault | 232 thousand | all or nothing, active, retained and running graphs keep their files, generations grow |
| `RuntimeProcesses` | 2 processes, 2 graphs, 4 commands, 1 fault | 280 thousand | between lock and unlock nobody else changes the prefix, collections do no harm |
| `ArtifactCache` | 2 publishers, 2 commands of 3, 2 versions, 2 builds, 2 contents of a working copy | 826 thousand | listed versions are whole, indexed ones served; pinned builds run; provenance, cache and snapshots are true; a cached lock needs no repository |
| `ScriptGeneration` | 3 tables with up to two foreign keys, seeds and a view, 2 forms of each, 2 edits, 3 releases | 2 million | table order, install scripts, update scripts |
| `ApplicationGraph` | 4 applications, 12 sources, any number of commands and faults | 143 thousand | dependencies kept, deployed on dependencies, no downgrade, nothing known to be complete deployed over, chains pass the minors, plans deliver |

Two processes are enough for the races of the saga because each involves one
process that is late and one that takes over, and the proofs cover any number.
Three tokens let an operation be taken over twice. Four commands on a prefix
reach an activation, its successor, a rollback between them and an uninstall or
another deployment, and thereby the retention limit. The sources of
`ApplicationGraph` have three minor versions with patches, two new major versions,
all three kinds of origin and of range, a consumer of a consumer, and three
registry packages in a row.

Two constants keep a hazard out of `CompositeOperation` that has a run or a note of
its own: `Overlap = FALSE` (no process between reading the record and acquiring the
lease while another one is) and `SlowAt = {}` (no step outlasts its lease).

`CONSTRAINT Parts` makes `ArtifactCache` the sum of three parts instead of their
product: publishers among themselves; working copies, which no repository has to do
with; and one publisher who has published a snapshot version and replaces it under the
commands, of which the last one deploys, since nobody would read the lockfile it writes. Two
builds of one version are what it takes for a stale file, and three commands reach
a command that fills the cache, one that is cut off and one that uses it.
`CONSTRAINT Commits` of `ScriptGeneration` has developers edit the second release only and
give a changed table its other form; the first release takes its tree from
`Beginnings`, the third one is deployed as it is. Three tables are enough for a
table between its parent and its child.

Disagreements between code and documents, one run each:

| Run | Property | What happens |
|---|---|---|
| `ReplayAfterOverlap` | `CompletedDatabaseNotReplayed` | an install that has begun and is overtaken by a resume replays the database phase that the resume has completed (`docs/commands/resume.md:100-101`, `db.py:712-721`) |
| `ResumeSkipsUpgrade` | `CompletionIsTrue` | the old version's status counts as evidence for the upgrade (`executor.py:305-309`) |
| `SharedCache` | `TreeUndisturbed` | two commands prepare one version, and one removes the tree from which the other is about to run (`docs/environment-configuration.md:117-118`) |
| `InterruptedActivation` | `JournalIsRecoverable` | a leftover journal is never rolled back, as the preflight refuses first (`spec/runtime-component.md:461-462`) |

Further disagreements met while modelling, without a run of their own. The models have
these behaviours, and the properties except them by name:

- The resume of a graph reinstall deletes the applications of its removal order once
  more (`executor.py:170-182`), although the first attempt may have deployed some;
  `docs/commands/resume.md:104` says that a resume deletes nothing.
- The directory in which another process may still be staging is cleared without the
  lock (`application_runtime.py:806`); `spec/runtime-component.md:635` wants a lock held
  during mutation.
- A chain over a major version is not stopped by the guard on dependents (`cli.py:1549`);
  `docs/commands/upgrade.md:65` and `spec/deployment-modes.md:37` say that such an upgrade
  is blocked.
- A registry dependency of a dependency is deployed again although it is installed and
  complete (`resolver.py:165`); `spec/deployment-modes.md:21` wants packages that are not
  registered.
- The upgrade of a package over a major version together with its dependents, as
  `docs/commands/upgrade.md:94-99` describes it, is refused: the guard asks whether there
  are dependents and not whether the plan upgrades them.

### Fairness

`CompositeRecovers` is the only liveness run. It assumes weak fairness of: each
process's next step (a process that is not killed goes on; its SQL calls and scripts
return), the operator's resume (the documented reaction to every failure), time,
and the end of an outage. Nothing is assumed about faults except that they are
finitely many (`MaxFaults`). Faults are placed before the runtime is active: after
it, resume selects a staging directory that the activation has consumed, and
fails for ever (hazard at `application_runtime.py:800`). `Spare` and the number of
tokens bound how often a lease may be taken; the action that would take the last
one is not needed to complete.

## Theorems

All are proved for every value of the constants that satisfies the modules'
ASSUMEs, and what a theorem assumes besides is in its statement.

**`OperationLeaseProofs`.** The type invariant; the inductive invariant `LeaseInv`
(a client's token names its operation and attempt; attempts only count up; a row's
token was handed out for its newest attempt). The type invariant alone does not
exclude two clients with one token, which is why it is strengthened. From it:
`Fencing`, `NewestAttempt`, `FencedStays`, `CurrentOperationOnly`, and
`ImplementsLedger`, where each step maps to a step of `OperationLedger` or a stutter.

**`CompositeOperationProofs`.** `SagaInv` (types; a process that is about to begin
has a plan; before its first script it is at package 1) is inductive and gives
`SagaTypeCorrect`. `SagaUsesLeases` shows that every step of the saga is a step of
the lease protocol, so that its invariants hold here. `OneDeployerAtATime` uses
`DeployerInv`: a process between its acquire and its release is not fenced, one at a
time is in the window before the acquire, and the operation that a begin replaces
is not leased.

`CompletionInv` builds on all three. Its parts follow one piece of knowledge: what a
process read of the record before its acquire still holds when it acquires
(`ReadingHolds`, since nobody takes a completion back and only one process is in the
window); under the lease it knows that the database is done, or the record does not
say so (`PhaseHolds`); the packages before the next one are deployed
(`ProgressHolds`); and a recorded completion is backed by Core (`RecordHolds`). From
it: `RecordedCompletionIsTrue`, `RecordedValidationIsTrue`, `CompletedNotReplayed`,
`RuntimeBehindDatabase`. What they assume is what the code needs
(`OneDeployerAtATime` assumes the first two):

| Assumption | Without it |
|---|---|
| `~Overlap`: one process at a time between reading the record and its lease | `ReplayAfterOverlap` |
| `SlowAt = {}`: no step outlasts its lease | the lease is taken over from a process that still works (hazard at `executor.py:363`) |
| `OneVersion(v)`: all plans are of version v, and nothing else is installed | `ResumeSkipsUpgrade` |

**`RuntimeActivationProofs`.** Whoever works between lock and unlock holds the lock
(`Held`), and no step outside changes payloads, `bin`, receipts or journal:
`MutationIsExclusive`. `TypesAreKept` is more than bookkeeping:
that the generation of a new receipt and the number of a new staging directory are
in their range is a counting argument, since every command makes at most one of
each; `StagesCounted` and `GenerationsCounted` bound them by the commands begun less
those under way. `GenerationsAreMonotonic` rests on `PriorInv`: what an activation holds
as the active receipt is the active one, because it reads it under the lock. A
rollback reads it before, and relies on an operator who rolls back and uninstalls
only when nothing else is under way (`Orderly`).

`OldGraphUsableByMany` and `RollbackTargetsKeptByMany` are the theorems about several
processes at work in one prefix. The payloads of the active graph, and of the newest
archived one, which a rollback selects by default (`Needed`), stay on disk because of
what is not among them: what an activation promotes was not there, so it is not needed
(`PromotedApart`), and the journal of an interrupted one names nothing that is
(`JournalSpares`). Whoever takes those payloads away again, the except clause or a
recovery after any number of other commands, therefore spares both graphs; and a
collection reads the receipts under the lock. No step needs more than was needed before
but for the one that writes a receipt, whose graph is complete by then: an activation
archives the active graph as the newest (`ArchivingNeedsNoMore`, from
`ArchivedBefore`), and a collection drops generations that are not retained
(`DroppingNeedsNoMore`). The invariant is `UsableInv`. The hypothesis `Spared` names
what this needs:

| Assumption | Without it |
|---|---|
| `"reinstall" \notin Modes` | a reinstall sets needed payloads aside |
| no fault at "finish", no error at "unlink" | the receipt is written but the journal does not say so, and the undoing takes the new graph away (`application_runtime.py`, an error after the receipt) |
| no fault at "removeManaged" and "removeReceipt" | an uninstall that fails half-way has a receipt and no payloads |
| `Orderly` | a rollback has chosen its target; other commands collect that target and begin to activate it again, and are interrupted; the rollback finds all payloads, activates them, and the next command's recovery takes away those the journal names (TLC finds this with three graphs and six commands) |

Faults at all other steps are allowed, in any number.

**`RuntimePrefixProofs`.** Payloads, `bin` and their backups are consistent only
between commands. `PrefixInv` says for every step what has moved since the activation
began: new payloads came, replaced ones are in the backup, everything else is as it
was (`Moved`), `bin` is the old one or in the backup (`OldBin`, `NewBin`), and the journal
on disk says so (`JournalOf`). A command that was stopped leaves a journal under
which this is still true (`Unrecovered`), one that ended a prefix in which receipt,
`bin` and the newest archived generation have all their files (`Calm`); the next
command finds one of the two (`Left`). This gives `RollbackTargetsAreIntact`,
`ActivationIsAllOrNothing` and `OldGraphIsUsable`, assuming:

- `Covered`: faults at steps that the `except` clauses and the journal cover
  (`ErrorCovered`, `StopCovered`). The steps left out are those where the code does
  not recover: an interrupt in the payload loop, whose journal still says
  "prepared", an error after the receipt is written, errors in the recovery once it
  has put `bin` back, a rollback or an uninstall that fails half-way. They are listed
  hazards. The faults of the run are among the covered ones. Graphs have one
  payload for a package and version.
- `OneProcess`: commands one after the other, in any number. With several, two
  processes may share a staging directory that is not ready, and a collection may
  run between an interruption and its recovery, so that the recovered prefix is not
  the one the activation found. The lock does not prevent either; what holds for any
  number of processes is in `RuntimeActivationProofs`, and the run `RuntimeProcesses`
  has two of them with disorderly rollbacks too.

`ActiveIsIntact` needs `GenuineInv` as well (a payload directory holds a build of its
version) and `OneArtifact`: the graphs agree on the build of a version. With several
builds of one version, four graphs, five commands and two errors at the step
"drop", TLC finds a rollback that activates another build than its receipt names:
an archived generation has lost a payload, the version is deployed from another
build, and the rollback looks only whether the directory exists. The run
`RuntimeActivation` has such a graph (`Dirty`) with a single fault, so that it goes
beyond the theorem in one respect and stays behind it in all others.

**`ApplicationGraphProofs`.** The type invariant, for every catalog. `NoDowngrades` and
`NothingCompleteRedeployed` rest on `TodoInv`, which relates what a plan has still to do
to what is registered: an install finds nothing, a reinstall nothing once its
removals are done, an upgrade nothing newer than what it brings, a resume its own
row, incomplete. They are about applications whose rows dbpm has read: a registry
dependency of a dependency is planned without its row, and deployed again.

`MinorsNotSkipped` holds for every catalog and operator: `MinorsInv` says that the
milestones still to be deployed cover every published minor version between the
one that is registered and the root's.

`GraphInv` is about the middle of a plan. Each need of a source still to be deployed
is provided by the plan, or already there and not touched by it (`PendingInv`); a
running script finds its needs complete (`RunningInv`); what others depend on is
upgraded within its major version only (`UpgradeInv`, unless forced or in a chain);
what is to be removed, and was read, has no dependents outside the removal
(`RemovalInv`); and the root is still to come or in place (`RootInv`). It gives
`GraphIsKept`, `ScriptsFindDependencies` and `PlansDeliver`, through failures and
interruptions of any plan. None of these theorems assumes anything of the catalog but
`CatalogAssumption` (finite, without cycles, at most one `upgrade_from`, one supplied
source per application), or of the operator; what the code does not keep is excepted in
the properties themselves.

**`PublicationProofs`.** `PubInv` says for each step of a publish which files are there
and, for an immutable version, that all are of the build whose ZIP came first:
whoever uploads a second ZIP is refused before anything else. `PublicationIsSound`.

**`ArtifactCacheProofs`.** `RepositoryStaysSound` and `IndexStaysServed` hold whatever commands
do with the cache. All others assume `~Overlap`: no two commands prepare one version at
once. `Inv` composes `PubInv` with what each step of a command relies
on (`CommandFits`). A file keeps its meaning while publishers go on, since a build is
made for one version (`Made`, `Lasting`), and two commands that prepare different
versions touch different files (`Apart`, `OthersElsewhere`). From it: `CacheTypes`,
`PinnedDeployments`, `TrueProvenance` and `HonestCache`. `CachedPinsInstall` adds `PinInv`: who
still asks the repository for a pinned build has no whole copy of it, because it looked,
and nobody else prepares that version meanwhile.

**`ScriptGenerationProofs`.** `OrderInv` (the counts are those of the parents that are not
placed) gives `OrderIsRightForAll`, for any number of tables and any references, and
`ScriptOrderIsRight`, the same for the sort inside the generator.

The scripts are proved to deliver in four layers:

1. A line: what each kind of statement needs and leaves (`CreateStep`, `DropStep`, ...).
2. A section, the lines of one kind (`CreateSection`, `RecreationSection`, ...): after i of
   its lines the schema is the old one with the first i objects done (`Made`, `Without`,
   `Part`). Were there an i for which it is not, there would be a least one,
   and the line before it would contradict the lemma of its kind. `RunIs` carries
   that out once for all scripts, `LinesRun` takes it to a section.
3. A script: the end of one section is what the next one starts with. In an empty
   schema the sort puts every parent before its child, so that each create finds its
   parents (`InstallRun`). In an upgrade it is the conjuncts of `OrderServes` that each
   section relies on, and what `Conflicting` refuses (`UpdateRun`); the last of them
   gives recreated tables their rows back.
4. The series of releases: `SeriesInv` says that the followed schema is, until the
   next release is deployed, what a fresh install of the one before would leave
   (`upgraded = Full(before)`), that the tree `before` is sane, and, while the
   generator sorts, that it sorts the tree `after`. A release with warnings ends the
   series (`NextRelease`), which is what `UpgradedIsFull` needs.

This gives `InstallScriptsDeliver` and `UpgradesMatchInstalls`, for any number of tables,
forms, edits and releases. They assume `TableAssumption` and `GenerationAssumption`,
that is, that the constants are of their types, and what the model says of Oracle in
`Succeeds` and `Effect`.

Every invariant of the passing runs is stated by a theorem. Only model-checked:
liveness and everything that depends on fairness (`Recovers`); the prefix with several builds of a version; and
rollbacks beside other commands (run `RuntimeProcesses`). Neither checked nor proved for
several processes: `ActiveIntact` and `AllOrNothing`. The
properties of the four runs that find a violation are false and have no theorem.

## Plan

1. Done: the lease, the saga, the runtime prefix, the application graph, publishing
   with the artifact cache, and the script generator, with their runs; the theorems
   above.
2. Prove more: `ActiveIntact` for several builds of a version, when no collection
   fails (an archived generation then either has all its payloads or is dropped);
   `ActiveIntact` for several processes, when no uninstall fails half-way; the completion theorems for upgrades whose
   evidence check compares versions, should the code gain one.
3. Tighten: an uninstall of the runtime that fails half-way, rollback beside a
   running activation, the script of a resumed upgrade, publishers that share a cache,
   what a cache still promises when two commands prepare one version.

Not modelled, and why: `manifest.py`, `workspace.py` and `provenance.py` parse and
validate and keep no state; `connect.py`, `progress.py` and `errors.py` start SQL*Plus
and print; `initializer.py` writes templates once; `bootstrap-core` and Core's own
scripts change Core, which the models take as given. Of `source.py`: which version a
range or a SNAPSHOT selects, ignore patterns and the manifest derived from a POM. Of
`lockfile.py`: `lock --check` and `--check-db`, which compare and change nothing. Of
`script_generator.py`: options derived from git, `--check`, names and quoting.
