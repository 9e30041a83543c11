--------------------------- MODULE RuntimeActivation ---------------------------
(***************************************************************************)
(* An application runtime prefix (application_runtime.py): the payload     *)
(* directories, the bin directory of command links, the receipt that names *)
(* the active generation, retained generations, staging directories, the   *)
(* lock file and the activation journal.  dbpm processes stage, activate,  *)
(* collect, roll back and uninstall; an action is one rename, one file     *)
(* that is replaced or one directory tree that is removed, because that is *)
(* where an error, Ctrl-C or a kill can stop a process.                    *)
(*                                                                         *)
(* A graph is its payloads in deployment order; every payload exports one  *)
(* command, named after its package.  A payload's content is the artifact  *)
(* it was staged from; a link is the payload path it points into.          *)
(***************************************************************************)
EXTENDS Integers, Sequences, FiniteSets

CONSTANTS
    Proc,         \* dbpm processes
    Graphs,       \* application runtime graphs an operator may deploy
    Modes,        \* modes they are deployed with
    None,         \* no directory, no file
    Orderly,      \* do operators roll back and uninstall only when no other
                  \* command is under way and no journal is left over?
    Rebuilt,      \* may a reinstall bring another artifact of the same version?
    ErrorAt,      \* where the file system or a script may raise an error
    InterruptAt,  \* where Ctrl-C may arrive
    KillAt,       \* where a process may be killed
    MaxCommands,  \* bound on commands started
    MaxFaults     \* bound on errors, interrupts and kills

ASSUME GraphsAssumption ==
    /\ \A g \in Graphs : g \in Seq([name: STRING, version: Nat, artifact: STRING])
                         /\ g # <<>>
    /\ \E g \in Graphs : \A other \in Graphs : Len(other) <= Len(g)
    /\ Modes \subseteq {"install", "upgrade", "reinstall"}
ASSUME FaultsAssumption ==
    /\ Orderly \in BOOLEAN /\ Rebuilt \in BOOLEAN
    /\ MaxCommands \in Nat /\ MaxFaults \in Nat

VARIABLES
    payload,       \* packages/<name>/<version>
    bin,           \* bin: the links in it
    receipt,       \* .dbpm/receipt.json
    archive,       \* .dbpm/generations/<n>/receipt.json
    binBackup,     \* .dbpm/bin-generation-<n>
    payloadBackup, \* .dbpm/payload-backups/generation-<n>/...
    rollbackBin,   \* .dbpm/bin-rollback-<n>
    journal,       \* .dbpm/activation.json
    stages,        \* .dbpm/staging/generation-*, oldest first
    lock,          \* .dbpm/lock
    pc,            \* per process: the step it is about to take
    cmd,           \* per process: arguments and local variables
    before,        \* the prefix as the running activation found it (history)
    commands,      \* commands started
    faults         \* errors, interrupts and kills so far

active   == <<payload, bin, receipt>>
retained == <<archive, binBackup, payloadBackup, rollbackBin>>
counters == <<commands, faults>>
vars     == <<active, retained, journal, stages, lock, pc, cmd, before, counters>>

-----------------------------------------------------------------------------
(* Graphs *)

Items(g) == {g[i] : i \in DOMAIN g}
PathOf(item) == <<item.name, item.version>>
Paths(g) == {PathOf(item) : item \in Items(g)}
Links(g) == Paths(g)   \* bin/<name> -> ../packages/<name>/<version>/...

Path       == UNION {Paths(g) : g \in Graphs}
Artifact   == {item.artifact : item \in UNION {Items(g) : g \in Graphs}}
Generation == 0..MaxCommands

Contents == [Path -> Artifact \cup {None}]
Nothing  == [path \in Path |-> None]
LinkSets == {Links(g) : g \in Graphs} \cup {None}

Present(path) == payload[path] # None

LinksIn(links) == IF links = None THEN {} ELSE links

\* The items of the active receipt, and of a receipt read earlier.
ItemsOf(r) == IF r = None THEN {} ELSE Items(r.graph)

-----------------------------------------------------------------------------
(* Types *)

Phase  == {"prepared", "payloads-promoted", "bin-activated", "receipt-written"}
Status == {"staging", "failed", "ready", "removed"}

Receipt == [generation: Generation, graph: Graphs]
Stage   == [graph: Graphs, status: Status, payload: Contents, bin: BOOLEAN]
Journal == [generation: Generation, phase: Phase, stage: 1..MaxCommands,
            promoted: SUBSET Path, replaced: SUBSET Path, binBackup: BOOLEAN]

ASSUME NoneAssumption ==
    /\ None \notin Graphs /\ None \notin Artifact /\ None \notin {Links(g) : g \in Graphs}
    /\ None \notin Receipt /\ None \notin Journal

\* The places at which a process holds the lock file.
Staging     == {"script"}
Recovering  == {"recoverBin", "recoverBackup", "recoverPromoted", "recoverReplaced",
                "recovered"}
Tried       == {"promote", "place", "journalPromoted", "swap", "switch",
                "journalSwitched", "archive", "receipt", "finish", "unlink"}
Switched    == {"journalSwitched", "archive", "receipt", "finish", "unlink"}
RollingBack == {"archiveActive", "swapBack", "switchBack", "receiptBack"}
Removing    == {"removePackages", "removeManaged", "removeReceipt"}

Locked == Staging \cup Recovering \cup {"prepare"} \cup Tried \cup {"drop"}
          \cup RollingBack \cup Removing
Place  == Locked \cup {"idle", "select", "stage", "activate", "collect", "rollback",
                       "uninstall"}

Longest == CHOOSE n \in {Len(g) : g \in Graphs} : \A g \in Graphs : Len(g) <= n

NoCommand == [mode |-> "none", graph |-> None, stage |-> 0, prior |-> None, next |-> 1,
              promoted |-> {}, replaced |-> {}, swapped |-> FALSE]

Command == [mode: Modes \cup {"none", "resume"},
            graph: Graphs \cup {None},
            stage: 0..MaxCommands,           \* the staging directory, 0 for a new one
            prior: Receipt \cup {None},      \* the receipt found under the lock
            next: 1..Longest,               \* the payload to be dealt with
            promoted: SUBSET Path, replaced: SUBSET Path,
            swapped: BOOLEAN]                \* bin was moved to bin-generation-<n>

TypeOK ==
    /\ payload \in Contents /\ bin \in LinkSets /\ receipt \in Receipt \cup {None}
    /\ archive \in [Generation -> Graphs \cup {None}]
    /\ binBackup \in [Generation -> LinkSets]
    /\ payloadBackup \in [Generation -> Contents]
    /\ rollbackBin \subseteq Generation
    /\ journal \in Journal \cup {None}
    /\ stages \in Seq(Stage) /\ Len(stages) <= MaxCommands
    /\ lock \in BOOLEAN
    /\ pc \in [Proc -> Place] /\ cmd \in [Proc -> Command]
    /\ commands \in 0..MaxCommands /\ faults \in 0..MaxFaults

-----------------------------------------------------------------------------
Init ==
    /\ payload = Nothing /\ bin = None /\ receipt = None
    /\ archive = [n \in Generation |-> None]
    /\ binBackup = [n \in Generation |-> None]
    /\ payloadBackup = [n \in Generation |-> Nothing]
    /\ rollbackBin = {}
    /\ journal = None /\ stages = <<>> /\ lock = FALSE
    /\ pc = [p \in Proc |-> "idle"] /\ cmd = [p \in Proc |-> NoCommand]
    /\ before = [payload |-> Nothing, bin |-> None]
    /\ commands = 0 /\ faults = 0

Goto(p, from, to) == pc[p] = from /\ pc' = [pc EXCEPT ![p] = to]

\* Mutant of Lock: the lock file is opened, whether or not it exists.
LockUnchecked == lock' = TRUE

\* application_runtime_lock: an O_EXCL create, and an unlink in its finally.
Lock   == ~lock /\ lock' = TRUE
Unlock == lock' = FALSE

\* The process ends: by returning, or by an exception it leaves by.
End(p) == pc' = [pc EXCEPT ![p] = "idle"] /\ cmd' = [cmd EXCEPT ![p] = NoCommand]

Leave(p) == End(p) /\ Unlock

Staged(p)   == stages[cmd[p].stage]
Item(p)     == cmd[p].graph[cmd[p].next]
ItemPath(p) == PathOf(Item(p))
LastItem(p) == cmd[p].next = Len(cmd[p].graph)

\* The generation an activation writes, and the one it replaces.
PriorGeneration(p) == IF cmd[p].prior = None THEN 0 ELSE cmd[p].prior.generation
NextGeneration(p)  == PriorGeneration(p) + 1

-----------------------------------------------------------------------------
(* Commands: what is checked before any lock is taken *)

\* validate_application_runtime_collisions: every destination of the graph, a
\* payload path or a link of bin, is missing, identical to what the receipt
\* says, or replaceable in this mode.
NoConflict(mode, g) ==
    LET replaceable == mode \in {"upgrade", "reinstall"}
        managed     == ItemsOf(receipt)
    IN  \A item \in Items(g) :
            /\ \/ ~Present(PathOf(item))
               \/ item \in managed
               \/ replaceable /\ \E old \in managed : PathOf(old) = PathOf(item)
            /\ \/ \A link \in LinksIn(bin) : link[1] # item.name
               \/ \E old \in managed : /\ old.name = item.name
                                       /\ replaceable \/ old.version = item.version

Start(p, to, command) ==
    /\ Goto(p, "idle", to)
    /\ commands < MaxCommands /\ commands' = commands + 1
    /\ cmd' = [cmd EXCEPT ![p] = command]
    /\ UNCHANGED <<active, retained, journal, stages, lock, before, faults>>

\* Unless it was rebuilt, an artifact of one version is the artifact.
KnownBuilds(g) ==
    ~Rebuilt => \A item \in Items(g) : payload[PathOf(item)] \in {None, item.artifact}

\* install, upgrade and reinstall
Deploy(p, mode, g) ==
    /\ NoConflict(mode, g)
    /\ mode = "reinstall" => KnownBuilds(g)
    /\ Start(p, "stage", [NoCommand EXCEPT !.mode = mode, !.graph = g])

\* resume and runtime reconcile; the mode is recovery_mode or "resume".  With
\* reconcile --replace the destinations are looked at as a reinstall does.
Resume(p, mode, g) ==
    /\ \/ NoConflict("resume", g)
       \/ mode = "reinstall" /\ NoConflict("reinstall", g) /\ KnownBuilds(g)
    /\ Start(p, "select", [NoCommand EXCEPT !.mode = mode, !.graph = g])

\* What an operator looks at before rolling back or uninstalling (see Orderly).
Quiet == Orderly => journal = None /\ ~lock /\ \A q \in Proc : pc[q] = "idle"

\* Nothing else is started while an orderly rollback or uninstall is under way.
Undisturbed ==
    Orderly => \A q \in Proc : pc[q] \notin RollingBack \cup Removing
                                            \cup {"rollback", "uninstall"}

Archived == {n \in Generation : archive[n] # None}

\* rollback_application_runtime before its lock: the active receipt, the target
\* generation, its database versions and its payloads.
Rollback(p, n) ==
    /\ Quiet
    /\ receipt # None /\ n \in Archived
    /\ \A path \in Paths(archive[n]) : Present(path)
    /\ Start(p, "rollback", [NoCommand EXCEPT !.graph = archive[n], !.prior = receipt])

\* uninstall_application_runtime_graph before its lock: the receipt's graph is
\* complete on disk, and so is bin.
Uninstall(p) ==
    /\ Quiet
    /\ receipt # None
    /\ \A path \in Paths(receipt.graph) : Present(path)
    /\ bin = Links(receipt.graph)
    /\ Start(p, "uninstall", NoCommand)

\* The lock file exists: ExecutionError.
Refused(p) ==
    /\ pc[p] \in {"stage", "activate", "collect", "rollback", "uninstall"} /\ lock
    /\ End(p)
    /\ UNCHANGED <<active, retained, journal, stages, lock, before, counters>>

-----------------------------------------------------------------------------
(* Staging *)

\* resume_application_runtime_graph: the newest staging directory of the same
\* graph.  A ready one is used as it is; another one is emptied, without the
\* lock, and staged again; without any, recovery_mode stages anew.
Matches(g) == {s \in DOMAIN stages : stages[s].graph = g /\ stages[s].status # "removed"}

SelectReady(p, s) ==
    /\ stages[s].status = "ready"
    /\ Goto(p, "select", "activate")
    /\ cmd' = [cmd EXCEPT ![p].stage = s]
    /\ UNCHANGED stages

SelectUnready(p, s) ==
    /\ stages[s].status # "ready"
    /\ Goto(p, "select", "stage")
    /\ cmd' = [cmd EXCEPT ![p].stage = s]
    /\ stages' = [stages EXCEPT ![s].payload = Nothing]

SelectNone(p) ==
    /\ pc[p] = "select"
    /\ IF cmd[p].mode = "resume" THEN End(p)
       ELSE Goto(p, "select", "stage") /\ UNCHANGED cmd
    /\ UNCHANGED stages

Select(p) ==
    /\ pc[p] = "select"
    /\ LET all == Matches(cmd[p].graph) IN
         \/ all = {} /\ SelectNone(p)
         \/ \E s \in all : /\ \A other \in all : other <= s
                           /\ SelectReady(p, s) \/ SelectUnready(p, s)
    /\ UNCHANGED <<active, retained, journal, lock, before, counters>>

\* stage_application_runtime_graph: the lock, the directory and its status
BeginStage(p) ==
    /\ Goto(p, "stage", "script")
    /\ Lock
    /\ IF cmd[p].stage = 0
       THEN /\ stages' = Append(stages, [graph |-> cmd[p].graph, status |-> "staging",
                                         payload |-> Nothing, bin |-> FALSE])
            /\ cmd' = [cmd EXCEPT ![p].stage = Len(stages) + 1]
       ELSE stages' = [stages EXCEPT ![cmd[p].stage].status = "staging"] /\ UNCHANGED cmd
    /\ UNCHANGED <<active, retained, journal, before, counters>>

\* A payload's directory was made and its script ran into it.
StageItem(p) ==
    /\ pc[p] = "script" /\ ~LastItem(p)
    /\ Staged(p).payload[ItemPath(p)] = None
    /\ stages' = [stages EXCEPT ![cmd[p].stage].payload[ItemPath(p)] = Item(p).artifact]
    /\ cmd' = [cmd EXCEPT ![p].next = @ + 1]
    /\ UNCHANGED <<active, retained, journal, lock, pc, before, counters>>

\* The last one; then _validate_staged_commands looks for every export, and the
\* stage is marked ready and unlocked, or left "staging" by an exception.
StageLast(p) ==
  LET built == [Staged(p).payload EXCEPT ![ItemPath(p)] = Item(p).artifact]
      whole == \A path \in Paths(cmd[p].graph) : built[path] # None
  IN
    /\ pc[p] = "script" /\ LastItem(p)
    /\ Staged(p).payload[ItemPath(p)] = None
    /\ stages' = [stages EXCEPT ![cmd[p].stage] =
                     [@ EXCEPT !.payload = built,
                               !.status = IF whole THEN "ready" ELSE Staged(p).status]]
    /\ IF whole THEN Goto(p, "script", "activate") /\ UNCHANGED cmd ELSE End(p)
    /\ Unlock
    /\ UNCHANGED <<active, retained, journal, before, counters>>

\* The payload's directory is there, as in a stage another process made ready in
\* the meantime: mkdir raises, and the stage keeps the status "staging".
StageOccupied(p) ==
    /\ pc[p] = "script" /\ Staged(p).payload[ItemPath(p)] # None
    /\ Leave(p)
    /\ UNCHANGED <<active, retained, journal, stages, before, counters>>

\* A script exits with an error: the files stay for diagnostics.
StageFails(p) ==
    /\ stages' = [stages EXCEPT ![cmd[p].stage].status = "failed"]
    /\ Leave(p)
    /\ UNCHANGED <<active, retained, journal, before>>

-----------------------------------------------------------------------------
(* Recovery: _recover_application_runtime_activation_unlocked *)

\* activate_staged_application_runtime takes the lock and looks at the journal.
Activate(p) ==
    /\ Goto(p, "activate", IF journal = None \/ journal.phase = "receipt-written"
                           THEN "prepare"
                           ELSE IF journal.phase = "bin-activated" THEN "recoverBin"
                           ELSE "recoverPromoted")
    /\ Lock
    /\ journal' = IF journal # None /\ journal.phase = "receipt-written" THEN None
                  ELSE journal
    /\ UNCHANGED <<active, retained, stages, cmd, before, counters>>

RecoverBin(p) ==
    /\ Goto(p, "recoverBin", "recoverBackup")
    /\ bin # None => stages[journal.stage].status # "removed"
    /\ bin' = None
    /\ stages' = IF bin = None THEN stages ELSE [stages EXCEPT ![journal.stage].bin = TRUE]
    /\ UNCHANGED <<payload, receipt, retained, journal, lock, cmd, before, counters>>

RecoverBackup(p) ==
  LET n == journal.generation - 1 IN
    /\ Goto(p, "recoverBackup", "recoverPromoted")
    /\ IF journal.binBackup /\ binBackup[n] # None
       THEN bin' = binBackup[n] /\ binBackup' = [binBackup EXCEPT ![n] = None]
       ELSE UNCHANGED <<bin, binBackup>>
    /\ UNCHANGED <<payload, receipt, archive, payloadBackup, rollbackBin, journal, stages,
                   lock, cmd, before, counters>>

\* Promoted payloads that are there go back to their staging directory; the
\* rename fails on a directory that is not empty.
RecoverPromoted(p) ==
  LET back == {path \in journal.promoted : Present(path)}
      was  == stages[journal.stage].payload
  IN
    /\ Goto(p, "recoverPromoted", "recoverReplaced")
    /\ \A path \in back : was[path] = None
    /\ payload' = [path \in Path |-> IF path \in back THEN None ELSE payload[path]]
    /\ stages' = [stages EXCEPT ![journal.stage].payload =
                     [path \in Path |-> IF path \in back THEN payload[path] ELSE was[path]]]
    /\ UNCHANGED <<bin, receipt, retained, journal, lock, cmd, before, counters>>

\* Replaced payloads come back from their backup.
RestoreReplaced(n, replaced, from) ==
  LET back == {path \in replaced : payloadBackup[n][path] # None} IN
    /\ payload' = [path \in Path |-> IF path \in back THEN payloadBackup[n][path]
                                     ELSE from[path]]
    /\ payloadBackup' = [payloadBackup EXCEPT ![n] =
                            [path \in Path |-> IF path \in back THEN None ELSE @[path]]]

RecoverReplaced(p) ==
    /\ Goto(p, "recoverReplaced", "recovered")
    /\ \A path \in journal.replaced :
          payloadBackup[journal.generation - 1][path] # None => ~Present(path)
    /\ RestoreReplaced(journal.generation - 1, journal.replaced, payload)
    /\ UNCHANGED <<bin, receipt, archive, binBackup, rollbackBin, journal, stages, lock,
                   cmd, before, counters>>

Recovered(p) ==
    /\ Goto(p, "recovered", "prepare")
    /\ journal' = None
    /\ UNCHANGED <<active, retained, stages, lock, cmd, before, counters>>

\* A rename of the recovery fails: the journal stays, the lock is released.
RecoveryFails(p) ==
    /\ \/ pc[p] = "recoverBin" /\ bin # None /\ stages[journal.stage].status = "removed"
       \/ /\ pc[p] = "recoverPromoted"
          /\ \E path \in journal.promoted :
                Present(path) /\ stages[journal.stage].payload[path] # None
       \/ /\ pc[p] = "recoverReplaced"
          /\ \E path \in journal.replaced :
                /\ Present(path)
                /\ payloadBackup[journal.generation - 1][path] # None
    /\ Leave(p)
    /\ UNCHANGED <<active, retained, journal, stages, before, counters>>

-----------------------------------------------------------------------------
(* Activation: activate_staged_application_runtime after the recovery *)

\* The receipt is read, the staged bin is built, the journal says "prepared".
Prepare(p) ==
    /\ Goto(p, "prepare", "promote")
    /\ Staged(p).status # "removed"
    /\ stages' = [stages EXCEPT ![cmd[p].stage].bin = TRUE]
    /\ cmd' = [cmd EXCEPT ![p] = [@ EXCEPT !.prior = receipt, !.next = 1]]
    /\ journal' = [generation |-> IF receipt = None THEN 1 ELSE receipt.generation + 1,
                   phase |-> "prepared", stage |-> cmd[p].stage,
                   promoted |-> {}, replaced |-> {}, binBackup |-> FALSE]
    /\ before' = [payload |-> payload, bin |-> bin]
    /\ UNCHANGED <<active, retained, lock, counters>>

\* The staging directory was removed: mkdir fails, outside the try block.
PrepareFails(p) ==
    /\ pc[p] = "prepare" /\ Staged(p).status = "removed"
    /\ Leave(p)
    /\ UNCHANGED <<active, retained, journal, stages, before, counters>>

\* What the promotion of the next payload finds.
SourceThere(p) == Staged(p).payload[ItemPath(p)] # None
Occupied(p)    == Present(ItemPath(p))
Aside(p)       == payloadBackup[PriorGeneration(p)][ItemPath(p)]

\* Mutant of NextItem: the index runs past the last payload.
NextItemPastEnd(p, promoted) ==
    /\ pc' = [pc EXCEPT ![p] = IF LastItem(p) THEN "journalPromoted" ELSE "promote"]
    /\ cmd' = [cmd EXCEPT ![p].next = @ + 1, ![p].promoted = @ \cup promoted]

\* The payload whose turn it is has been dealt with.
NextItem(p, promoted) ==
    /\ pc' = [pc EXCEPT ![p] = IF LastItem(p) THEN "journalPromoted" ELSE "promote"]
    /\ cmd' = [cmd EXCEPT ![p].next = IF LastItem(p) THEN @ ELSE @ + 1,
                          ![p].promoted = @ \cup promoted]

MoveIntoPlace(p) ==
    /\ payload' = [payload EXCEPT ![ItemPath(p)] = Staged(p).payload[ItemPath(p)]]
    /\ stages' = [stages EXCEPT ![cmd[p].stage].payload[ItemPath(p)] = None]
    /\ NextItem(p, {ItemPath(p)})

\* The destination is free.
PromoteNew(p) ==
    /\ pc[p] = "promote" /\ ~Occupied(p) /\ SourceThere(p)
    /\ MoveIntoPlace(p)
    /\ UNCHANGED <<bin, receipt, retained, journal, lock, before, counters>>

\* Mutant of MayReuse: a payload is reused if its package and version are right.
MayReuseVersion(p) ==
    \E old \in ItemsOf(cmd[p].prior) : PathOf(old) = ItemPath(p)

\* prior_package == package_record
MayReuse(p) == Item(p) \in ItemsOf(cmd[p].prior)

\* The destination holds this very package: the staged copy is removed.
Reuse(p) ==
    /\ pc[p] = "promote" /\ Occupied(p) /\ SourceThere(p)
    /\ cmd[p].mode # "reinstall"
    /\ MayReuse(p)
    /\ stages' = [stages EXCEPT ![cmd[p].stage].payload[ItemPath(p)] = None]
    /\ NextItem(p, {})
    /\ UNCHANGED <<active, retained, journal, lock, before, counters>>

\* A reinstall sets the destination aside, then moves the new payload in.
SetAside(p) ==
    /\ Goto(p, "promote", "place") /\ Occupied(p)
    /\ cmd[p].mode = "reinstall"
    /\ Aside(p) = None
    /\ payloadBackup' = [payloadBackup EXCEPT ![PriorGeneration(p)][ItemPath(p)] =
                            payload[ItemPath(p)]]
    /\ payload' = [payload EXCEPT ![ItemPath(p)] = None]
    /\ cmd' = [cmd EXCEPT ![p].replaced = @ \cup {ItemPath(p)}]
    /\ UNCHANGED <<bin, receipt, archive, binBackup, rollbackBin, journal, stages, lock,
                   before, counters>>

PlaceNew(p) ==
    /\ pc[p] = "place" /\ SourceThere(p)
    /\ MoveIntoPlace(p)
    /\ UNCHANGED <<bin, receipt, retained, journal, lock, before, counters>>

\* The code's own errors in the loop: a payload of another identity, a staged
\* payload that is gone, a backup that is already there.
PromotionImpossible(p) ==
    \/ pc[p] = "place" /\ ~SourceThere(p)
    \/ /\ pc[p] = "promote"
       /\ \/ ~Occupied(p) /\ ~SourceThere(p)
          \/ /\ Occupied(p) /\ cmd[p].mode # "reinstall"
             /\ ~MayReuse(p) \/ ~SourceThere(p)
          \/ Occupied(p) /\ cmd[p].mode = "reinstall" /\ Aside(p) # None

Advance(p, phase) ==
    journal' = [journal EXCEPT !.phase = phase, !.promoted = cmd[p].promoted,
                               !.replaced = cmd[p].replaced, !.binBackup = cmd[p].swapped]

JournalPromoted(p) ==
    /\ Goto(p, "journalPromoted", "swap")
    /\ Advance(p, "payloads-promoted")
    /\ UNCHANGED <<active, retained, stages, lock, cmd, before, counters>>

\* bin is moved to bin-generation-<n>, if there is one to move.
Swap(p) ==
    /\ Goto(p, "swap", "switch")
    /\ \/ bin = None /\ UNCHANGED <<bin, binBackup, cmd>>
       \/ /\ bin # None /\ cmd[p].prior # None /\ binBackup[PriorGeneration(p)] = None
          /\ binBackup' = [binBackup EXCEPT ![PriorGeneration(p)] = bin]
          /\ bin' = None
          /\ cmd' = [cmd EXCEPT ![p].swapped = TRUE]
    /\ UNCHANGED <<payload, receipt, archive, payloadBackup, rollbackBin, journal, stages,
                   lock, before, counters>>

\* A bin that is not dbpm's, or a backup that is already there.
SwapImpossible(p) ==
    pc[p] = "swap" /\ bin # None
    /\ (cmd[p].prior = None \/ binBackup[PriorGeneration(p)] # None)

Switch(p) ==
    /\ Goto(p, "switch", "journalSwitched")
    /\ bin' = Links(cmd[p].graph)
    /\ stages' = [stages EXCEPT ![cmd[p].stage].bin = FALSE]
    /\ UNCHANGED <<payload, receipt, retained, journal, lock, cmd, before, counters>>

JournalSwitched(p) ==
    /\ Goto(p, "journalSwitched", "archive")
    /\ Advance(p, "bin-activated")
    /\ UNCHANGED <<active, retained, stages, lock, cmd, before, counters>>

ArchivePrior(p) ==
    /\ Goto(p, "archive", "receipt")
    /\ archive' = IF cmd[p].prior = None THEN archive
                  ELSE [archive EXCEPT ![PriorGeneration(p)] = cmd[p].prior.graph]
    /\ UNCHANGED <<active, binBackup, payloadBackup, rollbackBin, journal, stages, lock,
                   cmd, before, counters>>

WriteReceipt(p) ==
    /\ Goto(p, "receipt", "finish")
    /\ receipt' = [generation |-> NextGeneration(p), graph |-> cmd[p].graph]
    /\ UNCHANGED <<payload, bin, retained, journal, stages, lock, cmd, before, counters>>

JournalReceipt(p) ==
    /\ Goto(p, "finish", "unlink")
    /\ Advance(p, "receipt-written")
    /\ UNCHANGED <<active, retained, stages, lock, cmd, before, counters>>

Finish(p) ==
    /\ Goto(p, "unlink", "collect")
    /\ journal' = None
    /\ Unlock
    /\ UNCHANGED <<active, retained, stages, cmd, before, counters>>

\* Mutant of Undo: the replaced payloads are forgotten.
UndoPromotedOnly(p) ==
    /\ payload' = [path \in Path |-> IF path \in cmd[p].promoted THEN None
                                     ELSE payload[path]]
    /\ UNCHANGED <<bin, binBackup, payloadBackup, stages>>
    /\ journal' = None

\* except Exception: bin goes back to the stage, its backup to bin, promoted
\* payloads to the stage and replaced ones into place; then the journal goes.
\* A backup that cannot be renamed onto a bin still there ends the undoing.
Undo(p) ==
  LET n      == PriorGeneration(p)
      rest   == IF pc[p] \in Switched THEN None ELSE bin
      undone == [path \in Path |-> IF path \in cmd[p].promoted THEN None ELSE payload[path]]
      staged == [path \in Path |-> IF path \in cmd[p].promoted THEN payload[path]
                                   ELSE Staged(p).payload[path]]
  IN
    IF binBackup[n] # None /\ rest # None
    THEN UNCHANGED <<payload, bin, binBackup, payloadBackup, stages, journal>>
    ELSE /\ bin' = IF binBackup[n] # None THEN binBackup[n] ELSE rest
         /\ binBackup' = [binBackup EXCEPT ![n] = None]
         /\ RestoreReplaced(n, cmd[p].replaced, undone)
         /\ stages' = [stages EXCEPT ![cmd[p].stage] =
                          [@ EXCEPT !.payload = staged,
                                    !.bin = Staged(p).bin
                                            \/ (pc[p] \in Switched /\ bin # None)]]
         /\ journal' = None

ActivationFails(p) ==
    /\ PromotionImpossible(p) \/ SwapImpossible(p)
    /\ Undo(p)
    /\ Leave(p)
    /\ UNCHANGED <<receipt, archive, rollbackBin, before, counters>>

-----------------------------------------------------------------------------
(* Collection: garbage_collect_application_runtime, one generation retained *)

Newest(S) == CHOOSE n \in S : \A m \in S : m <= n
Kept == IF Archived = {} THEN {} ELSE {Newest(Archived)}

\* Mutant of Referenced: only the active generation's payloads are referenced.
ReferencedByActive == Paths(receipt.graph)

Referenced == UNION ({Paths(receipt.graph)} \cup {Paths(archive[n]) : n \in Kept})

\* Mutant of CollectPayloads: the collector trusts the graph it activated itself.
CollectAroundOwnGraph(p) ==
    /\ Goto(p, "collect", "drop")
    /\ Lock
    /\ payload' = [path \in Path |-> IF path \in Paths(cmd[p].graph) THEN payload[path]
                                     ELSE None]
    /\ UNCHANGED <<bin, receipt, retained, journal, stages, cmd, before, counters>>

CollectPayloads(p) ==
    /\ Goto(p, "collect", "drop")
    /\ Lock
    /\ receipt # None
    /\ payload' = [path \in Path |-> IF path \in Referenced THEN payload[path] ELSE None]
    /\ UNCHANGED <<bin, receipt, retained, journal, stages, cmd, before, counters>>

\* There is no receipt any more: ExecutionError, under the lock.
CollectFails(p) ==
    /\ pc[p] = "collect" /\ ~lock /\ receipt = None
    /\ End(p)
    /\ UNCHANGED <<active, retained, journal, stages, lock, before, counters>>

DropGenerations(p) ==
  LET old == Archived \ Kept IN
    /\ pc[p] = "drop"
    /\ archive' = [n \in Generation |-> IF n \in old THEN None ELSE archive[n]]
    /\ binBackup' = [n \in Generation |-> IF n \in old THEN None ELSE binBackup[n]]
    /\ payloadBackup' = [n \in Generation |-> IF n \in old THEN Nothing
                                              ELSE payloadBackup[n]]
    /\ Leave(p)
    /\ UNCHANGED <<active, rollbackBin, journal, stages, before, counters>>

-----------------------------------------------------------------------------
(* Rollback and uninstall, under the lock; neither looks at the journal *)

\* bin-rollback-<n> is made and filled with links to executables.
BeginRollback(p) ==
    /\ Goto(p, "rollback", "archiveActive")
    /\ Lock
    /\ NextGeneration(p) \notin rollbackBin
    /\ \A path \in Paths(cmd[p].graph) : Present(path)
    /\ rollbackBin' = rollbackBin \cup {NextGeneration(p)}
    /\ UNCHANGED <<active, archive, binBackup, payloadBackup, journal, stages, cmd, before,
                   counters>>

\* mkdir finds a directory left over, or an executable is gone: the exception
\* leaves bin-rollback-<n> behind.
RollbackImpossible(p) ==
    /\ pc[p] = "rollback" /\ ~lock
    /\ \/ NextGeneration(p) \in rollbackBin
       \/ \E path \in Paths(cmd[p].graph) : ~Present(path)
    /\ rollbackBin' = rollbackBin \cup {NextGeneration(p)}
    /\ End(p)
    /\ UNCHANGED <<active, archive, binBackup, payloadBackup, journal, stages, lock, before,
                   counters>>

ArchiveActive(p) ==
    /\ Goto(p, "archiveActive", "swapBack")
    /\ archive' = [archive EXCEPT ![PriorGeneration(p)] = cmd[p].prior.graph]
    /\ UNCHANGED <<active, binBackup, payloadBackup, rollbackBin, journal, stages, lock,
                   cmd, before, counters>>

\* An older bin-generation-<n> is removed, bin takes its name.
SwapBack(p) ==
    /\ Goto(p, "swapBack", "switchBack")
    /\ bin # None
    /\ binBackup' = [binBackup EXCEPT ![PriorGeneration(p)] = bin]
    /\ bin' = None
    /\ UNCHANGED <<payload, receipt, archive, payloadBackup, rollbackBin, journal, stages,
                   lock, cmd, before, counters>>

\* There is no bin to rename.
SwapBackFails(p) ==
    /\ pc[p] = "swapBack" /\ bin = None
    /\ binBackup' = [binBackup EXCEPT ![PriorGeneration(p)] = None]
    /\ Leave(p)
    /\ UNCHANGED <<active, archive, payloadBackup, rollbackBin, journal, stages, before,
                   counters>>

SwitchBack(p) ==
    /\ Goto(p, "switchBack", "receiptBack")
    /\ bin' = Links(cmd[p].graph)
    /\ rollbackBin' = rollbackBin \ {NextGeneration(p)}
    /\ UNCHANGED <<payload, receipt, archive, binBackup, payloadBackup, journal, stages,
                   lock, cmd, before, counters>>

\* Mutant of ReceiptBack: the rollback takes its target's generation again.
ReceiptBackAsTarget(p) ==
    /\ Goto(p, "receiptBack", "collect")
    /\ receipt' = [generation |-> CHOOSE n \in Archived : archive[n] = cmd[p].graph,
                   graph |-> cmd[p].graph]
    /\ Unlock
    /\ UNCHANGED <<payload, bin, retained, journal, stages, cmd, before, counters>>

ReceiptBack(p) ==
    /\ Goto(p, "receiptBack", "collect")
    /\ receipt' = [generation |-> NextGeneration(p), graph |-> cmd[p].graph]
    /\ Unlock
    /\ UNCHANGED <<payload, bin, retained, journal, stages, cmd, before, counters>>

RemoveBin(p) ==
    /\ Goto(p, "uninstall", "removePackages")
    /\ Lock
    /\ bin' = None
    /\ UNCHANGED <<payload, receipt, retained, journal, stages, cmd, before, counters>>

RemovePackages(p) ==
    /\ Goto(p, "removePackages", "removeManaged")
    /\ payload' = Nothing
    /\ UNCHANGED <<bin, receipt, retained, journal, stages, lock, cmd, before, counters>>

\* generations, payload-backups, staging and every bin-generation-<n>
RemoveManaged(p) ==
    /\ Goto(p, "removeManaged", "removeReceipt")
    /\ archive' = [n \in Generation |-> None]
    /\ binBackup' = [n \in Generation |-> None]
    /\ payloadBackup' = [n \in Generation |-> Nothing]
    /\ stages' = [s \in DOMAIN stages |-> [stages[s] EXCEPT !.status = "removed",
                                                            !.payload = Nothing]]
    /\ UNCHANGED <<active, rollbackBin, journal, lock, cmd, before, counters>>

\* uninstalled-receipt.json is written, receipt.json removed.
RemoveReceipt(p) ==
    /\ pc[p] = "removeReceipt"
    /\ receipt' = None
    /\ Leave(p)
    /\ UNCHANGED <<payload, bin, retained, journal, stages, before, counters>>

-----------------------------------------------------------------------------
(* Faults *)

Fault == faults < MaxFaults /\ faults' = faults + 1 /\ UNCHANGED commands

\* The step raises before it takes effect.  Staging records that it failed, the
\* try block of the activation undoes what it did, everything else just ends.
Error(p) ==
    /\ pc[p] \in ErrorAt \cap Locked /\ Fault
    /\ \/ pc[p] \in Staging /\ StageFails(p)
       \/ /\ pc[p] \in Tried
          /\ Undo(p) /\ Leave(p)
          /\ UNCHANGED <<receipt, archive, rollbackBin, before>>
       \/ /\ pc[p] \notin Staging \cup Tried
          /\ Leave(p)
          /\ UNCHANGED <<active, retained, journal, stages, before>>

\* KeyboardInterrupt is no Exception: only the lock's finally is executed.
Interrupt(p) ==
    /\ pc[p] \in InterruptAt \cap Locked /\ Fault
    /\ Leave(p)
    /\ UNCHANGED <<active, retained, journal, stages, before>>

\* Nothing at all is executed: the lock file stays.
Kill(p) ==
    /\ pc[p] \in KillAt \cap Locked /\ Fault
    /\ End(p)
    /\ UNCHANGED <<active, retained, journal, stages, lock, before>>

-----------------------------------------------------------------------------
Commanded(p) ==
    /\ Undisturbed
    /\ \/ \E mode \in Modes, g \in Graphs : Deploy(p, mode, g)
       \/ \E mode \in Modes \cup {"resume"}, g \in Graphs : Resume(p, mode, g)
       \/ \E n \in Generation : Rollback(p, n)
       \/ Uninstall(p)

Stages(p)    == \/ Select(p) \/ BeginStage(p) \/ StageItem(p) \/ StageLast(p)
                \/ StageOccupied(p)
Recovers(p)  == \/ RecoverBin(p) \/ RecoverBackup(p) \/ RecoverPromoted(p)
                \/ RecoverReplaced(p) \/ Recovered(p) \/ RecoveryFails(p)
Promotes(p)  == \/ PromoteNew(p) \/ Reuse(p) \/ SetAside(p) \/ PlaceNew(p)
                \/ JournalPromoted(p)
Activates(p) == \/ Activate(p) \/ Prepare(p) \/ PrepareFails(p)
                \/ Promotes(p) \/ Swap(p) \/ Switch(p) \/ JournalSwitched(p)
                \/ ArchivePrior(p) \/ WriteReceipt(p) \/ JournalReceipt(p) \/ Finish(p)
                \/ ActivationFails(p)
Collects(p)  == CollectPayloads(p) \/ CollectFails(p) \/ DropGenerations(p)
RollsBack(p) == \/ BeginRollback(p) \/ RollbackImpossible(p) \/ ArchiveActive(p)
                \/ SwapBack(p) \/ SwapBackFails(p) \/ SwitchBack(p) \/ ReceiptBack(p)
Removes(p)   == \/ RemoveBin(p) \/ RemovePackages(p) \/ RemoveManaged(p)
                \/ RemoveReceipt(p)

Next ==
    \E p \in Proc :
        \/ Commanded(p) \/ Refused(p)
        \/ Stages(p) \/ Recovers(p) \/ Activates(p) \/ Collects(p)
        \/ RollsBack(p) \/ Removes(p)
        \/ Error(p) \/ Interrupt(p) \/ Kill(p)

Spec == Init /\ [][Next]_vars

-----------------------------------------------------------------------------
(* Properties *)

Resting == ~lock /\ journal = None

\* Whatever commands were run, refused, failed or interrupted: when nobody is at
\* work and no journal is left to be recovered, bin and the payloads on disk
\* are those the active receipt names.
ActiveIntact ==
    Resting /\ receipt # None
        => /\ bin = Links(receipt.graph)
           /\ \A item \in Items(receipt.graph) : payload[PathOf(item)] = item.artifact

\* spec/runtime-component.md, "Before activation, the old graph remains usable":
\* the payloads of the active graph are on disk at every moment, but for those a
\* reinstall replaces and an uninstall removes.
OldGraphStaysUsable ==
    /\ receipt # None
    /\ \A p \in Proc : /\ pc[p] \in Tried => cmd[p].mode # "reinstall"
                       /\ pc[p] \notin Removing
    /\ journal # None => journal.replaced = {}
    => \A path \in Paths(receipt.graph) : Present(path)

\* The generation a rollback would select by default still has its payloads,
\* through every collection, undone activation and reinstall.
RollbackTargetIntact ==
    Resting /\ receipt # None /\ Archived # {}
        => \A path \in Paths(archive[Newest(Archived)]) : Present(path)

\* An activation is undone as a whole or not at all: once its journal is gone,
\* its receipt is the active one, or payloads and bin are as it found them.
AllOrNothing ==
    [][journal # None /\ journal' = None
         => \/ receipt # None /\ receipt.generation = journal.generation
            \/ payload' = before.payload /\ bin' = before.bin]_vars

\* docs/commands/rollback.md: a rollback is "a new monotonically increasing
\* generation", and so is every activation.
GenerationsGrow ==
    [][receipt # None /\ receipt' \notin {None, receipt}
         => receipt'.generation > receipt.generation]_vars

\* A step of another process than p, which is where it was and does what it did.
Beside(p) == pc'[p] = pc[p] /\ cmd'[p] = cmd[p]

\* spec/runtime-component.md, "hold an exclusive application runtime lock during
\* mutation": from a process's lock to its unlock, through every step in between,
\* nobody else changes payloads, bin, receipts, backups or the journal.  Staging
\* directories are not protected: a resume empties the one it has selected
\* before it asks for the lock (SelectUnready), also while another process is
\* still staging there.
ExclusiveMutation ==
    [][\A p \in Proc : pc[p] \in Locked /\ Beside(p)
          => UNCHANGED <<active, retained, journal>>]_vars

\* spec/runtime-component.md: "A later activation automatically rolls back an
\* incomplete journal under the runtime lock".  The graph whose activation was
\* interrupted can be deployed again in one mode or other.
JournalIsRecoverable ==
    ~lock /\ journal # None
        => \E mode \in Modes \cup {"resume"} :
              NoConflict(mode, stages[journal.stage].graph)
===============================================================================
