-------------------------- MODULE CompositeOperation --------------------------
(***************************************************************************)
(* A composite operation (executor._execute_composite_operation and the    *)
(* commands of cli.py that lead to it): one application whose packages     *)
(* deploy into the database first and whose runtime is activated after.    *)
(* Several dbpm processes run install, upgrade, reinstall, resume and      *)
(* runtime reconcile against the same application; each one drives the     *)
(* database record of OperationLease, which this module extends.           *)
(*                                                                         *)
(* An action is one call that leaves the process: a SQL block, a script    *)
(* that starts or ends, a file that is replaced.  The runtime side is one  *)
(* step here, which succeeds or raises; module RuntimeActivation opens it. *)
(***************************************************************************)
EXTENDS OperationLease, Sequences, FiniteSets

CONSTANTS
    Packages,     \* the packages the plan deploys, in deployment order
    Grouped,      \* is it a multi-package plan, as that of every source with
                  \* dependencies is?
    Plans,        \* the plans an operator may submit: [mode, version]
    Installed,    \* the version installed at the start, 0 for none
    Leftover,     \* versions a prefix may have active that the database does not
                  \* know of (it was reset, or restored from a backup)
    Commands,     \* does the application export runtime commands?
    Overlap,      \* may two processes be past looking at the operation record
                  \* and short of acquiring its lease at the same time?
    SlowAt,       \* the steps that may outlast the lease of their process
    Spare,        \* bound: lease tokens a reconcile of what is VALIDATED leaves
    FaultAt,      \* where every process stands when something goes wrong
    MaxFaults     \* bound on crashes, interrupts, failures and outages

PlanMode == {"install", "upgrade", "reinstall"}

\* The mode column of the record holds mode.upper() (db._begin_operation_sql).
StoredMode == [install |-> "INSTALL", upgrade |-> "UPGRADE", reinstall |-> "REINSTALL"]

ASSUME PlansAssumption ==
    /\ Len(Packages) \in Nat \ {0}
    /\ DOMAIN Packages = 1..Len(Packages)
    /\ Grouped \in BOOLEAN
    /\ Len(Packages) > 1 => Grouped
    /\ Plans \subseteq [mode: PlanMode, version: Nat \ {0}]
    /\ \A m \in PlanMode : StoredMode[m] \in Mode
    /\ Installed \in Nat
    /\ Leftover \subseteq Nat
    /\ Commands \in BOOLEAN
    /\ Overlap \in BOOLEAN
    /\ Spare \in Nat
    /\ MaxFaults \in Nat

VARIABLES
    database,  \* Core's APPLICATION row of each package
    receipt,   \* lifecycle-receipt.json: the plan written last
    runtime,   \* version the active runtime receipt names, 0 for none
    stage,     \* what the newest staging directory for a version's graph holds
    prefixUp,  \* is the runtime prefix a writable directory just now?
    pc,        \* per process: the call it is about to make
    job,       \* per process: the plan and the local variables of the executor
    openedFor, \* per operation: the plan it was begun with (history)
    faults     \* how many faults have happened

worldVars == <<database, receipt, runtime, stage, prefixUp>>
sagaVars  == <<leaseVars, worldVars, pc, job, openedFor, faults>>

-----------------------------------------------------------------------------
(* Types *)

NoPlan == [mode |-> "none", version |-> 0]

Versions == {plan.version : plan \in Plans}

Package == {Packages[i] : i \in DOMAIN Packages}

NotInstalled == [version |-> 0, status |-> "-"]

\* R: a deployment is running or was interrupted; F: it failed; C: complete.
Registration == [version: Nat, status: {"-", "R", "F", "C"}]

\* Lifecycle scripts of a manifest, by the keys cli looks them up with; a
\* reinstall deploys with the install script.
LifecycleKeys == {"install", "upgrade"}
ScriptFor(key) == IF key \in LifecycleKeys THEN key ELSE "install"

DatabaseDone ==
    {"DATABASE_COMPLETE", "RUNTIME_UNREACHABLE", "RUNTIME_ACTIVE", "VALIDATED"}

NoJob == [plan |-> NoPlan, resume |-> FALSE, replace |-> FALSE,
          script |-> [k \in Package |-> "install"],
          seen |-> "ABSENT", done |-> FALSE, reach |-> FALSE, next |-> 1]

Job == [plan: Plans \cup {NoPlan}, resume: BOOLEAN,
        replace: BOOLEAN,                      \* runtime_reconcile_replace
        script: [Package -> LifecycleKeys],
        seen: OperationState \cup {"ABSENT"},  \* record.state, read before the lease
        done: BOOLEAN,                         \* database_complete
        reach: BOOLEAN,                        \* reachable
        next: 1..(Len(Packages) + 1)]          \* the package to remove or deploy next

\* Where a process stands; the comment of each action names the code.
Place == {"idle", "prepare", "begin", "insert", "current", "acquire", "evidence",
          "start", "preflight", "staged", "renewDatabase", "started", "remove",
          "script", "running", "early", "failed", "complete", "unreachable",
          "renewRuntime", "activate", "active", "health", "validated", "release"}

ASSUME PlacesAssumption == SlowAt \subseteq Place /\ FaultAt \subseteq Place

SagaTypeOK ==
    /\ TypeOK
    /\ database \in [Package -> Registration]
    /\ receipt \in Plans \cup {NoPlan}
    /\ runtime \in Nat
    /\ stage \in [Versions -> {"none", "unused", "used"}]
    /\ prefixUp \in BOOLEAN
    /\ pc \in [Proc -> Place]
    /\ job \in [Proc -> Job]
    /\ openedFor \in [OpId -> Plans \cup {NoPlan}]
    /\ faults \in 0..MaxFaults

-----------------------------------------------------------------------------
SagaInit ==
    /\ Init
    /\ database = [k \in Package |->
                      IF Installed = 0 THEN NotInstalled
                      ELSE [version |-> Installed, status |-> "C"]]
    /\ receipt = NoPlan
    /\ runtime \in Leftover \cup {Installed}
    /\ stage = [v \in Versions |-> IF v = runtime THEN "used" ELSE "none"]
    /\ prefixUp = TRUE
    /\ pc = [p \in Proc |-> "idle"]
    /\ job = [p \in Proc |-> NoJob]
    /\ openedFor = [id \in OpId |-> NoPlan]
    /\ faults = 0

Goto(p, from, to) == pc[p] = from /\ pc' = [pc EXCEPT ![p] = to]

Fault ==
    /\ faults < MaxFaults /\ faults' = faults + 1
    /\ \A q \in Proc : pc[q] \in FaultAt

\* The UUID the code draws next: only its being unused matters, so one unused
\* value stands for all of them.
One(S) == IF S = {} THEN {} ELSE {CHOOSE x \in S : TRUE}

FreshId    == One(OpId \ begun)
FreshToken == One(Token \ issued)

\* What the finally clause leads to from inside the try block.
Raise(p, from) == Goto(p, from, "release")

\* The process ends with nothing of its own left behind but what is durable.
Exit(p) == pc' = [pc EXCEPT ![p] = "idle"] /\ job' = [job EXCEPT ![p] = NoJob]

-----------------------------------------------------------------------------
(* From the command line to the lease *)

\* cli._enforce_installed_state, over the rows read while planning.
Allowed(plan) ==
    \A k \in Package :
        CASE plan.mode = "install"   -> database[k] = NotInstalled
          [] plan.mode = "upgrade"   -> /\ database[k].status = "C"
                                        /\ database[k].version < plan.version
          [] plan.mode = "reinstall" -> TRUE

\* Bound: whoever submits a plan will find an unused operation id.
IdLeft == Cardinality(begun)
              + Cardinality({q \in Proc : pc[q] \in {"prepare", "begin", "insert"}})
          < Cardinality(OpId)

Submit(p, plan) ==
    /\ Goto(p, "idle", "prepare")
    /\ IdLeft
    /\ Allowed(plan)
    /\ job' = [job EXCEPT ![p] =
                  [NoJob EXCEPT !.plan = plan,
                                !.script = [k \in Package |-> ScriptFor(plan.mode)]]]
    /\ UNCHANGED <<leaseVars, worldVars, openedFor, faults>>

\* snapshot_plan and cli._prepare_composite_plan: the receipt is replaced
\* before Core has been asked whether the operation may begin at all.
Prepare(p) ==
    /\ Goto(p, "prepare", "begin")
    /\ prefixUp
    /\ receipt' = job[p].plan
    /\ UNCHANGED <<leaseVars, database, runtime, stage, prefixUp, job, openedFor, faults>>

\* Their mkdir fails on an unreachable prefix.
PrepareFails(p) ==
    /\ pc[p] = "prepare" /\ ~prefixUp
    /\ Exit(p)
    /\ UNCHANGED <<leaseVars, worldVars, openedFor, faults>>

Window == {"insert", "acquire"}

\* Between its look at the record and its lease a process is exposed to what
\* the others do; without Overlap one process at a time is in that window.
WindowFree == Overlap \/ \A q \in Proc : pc[q] \notin Window

Begin(p) ==
    /\ Goto(p, "begin", "insert")
    /\ WindowFree
    /\ BeginCheck(p)
    /\ UNCHANGED <<worldVars, job, openedFor, faults>>

BeginRefused(p) ==
    /\ pc[p] = "begin" /\ BeginBusy(p)
    /\ Exit(p)
    /\ UNCHANGED <<leaseVars, worldVars, openedFor, faults>>

InsertOperation(p) ==
  \E id \in FreshId :
    /\ Goto(p, "insert", "acquire")
    /\ BeginCommit(p, id, StoredMode[job[p].plan.mode])
    /\ openedFor' = [openedFor EXCEPT ![id] = job[p].plan]
    /\ job' = [job EXCEPT ![p].seen = "RESOLVED"]
    /\ UNCHANGED <<worldVars, faults>>

\* cli._build_installed_resume_plan: the plan is the receipt's; a package Core
\* knows is resumed with the script of operation.mode, as Core stores it.
ResumeScript(k, operationMode) ==
    IF database[k] = NotInstalled THEN "install" ELSE ScriptFor(operationMode)

\* resume, runtime reconcile, or runtime reconcile --replace, which (bound) is
\* tried when the runtime of another version is active.
Retries ==
    {"resume", "reconcile"} \cup
        (IF runtime \in {0, receipt.version} THEN {} ELSE {"replace"})

SubmitResume(p, command) ==
    /\ Goto(p, "idle", "current")
    /\ prefixUp /\ receipt # NoPlan
    /\ pointer # NoOp
    /\ \/ row[pointer].state # "VALIDATED"
       \/ command # "resume" /\ Cardinality(issued) + Spare < Cardinality(Token)
    /\ job' = [job EXCEPT ![p] =
                  [NoJob EXCEPT !.plan = receipt, !.resume = TRUE,
                                !.replace = command = "replace",
                                !.script = [k \in Package |->
                                               ResumeScript(k, row[pointer].mode)]]]
    /\ UNCHANGED <<leaseVars, worldVars, openedFor, faults>>

\* The executor reads the operation again; record.state is kept from here.
ReadOperation(p) ==
    /\ Goto(p, "current", "acquire")
    /\ WindowFree
    /\ GetCurrent(p)
    /\ job' = [job EXCEPT ![p].seen = row[pointer].state]
    /\ UNCHANGED <<worldVars, openedFor, faults>>

\* Mutant of AcquireLease: only VALIDATED counts as having completed the
\* database phase, and nothing asks for evidence.
AcquireTrustingNothing(p) ==
    /\ Goto(p, "acquire", "start")
    /\ \E t \in FreshToken : Acquire(p, t)
    /\ job' = [job EXCEPT ![p].done = job[p].seen = "VALIDATED"]
    /\ UNCHANGED <<worldVars, openedFor, faults>>

\* The lease is taken; a resume whose record does not say the database phase
\* is complete asks Core for live evidence.
AcquireLease(p) ==
    LET done == job[p].seen \in DatabaseDone IN
    /\ Goto(p, "acquire", IF job[p].resume /\ ~done THEN "evidence" ELSE "start")
    /\ \E t \in FreshToken : Acquire(p, t)
    /\ job' = [job EXCEPT ![p].done = done]
    /\ UNCHANGED <<worldVars, openedFor, faults>>

AcquireRefused(p) ==
    /\ pc[p] = "acquire" /\ AcquireFails(p)
    /\ Vanish(p)
    /\ Exit(p)
    /\ UNCHANGED <<worldVars, openedFor, faults>>

\* Mutant of DatabaseEvidence: one complete package is taken for all of them.
SomeEvidence == \E k \in Package : database[k].status = "C"

\* _database_evidence_valid: every package's status is C; its version is not
\* looked at.
DatabaseEvidence == \A k \in Package : database[k].status = "C"

CheckEvidence(p) ==
    /\ Goto(p, "evidence", "start")
    /\ job' = [job EXCEPT ![p].done = DatabaseEvidence]
    /\ UNCHANGED <<leaseVars, worldVars, openedFor, faults>>

-----------------------------------------------------------------------------
(* Inside the try block: the database phase *)

Say(p, from, to, state) ==
    /\ Goto(p, from, to)
    /\ Record(p, state)
    /\ UNCHANGED <<worldVars, job, openedFor, faults>>

\* resolved, policy_evaluated and initiating_surface, or database_reverified
RecordStart(p) ==
    Say(p, "start", "preflight",
        IF job[p].done THEN "DATABASE_COMPLETE" ELSE "RESOLVED")

\* validate_application_runtime_collisions: bin/<command> of another version is
\* in the way of every mode but upgrade and reinstall, and a resume checks
\* under mode "resume" whatever it resumes, or "reinstall" with --replace.
Conflicting(p) ==
    /\ Commands
    /\ job[p].resume \/ job[p].plan.mode = "install"
    /\ ~job[p].replace
    /\ runtime \notin {0, job[p].plan.version}

\* Reachability is sampled once; a reachable prefix is checked for collisions.
Preflight(p) ==
    /\ Goto(p, "preflight", IF job[p].done
                            THEN (IF prefixUp THEN "renewRuntime" ELSE "unreachable")
                            ELSE (IF prefixUp THEN "staged" ELSE "renewDatabase"))
    /\ prefixUp => ~Conflicting(p)
    /\ job' = [job EXCEPT ![p].reach = prefixUp]
    /\ UNCHANGED <<leaseVars, worldVars, openedFor, faults>>

PreflightRefused(p) ==
    /\ Raise(p, "preflight")
    /\ prefixUp /\ Conflicting(p)
    /\ UNCHANGED <<leaseVars, worldVars, job, openedFor, faults>>

PreflightFails(p) ==
    /\ Raise(p, "preflight") /\ prefixUp /\ Fault
    /\ UNCHANGED <<leaseVars, worldVars, job, openedFor>>

\* runtime_staged and collisions_validated
RecordStaged(p) == Say(p, "staged", "renewDatabase", "RUNTIME_STAGED")

RenewBeforeDatabase(p) ==
    /\ Goto(p, "renewDatabase", "started")
    /\ Renew(p)
    /\ UNCHANGED <<worldVars, job, openedFor, faults>>

\* database_started; a reinstall begins by removing what it deploys.
RecordDatabaseStarted(p) ==
    /\ Goto(p, "started", IF job[p].plan.mode = "reinstall" THEN "remove" ELSE "script")
    /\ Record(p, "RUNTIME_STAGED")
    /\ UNCHANGED <<worldVars, job, openedFor, faults>>

\* delete_application: the pre-action of a package, or the removal_order of a
\* graph reinstall, consumers first.  The receipt keeps both for a resume.
RemovePackage(p) ==
  LET last == job[p].next = Len(Packages) IN
    /\ Goto(p, "remove", IF last THEN "script" ELSE "remove")
    /\ database' = [database EXCEPT
                       ![Packages[Len(Packages) + 1 - job[p].next]] = NotInstalled]
    /\ job' = [job EXCEPT ![p].next = IF last THEN 1 ELSE job[p].next + 1]
    /\ UNCHANGED <<leaseVars, receipt, runtime, stage, prefixUp, openedFor, faults>>

RemovalFails(p) ==
    /\ Goto(p, "remove", "failed")
    /\ Fault
    /\ UNCHANGED <<leaseVars, worldVars, job, openedFor>>

Deploying(p) == Packages[job[p].next]

ScriptStarts(p) ==
    /\ Goto(p, "script", "running")
    /\ database' = [database EXCEPT ![Deploying(p)] =
                       [version |-> job[p].plan.version, status |-> "R"]]
    /\ UNCHANGED <<leaseVars, receipt, runtime, stage, prefixUp, job, openedFor, faults>>

ScriptEnds(p) ==
    /\ Goto(p, "running", IF job[p].next < Len(Packages) THEN "script"
                          ELSE IF Grouped THEN "early" ELSE "complete")
    /\ database' = [database EXCEPT ![Deploying(p)] =
                       [version |-> job[p].plan.version, status |-> "C"]]
    /\ job' = [job EXCEPT ![p].next = @ + 1]
    /\ UNCHANGED <<leaseVars, receipt, runtime, stage, prefixUp, openedFor, faults>>

\* Mutant of ScriptFails: the exit code is not looked at.
ScriptFailsUnseen(p) ==
    /\ Goto(p, "running", "complete")
    /\ Fault
    /\ UNCHANGED <<leaseVars, worldVars, job, openedFor>>

\* A non-zero exit, of which Core may or may not have been told, or a
\* post-action that fails after a script that completed.
ScriptFails(p) ==
    /\ Goto(p, "running", "failed")
    /\ Fault
    /\ \/ database' = database
       \/ database' = [database EXCEPT ![Deploying(p)].status = "F"]
       \/ database' = [database EXCEPT ![Deploying(p)] =
                           [version |-> job[p].plan.version, status |-> "C"]]
    /\ UNCHANGED <<leaseVars, receipt, runtime, stage, prefixUp, job, openedFor>>

\* Mutant of RecordFailed: a state no reader of the record knows.
RecordAborted(p) == Say(p, "failed", "release", "ABORTED")

\* step="database", state="FAILED"
RecordFailed(p) == Say(p, "failed", "release", "FAILED")

\* step="database", state="DATABASE_COMPLETE"
RecordDatabase(p) ==
    Say(p, "complete", IF job[p].reach THEN "renewRuntime" ELSE "unreachable",
        "DATABASE_COMPLETE")

-----------------------------------------------------------------------------
(* Inside the try block: the runtime phase *)

RecordUnreachable(p) == Say(p, "unreachable", "release", "RUNTIME_UNREACHABLE")

RenewBeforeRuntime(p) ==
    /\ Goto(p, "renewRuntime", "activate")
    /\ Renew(p)
    /\ UNCHANGED <<worldVars, job, openedFor, faults>>

\* install, upgrade and reinstall stage afresh.  A resume takes over the newest
\* staging directory with its graph: one that was promoted before is still
\* marked ready, but its payloads are gone.  Without one, only a resume with a
\* recovery_mode stages afresh: after the database phase, one that found the
\* database complete or was told to replace.
Recovering(p) == pc[p] = "activate" /\ (job[p].done \/ job[p].replace)

CanActivate(p) ==
    /\ prefixUp
    /\ \/ ~job[p].resume
       \/ stage[job[p].plan.version] = "unused"
       \/ stage[job[p].plan.version] = "none" /\ Recovering(p)

\* _execute_application_runtime: stage, activate and collect.
ActivateRuntime(p) ==
    /\ CanActivate(p)
    /\ runtime' = job[p].plan.version
    /\ stage' = [stage EXCEPT ![job[p].plan.version] = "used"]
    /\ UNCHANGED <<leaseVars, database, receipt, prefixUp, job, openedFor, faults>>

Activate(p) == Goto(p, "activate", "active") /\ ActivateRuntime(p)

\* execute_plan activates the runtime of a multi-package plan itself, without
\* asking defer_runtime: it is activated once as the last step of the database
\* phase, and again after it.
ActivateEarly(p) == Goto(p, "early", "complete") /\ ActivateRuntime(p)

\* Whatever fails there is taken for a failure of the database phase.
EarlyRefused(p) ==
    /\ Goto(p, "early", "failed")
    /\ ~CanActivate(p)
    /\ UNCHANGED <<leaseVars, worldVars, job, openedFor, faults>>

ActivationRefused(p) ==
    /\ Raise(p, "activate")
    /\ prefixUp /\ ~CanActivate(p)
    /\ UNCHANGED <<leaseVars, worldVars, job, openedFor, faults>>

\* Mutant of ActivationUnreachable: the activation error is swallowed.
ActivationSwallowed(p) ==
    /\ Goto(p, "activate", "active")
    /\ ~prefixUp
    /\ UNCHANGED <<leaseVars, worldVars, job, openedFor, faults>>

\* An outage is told apart from another failure by looking at the prefix; it
\* may come before the activation, or after it while its collection is running.
ActivationUnreachable(p) ==
    /\ pc[p] \in {"activate", "active"} /\ Goto(p, pc[p], "unreachable")
    /\ ~prefixUp
    /\ UNCHANGED <<leaseVars, worldVars, job, openedFor, faults>>

\* An error while staging or activating, undone but for the staging directory.
ActivationFails(p) ==
    /\ \/ Raise(p, "activate")
       \/ Goto(p, "early", "failed")
    /\ CanActivate(p) /\ Fault
    /\ stage' \in {stage, [stage EXCEPT ![job[p].plan.version] = "unused"]}
    /\ UNCHANGED <<leaseVars, database, receipt, runtime, prefixUp, job, openedFor>>

RecordActive(p) == Say(p, "active", "health", "RUNTIME_ACTIVE")

\* validate_application_runtime_graph
HealthCheck(p) ==
    /\ Goto(p, "health", IF prefixUp THEN "validated" ELSE "release")
    /\ UNCHANGED <<leaseVars, worldVars, job, openedFor, faults>>

HealthCheckFails(p) ==
    /\ Raise(p, "health")
    /\ prefixUp /\ Fault
    /\ UNCHANGED <<leaseVars, worldVars, job, openedFor>>

\* validated and composite_complete
RecordValidated(p) == Say(p, "validated", "release", "VALIDATED")

-----------------------------------------------------------------------------
(* Endings *)

\* record_operation_step or renew_operation_lease was refused.
LeaseCalls == {"start", "staged", "renewDatabase", "started", "failed", "complete",
               "unreachable", "renewRuntime", "active", "validated"}

Fenced(p) ==
    /\ pc[p] \in LeaseCalls /\ ~Unfenced(p)
    /\ Raise(p, pc[p])
    /\ UNCHANGED <<leaseVars, worldVars, job, openedFor, faults>>

\* Mutant of ReleaseLease: an interrupted process clears whatever lease the
\* record carries.
ReleaseAnyLease(p) ==
    /\ pc[p] = "release"
    /\ row' = [row EXCEPT ![pointer] = [@ EXCEPT !.token = NoToken, !.attempt = 0]]
    /\ lease' = [lease EXCEPT ![p] = NoLease]
    /\ target' = [target EXCEPT ![p] = NoOp]
    /\ UNCHANGED <<pointer, pointerLock, begun, issued, clock>>
    /\ Exit(p)
    /\ UNCHANGED <<worldVars, openedFor, faults>>

\* finally: release_operation_lease
ReleaseLease(p) ==
    /\ pc[p] = "release"
    /\ IF MayRelease(p) THEN Release(p) ELSE Vanish(p)
    /\ Exit(p)
    /\ UNCHANGED <<worldVars, openedFor, faults>>

\* The process is killed, or an error outside the try block ends it: whatever
\* lease it holds stays in the record.
Crash(p) ==
    /\ pc[p] # "idle" /\ Fault
    /\ Vanish(p)
    /\ Exit(p)
    /\ UNCHANGED <<worldVars, openedFor>>

\* Ctrl-C inside the try block skips "except Exception" but not finally; at
\* "active" it is as well an error in the collection after an activation.
Interrupt(p) ==
    /\ pc[p] \in {"remove", "script", "running", "early", "active", "health"} /\ Fault
    /\ Raise(p, pc[p])
    /\ UNCHANGED <<leaseVars, worldVars, job, openedFor>>

PrefixDown ==
    /\ prefixUp /\ prefixUp' = FALSE /\ Fault
    /\ UNCHANGED <<leaseVars, database, receipt, runtime, stage, pc, job, openedFor>>

PrefixUp ==
    /\ ~prefixUp /\ prefixUp' = TRUE
    /\ UNCHANGED <<leaseVars, database, receipt, runtime, stage, pc, job, openedFor, faults>>

\* Time matters while a lease is live (so the bounded clock counts only then).
RunsOut(p) == Unfenced(p) /\ row[lease[p].op].expiry <= clock + 1

TimePasses ==
    /\ \E id \in OpId : Leased(id)
    /\ \A p \in Proc : ~RunsOut(p)
    /\ Tick
    /\ UNCHANGED <<worldVars, pc, job, openedFor, faults>>

\* A step (a deployment script, say) outlasts the lease it was started under;
\* nothing renews a lease while a step runs.
LeaseOutlasted ==
    /\ \E p \in Proc : pc[p] \in SlowAt /\ RunsOut(p)
    /\ Fault
    /\ Tick
    /\ UNCHANGED <<worldVars, pc, job, openedFor>>

-----------------------------------------------------------------------------
Submits(p) == \E plan \in Plans : Submit(p, plan)
Resumes(p) == \E command \in Retries : SubmitResume(p, command)

\* What a running process does next, faults apart.
Advance(p) ==
    \/ Prepare(p) \/ PrepareFails(p)
    \/ Begin(p) \/ BeginRefused(p) \/ InsertOperation(p)
    \/ ReadOperation(p)
    \/ AcquireLease(p) \/ AcquireRefused(p) \/ CheckEvidence(p)
    \/ RecordStart(p) \/ Preflight(p) \/ PreflightRefused(p)
    \/ RecordStaged(p)
    \/ RenewBeforeDatabase(p) \/ RecordDatabaseStarted(p)
    \/ RemovePackage(p) \/ ScriptStarts(p) \/ ScriptEnds(p)
    \/ RecordFailed(p) \/ RecordDatabase(p)
    \/ RecordUnreachable(p) \/ RenewBeforeRuntime(p)
    \/ ActivateEarly(p) \/ EarlyRefused(p)
    \/ Activate(p) \/ ActivationRefused(p) \/ ActivationUnreachable(p)
    \/ RecordActive(p) \/ HealthCheck(p) \/ RecordValidated(p)
    \/ Fenced(p) \/ ReleaseLease(p)

GoesWrong(p) ==
    \/ PreflightFails(p) \/ RemovalFails(p) \/ ScriptFails(p) \/ ActivationFails(p)
    \/ HealthCheckFails(p) \/ Crash(p) \/ Interrupt(p)

SagaNext ==
    \/ \E p \in Proc : Submits(p) \/ Resumes(p) \/ Advance(p) \/ GoesWrong(p)
    \/ PrefixDown \/ PrefixUp
    \/ TimePasses \/ LeaseOutlasted

SagaSpec == SagaInit /\ [][SagaNext]_sagaVars

\* A running process goes on, time goes on, an outage ends, and an operator
\* (or the automation calling dbpm) resumes what has not been completed.
SagaFairness ==
    /\ \A p \in Proc : WF_sagaVars(Advance(p))
    /\ \A p \in Proc : WF_sagaVars(SubmitResume(p, "resume"))
    /\ WF_sagaVars(TimePasses)
    /\ WF_sagaVars(PrefixUp)

FairSagaSpec == SagaSpec /\ SagaFairness

-----------------------------------------------------------------------------
(* Properties *)

\* The executor and the commands use the lease as db.py means it: every step of
\* the saga is a step of the lease protocol or leaves its state alone.
LeaseProtocol == Spec

\* At work on the application's schema: from the first pre-action until the
\* last script's outcome has been seen.
OnDatabase(p) == pc[p] \in {"remove", "script", "running"}

\* What the lease is for: however many processes install, reinstall or resume
\* the application, one of them at a time is at work on its schema.
OneDeployer == \A p, q \in Proc : OnDatabase(p) /\ OnDatabase(q) => p = q

DeployedAt(version) ==
    \A k \in Package : database[k] = [version |-> version, status |-> "C"]

\* What it rests on, without Overlap and with SlowAt empty: a process
\* past its acquire and short of its release is not fenced, ...
Holder == Place \ {"idle", "prepare", "begin", "insert", "current", "acquire"}

Holding == \A p \in Proc : pc[p] \in Holder => Unfenced(p)

\* ... one process at a time is in the window before its acquire, ...
Alone == \A p, q \in Proc : pc[p] \in Window /\ pc[q] \in Window => p = q

\* ... and the operation a begin is about to delete is not leased.
BeginFree == \A p \in Proc : pc[p] = "insert" => pointerLock = p /\ ~Leased(pointer)

DeployerInv == Holding /\ Alone /\ BeginFree

\* The local variables of the executor at the places that read them.
PlanHeld ==
    \A p \in Proc : pc[p] \in {"prepare", "begin", "insert"} => job[p].plan \in Plans

Undeployed ==
    {"idle", "prepare", "begin", "insert", "current", "acquire", "evidence", "start",
     "preflight", "staged", "renewDatabase", "started"}

NextInRange ==
    \A p \in Proc : /\ pc[p] \in Undeployed => job[p].next = 1
                    /\ OnDatabase(p) => job[p].next <= Len(Packages)

SagaInv == SagaTypeOK /\ PlanHeld /\ NextInRange

\* What the truth of the record rests on when all plans deploy version v: what
\* a process knows of the database phase agrees with the record and with Core.
OneVersion(v) ==
    /\ \A plan \in Plans : plan.version = v
    /\ Installed \in {0, v}

Recorded == pointer # NoOp /\ row[pointer].state \in DatabaseDone

\* After the last script and before it; both under the lease.
Deployed == {"early", "complete", "unreachable", "renewRuntime", "activate", "active",
             "health", "validated"}
InPhase  == {"staged", "renewDatabase", "started", "remove", "script", "running",
             "early", "failed", "complete"}

\* A reading of the record outlives the window before the acquire: nobody can
\* have taken a completion back, and what was just begun is still untouched.
ReadingHolds(p) ==
    /\ pc[p] = "current" => job[p].resume
    /\ pc[p] = "acquire" =>
           /\ job[p].seen \in DatabaseDone => Recorded
           /\ ~job[p].resume => job[p].seen = "RESOLVED" /\ ~Recorded /\ ~Leased(pointer)

\* A process under the lease either knows that the database is complete, or
\* has a record that does not say so.
PhaseHolds(p, v) ==
    /\ pc[p] # "idle" => job[p].plan \in Plans
    /\ pc[p] \in Holder /\ job[p].done => DeployedAt(v)
    /\ pc[p] \in InPhase => ~job[p].done
    /\ pc[p] \in InPhase \cup {"start", "preflight"} /\ ~job[p].done => ~Recorded
    /\ pc[p] \in Deployed => DeployedAt(v)
    /\ pc[p] \in {"active", "health", "validated"} => runtime = v

\* The packages before the next one are deployed.
ProgressHolds(p, v) ==
    pc[p] \in {"script", "running"} =>
        \A i \in 1..(job[p].next - 1) :
            \/ database[Packages[i]] = [version |-> v, status |-> "C"]
            \/ pc[p] = "running" /\ Packages[i] = Packages[job[p].next]

RecordHolds(v) ==
    /\ pointer # NoOp => openedFor[pointer] \in Plans
    /\ Recorded => DeployedAt(v)
    /\ Recorded /\ row[pointer].state = "VALIDATED" => runtime = v
    /\ \A k \in Package : database[k].status = "C" => database[k].version = v

CompletionInv(v) ==
    /\ RecordHolds(v)
    /\ \A p \in Proc : ReadingHolds(p) /\ PhaseHolds(p, v) /\ ProgressHolds(p, v)

\* A record that says the database phase is complete tells the truth, through
\* every crash, takeover and retry: the packages are at the operation's version.
CompletionIsTrue ==
    pointer # NoOp /\ row[pointer].state \in DatabaseDone
        => DeployedAt(openedFor[pointer].version)

\* VALIDATED means both halves of the composite are at the same version.
ValidatedIsConsistent ==
    pointer # NoOp /\ row[pointer].state = "VALIDATED"
        => /\ DeployedAt(openedFor[pointer].version)
           /\ runtime = openedFor[pointer].version

\* The runtime never runs ahead of the database: whoever changes the active
\* runtime finds every package complete at the version it activates.
RuntimeFollowsDatabase ==
    [][runtime' # runtime => DeployedAt(runtime')]_sagaVars

\* docs/commands/resume.md:100-101: "Confirmed database completion is never
\* replayed merely because the current attempt number changed."  The database
\* does not change under a record that says it is complete, and such a record is
\* not taken back while its operation is the current one, whoever acquired its
\* lease in between (_execute_composite_operation).
CompletedDatabaseNotReplayed ==
    [][pointer # NoOp /\ row[pointer].state \in DatabaseDone
          => /\ database' = database
             /\ pointer' = pointer => row'[pointer].state \in DatabaseDone]_sagaVars

\* An operation that has begun is completed, or superseded by a newer one,
\* if resume is retried and the faults stop.
Recovers ==
    \A id \in OpId :
        (pointer = id) ~> (pointer # id \/ row[id].state = "VALIDATED")
===============================================================================
