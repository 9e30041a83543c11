----------------------- MODULE CompositeOperationProofs -----------------------
(***************************************************************************)
(* The composite operation uses the lease as its protocol demands, so every *)
(* theorem about the protocol holds of it.  As long as no step outlasts its *)
(* lease and no two processes look at the record at once, one process at a  *)
(* time deploys; and when every plan deploys the same version, what the     *)
(* record says of the database is true, and what it says to be complete is  *)
(* not done again.                                                          *)
(***************************************************************************)
EXTENDS CompositeOperation, OperationLeaseProofs

USE NamesAssumption, LeaseAssumption, PlansAssumption

-----------------------------------------------------------------------------
(* The operators the actions are built from *)

\* A fresh id or token is an unused one.
LEMMA FreshIsUnused == FreshId \subseteq OpId \ begun /\ FreshToken \subseteq Token \ issued
<1>1. ASSUME NEW S PROVE One(S) \subseteq S
  BY <1>1 DEF One
<1> QED BY <1>1 DEF FreshId, FreshToken

\* Goto moves one process and no other.
LEMMA GotoMoves ==
    ASSUME pc \in [Proc -> Place], NEW p \in Proc, NEW from, NEW to \in Place,
           Goto(p, from, to)
    PROVE  /\ pc[p] = from
           /\ pc' = [pc EXCEPT ![p] = to]
           /\ pc' \in [Proc -> Place]
           /\ pc'[p] = to
           /\ \A q \in Proc : q # p => pc'[q] = pc[q]
BY DEF Goto

\* Replacing one process's job by a job keeps all of them jobs.
LEMMA JobUpdate ==
    ASSUME job \in [Proc -> Job], NEW p \in Proc, NEW j \in Job,
           job' = [job EXCEPT ![p] = j]
    PROVE  /\ job' \in [Proc -> Job]
           /\ job'[p] = j
           /\ \A q \in Proc : q # p => job'[q] = job[q]
OBVIOUS

\* A process that has not started has a job, and a job stays one when a field
\* is replaced by a value of the field's type.
LEMMA Jobs ==
    /\ NoJob \in Job
    /\ \A j \in Job :
          /\ \A s \in OperationState \cup {"ABSENT"} :
                [j EXCEPT !.seen = s] \in Job /\ [j EXCEPT !.seen = s].next = j.next
          /\ \A b \in BOOLEAN :
                /\ [j EXCEPT !.done = b] \in Job /\ [j EXCEPT !.done = b].next = j.next
                /\ [j EXCEPT !.reach = b] \in Job /\ [j EXCEPT !.reach = b].next = j.next
          /\ \A n \in 1..(Len(Packages) + 1) :
                [j EXCEPT !.next = n] \in Job /\ [j EXCEPT !.next = n].next = n
    /\ \A plan \in Plans, s \in [Package -> LifecycleKeys], b \in BOOLEAN :
          /\ [NoJob EXCEPT !.plan = plan, !.script = s] \in Job
          /\ [NoJob EXCEPT !.plan = plan, !.resume = TRUE, !.replace = b,
                           !.script = s] \in Job
<1>1. NoJob \in Job
  <2>1. [k \in Package |-> "install"] \in [Package -> LifecycleKeys]
    BY DEF LifecycleKeys
  <2>2. 1 \in 1..(Len(Packages) + 1)
    OBVIOUS
  <2> QED BY <2>1, <2>2 DEF NoJob, Job
<1>2. ASSUME NEW plan \in Plans, NEW s \in [Package -> LifecycleKeys], NEW b \in BOOLEAN
      PROVE  /\ [NoJob EXCEPT !.plan = plan, !.script = s] \in Job
             /\ [NoJob EXCEPT !.plan = plan, !.resume = TRUE, !.replace = b,
                              !.script = s] \in Job
  BY <1>1 DEF NoJob, Job
<1>3. ASSUME NEW j \in Job
      PROVE  /\ \A t \in OperationState \cup {"ABSENT"} :
                    [j EXCEPT !.seen = t] \in Job /\ [j EXCEPT !.seen = t].next = j.next
             /\ \A b \in BOOLEAN :
                    /\ [j EXCEPT !.done = b] \in Job /\ [j EXCEPT !.done = b].next = j.next
                    /\ [j EXCEPT !.reach = b] \in Job /\ [j EXCEPT !.reach = b].next = j.next
             /\ \A n \in 1..(Len(Packages) + 1) :
                    [j EXCEPT !.next = n] \in Job /\ [j EXCEPT !.next = n].next = n
  BY DEF Job
<1> QED BY <1>1, <1>2, <1>3

\* A plan's stored mode is a mode of the record.
LEMMA StoredModes == \A plan \in Plans : StoredMode[plan.mode] \in Mode
OBVIOUS

-----------------------------------------------------------------------------
(* Every step of the saga is a step of the lease protocol *)

\* The calls of db.py, one by one; every other action leaves the record and the
\* clients' leases alone.
LEMMA LeaseStep == PlanHeld /\ [SagaNext]_sagaVars => [Next]_leaseVars
<1> SUFFICES ASSUME PlanHeld, [SagaNext]_sagaVars PROVE [Next]_leaseVars
  OBVIOUS
<1>1. ASSUME NEW p \in Proc, Begin(p) PROVE Next
  BY <1>1 DEF Begin, Next
<1>2. ASSUME NEW p \in Proc, InsertOperation(p) PROVE Next
  <2>1. PICK id \in FreshId : BeginCommit(p, id, StoredMode[job[p].plan.mode])
    BY <1>2 DEF InsertOperation
  <2>2. pc[p] = "insert"
    BY <1>2 DEF InsertOperation, Goto
  <2>3. StoredMode[job[p].plan.mode] \in Mode
    BY <2>2, StoredModes DEF PlanHeld
  <2> QED BY <2>1, <2>3, FreshIsUnused DEF Next
<1>3. ASSUME NEW p \in Proc, ReadOperation(p) PROVE Next
  BY <1>3 DEF ReadOperation, Next
<1>4. ASSUME NEW p \in Proc, AcquireLease(p) PROVE Next
  <2>1. PICK t \in FreshToken : Acquire(p, t)
    BY <1>4 DEF AcquireLease
  <2> QED BY <2>1, FreshIsUnused DEF Next
<1>5. ASSUME NEW p \in Proc, AcquireRefused(p) \/ Crash(p) PROVE Next
  BY <1>5 DEF AcquireRefused, Crash, Next
<1>6. ASSUME NEW p \in Proc, NEW from, NEW to, NEW s \in OperationState,
             Say(p, from, to, s)
      PROVE  Next
  BY <1>6 DEF Say, Next
<1>7. ASSUME NEW p \in Proc,
             \/ RecordStart(p) \/ RecordStaged(p) \/ RecordFailed(p)
             \/ RecordDatabase(p) \/ RecordUnreachable(p) \/ RecordActive(p)
             \/ RecordValidated(p)
      PROVE  Next
  BY <1>6, <1>7 DEF RecordStart, RecordStaged, RecordFailed, RecordDatabase,
                    RecordUnreachable, RecordActive, RecordValidated, OperationState
<1>8. ASSUME NEW p \in Proc, RecordDatabaseStarted(p) PROVE Next
  BY <1>8 DEF RecordDatabaseStarted, Next, OperationState
<1>9. ASSUME NEW p \in Proc, RenewBeforeDatabase(p) \/ RenewBeforeRuntime(p) PROVE Next
  BY <1>9 DEF RenewBeforeDatabase, RenewBeforeRuntime, Next
<1>10. ASSUME NEW p \in Proc, ReleaseLease(p) PROVE Next
  BY <1>10 DEF ReleaseLease, Next
<1>11. CASE TimePasses \/ LeaseOutlasted
  BY <1>11 DEF TimePasses, LeaseOutlasted, Next
<1>12. ASSUME NEW p \in Proc, Submits(p) \/ Resumes(p) PROVE UNCHANGED leaseVars
  BY <1>12 DEF Submits, Submit, Resumes, SubmitResume
<1>13. ASSUME NEW p \in Proc,
              \/ Prepare(p) \/ PrepareFails(p) \/ BeginRefused(p) \/ CheckEvidence(p)
              \/ Preflight(p) \/ RemovePackage(p) \/ ScriptStarts(p) \/ ScriptEnds(p)
              \/ Activate(p) \/ ActivationUnreachable(p) \/ HealthCheck(p) \/ Fenced(p)
              \/ PreflightRefused(p) \/ ActivationRefused(p)
              \/ ActivateEarly(p) \/ EarlyRefused(p)
       PROVE  UNCHANGED leaseVars
  BY <1>13 DEF Prepare, PrepareFails, BeginRefused, CheckEvidence, Preflight,
               RemovePackage, ScriptStarts, ScriptEnds, Activate, ActivateEarly,
               ActivateRuntime, EarlyRefused, PreflightRefused, ActivationRefused,
               ActivationUnreachable, HealthCheck, Fenced
<1>14. ASSUME NEW p \in Proc,
              \/ PreflightFails(p) \/ ScriptFails(p) \/ ActivationFails(p)
              \/ HealthCheckFails(p) \/ Interrupt(p) \/ RemovalFails(p)
       PROVE  UNCHANGED leaseVars
  BY <1>14 DEF PreflightFails, ScriptFails, ActivationFails, HealthCheckFails, Interrupt,
               RemovalFails
<1>15. CASE PrefixDown \/ PrefixUp
  BY <1>15 DEF PrefixDown, PrefixUp
<1>16. CASE UNCHANGED sagaVars
  BY <1>16 DEF sagaVars
<1>17. ASSUME NEW p \in Proc, Advance(p) \/ GoesWrong(p)
       PROVE  Next \/ UNCHANGED leaseVars
  BY <1>1, <1>2, <1>3, <1>4, <1>5, <1>7, <1>8, <1>9, <1>10, <1>13, <1>14, <1>17
     DEF Advance, GoesWrong
<1> QED BY <1>11, <1>12, <1>15, <1>16, <1>17 DEF SagaNext

-----------------------------------------------------------------------------
(* Types *)

\* What SagaTypeOK says of the variables that are neither the lease protocol's
\* nor local to a process.
WorldTyped ==
    /\ database \in [Package -> Registration]
    /\ receipt \in Plans \cup {NoPlan}
    /\ runtime \in Nat
    /\ stage \in [Versions -> {"none", "unused", "used"}]
    /\ prefixUp \in BOOLEAN
    /\ openedFor \in [OpId -> Plans \cup {NoPlan}]
    /\ faults \in 0..MaxFaults

\* A process that moves with job j keeps the invariant if j suits its new place.
LEMMA Moves ==
    ASSUME SagaInv, TypeOK', WorldTyped',
           NEW p \in Proc, NEW from, NEW to \in Place, NEW j \in Job,
           Goto(p, from, to), job' = [job EXCEPT ![p] = j],
           to \in {"prepare", "begin", "insert"} => j.plan \in Plans,
           to \in Undeployed => j.next = 1,
           to \in {"remove", "script", "running"} => j.next <= Len(Packages)
    PROVE  SagaInv'
<1>1. pc' \in [Proc -> Place] /\ pc'[p] = to /\ \A q \in Proc : q # p => pc'[q] = pc[q]
  BY GotoMoves DEF SagaInv, SagaTypeOK
<1>2. job' \in [Proc -> Job] /\ job'[p] = j /\ \A q \in Proc : q # p => job'[q] = job[q]
  BY JobUpdate DEF SagaInv, SagaTypeOK
<1>3. SagaTypeOK'
  BY <1>1, <1>2 DEF SagaTypeOK, WorldTyped
<1>4. PlanHeld'
  BY <1>1, <1>2 DEF PlanHeld, SagaInv
<1>5. NextInRange'
  BY <1>1, <1>2 DEF NextInRange, OnDatabase, SagaInv
<1> QED BY <1>3, <1>4, <1>5 DEF SagaInv

\* A process that moves and keeps its job.
LEMMA MovesOn ==
    ASSUME SagaInv, TypeOK', WorldTyped',
           NEW p \in Proc, NEW from, NEW to \in Place,
           Goto(p, from, to), job' = job,
           to \in {"prepare", "begin", "insert"} => job[p].plan \in Plans,
           to \in Undeployed => job[p].next = 1,
           to \in {"remove", "script", "running"} => job[p].next <= Len(Packages)
    PROVE  SagaInv'
<1>1. job[p] \in Job /\ job' = [job EXCEPT ![p] = job[p]]
  BY DEF SagaInv, SagaTypeOK
<1> QED BY <1>1, Moves

\* A process that ends.
LEMMA Exits ==
    ASSUME SagaInv, TypeOK', WorldTyped', NEW p \in Proc, Exit(p)
    PROVE  SagaInv'
<1>1. Goto(p, pc[p], "idle") /\ job' = [job EXCEPT ![p] = NoJob]
  BY DEF Exit, Goto
<1>2. NoJob.next = 1 /\ "idle" \in Place
  BY DEF NoJob, Place
<1> QED BY <1>1, <1>2, Jobs, Moves

\* Places that are no longer before the deployment, and do not deploy.
LEMMA Elsewhere ==
    {"early", "failed", "complete", "unreachable", "renewRuntime", "activate", "active",
     "health", "validated", "release"} \subseteq
        Place \ (Undeployed \cup {"remove", "script", "running"})
BY DEF Place, Undeployed

\* Every step keeps the types, the plan a starting process holds and the index
\* of the package it deploys.
LEMMA SagaInvStep == SagaInv /\ [SagaNext]_sagaVars => SagaInv'
<1> SUFFICES ASSUME SagaInv, [SagaNext]_sagaVars PROVE SagaInv'
  OBVIOUS
<1>a. TypeOK'
  BY LeaseStep, TypeStep DEF SagaInv, SagaTypeOK
<1>b. ASSUME UNCHANGED <<worldVars, openedFor>>, Fault \/ faults' = faults
      PROVE  WorldTyped'
  BY <1>b DEF worldVars, Fault, SagaInv, SagaTypeOK, WorldTyped
<1>c. \A p \in Proc :
         /\ job[p] \in Job
         /\ pc[p] \in {"prepare", "begin", "insert"} => job[p].plan \in Plans
         /\ pc[p] \in Undeployed => job[p].next = 1
         /\ OnDatabase(p) => job[p].next <= Len(Packages)
  BY DEF SagaInv, SagaTypeOK, PlanHeld, NextInRange
\* Starting
<1>1. ASSUME NEW p \in Proc, NEW plan \in Plans, Submit(p, plan) PROVE SagaInv'
  <2> DEFINE j == [NoJob EXCEPT !.plan = plan,
                                !.script = [k \in Package |-> ScriptFor(plan.mode)]]
  <2>1. [k \in Package |-> ScriptFor(plan.mode)] \in [Package -> LifecycleKeys]
    BY DEF ScriptFor, LifecycleKeys
  <2>3. j \in Job /\ j.plan = plan /\ j.next = 1
    BY <2>1, Jobs DEF NoJob
  <2>4. "prepare" \in Place /\ "prepare" \notin {"remove", "script", "running"}
    BY DEF Place
  <2>5. Goto(p, "idle", "prepare") /\ job' = [job EXCEPT ![p] = j]
    BY <1>1 DEF Submit
  <2>6. WorldTyped'
    BY <1>1, <1>b DEF Submit
  <2> HIDE DEF j
  <2> QED BY <1>a, <2>3, <2>4, <2>5, <2>6, Moves
<1>2. ASSUME NEW p \in Proc, Prepare(p) PROVE SagaInv'
  <2>1. /\ Goto(p, "prepare", "begin") /\ job' = job
        /\ pc[p] = "prepare"
    BY <1>2 DEF Prepare, Goto
  <2>2. WorldTyped'
    BY <1>2, <1>c, <2>1 DEF Prepare, SagaInv, SagaTypeOK, WorldTyped
  <2> QED BY <1>a, <1>c, <2>1, <2>2, MovesOn DEF Place, Undeployed
<1>3. ASSUME NEW p \in Proc, PrepareFails(p) \/ BeginRefused(p) \/ AcquireRefused(p)
                             \/ ReleaseLease(p) \/ Crash(p)
      PROVE  SagaInv'
  <2>1. Exit(p) /\ UNCHANGED <<worldVars, openedFor>> /\ (Fault \/ faults' = faults)
    BY <1>3 DEF PrepareFails, BeginRefused, AcquireRefused, ReleaseLease, Crash
  <2> QED BY <1>a, <1>b, <2>1, Exits
<1>4. ASSUME NEW p \in Proc, Begin(p) PROVE SagaInv'
  <2>1. Goto(p, "begin", "insert") /\ job' = job /\ pc[p] = "begin"
    BY <1>4 DEF Begin, Goto
  <2>2. WorldTyped'
    BY <1>4, <1>b DEF Begin
  <2> QED BY <1>a, <1>c, <2>1, <2>2, MovesOn DEF Place, Undeployed
<1>5. ASSUME NEW p \in Proc, InsertOperation(p) PROVE SagaInv'
  <2> DEFINE j == [job[p] EXCEPT !.seen = "RESOLVED"]
  <2>1. Goto(p, "insert", "acquire") /\ job' = [job EXCEPT ![p] = j] /\ pc[p] = "insert"
    BY <1>5 DEF InsertOperation, Goto
  <2>2. j \in Job /\ j.next = 1
    <3>1. job[p] \in Job /\ job[p].next = 1
      BY <1>c, <2>1 DEF Undeployed
    <3>2. "RESOLVED" \in OperationState \cup {"ABSENT"}
      BY DEF OperationState
    <3> QED BY <3>1, <3>2, Jobs
  <2>3. WorldTyped'
    BY <1>5, <1>c, <2>1 DEF InsertOperation, worldVars, SagaInv, SagaTypeOK, WorldTyped
  <2> HIDE DEF j
  <2> QED BY <1>a, <2>1, <2>2, <2>3, Moves DEF Place
<1>6. ASSUME NEW p \in Proc, NEW command \in Retries, SubmitResume(p, command)
      PROVE  SagaInv'
  <2> DEFINE s == [k \in Package |-> ResumeScript(k, row[pointer].mode)]
             replace == command = "replace"
             j == [NoJob EXCEPT !.plan = receipt, !.resume = TRUE, !.replace = replace,
                                !.script = s]
  <2>1. s \in [Package -> LifecycleKeys]
    BY DEF ResumeScript, ScriptFor, LifecycleKeys
  <2>2. receipt \in Plans
    BY <1>6 DEF SubmitResume, SagaInv, SagaTypeOK
  <2>3. j \in Job /\ j.next = 1
    <3>1. replace \in BOOLEAN
      OBVIOUS
    <3> HIDE DEF replace, s
    <3> QED BY <2>1, <2>2, <3>1, Jobs DEF NoJob
  <2>4. Goto(p, "idle", "current") /\ job' = [job EXCEPT ![p] = j]
    BY <1>6 DEF SubmitResume
  <2>5. WorldTyped'
    BY <1>6, <1>b DEF SubmitResume
  <2> HIDE DEF j
  <2> QED BY <1>a, <2>3, <2>4, <2>5, Moves DEF Place
<1>7. ASSUME NEW p \in Proc, ReadOperation(p) PROVE SagaInv'
  <2> DEFINE j == [job[p] EXCEPT !.seen = row[pointer].state]
  <2>1. Goto(p, "current", "acquire") /\ job' = [job EXCEPT ![p] = j] /\ pc[p] = "current"
    BY <1>7 DEF ReadOperation, Goto
  <2>2. pointer \in OpId
    BY <1>7 DEF ReadOperation, GetCurrent, SagaInv, SagaTypeOK, TypeOK
  <2>3. row[pointer].state \in OperationState \cup {"ABSENT"}
    BY <2>2 DEF SagaInv, SagaTypeOK, TypeOK, OperationRecord
  <2>4. j \in Job /\ j.next = 1
    <3>1. job[p] \in Job /\ job[p].next = 1
      BY <1>c, <2>1 DEF Undeployed
    <3> QED BY <2>3, <3>1, Jobs
  <2>5. WorldTyped'
    BY <1>7, <1>b DEF ReadOperation
  <2> HIDE DEF j
  <2> QED BY <1>a, <2>1, <2>4, <2>5, Moves DEF Place
<1>8. ASSUME NEW p \in Proc, AcquireLease(p) PROVE SagaInv'
  <2> DEFINE d == job[p].seen \in DatabaseDone
             j == [job[p] EXCEPT !.done = d]
             to == IF job[p].resume /\ ~d THEN "evidence" ELSE "start"
  <2>1. Goto(p, "acquire", to) /\ job' = [job EXCEPT ![p] = j] /\ pc[p] = "acquire"
    BY <1>8 DEF AcquireLease, Goto
  <2>2. j \in Job /\ j.next = 1
    <3>1. job[p] \in Job /\ job[p].next = 1
      BY <1>c, <2>1 DEF Undeployed
    <3>2. d \in BOOLEAN
      OBVIOUS
    <3> HIDE DEF d
    <3> QED BY <3>1, <3>2, Jobs
  <2>3. WorldTyped'
    BY <1>8, <1>b DEF AcquireLease
  <2>4. to \in Place /\ to \notin {"prepare", "begin", "insert", "remove", "script", "running"}
    BY DEF Place
  <2> HIDE DEF j, to
  <2> QED BY <1>a, <2>1, <2>2, <2>3, <2>4, Moves
<1>9. ASSUME NEW p \in Proc, CheckEvidence(p) PROVE SagaInv'
  <2> DEFINE j == [job[p] EXCEPT !.done = DatabaseEvidence]
  <2>1. Goto(p, "evidence", "start") /\ job' = [job EXCEPT ![p] = j] /\ pc[p] = "evidence"
    BY <1>9 DEF CheckEvidence, Goto
  <2>2. j \in Job /\ j.next = 1
    <3>1. job[p] \in Job /\ job[p].next = 1
      BY <1>c, <2>1 DEF Undeployed
    <3>2. DatabaseEvidence \in BOOLEAN
      BY DEF DatabaseEvidence
    <3> QED BY <3>1, <3>2, Jobs
  <2>3. WorldTyped'
    BY <1>9, <1>b DEF CheckEvidence
  <2> HIDE DEF j
  <2> QED BY <1>a, <2>1, <2>2, <2>3, Moves DEF Place
\* Recording, renewing, failing: the job stays as it is
<1>10. ASSUME NEW p \in Proc, NEW from, NEW to \in Place, Goto(p, from, to), job' = job,
              UNCHANGED <<worldVars, openedFor>>, Fault \/ faults' = faults,
              to \in Undeployed => pc[p] \in Undeployed,
              to \notin {"prepare", "begin", "insert", "remove", "script", "running"}
       PROVE  SagaInv'
  BY <1>a, <1>b, <1>c, <1>10, MovesOn
<1>11. ASSUME NEW p \in Proc, RecordStart(p) \/ RecordStaged(p) PROVE SagaInv'
  <2>1. PICK to \in {"preflight", "renewDatabase"} :
           /\ Goto(p, pc[p], to) /\ job' = job /\ UNCHANGED <<worldVars, openedFor, faults>>
           /\ pc[p] \in {"start", "staged"}
    BY <1>11 DEF RecordStart, RecordStaged, Say, Goto
  <2> QED BY <1>10, <2>1 DEF Place, Undeployed
<1>12. ASSUME NEW p \in Proc,
              \/ RecordFailed(p) \/ RecordDatabase(p) \/ RecordUnreachable(p)
              \/ RecordActive(p) \/ RecordValidated(p)
       PROVE  SagaInv'
  <2>1. PICK to \in {"release", "renewRuntime", "unreachable", "health"} :
           Goto(p, pc[p], to) /\ job' = job /\ UNCHANGED <<worldVars, openedFor, faults>>
    BY <1>12 DEF RecordFailed, RecordDatabase, RecordUnreachable, RecordActive,
                 RecordValidated, Say, Goto
  <2> QED BY <1>10, <2>1, Elsewhere
<1>13. ASSUME NEW p \in Proc, RenewBeforeDatabase(p) PROVE SagaInv'
  <2>1. /\ Goto(p, pc[p], "started") /\ job' = job /\ pc[p] = "renewDatabase"
        /\ UNCHANGED <<worldVars, openedFor, faults>>
    BY <1>13 DEF RenewBeforeDatabase, Goto
  <2> QED BY <1>10, <2>1 DEF Place, Undeployed
<1>14. ASSUME NEW p \in Proc,
              \/ PreflightFails(p) \/ PreflightRefused(p) \/ RenewBeforeRuntime(p)
              \/ ActivationUnreachable(p) \/ ActivationRefused(p)
              \/ HealthCheck(p) \/ HealthCheckFails(p) \/ Fenced(p) \/ Interrupt(p)
              \/ RemovalFails(p) \/ EarlyRefused(p)
       PROVE  SagaInv'
  <2>1. PICK to \in {"release", "activate", "unreachable", "validated", "failed"} :
           /\ Goto(p, pc[p], to) /\ job' = job /\ UNCHANGED <<worldVars, openedFor>>
           /\ Fault \/ faults' = faults
    BY <1>14 DEF PreflightFails, PreflightRefused, RenewBeforeRuntime,
                 ActivationUnreachable, ActivationRefused, HealthCheck, HealthCheckFails,
                 Fenced, Interrupt, RemovalFails, EarlyRefused, Raise, Goto
  <2> QED BY <1>10, <2>1, Elsewhere
\* Deploying and activating
<1>15. ASSUME NEW p \in Proc, Preflight(p) PROVE SagaInv'
  <2> DEFINE j == [job[p] EXCEPT !.reach = prefixUp]
  <2>1. PICK to \in {"renewRuntime", "unreachable", "staged", "renewDatabase"} :
           Goto(p, "preflight", to)
    BY <1>15 DEF Preflight
  <2>2. job' = [job EXCEPT ![p] = j] /\ pc[p] = "preflight"
    BY <1>15, <2>1 DEF Preflight, Goto
  <2>5. prefixUp \in BOOLEAN
    BY DEF SagaInv, SagaTypeOK
  <2>3. j \in Job /\ j.next = 1
    BY <1>c, <2>2, <2>5, Jobs DEF Undeployed
  <2>4. WorldTyped'
    BY <1>15, <1>b DEF Preflight
  <2> HIDE DEF j
  <2> QED BY <1>a, <2>1, <2>2, <2>3, <2>4, Moves DEF Place
<1>17. ASSUME NEW p \in Proc, RecordDatabaseStarted(p) PROVE SagaInv'
  <2>1. PICK to \in {"remove", "script"} : Goto(p, "started", to)
    BY <1>17 DEF RecordDatabaseStarted
  <2>2. job' = job /\ pc[p] = "started"
    BY <1>17, <2>1 DEF RecordDatabaseStarted, Goto
  <2>3. job[p].next = 1
    BY <1>c, <2>2 DEF Undeployed
  <2>4. WorldTyped'
    BY <1>17, <1>b DEF RecordDatabaseStarted
  <2> QED BY <1>a, <2>1, <2>2, <2>3, <2>4, MovesOn DEF Place, Undeployed
<1>18. ASSUME NEW p \in Proc, OnDatabase(p)
       PROVE  /\ Deploying(p) \in Package
              /\ job[p].next \in 1..Len(Packages)
  <2>1. job[p].next \in 1..Len(Packages)
    BY <1>c, <1>18 DEF Job
  <2> QED BY <2>1 DEF Deploying, Package
<1>19. ASSUME NEW p \in Proc, OnDatabase(p)
       PROVE  \A s \in {"R", "C"} : [version |-> job[p].plan.version, status |-> s]
                                        \in Registration
  <2>1. job[p].plan \in Plans \cup {NoPlan}
    BY <1>c DEF Job
  <2>2. job[p].plan.version \in Nat
    BY <2>1 DEF NoPlan
  <2> QED BY <2>2 DEF Registration
<1>20. ASSUME NEW p \in Proc, ScriptStarts(p) PROVE SagaInv'
  <2>1. Goto(p, "script", "running") /\ job' = job /\ pc[p] = "script"
    BY <1>20 DEF ScriptStarts, Goto
  <2>2. OnDatabase(p)
    BY <2>1 DEF OnDatabase
  <2>4. database' \in [Package -> Registration]
    BY <1>18, <1>19, <1>20, <2>2 DEF ScriptStarts, SagaInv, SagaTypeOK
  <2>5. WorldTyped'
    BY <1>20, <2>4 DEF ScriptStarts, SagaInv, SagaTypeOK, WorldTyped
  <2> QED BY <1>a, <1>18, <2>1, <2>2, <2>5, MovesOn DEF Place, Undeployed
<1>30. ASSUME NEW p \in Proc, RemovePackage(p) PROVE SagaInv'
  <2> DEFINE last == job[p].next = Len(Packages)
             n == IF last THEN 1 ELSE job[p].next + 1
             j == [job[p] EXCEPT !.next = n]
  <2>1. PICK to \in {"remove", "script"} : Goto(p, "remove", to)
    BY <1>30 DEF RemovePackage
  <2>2. job' = [job EXCEPT ![p] = j] /\ pc[p] = "remove"
    BY <1>30, <2>1 DEF RemovePackage, Goto
  <2>3. OnDatabase(p)
    BY <2>2 DEF OnDatabase
  <2>4. job[p].next \in 1..Len(Packages)
    BY <1>18, <2>3
  <2>5. n \in 1..Len(Packages) /\ n \in 1..(Len(Packages) + 1)
    BY <2>4
  <2>6. j \in Job /\ j.next <= Len(Packages)
    <3>1. job[p] \in Job
      BY <1>c
    <3>2. n <= Len(Packages)
      BY <2>5
    <3> HIDE DEF n
    <3>3. j \in Job /\ j.next = n
      BY <2>5, <3>1, Jobs
    <3> QED BY <3>2, <3>3
  <2>7. NotInstalled \in Registration
    BY DEF NotInstalled, Registration
  <2>8. database' \in [Package -> Registration]
    BY <1>30, <2>7 DEF RemovePackage, SagaInv, SagaTypeOK
  <2>9. WorldTyped'
    BY <1>30, <2>8 DEF RemovePackage, SagaInv, SagaTypeOK, WorldTyped
  <2> HIDE DEF j
  <2> QED BY <1>a, <2>1, <2>2, <2>6, <2>9, Moves DEF Place, Undeployed
<1>21. ASSUME NEW p \in Proc, ScriptEnds(p) PROVE SagaInv'
  <2> DEFINE j == [job[p] EXCEPT !.next = job[p].next + 1]
  <2>4. job[p].next \in 1..Len(Packages)
    <3>1. OnDatabase(p)
      BY <1>21 DEF ScriptEnds, Goto, OnDatabase
    <3> QED BY <1>18, <3>1
  <2>1. PICK to \in {"complete", "early", "script"} :
           Goto(p, "running", to) /\ (to = "script" => job[p].next < Len(Packages))
    BY <1>21 DEF ScriptEnds
  <2>2. job' = [job EXCEPT ![p] = j] /\ pc[p] = "running"
    BY <1>21, <2>1 DEF ScriptEnds, Goto
  <2>3. OnDatabase(p)
    BY <2>2 DEF OnDatabase
  <2>5. job[p].next + 1 \in 1..(Len(Packages) + 1)
    BY <2>4
  <2>6. j \in Job /\ j.next = job[p].next + 1
    BY <1>c, <2>5, Jobs
  <2>7. to = "script" => job[p].next + 1 <= Len(Packages)
    BY <2>1, <2>4
  <2>8. database' \in [Package -> Registration]
    BY <1>18, <1>19, <1>21, <2>3 DEF ScriptEnds, SagaInv, SagaTypeOK
  <2>9. WorldTyped'
    BY <1>21, <2>8 DEF ScriptEnds, SagaInv, SagaTypeOK, WorldTyped
  <2> HIDE DEF j
  <2> QED BY <1>a, <2>1, <2>2, <2>6, <2>7, <2>9, Moves DEF Place, Undeployed
<1>22. ASSUME NEW p \in Proc, ScriptFails(p) PROVE SagaInv'
  <2>1. Goto(p, "running", "failed") /\ job' = job /\ pc[p] = "running"
    BY <1>22 DEF ScriptFails, Goto
  <2>2. Deploying(p) \in Package
    BY <1>18, <2>1 DEF OnDatabase
  <2>3. [database[Deploying(p)] EXCEPT !.status = "F"] \in Registration
    BY <2>2 DEF SagaInv, SagaTypeOK, Registration
  <2>6. [version |-> job[p].plan.version, status |-> "C"] \in Registration
    BY <1>c DEF Registration, Job, NoPlan
  <2>7. database \in [Package -> Registration]
    BY DEF SagaInv, SagaTypeOK
  <2>4. database' \in [Package -> Registration]
    BY <1>22, <2>3, <2>6, <2>7 DEF ScriptFails
  <2>5. WorldTyped'
    BY <1>22, <2>4 DEF ScriptFails, Fault, SagaInv, SagaTypeOK, WorldTyped
  <2> QED BY <1>a, <2>1, <2>5, MovesOn, Elsewhere
<1>23. ASSUME NEW p \in Proc, Activate(p) \/ ActivateEarly(p) PROVE SagaInv'
  <2>1. PICK to \in {"active", "complete"} : Goto(p, pc[p], to) /\ job' = job
    BY <1>23 DEF Activate, ActivateEarly, ActivateRuntime, Goto
  <2>2. job[p].plan.version \in Nat
    BY <1>c DEF Job, NoPlan
  <2>3. WorldTyped'
    BY <1>23, <2>2 DEF Activate, ActivateEarly, ActivateRuntime, SagaInv, SagaTypeOK, WorldTyped
  <2> QED BY <1>a, <2>1, <2>3, MovesOn, Elsewhere
<1>16. ASSUME NEW p \in Proc, ActivationFails(p) PROVE SagaInv'
  <2>1. PICK to \in {"release", "failed"} : Goto(p, pc[p], to) /\ job' = job
    BY <1>16 DEF ActivationFails, Raise, Goto
  <2>2. WorldTyped'
    BY <1>16 DEF ActivationFails, Fault, SagaInv, SagaTypeOK, WorldTyped
  <2> QED BY <1>a, <2>1, <2>2, MovesOn, Elsewhere
\* The world
<1>24. ASSUME UNCHANGED <<pc, job>>, WorldTyped' PROVE SagaInv'
  BY <1>a, <1>24 DEF SagaInv, SagaTypeOK, WorldTyped, PlanHeld, NextInRange, OnDatabase
<1>25. CASE PrefixDown \/ PrefixUp \/ TimePasses \/ LeaseOutlasted
  <2>1. CASE PrefixDown \/ PrefixUp
    <3>1. prefixUp' \in BOOLEAN
      <4>1. prefixUp' = FALSE \/ prefixUp' = TRUE
        BY <2>1 DEF PrefixDown, PrefixUp
      <4> QED BY <4>1
    <3>3. faults' \in 0..MaxFaults
      <4>1. faults' = faults \/ (faults < MaxFaults /\ faults' = faults + 1)
        BY <2>1 DEF PrefixDown, PrefixUp, Fault
      <4>2. faults \in 0..MaxFaults
        BY DEF SagaInv, SagaTypeOK
      <4> QED BY <4>1, <4>2
    <3>2. UNCHANGED <<database, receipt, runtime, stage, pc, job, openedFor>>
      BY <2>1 DEF PrefixDown, PrefixUp
    <3> QED BY <1>24, <3>1, <3>2, <3>3 DEF SagaInv, SagaTypeOK, WorldTyped
  <2>2. CASE TimePasses \/ LeaseOutlasted
    BY <1>b, <1>24, <2>2 DEF TimePasses, LeaseOutlasted
  <2> QED BY <1>25, <2>1, <2>2
<1>26. CASE UNCHANGED sagaVars
  BY <1>24, <1>26 DEF sagaVars, worldVars, SagaInv, SagaTypeOK, WorldTyped
<1>27. ASSUME NEW p \in Proc, Submits(p) \/ Resumes(p) PROVE SagaInv'
  BY <1>1, <1>6, <1>27 DEF Submits, Resumes
<1>28. ASSUME NEW p \in Proc, Advance(p) PROVE SagaInv'
  BY <1>2, <1>3, <1>4, <1>5, <1>7, <1>8, <1>9, <1>11, <1>12, <1>13, <1>14, <1>15,
     <1>17, <1>20, <1>30, <1>21, <1>23, <1>28 DEF Advance
<1>29. ASSUME NEW p \in Proc, GoesWrong(p) PROVE SagaInv'
  BY <1>3, <1>14, <1>16, <1>22, <1>29 DEF GoesWrong
<1> QED BY <1>25, <1>26, <1>27, <1>28, <1>29 DEF SagaNext

\* Every process starts without a plan.
LEMMA SagaInvInit == SagaInit => SagaInv
<1> SUFFICES ASSUME SagaInit PROVE SagaInv
  OBVIOUS
<1>1. TypeOK
  BY DEF SagaInit, Init, TypeOK, NoRow, NoLease, OperationRecord, Lease
<1>2. database \in [Package -> Registration]
  BY DEF SagaInit, NotInstalled, Registration
<1>3. job \in [Proc -> Job] /\ pc \in [Proc -> Place]
  BY Jobs DEF SagaInit, Place
<1>4. \A p \in Proc : pc[p] = "idle" /\ job[p].next = 1
  BY DEF SagaInit, NoJob
<1>5. PlanHeld /\ NextInRange
  BY <1>4 DEF PlanHeld, NextInRange, OnDatabase
<1> QED BY <1>1, <1>2, <1>3, <1>5 DEF SagaInit, SagaInv, SagaTypeOK

\* The types hold throughout, for any packages, plans and processes.
THEOREM SagaTypeCorrect == SagaSpec => []SagaTypeOK
<1>1. SagaInv => SagaTypeOK
  BY DEF SagaInv
<1> QED BY <1>1, SagaInvInit, SagaInvStep, PTL DEF SagaSpec

\* The executor and the commands respect the lease protocol: every behaviour of
\* the saga is one of OperationLease.
THEOREM SagaUsesLeases == SagaSpec => LeaseProtocol
<1>1. SagaInit => Init
  BY DEF SagaInit
<1>2. SagaInv => PlanHeld
  BY DEF SagaInv
<1> QED BY <1>1, <1>2, SagaInvInit, SagaInvStep, LeaseStep, PTL DEF SagaSpec, LeaseProtocol, Spec

-----------------------------------------------------------------------------
(* One process at a time deploys *)

\* A process that is not fenced keeps the current operation leased.
LEMMA UnfencedLeases ==
    ASSUME LeaseInv, NEW p \in Proc, Unfenced(p)
    PROVE  Leased(pointer)
BY UnfencedIsCurrent DEF Leased, Unfenced

\* No call of another process fences p, except a begin or an acquire that found
\* the current operation's lease free.
LEMMA StaysUnfenced ==
    ASSUME LeaseInv, NEW p \in Proc, Unfenced(p), NEW q \in Proc, q # p,
           \/ BeginCheck(q) \/ GetCurrent(q) \/ Vanish(q) \/ Release(q) \/ Renew(q)
           \/ \E s \in OperationState : Record(q, s)
    PROVE  Unfenced(p)'
<1>1. /\ lease[p].op = pointer /\ lease[p].token # NoToken
      /\ lease[p].token = row[pointer].token /\ lease[p].op \in OpId
  BY UnfencedIsCurrent DEF Unfenced, Exists
<1>2. lease[q].token # NoToken => lease[q].token # lease[p].token
  BY DEF LeaseInv, OwnTokens
<1>3. CASE BeginCheck(q) \/ GetCurrent(q)
  BY <1>3 DEF BeginCheck, GetCurrent, recordVars, clientVars, Unfenced, Exists
<1>4. CASE Vanish(q)
  BY <1>4 DEF Vanish, Unfenced, Exists, LeaseInv, TypeOK
<1>5. CASE Release(q)
  <2>1. lease[q].op # pointer
    BY <1>1, <1>2, <1>5 DEF Release, MayRelease
  <2> QED BY <1>1, <1>5, <2>1 DEF Release, Unfenced, Exists, LeaseInv, TypeOK
<1>6. CASE Renew(q) \/ \E s \in OperationState : Record(q, s)
  <2>1. Unfenced(q)
    BY <1>6 DEF Renew, Record
  <2>2. lease[q].token = row[pointer].token /\ lease[q].token # NoToken
    BY <2>1, UnfencedIsCurrent
  <2> QED BY <1>1, <1>2, <2>2
<1> QED BY <1>3, <1>4, <1>5, <1>6

\* A process that records or renews is not fenced by it.
LEMMA OwnStepUnfenced ==
    ASSUME LeaseInv, NEW p \in Proc, Renew(p) \/ \E s \in OperationState : Record(p, s)
    PROVE  Unfenced(p) /\ Unfenced(p)'
<1>1. Unfenced(p) /\ lease[p].op \in OpId
  BY DEF Renew, Record, Unfenced, Exists
<1>2. row[lease[p].op] \in OperationRecord
  BY <1>1 DEF LeaseInv, TypeOK
<1>3. CASE Renew(p)
  <2>1. clock + LeaseSeconds > clock
    BY DEF LeaseInv, TypeOK
  <2> QED BY <1>1, <1>2, <1>3, <2>1
             DEF Renew, clientVars, Unfenced, Exists, LeaseInv, TypeOK, OperationRecord
<1>4. ASSUME NEW s \in OperationState, Record(p, s) PROVE Unfenced(p)'
  <2>1. s # "ABSENT"
    BY DEF OperationState
  <2> QED BY <1>1, <1>2, <1>4, <2>1
             DEF Record, clientVars, Unfenced, Exists, LeaseInv, TypeOK, OperationRecord
<1> QED BY <1>1, <1>3, <1>4

\* A process that acquires is not fenced.
LEMMA AcquiredUnfenced ==
    ASSUME LeaseInv, NEW p \in Proc, NEW t \in Token, Acquire(p, t)
    PROVE  Unfenced(p)'
<1>1. target[p] \in OpId /\ row[target[p]].state # "ABSENT"
  BY DEF Acquire, AcquireFails, Exists
<1>2. row[target[p]] \in OperationRecord
  BY <1>1 DEF LeaseInv, TypeOK
<1>3. clock + LeaseSeconds > clock
  BY DEF LeaseInv, TypeOK
<1> QED BY <1>1, <1>2, <1>3 DEF Acquire, Unfenced, Exists, LeaseInv, TypeOK, OperationRecord

\* What a begin that passed its check has seen stays true until it commits.
LEMMA BeginStaysFree ==
    ASSUME LeaseInv, NEW p \in Proc, NEW q \in Proc, q # p,
           pointerLock = q, ~Leased(pointer),
           \/ BeginCheck(p) \/ GetCurrent(p) \/ Vanish(p) \/ Release(p) \/ Renew(p)
           \/ \E s \in OperationState : Record(p, s)
    PROVE  pointerLock' = q /\ ~Leased(pointer)'
<1>1. CASE BeginCheck(p)
  BY <1>1 DEF BeginCheck
<1>2. CASE GetCurrent(p)
  BY <1>2 DEF GetCurrent, recordVars, Leased, Exists
<1>3. CASE Vanish(p)
  BY <1>3 DEF Vanish, Leased, Exists
<1>4. CASE Release(p)
  <2>1. lease[p].op = pointer /\ pointer \in OpId
    BY <1>4 DEF Release, MayRelease, Exists, LeaseInv, OnlyCurrentOperationKept
  <2>2. row'[pointer].token = NoToken
    <3>1. row[pointer] \in OperationRecord
      BY <2>1 DEF LeaseInv, TypeOK
    <3> QED BY <1>4, <2>1, <3>1 DEF Release, LeaseInv, TypeOK, OperationRecord
  <2> QED BY <1>4, <2>2 DEF Release, Leased
<1>5. CASE Renew(p) \/ \E s \in OperationState : Record(p, s)
  BY <1>5, UnfencedLeases DEF Renew, Record
<1> QED BY <1>1, <1>2, <1>3, <1>4, <1>5

\* A process that moves outside the window keeps the invariant if it is not
\* fenced where it arrives and disturbs neither leases nor begins of others.
LEMMA DeployerMoves ==
    ASSUME pc \in [Proc -> Place], DeployerInv,
           NEW p \in Proc, NEW from, NEW to \in Place, Goto(p, from, to),
           to \notin Window, to \in Holder => Unfenced(p)',
           \A q \in Proc : q # p /\ Unfenced(q) => Unfenced(q)',
           \A q \in Proc : q # p /\ pointerLock = q /\ ~Leased(pointer)
                              => pointerLock' = q /\ ~Leased(pointer)'
    PROVE  DeployerInv'
<1>1. pc'[p] = to /\ \A q \in Proc : q # p => pc'[q] = pc[q]
  BY GotoMoves
<1>2. Holding'
  BY <1>1 DEF DeployerInv, Holding
<1>3. Alone'
  BY <1>1 DEF DeployerInv, Alone
<1>4. BeginFree'
  BY <1>1 DEF DeployerInv, BeginFree, Window
<1> QED BY <1>2, <1>3, <1>4 DEF DeployerInv

\* The same for a process that leaves all of the protocol's state alone.
LEMMA QuietMoves ==
    ASSUME pc \in [Proc -> Place], DeployerInv, UNCHANGED leaseVars,
           NEW p \in Proc, NEW from, NEW to \in Place, Goto(p, from, to),
           to \notin Window, to \in Holder => pc[p] \in Holder
    PROVE  DeployerInv'
<1>1. \A q \in Proc : Unfenced(q)' <=> Unfenced(q)
  BY DEF leaseVars, recordVars, clientVars, Unfenced, Exists
<1>2. pointerLock' = pointerLock /\ (Leased(pointer)' <=> Leased(pointer))
  BY DEF leaseVars, recordVars, Leased, Exists
<1>3. pc[p] \in Holder => Unfenced(p)
  BY DEF DeployerInv, Holding
<1> QED BY <1>1, <1>2, <1>3, DeployerMoves

\* The same for a process that ends and keeps nothing.
LEMMA DeployerExits ==
    ASSUME pc \in [Proc -> Place], LeaseInv, DeployerInv, NEW p \in Proc, Exit(p),
           UNCHANGED leaseVars \/ Vanish(p) \/ Release(p)
    PROVE  DeployerInv'
<1>1. Goto(p, pc[p], "idle") /\ "idle" \in Place /\ "idle" \notin Window \cup Holder
  BY DEF Exit, Goto, Place, Window, Holder
<1>2. CASE UNCHANGED leaseVars
  BY <1>1, <1>2, QuietMoves
<1>3. CASE Vanish(p) \/ Release(p)
  <2>1. \A q \in Proc : q # p /\ Unfenced(q) => Unfenced(q)'
    BY <1>3, StaysUnfenced
  <2>2. \A q \in Proc : q # p /\ pointerLock = q /\ ~Leased(pointer)
                            => pointerLock' = q /\ ~Leased(pointer)'
    BY <1>3, BeginStaysFree
  <2> QED BY <1>1, <2>1, <2>2, DeployerMoves
<1> QED BY <1>2, <1>3

\* The same for a process that records or renews.
LEMMA DeployerWrites ==
    ASSUME pc \in [Proc -> Place], LeaseInv, DeployerInv,
           NEW p \in Proc, NEW from, NEW to \in Place, Goto(p, from, to),
           to \notin Window,
           Renew(p) \/ \E s \in OperationState : Record(p, s)
    PROVE  DeployerInv'
<1>1. \A q \in Proc : q # p /\ Unfenced(q) => Unfenced(q)'
  BY StaysUnfenced
<1>2. \A q \in Proc : q # p /\ pointerLock = q /\ ~Leased(pointer)
                          => pointerLock' = q /\ ~Leased(pointer)'
  BY BeginStaysFree
<1> QED BY <1>1, <1>2, OwnStepUnfenced, DeployerMoves

\* Every step keeps the deployer invariant, when no step outlasts its lease and
\* one process at a time is between the record and its lease.
LEMMA DeployerStep ==
    ASSUME ~Overlap, SlowAt = {}, SagaInv, LeaseInv, DeployerInv, [SagaNext]_sagaVars
    PROVE  DeployerInv'
<1>a. pc \in [Proc -> Place]
  BY DEF SagaInv, SagaTypeOK
\* Calls that pass through the window
<1>1. ASSUME NEW p \in Proc, NEW to \in Window, NEW from, Goto(p, from, to), WindowFree,
             BeginCheck(p) \/ GetCurrent(p),
             to = "insert" => BeginCheck(p)
      PROVE  DeployerInv'
  <2>1. pc'[p] = to /\ \A q \in Proc : q # p => pc'[q] = pc[q]
    BY <1>a, <1>1, GotoMoves DEF Window, Place
  <2>2. \A q \in Proc : pc[q] \notin Window
    BY <1>1 DEF WindowFree
  <2>3. Alone'
    BY <2>1, <2>2 DEF Alone
  <2>4. Holding'
    BY <1>1, <2>1, StaysUnfenced DEF DeployerInv, Holding, Holder, Window
  <2>5. to = "insert" => pointerLock' = p /\ ~Leased(pointer)'
    BY <1>1 DEF BeginCheck, Leased, Exists
  <2>6. BeginFree'
    BY <2>1, <2>2, <2>5 DEF BeginFree, Window
  <2> QED BY <2>3, <2>4, <2>6 DEF DeployerInv
<1>2. ASSUME NEW p \in Proc, Begin(p) \/ ReadOperation(p) PROVE DeployerInv'
  <2>1. CASE Begin(p)
    BY <1>1, <2>1 DEF Begin, Window
  <2>2. CASE ReadOperation(p)
    BY <1>1, <2>2 DEF ReadOperation, Window
  <2> QED BY <1>2, <2>1, <2>2
<1>3. ASSUME NEW p \in Proc, InsertOperation(p) PROVE DeployerInv'
  <2>1. Goto(p, "insert", "acquire") /\ pc[p] = "insert"
    BY <1>3 DEF InsertOperation, Goto
  <2>2. pc'[p] = "acquire" /\ \A q \in Proc : q # p => pc'[q] = pc[q]
    BY <1>a, <2>1, GotoMoves DEF Place
  <2>3. ~Leased(pointer)
    BY <2>1 DEF DeployerInv, BeginFree
  <2>4. \A q \in Proc : pc[q] \notin Holder
    BY <2>3, UnfencedLeases DEF DeployerInv, Holding
  <2>5. \A q \in Proc : q # p => pc[q] \notin Window
    BY <2>1 DEF DeployerInv, Alone, Window
  <2>6. Holding' /\ Alone' /\ BeginFree'
    BY <2>2, <2>4, <2>5 DEF Holding, Alone, BeginFree, Window, Holder
  <2> QED BY <2>6 DEF DeployerInv
<1>4. ASSUME NEW p \in Proc, AcquireLease(p) PROVE DeployerInv'
  <2>1. PICK t \in Token : Acquire(p, t)
    BY <1>4, FreshIsUnused DEF AcquireLease
  <2>2. PICK to \in {"evidence", "start"} : Goto(p, "acquire", to)
    BY <1>4 DEF AcquireLease
  <2>3. /\ pc[p] = "acquire" /\ pc'[p] = to
        /\ \A q \in Proc : q # p => pc'[q] = pc[q]
    BY <1>a, <2>2, GotoMoves DEF Place
  <2>4. target[p] = pointer /\ ~Leased(pointer)
    BY <2>1 DEF Acquire, AcquireFails, Exists, LeaseInv, OnlyCurrentOperationKept
  <2>5. \A q \in Proc : pc[q] \notin Holder
    BY <2>4, UnfencedLeases DEF DeployerInv, Holding
  <2>6. \A q \in Proc : q # p => pc[q] \notin Window
    BY <2>3 DEF DeployerInv, Alone, Window
  <2>7. Unfenced(p)'
    BY <2>1, AcquiredUnfenced
  <2>8. Holding' /\ Alone' /\ BeginFree'
    BY <2>2, <2>3, <2>5, <2>6, <2>7 DEF Holding, Alone, BeginFree, Window, Holder
  <2> QED BY <2>8 DEF DeployerInv
\* Calls made under the lease
<1>5. ASSUME NEW p \in Proc, NEW to \in Place \ Window, Goto(p, pc[p], to),
             Renew(p) \/ \E s \in OperationState : Record(p, s)
      PROVE  DeployerInv'
  BY <1>a, <1>5, DeployerWrites
<1>6. ASSUME NEW p \in Proc, NEW from, NEW to, NEW s \in OperationState,
             Say(p, from, to, s), to \in Place \ Window
      PROVE  DeployerInv'
  <2>1. Record(p, s) /\ Goto(p, pc[p], to)
    BY <1>6 DEF Say, Goto
  <2> QED BY <1>5, <1>6, <2>1
<1>7. ASSUME NEW p \in Proc,
             \/ RecordStart(p) \/ RecordStaged(p) \/ RecordFailed(p)
             \/ RecordDatabase(p) \/ RecordUnreachable(p) \/ RecordActive(p)
             \/ RecordValidated(p)
      PROVE  DeployerInv'
  BY <1>6, <1>7 DEF RecordStart, RecordStaged, RecordFailed, RecordDatabase,
         RecordUnreachable, RecordActive, RecordValidated, OperationState, Place, Window
<1>8. ASSUME NEW p \in Proc,
             RecordDatabaseStarted(p) \/ RenewBeforeDatabase(p) \/ RenewBeforeRuntime(p)
      PROVE  DeployerInv'
  <2>1. PICK to \in {"remove", "script", "started", "activate"} : Goto(p, pc[p], to)
    BY <1>8 DEF RecordDatabaseStarted, RenewBeforeDatabase,
                RenewBeforeRuntime, Goto
  <2>2. Renew(p) \/ \E s \in OperationState : Record(p, s)
    BY <1>8 DEF RecordDatabaseStarted, RenewBeforeDatabase, RenewBeforeRuntime,
                OperationState
  <2> QED BY <1>5, <2>1, <2>2 DEF Place, Window
\* Endings
<1>9. ASSUME NEW p \in Proc, \/ PrepareFails(p) \/ BeginRefused(p) \/ AcquireRefused(p)
                             \/ ReleaseLease(p) \/ Crash(p)
      PROVE  DeployerInv'
  <2>1. Exit(p) /\ (UNCHANGED leaseVars \/ Vanish(p) \/ Release(p))
    BY <1>9 DEF PrepareFails, BeginRefused, AcquireRefused, ReleaseLease, Crash
  <2> QED BY <1>a, <2>1, DeployerExits
\* Everything that leaves the record and the leases alone
<1>10. ASSUME NEW p \in Proc, NEW to \in Place, Goto(p, pc[p], to), UNCHANGED leaseVars,
              to \notin Window, to \in Holder => pc[p] \in Holder
       PROVE  DeployerInv'
  BY <1>a, <1>10, QuietMoves
<1>11. ASSUME NEW p \in Proc, Submits(p) \/ Resumes(p) \/ Prepare(p) PROVE DeployerInv'
  <2>1. PICK to \in {"prepare", "current", "begin"} : Goto(p, pc[p], to)
    BY <1>11 DEF Submits, Submit, Resumes, SubmitResume, Prepare, Goto
  <2>2. UNCHANGED leaseVars
    BY <1>11 DEF Submits, Submit, Resumes, SubmitResume, Prepare
  <2> QED BY <1>10, <2>1, <2>2 DEF Place, Window, Holder
<1>12. ASSUME NEW p \in Proc,
              \/ CheckEvidence(p) \/ Preflight(p) \/ RemovePackage(p) \/ ScriptStarts(p)
              \/ ScriptEnds(p) \/ Activate(p) \/ ActivationUnreachable(p)
              \/ HealthCheck(p) \/ PreflightFails(p) \/ ScriptFails(p)
              \/ ActivationFails(p) \/ HealthCheckFails(p) \/ Interrupt(p) \/ Fenced(p)
              \/ PreflightRefused(p) \/ ActivationRefused(p) \/ RemovalFails(p)
              \/ ActivateEarly(p) \/ EarlyRefused(p)
       PROVE  DeployerInv'
  <2>1. UNCHANGED leaseVars
    BY <1>12 DEF CheckEvidence, Preflight, RemovePackage, ScriptStarts, ScriptEnds,
           Activate, ActivationUnreachable, HealthCheck, PreflightFails, ScriptFails,
           ActivateEarly, ActivateRuntime, EarlyRefused, RemovalFails,
           ActivationFails, ActivationRefused, PreflightRefused,
           HealthCheckFails, Interrupt, Fenced
  <2>4. ASSUME \/ CheckEvidence(p) \/ Preflight(p) \/ RemovePackage(p)
               \/ ScriptStarts(p) \/ ScriptEnds(p) \/ Activate(p)
               \/ ActivationUnreachable(p) \/ HealthCheck(p) \/ ActivateEarly(p)
        PROVE  \E to \in Holder : Goto(p, pc[p], to)
    BY <2>4 DEF CheckEvidence, Preflight, RemovePackage, ScriptStarts, ScriptEnds,
           Activate, ActivateEarly, ActivateRuntime, ActivationUnreachable,
           HealthCheck, Goto, Holder, Place
  <2>5. ASSUME \/ PreflightFails(p) \/ ScriptFails(p) \/ ActivationFails(p)
               \/ HealthCheckFails(p) \/ Interrupt(p) \/ Fenced(p)
               \/ PreflightRefused(p) \/ ActivationRefused(p) \/ RemovalFails(p)
               \/ EarlyRefused(p)
        PROVE  \E to \in Holder : Goto(p, pc[p], to)
    BY <2>5 DEF PreflightFails, ScriptFails, ActivationFails, HealthCheckFails,
           Interrupt, Fenced, PreflightRefused, ActivationRefused, RemovalFails,
           EarlyRefused, Raise, Goto, Holder, Place
  <2>2. PICK to \in Holder : Goto(p, pc[p], to)
    BY <1>12, <2>4, <2>5
  <2>3. pc[p] \in Holder
    BY <1>12 DEF CheckEvidence, Preflight, RemovePackage, ScriptStarts, ScriptEnds,
           Activate, ActivationUnreachable, HealthCheck, PreflightFails, ScriptFails,
           ActivateEarly, ActivateRuntime, EarlyRefused, RemovalFails,
           ActivationFails, ActivationRefused, PreflightRefused,
           HealthCheckFails, Interrupt, Fenced, LeaseCalls, Raise,
           Goto, Holder, Place
  <2> QED BY <1>10, <2>1, <2>2, <2>3 DEF Holder, Place, Window
<1>13. ASSUME UNCHANGED <<leaseVars, pc>> PROVE DeployerInv'
  BY <1>13 DEF leaseVars, recordVars, clientVars, DeployerInv, Holding, Alone, BeginFree,
               Unfenced, Leased, Exists
<1>14. CASE PrefixDown \/ PrefixUp \/ UNCHANGED sagaVars
  BY <1>13, <1>14 DEF PrefixDown, PrefixUp, sagaVars
\* Time
<1>15. CASE LeaseOutlasted
  BY <1>15 DEF LeaseOutlasted
<1>16. CASE TimePasses
  <2>1. /\ clock' = clock + 1 /\ clock \in Nat
        /\ UNCHANGED <<pointer, pointerLock, row, lease, pc>>
        /\ \A p \in Proc : ~RunsOut(p)
    BY <1>16 DEF TimePasses, Tick, recordVars, clientVars, LeaseInv, TypeOK
  <2>2. ASSUME NEW p \in Proc, Unfenced(p) PROVE Unfenced(p)'
    <3>1. row[lease[p].op].expiry \in Nat
      BY <2>2 DEF Unfenced, Exists, LeaseInv, TypeOK, OperationRecord
    <3>2. row[lease[p].op].expiry > clock + 1
      BY <2>1, <2>2, <3>1 DEF RunsOut
    <3> QED BY <2>1, <2>2, <3>2 DEF Unfenced, Exists
  <2>3. ~Leased(pointer) => ~Leased(pointer)'
    <3>1. pointer \in OpId => row[pointer].expiry \in Nat
      BY DEF LeaseInv, TypeOK, OperationRecord
    <3> QED BY <2>1, <3>1 DEF Leased, Exists
  <2> QED BY <2>1, <2>2, <2>3 DEF DeployerInv, Holding, Alone, BeginFree
<1>17. ASSUME NEW p \in Proc, Advance(p) PROVE DeployerInv'
  BY <1>2, <1>3, <1>4, <1>7, <1>8, <1>9, <1>11, <1>12, <1>17 DEF Advance
<1>18. ASSUME NEW p \in Proc, GoesWrong(p) PROVE DeployerInv'
  BY <1>9, <1>12, <1>18 DEF GoesWrong
<1> QED BY <1>11, <1>14, <1>15, <1>16, <1>17, <1>18 DEF SagaNext

\* One process at a time deploys, for any number of processes, operations and
\* packages and any faults, as long as no step outlasts its lease (SlowAt)
\* and no two processes are between the record and the lease (Overlap).
THEOREM OneDeployerAtATime ==
    ASSUME ~Overlap, SlowAt = {}
    PROVE  SagaSpec => []OneDeployer
<1>1. SagaInit => DeployerInv
  BY DEF SagaInit, DeployerInv, Holding, Alone, BeginFree, Holder, Window
<1>2. SagaInv /\ LeaseInv /\ DeployerInv /\ [SagaNext]_sagaVars => DeployerInv'
  BY DeployerStep
<1>3. LeaseInv /\ DeployerInv => OneDeployer
  <2> SUFFICES ASSUME LeaseInv, DeployerInv, NEW p \in Proc, NEW q \in Proc,
                      OnDatabase(p), OnDatabase(q)
               PROVE  p = q
    BY DEF OneDeployer
  <2>1. Unfenced(p) /\ Unfenced(q)
    BY DEF OnDatabase, DeployerInv, Holding, Holder, Place
  <2> QED BY <2>1, UnfencedIsCurrent DEF LeaseInv, OwnTokens
<1>4. SagaSpec => []LeaseInv
  BY SagaUsesLeases, LeaseInvariant, PTL DEF LeaseProtocol
<1> QED BY <1>1, <1>2, <1>3, <1>4, SagaInvInit, SagaInvStep, PTL DEF SagaSpec

-----------------------------------------------------------------------------
(* Completion: what the record says of the database is true, and what it says *)
(* to be complete is not done again, when every plan deploys one version      *)

Fits(p, v) == ReadingHolds(p) /\ PhaseHolds(p, v) /\ ProgressHolds(p, v)

-----------------------------------------------------------------------------
(* Who is under the lease, and what the others are then not doing *)

\* The process under the lease is the only one, and its operation the current one.
LEMMA OneHolder ==
    ASSUME LeaseInv, DeployerInv, NEW p \in Proc, pc[p] \in Holder
    PROVE  /\ Unfenced(p) /\ Leased(pointer)
           /\ lease[p].op = pointer /\ pointer \in OpId /\ pointer # NoOp
           /\ \A q \in Proc : pc[q] \in Holder => q = p
<1>1. \A q \in Proc : pc[q] \in Holder => Unfenced(q)
  BY DEF DeployerInv, Holding
<1>2. Unfenced(p) /\ Leased(pointer)
  BY <1>1, UnfencedLeases
<1>3. lease[p].op = pointer /\ pointer \in OpId
  BY <1>2, UnfencedIsCurrent DEF Leased, Exists
<1>4. \A q \in Proc : pc[q] \in Holder => q = p
  BY <1>1, <1>2, UnfencedIsCurrent DEF LeaseInv, OwnTokens
<1> QED BY <1>2, <1>3, <1>4

\* The places of the invariant that are under the lease.
LEMMA PlacesHeld ==
    /\ Deployed \cup InPhase \cup {"evidence", "start", "preflight", "release"} \subseteq Holder
    /\ {"script", "running"} \subseteq InPhase
    /\ Holder \cap {"idle", "current", "acquire"} = {}
BY DEF Deployed, InPhase, Holder, Place

\* A process that is not under the lease and waits for one only if it resumes.
LEMMA Elsewhen ==
    ASSUME NEW v, NEW q \in Proc, CompletionInv(v), pc[q] \notin Holder,
           pc'[q] = pc[q], job'[q] = job[q],
           pc[q] = "acquire" => /\ Recorded => Recorded'
                                /\ job[q].resume
    PROVE  Fits(q, v)'
<1>1. ReadingHolds(q)'
  BY DEF ReadingHolds, CompletionInv
<1>2. pc[q] \notin Deployed \cup InPhase \cup {"start", "preflight", "script", "running"}
  BY PlacesHeld
<1>3. PhaseHolds(q, v)'
  BY <1>2, PlacesHeld DEF CompletionInv, PhaseHolds, Deployed
<1>4. ProgressHolds(q, v)'
  BY <1>2 DEF ProgressHolds
<1> QED BY <1>1, <1>3, <1>4 DEF Fits

\* What the process under the lease does leaves the others as they are, as long
\* as it does not take a completion back.
LEMMA OthersWait ==
    ASSUME NEW v, LeaseInv, DeployerInv, CompletionInv(v),
           NEW p \in Proc, pc[p] \in Holder, Recorded => Recorded',
           NEW q \in Proc, q # p, pc'[q] = pc[q], job'[q] = job[q]
    PROVE  Fits(q, v)'
<1>1. pc[q] \notin Holder /\ Leased(pointer)
  BY OneHolder
<1>2. pc[q] = "acquire" => job[q].resume
  BY <1>1 DEF CompletionInv, ReadingHolds
<1> QED BY <1>1, <1>2, Elsewhen

\* A step that leaves Core and the record alone leaves a process as it was that
\* does not take part in it.
LEMMA OthersStay ==
    ASSUME NEW v, NEW q \in Proc, CompletionInv(v), pc'[q] = pc[q], job'[q] = job[q],
           Recorded' <=> Recorded, database' = database, runtime' \in {runtime, v},
           Leased(pointer)' => Leased(pointer)
    PROVE  Fits(q, v)'
<1>1. ReadingHolds(q)'
  BY DEF CompletionInv, ReadingHolds
<1>2. PhaseHolds(q, v)'
  BY DEF CompletionInv, PhaseHolds, DeployedAt
<1>3. ProgressHolds(q, v)'
  BY DEF CompletionInv, ProgressHolds
<1> QED BY <1>1, <1>2, <1>3 DEF Fits

\* A step that leaves Core, the pointer and its record alone leaves the record true.
LEMMA RecordStays ==
    ASSUME NEW v, CompletionInv(v), UNCHANGED <<pointer, openedFor, database>>,
           runtime' \in {runtime, v},
           pointer # NoOp => row'[pointer].state = row[pointer].state
    PROVE  RecordHolds(v)' /\ (Recorded' <=> Recorded)
<1>1. Recorded' <=> Recorded
  BY DEF Recorded
<1> QED BY <1>1 DEF CompletionInv, RecordHolds, DeployedAt, Recorded

\* The parts make the invariant.
LEMMA Together ==
    ASSUME NEW v, RecordHolds(v)', NEW p \in Proc, Fits(p, v)',
           \A q \in Proc : q # p => Fits(q, v)'
    PROVE  CompletionInv(v)'
BY DEF CompletionInv, Fits

\* A call of the record names the current operation's row.
LEMMA Records ==
    ASSUME LeaseInv, DeployerInv, NEW p \in Proc, pc[p] \in Holder,
           NEW s \in OperationState, Record(p, s)
    PROVE  /\ UNCHANGED pointer /\ row'[pointer].state = s
           /\ Recorded' <=> s \in DatabaseDone
<1>1. lease[p].op = pointer /\ pointer \in OpId /\ pointer # NoOp
  BY OneHolder
<1>2. row[pointer] \in OperationRecord /\ row \in [OpId -> OperationRecord]
  BY <1>1 DEF LeaseInv, TypeOK
<1>3. row'[pointer].state = s
  BY <1>1, <1>2 DEF Record, OperationRecord
<1> QED BY <1>1, <1>3 DEF Record, Recorded

-----------------------------------------------------------------------------
(* Steps of one process that change neither Core nor what the record says *)

SameRecord ==
    /\ UNCHANGED <<pointer, openedFor, database>>
    /\ pointer # NoOp => row'[pointer].state = row[pointer].state

\* A process arrives at a place with a job that suits the place.
LEMMA Arrives ==
    ASSUME NEW v, NEW p \in Proc, NEW to, NEW j, pc'[p] = to, job'[p] = j,
           to \notin {"current", "acquire"}, to # "idle" => j.plan \in Plans,
           to \in Holder /\ j.done => DeployedAt(v)',
           to \in InPhase => ~j.done,
           to \in InPhase \cup {"start", "preflight"} /\ ~j.done => ~Recorded',
           to \in Deployed => DeployedAt(v)',
           to \in {"active", "health", "validated"} => runtime' = v,
           to \in {"script", "running"} =>
               \A i \in 1..(j.next - 1) :
                   \/ database'[Packages[i]] = [version |-> v, status |-> "C"]
                   \/ to = "running" /\ Packages[i] = Packages[j.next]
    PROVE  Fits(p, v)'
<1>1. ReadingHolds(p)'
  BY DEF ReadingHolds
<1>2. PhaseHolds(p, v)'
  BY DEF PhaseHolds
<1>3. ProgressHolds(p, v)'
  BY DEF ProgressHolds
<1> QED BY <1>1, <1>2, <1>3 DEF Fits

\* What is true of a process before its step.
LEMMA Fitting ==
    ASSUME NEW v, SagaInv, CompletionInv(v), NEW p \in Proc
    PROVE  /\ Fits(p, v) /\ job[p] \in Job /\ pc[p] \in Place
           /\ pc \in [Proc -> Place] /\ job \in [Proc -> Job]
BY DEF CompletionInv, Fits, SagaInv, SagaTypeOK

\* One process moves; Core and the record's state stay.
LEMMA QuietStep ==
    ASSUME NEW v, SagaInv, LeaseInv, DeployerInv, CompletionInv(v), SameRecord,
           runtime' \in {runtime, v}, NEW p \in Proc, Fits(p, v)',
           \A q \in Proc : q # p => pc'[q] = pc[q] /\ job'[q] = job[q],
           pc[p] \in Holder \/ (Leased(pointer)' => Leased(pointer))
    PROVE  CompletionInv(v)'
<1>1. RecordHolds(v)' /\ (Recorded' <=> Recorded)
  BY RecordStays DEF SameRecord
<1>2. ASSUME NEW q \in Proc, q # p PROVE Fits(q, v)'
  <2>1. CASE pc[p] \in Holder
    BY <1>1, <1>2, <2>1, OthersWait
  <2>2. CASE Leased(pointer)' => Leased(pointer)
    BY <1>1, <1>2, <2>2, OthersStay DEF SameRecord
  <2> QED BY <2>1, <2>2
<1> QED BY <1>1, <1>2, Together

\* Where a process under the lease may go without having learnt anything.
GoesWhereKnown(from, to, v) ==
    \/ to = "release"
    \/ from \in InPhase /\ to \in {"failed", "started"}
    \/ from \in Deployed /\ to \in {"unreachable", "activate"}
    \/ /\ from \in Deployed /\ to \in {"active", "validated", "complete"}
       /\ to = "complete" => from = "early"
       /\ runtime' = v

\* A process under the lease goes on to a place where it needs to know no more.
LEMMA MovesWithinLease ==
    ASSUME NEW v, SagaInv, LeaseInv, DeployerInv, CompletionInv(v), SameRecord,
           NEW p \in Proc, NEW from \in Holder, NEW to \in Holder, Goto(p, from, to),
           job' = job, runtime' \in {runtime, v},
           GoesWhereKnown(from, to, v)
    PROVE  CompletionInv(v)'
<1>1. pc[p] = from /\ pc'[p] = to /\ \A q \in Proc : q # p => pc'[q] = pc[q]
  BY Fitting, GotoMoves DEF Holder
<1>2. (Recorded' <=> Recorded) /\ (DeployedAt(v)' <=> DeployedAt(v))
  BY RecordStays DEF SameRecord, DeployedAt
<1>3. Fits(p, v)
  BY Fitting
<1>4. Fits(p, v)'
  <2>1. job[p].plan \in Plans /\ (job[p].done => DeployedAt(v))
    BY <1>1, <1>3, PlacesHeld DEF Fits, PhaseHolds
  <2>2. from \in InPhase => ~job[p].done /\ ~Recorded
    BY <1>1, <1>3 DEF Fits, PhaseHolds
  <2>3. from \in Deployed => DeployedAt(v)
    BY <1>1, <1>3 DEF Fits, PhaseHolds
  <2>4. from = "early" => from \in InPhase
    BY DEF InPhase
  <2>5. /\ to \in InPhase => ~job[p].done /\ ~Recorded
        /\ to \in Deployed => DeployedAt(v)
        /\ to \notin {"start", "preflight", "script", "running", "health"}
        /\ to \in {"active", "validated"} => runtime' = v
    BY <2>2, <2>3, <2>4 DEF GoesWhereKnown, InPhase, Deployed
  <2> QED BY <1>1, <1>2, <2>1, <2>5, Arrives, PlacesHeld
<1> QED BY <1>1, <1>4, QuietStep

\* The actions of that kind.
LEMMA GoesOn ==
    ASSUME NEW v, OneVersion(v), SagaInv, LeaseInv, DeployerInv, CompletionInv(v),
           NEW p \in Proc,
           \/ PreflightRefused(p) \/ PreflightFails(p) \/ RenewBeforeDatabase(p)
           \/ RemovalFails(p) \/ EarlyRefused(p) \/ RenewBeforeRuntime(p)
           \/ Activate(p) \/ ActivateEarly(p) \/ ActivationRefused(p)
           \/ ActivationUnreachable(p) \/ ActivationFails(p) \/ HealthCheck(p)
           \/ HealthCheckFails(p) \/ Interrupt(p) \/ Fenced(p)
    PROVE  CompletionInv(v)'
<1>1. CASE \/ PreflightRefused(p) \/ PreflightFails(p) \/ RemovalFails(p) \/ EarlyRefused(p)
           \/ ActivationRefused(p) \/ ActivationUnreachable(p) \/ ActivationFails(p)
           \/ HealthCheckFails(p) \/ Interrupt(p) \/ Fenced(p)
  <2>1. SameRecord /\ job' = job /\ runtime' = runtime
    BY <1>1 DEF PreflightRefused, PreflightFails, RemovalFails, EarlyRefused,
       ActivationRefused, ActivationUnreachable, ActivationFails, HealthCheckFails,
       Interrupt, Fenced, SameRecord, leaseVars, recordVars, worldVars
  <2>2. PICK to \in {"release", "failed", "unreachable"} :
            /\ Goto(p, pc[p], to) /\ pc[p] \in Holder
            /\ to = "failed" => pc[p] \in InPhase
            /\ to = "unreachable" => pc[p] \in Deployed
    BY <1>1 DEF PreflightRefused, PreflightFails, RemovalFails, EarlyRefused,
       ActivationRefused, ActivationUnreachable, ActivationFails, HealthCheckFails,
       Interrupt, Fenced, Raise, Goto, LeaseCalls, Place, Holder, InPhase, Deployed
  <2>3. to \in Holder /\ GoesWhereKnown(pc[p], to, v) /\ runtime' \in {runtime, v}
    BY <2>1, <2>2 DEF Holder, Place, GoesWhereKnown
  <2> QED BY <2>1, <2>2, <2>3, MovesWithinLease
<1>2. CASE RenewBeforeDatabase(p) \/ RenewBeforeRuntime(p)
  <2>1. PICK from \in Holder, to \in Holder :
            /\ Goto(p, from, to)
            /\ \/ from \in InPhase /\ to = "started"
               \/ from \in Deployed /\ to = "activate"
    BY <1>2 DEF RenewBeforeDatabase, RenewBeforeRuntime, InPhase, Deployed, Holder, Place
  <2>2. Renew(p) /\ job' = job /\ runtime' = runtime
        /\ UNCHANGED <<openedFor, database, pointer>>
    BY <1>2 DEF RenewBeforeDatabase, RenewBeforeRuntime, worldVars, Renew
  <2>3. pointer # NoOp => row'[pointer].state = row[pointer].state
    <3>1. \A id \in OpId : row[id] \in OperationRecord
      BY DEF LeaseInv, TypeOK
    <3>2. pc[p] \in Holder
      BY <2>1 DEF Goto
    <3>3. lease[p].op = pointer /\ pointer \in OpId
      BY <3>2, OneHolder
    <3> QED BY <2>2, <3>1, <3>3 DEF Renew, OperationRecord, LeaseInv, TypeOK
  <2>4. SameRecord /\ GoesWhereKnown(from, to, v) /\ runtime' \in {runtime, v}
    BY <2>1, <2>2, <2>3 DEF SameRecord, GoesWhereKnown
  <2> QED BY <2>1, <2>2, <2>4, MovesWithinLease
<1>3. CASE Activate(p) \/ ActivateEarly(p)
  <2>1. PICK from \in Holder, to \in Holder :
            /\ Goto(p, from, to) /\ from \in Deployed
            /\ to \in {"active", "complete"} /\ (to = "complete" => from = "early")
    BY <1>3 DEF Activate, ActivateEarly, Deployed, Holder, Place
  <2>2. SameRecord /\ job' = job /\ runtime' = job[p].plan.version
    BY <1>3 DEF Activate, ActivateEarly, ActivateRuntime, SameRecord, leaseVars, recordVars
  <2>3. job[p].plan \in Plans
    <3>1. pc[p] # "idle"
      BY <2>1, PlacesHeld DEF Goto
    <3> QED BY <3>1 DEF CompletionInv, PhaseHolds
  <2>4. runtime' = v
    BY <2>2, <2>3 DEF OneVersion
  <2>5. GoesWhereKnown(from, to, v) /\ runtime' \in {runtime, v}
    BY <2>1, <2>4 DEF GoesWhereKnown
  <2> QED BY <2>1, <2>2, <2>5, MovesWithinLease
<1>4. CASE HealthCheck(p)
  <2>1. SameRecord /\ job' = job /\ runtime' = runtime
    BY <1>4 DEF HealthCheck, SameRecord, leaseVars, recordVars, worldVars
  <2>2. PICK to \in {"validated", "release"} : Goto(p, "health", to)
    BY <1>4 DEF HealthCheck
  <2>3. "health" \in Deployed /\ "health" \in Holder /\ to \in Holder
    BY DEF Deployed, Holder, Place
  <2>4. runtime = v
    <3>1. pc[p] = "health"
      BY <2>2 DEF Goto
    <3> QED BY <3>1 DEF CompletionInv, PhaseHolds
  <2>5. GoesWhereKnown("health", to, v) /\ runtime' \in {runtime, v}
    BY <2>1, <2>2, <2>3, <2>4 DEF GoesWhereKnown
  <2> QED BY <2>1, <2>2, <2>3, <2>5, MovesWithinLease
<1> QED BY <1>1, <1>2, <1>3, <1>4

\* A process that ends, with or without its lease.
LEMMA EndsQuietly ==
    ASSUME NEW v, SagaInv, LeaseInv, DeployerInv, CompletionInv(v), NEW p \in Proc,
           \/ PrepareFails(p) \/ BeginRefused(p) \/ AcquireRefused(p)
           \/ ReleaseLease(p) \/ Crash(p)
    PROVE  CompletionInv(v)'
<1>1. /\ Exit(p) /\ UNCHANGED <<worldVars, openedFor>>
      /\ UNCHANGED leaseVars \/ Vanish(p) \/ (Release(p) /\ pc[p] = "release")
  BY DEF PrepareFails, BeginRefused, AcquireRefused, ReleaseLease, Crash
<1>2. /\ pc'[p] = "idle" /\ job'[p] = NoJob
      /\ \A q \in Proc : q # p => pc'[q] = pc[q] /\ job'[q] = job[q]
  BY <1>1, Fitting DEF Exit
<1>3. Fits(p, v)'
  BY <1>2, PlacesHeld, Arrives DEF Deployed, InPhase
<1>4. CASE UNCHANGED leaseVars \/ Vanish(p)
  <2>1. SameRecord /\ runtime' = runtime /\ (Leased(pointer)' => Leased(pointer))
    BY <1>1, <1>4 DEF SameRecord, worldVars, leaseVars, recordVars, Vanish, Leased, Exists
  <2> QED BY <1>2, <1>3, <2>1, QuietStep
<1>5. CASE Release(p) /\ pc[p] = "release"
  <2>1. pc[p] \in Holder
    BY <1>5, PlacesHeld
  <2>2. lease[p].op = pointer /\ pointer \in OpId
    BY <2>1, OneHolder
  <2>3. row[pointer] \in OperationRecord /\ row \in [OpId -> OperationRecord]
    BY <2>2 DEF LeaseInv, TypeOK
  <2>4. SameRecord /\ runtime' = runtime
    BY <1>1, <1>5, <2>2, <2>3 DEF SameRecord, worldVars, Release, OperationRecord
  <2> QED BY <1>2, <1>3, <2>1, <2>4, QuietStep
<1> QED BY <1>1, <1>4, <1>5

\* Before the window: submitting, preparing and the look of a begin.
LEMMA Starts ==
    ASSUME NEW v, SagaInv, LeaseInv, DeployerInv, CompletionInv(v), NEW p \in Proc,
           Submits(p) \/ Resumes(p) \/ Prepare(p) \/ Begin(p)
    PROVE  CompletionInv(v)'
<1>1. /\ SameRecord /\ runtime' = runtime /\ (Leased(pointer)' => Leased(pointer))
      /\ \A q \in Proc : q # p => pc'[q] = pc[q] /\ job'[q] = job[q]
  BY Fitting DEF Submits, Submit, Resumes, SubmitResume, Prepare, Begin, BeginCheck, Goto,
     SameRecord, leaseVars, recordVars, worldVars, Leased, Exists
<1>2. /\ pc'[p] \in {"prepare", "current", "begin", "insert"} /\ job'[p].plan \in Plans
      /\ pc'[p] = "current" => job'[p].resume
  <2>1. ASSUME NEW plan \in Plans, Submit(p, plan)
        PROVE  pc'[p] = "prepare" /\ job'[p].plan \in Plans
    BY <2>1, Fitting DEF Submit, Goto, NoJob
  <2>2. ASSUME NEW command \in Retries, SubmitResume(p, command)
        PROVE  pc'[p] = "current" /\ job'[p].plan \in Plans /\ job'[p].resume
    BY <2>2, Fitting DEF SubmitResume, Goto, NoJob, SagaInv, SagaTypeOK
  <2>3. CASE Prepare(p) \/ Begin(p)
    BY <2>3, Fitting DEF Prepare, Begin, Goto, Fits, PhaseHolds
  <2> QED BY <2>1, <2>2, <2>3 DEF Submits, Resumes
<1>3. Fits(p, v)'
  BY <1>2 DEF Fits, ReadingHolds, PhaseHolds, ProgressHolds, Holder, InPhase, Deployed
<1> QED BY <1>1, <1>3, QuietStep

-----------------------------------------------------------------------------
(* The window between the record and the lease, and what is learnt after it *)

\* While a process is in the window no other one is.
LEMMA WindowIsAlone ==
    ASSUME DeployerInv, NEW p \in Proc, pc[p] \in Window
    PROVE  \A q \in Proc : q # p => pc[q] # "acquire"
BY DEF DeployerInv, Alone, Window

\* The record is read: what was read is what it says.
LEMMA Reads ==
    ASSUME NEW v, ~Overlap, SagaInv, LeaseInv, DeployerInv, CompletionInv(v),
           NEW p \in Proc, ReadOperation(p)
    PROVE  CompletionInv(v)'
<1>1. SameRecord /\ runtime' = runtime /\ (Leased(pointer)' => Leased(pointer))
  BY DEF ReadOperation, GetCurrent, SameRecord, recordVars, worldVars, Leased, Exists
<1>2. /\ pc[p] = "current" /\ pc'[p] = "acquire"
      /\ job'[p] = [job[p] EXCEPT !.seen = row[pointer].state] /\ job[p] \in Job
      /\ \A q \in Proc : q # p => pc'[q] = pc[q] /\ job'[q] = job[q]
  BY Fitting DEF ReadOperation, Goto
<1>3. job'[p].seen = row[pointer].state /\ job'[p].plan = job[p].plan
      /\ job'[p].resume = job[p].resume
  BY <1>2 DEF Job
<1>4. job[p].resume /\ job[p].plan \in Plans
  BY <1>2, Fitting DEF Fits, PhaseHolds, ReadingHolds
<1>5. pointer # NoOp /\ (Recorded' <=> Recorded)
  BY <1>1, RecordStays DEF ReadOperation, GetCurrent, SameRecord
<1>6. Fits(p, v)'
  BY <1>2, <1>3, <1>4, <1>5
     DEF Fits, ReadingHolds, PhaseHolds, ProgressHolds, Recorded, Holder, InPhase, Deployed
<1> QED BY <1>1, <1>2, <1>6, QuietStep

\* A begin replaces an operation that nobody holds by one that nobody has touched.
LEMMA Inserts ==
    ASSUME NEW v, SagaInv, LeaseInv, DeployerInv, CompletionInv(v),
           NEW p \in Proc, InsertOperation(p)
    PROVE  CompletionInv(v)'
<1>1. PICK id \in OpId \ begun :
          /\ BeginCommit(p, id, StoredMode[job[p].plan.mode])
          /\ openedFor' = [openedFor EXCEPT ![id] = job[p].plan]
  BY FreshIsUnused DEF InsertOperation
<1>2. /\ pc[p] = "insert" /\ pc'[p] = "acquire"
      /\ job'[p] = [job[p] EXCEPT !.seen = "RESOLVED"] /\ job[p] \in Job
      /\ \A q \in Proc : q # p => pc'[q] = pc[q] /\ job'[q] = job[q]
      /\ database' = database /\ runtime' = runtime
  BY Fitting DEF InsertOperation, Goto, worldVars
<1>3. pointer' = id /\ row'[id] = NewRow(StoredMode[job[p].plan.mode])
  BY <1>1 DEF BeginCommit
<1>4. row'[id].state = "RESOLVED" /\ row'[id].token = NoToken
  BY <1>3 DEF NewRow, NoRow
<1>5. ~Recorded' /\ ~Leased(pointer)'
  BY <1>3, <1>4 DEF Recorded, DatabaseDone, Leased
<1>6. job'[p].seen = "RESOLVED" /\ job'[p].plan \in Plans
  BY <1>2 DEF Job, CompletionInv, PhaseHolds
<1>7. Fits(p, v)'
  BY <1>2, <1>5, <1>6
     DEF Fits, ReadingHolds, PhaseHolds, ProgressHolds, DatabaseDone, Holder, InPhase, Deployed
<1>8. ASSUME NEW q \in Proc, q # p PROVE Fits(q, v)'
  <2>1. pc[q] # "acquire"
    BY <1>2, <1>8, WindowIsAlone DEF Window
  <2>2. pc[q] \notin Holder
    BY <1>2, OneHolder DEF DeployerInv, BeginFree
  <2> QED BY <1>2, <1>8, <2>1, <2>2, Elsewhen
<1>9. openedFor'[id] \in Plans
  BY <1>1, <1>2, <1>6 DEF SagaInv, SagaTypeOK, CompletionInv, PhaseHolds
<1>10. RecordHolds(v)'
  BY <1>2, <1>3, <1>5, <1>9 DEF RecordHolds, CompletionInv
<1> QED BY <1>7, <1>8, <1>10, Together

\* Who takes the lease knows what the record says, or is going to look at Core.
LEMMA Acquires ==
    ASSUME NEW v, SagaInv, LeaseInv, DeployerInv, CompletionInv(v),
           NEW p \in Proc, AcquireLease(p)
    PROVE  CompletionInv(v)'
<1> DEFINE d == job[p].seen \in DatabaseDone
           to == IF job[p].resume /\ ~d THEN "evidence" ELSE "start"
<1>1. PICK t \in Token : Acquire(p, t)
  BY FreshIsUnused DEF AcquireLease
<1>2. /\ pc[p] = "acquire" /\ pc'[p] = to
      /\ job'[p] = [job[p] EXCEPT !.done = d] /\ job[p] \in Job
      /\ \A q \in Proc : q # p => pc'[q] = pc[q] /\ job'[q] = job[q]
      /\ UNCHANGED <<database, runtime, openedFor>>
  BY Fitting DEF AcquireLease, Goto, worldVars
<1>3. target[p] = pointer /\ pointer \in OpId /\ ~Leased(pointer) /\ pointer' = pointer
  BY <1>1 DEF Acquire, AcquireFails, Exists, LeaseInv, OnlyCurrentOperationKept
<1>4. row'[pointer].state = row[pointer].state
  <2>1. row[pointer] \in OperationRecord /\ row \in [OpId -> OperationRecord]
    BY <1>3 DEF LeaseInv, TypeOK
  <2> QED BY <1>1, <1>3, <2>1 DEF Acquire, OperationRecord
<1>5. RecordHolds(v)' /\ (Recorded' <=> Recorded)
  BY <1>2, <1>3, <1>4, RecordStays
<1>6. ASSUME NEW q \in Proc, q # p PROVE Fits(q, v)'
  <2>1. pc[q] # "acquire" /\ pc[q] \notin Holder
    BY <1>2, <1>3, <1>6, WindowIsAlone, OneHolder DEF Window
  <2> QED BY <1>2, <1>6, <2>1, Elsewhen
<1>7. /\ job[p].plan \in Plans /\ (d => Recorded)
      /\ ~job[p].resume => ~Recorded
      /\ Recorded => DeployedAt(v)
  BY <1>2, Fitting DEF Fits, ReadingHolds, PhaseHolds, CompletionInv, RecordHolds
<1>8. job'[p].done = d /\ job'[p].plan = job[p].plan
  BY <1>2 DEF Job
<1>9. to \in {"evidence", "start"} /\ (to = "start" => d \/ ~job[p].resume)
  OBVIOUS
<1>10. DeployedAt(v)' <=> DeployedAt(v)
  BY <1>2 DEF DeployedAt
<1> HIDE DEF d, to
<1>11. Fits(p, v)'
  BY <1>2, <1>5, <1>7, <1>8, <1>9, <1>10
     DEF Fits, ReadingHolds, PhaseHolds, ProgressHolds, InPhase, Deployed
<1> QED BY <1>5, <1>6, <1>11, Together

\* When all packages are complete they are complete at the one version there is.
LEMMA EvidenceIsTrue ==
    ASSUME NEW v, SagaInv, CompletionInv(v) PROVE DatabaseEvidence <=> DeployedAt(v)
<1>1. \A k \in Package : database[k] \in Registration
  BY DEF SagaInv, SagaTypeOK
<1>2. \A k \in Package : database[k].status = "C" => database[k].version = v
  BY DEF CompletionInv, RecordHolds
<1> QED BY <1>1, <1>2 DEF DatabaseEvidence, DeployedAt, Registration

\* The evidence check and the preflight, which decide on what is known.
LEMMA Decides ==
    ASSUME NEW v, SagaInv, LeaseInv, DeployerInv, CompletionInv(v),
           NEW p \in Proc, CheckEvidence(p) \/ Preflight(p)
    PROVE  CompletionInv(v)'
<1>1. /\ SameRecord /\ runtime' = runtime /\ pc[p] \in {"evidence", "preflight"}
      /\ \A q \in Proc : q # p => pc'[q] = pc[q] /\ job'[q] = job[q]
  BY Fitting DEF CheckEvidence, Preflight, Goto, SameRecord, leaseVars, recordVars, worldVars
<1>2. pc[p] \in Holder
  BY <1>1, PlacesHeld
<1>3. (Recorded' <=> Recorded) /\ (DeployedAt(v)' <=> DeployedAt(v))
  BY <1>1, RecordStays DEF SameRecord, DeployedAt
<1>4. job[p].plan \in Plans /\ job[p] \in Job
  BY <1>1, Fitting DEF Fits, PhaseHolds
<1>5. CASE CheckEvidence(p)
  <2>1. pc'[p] = "start" /\ job'[p] = [job[p] EXCEPT !.done = DatabaseEvidence]
    BY <1>5, Fitting DEF CheckEvidence, Goto
  <2>2. job'[p].plan \in Plans /\ job'[p].done = DatabaseEvidence
    BY <1>4, <2>1 DEF Job
  <2>3. Recorded => DeployedAt(v)
    BY DEF CompletionInv, RecordHolds
  <2>4. Fits(p, v)'
    BY <1>3, <2>1, <2>2, <2>3, EvidenceIsTrue, Arrives DEF Deployed, InPhase
  <2> QED BY <1>1, <1>2, <2>4, QuietStep
<1>6. CASE Preflight(p)
  <2>1. /\ pc[p] = "preflight"
        /\ pc'[p] \in (IF job[p].done THEN {"renewRuntime", "unreachable"}
                       ELSE {"staged", "renewDatabase"})
        /\ job'[p] = [job[p] EXCEPT !.reach = prefixUp]
    BY <1>6, Fitting DEF Preflight, Goto
  <2>2. job'[p].plan \in Plans /\ job'[p].done = job[p].done
    BY <1>4, <2>1 DEF Job
  <2>3. (job[p].done => DeployedAt(v)) /\ (~job[p].done => ~Recorded)
    BY <2>1, PlacesHeld, Fitting DEF Fits, PhaseHolds
  <2>4. Fits(p, v)'
    BY <1>3, <2>1, <2>2, <2>3, Arrives DEF Deployed, InPhase
  <2> QED BY <1>1, <1>2, <2>4, QuietStep
<1> QED BY <1>5, <1>6

-----------------------------------------------------------------------------
(* Steps that change the record or Core *)

\* A record of a step stays true, and completion is not taken back.
LEMMA RecordStep ==
    ASSUME NEW v, SagaInv, LeaseInv, DeployerInv, CompletionInv(v),
           NEW p \in Proc, pc[p] \in Holder, NEW s \in OperationState, Record(p, s),
           UNCHANGED <<worldVars, job, openedFor>>,
           \A q \in Proc : q # p => pc'[q] = pc[q],
           Recorded => s \in DatabaseDone,
           s \in DatabaseDone => DeployedAt(v), s = "VALIDATED" => runtime = v,
           Fits(p, v)'
    PROVE  CompletionInv(v)'
<1>1. pointer' = pointer /\ row'[pointer].state = s /\ (Recorded' <=> s \in DatabaseDone)
  BY Records
<1>2. RecordHolds(v)'
  BY <1>1 DEF RecordHolds, CompletionInv, DeployedAt, worldVars
<1>3. ASSUME NEW q \in Proc, q # p PROVE Fits(q, v)'
  BY <1>1, <1>3, OthersWait
<1> QED BY <1>2, <1>3, Together

\* The actions of that kind, with what they record.
LEMMA RecordsTruly ==
    ASSUME NEW v, SagaInv, LeaseInv, DeployerInv, CompletionInv(v), NEW p \in Proc,
           \/ RecordStart(p) \/ RecordStaged(p) \/ RecordDatabaseStarted(p)
           \/ RecordFailed(p) \/ RecordDatabase(p) \/ RecordUnreachable(p)
           \/ RecordActive(p) \/ RecordValidated(p)
    PROVE  CompletionInv(v)' /\ (Recorded => pointer' = pointer /\ Recorded')
<1>1. /\ UNCHANGED <<worldVars, job, openedFor>>
      /\ \A q \in Proc : q # p => pc'[q] = pc[q]
      /\ pc[p] \in {"start", "staged", "started", "failed", "complete", "unreachable",
                    "active", "validated"}
  BY Fitting DEF RecordStart, RecordStaged, RecordDatabaseStarted, RecordFailed,
     RecordDatabase, RecordUnreachable, RecordActive, RecordValidated, Say, Goto
<1>2. pc[p] \in Holder
  BY <1>1 DEF Holder, Place
<1>3. /\ Fits(p, v) /\ job[p].plan \in Plans /\ (job[p].done => DeployedAt(v))
      /\ DeployedAt(v)' <=> DeployedAt(v)
      /\ runtime' = runtime
  BY <1>1, <1>2, PlacesHeld, Fitting DEF Fits, PhaseHolds, worldVars, DeployedAt
<1>4. ASSUME NEW s \in OperationState, Record(p, s),
             Recorded => s \in DatabaseDone, s \in DatabaseDone => DeployedAt(v),
             s = "VALIDATED" => runtime = v, Fits(p, v)'
      PROVE  CompletionInv(v)' /\ (Recorded => pointer' = pointer /\ Recorded')
  BY <1>1, <1>2, <1>4, RecordStep, Records
<1>5. CASE RecordStart(p)
  <2> DEFINE s == IF job[p].done THEN "DATABASE_COMPLETE" ELSE "RESOLVED"
  <2>1. pc[p] = "start" /\ pc'[p] = "preflight" /\ Record(p, s) /\ job' = job
    BY <1>5, Fitting DEF RecordStart, Say, Goto
  <2>2. s \in OperationState /\ (s \in DatabaseDone <=> job[p].done) /\ s # "VALIDATED"
    BY DEF OperationState, DatabaseDone
  <2>3. Recorded => job[p].done
    BY <1>3, <2>1 DEF Fits, PhaseHolds
  <2> HIDE DEF s
  <2>4. Recorded' => job[p].done
    BY <1>2, <2>1, <2>2, Records
  <2>5. Fits(p, v)'
    BY <1>3, <2>1, <2>2, <2>4, Arrives DEF InPhase, Deployed
  <2> QED BY <1>3, <1>4, <2>1, <2>2, <2>3, <2>5
<1>6. CASE RecordStaged(p) \/ RecordDatabaseStarted(p)
  <2>1. /\ pc[p] \in InPhase /\ pc'[p] \in {"renewDatabase", "remove", "script"}
        /\ Record(p, "RUNTIME_STAGED") /\ job' = job
        /\ pc'[p] = "script" => pc[p] = "started"
    BY <1>6, Fitting DEF RecordStaged, RecordDatabaseStarted, Say, Goto, InPhase
  <2>2. "RUNTIME_STAGED" \in OperationState /\ "RUNTIME_STAGED" \notin DatabaseDone
    BY DEF OperationState, DatabaseDone
  <2>3. ~job[p].done /\ ~Recorded
    BY <1>3, <2>1 DEF Fits, PhaseHolds
  <2>4. ~Recorded'
    BY <1>2, <2>1, <2>2, Records
  <2>5. pc'[p] = "script" => 1..(job[p].next - 1) = {}
    BY <2>1 DEF SagaInv, NextInRange, Undeployed
  <2>6. Fits(p, v)'
    BY <1>3, <2>1, <2>3, <2>4, <2>5, Arrives DEF Deployed
  <2> QED BY <1>4, <2>1, <2>2, <2>3, <2>6
<1>7. CASE RecordFailed(p)
  <2>1. pc[p] = "failed" /\ pc'[p] = "release" /\ Record(p, "FAILED") /\ job' = job
    BY <1>7, Fitting DEF RecordFailed, Say, Goto
  <2>2. "FAILED" \in OperationState /\ "FAILED" \notin DatabaseDone
    BY DEF OperationState, DatabaseDone
  <2>3. ~Recorded
    BY <1>3, <2>1 DEF Fits, PhaseHolds, InPhase
  <2>4. Fits(p, v)'
    BY <1>3, <2>1, Arrives DEF Deployed, InPhase
  <2> QED BY <1>4, <2>1, <2>2, <2>3, <2>4
<1>8. CASE RecordDatabase(p) \/ RecordUnreachable(p) \/ RecordActive(p) \/ RecordValidated(p)
  <2>1. PICK s \in {"DATABASE_COMPLETE", "RUNTIME_UNREACHABLE", "RUNTIME_ACTIVE",
                    "VALIDATED"} :
            /\ Record(p, s) /\ job' = job /\ pc[p] \in Deployed
            /\ pc'[p] \in {"renewRuntime", "unreachable", "release", "health"}
            /\ pc'[p] = "health" => pc[p] = "active"
            /\ s = "VALIDATED" => pc[p] = "validated"
    BY <1>8, Fitting DEF RecordDatabase, RecordUnreachable, RecordActive, RecordValidated,
       Say, Goto, Deployed
  <2>2. s \in OperationState /\ s \in DatabaseDone
    BY DEF OperationState, DatabaseDone
  <2>3. DeployedAt(v) /\ (pc[p] \in {"active", "validated"} => runtime = v)
    BY <1>3, <2>1 DEF Fits, PhaseHolds
  <2>4. Fits(p, v)'
    BY <1>3, <2>1, <2>3, Arrives DEF InPhase
  <2> QED BY <1>4, <2>1, <2>2, <2>3, <2>4
<1> QED BY <1>5, <1>6, <1>7, <1>8

\* Deploying happens under a record that does not say it is complete.
LEMMA DatabaseStep ==
    ASSUME NEW v, SagaInv, LeaseInv, DeployerInv, CompletionInv(v),
           NEW p \in Proc, OnDatabase(p), UNCHANGED <<leaseVars, runtime, openedFor>>,
           \A q \in Proc : q # p => pc'[q] = pc[q] /\ job'[q] = job[q],
           \A k \in Package : database'[k].status = "C" => database'[k].version = v,
           Fits(p, v)'
    PROVE  CompletionInv(v)'
<1>1. pc[p] \in InPhase /\ pc[p] \in Holder
  BY PlacesHeld DEF OnDatabase, InPhase
<1>2. ~Recorded /\ ~Recorded'
  BY <1>1, Fitting DEF Fits, PhaseHolds, Recorded, leaseVars, recordVars
<1>3. RecordHolds(v)'
  BY <1>2 DEF RecordHolds, CompletionInv, leaseVars, recordVars
<1>4. ASSUME NEW q \in Proc, q # p PROVE Fits(q, v)'
  BY <1>1, <1>2, <1>4, OthersWait
<1> QED BY <1>3, <1>4, Together

\* The actions of that kind, with the progress they make.
LEMMA Deploys ==
    ASSUME NEW v, OneVersion(v), SagaInv, LeaseInv, DeployerInv, CompletionInv(v),
           NEW p \in Proc,
           RemovePackage(p) \/ ScriptStarts(p) \/ ScriptEnds(p) \/ ScriptFails(p)
    PROVE  CompletionInv(v)' /\ ~Recorded
<1> DEFINE C == [version |-> v, status |-> "C"]
           n == job[p].next
<1>1. /\ UNCHANGED <<leaseVars, runtime, openedFor>> /\ OnDatabase(p)
      /\ \A q \in Proc : q # p => pc'[q] = pc[q] /\ job'[q] = job[q]
  BY Fitting DEF RemovePackage, ScriptStarts, ScriptEnds, ScriptFails, Goto, OnDatabase
<1>2. /\ job[p].plan \in Plans /\ job[p].plan.version = v /\ ~job[p].done
      /\ ~Recorded /\ ~Recorded'
  BY <1>1, Fitting DEF OnDatabase, Fits, PhaseHolds, InPhase, OneVersion, Recorded,
                       leaseVars, recordVars
<1>3. /\ n \in 1..Len(Packages) /\ Packages[n] \in Package
      /\ database \in [Package -> Registration]
      /\ \A i \in 1..Len(Packages) : Packages[i] \in Package
      /\ \A k \in Package : database[k].status = "C" => database[k].version = v
  <2>1. n \in 1..(Len(Packages) + 1) /\ n <= Len(Packages)
    BY <1>1, Fitting DEF SagaInv, NextInRange, Job
  <2>2. \A i \in 1..Len(Packages) : Packages[i] \in Package
    BY DEF Package
  <2>3. n \in 1..Len(Packages)
    BY <2>1
  <2> QED BY <2>2, <2>3 DEF SagaInv, SagaTypeOK, CompletionInv, RecordHolds
<1>4. CASE RemovePackage(p)
  <2>1. /\ pc'[p] \in {"remove", "script"} /\ job'[p].plan = job[p].plan
        /\ job'[p].done = job[p].done
        /\ pc'[p] = "script" => 1..(job'[p].next - 1) = {}
    BY <1>4, Fitting DEF RemovePackage, Goto, Job
  <2>2. \A k \in Package : database'[k].status = "C" => database'[k].version = v
    BY <1>3, <1>4 DEF RemovePackage, NotInstalled
  <2>3. Fits(p, v)'
    BY <1>2, <2>1, Arrives DEF Deployed
  <2> QED BY <1>1, <1>2, <2>2, <2>3, DatabaseStep
<1>5. CASE ScriptStarts(p)
  <2>1. /\ pc[p] = "script" /\ pc'[p] = "running" /\ job' = job
        /\ database' = [database EXCEPT ![Packages[n]] = [version |-> v, status |-> "R"]]
    BY <1>2, <1>5, Fitting DEF ScriptStarts, Goto, Deploying
  <2>2. \A k \in Package : database'[k].status = "C" => database'[k].version = v
    BY <1>3, <2>1
  <2>3. \A i \in 1..(n - 1) : database[Packages[i]] = C
    BY <2>1, Fitting DEF Fits, ProgressHolds
  <2>4. \A i \in 1..(n - 1) : database'[Packages[i]] = C \/ Packages[i] = Packages[n]
    BY <1>3, <2>1, <2>3
  <2>5. Fits(p, v)'
    BY <1>2, <2>1, <2>4, Arrives DEF Deployed
  <2> QED BY <1>1, <1>2, <2>2, <2>5, DatabaseStep
<1>6. CASE ScriptEnds(p)
  <2>1. /\ pc[p] = "running" /\ database' = [database EXCEPT ![Packages[n]] = C]
        /\ job'[p] = [job[p] EXCEPT !.next = n + 1]
        /\ pc'[p] \in {"script", "early", "complete"}
        /\ pc'[p] # "script" => n = Len(Packages)
    BY <1>2, <1>3, <1>6, Fitting DEF ScriptEnds, Goto, Deploying
  <2>2. \A k \in Package : database'[k].status = "C" => database'[k].version = v
    BY <1>3, <2>1
  <2>3. \A i \in 1..(n - 1) : database[Packages[i]] = C \/ Packages[i] = Packages[n]
    BY <2>1, Fitting DEF Fits, ProgressHolds
  <2>4. \A i \in 1..n : database'[Packages[i]] = C
    BY <1>3, <2>1, <2>3
  <2>5. n = Len(Packages) => DeployedAt(v)'
    BY <2>4 DEF DeployedAt, Package
  <2>6. job'[p].next = n + 1 /\ job'[p].plan = job[p].plan /\ job'[p].done = job[p].done
    BY <2>1, Fitting DEF Job
  <2>7. \A i \in 1..(job'[p].next - 1) : database'[Packages[i]] = C
    BY <1>3, <2>4, <2>6
  <2>8. pc'[p] \in Deployed => DeployedAt(v)'
    BY <2>1, <2>5 DEF Deployed
  <2>9. Fits(p, v)'
    BY <1>2, <2>1, <2>6, <2>7, <2>8, Arrives
  <2> QED BY <1>1, <1>2, <2>2, <2>9, DatabaseStep
<1>7. CASE ScriptFails(p)
  <2>1. /\ pc'[p] = "failed" /\ job' = job
        /\ \/ database' = database
           \/ database' = [database EXCEPT ![Packages[n]].status = "F"]
           \/ database' = [database EXCEPT ![Packages[n]] = C]
    BY <1>2, <1>7, Fitting DEF ScriptFails, Goto, Deploying
  <2>2. \A k \in Package : database'[k].status = "C" => database'[k].version = v
    BY <1>3, <2>1 DEF Registration
  <2>3. Fits(p, v)'
    BY <1>2, <2>1, Arrives DEF Deployed
  <2> QED BY <1>1, <1>2, <2>2, <2>3, DatabaseStep
<1> QED BY <1>4, <1>5, <1>6, <1>7

-----------------------------------------------------------------------------
(* The invariant and the theorems *)

\* Every step keeps what is recorded true, and what processes know in agreement.
LEMMA CompletionStep ==
    ASSUME NEW v, OneVersion(v), ~Overlap, SlowAt = {},
           SagaInv, LeaseInv, DeployerInv, CompletionInv(v), [SagaNext]_sagaVars
    PROVE  CompletionInv(v)'
<1>1. ASSUME UNCHANGED <<row, pointer, pc, job, database, runtime, openedFor>>,
             Leased(pointer)' => Leased(pointer)
      PROVE  CompletionInv(v)'
  <2>1. RecordHolds(v)' /\ (Recorded' <=> Recorded)
    BY <1>1, RecordStays
  <2>2. ASSUME NEW q \in Proc PROVE Fits(q, v)'
    BY <1>1, <2>1, <2>2, OthersStay
  <2> QED BY <2>1, <2>2 DEF CompletionInv, Fits
<1>2. CASE PrefixDown \/ PrefixUp \/ UNCHANGED sagaVars
  BY <1>1, <1>2 DEF PrefixDown, PrefixUp, sagaVars, leaseVars, recordVars, clientVars,
                    worldVars, Leased, Exists
<1>3. CASE LeaseOutlasted
  BY <1>3 DEF LeaseOutlasted
<1>4. CASE TimePasses
  <2>1. clock' = clock + 1 /\ clock \in Nat
        /\ UNCHANGED <<row, pointer, pc, job, database, runtime, openedFor>>
    BY <1>4 DEF TimePasses, Tick, recordVars, clientVars, worldVars, LeaseInv, TypeOK
  <2>2. pointer \in OpId => row[pointer].expiry \in Nat
    BY DEF LeaseInv, TypeOK, OperationRecord
  <2> QED BY <1>1, <2>1, <2>2 DEF Leased, Exists
<1>5. ASSUME NEW p \in Proc, Submits(p) \/ Resumes(p) \/ Advance(p) \/ GoesWrong(p)
      PROVE  CompletionInv(v)'
  BY <1>5, GoesOn, EndsQuietly, Starts, Reads, Inserts, Acquires, Decides, RecordsTruly,
     Deploys DEF Advance, GoesWrong
<1> QED BY <1>2, <1>3, <1>4, <1>5 DEF SagaNext

\* At the start nothing is recorded and nothing is known.
LEMMA CompletionInit == ASSUME NEW v, OneVersion(v), SagaInit PROVE CompletionInv(v)
<1>1. \A k \in Package : database[k].status = "C" => database[k].version = v
  BY DEF SagaInit, OneVersion, NotInstalled
<1>2. RecordHolds(v)
  BY <1>1 DEF RecordHolds, Recorded, SagaInit, Init
<1>3. \A p \in Proc : ReadingHolds(p) /\ PhaseHolds(p, v) /\ ProgressHolds(p, v)
  BY DEF ReadingHolds, PhaseHolds, ProgressHolds, SagaInit, Holder, InPhase, Deployed
<1> QED BY <1>2, <1>3 DEF CompletionInv

\* The invariants the theorems follow from hold together.
LEMMA CompletionInvariant ==
    ASSUME NEW v, OneVersion(v), ~Overlap, SlowAt = {}
    PROVE  SagaSpec => [](SagaInv /\ LeaseInv /\ DeployerInv /\ CompletionInv(v))
<1>1. SagaInit => DeployerInv /\ CompletionInv(v)
  BY CompletionInit
     DEF SagaInit, DeployerInv, Holding, Alone, BeginFree, Holder, Window
<1>2. /\ SagaInv /\ LeaseInv /\ DeployerInv /\ CompletionInv(v) /\ [SagaNext]_sagaVars
      => DeployerInv' /\ CompletionInv(v)'
  BY CompletionStep, DeployerStep
<1>3. SagaSpec => []LeaseInv
  BY SagaUsesLeases, LeaseInvariant, PTL DEF LeaseProtocol
<1> QED BY <1>1, <1>2, <1>3, SagaInvInit, SagaInvStep, PTL DEF SagaSpec

\* The plan an operation was begun with deploys the one version.
LEMMA BegunWith ==
    ASSUME NEW v, OneVersion(v), CompletionInv(v), Recorded
    PROVE  openedFor[pointer].version = v /\ DeployedAt(v)
BY DEF CompletionInv, RecordHolds, Recorded, OneVersion

\* A record that says the database phase is complete is true, for any number of
\* processes, packages and operations and any faults, as long as all plans deploy
\* one version, no step outlasts its lease (SlowAt) and no two processes are
\* between the record and the lease (Overlap).
THEOREM RecordedCompletionIsTrue ==
    ASSUME ~Overlap, SlowAt = {}, \E v : OneVersion(v)
    PROVE  SagaSpec => []CompletionIsTrue
<1>1. PICK v : OneVersion(v)
  OBVIOUS
<1>2. CompletionInv(v) => CompletionIsTrue
  BY <1>1, BegunWith DEF CompletionIsTrue, Recorded
<1> QED BY <1>1, <1>2, CompletionInvariant, PTL

\* What the record says to be validated is: database and runtime are at the
\* version of the operation.  The same assumptions.
THEOREM RecordedValidationIsTrue ==
    ASSUME ~Overlap, SlowAt = {}, \E v : OneVersion(v)
    PROVE  SagaSpec => []ValidatedIsConsistent
<1>1. PICK v : OneVersion(v)
  OBVIOUS
<1>2. "VALIDATED" \in DatabaseDone
  BY DEF DatabaseDone
<1>3. CompletionInv(v) => ValidatedIsConsistent
  BY <1>1, <1>2, BegunWith DEF ValidatedIsConsistent, Recorded, CompletionInv, RecordHolds
<1> QED BY <1>1, <1>3, CompletionInvariant, PTL

\* A record of completion and the database under it stay, as long as the
\* operation is the current one.
Kept == Recorded => database' = database /\ (pointer' = pointer => Recorded')

\* It holds of every step: only deploying changes the database, and only a record
\* of a step or a new operation changes what is recorded.
LEMMA KeepsCompleted ==
    ASSUME NEW v, OneVersion(v), SagaInv, LeaseInv, DeployerInv, CompletionInv(v),
           [SagaNext]_sagaVars
    PROVE  Kept
<1>1. ASSUME UNCHANGED <<pointer, row, database>> PROVE Kept
  BY <1>1 DEF Kept, Recorded
<1>2. ASSUME NEW p \in Proc,
             \/ RecordStart(p) \/ RecordStaged(p) \/ RecordDatabaseStarted(p)
             \/ RecordFailed(p) \/ RecordDatabase(p) \/ RecordUnreachable(p)
             \/ RecordActive(p) \/ RecordValidated(p)
      PROVE  Kept
  <2>1. database' = database
    BY <1>2 DEF RecordStart, RecordStaged, RecordDatabaseStarted, RecordFailed,
       RecordDatabase, RecordUnreachable, RecordActive, RecordValidated, Say, worldVars
  <2> QED BY <1>2, <2>1, RecordsTruly DEF Kept
<1>3. ASSUME NEW p \in Proc,
             RemovePackage(p) \/ ScriptStarts(p) \/ ScriptEnds(p) \/ ScriptFails(p)
      PROVE  Kept
  BY <1>3, Deploys DEF Kept
<1>4. ASSUME NEW p \in Proc, InsertOperation(p) PROVE Kept
  <2>1. PICK id \in OpId \ begun : pointer' = id
    BY <1>4, FreshIsUnused DEF InsertOperation, BeginCommit
  <2>2. pointer' # pointer
    BY <2>1 DEF LeaseInv, UsedUp
  <2> QED BY <1>4, <2>2 DEF Kept, InsertOperation, worldVars
<1>5. ASSUME NEW p \in Proc,
             \/ AcquireLease(p) \/ ReleaseLease(p) \/ RenewBeforeDatabase(p)
             \/ RenewBeforeRuntime(p)
      PROVE  Kept
  <2>1. UNCHANGED <<pointer, database>>
    BY <1>5 DEF AcquireLease, Acquire, ReleaseLease, Release, Vanish,
       RenewBeforeDatabase, RenewBeforeRuntime, Renew, worldVars
  <2>2. \A id \in OpId : row[id] \in OperationRecord
    BY DEF LeaseInv, TypeOK
  <2>3. \A id \in OpId : row'[id].state = row[id].state
    <3>0. row \in [OpId -> OperationRecord]
      BY DEF LeaseInv, TypeOK
    <3>1. CASE AcquireLease(p)
      <4>1. PICK t \in FreshToken : Acquire(p, t)
        BY <3>1 DEF AcquireLease
      <4> QED BY <2>2, <3>0, <4>1 DEF Acquire, OperationRecord
    <3>2. CASE ReleaseLease(p)
      <4>1. Release(p) \/ row' = row
        BY <3>2 DEF ReleaseLease, Vanish
      <4>2. CASE Release(p)
        BY <2>2, <3>0, <4>2 DEF Release, OperationRecord
      <4> QED BY <4>1, <4>2
    <3>3. CASE RenewBeforeDatabase(p) \/ RenewBeforeRuntime(p)
      <4>1. Renew(p)
        BY <3>3 DEF RenewBeforeDatabase, RenewBeforeRuntime
      <4> QED BY <2>2, <3>0, <4>1 DEF Renew, OperationRecord
    <3> QED BY <1>5, <3>1, <3>2, <3>3
  <2>4. Recorded => pointer \in OpId
    BY DEF Recorded, LeaseInv, TypeOK
  <2> QED BY <2>1, <2>3, <2>4 DEF Kept, Recorded
<1>6. ASSUME NEW p \in Proc,
             \/ Submits(p) \/ Resumes(p) \/ Prepare(p) \/ PrepareFails(p) \/ Begin(p)
             \/ BeginRefused(p) \/ ReadOperation(p) \/ AcquireRefused(p)
             \/ CheckEvidence(p) \/ Preflight(p) \/ PreflightRefused(p)
             \/ ActivateEarly(p) \/ EarlyRefused(p) \/ Activate(p)
             \/ ActivationRefused(p) \/ ActivationUnreachable(p) \/ HealthCheck(p)
             \/ Fenced(p)
      PROVE  UNCHANGED <<pointer, row, database>>
  BY <1>6 DEF Submits, Submit, Resumes, SubmitResume, Prepare, PrepareFails, Begin,
     BeginCheck, BeginRefused, ReadOperation, GetCurrent, AcquireRefused, Vanish,
     CheckEvidence, Preflight, PreflightRefused, ActivateEarly, EarlyRefused, Activate,
     ActivateRuntime, ActivationRefused, ActivationUnreachable, HealthCheck, Fenced,
     leaseVars, recordVars, worldVars
<1>7. ASSUME NEW p \in Proc, GoesWrong(p) PROVE Kept
  <2>1. UNCHANGED <<pointer, row, database>> \/ ScriptFails(p)
    BY <1>7 DEF GoesWrong, PreflightFails, RemovalFails, ActivationFails,
       HealthCheckFails, Crash, Vanish, Interrupt, leaseVars, recordVars, worldVars
  <2> QED BY <1>1, <1>3, <1>7, <2>1
<1>8. CASE PrefixDown \/ PrefixUp \/ TimePasses \/ LeaseOutlasted \/ UNCHANGED sagaVars
  BY <1>1, <1>8 DEF PrefixDown, PrefixUp, TimePasses, LeaseOutlasted, Tick, sagaVars,
     leaseVars, recordVars, worldVars
<1>9. ASSUME NEW p \in Proc, Advance(p) PROVE Kept
  BY <1>1, <1>2, <1>3, <1>4, <1>5, <1>6, <1>9 DEF Advance
<1> QED BY <1>1, <1>6, <1>7, <1>8, <1>9 DEF SagaNext

\* The database does not change under a record that says it is complete, and
\* the record is not taken back: no resume replays the database phase.  The
\* same assumptions; without the one on Overlap it is false.
THEOREM CompletedNotReplayed ==
    ASSUME ~Overlap, SlowAt = {}, \E v : OneVersion(v)
    PROVE  SagaSpec => CompletedDatabaseNotReplayed
<1>1. PICK v : OneVersion(v)
  OBVIOUS
<1>2. /\ SagaInv /\ LeaseInv /\ DeployerInv /\ CompletionInv(v)
      /\ [SagaNext]_sagaVars
      => [pointer # NoOp /\ row[pointer].state \in DatabaseDone
             => /\ database' = database
                /\ pointer' = pointer => row'[pointer].state \in DatabaseDone]_sagaVars
  BY <1>1, KeepsCompleted DEF Kept, Recorded
<1> QED BY <1>1, <1>2, CompletionInvariant, PTL DEF SagaSpec, CompletedDatabaseNotReplayed

\* Who changes the runtime has deployed, and activates what it has deployed.
LEMMA ActivatesDeployed ==
    ASSUME NEW v, OneVersion(v), SagaInv, LeaseInv, DeployerInv, CompletionInv(v),
           [SagaNext]_sagaVars, runtime' # runtime
    PROVE  DeployedAt(runtime')
<1>1. PICK p \in Proc : Activate(p) \/ ActivateEarly(p)
  <2>1. ~UNCHANGED sagaVars /\ ~PrefixDown /\ ~PrefixUp /\ ~TimePasses /\ ~LeaseOutlasted
    BY DEF PrefixDown, PrefixUp, TimePasses, LeaseOutlasted, sagaVars, worldVars
  <2>2. PICK p \in Proc : Submits(p) \/ Resumes(p) \/ Advance(p) \/ GoesWrong(p)
    BY <2>1 DEF SagaNext
  <2>3. ~Submits(p) /\ ~Resumes(p) /\ ~GoesWrong(p)
    BY DEF Submits, Submit, Resumes, SubmitResume, GoesWrong, PreflightFails,
       RemovalFails, ScriptFails, ActivationFails, HealthCheckFails, Crash, Interrupt,
       worldVars
  <2> QED BY <2>2, <2>3 DEF Advance, Prepare, PrepareFails, Begin, BeginRefused,
       InsertOperation, ReadOperation, AcquireLease, AcquireRefused, CheckEvidence,
       RecordStart, Preflight, PreflightRefused, RecordStaged, RenewBeforeDatabase,
       RecordDatabaseStarted, RemovePackage, ScriptStarts, ScriptEnds, RecordFailed,
       RecordDatabase, RecordUnreachable, RenewBeforeRuntime, EarlyRefused,
       ActivationRefused, ActivationUnreachable, RecordActive, HealthCheck,
       RecordValidated, Fenced, ReleaseLease, Say, worldVars
<1>2. pc[p] \in Deployed /\ runtime' = job[p].plan.version
  BY <1>1 DEF Activate, ActivateEarly, ActivateRuntime, Goto, Deployed
<1>3. pc[p] # "idle"
  BY <1>2, PlacesHeld
<1>4. job[p].plan \in Plans /\ DeployedAt(v)
  BY <1>2, <1>3, Fitting DEF Fits, PhaseHolds
<1> QED BY <1>2, <1>4 DEF OneVersion

\* Whoever changes the active runtime finds every package complete at the
\* version it activates.  The same assumptions.
THEOREM RuntimeBehindDatabase ==
    ASSUME ~Overlap, SlowAt = {}, \E v : OneVersion(v)
    PROVE  SagaSpec => RuntimeFollowsDatabase
<1>1. PICK v : OneVersion(v)
  OBVIOUS
<1>2. SagaInv /\ LeaseInv /\ DeployerInv /\ CompletionInv(v) /\ [SagaNext]_sagaVars
          => [runtime' # runtime => DeployedAt(runtime')]_sagaVars
  BY <1>1, ActivatesDeployed
<1> QED BY <1>1, <1>2, CompletionInvariant, PTL DEF SagaSpec, RuntimeFollowsDatabase
=============================================================================
