---------------------------- MODULE OperationLease ----------------------------
(***************************************************************************)
(* The durable operation record of ONE application and the lease on it     *)
(* (db.py).  Every function of db.py modelled here runs one PL/SQL block   *)
(* against the Core dictionary, so an action is one block, committed as a  *)
(* whole; begin_operation alone is two actions, because it looks at the    *)
(* previous operation's lease without locking the rows it is about to      *)
(* delete.  The clients are dbpm processes that call the functions in any  *)
(* order the types of db.py allow, and may vanish between any two calls.   *)
(*                                                                         *)
(* UUIDs (operation ids, lease tokens) are fresh values of two sets; time  *)
(* is the database's SYSTIMESTAMP, counted in lease quanta.                *)
(***************************************************************************)
EXTENDS Naturals

CONSTANTS
    Proc,          \* dbpm processes
    NoProc,        \* nobody holds the pointer row
    OpId,          \* operation ids
    NoOp,          \* the pointer row's '-'
    Token,         \* lease tokens
    NoToken,       \* the TOKEN row's '-'
    Mode,          \* modes an operation is begun with, as stored (upper case)
    LeaseSeconds,  \* duration of a lease, in ticks of the model's clock
    MaxClock       \* bound on the model's clock

ASSUME NamesAssumption ==
    /\ NoProc \notin Proc
    /\ NoOp \notin OpId
    /\ NoToken \notin Token
    /\ "-" \notin Mode
ASSUME LeaseAssumption ==
    /\ LeaseSeconds \in Nat \ {0}
    /\ MaxClock \in Nat

VARIABLES
    pointer,      \* DBPM_CURRENT_OP_<application>: an operation id or NoOp
    pointerLock,  \* the process whose begin holds the pointer row FOR UPDATE
    row,          \* the DBPM_OP_<id>_* rows of every operation id
    begun,        \* operation ids already used (a UUID is never used twice)
    issued,       \* lease tokens already used
    clock,        \* SYSTIMESTAMP
    target,       \* per process: the operation it got from begin or current
    lease         \* per process: the OperationLease object it holds

recordVars == <<pointer, pointerLock, row, begun, issued>>
clientVars == <<target, lease>>
leaseVars  == <<recordVars, clock, clientVars>>

-----------------------------------------------------------------------------
(* Types *)

OperationState ==
    {"RESOLVED", "RUNTIME_STAGED", "DATABASE_COMPLETE", "RUNTIME_UNREACHABLE",
     "RUNTIME_ACTIVE", "VALIDATED", "FAILED"}

\* An id without rows reads as this record; ABSENT is no state of the code.
NoRow == [mode |-> "-", state |-> "ABSENT", attempt |-> 0,
          token |-> NoToken, expiry |-> 0, writer |-> 0]

OperationRecord ==
    [mode: Mode \cup {"-"}, state: OperationState \cup {"ABSENT"},
     attempt: Nat, token: Token \cup {NoToken}, expiry: Nat,
     writer: Nat]        \* attempt number of the newest EV_* row, 0 if none

NoLease == [op |-> NoOp, token |-> NoToken, attempt |-> 0]

Lease == [op: OpId \cup {NoOp}, token: Token \cup {NoToken}, attempt: Nat]

TypeOK ==
    /\ pointer \in OpId \cup {NoOp}
    /\ pointerLock \in Proc \cup {NoProc}
    /\ row \in [OpId -> OperationRecord]
    /\ begun \subseteq OpId
    /\ issued \subseteq Token
    /\ clock \in Nat
    /\ target \in [Proc -> OpId \cup {NoOp}]
    /\ lease \in [Proc -> Lease]

Exists(id) == id \in OpId /\ row[id].state # "ABSENT"

\* Mutant of Leased: a lease lasts until it is released.
LeasedUntilReleased(id) == Exists(id) /\ row[id].token # NoToken

\* The test begin_operation and acquire_operation_lease make before refusing.
Leased(id) ==
    /\ Exists(id)
    /\ row[id].token # NoToken
    /\ row[id].expiry > clock

\* Mutant of Unfenced: any live lease will do.
UnfencedByAnyLease(p) ==
    /\ lease[p].token # NoToken
    /\ Leased(lease[p].op)

\* The test record_operation_step and renew_operation_lease make: my token is
\* in the record and the lease has not expired.
Unfenced(p) ==
    /\ lease[p].token # NoToken
    /\ Exists(lease[p].op)
    /\ row[lease[p].op].token = lease[p].token
    /\ row[lease[p].op].expiry > clock

-----------------------------------------------------------------------------
Init ==
    /\ pointer = NoOp
    /\ pointerLock = NoProc
    /\ row = [id \in OpId |-> NoRow]
    /\ begun = {}
    /\ issued = {}
    /\ clock = 0
    /\ target = [p \in Proc |-> NoOp]
    /\ lease = [p \in Proc |-> NoLease]

\* A process that has neither an operation nor a lease.
Idle(p) == target[p] = NoOp /\ lease[p] = NoLease

\* begin_operation, first half: lock the pointer row and look at the lease of
\* the operation it names.
BeginCheck(p) ==
    /\ Idle(p)
    /\ pointerLock = NoProc
    /\ ~Leased(pointer)
    /\ pointerLock' = p
    /\ UNCHANGED <<pointer, row, begun, issued, clock, clientVars>>

\* begin_operation answers DBPM_OPERATION_BUSY and rolls back.
BeginBusy(p) == pointerLock = NoProc /\ Leased(pointer)

\* Mutant of NewRow: a state no reader of the record knows.
NewRowPending(mode) == [NoRow EXCEPT !.mode = mode, !.state = "PENDING"]

\* begin_operation, second half: delete the rows of the previous operation,
\* insert those of the new one, point at it, commit.
NewRow(mode) == [NoRow EXCEPT !.mode = mode, !.state = "RESOLVED"]

\* Mutant of BeginCommit: the previous operation's rows stay.
BeginCommitKeepsRows(p, id, mode) ==
    /\ pointerLock = p
    /\ id \notin begun
    /\ row' = [row EXCEPT ![id] = NewRow(mode)]
    /\ pointer' = id
    /\ begun' = begun \cup {id}
    /\ pointerLock' = NoProc
    /\ target' = [target EXCEPT ![p] = id]
    /\ UNCHANGED <<issued, clock, lease>>

BeginCommit(p, id, mode) ==
    /\ pointerLock = p
    /\ id \notin begun
    /\ row' = [i \in OpId |-> IF i = id THEN NewRow(mode)
                              ELSE IF i = pointer THEN NoRow
                              ELSE row[i]]
    /\ pointer' = id
    /\ begun' = begun \cup {id}
    /\ pointerLock' = NoProc
    /\ target' = [target EXCEPT ![p] = id]
    /\ UNCHANGED <<issued, clock, lease>>

\* get_current_operation takes no lock; what it returns may be stale at once.
GetCurrent(p) ==
    /\ Idle(p)
    /\ pointerLock # p
    /\ pointer # NoOp
    /\ target' = [target EXCEPT ![p] = pointer]
    /\ UNCHANGED <<recordVars, clock, lease>>

\* Mutant of AcquireFails: the lease of the operation is not looked at.
AcquireFailsIfGone(p) == ~Exists(target[p])

\* acquire_operation_lease; it fails, changing nothing, when the rows are gone
\* (NO_DATA_FOUND) or when another lease is live (DBPM_OPERATION_BUSY).
AcquireFails(p) == ~Exists(target[p]) \/ Leased(target[p])

\* Mutant of Acquire: the attempt is counted for the caller, not in the record.
AcquireUncounted(p, t) ==
    LET id == target[p] IN
    /\ target[p] # NoOp
    /\ lease[p] = NoLease
    /\ ~AcquireFails(p)
    /\ t \notin issued
    /\ issued' = issued \cup {t}
    /\ row' = [row EXCEPT ![id] = [@ EXCEPT !.token = t, !.expiry = clock + LeaseSeconds]]
    /\ lease' = [lease EXCEPT ![p] = [op |-> id, token |-> t,
                                      attempt |-> row[id].attempt + 1]]
    /\ UNCHANGED <<pointer, pointerLock, begun, clock, target>>

Acquire(p, t) ==
    LET id == target[p] IN
    /\ target[p] # NoOp
    /\ lease[p] = NoLease
    /\ ~AcquireFails(p)
    /\ t \notin issued
    /\ issued' = issued \cup {t}
    /\ row' = [row EXCEPT ![id] =
                    [@ EXCEPT !.attempt = row[id].attempt + 1, !.token = t,
                              !.expiry = clock + LeaseSeconds]]
    /\ lease' = [lease EXCEPT ![p] = [op |-> id, token |-> t,
                                      attempt |-> row[id].attempt + 1]]
    /\ UNCHANGED <<pointer, pointerLock, begun, clock, target>>

\* Mutant of Record: the fencing check is missing.
RecordUnchecked(p, s) ==
    /\ Exists(lease[p].op)
    /\ row' = [row EXCEPT ![lease[p].op] =
                    [@ EXCEPT !.state = s, !.writer = lease[p].attempt]]
    /\ UNCHANGED <<pointer, pointerLock, begun, issued, clock, clientVars>>

\* record_operation_step; when the caller is fenced the block raises and
\* nothing changes.  The evidence row carries the attempt number of the lease.
Record(p, s) ==
    /\ Unfenced(p)
    /\ row' = [row EXCEPT ![lease[p].op] =
                    [@ EXCEPT !.state = s, !.writer = lease[p].attempt]]
    /\ UNCHANGED <<pointer, pointerLock, begun, issued, clock, clientVars>>

\* Mutant of Renew: an expired lease can be renewed.
RenewExpired(p) ==
    /\ Exists(lease[p].op)
    /\ row[lease[p].op].token = lease[p].token
    /\ row' = [row EXCEPT ![lease[p].op] =
                    [@ EXCEPT !.expiry = clock + LeaseSeconds]]
    /\ UNCHANGED <<pointer, pointerLock, begun, issued, clock, clientVars>>

\* renew_operation_lease
Renew(p) ==
    /\ Unfenced(p)
    /\ row' = [row EXCEPT ![lease[p].op] =
                    [@ EXCEPT !.expiry = clock + LeaseSeconds]]
    /\ UNCHANGED <<pointer, pointerLock, begun, issued, clock, clientVars>>

\* release_operation_lease asks for the token only: an expired lease that
\* nobody has taken over can still be released.
MayRelease(p) ==
    /\ lease[p].token # NoToken
    /\ Exists(lease[p].op)
    /\ row[lease[p].op].token = lease[p].token

Release(p) ==
    /\ MayRelease(p)
    /\ row' = [row EXCEPT ![lease[p].op] =
                    [@ EXCEPT !.token = NoToken, !.expiry = 0]]
    /\ lease' = [lease EXCEPT ![p] = NoLease]
    /\ target' = [target EXCEPT ![p] = NoOp]
    /\ UNCHANGED <<pointer, pointerLock, begun, issued, clock>>

\* The process ends without releasing: it was killed, an error left the code
\* before its try block, or its release was refused.  An open transaction of
\* its begin is rolled back.
Vanish(p) ==
    /\ lease' = [lease EXCEPT ![p] = NoLease]
    /\ target' = [target EXCEPT ![p] = NoOp]
    /\ pointerLock' = IF pointerLock = p THEN NoProc ELSE pointerLock
    /\ UNCHANGED <<pointer, row, begun, issued, clock>>

Tick ==
    /\ clock < MaxClock
    /\ clock' = clock + 1
    /\ UNCHANGED <<recordVars, clientVars>>

Next ==
    \/ \E p \in Proc :
        \/ BeginCheck(p)
        \/ \E id \in OpId, m \in Mode : BeginCommit(p, id, m)
        \/ GetCurrent(p)
        \/ \E t \in Token : Acquire(p, t)
        \/ \E s \in OperationState : Record(p, s)
        \/ Renew(p)
        \/ Release(p)
        \/ Vanish(p)
    \/ Tick

Spec == Init /\ [][Next]_leaseVars

-----------------------------------------------------------------------------
(* Properties *)

\* begin_operation deletes what it supersedes: the only operation with rows in
\* the dictionary is the one the pointer names, and the pointer never dangles.
OnlyCurrentOperationKept ==
    \A id \in OpId : Exists(id) <=> id = pointer

\* Fencing: however leases expire, are taken over or are released, no two
\* processes can both record or renew.
AtMostOneWriter ==
    \A p, q \in Proc : Unfenced(p) /\ Unfenced(q) => p = q

\* Fencing, seen from the attempts: a process that can still record holds the
\* newest attempt of the application's current operation.
NewestAttemptWrites ==
    \A p \in Proc :
        Unfenced(p) => /\ lease[p].op = pointer
                       /\ lease[p].attempt = row[pointer].attempt

\* The inductive invariant behind the three: ids and tokens in use are used
\* up, no two leases share a token, and a record that carries a process's token
\* is the operation, at the attempt, that process acquired.
UsedUp ==
    /\ pointer \in begun \cup {NoOp}
    /\ \A id \in OpId : row[id].token \in issued \cup {NoToken}
    /\ \A p \in Proc : /\ lease[p].token \in issued \cup {NoToken}
                       /\ lease[p].op \in begun \cup {NoOp}

OwnTokens ==
    \A p, q \in Proc :
        lease[p].token # NoToken /\ lease[q].token = lease[p].token => p = q

TokenNamesAttempt ==
    \A p \in Proc, id \in OpId :
        /\ lease[p].token # NoToken
        /\ row[id].token = lease[p].token
        => lease[p].op = id /\ lease[p].attempt = row[id].attempt

AttemptsCount == \A p \in Proc : lease[p].token # NoToken => lease[p].attempt > 0

LeaseInv == /\ TypeOK
            /\ OnlyCurrentOperationKept
            /\ UsedUp
            /\ OwnTokens
            /\ TokenNamesAttempt
            /\ AttemptsCount

\* A released or expired lease never comes back to life: once a process that
\* holds a lease is fenced it stays fenced until it gives the lease up.
FencedForGood ==
    [][\A p \in Proc :
          lease[p].token # NoToken /\ ~Unfenced(p) /\ lease'[p] = lease[p]
              => ~Unfenced(p)']_leaseVars

\* The record implements the ledger: the current operation is the one named
\* by the pointer, and everything else is read from its rows.
CurrentRow == IF pointer = NoOp THEN NoRow ELSE row[pointer]

Ledger == INSTANCE OperationLedger WITH
              State   <- OperationState,
              current <- pointer,
              attempt <- CurrentRow.attempt,
              state   <- CurrentRow.state,
              writer  <- CurrentRow.writer

LedgerSpec == Ledger!Spec
===============================================================================
