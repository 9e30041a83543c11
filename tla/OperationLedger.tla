--------------------------- MODULE OperationLedger ---------------------------
(***************************************************************************)
(* What the durable operation record of one application promises to the    *)
(* rest of dbpm, without saying how a lease keeps the promise: there is at *)
(* most one current operation; its attempts are numbered upwards; and      *)
(* whatever is written to it is written in the name of its newest attempt. *)
(***************************************************************************)
EXTENDS Naturals

CONSTANTS
    OpId,   \* operation identifiers (UUIDs in the code)
    NoOp,   \* "there is no operation yet"
    State   \* the values of the record's STATE row

VARIABLES
    current,  \* the application's current operation
    attempt,  \* how many attempts it has had
    state,    \* its recorded phase
    writer    \* the attempt the newest evidence entry is attributed to

ledger == <<current, attempt, state, writer>>

Init ==
    /\ current = NoOp
    /\ attempt = 0
    /\ state = "ABSENT"
    /\ writer = 0

\* A new operation replaces the current one and starts with nothing done.
Open(id) ==
    /\ id # current
    /\ current' = id
    /\ attempt' = 0
    /\ state' = "RESOLVED"
    /\ writer' = 0

\* An install, upgrade, reinstall, resume or reconcile starts working on it.
NewAttempt ==
    /\ current # NoOp
    /\ attempt' = attempt + 1
    /\ UNCHANGED <<current, state, writer>>

\* The newest attempt records a step; an older one never can.
Write(s) ==
    /\ attempt > 0
    /\ state' = s
    /\ writer' = attempt
    /\ UNCHANGED <<current, attempt>>

Next ==
    \/ \E id \in OpId : Open(id)
    \/ NewAttempt
    \/ \E s \in State : Write(s)

Spec == Init /\ [][Next]_ledger
==============================================================================
