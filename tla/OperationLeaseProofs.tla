------------------------- MODULE OperationLeaseProofs -------------------------
(***************************************************************************)
(* The lease protocol of OperationLease is safe for any number of          *)
(* processes, operations and tokens, and any lease duration.               *)
(***************************************************************************)
EXTENDS OperationLease, TLAPS

USE NamesAssumption, LeaseAssumption

\* Replacing the rows of one operation by an operation record keeps the
\* dictionary well-typed.
LEMMA RowUpdate ==
    ASSUME row \in [OpId -> OperationRecord], NEW id, NEW r,
           id \in OpId => r \in OperationRecord
    PROVE  [row EXCEPT ![id] = r] \in [OpId -> OperationRecord]
OBVIOUS

\* Every step keeps the variables in their types.
LEMMA TypeStep == TypeOK /\ [Next]_leaseVars => TypeOK'
<1> SUFFICES ASSUME TypeOK, [Next]_leaseVars PROVE TypeOK'
  OBVIOUS
<1> USE DEF TypeOK
<1>1. ASSUME NEW p \in Proc, BeginCheck(p) PROVE TypeOK'
  BY <1>1 DEF BeginCheck, clientVars
<1>2. ASSUME NEW p \in Proc, NEW id \in OpId, NEW m \in Mode, BeginCommit(p, id, m)
      PROVE TypeOK'
  <2>1. NewRow(m) \in OperationRecord /\ NoRow \in OperationRecord
    BY DEF NewRow, NoRow, OperationRecord, OperationState
  <2> QED BY <1>2, <2>1 DEF BeginCommit
<1>3. ASSUME NEW p \in Proc, GetCurrent(p) PROVE TypeOK'
  BY <1>3 DEF GetCurrent, recordVars
<1>4. ASSUME NEW p \in Proc, NEW t \in Token, Acquire(p, t) PROVE TypeOK'
  <2> DEFINE id == target[p]
             r  == [row[id] EXCEPT !.attempt = row[id].attempt + 1, !.token = t,
                                   !.expiry = clock + LeaseSeconds]
  <2>1. id \in OpId
    BY <1>4 DEF Acquire
  <2>2. /\ row[id] \in OperationRecord
        /\ row[id].attempt + 1 \in Nat
        /\ r \in OperationRecord
    <3>1. row[id] \in OperationRecord
      BY <2>1
    <3>2. clock + LeaseSeconds \in Nat /\ row[id].attempt + 1 \in Nat
      BY <3>1 DEF OperationRecord
    <3>3. t \in Token \cup {NoToken}
      OBVIOUS
    <3> HIDE DEF id
    <3>4. \A n \in Nat, e \in Nat :
             [row[id] EXCEPT !.attempt = n, !.token = t, !.expiry = e] \in OperationRecord
      BY <3>1, <3>3 DEF OperationRecord
    <3> QED BY <3>1, <3>2, <3>4
  <2>3. row' = [row EXCEPT ![id] = r]
    BY <1>4 DEF Acquire
  <2>4. row' \in [OpId -> OperationRecord]
    BY <2>2, <2>3, RowUpdate
  <2>5. lease' = [lease EXCEPT ![p] = [op |-> id, token |-> t,
                                       attempt |-> row[id].attempt + 1]]
    BY <1>4 DEF Acquire
  <2>6. [op |-> id, token |-> t, attempt |-> row[id].attempt + 1] \in Lease
    BY <2>1, <2>2 DEF Lease
  <2>7. lease' \in [Proc -> Lease]
    BY <2>5, <2>6
  <2>8. issued' \subseteq Token
    BY <1>4 DEF Acquire
  <2> QED BY <1>4, <2>4, <2>7, <2>8 DEF Acquire
<1>5. ASSUME NEW p \in Proc, NEW s \in OperationState, Record(p, s) PROVE TypeOK'
  <2> DEFINE id == lease[p].op
             r  == [row[id] EXCEPT !.state = s, !.writer = lease[p].attempt]
  <2>1. lease[p] \in Lease /\ lease[p].attempt \in Nat
    BY DEF Lease
  <2>2. ASSUME id \in OpId PROVE r \in OperationRecord
    <3>1. row[id] \in OperationRecord
      BY <2>2
    <3> QED BY <2>1, <3>1 DEF OperationRecord
  <2>3. row' = [row EXCEPT ![id] = r]
    BY <1>5 DEF Record
  <2>4. row' \in [OpId -> OperationRecord]
    BY <2>2, <2>3, RowUpdate
  <2> QED BY <1>5, <2>4 DEF Record, clientVars
<1>6. ASSUME NEW p \in Proc, Renew(p) PROVE TypeOK'
  <2> DEFINE id == lease[p].op
             r  == [row[id] EXCEPT !.expiry = clock + LeaseSeconds]
  <2>1. ASSUME id \in OpId PROVE r \in OperationRecord
    <3>1. row[id] \in OperationRecord /\ clock + LeaseSeconds \in Nat
      BY <2>1
    <3> QED BY <3>1 DEF OperationRecord
  <2>2. row' = [row EXCEPT ![id] = r]
    BY <1>6 DEF Renew
  <2>3. row' \in [OpId -> OperationRecord]
    BY <2>1, <2>2, RowUpdate
  <2> QED BY <1>6, <2>3 DEF Renew, clientVars
<1>7. ASSUME NEW p \in Proc, Release(p) PROVE TypeOK'
  <2> DEFINE id == lease[p].op
             r  == [row[id] EXCEPT !.token = NoToken, !.expiry = 0]
  <2>1. ASSUME id \in OpId PROVE r \in OperationRecord
    <3>1. row[id] \in OperationRecord
      BY <2>1
    <3> QED BY <3>1 DEF OperationRecord
  <2>2. row' = [row EXCEPT ![id] = r]
    BY <1>7 DEF Release
  <2>3. row' \in [OpId -> OperationRecord]
    BY <2>1, <2>2, RowUpdate
  <2>4. lease' \in [Proc -> Lease]
    BY <1>7 DEF Release, Lease, NoLease
  <2> QED BY <1>7, <2>3, <2>4 DEF Release
<1>8. ASSUME NEW p \in Proc, Vanish(p) PROVE TypeOK'
  BY <1>8 DEF Vanish, NoLease, Lease
<1>9. CASE Tick
  BY <1>9 DEF Tick, recordVars, clientVars
<1>10. CASE UNCHANGED leaseVars
  BY <1>10 DEF leaseVars, recordVars, clientVars
<1> QED
  BY <1>1, <1>2, <1>3, <1>4, <1>5, <1>6, <1>7, <1>8, <1>9, <1>10 DEF Next

\* TypeOK holds throughout, for every set of processes, ids and tokens.
THEOREM TypeCorrect == Spec => []TypeOK
<1>1. Init => TypeOK
  BY DEF Init, TypeOK, NoRow, NoLease, OperationRecord, Lease
<1> QED
  BY <1>1, TypeStep, PTL DEF Spec

-----------------------------------------------------------------------------
\* The lease invariant is inductive.
LEMMA LeaseInvStep == LeaseInv /\ [Next]_leaseVars => LeaseInv'
<1> SUFFICES ASSUME LeaseInv, [Next]_leaseVars PROVE LeaseInv'
  OBVIOUS
<1>0. TypeOK /\ TypeOK'
  BY TypeStep DEF LeaseInv
<1> USE DEF LeaseInv
<1>1. ASSUME NEW p \in Proc, BeginCheck(p) PROVE LeaseInv'
  BY <1>0, <1>1 DEF BeginCheck, clientVars, OnlyCurrentOperationKept, Exists, UsedUp,
     OwnTokens, TokenNamesAttempt, AttemptsCount
<1>2. ASSUME NEW p \in Proc, NEW id \in OpId, NEW m \in Mode, BeginCommit(p, id, m)
      PROVE LeaseInv'
  <2>1. /\ NewRow(m).token = NoToken /\ NewRow(m).state # "ABSENT"
        /\ NoRow.token = NoToken /\ NoRow.state = "ABSENT"
    BY DEF NewRow, NoRow
  <2>2. /\ \A i \in OpId : row'[i] = IF i = id THEN NewRow(m)
                                     ELSE IF i = pointer THEN NoRow ELSE row[i]
        /\ pointer' = id /\ lease' = lease /\ begun' = begun \cup {id} /\ issued' = issued
    BY <1>2 DEF BeginCommit
  <2>3. OnlyCurrentOperationKept'
    BY <2>1, <2>2 DEF OnlyCurrentOperationKept, Exists
  <2>4. UsedUp'
    BY <2>1, <2>2 DEF UsedUp
  <2>5. OwnTokens' /\ TokenNamesAttempt' /\ AttemptsCount'
    BY <2>1, <2>2 DEF OwnTokens, TokenNamesAttempt, AttemptsCount
  <2> QED BY <1>0, <2>3, <2>4, <2>5
<1>3. ASSUME NEW p \in Proc, GetCurrent(p) PROVE LeaseInv'
  BY <1>0, <1>3 DEF GetCurrent, recordVars, OnlyCurrentOperationKept, Exists, UsedUp,
     OwnTokens, TokenNamesAttempt, AttemptsCount
<1>4. ASSUME NEW p \in Proc, NEW t \in Token, Acquire(p, t) PROVE LeaseInv'
  <2> DEFINE id == target[p]
  <2>1. /\ id \in OpId /\ Exists(id) /\ id = pointer
        /\ t \notin issued /\ t # NoToken
    BY <1>0, <1>4 DEF Acquire, AcquireFails, OnlyCurrentOperationKept, TypeOK, Exists
  <2>2. /\ row'[id].state = row[id].state
        /\ row'[id].token = t
        /\ row'[id].attempt = row[id].attempt + 1
        /\ \A i \in OpId : i # id => row'[i] = row[i]
    BY <1>0, <1>4, <2>1 DEF Acquire, TypeOK, OperationRecord
  <2>3. /\ lease'[p].op = id /\ lease'[p].token = t
        /\ lease'[p].attempt = row[id].attempt + 1
        /\ \A q \in Proc : q # p => lease'[q] = lease[q]
        /\ pointer' = pointer /\ begun' = begun /\ issued' = issued \cup {t}
    BY <1>0, <1>4 DEF Acquire, TypeOK
  <2> HIDE DEF id
  <2>4. OnlyCurrentOperationKept'
    BY <2>1, <2>2, <2>3 DEF OnlyCurrentOperationKept, Exists
  <2>5. UsedUp'
    BY <2>1, <2>2, <2>3 DEF UsedUp
  <2>6. OwnTokens'
    BY <2>1, <2>3 DEF OwnTokens, UsedUp
  <2>7. TokenNamesAttempt'
    BY <2>1, <2>2, <2>3 DEF TokenNamesAttempt, UsedUp
  <2>8. AttemptsCount'
    BY <1>0, <2>1, <2>3 DEF AttemptsCount, TypeOK, OperationRecord
  <2> QED BY <1>0, <2>4, <2>5, <2>6, <2>7, <2>8
<1>5. ASSUME NEW p \in Proc, NEW id, id = lease[p].op, Exists(id),
             row' = [row EXCEPT ![id] = row'[id]],
             row'[id].state # "ABSENT", row'[id].attempt = row[id].attempt,
             row'[id].token \in {row[id].token, NoToken},
             UNCHANGED <<pointer, begun, issued>>,
             \A q \in Proc : lease'[q] \in {lease[q], NoLease}
      PROVE  LeaseInv'
  <2>1. /\ id \in OpId
        /\ \A i \in OpId : i # id => row'[i] = row[i]
    BY <1>0, <1>5 DEF Exists, TypeOK
  <2>2. NoLease.token = NoToken /\ NoLease.op = NoOp
    BY DEF NoLease
  <2>3. OnlyCurrentOperationKept'
    BY <1>5, <2>1 DEF OnlyCurrentOperationKept, Exists
  <2>4. UsedUp'
    BY <1>5, <2>1, <2>2 DEF UsedUp
  <2>5. OwnTokens'
    BY <1>5, <2>1, <2>2 DEF OwnTokens
  <2>6. TokenNamesAttempt'
    BY <1>5, <2>1, <2>2 DEF TokenNamesAttempt
  <2>7. AttemptsCount'
    BY <1>5, <2>2 DEF AttemptsCount
  <2> QED BY <1>0, <2>3, <2>4, <2>5, <2>6, <2>7
<1>6. ASSUME NEW p \in Proc, NEW s \in OperationState, Record(p, s) PROVE LeaseInv'
  <2> DEFINE id == lease[p].op
  <2>1. Exists(id) /\ id \in OpId
    BY <1>6 DEF Record, Unfenced, Exists
  <2>2. /\ row' = [row EXCEPT ![id] = row'[id]]
        /\ row'[id] = [row[id] EXCEPT !.state = s, !.writer = lease[p].attempt]
    BY <1>0, <1>6, <2>1 DEF Record, TypeOK
  <2>3. /\ row'[id].state = s /\ row'[id].attempt = row[id].attempt
        /\ row'[id].token = row[id].token
    BY <1>0, <2>1, <2>2 DEF TypeOK, OperationRecord
  <2>4. s # "ABSENT"
    BY DEF OperationState
  <2> QED BY <1>5, <1>6, <2>1, <2>2, <2>3, <2>4 DEF Record, clientVars
<1>7. ASSUME NEW p \in Proc, Renew(p) PROVE LeaseInv'
  <2> DEFINE id == lease[p].op
  <2>1. Exists(id) /\ id \in OpId
    BY <1>7 DEF Renew, Unfenced, Exists
  <2>2. /\ row' = [row EXCEPT ![id] = row'[id]]
        /\ row'[id] = [row[id] EXCEPT !.expiry = clock + LeaseSeconds]
    BY <1>0, <1>7, <2>1 DEF Renew, TypeOK
  <2>3. /\ row'[id].state = row[id].state /\ row'[id].attempt = row[id].attempt
        /\ row'[id].token = row[id].token /\ row[id].state # "ABSENT"
    BY <1>0, <2>1, <2>2 DEF TypeOK, OperationRecord, Exists
  <2> QED BY <1>5, <1>7, <2>1, <2>2, <2>3 DEF Renew, clientVars
<1>8. ASSUME NEW p \in Proc, Release(p) PROVE LeaseInv'
  <2> DEFINE id == lease[p].op
  <2>1. Exists(id) /\ id \in OpId
    BY <1>8 DEF Release, MayRelease, Exists
  <2>2. /\ row' = [row EXCEPT ![id] = row'[id]]
        /\ row'[id] = [row[id] EXCEPT !.token = NoToken, !.expiry = 0]
        /\ \A q \in Proc : lease'[q] \in {lease[q], NoLease}
    BY <1>0, <1>8, <2>1 DEF Release, TypeOK
  <2>3. /\ row'[id].state = row[id].state /\ row'[id].attempt = row[id].attempt
        /\ row'[id].token = NoToken /\ row[id].state # "ABSENT"
    BY <1>0, <2>1, <2>2 DEF TypeOK, OperationRecord, Exists
  <2> QED BY <1>5, <1>8, <2>1, <2>2, <2>3 DEF Release
<1>9. ASSUME NEW p \in Proc, Vanish(p) PROVE LeaseInv'
  <2>1. /\ \A q \in Proc : lease'[q] \in {lease[q], NoLease}
        /\ UNCHANGED <<pointer, row, begun, issued>>
    BY <1>0, <1>9 DEF Vanish, TypeOK
  <2>2. NoLease.token = NoToken /\ NoLease.op = NoOp
    BY DEF NoLease
  <2>3. /\ OnlyCurrentOperationKept' /\ UsedUp' /\ OwnTokens'
        /\ TokenNamesAttempt' /\ AttemptsCount'
    BY <2>1, <2>2 DEF OnlyCurrentOperationKept, Exists, UsedUp, OwnTokens, TokenNamesAttempt, AttemptsCount
  <2> QED BY <1>0, <2>3
<1>10. CASE Tick
  BY <1>0, <1>10 DEF Tick, recordVars, clientVars, OnlyCurrentOperationKept, Exists,
     UsedUp, OwnTokens, TokenNamesAttempt, AttemptsCount
<1>11. CASE UNCHANGED leaseVars
  BY <1>0, <1>11 DEF leaseVars, recordVars, clientVars, OnlyCurrentOperationKept, Exists,
     UsedUp, OwnTokens, TokenNamesAttempt, AttemptsCount
<1> QED
  BY <1>1, <1>2, <1>3, <1>4, <1>6, <1>7, <1>8, <1>9, <1>10, <1>11 DEF Next

\* The lease invariant holds throughout.
THEOREM LeaseInvariant == Spec => []LeaseInv
<1>1. Init => LeaseInv
  BY DEF Init, LeaseInv, TypeOK, NoRow, NoLease, OperationRecord, Lease,
     OnlyCurrentOperationKept, Exists, UsedUp, OwnTokens, TokenNamesAttempt, AttemptsCount
<1> QED
  BY <1>1, LeaseInvStep, PTL DEF Spec

\* begin_operation leaves exactly the pointed-to operation in the dictionary.
THEOREM CurrentOperationOnly == Spec => []OnlyCurrentOperationKept
<1>1. LeaseInv => OnlyCurrentOperationKept
  BY DEF LeaseInv
<1> QED
  BY <1>1, LeaseInvariant, PTL

\* An unfenced process holds the token in the current operation's record.
LEMMA UnfencedIsCurrent ==
    ASSUME LeaseInv, NEW p \in Proc, Unfenced(p)
    PROVE  /\ lease[p].op = pointer
           /\ lease[p].token # NoToken
           /\ lease[p].token = row[pointer].token
           /\ lease[p].attempt = row[pointer].attempt
BY DEF LeaseInv, Unfenced, OnlyCurrentOperationKept, Exists, TokenNamesAttempt

\* Fencing: at most one process can record or renew, whatever expires.
THEOREM Fencing == Spec => []AtMostOneWriter
<1>1. LeaseInv => AtMostOneWriter
  BY UnfencedIsCurrent DEF AtMostOneWriter, LeaseInv, OwnTokens
<1> QED
  BY <1>1, LeaseInvariant, PTL

\* Only the newest attempt of the current operation can record.
THEOREM NewestAttempt == Spec => []NewestAttemptWrites
<1>1. LeaseInv => NewestAttemptWrites
  BY UnfencedIsCurrent DEF NewestAttemptWrites
<1> QED
  BY <1>1, LeaseInvariant, PTL

-----------------------------------------------------------------------------
\* A fenced process stays fenced for as long as it clings to its lease.
THEOREM FencedStays == Spec => FencedForGood
<1> DEFINE Stays == \A p \in Proc :
              lease[p].token # NoToken /\ ~Unfenced(p) /\ lease'[p] = lease[p]
                  => ~Unfenced(p)'
<1>1. LeaseInv /\ [Next]_leaseVars => [Stays]_leaseVars
  <2> SUFFICES ASSUME LeaseInv, [Next]_leaseVars, NEW p \in Proc,
                      lease[p].token # NoToken, ~Unfenced(p), lease'[p] = lease[p]
               PROVE  ~Unfenced(p)'
    OBVIOUS
  <2> DEFINE id == lease[p].op
             t  == lease[p].token
  <2>0. TypeOK /\ TypeOK' /\ t \in issued /\ id \in begun \cup {NoOp}
    BY TypeStep DEF LeaseInv, UsedUp
  <2>1. ASSUME UNCHANGED row, clock' >= clock PROVE ~Unfenced(p)'
    BY <2>0, <2>1 DEF Unfenced, Exists, TypeOK, OperationRecord
  <2>2. ASSUME NEW q \in Proc, NEW i \in OpId, NEW m \in Mode, BeginCommit(q, i, m)
        PROVE  ~Unfenced(p)'
    <3>1. NoRow.state = "ABSENT" /\ i # id
      BY <2>0, <2>2 DEF BeginCommit, NoRow, TypeOK
    <3>2. id \in OpId => row'[id] \in {row[id], NoRow}
      BY <2>2, <3>1 DEF BeginCommit
    <3> QED BY <2>2, <3>1, <3>2 DEF BeginCommit, Unfenced, Exists
  <2>3. ASSUME NEW q \in Proc, NEW u \in Token, Acquire(q, u) PROVE ~Unfenced(p)'
    <3>1. u # t
      BY <2>0, <2>3 DEF Acquire
    <3>2. id \in OpId => row'[id] = row[id] \/ row'[id].token = u
      BY <2>0, <2>3 DEF Acquire, TypeOK, OperationRecord
    <3> QED BY <2>3, <3>1, <3>2 DEF Acquire, Unfenced, Exists
  <2>4. ASSUME NEW q \in Proc, q # p, MayRelease(q), clock' = clock,
               row' = [row EXCEPT ![lease[q].op] = row'[lease[q].op]],
               row'[lease[q].op].token \in {row[lease[q].op].token, NoToken}
        PROVE  ~Unfenced(p)'
    <3> DEFINE i == lease[q].op
    <3>1. /\ i \in OpId /\ row[i].token # t
          /\ \A j \in OpId : j # i => row'[j] = row[j]
      BY <2>0, <2>4 DEF MayRelease, Exists, LeaseInv, OwnTokens, TypeOK
    <3>2. CASE id = i
      BY <2>4, <3>1, <3>2 DEF Unfenced
    <3>3. CASE id # i
      BY <2>4, <3>1, <3>3 DEF Unfenced, Exists
    <3> QED BY <3>2, <3>3
  <2>5. ASSUME NEW q \in Proc, Unfenced(q)
        PROVE  q # p /\ MayRelease(q) /\ lease[q].op \in OpId
    BY <2>5 DEF Unfenced, MayRelease, Exists
  <2>6. ASSUME NEW q \in Proc, NEW s \in OperationState, Record(q, s) PROVE ~Unfenced(p)'
    <3>1. Unfenced(q) /\ clock' = clock
      BY <2>6 DEF Record
    <3>2. lease[q].op \in OpId
      BY <2>5, <3>1
    <3>3. /\ row' = [row EXCEPT ![lease[q].op] = row'[lease[q].op]]
          /\ row'[lease[q].op] = [row[lease[q].op] EXCEPT !.state = s, !.writer = lease[q].attempt]
      BY <2>0, <2>6, <3>2 DEF Record, TypeOK
    <3>4. row'[lease[q].op].token = row[lease[q].op].token
      BY <2>0, <3>2, <3>3 DEF TypeOK, OperationRecord
    <3> QED BY <2>4, <2>5, <3>1, <3>3, <3>4
  <2>7. ASSUME NEW q \in Proc, Renew(q) PROVE ~Unfenced(p)'
    <3>1. Unfenced(q) /\ clock' = clock
      BY <2>7 DEF Renew
    <3>2. lease[q].op \in OpId
      BY <2>5, <3>1
    <3>3. /\ row' = [row EXCEPT ![lease[q].op] = row'[lease[q].op]]
          /\ row'[lease[q].op] = [row[lease[q].op] EXCEPT !.expiry = clock + LeaseSeconds]
      BY <2>0, <2>7, <3>2 DEF Renew, TypeOK
    <3>4. row'[lease[q].op].token = row[lease[q].op].token
      BY <2>0, <3>2, <3>3 DEF TypeOK, OperationRecord
    <3> QED BY <2>4, <2>5, <3>1, <3>3, <3>4
  <2>8. ASSUME NEW q \in Proc, Release(q) PROVE ~Unfenced(p)'
    <3>1. MayRelease(q) /\ clock' = clock /\ lease[q].op \in OpId
      BY <2>8 DEF Release, MayRelease, Exists
    <3>2. q # p
      BY <2>0, <2>8 DEF Release, NoLease, TypeOK
    <3>3. /\ row' = [row EXCEPT ![lease[q].op] = row'[lease[q].op]]
          /\ row'[lease[q].op] = [row[lease[q].op] EXCEPT !.token = NoToken, !.expiry = 0]
      BY <2>0, <2>8, <3>1 DEF Release, TypeOK
    <3>4. row'[lease[q].op].token = NoToken
      BY <2>0, <3>1, <3>3 DEF TypeOK, OperationRecord
    <3> QED BY <2>4, <3>1, <3>2, <3>3, <3>4
  <2>9. ASSUME NEW q \in Proc, BeginCheck(q) \/ GetCurrent(q) \/ Vanish(q)
        PROVE  UNCHANGED row /\ clock' >= clock
    BY <2>0, <2>9 DEF BeginCheck, GetCurrent, Vanish, recordVars, TypeOK
  <2>10. CASE Tick \/ UNCHANGED leaseVars
    BY <2>0, <2>1, <2>10 DEF Tick, leaseVars, recordVars, TypeOK
  <2> QED
    BY <2>1, <2>2, <2>3, <2>6, <2>7, <2>8, <2>9, <2>10 DEF Next
<1> QED
  BY <1>1, LeaseInvariant, PTL DEF Spec, FencedForGood

-----------------------------------------------------------------------------
\* The lease protocol implements the ledger: one current operation, attempts
\* numbered upwards, every write in the name of the newest attempt.
THEOREM ImplementsLedger == Spec => LedgerSpec
<1>1. Init => Ledger!Init
  BY DEF Init, Ledger!Init, CurrentRow, NoRow
<1>2. LeaseInv /\ [Next]_leaseVars => [Ledger!Next]_(Ledger!ledger)
  <2> SUFFICES ASSUME LeaseInv, [Next]_leaseVars PROVE [Ledger!Next]_(Ledger!ledger)
    OBVIOUS
  <2>0. TypeOK /\ TypeOK'
    BY TypeStep DEF LeaseInv
  <2>1. ASSUME UNCHANGED pointer,
               pointer # NoOp => /\ row'[pointer].attempt = row[pointer].attempt
                                 /\ row'[pointer].state = row[pointer].state
                                 /\ row'[pointer].writer = row[pointer].writer
        PROVE  UNCHANGED Ledger!ledger
    BY <2>1 DEF Ledger!ledger, CurrentRow
  <2>2. ASSUME NEW p \in Proc, NEW id \in OpId, NEW m \in Mode, BeginCommit(p, id, m)
        PROVE  Ledger!Next
    <3>1. id # pointer /\ id # NoOp
      BY <2>0, <2>2 DEF BeginCommit, LeaseInv, UsedUp
    <3>2. pointer' = id /\ row'[id] = NewRow(m)
      BY <2>2 DEF BeginCommit
    <3>3. Ledger!Open(id)
      BY <3>1, <3>2 DEF Ledger!Open, CurrentRow, NewRow, NoRow
    <3> QED BY <3>3 DEF Ledger!Next
  <2>3. ASSUME NEW p \in Proc, NEW t \in Token, Acquire(p, t) PROVE Ledger!Next
    <3>1. target[p] = pointer /\ pointer \in OpId /\ pointer # NoOp
      BY <2>0, <2>3 DEF Acquire, AcquireFails, Exists, LeaseInv, OnlyCurrentOperationKept
    <3>2. /\ pointer' = pointer
          /\ row'[pointer].attempt = row[pointer].attempt + 1
          /\ row'[pointer].state = row[pointer].state
          /\ row'[pointer].writer = row[pointer].writer
      BY <2>0, <2>3, <3>1 DEF Acquire, TypeOK, OperationRecord
    <3> QED BY <3>1, <3>2 DEF Ledger!Next, Ledger!NewAttempt, CurrentRow
  <2>4. ASSUME NEW p \in Proc, NEW s \in OperationState, Record(p, s) PROVE Ledger!Next
    <3>1. /\ lease[p].op = pointer /\ pointer \in OpId /\ pointer # NoOp
          /\ lease[p].attempt = row[pointer].attempt
      BY <2>4, UnfencedIsCurrent DEF Record, Unfenced, Exists
    <3>2. /\ pointer' = pointer
          /\ row'[pointer].attempt = row[pointer].attempt
          /\ row'[pointer].state = s
          /\ row'[pointer].writer = row[pointer].attempt
      BY <2>0, <2>4, <3>1 DEF Record, TypeOK, OperationRecord
    <3>3. row[pointer].attempt > 0
      BY <2>0, <2>4, <3>1 DEF Record, Unfenced, LeaseInv, AttemptsCount, TypeOK, OperationRecord
    <3> QED BY <3>1, <3>2, <3>3 DEF Ledger!Next, Ledger!Write, CurrentRow
  <2>5. ASSUME NEW p \in Proc, Renew(p) PROVE UNCHANGED Ledger!ledger
    <3>1. lease[p].op = pointer /\ pointer \in OpId /\ pointer # NoOp
      BY <2>5, UnfencedIsCurrent DEF Renew, Unfenced, Exists
    <3>2. /\ UNCHANGED pointer
          /\ row'[pointer].attempt = row[pointer].attempt
          /\ row'[pointer].state = row[pointer].state
          /\ row'[pointer].writer = row[pointer].writer
      BY <2>0, <2>5, <3>1 DEF Renew, TypeOK, OperationRecord
    <3> QED BY <2>1, <3>2
  <2>6. ASSUME NEW p \in Proc, Release(p) PROVE UNCHANGED Ledger!ledger
    <3>1. lease[p].op = pointer /\ pointer \in OpId
      BY <2>6 DEF Release, MayRelease, Exists, LeaseInv, OnlyCurrentOperationKept
    <3>2. /\ UNCHANGED pointer
          /\ row'[pointer].attempt = row[pointer].attempt
          /\ row'[pointer].state = row[pointer].state
          /\ row'[pointer].writer = row[pointer].writer
      BY <2>0, <2>6, <3>1 DEF Release, TypeOK, OperationRecord
    <3> QED BY <2>1, <3>2
  <2>7. ASSUME NEW p \in Proc, BeginCheck(p) \/ GetCurrent(p) \/ Vanish(p)
        PROVE  UNCHANGED Ledger!ledger
    BY <2>1, <2>7 DEF BeginCheck, GetCurrent, Vanish, recordVars
  <2>8. CASE Tick \/ UNCHANGED leaseVars
    BY <2>1, <2>8 DEF Tick, leaseVars, recordVars
  <2> QED
    BY <2>2, <2>3, <2>4, <2>5, <2>6, <2>7, <2>8 DEF Next
<1> QED
  BY <1>1, <1>2, LeaseInvariant, PTL DEF Spec, LedgerSpec, Ledger!Spec
===============================================================================
