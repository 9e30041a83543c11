------------------------ MODULE ScriptGenerationProofs ------------------------
(***************************************************************************)
(* Generated scripts do what they promise, for every number of tables and  *)
(* objects, all trees, edits and releases.                                 *)
(*                                                                         *)
(* First the sort: its invariant says what the two work variables stand    *)
(* for: inDegree counts the parents that are not placed, and ready are the *)
(* tables without such parents.                                            *)
(*                                                                         *)
(* Then the scripts: what a line, a section and a whole script leave in a  *)
(* schema.  The functions by which RunIn and Chosen are defined are        *)
(* reasoned about by a least counterexample.                               *)
(*                                                                         *)
(* At last the releases: a schema that has followed them is, while the     *)
(* next one is edited, that of the tree before.                            *)
(***************************************************************************)
EXTENDS ScriptGeneration, FiniteSetTheorems, SequenceTheorems, TLAPS

\* A nonempty set of natural numbers has a least one.
LEMMA LeastExists ==
    ASSUME NEW S \in SUBSET Nat, S # {}
    PROVE  \E n \in S : \A m \in S : n <= m
<1>1. PICK x \in S : \A y \in S : ~ (<<y, x>> \in OpToRel(<, Nat))
  BY NatLessThanWellFounded, WFMin
<1>2. \A y \in S : ~ (y < x)
  BY <1>1 DEF OpToRel
<1> QED
  BY <1>2

-----------------------------------------------------------------------------
(* The order of tables *)

Waiting(t) == Parents(t) \ Placed

InDegreeCounts == \A t \in names : inDegree[t] = Cardinality(Waiting(t))

ReadyIsReady == ready = {t \in names \ Placed : Waiting(t) = {}}

OrderInv ==
    /\ OrderTypeOK
    /\ InDegreeCounts
    /\ ReadyIsReady
    /\ ParentsFirst

-----------------------------------------------------------------------------

\* A nonempty set of tables has a first one.
LEMMA FirstExists ==
    ASSUME NEW S \in SUBSET Table, S # {}
    PROVE  /\ First(S) \in S
           /\ \A u \in S : First(S) <= u
<1>1. S \in SUBSET Nat
  BY TableAssumption DEF Table
<1>2. PICK x \in S : \A y \in S : x <= y
  BY <1>1, LeastExists
<1> QED
  BY <1>2 DEF First

\* The sets that inDegree counts are finite.
LEMMA WaitingFinite ==
    ASSUME OrderTypeOK
    PROVE  \A t \in names : IsFiniteSet(Parents(t)) /\ IsFiniteSet(Waiting(t))
<1>1. IsFiniteSet(Table)
  BY TableAssumption, FS_Interval DEF Table
<1>2. \A t \in names : Parents(t) \in SUBSET Table /\ Waiting(t) \in SUBSET Table
  BY DEF OrderTypeOK, Parents, Waiting
<1> QED
  BY <1>1, <1>2, FS_Subset

LEMMA OrderBegins == OrderInit => OrderInv
<1> SUFFICES ASSUME OrderInit PROVE OrderInv
  OBVIOUS
<1> USE DEF OrderInit
<1>1. Placed = {}
  BY DEF Placed
<1>2. \A t \in Table : Parents(t) \in SUBSET Table
  BY DEF Parents
<1>3. \A t \in Table : Cardinality(Parents(t)) \in Nat
  <2>1. IsFiniteSet(Table)
    BY TableAssumption, FS_Interval DEF Table
  <2>2. \A t \in Table : IsFiniteSet(Parents(t))
    BY <1>2, <2>1, FS_Subset
  <2> QED
    BY <2>2, FS_CardinalityType
<1>4. OrderTypeOK
  BY <1>3 DEF OrderTypeOK
<1>5. \A t \in names : Waiting(t) = Parents(t) /\ t \in Table
  BY <1>1 DEF Waiting
<1>6. InDegreeCounts
  BY <1>5 DEF InDegreeCounts
<1>7. ReadyIsReady
  BY <1>1, <1>5 DEF ReadyIsReady
<1>8. ParentsFirst
  BY DEF ParentsFirst
<1> QED
  BY <1>4, <1>6, <1>7, <1>8 DEF OrderInv

-----------------------------------------------------------------------------

\* What is placed next, and what that changes.
LEMMA PlaceFacts ==
    ASSUME OrderInv, Place
    PROVE  \E n \in ready :
             /\ n \in names \ Placed
             /\ Waiting(n) = {}
             /\ sorted' = Append(sorted, n)
             /\ inDegree' = [d \in Table |-> IF d \in Dependents(n)
                                               THEN inDegree[d] - 1
                                               ELSE inDegree[d]]
             /\ ready' = (ready \ {n}) \cup
                             {d \in Dependents(n) : inDegree'[d] = 0}
             /\ Placed' = Placed \cup {n}
             /\ names' = names /\ refs' = refs
<1> DEFINE n == First(ready)
           left == [d \in Table |-> IF d \in Dependents(n) THEN inDegree[d] - 1
                                                          ELSE inDegree[d]]
<1>1. ready \in SUBSET Table /\ ready # {}
  BY DEF OrderInv, OrderTypeOK, Place
<1>2. n \in ready
  BY <1>1, FirstExists
<1>3. n \in names \ Placed /\ Waiting(n) = {}
  BY <1>2 DEF OrderInv, ReadyIsReady
<1>4. /\ sorted' = Append(sorted, n)
      /\ inDegree' = left
      /\ ready' = (ready \ {n}) \cup {d \in Dependents(n) : left[d] = 0}
      /\ names' = names /\ refs' = refs
  BY DEF Place
<1>5. sorted \in Seq(names)
  BY DEF OrderInv, OrderTypeOK
<1>6. /\ Len(sorted') = Len(sorted) + 1
      /\ \A i \in 1..Len(sorted) : sorted'[i] = sorted[i]
      /\ sorted'[Len(sorted) + 1] = n
  BY <1>3, <1>4, <1>5
<1>7. Placed' = Placed \cup {n}
  BY <1>5, <1>6 DEF Placed
<1> QED
  BY <1>2, <1>3, <1>4, <1>7

LEMMA PlacePreserves == OrderInv /\ Place => OrderInv'
<1> SUFFICES ASSUME OrderInv, Place PROVE OrderInv'
  OBVIOUS
<1>1. PICK n \in ready :
             /\ n \in names \ Placed
             /\ Waiting(n) = {}
             /\ sorted' = Append(sorted, n)
             /\ inDegree' = [d \in Table |-> IF d \in Dependents(n)
                                               THEN inDegree[d] - 1
                                               ELSE inDegree[d]]
             /\ ready' = (ready \ {n}) \cup
                             {d \in Dependents(n) : inDegree'[d] = 0}
             /\ Placed' = Placed \cup {n}
             /\ names' = names /\ refs' = refs
  BY PlaceFacts
<1>2. OrderTypeOK
  BY DEF OrderInv
<1>3. \A t : Parents(t)' = Parents(t)
  BY <1>1 DEF Parents
<1>4. \A t \in names : Waiting(t)' = Waiting(t) \ {n}
  BY <1>1, <1>3 DEF Waiting
<1>5. \A t \in names : (n \in Waiting(t)) <=> (t \in Dependents(n))
  BY <1>1 DEF Waiting, Dependents
<1>6. \A t \in names :
          /\ IsFiniteSet(Waiting(t)')
          /\ Cardinality(Waiting(t)') = IF t \in Dependents(n)
                                          THEN Cardinality(Waiting(t)) - 1
                                          ELSE Cardinality(Waiting(t))
          /\ Cardinality(Waiting(t)') \in Nat
  <2> TAKE t \in names
  <2>1. IsFiniteSet(Waiting(t))
    BY <1>2, WaitingFinite
  <2>2. IsFiniteSet(Waiting(t) \ {n})
    BY <2>1, FS_RemoveElement
  <2>3. Cardinality(Waiting(t) \ {n}) = IF n \in Waiting(t)
                                          THEN Cardinality(Waiting(t)) - 1
                                          ELSE Cardinality(Waiting(t))
    BY <2>1, FS_RemoveElement
  <2>4. Cardinality(Waiting(t) \ {n}) \in Nat
    BY <2>2, FS_CardinalityType
  <2> QED
    BY <1>4, <1>5, <2>2, <2>3, <2>4
<1>7. \A t \in names : inDegree'[t] = Cardinality(Waiting(t)')
  BY <1>1, <1>2, <1>6 DEF OrderInv, InDegreeCounts, OrderTypeOK
<1>8. InDegreeCounts'
  BY <1>1, <1>7 DEF InDegreeCounts
<1>9. OrderTypeOK'
  <2>1. inDegree' \in [Table -> Nat]
    <3>1. \A t \in Table : inDegree'[t] \in Nat
      <4> TAKE t \in Table
      <4>1. CASE t \in names
        BY <4>1, <1>6, <1>7
      <4>2. CASE t \notin names
        BY <4>2, <1>1, <1>2 DEF Dependents, OrderTypeOK
      <4> QED
        BY <4>1, <4>2
    <3> QED
      BY <1>1, <3>1
  <2>2. sorted' \in Seq(names')
    BY <1>1, <1>2 DEF OrderTypeOK
  <2>3. ready' \subseteq names'
    BY <1>1, <1>2 DEF OrderTypeOK, Dependents
  <2> QED
    BY <1>1, <1>2, <2>1, <2>2, <2>3 DEF OrderTypeOK
<1>10. \A t \in Placed : Parents(t) \subseteq Placed
  <2> SUFFICES ASSUME NEW j \in 1..Len(sorted)
               PROVE  Parents(sorted[j]) \subseteq Placed
    BY DEF Placed
  <2>1. \A p \in Parents(sorted[j]) : \E i \in 1..(j - 1) : sorted[i] = p
    BY DEF OrderInv, ParentsFirst
  <2>2. 1..(j - 1) \subseteq 1..Len(sorted)
    BY <1>2 DEF OrderTypeOK
  <2> QED
    BY <2>1, <2>2 DEF Placed
<1>11. ReadyIsReady'
  <2>1. \A t \in names : inDegree'[t] = 0 <=> Waiting(t)' = {}
    BY <1>6, <1>7, FS_EmptySet
  <2>2. \A t \in names : t \in Dependents(n) => t \notin Placed /\ t # n
    BY <1>1, <1>5, <1>10 DEF Waiting
  <2>3. \A t : t \in ready' <=> t \in names /\ t \notin Placed' /\ Waiting(t)' = {}
    <3> TAKE t
    <3>1. ASSUME t \in ready'
          PROVE  t \in names /\ t \notin Placed' /\ Waiting(t)' = {}
      <4>1. CASE t \in ready \ {n}
        BY <4>1, <1>1, <1>4 DEF OrderInv, ReadyIsReady
      <4>2. CASE t \in Dependents(n) /\ inDegree'[t] = 0
        BY <4>2, <1>1, <2>1, <2>2 DEF Dependents
      <4> QED
        BY <3>1, <4>1, <4>2, <1>1
    <3>2. ASSUME t \in names, t \notin Placed', Waiting(t)' = {}
          PROVE  t \in ready'
      <4>1. t \notin Placed /\ t # n
        BY <3>2, <1>1
      <4>2. CASE n \in Waiting(t)
        BY <4>2, <3>2, <1>1, <1>5, <2>1
      <4>3. CASE n \notin Waiting(t)
        <5>1. Waiting(t) = {}
          BY <4>3, <3>2, <1>4
        <5> QED
          BY <5>1, <4>1, <3>2, <1>1 DEF OrderInv, ReadyIsReady
      <4> QED
        BY <4>2, <4>3
    <3> QED
      BY <3>1, <3>2
  <2>4. names' = names
    BY <1>1
  <2> QED
    BY <2>3, <2>4 DEF ReadyIsReady
<1>12. ParentsFirst'
  <2>1. sorted \in Seq(names) /\ n \in names
    BY <1>1, <1>2 DEF OrderTypeOK
  <2>2. /\ Len(sorted) \in Nat
        /\ Len(sorted') = Len(sorted) + 1
        /\ \A i \in 1..Len(sorted) : sorted'[i] = sorted[i]
        /\ sorted'[Len(sorted) + 1] = n
    BY <1>1, <2>1
  <2>3. ASSUME NEW j \in 1..Len(sorted')
        PROVE  /\ \A p \in Parents(sorted'[j]) : \E i \in 1..(j - 1) : sorted'[i] = p
               /\ \A i \in 1..(j - 1) : sorted'[i] # sorted'[j]
    <3>1. CASE j \in 1..Len(sorted)
      <4>1. /\ \A p \in Parents(sorted[j]) : \E i \in 1..(j - 1) : sorted[i] = p
            /\ \A i \in 1..(j - 1) : sorted[i] # sorted[j]
        BY <3>1 DEF OrderInv, ParentsFirst
      <4>2. 1..(j - 1) \subseteq 1..Len(sorted)
        BY <3>1, <2>2
      <4> QED
        BY <4>1, <4>2, <3>1, <2>2
    <3>2. CASE j = Len(sorted) + 1
      <4>1. \A p \in Parents(n) : \E i \in 1..Len(sorted) : sorted[i] = p
        BY <1>1 DEF Waiting, Placed
      <4>2. \A i \in 1..Len(sorted) : sorted[i] # n
        BY <1>1 DEF Placed
      <4>3. j - 1 = Len(sorted)
        BY <3>2, <2>2
      <4> QED
        BY <4>1, <4>2, <4>3, <3>2, <2>2
    <3> QED
      BY <3>1, <3>2, <2>2
  <2>4. \A j \in 1..Len(sorted') :
            /\ \A p \in Parents(sorted'[j]) : \E i \in 1..(j - 1) : sorted'[i] = p
            /\ \A i \in 1..(j - 1) : sorted'[i] # sorted'[j]
    BY <2>3
  <2> QED
    BY <2>4, <1>1 DEF ParentsFirst, Parents
<1> QED
  BY <1>8, <1>9, <1>11, <1>12 DEF OrderInv

LEMMA OrderStutters == OrderInv /\ UNCHANGED orderVars => OrderInv'
  BY DEF OrderInv, orderVars, OrderTypeOK, InDegreeCounts, ReadyIsReady, ParentsFirst,
         Waiting, Parents, Placed

-----------------------------------------------------------------------------
\* The invariant of the sort, its types among it (_topological_sort).
THEOREM OrderInvariant == OrderSpec => []OrderInv
<1>1. OrderInv /\ [Place]_orderVars => OrderInv'
  BY PlacePreserves, OrderStutters
<1> QED
  BY OrderBegins, <1>1, PTL DEF OrderSpec

\* However many tables there are: each comes after those it refers to, and a
\* circular dependency is only reported when every table that is left waits
\* for another one that is left (_topological_sort).
THEOREM OrderIsRightForAll == OrderSpec => []OrderIsRight
<1>1. OrderInv => CircleIsReal
  BY DEF OrderInv, ReadyIsReady, CircleIsReal, Finished, Waiting
<1>2. OrderInv => ParentsFirst
  BY DEF OrderInv
<1>3. OrderInv => OrderIsRight
  BY <1>1, <1>2 DEF OrderIsRight
<1> QED
  BY OrderInvariant, <1>3, PTL

-----------------------------------------------------------------------------
(* How scripts run *)

\* f[i] is what the first i lines of a script leave, up to n.
IsRun(f, db, script, n) ==
    f = [i \in 0..n |-> IF i = 0 THEN db ELSE Execute(f[i - 1], script[i])]

\* The function that RunIn defines exists.
LEMMA RunExists ==
    ASSUME NEW db, NEW script
    PROVE  \A n \in Nat : \E f : IsRun(f, db, script, n)
<1> DEFINE Bad == {n \in Nat : ~ \E f : IsRun(f, db, script, n)}
<1> SUFFICES ASSUME Bad # {} PROVE FALSE
  OBVIOUS
<1>1. Bad \in SUBSET Nat
  OBVIOUS
<1>2. PICK n \in Bad : \A m \in Bad : n <= m
  BY <1>1, LeastExists
<1>3. n \in Nat /\ ~ \E f : IsRun(f, db, script, n)
  OBVIOUS
<1>4. n # 0
  <2>1. IsRun([i \in 0..0 |-> db], db, script, 0)
    BY DEF IsRun
  <2> QED
    BY <2>1, <1>3
<1>5. n - 1 \in Nat /\ ~ (n <= n - 1)
  BY <1>3, <1>4
<1>6. n - 1 \notin Bad
  BY <1>2, <1>5
<1>7. PICK f : IsRun(f, db, script, n - 1)
  BY <1>5, <1>6
<1> HIDE DEF Bad
<1> DEFINE g == [i \in 0..n |-> IF i = n THEN Execute(f[n - 1], script[n]) ELSE f[i]]
<1>8. f = [i \in 0..(n - 1) |-> IF i = 0 THEN db ELSE Execute(f[i - 1], script[i])]
  BY <1>7 DEF IsRun
<1>9. \A i \in 0..n : g[i] = IF i = 0 THEN db ELSE Execute(g[i - 1], script[i])
  <2> TAKE i \in 0..n
  <2>1. CASE i = 0
    BY <2>1, <1>4, <1>5, <1>8
  <2>2. CASE i = n
    BY <2>2, <1>4, <1>5
  <2>3. CASE i # 0 /\ i # n
    <3>1. i \in 0..(n - 1) /\ i - 1 \in 0..n /\ i - 1 # n
      BY <2>3, <1>3, <1>5
    <3>2. f[i] = Execute(f[i - 1], script[i])
      BY <3>1, <2>3, <1>8
    <3> QED
      BY <3>1, <3>2, <2>3
  <2> QED
    BY <2>1, <2>2, <2>3
<1>10. IsRun(g, db, script, n)
  BY <1>9 DEF IsRun
<1> QED
  BY <1>10, <1>3

\* What a script leaves, from what each line leaves.
LEMMA RunIs ==
    ASSUME NEW db, NEW script, Len(script) \in Nat, NEW D,
           D[0] = db,
           \A i \in 1..Len(script) : D[i] = Execute(D[i - 1], script[i])
    PROVE  RunIn(db, script) = D[Len(script)]
<1> DEFINE n == Len(script)
           f == CHOOSE x : IsRun(x, db, script, n)
<1>1. IsRun(f, db, script, n)
  BY RunExists
<1>2. RunIn(db, script) = f[n]
  BY DEF RunIn, IsRun
<1>3. f = [i \in 0..n |-> IF i = 0 THEN db ELSE Execute(f[i - 1], script[i])]
  BY <1>1 DEF IsRun
<1> HIDE DEF f
<1> DEFINE Bad == {i \in 0..n : f[i] # D[i]}
<1>4. ASSUME Bad # {} PROVE FALSE
  <2>1. Bad \in SUBSET Nat
    OBVIOUS
  <2>2. PICK i \in Bad : \A j \in Bad : i <= j
    BY <1>4, <2>1, LeastExists
  <2>3. i \in 0..n /\ f[i] # D[i]
    OBVIOUS
  <2>4. i # 0
    BY <2>3, <1>3
  <2>5. i - 1 \in 0..n /\ ~ (i <= i - 1) /\ i \in 1..n
    BY <2>3, <2>4
  <2>6. f[i - 1] = D[i - 1]
    BY <2>2, <2>5
  <2> HIDE DEF Bad
  <2>7. f[i] = Execute(f[i - 1], script[i])
    BY <2>3, <2>4, <1>3
  <2> QED
    BY <2>3, <2>5, <2>6, <2>7
<1>5. n \in 0..n
  OBVIOUS
<1> QED
  BY <1>2, <1>4, <1>5

\* The function itself.
LEMMA RunSteps ==
    ASSUME NEW db, NEW script, Len(script) \in Nat
    PROVE  \E D : /\ D[0] = db
                  /\ \A i \in 1..Len(script) : D[i] = Execute(D[i - 1], script[i])
                  /\ RunIn(db, script) = D[Len(script)]
<1>1. PICK D : IsRun(D, db, script, Len(script))
  BY RunExists
<1>2. D = [i \in 0..Len(script) |-> IF i = 0 THEN db ELSE Execute(D[i - 1], script[i])]
  BY <1>1 DEF IsRun
<1>3. D[0] = db
  BY <1>2
<1>4. \A i \in 1..Len(script) : D[i] = Execute(D[i - 1], script[i])
  BY <1>2
<1> QED
  BY <1>3, <1>4, RunIs

\* A script of two parts runs one after the other.
LEMMA RunConcat ==
    ASSUME NEW db, NEW T, NEW a \in Seq(T), NEW b \in Seq(T)
    PROVE  RunIn(db, a \o b) = RunIn(RunIn(db, a), b)
<1>1. /\ Len(a) \in Nat /\ Len(b) \in Nat
      /\ Len(a \o b) = Len(a) + Len(b)
      /\ \A i \in 1..Len(a) : (a \o b)[i] = a[i]
      /\ \A i \in 1..(Len(a) + Len(b)) : i > Len(a) => (a \o b)[i] = b[i - Len(a)]
  OBVIOUS
<1>2. PICK D : /\ D[0] = db
               /\ \A i \in 1..Len(a) : D[i] = Execute(D[i - 1], a[i])
               /\ RunIn(db, a) = D[Len(a)]
  BY <1>1, RunSteps
<1> DEFINE d == RunIn(db, a)
<1> HIDE DEF d
<1>3. PICK E : /\ E[0] = d
               /\ \A i \in 1..Len(b) : E[i] = Execute(E[i - 1], b[i])
               /\ RunIn(d, b) = E[Len(b)]
  BY <1>1, RunSteps
<1> DEFINE F == [i \in 0..(Len(a) + Len(b)) |->
                    IF i <= Len(a) THEN D[i] ELSE E[i - Len(a)]]
           c == a \o b
<1> HIDE DEF c
<1>4. F[0] = db
  BY <1>1, <1>2
<1>5. \A i \in 1..Len(c) : F[i] = Execute(F[i - 1], c[i])
  <2> TAKE i \in 1..Len(c)
  <2>1. CASE i <= Len(a)
    <3>1. i \in 1..Len(a) /\ F[i] = D[i] /\ F[i - 1] = D[i - 1] /\ c[i] = a[i]
      BY <2>1, <1>1 DEF c
    <3> QED
      BY <3>1, <1>2
  <2>2. CASE i > Len(a)
    <3>1. i - Len(a) \in 1..Len(b) /\ F[i] = E[i - Len(a)] /\ c[i] = b[i - Len(a)]
      BY <2>2, <1>1 DEF c
    <3>2. F[i - 1] = E[i - Len(a) - 1]
      <4>1. CASE i - 1 = Len(a)
        BY <4>1, <1>1, <1>2, <1>3 DEF d
      <4>2. CASE i - 1 # Len(a)
        BY <4>2, <2>2, <1>1 DEF c
      <4> QED
        BY <4>1, <4>2
    <3> QED
      BY <3>1, <3>2, <1>3
  <2> QED
    BY <2>1, <2>2, <1>1 DEF c
<1>6. F[Len(c)] = E[Len(b)]
  <2>1. CASE Len(b) = 0
    BY <2>1, <1>1, <1>2, <1>3 DEF c, d
  <2>2. CASE Len(b) # 0
    BY <2>2, <1>1 DEF c
  <2> QED
    BY <2>1, <2>2
<1>7. Len(c) \in Nat
  BY <1>1 DEF c
<1> HIDE DEF F
<1>8. RunIn(db, c) = F[Len(c)]
  BY <1>4, <1>5, <1>7, RunIs
<1> QED
  BY <1>3, <1>6, <1>8 DEF c, d

-----------------------------------------------------------------------------
(* The chosen elements of a sequence *)

\* f[i] are the chosen ones of the first i elements, up to n.
IsChoice(f, s, S, n) ==
    f = [i \in 0..n |-> IF i = 0 THEN <<>>
                        ELSE IF s[i] \in S THEN Append(f[i - 1], s[i]) ELSE f[i - 1]]

\* The function that Chosen defines exists.
LEMMA ChoiceExists ==
    ASSUME NEW s, NEW S
    PROVE  \A n \in Nat : \E f : IsChoice(f, s, S, n)
<1> DEFINE Bad == {n \in Nat : ~ \E f : IsChoice(f, s, S, n)}
<1> SUFFICES ASSUME Bad # {} PROVE FALSE
  OBVIOUS
<1>1. Bad \in SUBSET Nat
  OBVIOUS
<1>2. PICK n \in Bad : \A m \in Bad : n <= m
  BY <1>1, LeastExists
<1>3. n \in Nat /\ ~ \E f : IsChoice(f, s, S, n)
  OBVIOUS
<1>4. n # 0
  <2>1. IsChoice([i \in 0..0 |-> <<>>], s, S, 0)
    BY DEF IsChoice
  <2> QED
    BY <2>1, <1>3
<1>5. n - 1 \in Nat /\ ~ (n <= n - 1)
  BY <1>3, <1>4
<1>6. n - 1 \notin Bad
  BY <1>2, <1>5
<1>7. PICK f : IsChoice(f, s, S, n - 1)
  BY <1>5, <1>6
<1> HIDE DEF Bad
<1> DEFINE last == IF s[n] \in S THEN Append(f[n - 1], s[n]) ELSE f[n - 1]
           g == [i \in 0..n |-> IF i = n THEN last ELSE f[i]]
<1>8. f = [i \in 0..(n - 1) |->
              IF i = 0 THEN <<>>
              ELSE IF s[i] \in S THEN Append(f[i - 1], s[i]) ELSE f[i - 1]]
  BY <1>7 DEF IsChoice
<1>9. \A i \in 0..n :
          g[i] = IF i = 0 THEN <<>>
                 ELSE IF s[i] \in S THEN Append(g[i - 1], s[i]) ELSE g[i - 1]
  <2> TAKE i \in 0..n
  <2>1. CASE i = 0
    BY <2>1, <1>4, <1>5, <1>8
  <2>2. CASE i = n
    BY <2>2, <1>4, <1>5
  <2>3. CASE i # 0 /\ i # n
    <3>1. i \in 0..(n - 1) /\ i - 1 \in 0..n /\ i - 1 # n
      BY <2>3, <1>3, <1>5
    <3>2. f[i] = IF s[i] \in S THEN Append(f[i - 1], s[i]) ELSE f[i - 1]
      BY <3>1, <2>3, <1>8
    <3> QED
      BY <3>1, <3>2, <2>3
  <2> QED
    BY <2>1, <2>2, <2>3
<1>10. IsChoice(g, s, S, n)
  BY <1>9 DEF IsChoice
<1> QED
  BY <1>10, <1>3

\* L has the elements of s that are in S and come no later than n, at the
\* places h.
Picks(L, h, s, S, n) ==
    /\ L \in Seq(S)
    /\ h \in [1..Len(L) -> 1..n]
    /\ \A i \in 1..Len(L) : L[i] = s[h[i]]
    /\ \A i, j \in 1..Len(L) : i < j => h[i] < h[j]
    /\ \A k \in 1..n : s[k] \in S => \E i \in 1..Len(L) : h[i] = k

LEMMA PicksMore ==
    ASSUME NEW L, NEW h, NEW s, NEW S, NEW n \in Nat, n # 0, Picks(L, h, s, S, n - 1)
    PROVE  \E x : Picks(IF s[n] \in S THEN Append(L, s[n]) ELSE L, x, s, S, n)
<1>0. /\ L \in Seq(S)
      /\ h \in [1..Len(L) -> 1..(n - 1)]
      /\ \A i \in 1..Len(L) : L[i] = s[h[i]]
      /\ \A i, j \in 1..Len(L) : i < j => h[i] < h[j]
      /\ \A k \in 1..(n - 1) : s[k] \in S => \E i \in 1..Len(L) : h[i] = k
      /\ Len(L) \in Nat
  BY DEF Picks
<1>1. CASE s[n] \in S
  <2> DEFINE M == Append(L, s[n])
             x == [i \in 1..(Len(L) + 1) |-> IF i = Len(L) + 1 THEN n ELSE h[i]]
  <2>1. /\ M \in Seq(S)
        /\ Len(M) = Len(L) + 1
        /\ \A i \in 1..Len(L) : M[i] = L[i]
        /\ M[Len(L) + 1] = s[n]
    BY <1>0, <1>1
  <2>2. x \in [1..Len(M) -> 1..n]
    BY <1>0, <2>1
  <2> HIDE DEF M
  <2>3. \A i \in 1..Len(M) : M[i] = s[x[i]]
    <3> TAKE i \in 1..Len(M)
    <3>1. CASE i = Len(L) + 1
      BY <3>1, <2>1
    <3>2. CASE i # Len(L) + 1
      BY <3>2, <1>0, <2>1
    <3> QED
      BY <3>1, <3>2
  <2>4. \A i, j \in 1..Len(M) : i < j => x[i] < x[j]
    <3> SUFFICES ASSUME NEW i \in 1..Len(M), NEW j \in 1..Len(M), i < j
                 PROVE  x[i] < x[j]
      OBVIOUS
    <3>1. i \in 1..Len(L) /\ x[i] = h[i] /\ h[i] \in 1..(n - 1)
      BY <1>0, <2>1
    <3>2. CASE j = Len(L) + 1
      BY <3>1, <3>2
    <3>3. CASE j # Len(L) + 1
      BY <3>1, <3>3, <1>0, <2>1
    <3> QED
      BY <3>2, <3>3
  <2>5. \A k \in 1..n : s[k] \in S => \E i \in 1..Len(M) : x[i] = k
    <3> SUFFICES ASSUME NEW k \in 1..n, s[k] \in S
                 PROVE  \E i \in 1..Len(M) : x[i] = k
      OBVIOUS
    <3>1. CASE k = n
      <4>1. Len(L) + 1 \in 1..Len(M) /\ x[Len(L) + 1] = n
        BY <1>0, <2>1
      <4> QED
        BY <4>1, <3>1
    <3>2. CASE k # n
      <4>1. PICK i \in 1..Len(L) : h[i] = k
        BY <3>2, <1>0
      <4>2. i \in 1..Len(M) /\ x[i] = k
        BY <4>1, <1>0, <2>1
      <4> QED
        BY <4>2
    <3> QED
      BY <3>1, <3>2
  <2>6. Picks(M, x, s, S, n)
    BY <2>1, <2>2, <2>3, <2>4, <2>5 DEF Picks
  <2> QED
    BY <1>1, <2>6 DEF M
<1>2. CASE s[n] \notin S
  <2>1. h \in [1..Len(L) -> 1..n]
    BY <1>0
  <2>2. \A k \in 1..n : s[k] \in S => \E i \in 1..Len(L) : h[i] = k
    BY <1>0, <1>2
  <2>3. Picks(L, h, s, S, n)
    BY <1>0, <2>1, <2>2 DEF Picks
  <2> QED
    BY <1>2, <2>3
<1> QED
  BY <1>1, <1>2

LEMMA ChosenPicks ==
    ASSUME NEW T, NEW s \in Seq(T), NEW S
    PROVE  \E h : Picks(Chosen(s, S), h, s, S, Len(s))
<1> DEFINE n == Len(s)
           f == CHOOSE x : IsChoice(x, s, S, n)
<1>1. IsChoice(f, s, S, n)
  BY ChoiceExists
<1>2. Chosen(s, S) = f[n]
  BY DEF Chosen, IsChoice
<1>3. f = [i \in 0..n |-> IF i = 0 THEN <<>>
                          ELSE IF s[i] \in S THEN Append(f[i - 1], s[i]) ELSE f[i - 1]]
  BY <1>1 DEF IsChoice
<1> HIDE DEF f
<1> DEFINE Bad == {i \in 0..n : ~ \E h : Picks(f[i], h, s, S, i)}
<1>4. ASSUME Bad # {} PROVE FALSE
  <2>1. Bad \in SUBSET Nat
    OBVIOUS
  <2>2. PICK i \in Bad : \A j \in Bad : i <= j
    BY <1>4, <2>1, LeastExists
  <2>3. i \in 0..n /\ ~ \E h : Picks(f[i], h, s, S, i)
    OBVIOUS
  <2>4. i # 0
    <3>1. Picks(<<>>, <<>>, s, S, 0)
      BY DEF Picks
    <3>2. f[0] = <<>>
      BY <1>3
    <3> QED
      BY <3>1, <3>2, <2>3
  <2>5. i - 1 \in 0..n /\ ~ (i <= i - 1) /\ i \in Nat
    BY <2>3, <2>4
  <2>6. PICK h : Picks(f[i - 1], h, s, S, i - 1)
    BY <2>2, <2>5
  <2> HIDE DEF Bad
  <2>7. f[i] = IF s[i] \in S THEN Append(f[i - 1], s[i]) ELSE f[i - 1]
    BY <2>3, <2>4, <1>3
  <2>8. \E h1 : Picks(f[i], h1, s, S, i)
    BY <2>4, <2>5, <2>6, <2>7, PicksMore
  <2> QED
    BY <2>3, <2>8
<1>5. n \in 0..n
  OBVIOUS
<1> QED
  BY <1>2, <1>4, <1>5

\* L has all the elements of s that are in S, each at one place and after
\* those that it comes after in s.
Selection(L, s, S) ==
    /\ L \in Seq(S)
    /\ {L[i] : i \in 1..Len(L)} = S \cap {s[i] : i \in 1..Len(s)}
    /\ \A i, j \in 1..Len(L) : i # j => L[i] # L[j]
    /\ \A k \in 1..Len(s), j \in 1..Len(L) :
           s[k] \in S /\ (\E m \in 1..Len(s) : k < m /\ s[m] = L[j]) =>
               \E i \in 1..(j - 1) : L[i] = s[k]

LEMMA ChosenSelects ==
    ASSUME NEW T, NEW s \in Seq(T), NEW S,
           \A i, j \in 1..Len(s) : i # j => s[i] # s[j],
           NEW L, L = Chosen(s, S)
    PROVE  Selection(L, s, S)
<1>1. PICK h : Picks(L, h, s, S, Len(s))
  BY ChosenPicks
<1>2. /\ L \in Seq(S)
      /\ h \in [1..Len(L) -> 1..Len(s)]
      /\ \A i \in 1..Len(L) : L[i] = s[h[i]]
      /\ \A i, j \in 1..Len(L) : i < j => h[i] < h[j]
      /\ \A k \in 1..Len(s) : s[k] \in S => \E i \in 1..Len(L) : h[i] = k
      /\ Len(L) \in Nat /\ Len(s) \in Nat
  BY <1>1 DEF Picks
<1>3. {L[i] : i \in 1..Len(L)} = S \cap {s[i] : i \in 1..Len(s)}
  <2>1. ASSUME NEW i \in 1..Len(L) PROVE L[i] \in S \cap {s[k] : k \in 1..Len(s)}
    BY <1>2
  <2>2. ASSUME NEW k \in 1..Len(s), s[k] \in S PROVE \E i \in 1..Len(L) : L[i] = s[k]
    BY <2>2, <1>2
  <2> QED
    BY <2>1, <2>2
<1>4. \A i, j \in 1..Len(L) : i # j => L[i] # L[j]
  <2> SUFFICES ASSUME NEW i \in 1..Len(L), NEW j \in 1..Len(L), i # j
               PROVE  L[i] # L[j]
    OBVIOUS
  <2>1. h[i] # h[j]
    <3>1. i < j \/ j < i
      OBVIOUS
    <3> QED
      BY <3>1, <1>2
  <2> QED
    BY <2>1, <1>2
<1>5. ASSUME NEW k \in 1..Len(s), NEW j \in 1..Len(L), s[k] \in S,
             NEW m \in 1..Len(s), k < m, s[m] = L[j]
      PROVE  \E i \in 1..(j - 1) : L[i] = s[k]
  <2>1. h[j] = m
    <3>1. h[j] \in 1..Len(s) /\ s[h[j]] = s[m]
      BY <1>2, <1>5
    <3> QED
      BY <3>1
  <2>2. PICK i \in 1..Len(L) : h[i] = k
    BY <1>2, <1>5
  <2>3. ~ (j <= i)
    <3>1. j < i => h[j] < h[i]
      BY <1>2
    <3> QED
      BY <3>1, <2>1, <2>2, <1>5, <1>2
  <2>4. i \in 1..(j - 1) /\ L[i] = s[k]
    BY <2>2, <2>3, <1>2
  <2> QED
    BY <2>4
<1> QED
  BY <1>2, <1>3, <1>4, <1>5 DEF Selection

-----------------------------------------------------------------------------
(* What one line does in a schema that is complete *)

\* A table of a schema, or none.
Row == {NoTable} \cup [form: Nat \ {0}, refs: SUBSET Reference]

Schema(tb, vw, sd, ow) ==
    [table |-> tb, view |-> vw, seeds |-> sd, owned |-> ow, complete |-> TRUE]

\* A table without the foreign keys to D; without the tables D.
Unlinked(r, D) == [form |-> r.form, refs |-> r.refs \ D]
Without(tb, D) == [u \in Table |-> IF u \in D THEN NoTable ELSE Unlinked(tb[u], D)]

\* The rows of the tables, those of D other ones: none, or the tree's.
Rows == [Table -> Nat]
NoRows == [u \in Table |-> 0]
Replenished(sd, D, by) == [u \in Table |-> IF u \in D THEN by[u] ELSE sd[u]]
Emptied(sd, D) == Replenished(sd, D, NoRows)
Reloaded(sd, D) == Replenished(sd, D, after.seeds)

\* A schema in which the tables D are those of the tree.
Made(tb, D) == [u \in Table |-> IF u \in D THEN after.table[u] ELSE tb[u]]

LEMMA RegisterStep ==
    ASSUME NEW tb, NEW vw, NEW sd, NEW ow, NEW o
    PROVE  Execute(Schema(tb, vw, sd, ow), Line("register", o)) =
               Schema(tb, vw, sd, ow \cup {o})
  BY DEF Execute, Succeeds, Effect, Line, Schema

LEMMA ReplaceStep ==
    ASSUME NEW tb, NEW vw, NEW sd, NEW ow, NEW o
    PROVE  Execute(Schema(tb, vw, sd, ow), Line("replace", o)) =
               Schema(tb, after.view, sd, ow)
  BY DEF Execute, Succeeds, Effect, Line, Schema

LEMMA SeedStep ==
    ASSUME NEW tb, NEW vw, NEW sd \in Rows, NEW ow, NEW o \in Table,
           tb[o] # NoTable,
           \A p \in Referred(o) \cap Seeded(after) : sd[p] = after.seeds[p]
    PROVE  Execute(Schema(tb, vw, sd, ow), Line("seed", o)) =
               Schema(tb, vw, Reloaded(sd, {o}), ow)
<1>1. [sd EXCEPT ![o] = after.seeds[o]] = Reloaded(sd, {o})
  BY DEF Rows, Reloaded, Replenished
<1> QED
  BY <1>1 DEF Execute, Succeeds, Effect, Line, Schema

LEMMA CreateStep ==
    ASSUME NEW tb \in [Table -> Row],
           NEW vw, NEW sd, NEW ow, NEW o \in Table,
           tb[o] = NoTable, \A t \in Referred(o) : tb[t] # NoTable
    PROVE  Execute(Schema(tb, vw, sd, ow), Line("create", o)) =
               Schema(Made(tb, {o}), vw, sd, ow)
<1>1. [tb EXCEPT ![o] = after.table[o]] = Made(tb, {o})
  BY DEF Made
<1> QED
  BY <1>1 DEF Execute, Succeeds, Effect, Line, Schema

LEMMA AlterStep ==
    ASSUME NEW tb \in [Table -> Row],
           NEW vw, NEW sd, NEW ow, NEW o \in Table,
           tb[o] = before.table[o], \A t \in Referred(o) : tb[t] # NoTable
    PROVE  Execute(Schema(tb, vw, sd, ow), Line("alter", o)) =
               Schema(Made(tb, {o}), vw, sd, ow)
<1>1. [tb EXCEPT ![o] = after.table[o]] = Made(tb, {o})
  BY DEF Made
<1> QED
  BY <1>1 DEF Execute, Succeeds, Effect, Line, Schema

LEMMA WithoutTableIs ==
    ASSUME NEW tb \in [Table -> Row], NEW vw, NEW sd, NEW ow, NEW o
    PROVE  WithoutTable(Schema(tb, vw, sd, ow), o) = Without(tb, {o})
<1>1. ASSUME NEW u \in Table
      PROVE  [tb[u] EXCEPT !.refs = @ \ {o}] = Unlinked(tb[u], {o})
  <2>1. tb[u] \in Row
    OBVIOUS
  <2>2. tb[u] = [form |-> tb[u].form, refs |-> tb[u].refs]
    BY <2>1 DEF Row, NoTable
  <2>3. ASSUME NEW a, NEW b
        PROVE  [[form |-> a, refs |-> b] EXCEPT !.refs = @ \ {o}] =
                   [form |-> a, refs |-> b \ {o}]
    OBVIOUS
  <2> QED
    BY <2>2, <2>3 DEF Unlinked
<1> QED
  BY <1>1 DEF WithoutTable, Without, Schema

LEMMA RecreateStep ==
    ASSUME NEW tb \in [Table -> Row], NEW vw, NEW sd \in Rows, NEW ow, NEW o \in Table,
           tb[o] # NoTable
    PROVE  Execute(Schema(tb, vw, sd, ow), Line("recreate", o)) =
               Schema(Without(tb, {o}), vw, Emptied(sd, {o}), ow)
<1>1. WithoutTable(Schema(tb, vw, sd, ow), o) = Without(tb, {o})
  BY WithoutTableIs
<1>2. [sd EXCEPT ![o] = 0] = Emptied(sd, {o})
  BY DEF Rows, Emptied, Replenished, NoRows
<1> QED
  BY <1>1, <1>2 DEF Execute, Succeeds, Effect, Line, Schema

LEMMA DropTableStep ==
    ASSUME NEW tb \in [Table -> Row], NEW vw, NEW sd \in Rows, NEW ow, NEW o \in Table,
           tb[o] # NoTable
    PROVE  Execute(Schema(tb, vw, sd, ow), Line("drop", o)) =
               Schema(Without(tb, {o}), vw, Emptied(sd, {o}), ow \ {o})
<1>1. WithoutTable(Schema(tb, vw, sd, ow), o) = Without(tb, {o})
  BY WithoutTableIs
<1>2. o # View
  BY TableAssumption DEF Table, View
<1>3. o \in Objects(Schema(tb, vw, sd, ow))
  BY DEF Objects, Tables, Schema
<1>4. [sd EXCEPT ![o] = 0] = Emptied(sd, {o})
  BY DEF Rows, Emptied, Replenished, NoRows
<1> QED
  BY <1>1, <1>2, <1>3, <1>4 DEF Execute, Succeeds, Effect, Line, Schema

LEMMA DropViewStep ==
    ASSUME NEW tb, NEW vw, NEW sd, NEW ow, vw # 0
    PROVE  Execute(Schema(tb, vw, sd, ow), Line("drop", View)) =
               Schema(tb, 0, sd, ow \ {View})
<1>1. View \in Objects(Schema(tb, vw, sd, ow))
  BY DEF Objects, Schema
<1> QED
  BY <1>1 DEF Execute, Succeeds, Effect, Line, Schema

LEMMA RowFacts ==
    /\ NoTable \in Row
    /\ \A D : Unlinked(NoTable, D) = NoTable
    /\ \A D : \A r \in Row : Unlinked(r, D) \in Row
    /\ \A D : \A r \in Row : Unlinked(r, D) = NoTable <=> r = NoTable
    /\ \A r \in Row : /\ r = [form |-> r.form, refs |-> r.refs]
                      /\ r.refs \in SUBSET Reference
<1>1. NoTable \in Row
  BY DEF Row
<1>2. \A D : Unlinked(NoTable, D) = NoTable
  BY DEF Unlinked, NoTable
<1>3. ASSUME NEW r \in Row
      PROVE  r = [form |-> r.form, refs |-> r.refs] /\ r.refs \in SUBSET Reference
  BY DEF Row, NoTable
<1>4. ASSUME NEW r \in Row, NEW D
      PROVE  Unlinked(r, D) \in Row /\ (Unlinked(r, D) = NoTable <=> r = NoTable)
  <2>1. CASE r = NoTable
    BY <2>1, <1>1, <1>2
  <2>2. CASE r \in [form: Nat \ {0}, refs: SUBSET Reference]
    <3>1. /\ Unlinked(r, D) \in [form: Nat \ {0}, refs: SUBSET Reference]
          /\ Unlinked(r, D).form # 0 /\ r.form # 0
      BY <2>2 DEF Unlinked
    <3>2. NoTable.form = 0
      BY DEF NoTable
    <3> QED
      BY <3>1, <3>2 DEF Row
  <2> QED
    BY <2>1, <2>2 DEF Row
<1> QED
  BY <1>1, <1>2, <1>3, <1>4

\* Rows without keys to D are unchanged, and two unlinkings are one.
LEMMA UnlinkedFacts ==
    ASSUME NEW r \in Row, NEW D
    PROVE  /\ r.refs \cap D = {} => Unlinked(r, D) = r
           /\ \A E : Unlinked(Unlinked(r, D), E) = Unlinked(r, D \cup E)
<1>1. r = [form |-> r.form, refs |-> r.refs]
  BY RowFacts
<1>2. r.refs \cap D = {} => r.refs \ D = r.refs
  OBVIOUS
<1>3. \A E : (r.refs \ D) \ E = r.refs \ (D \cup E)
  OBVIOUS
<1> QED
  BY <1>1, <1>2, <1>3 DEF Unlinked

LEMMA WithoutFacts ==
    ASSUME NEW tb \in [Table -> Row], NEW D
    PROVE  /\ Without(tb, D) \in [Table -> Row]
           /\ \A u \in Table : Without(tb, D)[u] = NoTable <=> u \in D \/ tb[u] = NoTable
           /\ Without(tb, {}) = tb
           /\ \A E : Without(Without(tb, D), E) = Without(tb, D \cup E)
<1>1. ASSUME NEW u \in Table
      PROVE  /\ tb[u] \in Row
             /\ Unlinked(tb[u], D) \in Row
             /\ Unlinked(tb[u], D) = NoTable <=> tb[u] = NoTable
             /\ Unlinked(tb[u], {}) = tb[u]
             /\ \A E : Unlinked(Unlinked(tb[u], D), E) = Unlinked(tb[u], D \cup E)
  BY RowFacts, UnlinkedFacts
<1>2. Without(tb, D) \in [Table -> Row]
  BY <1>1, RowFacts DEF Without
<1>3. \A u \in Table : Without(tb, D)[u] = NoTable <=> u \in D \/ tb[u] = NoTable
  BY <1>1 DEF Without
<1>4. Without(tb, {}) = tb
  BY <1>1 DEF Without
<1>5. ASSUME NEW E PROVE Without(Without(tb, D), E) = Without(tb, D \cup E)
  <2>1. ASSUME NEW u \in Table
        PROVE  Without(Without(tb, D), E)[u] = Without(tb, D \cup E)[u]
    <3>1. CASE u \in E
      BY <3>1 DEF Without
    <3>2. CASE u \in D /\ u \notin E
      BY <3>2, RowFacts DEF Without
    <3>3. CASE u \notin D /\ u \notin E
      BY <3>3, <1>1 DEF Without
    <3> QED
      BY <3>1, <3>2, <3>3
  <2> QED
    BY <2>1 DEF Without
<1> QED
  BY <1>2, <1>3, <1>4, <1>5

LEMMA ReplenishedFacts ==
    ASSUME NEW sd \in Rows, NEW by \in Rows, NEW D
    PROVE  /\ Replenished(sd, D, by) \in Rows
           /\ Replenished(sd, {}, by) = sd
           /\ \A E : Replenished(Replenished(sd, D, by), E, by) =
                      Replenished(sd, D \cup E, by)
<1>1. Replenished(sd, D, by) \in Rows /\ Replenished(sd, {}, by) = sd
  BY DEF Rows, Replenished
<1>2. ASSUME NEW E
      PROVE  Replenished(Replenished(sd, D, by), E, by) = Replenished(sd, D \cup E, by)
  BY DEF Replenished
<1> QED
  BY <1>1, <1>2

LEMMA EmptiedFacts ==
    ASSUME NEW sd \in Rows, NEW D
    PROVE  /\ Emptied(sd, D) \in Rows
           /\ Emptied(sd, {}) = sd
           /\ \A E : Emptied(Emptied(sd, D), E) = Emptied(sd, D \cup E)
<1>1. NoRows \in Rows
  BY DEF NoRows, Rows
<1> QED
  BY <1>1, ReplenishedFacts DEF Emptied

LEMMA ReloadedFacts ==
    ASSUME NEW sd \in Rows, NEW D, after.seeds \in Rows
    PROVE  /\ Reloaded(sd, D) \in Rows
           /\ Reloaded(sd, {}) = sd
           /\ \A E : Reloaded(Reloaded(sd, D), E) = Reloaded(sd, D \cup E)
  BY ReplenishedFacts DEF Reloaded

LEMMA MadeFacts ==
    ASSUME NEW tb \in [Table -> Row], NEW D, after.table \in [Table -> Row]
    PROVE  /\ Made(tb, D) \in [Table -> Row]
           /\ Made(tb, {}) = tb
  BY DEF Made

-----------------------------------------------------------------------------
(* What the sections of a script do *)

Verb == {"register", "drop", "alter", "recreate", "create", "replace", "seed"}
AnyLine == [do: Verb, on: Object]

\* The objects of the first i lines of a section.
Part(L, i) == {L[j] : j \in 1..i}

LEMMA PartFacts ==
    ASSUME NEW T, NEW L \in Seq(T)
    PROVE  /\ Len(L) \in Nat
           /\ Part(L, 0) = {}
           /\ \A i \in 1..Len(L) : /\ L[i] \in T
                                   /\ i - 1 \in 0..Len(L)
                                   /\ Part(L, i) = Part(L, i - 1) \cup {L[i]}
<1>1. ASSUME NEW i \in 1..Len(L) PROVE Part(L, i) = Part(L, i - 1) \cup {L[i]}
  <2>1. 1..i = 1..(i - 1) \cup {i}
    OBVIOUS
  <2> QED
    BY <2>1 DEF Part
<1> QED
  BY <1>1 DEF Part

LEMMA LinesFacts ==
    ASSUME NEW what \in Verb, NEW L \in Seq(Object)
    PROVE  /\ Lines(what, L) \in Seq(AnyLine)
           /\ Len(Lines(what, L)) = Len(L)
           /\ \A i \in 1..Len(L) : Lines(what, L)[i] = Line(what, L[i])
<1>1. DOMAIN L = 1..Len(L) /\ Len(L) \in Nat /\ \A i \in 1..Len(L) : L[i] \in Object
  OBVIOUS
<1>2. Lines(what, L) = [i \in 1..Len(L) |-> Line(what, L[i])]
  BY <1>1 DEF Lines
<1>3. \A i \in 1..Len(L) : Line(what, L[i]) \in AnyLine
  BY <1>1 DEF Line, AnyLine
<1>4. Lines(what, L) \in [1..Len(L) -> AnyLine]
  BY <1>2, <1>3
<1>5. Lines(what, L) \in Seq(AnyLine)
  BY <1>1, <1>4, SeqDef
<1>6. DOMAIN Lines(what, L) = 1..Len(L)
  BY <1>2
<1>7. Len(Lines(what, L)) = Len(L)
  BY <1>1, <1>5, <1>6
<1> QED
  BY <1>2, <1>5, <1>7

LEMMA LinesRun ==
    ASSUME NEW what \in Verb, NEW L \in Seq(Object), NEW d, NEW D, D[0] = d,
           \A i \in 1..Len(L) : D[i] = Execute(D[i - 1], Line(what, L[i]))
    PROVE  RunIn(d, Lines(what, L)) = D[Len(L)]
<1> DEFINE script == Lines(what, L)
<1>1. Len(script) = Len(L) /\ \A i \in 1..Len(L) : script[i] = Line(what, L[i])
  BY LinesFacts
<1> HIDE DEF script
<1>0. Len(script) \in Nat
  BY <1>1
<1>2. \A i \in 1..Len(script) : D[i] = Execute(D[i - 1], script[i])
  BY <1>1
<1>3. RunIn(d, script) = D[Len(script)]
  BY <1>0, <1>1, <1>2, RunIs
<1> QED
  BY <1>1, <1>3 DEF script

LEMMA RegisterSection ==
    ASSUME NEW tb, NEW vw, NEW sd, NEW ow, NEW L \in Seq(Object)
    PROVE  RunIn(Schema(tb, vw, sd, ow), Lines("register", L)) =
               Schema(tb, vw, sd, ow \cup Part(L, Len(L)))
<1> DEFINE D == [i \in 0..Len(L) |-> Schema(tb, vw, sd, ow \cup Part(L, i))]
<1>1. \A i \in 1..Len(L) : D[i] = Execute(D[i - 1], Line("register", L[i]))
  <2> TAKE i \in 1..Len(L)
  <2>1. D[i] = Schema(tb, vw, sd, (ow \cup Part(L, i - 1)) \cup {L[i]})
    <3>1. ow \cup Part(L, i) = (ow \cup Part(L, i - 1)) \cup {L[i]}
      BY PartFacts
    <3> QED
      BY <3>1
  <2>2. D[i - 1] = Schema(tb, vw, sd, ow \cup Part(L, i - 1))
    BY PartFacts
  <2> QED
    BY <2>1, <2>2, RegisterStep
<1>2. D[0] = Schema(tb, vw, sd, ow)
  <2>1. ow \cup Part(L, 0) = ow
    BY PartFacts
  <2> QED
    BY <2>1
<1>3. D[Len(L)] = Schema(tb, vw, sd, ow \cup Part(L, Len(L)))
  OBVIOUS
<1> HIDE DEF D
<1>4. "register" \in Verb
  BY DEF Verb
<1> DEFINE d == Schema(tb, vw, sd, ow)
<1> HIDE DEF d
<1>5. D[0] = d
  BY <1>2 DEF d
<1>6. RunIn(d, Lines("register", L)) = D[Len(L)]
  BY <1>1, <1>4, <1>5, LinesRun
<1> QED
  BY <1>3, <1>6 DEF d

LEMMA ReplaceSection ==
    ASSUME NEW tb, NEW vw, NEW sd, NEW ow, NEW L \in Seq(Object)
    PROVE  RunIn(Schema(tb, vw, sd, ow), Lines("replace", L)) =
               Schema(tb, IF L = <<>> THEN vw ELSE after.view, sd, ow)
<1> DEFINE D == [i \in 0..Len(L) |->
                    Schema(tb, IF i = 0 THEN vw ELSE after.view, sd, ow)]
<1>1. \A i \in 1..Len(L) : D[i] = Execute(D[i - 1], Line("replace", L[i]))
  BY ReplaceStep
<1>2. D[0] = Schema(tb, vw, sd, ow)
  OBVIOUS
<1>3. D[Len(L)] = Schema(tb, IF L = <<>> THEN vw ELSE after.view, sd, ow)
  OBVIOUS
<1> HIDE DEF D
<1>4. "replace" \in Verb
  BY DEF Verb
<1> DEFINE d == Schema(tb, vw, sd, ow)
<1> HIDE DEF d
<1>5. D[0] = d
  BY <1>2 DEF d
<1>6. RunIn(d, Lines("replace", L)) = D[Len(L)]
  BY <1>1, <1>4, <1>5, LinesRun
<1> QED
  BY <1>3, <1>6 DEF d

LEMMA SeedSection ==
    ASSUME NEW tb, NEW vw, NEW sd \in Rows, NEW ow, NEW L \in Seq(Object),
           after.seeds \in Rows,
           \A i \in 1..Len(L) :
               /\ L[i] \in Table /\ tb[L[i]] # NoTable
               /\ \A p \in Referred(L[i]) \cap Seeded(after) :
                      sd[p] = after.seeds[p] \/ p \in Part(L, i - 1)
    PROVE  RunIn(Schema(tb, vw, sd, ow), Lines("seed", L)) =
               Schema(tb, vw, Reloaded(sd, Part(L, Len(L))), ow)
<1> DEFINE D == [i \in 0..Len(L) |-> Schema(tb, vw, Reloaded(sd, Part(L, i)), ow)]
<1>1. \A i \in 1..Len(L) : D[i] = Execute(D[i - 1], Line("seed", L[i]))
  <2> TAKE i \in 1..Len(L)
  <2> DEFINE sd1 == Reloaded(sd, Part(L, i - 1))
  <2>1. /\ Part(L, i) = Part(L, i - 1) \cup {L[i]}
        /\ i \in 0..Len(L) /\ i - 1 \in 0..Len(L) /\ L[i] \in Table
    BY PartFacts
  <2>2. sd1 \in Rows /\ Reloaded(sd1, {L[i]}) = Reloaded(sd, Part(L, i))
    BY <2>1, ReloadedFacts
  <2>3. \A p \in Referred(L[i]) \cap Seeded(after) : sd1[p] = after.seeds[p]
    <3> TAKE p \in Referred(L[i]) \cap Seeded(after)
    <3>1. p \in Table /\ (sd[p] = after.seeds[p] \/ p \in Part(L, i - 1))
      BY DEF Seeded
    <3> QED
      BY <3>1 DEF Reloaded, Replenished
  <2>4. D[i] = Schema(tb, vw, Reloaded(sd1, {L[i]}), ow)
    BY <2>1, <2>2
  <2>5. D[i - 1] = Schema(tb, vw, sd1, ow)
    BY <2>1
  <2> HIDE DEF D, sd1
  <2>6. Execute(Schema(tb, vw, sd1, ow), Line("seed", L[i])) =
            Schema(tb, vw, Reloaded(sd1, {L[i]}), ow)
    BY <2>1, <2>2, <2>3, SeedStep
  <2> QED
    BY <2>4, <2>5, <2>6
<1>2. D[0] = Schema(tb, vw, sd, ow)
  <2>1. Reloaded(sd, Part(L, 0)) = sd
    BY PartFacts, ReloadedFacts
  <2> QED
    BY <2>1
<1>3. D[Len(L)] = Schema(tb, vw, Reloaded(sd, Part(L, Len(L))), ow)
  OBVIOUS
<1> HIDE DEF D
<1>4. "seed" \in Verb
  BY DEF Verb
<1> DEFINE d == Schema(tb, vw, sd, ow)
<1> HIDE DEF d
<1>5. D[0] = d
  BY <1>2 DEF d
<1>6. RunIn(d, Lines("seed", L)) = D[Len(L)]
  BY <1>1, <1>4, <1>5, LinesRun
<1> QED
  BY <1>3, <1>6 DEF d

LEMMA CreateSection ==
    ASSUME NEW tb \in [Table -> Row], NEW vw, NEW sd, NEW ow,
           after.table \in [Table -> Row],
           NEW L \in Seq(Object),
           \A i \in 1..Len(L) :
               /\ L[i] \in Table /\ L[i] \notin Part(L, i - 1)
               /\ tb[L[i]] = NoTable /\ after.table[L[i]] # NoTable
               /\ \A t \in Referred(L[i]) :
                      t \in Table /\ (tb[t] # NoTable \/ t \in Part(L, i - 1))
    PROVE  RunIn(Schema(tb, vw, sd, ow), Lines("create", L)) =
               Schema(Made(tb, Part(L, Len(L))), vw, sd, ow)
<1> DEFINE D == [i \in 0..Len(L) |-> Schema(Made(tb, Part(L, i)), vw, sd, ow)]
<1>1. \A i \in 1..Len(L) : D[i] = Execute(D[i - 1], Line("create", L[i]))
  <2> TAKE i \in 1..Len(L)
  <2> DEFINE tb1 == Made(tb, Part(L, i - 1))
  <2>1. /\ Part(L, i) = Part(L, i - 1) \cup {L[i]}
        /\ i - 1 \in 0..Len(L) /\ L[i] \in Table
    BY PartFacts
  <2>2. tb1 \in [Table -> Row]
    BY MadeFacts
  <2>9. Made(tb1, {L[i]}) = Made(tb, Part(L, i))
    <3>1. Made(tb1, {L[i]}) = Made(tb, Part(L, i - 1) \cup {L[i]})
      BY DEF Made
    <3> QED
      BY <2>1, <3>1
  <2>3. ASSUME NEW t \in Part(L, i - 1) PROVE after.table[t] # NoTable
    <3>1. PICK j \in 1..(i - 1) : t = L[j]
      BY DEF Part
    <3> QED
      BY <3>1, <2>1
  <2>4. tb1[L[i]] = NoTable
    BY DEF Made
  <2>5. \A t \in Referred(L[i]) : tb1[t] # NoTable
    BY <2>3 DEF Made
  <2> HIDE DEF tb1
  <2>6. Execute(Schema(tb1, vw, sd, ow), Line("create", L[i])) =
            Schema(Made(tb1, {L[i]}), vw, sd, ow)
    BY <2>1, <2>2, <2>4, <2>5, CreateStep
  <2>7. D[i - 1] = Schema(tb1, vw, sd, ow)
    BY <2>1 DEF tb1
  <2>8. D[i] = Schema(Made(tb, Part(L, i)), vw, sd, ow)
    OBVIOUS
  <2> QED
    BY <2>6, <2>7, <2>8, <2>9
<1>2. D[0] = Schema(tb, vw, sd, ow)
  <2>1. Made(tb, Part(L, 0)) = tb
    BY PartFacts, MadeFacts
  <2> QED
    BY <2>1
<1>3. D[Len(L)] = Schema(Made(tb, Part(L, Len(L))), vw, sd, ow)
  OBVIOUS
<1> HIDE DEF D
<1>4. "create" \in Verb
  BY DEF Verb
<1> DEFINE d == Schema(tb, vw, sd, ow)
<1> HIDE DEF d
<1>5. D[0] = d
  BY <1>2 DEF d
<1>6. RunIn(d, Lines("create", L)) = D[Len(L)]
  BY ONLY L \in Seq(Object), <1>1, <1>4, <1>5, LinesRun
<1> QED
  BY <1>3, <1>6 DEF d

LEMMA AlterSection ==
    ASSUME NEW tb \in [Table -> Row], NEW vw, NEW sd, NEW ow,
           after.table \in [Table -> Row],
           NEW L \in Seq(Object),
           \A i \in 1..Len(L) :
               /\ L[i] \in Table /\ L[i] \notin Part(L, i - 1)
               /\ tb[L[i]] = before.table[L[i]] /\ after.table[L[i]] # NoTable
               /\ \A t \in Referred(L[i]) : t \in Table /\ tb[t] # NoTable
    PROVE  RunIn(Schema(tb, vw, sd, ow), Lines("alter", L)) =
               Schema(Made(tb, Part(L, Len(L))), vw, sd, ow)
<1> DEFINE D == [i \in 0..Len(L) |-> Schema(Made(tb, Part(L, i)), vw, sd, ow)]
<1>1. \A i \in 1..Len(L) : D[i] = Execute(D[i - 1], Line("alter", L[i]))
  <2> TAKE i \in 1..Len(L)
  <2> DEFINE tb1 == Made(tb, Part(L, i - 1))
  <2>1. /\ Part(L, i) = Part(L, i - 1) \cup {L[i]}
        /\ i - 1 \in 0..Len(L) /\ L[i] \in Table
    BY PartFacts
  <2>2. tb1 \in [Table -> Row]
    BY MadeFacts
  <2>9. Made(tb1, {L[i]}) = Made(tb, Part(L, i))
    <3>1. Made(tb1, {L[i]}) = Made(tb, Part(L, i - 1) \cup {L[i]})
      BY DEF Made
    <3> QED
      BY <2>1, <3>1
  <2>3. ASSUME NEW t \in Part(L, i - 1) PROVE after.table[t] # NoTable
    <3>1. PICK j \in 1..(i - 1) : t = L[j]
      BY DEF Part
    <3> QED
      BY <3>1, <2>1
  <2>4. tb1[L[i]] = before.table[L[i]]
    BY DEF Made
  <2>5. \A t \in Referred(L[i]) : tb1[t] # NoTable
    BY <2>3 DEF Made
  <2> HIDE DEF tb1
  <2>6. Execute(Schema(tb1, vw, sd, ow), Line("alter", L[i])) =
            Schema(Made(tb1, {L[i]}), vw, sd, ow)
    BY <2>2, <2>4, <2>5, AlterStep
  <2>7. D[i - 1] = Schema(tb1, vw, sd, ow)
    BY <2>1 DEF tb1
  <2>8. D[i] = Schema(Made(tb, Part(L, i)), vw, sd, ow)
    OBVIOUS
  <2> QED
    BY <2>6, <2>7, <2>8, <2>9
<1>2. D[0] = Schema(tb, vw, sd, ow)
  <2>1. Made(tb, Part(L, 0)) = tb
    BY PartFacts, MadeFacts
  <2> QED
    BY <2>1
<1>3. D[Len(L)] = Schema(Made(tb, Part(L, Len(L))), vw, sd, ow)
  OBVIOUS
<1> HIDE DEF D
<1>4. "alter" \in Verb
  BY DEF Verb
<1> DEFINE d == Schema(tb, vw, sd, ow)
<1> HIDE DEF d
<1>5. D[0] = d
  BY <1>2 DEF d
<1>6. RunIn(d, Lines("alter", L)) = D[Len(L)]
  BY <1>1, <1>4, <1>5, LinesRun
<1> QED
  BY <1>3, <1>6 DEF d

LEMMA ViewIsNoTable ==
    /\ View \notin Table /\ View \notin Reference /\ View # Elsewhere
    /\ Elsewhere \notin Table
    /\ Object = Table \cup {View}
  BY TableAssumption DEF View, Table, Reference, Elsewhere, Object

LEMMA WithoutView ==
    ASSUME NEW tb \in [Table -> Row], NEW D
    PROVE  Without(tb, D \cup {View}) = Without(tb, D)
<1>1. ASSUME NEW u \in Table
      PROVE  Unlinked(tb[u], D \cup {View}) = Unlinked(tb[u], D)
  <2>1. tb[u].refs \ (D \cup {View}) = tb[u].refs \ D
    BY RowFacts, ViewIsNoTable
  <2> QED
    BY <2>1 DEF Unlinked
<1> QED
  BY <1>1, ViewIsNoTable DEF Without

LEMMA EmptiedView ==
    ASSUME NEW sd \in Rows, NEW D
    PROVE  Emptied(sd, D \cup {View}) = Emptied(sd, D)
  BY ViewIsNoTable DEF Emptied, Replenished

\* A schema without the objects P.
Dropped(tb, vw, sd, ow, P) ==
    Schema(Without(tb, P), IF View \in P THEN 0 ELSE vw,
           Emptied(sd, P), ow \ P)

LEMMA DropStep ==
    ASSUME NEW tb \in [Table -> Row], NEW vw, NEW sd \in Rows, NEW ow, NEW P,
           NEW o \in Object, o \notin P,
           o \in Table => tb[o] # NoTable,
           o = View => vw # 0
    PROVE  Execute(Dropped(tb, vw, sd, ow, P), Line("drop", o)) =
               Dropped(tb, vw, sd, ow, P \cup {o})
<1> DEFINE tb1 == Without(tb, P)
           vw1 == IF View \in P THEN 0 ELSE vw
           sd1 == Emptied(sd, P)
           ow1 == ow \ P
<1>1. Dropped(tb, vw, sd, ow, P) = Schema(tb1, vw1, sd1, ow1)
  BY DEF Dropped
<1>2. tb1 \in [Table -> Row] /\ (o \in Table => tb1[o] # NoTable)
  BY WithoutFacts
<1>3. /\ sd1 \in Rows /\ Emptied(sd, P \cup {o}) = Emptied(sd1, {o})
      /\ ow \ (P \cup {o}) = ow1 \ {o}
  BY EmptiedFacts
<1>4. CASE o \in Table
  <2>1. Without(tb1, {o}) = Without(tb, P \cup {o})
    BY WithoutFacts
  <2>2. vw1 = IF View \in P \cup {o} THEN 0 ELSE vw
    BY <1>4, ViewIsNoTable
  <2>3. Dropped(tb, vw, sd, ow, P \cup {o}) =
            Schema(Without(tb1, {o}), vw1, Emptied(sd1, {o}), ow1 \ {o})
    BY <1>3, <2>1, <2>2 DEF Dropped
  <2> HIDE DEF tb1, vw1, sd1, ow1
  <2>4. Execute(Schema(tb1, vw1, sd1, ow1), Line("drop", o)) =
            Schema(Without(tb1, {o}), vw1, Emptied(sd1, {o}), ow1 \ {o})
    BY <1>2, <1>3, <1>4, DropTableStep
  <2> QED
    BY <1>1, <2>3, <2>4
<1>5. CASE o = View
  <2>1. Without(tb, P \cup {o}) = tb1
    BY <1>5, WithoutView
  <2>2. vw1 # 0 /\ View \in P \cup {o}
    BY <1>5
  <2>3. Emptied(sd, P \cup {o}) = sd1
    BY <1>5, EmptiedView
  <2>4. Dropped(tb, vw, sd, ow, P \cup {o}) = Schema(tb1, 0, sd1, ow1 \ {View})
    BY <1>3, <1>5, <2>1, <2>2, <2>3 DEF Dropped
  <2> HIDE DEF tb1, vw1, sd1, ow1
  <2>5. Execute(Schema(tb1, vw1, sd1, ow1), Line("drop", View)) =
            Schema(tb1, 0, sd1, ow1 \ {View})
    BY <2>2, DropViewStep
  <2> QED
    BY <1>1, <1>5, <2>4, <2>5
<1> QED
  BY <1>4, <1>5, ViewIsNoTable

LEMMA DropSection ==
    ASSUME NEW tb \in [Table -> Row], NEW vw, NEW sd \in Rows, NEW ow,
           NEW L \in Seq(Object),
           \A i \in 1..Len(L) :
               /\ L[i] \notin Part(L, i - 1)
               /\ L[i] \in Table => tb[L[i]] # NoTable
               /\ L[i] = View => vw # 0
    PROVE  RunIn(Schema(tb, vw, sd, ow), Lines("drop", L)) =
               Dropped(tb, vw, sd, ow, Part(L, Len(L)))
<1> DEFINE D == [i \in 0..Len(L) |-> Dropped(tb, vw, sd, ow, Part(L, i))]
<1>1. \A i \in 1..Len(L) : D[i] = Execute(D[i - 1], Line("drop", L[i]))
  <2> TAKE i \in 1..Len(L)
  <2>1. /\ Part(L, i) = Part(L, i - 1) \cup {L[i]}
        /\ i - 1 \in 0..Len(L) /\ L[i] \in Object
    BY PartFacts
  <2>2. Execute(Dropped(tb, vw, sd, ow, Part(L, i - 1)), Line("drop", L[i])) =
            Dropped(tb, vw, sd, ow, Part(L, i - 1) \cup {L[i]})
    BY <2>1, DropStep
  <2>3. D[i - 1] = Dropped(tb, vw, sd, ow, Part(L, i - 1))
    BY <2>1
  <2>4. D[i] = Dropped(tb, vw, sd, ow, Part(L, i))
    OBVIOUS
  <2> QED
    BY <2>1, <2>2, <2>3, <2>4
<1>2. D[0] = Schema(tb, vw, sd, ow)
  <2>1. /\ Part(L, 0) = {} /\ Without(tb, {}) = tb /\ Emptied(sd, {}) = sd
        /\ ow \ {} = ow
    BY PartFacts, WithoutFacts, EmptiedFacts
  <2>2. Dropped(tb, vw, sd, ow, {}) = Schema(tb, vw, sd, ow)
    BY <2>1 DEF Dropped
  <2>3. D[0] = Dropped(tb, vw, sd, ow, Part(L, 0))
    BY PartFacts
  <2> QED
    BY <2>1, <2>2, <2>3
<1>3. D[Len(L)] = Dropped(tb, vw, sd, ow, Part(L, Len(L)))
  OBVIOUS
<1> HIDE DEF D
<1>4. "drop" \in Verb
  BY DEF Verb
<1> DEFINE d == Schema(tb, vw, sd, ow)
<1> HIDE DEF d
<1>5. D[0] = d
  BY <1>2 DEF d
<1>6. RunIn(d, Lines("drop", L)) = D[Len(L)]
  BY ONLY L \in Seq(Object), <1>1, <1>4, <1>5, LinesRun
<1> QED
  BY <1>3, <1>6 DEF d

\* A schema in which the tables D have been recreated.
Redone(tb, D) ==
    [u \in Table |-> IF u \in D THEN after.table[u] ELSE Unlinked(tb[u], D)]

\* One table is recreated, after the tables D.
LEMMA RedoneStep ==
    ASSUME NEW tb \in [Table -> Row], after.table \in [Table -> Row],
           NEW D, NEW o \in Table, o \notin D,
           \A u \in D : u \in Table => o \notin after.table[u].refs
    PROVE  /\ Redone(tb, D) \in [Table -> Row]
           /\ Made(Without(Redone(tb, D), {o}), {o}) = Redone(tb, D \cup {o})
<1>1. ASSUME NEW u \in Table
      PROVE  /\ tb[u] \in Row /\ after.table[u] \in Row
             /\ Unlinked(tb[u], D) \in Row
             /\ u \in D => Unlinked(after.table[u], {o}) = after.table[u]
             /\ Unlinked(Unlinked(tb[u], D), {o}) = Unlinked(tb[u], D \cup {o})
  <2>1. tb[u] \in Row /\ after.table[u] \in Row
    OBVIOUS
  <2>2. u \in D => after.table[u].refs \cap {o} = {}
    OBVIOUS
  <2> QED
    BY <2>1, <2>2, RowFacts, UnlinkedFacts
<1>2. Redone(tb, D) \in [Table -> Row]
  BY <1>1 DEF Redone
<1>3. ASSUME NEW u \in Table
      PROVE  Made(Without(Redone(tb, D), {o}), {o})[u] = Redone(tb, D \cup {o})[u]
  <2>1. CASE u = o
    BY <2>1 DEF Made, Redone
  <2>2. CASE u # o /\ u \in D
    BY <2>2, <1>1 DEF Made, Without, Redone
  <2>3. CASE u # o /\ u \notin D
    BY <2>3, <1>1 DEF Made, Without, Redone
  <2> QED
    BY <2>1, <2>2, <2>3
<1>4. Made(Without(Redone(tb, D), {o}), {o}) = Redone(tb, D \cup {o})
  BY <1>3 DEF Made, Redone
<1> QED
  BY <1>2, <1>4

LEMMA RecreationsFacts ==
    ASSUME NEW L, L = ByPath(With("recreate")), L \in Seq(Object)
    PROVE  /\ Recreations \in Seq(AnyLine)
           /\ Len(Recreations) = 2 * Len(L)
           /\ \A k \in 1..Len(L) : /\ Recreations[2 * k - 1] = Line("recreate", L[k])
                                   /\ Recreations[2 * k] = Line("create", L[k])
<1> DEFINE n == 2 * Len(L)
           line(i) == IF i % 2 = 1 THEN Line("recreate", L[(i + 1) \div 2])
                                   ELSE Line("create", L[i \div 2])
<1>1. Recreations = [i \in 1..n |-> line(i)]
  BY DEF Recreations
<1>2. Len(L) \in Nat /\ n \in Nat /\ \A k \in 1..Len(L) : L[k] \in Object
  OBVIOUS
<1>3. ASSUME NEW i \in 1..n
      PROVE  (i % 2 = 1 => (i + 1) \div 2 \in 1..Len(L))
             /\ (i % 2 # 1 => i \div 2 \in 1..Len(L))
  BY <1>2
<1>4. ASSUME NEW i \in 1..n PROVE line(i) \in AnyLine
  BY <1>2, <1>3 DEF Line, AnyLine, Verb
<1>5. Recreations \in [1..n -> AnyLine]
  BY <1>1, <1>4
<1>6. Recreations \in Seq(AnyLine)
  BY <1>2, <1>5, SeqDef
<1>7. DOMAIN Recreations = 1..n
  BY <1>1
<1>8. Len(Recreations) = n
  BY <1>2, <1>6, <1>7
<1>9. ASSUME NEW k \in 1..Len(L)
      PROVE  /\ 2 * k - 1 \in 1..n /\ 2 * k \in 1..n
             /\ (2 * k - 1) % 2 = 1 /\ (2 * k) % 2 # 1
             /\ (2 * k - 1 + 1) \div 2 = k /\ (2 * k) \div 2 = k
  BY <1>2
<1> QED
  BY <1>1, <1>6, <1>8, <1>9

LEMMA RecreationSection ==
    ASSUME NEW tb \in [Table -> Row], NEW vw, NEW sd \in Rows, NEW ow,
           after.table \in [Table -> Row],
           NEW L, L = ByPath(With("recreate")), L \in Seq(Object),
           \A i \in 1..Len(L) :
               /\ L[i] \in Table /\ L[i] \notin Part(L, i - 1)
               /\ tb[L[i]] # NoTable
               /\ \A t \in Part(L, i - 1) : L[i] \notin after.table[t].refs
               /\ \A t \in Referred(L[i]) : t \in Table /\ tb[t] # NoTable /\ t # L[i],
           \A i \in 1..Len(L) : after.table[L[i]] # NoTable
    PROVE  RunIn(Schema(tb, vw, sd, ow), Recreations) =
               Schema(Redone(tb, Part(L, Len(L))), vw,
                      Emptied(sd, Part(L, Len(L))), ow)
<1> DEFINE S(i) == Schema(Redone(tb, Part(L, i)), vw, Emptied(sd, Part(L, i)), ow)
           d == Schema(tb, vw, sd, ow)
<1>1. /\ Len(L) \in Nat /\ Len(Recreations) = 2 * Len(L) /\ Len(Recreations) \in Nat
      /\ \A k \in 1..Len(L) : /\ Recreations[2 * k - 1] = Line("recreate", L[k])
                              /\ Recreations[2 * k] = Line("create", L[k])
  BY RecreationsFacts
<1> HIDE DEF d
<1>2. PICK D : /\ D[0] = d
               /\ \A i \in 1..Len(Recreations) : D[i] = Execute(D[i - 1], Recreations[i])
               /\ RunIn(d, Recreations) = D[Len(Recreations)]
  <2>1. Len(Recreations) \in Nat
    BY <1>1
  <2> QED
    BY ONLY <2>1, RunSteps
<1>3. D[0] = S(0)
  <2>1. Part(L, 0) = {}
    BY PartFacts
  <2>2. \A u \in Table : Unlinked(tb[u], {}) = tb[u]
    BY UnlinkedFacts
  <2>3. Redone(tb, {}) = tb
    BY <2>2 DEF Redone
  <2> QED
    BY <1>2, <2>1, <2>3, EmptiedFacts DEF d
<1>4. ASSUME NEW k \in 1..Len(L), D[2 * (k - 1)] = S(k - 1)
      PROVE  D[2 * k] = S(k)
  <2> DEFINE P == Part(L, k - 1)
             tb1 == Redone(tb, P)
             tb2 == Without(tb1, {L[k]})
             sd1 == Emptied(sd, P)
             sd2 == Emptied(sd, P \cup {L[k]})
  <2>1. /\ Part(L, k) = P \cup {L[k]}
        /\ L[k] \in Table /\ L[k] \notin P
    BY PartFacts
  <2>2. \A t \in P : t \in Table /\ after.table[t] # NoTable
    <3>1. \A j \in 1..(k - 1) : j \in 1..Len(L)
      BY <1>1
    <3> QED
      BY <3>1 DEF Part
  <2>3. /\ tb1 \in [Table -> Row]
        /\ Made(tb2, {L[k]}) = Redone(tb, P \cup {L[k]})
    <3>1. \A u \in P : u \in Table => L[k] \notin after.table[u].refs
      OBVIOUS
    <3> HIDE DEF P
    <3> QED
      BY <2>1, <3>1, RedoneStep
  <2>4. ASSUME NEW t \in Table, tb[t] # NoTable PROVE tb1[t] # NoTable
    <3>1. tb[t] \in Row
      OBVIOUS
    <3>2. Unlinked(tb[t], P) # NoTable
      BY <2>4, <3>1, RowFacts
    <3> QED
      BY <2>2, <3>2 DEF Redone
  <2>5. tb1[L[k]] # NoTable
    BY <2>1, <2>4
  <2>10. sd1 \in Rows /\ sd2 = Emptied(sd1, {L[k]})
    <3> HIDE DEF P
    <3> QED
      BY EmptiedFacts
  <2> HIDE DEF P, tb1, sd1, sd2
  <2>6. /\ tb2 \in [Table -> Row] /\ tb2[L[k]] = NoTable
        /\ \A t \in Referred(L[k]) : tb2[t] # NoTable
    BY <2>1, <2>3, <2>4, WithoutFacts
  <2>7. D[2 * k - 1] = Schema(tb2, vw, sd2, ow)
    <3>1. /\ 2 * k - 1 \in 1..Len(Recreations)
          /\ (2 * k - 1) - 1 = 2 * (k - 1)
      BY <1>1
    <3>2. D[2 * k - 1] = Execute(D[2 * (k - 1)], Line("recreate", L[k]))
      BY <1>1, <1>2, <3>1
    <3>3. D[2 * (k - 1)] = Schema(tb1, vw, sd1, ow)
      BY <1>4 DEF P, tb1, sd1
    <3>4. Execute(Schema(tb1, vw, sd1, ow), Line("recreate", L[k])) =
              Schema(tb2, vw, sd2, ow)
      BY <2>1, <2>3, <2>5, <2>10, RecreateStep
    <3> QED
      BY <3>2, <3>3, <3>4
  <2>8. D[2 * k] = Execute(D[2 * k - 1], Line("create", L[k]))
    BY <1>1, <1>2
  <2> HIDE DEF tb2
  <2>9. Execute(Schema(tb2, vw, sd2, ow), Line("create", L[k])) =
            Schema(Made(tb2, {L[k]}), vw, sd2, ow)
    BY <2>1, <2>6, CreateStep
  <2> QED
    BY <2>1, <2>3, <2>7, <2>8, <2>9 DEF P, sd2
<1> DEFINE Bad == {k \in 0..Len(L) : D[2 * k] # S(k)}
<1>5. ASSUME Bad # {} PROVE FALSE
  <2>1. Bad \in SUBSET Nat
    OBVIOUS
  <2>2. PICK k \in Bad : \A j \in Bad : k <= j
    BY <1>5, <2>1, LeastExists
  <2>3. k \in 0..Len(L) /\ D[2 * k] # S(k)
    OBVIOUS
  <2> HIDE DEF S
  <2>4. k # 0
    BY <1>1, <1>3, <2>3
  <2>5. k - 1 \in 0..Len(L) /\ ~ (k <= k - 1) /\ k \in 1..Len(L)
    BY <1>1, <2>3, <2>4
  <2>6. D[2 * (k - 1)] = S(k - 1)
    BY <2>2, <2>5
  <2> HIDE DEF Bad
  <2> QED
    BY <1>4, <2>3, <2>5, <2>6
<1>6. D[2 * Len(L)] = S(Len(L))
  <2> HIDE DEF S
  <2> QED
    BY <1>1, <1>5
<1> QED
  BY <1>1, <1>2, <1>6 DEF d

-----------------------------------------------------------------------------
(* Sections by path and in the order of the tables *)

LEMMA ByPathFacts ==
    ASSUME NEW S \in SUBSET Object, NEW L, L = ByPath(S)
    PROVE  /\ L \in Seq(Object) /\ Len(L) \in Nat
           /\ Part(L, Len(L)) = S
           /\ \A i \in 1..Len(L) : /\ L[i] \in S /\ L[i] \notin Part(L, i - 1)
                                   /\ \A t \in Part(L, i - 1) : t < L[i] /\ t \in S
           /\ L = <<>> <=> S = {}
<1> DEFINE s == [o \in Object |-> o]
<1>1. View \in Nat /\ Object = 1..View
  BY TableAssumption DEF View, Object
<1>2. s \in Seq(Object) /\ Len(s) = View /\ \A i \in 1..View : s[i] = i
  <2>1. s \in [1..View -> Object]
    BY <1>1
  <2>2. s \in Seq(Object)
    BY <1>1, <2>1, SeqDef
  <2>3. DOMAIN s = 1..View
    BY <1>1
  <2>4. Len(s) = View
    BY <1>1, <2>2, <2>3
  <2> QED
    BY <1>1, <2>2, <2>4
<1> HIDE DEF s
<1>3. L = Chosen(s, S)
  BY DEF ByPath, s
<1>4. PICK h : Picks(L, h, s, S, View)
  BY <1>2, <1>3, ChosenPicks
<1>5. /\ L \in Seq(S) /\ Len(L) \in Nat
      /\ h \in [1..Len(L) -> 1..View]
      /\ \A i \in 1..Len(L) : L[i] = s[h[i]]
      /\ \A i, j \in 1..Len(L) : i < j => h[i] < h[j]
      /\ \A k \in 1..View : s[k] \in S => \E i \in 1..Len(L) : h[i] = k
  BY <1>4 DEF Picks
<1>6. \A i \in 1..Len(L) : L[i] = h[i] /\ L[i] \in S
  BY <1>2, <1>5
<1>7. ASSUME NEW i \in 1..Len(L), NEW t \in Part(L, i - 1)
      PROVE  t < L[i] /\ t \in S
  <2>1. PICK j \in 1..(i - 1) : t = L[j]
    BY DEF Part
  <2>2. j \in 1..Len(L) /\ j < i
    BY <1>5
  <2> QED
    BY <1>5, <1>6, <2>1, <2>2
<1>8. \A i \in 1..Len(L) : L[i] \notin Part(L, i - 1)
  <2>1. \A i \in 1..Len(L) : ~ (L[i] < L[i])
    <3> TAKE i \in 1..Len(L)
    <3>1. L[i] \in Nat
      <4>1. Object \subseteq Nat
        BY <1>1
      <4>2. L[i] \in S
        BY <1>6
      <4> QED
        BY <4>1, <4>2
    <3> QED
      BY <3>1
  <2> QED
    BY <1>7, <2>1
<1>9. Part(L, Len(L)) = S
  <2>1. ASSUME NEW o \in S PROVE o \in Part(L, Len(L))
    <3>1. o \in 1..View /\ s[o] = o
      BY <1>1, <1>2
    <3>2. PICK i \in 1..Len(L) : h[i] = o
      BY <1>5, <3>1
    <3>3. L[i] = o
      BY <1>6, <3>2
    <3> QED
      BY <3>3 DEF Part
  <2>2. Part(L, Len(L)) \subseteq S
    BY <1>6 DEF Part
  <2> QED
    BY <2>1, <2>2
<1>10. L = <<>> <=> S = {}
  <2>1. L = <<>> <=> Len(L) = 0
    BY <1>5
  <2>2. Len(L) = 0 => Part(L, Len(L)) = {}
    BY DEF Part
  <2>3. Len(L) # 0 => L[1] \in S
    BY <1>5, <1>6
  <2> QED
    BY <1>9, <2>1, <2>2, <2>3
<1>11. L \in Seq(Object)
  BY <1>5, SeqMonotonic
<1> QED
  BY <1>5, <1>6, <1>7, <1>8, <1>9, <1>10, <1>11

\* Without a circle all tables are placed, and none refers to itself.
LEMMA AllPlaced ==
    ASSUME OrderInv, Finished, ~ Circular
    PROVE  /\ Placed = names
           /\ \A i, j \in 1..Len(sorted) : i # j => sorted[i] # sorted[j]
           /\ \A j \in 1..Len(sorted) :
                  \A p \in Parents(sorted[j]) : \E i \in 1..(j - 1) : sorted[i] = p
           /\ \A t \in names : t \notin refs[t]
<1>1. sorted \in Seq(names) /\ Len(sorted) \in Nat /\ names \subseteq Table
  BY DEF OrderInv, OrderTypeOK
<1>2. /\ \A j \in 1..Len(sorted) :
             \A p \in Parents(sorted[j]) : \E i \in 1..(j - 1) : sorted[i] = p
      /\ \A j \in 1..Len(sorted) : \A i \in 1..(j - 1) : sorted[i] # sorted[j]
  BY DEF OrderInv, ParentsFirst
<1>3. \A i, j \in 1..Len(sorted) : i # j => sorted[i] # sorted[j]
  <2> SUFFICES ASSUME NEW i \in 1..Len(sorted), NEW j \in 1..Len(sorted), i # j
               PROVE  sorted[i] # sorted[j]
    OBVIOUS
  <2>1. i < j \/ j < i
    OBVIOUS
  <2>2. i < j => i \in 1..(j - 1)
    OBVIOUS
  <2>3. j < i => j \in 1..(i - 1)
    OBVIOUS
  <2> QED
    BY <1>2, <2>1, <2>2, <2>3
<1>4. IsFiniteSet(names)
  <2>1. IsFiniteSet(Table)
    BY TableAssumption, FS_Interval DEF Table
  <2> QED
    BY <1>1, <2>1, FS_Subset
<1>5. Placed \subseteq names
  BY <1>1 DEF Placed
<1>6. Cardinality(Placed) = Len(sorted)
  <2> DEFINE f == [i \in 1..Len(sorted) |-> sorted[i]]
             I == 1..Len(sorted)
  <2>1. IsFiniteSet(I) /\ Cardinality(I) = Len(sorted)
    BY <1>1, FS_Interval
  <2>2. f \in Bijection(I, Placed)
    BY <1>1, <1>3 DEF Bijection, Injection, Surjection, IsInjective, Placed
  <2> HIDE DEF f, I
  <2>3. ExistsBijection(I, Placed)
    BY <2>2 DEF ExistsBijection
  <2> QED
    BY <2>1, <2>3, FS_Bijection
<1>7. Placed = names
  <2>1. Cardinality(names) \in Nat
    BY <1>4, FS_CardinalityType
  <2>2. ~ (Len(sorted) < Cardinality(names))
    BY DEF Circular
  <2>3. Placed # names => Cardinality(Placed) < Cardinality(names)
    <3>1. Placed \in SUBSET names
      BY <1>5
    <3>2. IsFiniteSet(Placed) /\ Cardinality(Placed) <= Cardinality(names)
      BY <1>4, <3>1, FS_Subset
    <3>3. Cardinality(names) = Cardinality(Placed) => names = Placed
      BY <1>4, <3>1, FS_Subset
    <3>4. Cardinality(Placed) \in Nat
      BY <3>2, FS_CardinalityType
    <3> QED
      BY <2>1, <3>2, <3>3, <3>4
  <2> QED
    BY <1>6, <2>2, <2>3
<1>8. ASSUME NEW t \in names PROVE t \notin refs[t]
  <2>1. PICK j \in 1..Len(sorted) : sorted[j] = t
    BY <1>7 DEF Placed
  <2>2. \A i \in 1..(j - 1) : i \in 1..Len(sorted) /\ i # j
    BY <1>1
  <2>3. t \notin Parents(t)
    <3>1. ASSUME t \in Parents(t) PROVE FALSE
      <4>1. PICK i \in 1..(j - 1) : sorted[i] = t
        BY <1>2, <2>1, <3>1
      <4>2. i \in 1..Len(sorted) /\ i # j
        BY <2>2
      <4> QED
        BY <1>3, <2>1, <4>1, <4>2
    <3> QED
      BY <3>1
  <2> QED
    BY <2>3 DEF Parents
<1> QED
  BY <1>2, <1>3, <1>7, <1>8

LEMMA InOrderFacts ==
    ASSUME OrderInv, Finished, ~ Circular, NEW S \in SUBSET names, NEW L, L = InOrder(S)
    PROVE  /\ L \in Seq(Object) /\ Len(L) \in Nat
           /\ Part(L, Len(L)) = S
           /\ \A i \in 1..Len(L) :
                  /\ L[i] \in S /\ L[i] \notin Part(L, i - 1)
                  /\ \A p \in Parents(L[i]) \cap S : p \in Part(L, i - 1)
<1>1. sorted \in Seq(names) /\ names \subseteq Table /\ S \subseteq Object
  BY ViewIsNoTable DEF OrderInv, OrderTypeOK
<1>2. /\ Placed = names
      /\ \A i, j \in 1..Len(sorted) : i # j => sorted[i] # sorted[j]
      /\ \A j \in 1..Len(sorted) :
             \A p \in Parents(sorted[j]) : \E i \in 1..(j - 1) : sorted[i] = p
  BY AllPlaced
<1>3. L = Chosen(sorted, S)
  BY DEF InOrder
<1>4. /\ L \in Seq(S)
      /\ {L[i] : i \in 1..Len(L)} = S \cap {sorted[i] : i \in 1..Len(sorted)}
      /\ \A i, j \in 1..Len(L) : i # j => L[i] # L[j]
      /\ \A k \in 1..Len(sorted), j \in 1..Len(L) :
             sorted[k] \in S /\ (\E m \in 1..Len(sorted) : k < m /\ sorted[m] = L[j]) =>
                 \E i \in 1..(j - 1) : L[i] = sorted[k]
  <2>1. Selection(L, sorted, S)
    BY <1>1, <1>2, <1>3, ChosenSelects
  <2> QED
    BY <2>1 DEF Selection
<1>5. Len(L) \in Nat /\ \A i \in 1..Len(L) : L[i] \in S
  BY <1>4
<1>6. Part(L, Len(L)) = S
  BY <1>2, <1>4 DEF Part, Placed
<1>7. ASSUME NEW i \in 1..Len(L) PROVE L[i] \notin Part(L, i - 1)
  <2>1. \A j \in 1..(i - 1) : j \in 1..Len(L) /\ j # i
    BY <1>5
  <2> QED
    BY <1>4, <2>1 DEF Part
<1>8. ASSUME NEW j \in 1..Len(L), NEW p \in Parents(L[j]) \cap S
      PROVE  p \in Part(L, j - 1)
  <2>1. L[j] \in Placed
    BY <1>2, <1>5
  <2>2. PICK m \in 1..Len(sorted) : sorted[m] = L[j]
    BY <2>1 DEF Placed
  <2>3. PICK k \in 1..(m - 1) : sorted[k] = p
    BY <1>2, <2>2
  <2>4. k \in 1..Len(sorted) /\ k < m
    BY <1>1
  <2>5. \E i \in 1..(j - 1) : L[i] = p
    BY <1>4, <2>2, <2>3, <2>4
  <2> QED
    BY <2>5 DEF Part
<1>9. L \in Seq(Object)
  BY <1>1, <1>4, SeqMonotonic
<1> QED
  BY <1>5, <1>6, <1>7, <1>8, <1>9

-----------------------------------------------------------------------------
(* The install script *)

\* The schema of a tree.
Full(x) == Schema(x.table, x.view, x.seeds, Objects(x))

\* Sorting is over, of a tree that was committed.
Ordered ==
    /\ OrderInv /\ Finished /\ ~ Circular
    /\ names = Tables(after)
    /\ refs = [t \in Table |-> after.table[t].refs]
    /\ Sane(after)
    /\ after \in Tree

LEMMA TreeFacts ==
    ASSUME NEW x \in Tree
    PROVE  /\ x.table \in [Table -> Row]
           /\ x.view \in Nat
           /\ x.seeds \in Rows
           /\ Seeded(x) \in SUBSET Table
           /\ Tables(x) \in SUBSET Table /\ Tables(x) \in SUBSET Object
           /\ \A t \in Table : t \in Tables(x) <=> x.table[t] # NoTable
           /\ Objects(x) \in SUBSET Object
           /\ View \in Objects(x) <=> x.view # 0
           /\ Objects(x) \cap Table = Tables(x)
           /\ \A o \in Objects(x) : o \in Tables(x) \/ o = View
<1>1. /\ x.table \in [Table -> TableDDL \cup {NoTable}]
      /\ x.view \in 0..MaxForm
      /\ x.seeds \in [Table -> 0..MaxForm]
  BY DEF Tree
<1>2. TableDDL \cup {NoTable} \subseteq Row
  <2>1. ForeignKeys \subseteq SUBSET Reference /\ MaxForm \in Nat
    BY GenerationAssumption
  <2>2. TableDDL \subseteq [form: Nat \ {0}, refs: SUBSET Reference]
    BY <2>1 DEF TableDDL
  <2> QED
    BY <2>2 DEF Row
<1>3. x.table \in [Table -> Row]
  BY <1>1, <1>2
<1>4. x.view \in Nat
  BY <1>1, GenerationAssumption
<1>5. x.seeds \in Rows
  BY <1>1, GenerationAssumption DEF Rows
<1> QED
  BY <1>1, <1>3, <1>4, <1>5, ViewIsNoTable DEF Tables, Objects, Seeded

LEMMA OrderedFacts ==
    ASSUME Ordered
    PROVE  \A t \in Tables(after) :
               /\ Referred(t) \subseteq Tables(after)
               /\ Referred(t) \subseteq Parents(t)
               /\ t \notin Referred(t)
               /\ Elsewhere \notin Referred(t)
<1> SUFFICES ASSUME NEW t \in Tables(after)
             PROVE  /\ Referred(t) \subseteq Tables(after)
                    /\ Referred(t) \subseteq Parents(t)
                    /\ t \notin Referred(t)
                    /\ Elsewhere \notin Referred(t)
  OBVIOUS
<1>1. t \in Table /\ refs[t] = after.table[t].refs
  BY DEF Ordered, Tables
<1>2. after.table[t].refs \subseteq Tables(after) \cup {Elsewhere}
  BY DEF Ordered, Sane
<1>3. t \notin refs[t]
  <2>1. \A u \in names : u \notin refs[u]
    BY AllPlaced DEF Ordered
  <2> QED
    BY <2>1 DEF Ordered
<1>4. names = Tables(after)
  BY DEF Ordered
<1> QED
  BY <1>1, <1>2, <1>3, <1>4 DEF Referred, Parents

\* The sections that begin with an empty schema.
LEMMA InstallRun ==
    ASSUME Ordered
    PROVE  RunIn(Bare, InstallScript) = Full(after)
<1> DEFINE All == Objects(after)
           Views == Objects(after) \ Table
           L1 == ByPath(All)
           L2 == InOrder(Tables(after))
           L3 == ByPath(Views)
           L4 == InOrder(Seeded(after))
           none == [t \in Table |-> NoTable]
<1>1. /\ after \in Tree /\ names = Tables(after)
      /\ OrderInv /\ Finished /\ ~ Circular /\ Sane(after)
  BY DEF Ordered
<1>2. /\ after.table \in [Table -> Row]
      /\ after.view \in Nat
      /\ after.seeds \in Rows /\ Seeded(after) \in SUBSET Table
      /\ Tables(after) \in SUBSET Table
      /\ \A t \in Table : t \in Tables(after) <=> after.table[t] # NoTable
      /\ Objects(after) \in SUBSET Object
      /\ View \in Objects(after) <=> after.view # 0
      /\ \A o \in Objects(after) : o \in Tables(after) \/ o = View
  BY <1>1, TreeFacts
<1>3. Seeded(after) \in SUBSET names /\ Tables(after) \in SUBSET names
  BY <1>1 DEF Sane
<1>4. none \in [Table -> Row]
  BY RowFacts
<1>5. L1 \in Seq(Object) /\ Part(L1, Len(L1)) = All
  BY <1>2, ByPathFacts
<1>6. /\ L2 \in Seq(Object)
      /\ Part(L2, Len(L2)) = Tables(after)
      /\ \A i \in 1..Len(L2) :
             /\ L2[i] \in Tables(after) /\ L2[i] \notin Part(L2, i - 1)
             /\ \A p \in Parents(L2[i]) \cap Tables(after) : p \in Part(L2, i - 1)
  BY <1>1, <1>3, InOrderFacts
<1>7. L3 \in Seq(Object) /\ (L3 = <<>> <=> Views = {})
  <2>1. Views \in SUBSET Object
    BY <1>2
  <2> QED
    BY <2>1, ByPathFacts
<1>8. /\ L4 \in Seq(Object)
      /\ Part(L4, Len(L4)) = Seeded(after)
      /\ \A i \in 1..Len(L4) :
             /\ L4[i] \in Seeded(after) /\ L4[i] \notin Part(L4, i - 1)
             /\ \A p \in Parents(L4[i]) \cap Seeded(after) : p \in Part(L4, i - 1)
  BY <1>1, <1>3, InOrderFacts
<1> HIDE DEF L1, L2, L3, L4, none
<1>9. Bare = Schema(none, 0, NoRows, {}) /\ NoRows \in Rows
  BY DEF Bare, Schema, none, NoRows, Rows
<1>10. RunIn(Schema(none, 0, NoRows, {}), Lines("register", L1)) = Schema(none, 0, NoRows, All)
  <2>1. {} \cup All = All
    OBVIOUS
  <2> QED
    BY <1>5, <2>1, RegisterSection
<1>11. RunIn(Schema(none, 0, NoRows, All), Lines("create", L2)) =
           Schema(after.table, 0, NoRows, All)
  <2>1. \A i \in 1..Len(L2) :
            /\ L2[i] \in Table /\ L2[i] \notin Part(L2, i - 1)
            /\ none[L2[i]] = NoTable /\ after.table[L2[i]] # NoTable
            /\ \A t \in Referred(L2[i]) :
                   t \in Table /\ (none[t] # NoTable \/ t \in Part(L2, i - 1))
    <3> TAKE i \in 1..Len(L2)
    <3>1. L2[i] \in Tables(after) /\ L2[i] \in Table /\ L2[i] \notin Part(L2, i - 1)
      BY <1>2, <1>6
    <3>2. \A t \in Referred(L2[i]) : t \in Parents(L2[i]) \cap Tables(after)
      BY <3>1, OrderedFacts
    <3> QED
      BY <1>2, <1>6, <3>1, <3>2 DEF none
  <2>2. Made(none, Tables(after)) = after.table
    BY <1>2 DEF Made, none
  <2>3. RunIn(Schema(none, 0, NoRows, All), Lines("create", L2)) =
            Schema(Made(none, Part(L2, Len(L2))), 0, NoRows, All)
    <3> HIDE DEF All
    <3> QED
      BY <1>2, <1>4, <1>6, <2>1, CreateSection
  <2> QED
    BY <1>6, <2>2, <2>3
<1>12. RunIn(Schema(after.table, 0, NoRows, All), Lines("replace", L3)) =
           Schema(after.table, after.view, NoRows, All)
  <2>1. (IF L3 = <<>> THEN 0 ELSE after.view) = after.view
    BY <1>2, <1>7, ViewIsNoTable
  <2> HIDE DEF All
  <2>2. RunIn(Schema(after.table, 0, NoRows, All), Lines("replace", L3)) =
            Schema(after.table, IF L3 = <<>> THEN 0 ELSE after.view, NoRows, All)
    BY <1>7, ReplaceSection
  <2> QED
    BY <2>1, <2>2
<1>13. RunIn(Schema(after.table, after.view, NoRows, All), Lines("seed", L4)) = Full(after)
  <2>1. \A i \in 1..Len(L4) :
            /\ L4[i] \in Table /\ after.table[L4[i]] # NoTable
            /\ \A p \in Referred(L4[i]) \cap Seeded(after) :
                   NoRows[p] = after.seeds[p] \/ p \in Part(L4, i - 1)
    <3> TAKE i \in 1..Len(L4)
    <3>1. L4[i] \in Tables(after)
      BY <1>1, <1>3, <1>8
    <3>2. Referred(L4[i]) \subseteq Parents(L4[i])
      BY <3>1, OrderedFacts
    <3> QED
      BY <1>2, <1>8, <3>1, <3>2
  <2>2. Reloaded(NoRows, Seeded(after)) = after.seeds
    BY <1>2 DEF Reloaded, Replenished, NoRows, Rows, Seeded
  <2> HIDE DEF All
  <2>3. RunIn(Schema(after.table, after.view, NoRows, All), Lines("seed", L4)) =
            Schema(after.table, after.view, Reloaded(NoRows, Part(L4, Len(L4))), All)
    BY <1>2, <1>8, <1>9, <2>1, SeedSection
  <2> QED
    BY <1>8, <2>2, <2>3 DEF Full, All
<1> DEFINE a == Lines("register", L1)
           b == Lines("create", L2)
           c == Lines("replace", L3)
           d == Lines("seed", L4)
<1>14. /\ a \in Seq(AnyLine) /\ b \in Seq(AnyLine)
       /\ c \in Seq(AnyLine) /\ d \in Seq(AnyLine)
  <2>1. "register" \in Verb /\ "create" \in Verb /\ "replace" \in Verb /\ "seed" \in Verb
    BY DEF Verb
  <2> QED
    BY <1>5, <1>6, <1>7, <1>8, <2>1, LinesFacts
<1>15. InstallScript = ((a \o b) \o c) \o d
  BY DEF InstallScript, L1, L2, L3, L4
<1> HIDE DEF a, b, c, d
<1> DEFINE ab == a \o b
           abc == ab \o c
<1>16. ab \in Seq(AnyLine) /\ abc \in Seq(AnyLine)
  BY <1>14
<1>17. RunIn(Bare, ab) = RunIn(RunIn(Bare, a), b)
  BY <1>14, RunConcat
<1> HIDE DEF ab
<1>18. RunIn(Bare, abc) = RunIn(RunIn(Bare, ab), c)
  BY <1>14, <1>16, RunConcat
<1> HIDE DEF abc
<1>19. RunIn(Bare, abc \o d) = RunIn(RunIn(Bare, abc), d)
  BY <1>14, <1>16, RunConcat
<1>20. InstallScript = abc \o d
  BY <1>15 DEF ab, abc
<1> QED
  BY <1>9, <1>10, <1>11, <1>12, <1>13, <1>17, <1>18, <1>19, <1>20 DEF a, b, c, d

-----------------------------------------------------------------------------
(* The update script *)

LEMMA NoTwoScripts ==
    ASSUME NEW S, S \subseteq {"alter", "recreate", "drop"}, ~ (Cardinality(S) > 1)
    PROVE  ~ ("alter" \in S /\ "recreate" \in S)
<1> SUFFICES ASSUME "alter" \in S, "recreate" \in S PROVE FALSE
  OBVIOUS
<1> DEFINE E0 == {}
           E1 == E0 \cup {"alter"}
           E2 == E1 \cup {"recreate"}
           E3 == E2 \cup {"drop"}
<1>1. IsFiniteSet(E0) /\ Cardinality(E0) = 0
  BY FS_EmptySet
<1>2. IsFiniteSet(E1) /\ Cardinality(E1) = 1
  <2>1. "alter" \notin E0
    OBVIOUS
  <2> HIDE DEF E0
  <2> QED
    BY <1>1, <2>1, FS_AddElement
<1>3. IsFiniteSet(E2) /\ Cardinality(E2) = 2
  <2>1. "recreate" \notin E1
    OBVIOUS
  <2> HIDE DEF E1
  <2> QED
    BY <1>2, <2>1, FS_AddElement
<1>4. IsFiniteSet(E3)
  <2> HIDE DEF E2
  <2> QED
    BY <1>3, FS_AddElement
<1>5. S \in SUBSET E3 /\ E2 \in SUBSET S
  OBVIOUS
<1> HIDE DEF E2, E3
<1>6. IsFiniteSet(S)
  BY <1>4, <1>5, FS_Subset
<1>7. Cardinality(E2) <= Cardinality(S) /\ Cardinality(S) \in Nat
  BY <1>5, <1>6, FS_Subset, FS_CardinalityType
<1> QED
  BY <1>3, <1>7

\* What an update that the order serves begins with.
Updating ==
    /\ Ordered
    /\ before \in Tree
    /\ Sane(before)
    /\ scripts \in [Object -> SUBSET {"alter", "recreate", "drop"}]
    /\ ~ Conflicting
    /\ OrderServes

LEMMA UpdatingFacts ==
    ASSUME Updating
    PROVE  /\ With("drop") \in SUBSET Object
           /\ With("drop") \subseteq Objects(before)
           /\ With("drop") \cap Objects(after) = {}
           /\ With("alter") \subseteq Kept /\ With("recreate") \subseteq Kept
           /\ With("alter") \cap With("recreate") = {}
           /\ Kept \subseteq Tables(before) /\ Kept \subseteq Tables(after)
           /\ Kept \subseteq Table /\ Kept \subseteq Object
           /\ New \subseteq Tables(after) /\ New \cap Tables(before) = {}
           /\ New \subseteq Table /\ New \subseteq Object
           /\ Tables(after) = New \cup Kept
           /\ Replaced \in SUBSET Object /\ Replaced \subseteq {View}
           /\ View \in Replaced <=> after.view # before.view /\ after.view # 0
<1>1. /\ scripts \in [Object -> SUBSET {"alter", "recreate", "drop"}]
      /\ \A o \in Object : ~ (Cardinality(scripts[o]) > 1)
      /\ Evolved \subseteq Kept
  BY DEF Updating, Conflicting
<1>2. With("drop") \subseteq Objects(before) \ Objects(after)
  BY DEF Updating, OrderServes
<1>3. With("drop") \in SUBSET Object
  BY DEF With
<1>4. With("alter") \cap With("recreate") = {}
  <2>1. \A o \in Object : ~ ("alter" \in scripts[o] /\ "recreate" \in scripts[o])
    BY <1>1, NoTwoScripts
  <2> QED
    BY <2>1 DEF With
<1>5. With("alter") \subseteq Kept /\ With("recreate") \subseteq Kept
  BY <1>1 DEF Evolved
<1>6. /\ Kept \subseteq Tables(before) /\ Kept \subseteq Tables(after)
      /\ New \subseteq Tables(after) /\ New \cap Tables(before) = {}
      /\ Tables(after) = New \cup Kept
  BY DEF Kept, New
<1>7. Tables(after) \subseteq Table /\ Tables(after) \subseteq Object
  BY ViewIsNoTable DEF Tables
<1>8. /\ Replaced \in SUBSET Object /\ Replaced \subseteq {View}
      /\ View \in Replaced <=> after.view # before.view /\ after.view # 0
  BY ViewIsNoTable DEF Replaced
<1> QED
  BY <1>2, <1>3, <1>4, <1>5, <1>6, <1>7, <1>8

\* What the sections of an update leave of each part of the schema.
UpdatedTable ==
    Made(Redone(Made(Without(before.table, With("drop")), With("alter")),
                With("recreate")), New)
UpdatedView ==
    IF Replaced = {} THEN IF View \in With("drop") THEN 0 ELSE before.view
                     ELSE after.view
KeptSeeds == Emptied(Emptied(before.seeds, With("drop")), With("recreate"))
UpdatedSeeds == Reloaded(KeptSeeds, Reseeded)
UpdatedOwned == (Objects(before) \cup Registered) \ With("drop")

\* The tables after each section.
LEMMA SectionTables ==
    ASSUME Updating, NEW T1, T1 = Without(before.table, With("drop")),
           NEW T2, T2 = Made(T1, With("alter")),
           NEW T3, T3 = Redone(T2, With("recreate"))
    PROVE  /\ T1 \in [Table -> Row] /\ T2 \in [Table -> Row] /\ T3 \in [Table -> Row]
           /\ \A t \in Kept : T1[t] # NoTable /\ T2[t] # NoTable /\ T3[t] # NoTable
           /\ \A t \in Table \ Tables(before) :
                  T1[t] = NoTable /\ T2[t] = NoTable /\ T3[t] = NoTable
           /\ \A t \in With("alter") : T1[t] = before.table[t]
<1>1. /\ before \in Tree /\ after \in Tree
      /\ before.table \in [Table -> Row] /\ after.table \in [Table -> Row]
      /\ \A t \in Table : t \in Tables(before) <=> before.table[t] # NoTable
      /\ \A t \in Table : t \in Tables(after) <=> after.table[t] # NoTable
  BY TreeFacts DEF Updating, Ordered
<1>2. /\ With("drop") \cap Objects(after) = {}
      /\ With("alter") \subseteq Kept /\ With("recreate") \subseteq Kept
      /\ Kept \subseteq Tables(before) /\ Kept \subseteq Tables(after)
      /\ Kept \subseteq Table
      /\ Tables(after) \subseteq Objects(after)
  BY UpdatingFacts DEF Objects
<1>3. T1 \in [Table -> Row]
  BY <1>1, WithoutFacts
<1>4. T2 \in [Table -> Row]
  BY <1>1, <1>3, MadeFacts
<1>5. ASSUME NEW t \in Table
      PROVE  /\ T1[t] \in Row /\ T2[t] \in Row /\ after.table[t] \in Row
             /\ Unlinked(T2[t], With("recreate")) \in Row
             /\ Unlinked(T2[t], With("recreate")) = NoTable <=> T2[t] = NoTable
  BY <1>1, <1>3, <1>4, RowFacts
<1>6. T3 \in [Table -> Row]
  BY <1>5 DEF Redone
<1>7. ASSUME NEW t \in Kept PROVE T1[t] # NoTable /\ T2[t] # NoTable /\ T3[t] # NoTable
  <2>1. t \in Table /\ before.table[t] # NoTable /\ after.table[t] # NoTable
    BY <1>1, <1>2
  <2>2. T1[t] # NoTable
    BY <1>1, <1>2, <2>1, WithoutFacts
  <2>3. T2[t] # NoTable
    BY <2>1, <2>2 DEF Made
  <2>4. T3[t] # NoTable
    BY <1>5, <2>1, <2>3 DEF Redone
  <2> QED
    BY <2>2, <2>3, <2>4
<1>8. ASSUME NEW t \in Table \ Tables(before)
      PROVE  T1[t] = NoTable /\ T2[t] = NoTable /\ T3[t] = NoTable
  <2>1. before.table[t] = NoTable /\ t \notin With("alter") /\ t \notin With("recreate")
    BY <1>1, <1>2
  <2>2. T1[t] = NoTable
    BY <1>1, <2>1, WithoutFacts
  <2>3. T2[t] = NoTable
    BY <2>1, <2>2 DEF Made
  <2>4. T3[t] = NoTable
    BY <1>5, <2>1, <2>3 DEF Redone
  <2> QED
    BY <2>2, <2>3, <2>4
<1>9. ASSUME NEW t \in With("alter") PROVE T1[t] = before.table[t]
  <2>1. t \in Table /\ t \notin With("drop") /\ before.table[t] \in Row
    BY <1>1, <1>2
  <2>2. before.table[t].refs \cap With("drop") = {}
    BY DEF Updating, OrderServes
  <2>3. Unlinked(before.table[t], With("drop")) = before.table[t]
    BY <2>1, <2>2, UnlinkedFacts
  <2> QED
    BY <2>1, <2>3 DEF Without
<1> QED
  BY <1>3, <1>4, <1>6, <1>7, <1>8, <1>9

\* Kept tables do not refer to what an update creates.
LEMMA EvolvedRefer ==
    ASSUME Updating
    PROVE  \A t \in With("alter") \cup With("recreate") :
               /\ Referred(t) \subseteq Kept
               /\ t \notin Referred(t)
<1> SUFFICES ASSUME NEW t \in With("alter") \cup With("recreate")
             PROVE  Referred(t) \subseteq Kept /\ t \notin Referred(t)
  OBVIOUS
<1>1. t \in Tables(after) /\ Tables(after) = New \cup Kept
  BY UpdatingFacts
<1>2. Referred(t) \subseteq Tables(after) /\ t \notin Referred(t)
  BY <1>1, OrderedFacts DEF Updating
<1>3. Referred(t) \cap New = {}
  BY DEF Updating, OrderServes, Evolved
<1> QED
  BY <1>1, <1>2, <1>3

LEMMA DropRun ==
    ASSUME Updating, NEW ow
    PROVE  RunIn(Schema(before.table, before.view, before.seeds, ow),
                 Lines("drop", ByPath(With("drop")))) =
               Dropped(before.table, before.view, before.seeds, ow, With("drop"))
<1> DEFINE L == ByPath(With("drop"))
<1>1. /\ With("drop") \in SUBSET Object
      /\ With("drop") \subseteq Objects(before)
  BY UpdatingFacts
<1>2. /\ before.table \in [Table -> Row]
      /\ before.seeds \in Rows
      /\ \A t \in Table : t \in Tables(before) <=> before.table[t] # NoTable
      /\ View \in Objects(before) <=> before.view # 0
      /\ Objects(before) \cap Table = Tables(before)
  BY TreeFacts DEF Updating
<1>3. /\ L \in Seq(Object)
      /\ Part(L, Len(L)) = With("drop")
      /\ \A i \in 1..Len(L) : L[i] \in With("drop") /\ L[i] \notin Part(L, i - 1)
  BY <1>1, ByPathFacts
<1> HIDE DEF L
<1>4. \A i \in 1..Len(L) :
          /\ L[i] \notin Part(L, i - 1)
          /\ L[i] \in Table => before.table[L[i]] # NoTable
          /\ L[i] = View => before.view # 0
  BY <1>1, <1>2, <1>3
<1>5. RunIn(Schema(before.table, before.view, before.seeds, ow), Lines("drop", L)) =
          Dropped(before.table, before.view, before.seeds, ow, Part(L, Len(L)))
  BY <1>2, <1>3, <1>4, DropSection
<1> QED
  BY <1>3, <1>5 DEF L

LEMMA AlterRun ==
    ASSUME Updating, NEW T1, T1 = Without(before.table, With("drop")),
           NEW vw, NEW sd, NEW ow
    PROVE  RunIn(Schema(T1, vw, sd, ow), Lines("alter", ByPath(With("alter")))) =
               Schema(Made(T1, With("alter")), vw, sd, ow)
<1> DEFINE L == ByPath(With("alter"))
<1>1. /\ T1 \in [Table -> Row]
      /\ \A t \in Kept : T1[t] # NoTable
      /\ \A t \in With("alter") : T1[t] = before.table[t]
  BY SectionTables
<1>2. /\ With("alter") \in SUBSET Object /\ With("alter") \subseteq Kept
      /\ Kept \subseteq Table /\ Kept \subseteq Tables(after)
  BY UpdatingFacts
<1>3. /\ after.table \in [Table -> Row]
      /\ \A t \in Table : t \in Tables(after) <=> after.table[t] # NoTable
  BY TreeFacts DEF Updating, Ordered
<1>4. /\ L \in Seq(Object)
      /\ Part(L, Len(L)) = With("alter")
      /\ \A i \in 1..Len(L) : L[i] \in With("alter") /\ L[i] \notin Part(L, i - 1)
  BY <1>2, ByPathFacts
<1> HIDE DEF L
<1>5. \A i \in 1..Len(L) :
          /\ L[i] \in Table /\ L[i] \notin Part(L, i - 1)
          /\ T1[L[i]] = before.table[L[i]] /\ after.table[L[i]] # NoTable
          /\ \A t \in Referred(L[i]) : t \in Table /\ T1[t] # NoTable
  <2> TAKE i \in 1..Len(L)
  <2>1. L[i] \in With("alter") /\ L[i] \notin Part(L, i - 1)
    BY <1>4
  <2>2. Referred(L[i]) \subseteq Kept
    BY <2>1, EvolvedRefer
  <2> QED
    BY <1>1, <1>2, <1>3, <2>1, <2>2
<1>6. RunIn(Schema(T1, vw, sd, ow), Lines("alter", L)) =
          Schema(Made(T1, Part(L, Len(L))), vw, sd, ow)
  BY <1>1, <1>3, <1>4, <1>5, AlterSection
<1> QED
  BY <1>4, <1>6 DEF L

LEMMA RecreateRun ==
    ASSUME Updating, NEW T1, T1 = Without(before.table, With("drop")),
           NEW T2, T2 = Made(T1, With("alter")), NEW vw, NEW sd \in Rows,
           NEW ow
    PROVE  RunIn(Schema(T2, vw, sd, ow), Recreations) =
               Schema(Redone(T2, With("recreate")), vw, Emptied(sd, With("recreate")), ow)
<1> DEFINE L == ByPath(With("recreate"))
<1>1. T2 \in [Table -> Row] /\ \A t \in Kept : T2[t] # NoTable
  BY SectionTables
<1>2. /\ With("recreate") \in SUBSET Object /\ With("recreate") \subseteq Kept
      /\ Kept \subseteq Table /\ Kept \subseteq Tables(after)
  BY UpdatingFacts
<1>3. /\ after.table \in [Table -> Row]
      /\ \A t \in Table : t \in Tables(after) <=> after.table[t] # NoTable
  BY TreeFacts DEF Updating, Ordered
<1>4. /\ L \in Seq(Object)
      /\ Part(L, Len(L)) = With("recreate")
      /\ \A i \in 1..Len(L) : /\ L[i] \in With("recreate") /\ L[i] \notin Part(L, i - 1)
                              /\ \A t \in Part(L, i - 1) : t < L[i] /\ t \in With("recreate")
  BY <1>2, ByPathFacts
<1>5. ASSUME NEW t \in With("recreate"), NEW p \in Referred(t) \cap With("recreate")
      PROVE  p < t
  <2>1. t \notin New /\ t \notin Warned /\ t \in Tables(after)
    <3>1. t \in Tables(before) /\ t \in Tables(after) /\ t \in Objects(after)
      BY <1>2, UpdatingFacts DEF Objects
    <3>2. t \in Evolved
      BY DEF Evolved
    <3> QED
      BY <3>1, <3>2 DEF New, Warned
  <2> QED
    BY <2>1 DEF Updating, OrderServes
<1>6. L = ByPath(With("recreate"))
  OBVIOUS
<1> HIDE DEF L
<1>7. \A i \in 1..Len(L) :
          /\ L[i] \in Table /\ L[i] \notin Part(L, i - 1)
          /\ T2[L[i]] # NoTable
          /\ \A t \in Part(L, i - 1) : L[i] \notin after.table[t].refs
          /\ \A t \in Referred(L[i]) : t \in Table /\ T2[t] # NoTable /\ t # L[i]
  <2> TAKE i \in 1..Len(L)
  <2>1. /\ L[i] \in With("recreate") /\ L[i] \notin Part(L, i - 1)
        /\ L[i] \in Kept /\ L[i] \in Table
    BY <1>2, <1>4
  <2>2. Referred(L[i]) \subseteq Kept /\ L[i] \notin Referred(L[i])
    BY <2>1, EvolvedRefer
  <2>3. ASSUME NEW t \in Part(L, i - 1) PROVE L[i] \notin after.table[t].refs
    <3>1. t < L[i] /\ t \in With("recreate") /\ t \in Table
      BY <1>2, <1>4
    <3>2. ~ (L[i] < t)
      BY <2>1, <3>1, TableAssumption DEF Table
    <3>3. L[i] \notin Referred(t)
      BY <1>5, <2>1, <3>1, <3>2
    <3>4. L[i] # Elsewhere
      BY <2>1, ViewIsNoTable
    <3> QED
      BY <3>3, <3>4 DEF Referred
  <2> QED
    BY <1>1, <1>2, <2>1, <2>2, <2>3
<1>8. \A i \in 1..Len(L) : after.table[L[i]] # NoTable
  BY <1>2, <1>3, <1>4
<1>9. RunIn(Schema(T2, vw, sd, ow), Recreations) =
          Schema(Redone(T2, Part(L, Len(L))), vw, Emptied(sd, Part(L, Len(L))), ow)
  BY <1>1, <1>3, <1>4, <1>6, <1>7, <1>8, RecreationSection
<1> QED
  BY <1>4, <1>9

LEMMA CreateRun ==
    ASSUME Updating, NEW T1, T1 = Without(before.table, With("drop")),
           NEW T2, T2 = Made(T1, With("alter")),
           NEW T3, T3 = Redone(T2, With("recreate")), NEW vw, NEW sd, NEW ow
    PROVE  RunIn(Schema(T3, vw, sd, ow), Lines("create", InOrder(New))) =
               Schema(Made(T3, New), vw, sd, ow)
<1> DEFINE L == InOrder(New)
<1>1. /\ T3 \in [Table -> Row]
      /\ \A t \in Kept : T3[t] # NoTable
      /\ \A t \in Table \ Tables(before) : T3[t] = NoTable
  BY SectionTables
<1>2. /\ New \subseteq Tables(after) /\ New \cap Tables(before) = {} /\ New \subseteq Table
      /\ Tables(after) = New \cup Kept /\ Tables(after) \subseteq Table
  BY UpdatingFacts DEF Tables
<1>3. /\ after.table \in [Table -> Row]
      /\ \A t \in Table : t \in Tables(after) <=> after.table[t] # NoTable
  BY TreeFacts DEF Updating, Ordered
<1>4. Ordered /\ OrderInv /\ Finished /\ ~ Circular /\ New \in SUBSET names
  BY <1>2 DEF Updating, Ordered
<1>5. /\ L \in Seq(Object)
      /\ Part(L, Len(L)) = New
      /\ \A i \in 1..Len(L) :
             /\ L[i] \in New /\ L[i] \notin Part(L, i - 1)
             /\ \A p \in Parents(L[i]) \cap New : p \in Part(L, i - 1)
  BY <1>4, InOrderFacts
<1> HIDE DEF L
<1>6. \A i \in 1..Len(L) :
          /\ L[i] \in Table /\ L[i] \notin Part(L, i - 1)
          /\ T3[L[i]] = NoTable /\ after.table[L[i]] # NoTable
          /\ \A t \in Referred(L[i]) :
                 t \in Table /\ (T3[t] # NoTable \/ t \in Part(L, i - 1))
  <2> TAKE i \in 1..Len(L)
  <2>1. L[i] \in New /\ L[i] \notin Part(L, i - 1) /\ L[i] \in Tables(after)
    BY <1>2, <1>5
  <2>2. Referred(L[i]) \subseteq Tables(after) /\ Referred(L[i]) \subseteq Parents(L[i])
    BY <1>4, <2>1, OrderedFacts
  <2> QED
    BY <1>1, <1>2, <1>3, <1>5, <2>1, <2>2
<1>7. RunIn(Schema(T3, vw, sd, ow), Lines("create", L)) =
          Schema(Made(T3, Part(L, Len(L))), vw, sd, ow)
  BY <1>1, <1>3, <1>5, <1>6, CreateSection
<1> QED
  BY <1>5, <1>7 DEF L

\* A parent of a table whose rows are not loaded again has them still.
LEMMA SeedRun ==
    ASSUME Updating, NEW tb, \A t \in Tables(after) : tb[t] # NoTable, NEW vw, NEW ow
    PROVE  RunIn(Schema(tb, vw, KeptSeeds, ow), Lines("seed", InOrder(Reseeded))) =
               Schema(tb, vw, UpdatedSeeds, ow)
<1> DEFINE L == InOrder(Reseeded)
<1>1. /\ Seeded(after) \subseteq Tables(after) /\ Tables(after) \subseteq Objects(after)
      /\ Tables(after) \subseteq Table
      /\ Reseeded \subseteq Seeded(after)
  BY DEF Updating, Ordered, Sane, Objects, Tables, Reseeded
<1>2. Ordered /\ OrderInv /\ Finished /\ ~ Circular /\ Reseeded \in SUBSET names
  BY <1>1 DEF Updating, Ordered
<1>3. With("drop") \cap Objects(after) = {}
  BY UpdatingFacts
<1>4. /\ L \in Seq(Object)
      /\ Part(L, Len(L)) = Reseeded
      /\ \A i \in 1..Len(L) :
             /\ L[i] \in Reseeded /\ L[i] \notin Part(L, i - 1)
             /\ \A p \in Parents(L[i]) \cap Reseeded : p \in Part(L, i - 1)
  BY <1>2, InOrderFacts
<1>5. before.seeds \in Rows /\ after.seeds \in Rows
  BY TreeFacts DEF Updating, Ordered
<1>6. KeptSeeds \in Rows
  BY <1>5, EmptiedFacts DEF KeptSeeds
<1> HIDE DEF L
<1>7. ASSUME NEW p \in Seeded(after), p \notin Reseeded
      PROVE  KeptSeeds[p] = after.seeds[p]
  <2>1. p \in Table /\ p \notin With("drop")
    BY <1>1, <1>3
  <2>2. p \notin With("recreate")
    BY <1>7 DEF Updating, OrderServes
  <2>3. before.seeds[p] = after.seeds[p]
    BY <1>7 DEF Reseeded
  <2> QED
    BY <2>1, <2>2, <2>3 DEF KeptSeeds, Emptied, Replenished
<1>8. \A i \in 1..Len(L) :
          /\ L[i] \in Table /\ tb[L[i]] # NoTable
          /\ \A p \in Referred(L[i]) \cap Seeded(after) :
                 KeptSeeds[p] = after.seeds[p] \/ p \in Part(L, i - 1)
  <2> TAKE i \in 1..Len(L)
  <2>1. L[i] \in Tables(after) /\ L[i] \in Table
    BY <1>1, <1>4
  <2>2. Referred(L[i]) \subseteq Parents(L[i])
    BY <1>2, <2>1, OrderedFacts
  <2>3. \A p \in Referred(L[i]) \cap Seeded(after) :
            KeptSeeds[p] = after.seeds[p] \/ p \in Part(L, i - 1)
    BY <1>4, <1>7, <2>2
  <2> QED
    BY <2>1, <2>3
<1>9. RunIn(Schema(tb, vw, KeptSeeds, ow), Lines("seed", L)) =
          Schema(tb, vw, Reloaded(KeptSeeds, Part(L, Len(L))), ow)
  BY <1>4, <1>5, <1>6, <1>8, SeedSection
<1> QED
  BY <1>4, <1>9 DEF L, UpdatedSeeds

\* The sections of an update script one after the other.
LEMMA UpdateRun ==
    ASSUME Updating
    PROVE  RunIn(Full(before), UpdateScript) =
               Schema(UpdatedTable, UpdatedView, UpdatedSeeds, UpdatedOwned)
<1> DEFINE Dr == With("drop")
           T1 == Without(before.table, Dr)
           T2 == Made(T1, With("alter"))
           T3 == Redone(T2, With("recreate"))
           T4 == Made(T3, New)
           V1 == IF View \in Dr THEN 0 ELSE before.view
           sd == Emptied(before.seeds, Dr)
           ow == (Objects(before) \cup Registered) \ Dr
           L1 == ByPath(Registered)
           L2 == ByPath(Dr)
           L3 == ByPath(With("alter"))
           L5 == InOrder(New)
           L6 == ByPath(Replaced)
           L7 == InOrder(Reseeded)
           all == Objects(before) \cup Registered
<1>1. /\ With("drop") \in SUBSET Object
      /\ With("alter") \in SUBSET Object
      /\ With("recreate") \in SUBSET Object
      /\ New \in SUBSET names /\ New \in SUBSET Object
      /\ Reseeded \in SUBSET names
      /\ Replaced \in SUBSET Object
      /\ Registered \in SUBSET Object
  <2>1. /\ Seeded(after) \subseteq Tables(after) /\ names = Tables(after)
        /\ Reseeded \subseteq Seeded(after)
    BY DEF Updating, Ordered, Sane, Reseeded
  <2> QED
    BY <2>1, UpdatingFacts DEF With, Registered, Evolved
<1>2. OrderInv /\ Finished /\ ~ Circular
  BY DEF Updating, Ordered
<1>3. L1 \in Seq(Object) /\ Part(L1, Len(L1)) = Registered
  BY <1>1, ByPathFacts
<1>4. L2 \in Seq(Object) /\ L3 \in Seq(Object)
  BY <1>1, ByPathFacts
<1>5. L5 \in Seq(Object)
  BY <1>1, <1>2, InOrderFacts
<1>6. L6 \in Seq(Object) /\ (L6 = <<>> <=> Replaced = {})
  BY <1>1, ByPathFacts
<1>7. L7 \in Seq(Object)
  BY <1>1, <1>2, InOrderFacts
<1>8. Recreations \in Seq(AnyLine)
  <2> DEFINE L == ByPath(With("recreate"))
  <2>1. L \in Seq(Object)
    BY <1>1, ByPathFacts
  <2> QED
    BY <2>1, RecreationsFacts
<1> DEFINE a == Lines("register", L1)
           b == Lines("drop", L2)
           c == Lines("alter", L3)
           d == Recreations
           e == Lines("create", L5)
           f == Lines("replace", L6)
           g == Lines("seed", L7)
<1>9. /\ a \in Seq(AnyLine) /\ b \in Seq(AnyLine)
      /\ c \in Seq(AnyLine) /\ d \in Seq(AnyLine)
      /\ e \in Seq(AnyLine) /\ f \in Seq(AnyLine) /\ g \in Seq(AnyLine)
  <2>1. /\ "register" \in Verb /\ "drop" \in Verb /\ "alter" \in Verb
        /\ "create" \in Verb /\ "replace" \in Verb /\ "seed" \in Verb
    BY DEF Verb
  <2> HIDE DEF L1, L2, L3, L5, L6, L7
  <2> QED
    BY <1>3, <1>4, <1>5, <1>6, <1>7, <1>8, <2>1, LinesFacts
<1>10. UpdateScript = (((((a \o b) \o c) \o d) \o e) \o f) \o g
  BY DEF UpdateScript
<1>11. RunIn(Full(before), a) = Schema(before.table, before.view, before.seeds, all)
  <2> HIDE DEF L1
  <2> QED
    BY <1>3, RegisterSection DEF Full
<1>12. RunIn(Schema(before.table, before.view, before.seeds, all), b) =
           Schema(T1, V1, sd, ow)
  <2>1. RunIn(Schema(before.table, before.view, before.seeds, all), b) =
            Dropped(before.table, before.view, before.seeds, all, With("drop"))
    <3> HIDE DEF all
    <3> QED
      BY DropRun
  <2> QED
    BY <2>1 DEF Dropped
<1>28. sd \in Rows /\ KeptSeeds = Emptied(sd, With("recreate"))
  <2>1. before.seeds \in Rows
    BY TreeFacts DEF Updating
  <2> QED
    BY <2>1, EmptiedFacts DEF KeptSeeds
<1> HIDE DEF V1, sd, ow, all
<1>13. RunIn(Schema(T1, V1, sd, ow), c) = Schema(T2, V1, sd, ow)
  <2> HIDE DEF T1
  <2>1. T1 = Without(before.table, With("drop"))
    BY DEF T1
  <2> QED
    BY <2>1, AlterRun
<1>14. RunIn(Schema(T2, V1, sd, ow), d) = Schema(T3, V1, KeptSeeds, ow)
  <2>1. T1 = Without(before.table, With("drop")) /\ T2 = Made(T1, With("alter"))
    OBVIOUS
  <2> HIDE DEF T1, T2
  <2> QED
    BY <1>28, <2>1, RecreateRun
<1>15. RunIn(Schema(T3, V1, KeptSeeds, ow), e) = Schema(T4, V1, KeptSeeds, ow)
  <2>1. /\ T1 = Without(before.table, With("drop")) /\ T2 = Made(T1, With("alter"))
        /\ T3 = Redone(T2, With("recreate"))
    OBVIOUS
  <2> HIDE DEF T1, T2, T3
  <2> QED
    BY <2>1, CreateRun
<1>16. RunIn(Schema(T4, V1, KeptSeeds, ow), f) = Schema(T4, UpdatedView, KeptSeeds, ow)
  <2>1. (IF L6 = <<>> THEN V1 ELSE after.view) = UpdatedView
    BY <1>6 DEF UpdatedView, V1
  <2> HIDE DEF T4, L6
  <2>2. RunIn(Schema(T4, V1, KeptSeeds, ow), f) =
            Schema(T4, IF L6 = <<>> THEN V1 ELSE after.view, KeptSeeds, ow)
    BY <1>6, ReplaceSection
  <2> QED
    BY <2>1, <2>2
<1>17. \A t \in Tables(after) : T4[t] # NoTable
  <2>1. /\ T1 = Without(before.table, With("drop")) /\ T2 = Made(T1, With("alter"))
        /\ T3 = Redone(T2, With("recreate"))
    OBVIOUS
  <2> HIDE DEF T1, T2, T3
  <2>2. \A t \in Kept : T3[t] # NoTable
    BY <2>1, SectionTables
  <2>3. /\ Tables(after) = New \cup Kept /\ Tables(after) \subseteq Table
        /\ \A t \in Tables(after) : after.table[t] # NoTable
    BY UpdatingFacts DEF Tables
  <2> QED
    BY <2>2, <2>3 DEF Made
<1>18. RunIn(Schema(T4, UpdatedView, KeptSeeds, ow), g) =
           Schema(T4, UpdatedView, UpdatedSeeds, ow)
  <2> HIDE DEF T4
  <2> QED
    BY <1>17, SeedRun
<1>19. T4 = UpdatedTable /\ ow = UpdatedOwned
  BY DEF UpdatedTable, UpdatedOwned, ow
<1> HIDE DEF a, b, c, d, e, f, g, T1, T2, T3, T4
<1> DEFINE db == Full(before)
           ab == a \o b
           abc == ab \o c
           abcd == abc \o d
           abcde == abcd \o e
           abcdef == abcde \o f
<1>20. /\ ab \in Seq(AnyLine) /\ abc \in Seq(AnyLine) /\ abcd \in Seq(AnyLine)
       /\ abcde \in Seq(AnyLine) /\ abcdef \in Seq(AnyLine)
  BY <1>9
<1> HIDE DEF db
<1>21. RunIn(db, ab) = RunIn(RunIn(db, a), b)
  BY <1>9, RunConcat
<1> HIDE DEF ab
<1>22. RunIn(db, abc) = RunIn(RunIn(db, ab), c)
  BY <1>9, <1>20, RunConcat
<1> HIDE DEF abc
<1>23. RunIn(db, abcd) = RunIn(RunIn(db, abc), d)
  BY <1>9, <1>20, RunConcat
<1> HIDE DEF abcd
<1>24. RunIn(db, abcde) = RunIn(RunIn(db, abcd), e)
  BY <1>9, <1>20, RunConcat
<1> HIDE DEF abcde
<1>25. RunIn(db, abcdef) = RunIn(RunIn(db, abcde), f)
  BY <1>9, <1>20, RunConcat
<1> HIDE DEF abcdef
<1>26. RunIn(db, abcdef \o g) = RunIn(RunIn(db, abcdef), g)
  BY <1>9, <1>20, RunConcat
<1>27. UpdateScript = abcdef \o g
  BY <1>10 DEF ab, abc, abcd, abcde, abcdef
<1> QED
  BY <1>11, <1>12, <1>13, <1>14, <1>15, <1>16, <1>18, <1>19,
     <1>21, <1>22, <1>23, <1>24, <1>25, <1>26, <1>27 DEF db

\* What the sections leave is the tree, but for what the generator warns of.
LEMMA UpdatedIs ==
    ASSUME Updating
    PROVE  /\ UpdatedTable = [t \in Table |-> UpdatedTable[t]]
           /\ \A t \in Table \ Warned : UpdatedTable[t] = after.table[t]
           /\ View \notin Warned => UpdatedView = after.view
           /\ UpdatedSeeds = [t \in Table |-> UpdatedSeeds[t]]
           /\ \A t \in Table \ WarnedSeeds : UpdatedSeeds[t] = after.seeds[t]
           /\ Objects(after) \ Warned = UpdatedOwned \ Warned
<1>1. /\ before \in Tree /\ after \in Tree
      /\ before.table \in [Table -> Row] /\ after.table \in [Table -> Row]
      /\ \A t \in Table : t \in Tables(before) <=> before.table[t] # NoTable
      /\ \A t \in Table : t \in Tables(after) <=> after.table[t] # NoTable
      /\ View \in Objects(before) <=> before.view # 0
      /\ View \in Objects(after) <=> after.view # 0
      /\ Objects(before) \cap Table = Tables(before)
      /\ Objects(after) \cap Table = Tables(after)
      /\ \A o \in Objects(before) : o \in Tables(before) \/ o = View
      /\ \A o \in Objects(after) : o \in Tables(after) \/ o = View
      /\ Tables(before) \subseteq Table /\ Tables(after) \subseteq Table
  BY TreeFacts DEF Updating, Ordered
<1>2. /\ With("drop") \subseteq Objects(before)
      /\ With("drop") \cap Objects(after) = {}
      /\ With("alter") \subseteq Kept /\ With("recreate") \subseteq Kept
      /\ With("alter") \cap With("recreate") = {}
      /\ Kept \subseteq Tables(before) /\ Kept \subseteq Tables(after)
      /\ New \subseteq Tables(after) /\ New \cap Tables(before) = {}
      /\ Tables(after) = New \cup Kept
      /\ Replaced \subseteq {View}
      /\ View \in Replaced <=> after.view # before.view /\ after.view # 0
  BY UpdatingFacts
<1>3. UpdatedTable = [t \in Table |-> UpdatedTable[t]]
  BY DEF UpdatedTable, Made
<1>4. ASSUME NEW t \in Table, t \notin Warned PROVE UpdatedTable[t] = after.table[t]
  <2> DEFINE T1 == Without(before.table, With("drop"))
             T2 == Made(T1, With("alter"))
             T3 == Redone(T2, With("recreate"))
             Re == With("recreate")
  <2>1. /\ UpdatedTable[t] = IF t \in New THEN after.table[t] ELSE T3[t]
        /\ T3[t] = IF t \in Re THEN after.table[t] ELSE Unlinked(T2[t], Re)
        /\ T2[t] = IF t \in With("alter") THEN after.table[t] ELSE T1[t]
        /\ T1[t] = IF t \in With("drop") THEN NoTable
                   ELSE Unlinked(before.table[t], With("drop"))
    BY DEF UpdatedTable, Made, Redone, Without
  <2> HIDE DEF T1, T2, T3
  <2>2. CASE t \notin Tables(after)
    <3>1. t \notin New /\ t \notin With("alter") /\ t \notin Re /\ after.table[t] = NoTable
      BY <1>1, <1>2, <2>2
    <3>2. T1[t] = NoTable
      <4>1. CASE t \in Tables(before)
        <5>1. t \in Objects(before) \ Objects(after)
          BY <1>1, <2>2, <4>1
        <5>2. t \in With("drop")
          BY <1>4, <5>1 DEF Warned
        <5> QED
          BY <2>1, <5>2
      <4>2. CASE t \notin Tables(before)
        BY <1>1, <2>1, <4>2, RowFacts
      <4> QED
        BY <4>1, <4>2
    <3> QED
      BY <2>1, <3>1, <3>2, RowFacts
  <2>3. CASE t \in Kept /\ t \notin Re
    <3>1. t \in Tables(after) /\ t \notin New /\ t \notin With("drop")
      BY <1>1, <1>2, <2>3
    <3>2. Referred(t) \cap Re = {}
      BY <1>4, <2>3, <3>1 DEF Updating, OrderServes
    <3>3. Elsewhere \notin Re /\ Elsewhere \notin With("drop")
      BY <1>1, <1>2, ViewIsNoTable
    <3>4. after.table[t].refs \cap Re = {}
      BY <3>2, <3>3 DEF Referred
    <3>5. Unlinked(after.table[t], Re) = after.table[t]
      BY <1>1, <3>4, UnlinkedFacts
    <3>6. T2[t] = after.table[t]
      <4>1. CASE t \in With("alter")
        BY <2>1, <4>1
      <4>2. CASE t \notin With("alter")
        <5>1. t \notin Evolved
          BY <2>3, <4>2 DEF Evolved
        <5>2. before.table[t] = after.table[t]
          BY <1>4, <2>3, <5>1 DEF Warned, Changed
        <5>3. after.table[t].refs \subseteq Tables(after) \cup {Elsewhere}
          BY <3>1 DEF Updating, Ordered, Sane
        <5>4. Tables(after) \cap With("drop") = {}
          BY <1>1, <1>2
        <5>5. before.table[t].refs \cap With("drop") = {}
          BY <3>3, <5>2, <5>3, <5>4
        <5>6. Unlinked(before.table[t], With("drop")) = before.table[t]
          BY <1>1, <5>5, UnlinkedFacts
        <5> QED
          BY <2>1, <3>1, <4>2, <5>2, <5>6
      <4> QED
        BY <4>1, <4>2
    <3> QED
      BY <2>1, <2>3, <3>1, <3>5, <3>6
  <2>4. CASE t \in New \/ t \in Re
    BY <2>1, <2>4
  <2> QED
    BY <1>2, <2>2, <2>3, <2>4
<1>5. ASSUME View \notin Warned PROVE UpdatedView = after.view
  <2>1. Replaced = {} <=> View \notin Replaced
    BY <1>2
  <2>2. CASE after.view = 0
    <3>1. before.view # 0 => View \in With("drop")
      BY <1>1, <1>5, <2>2 DEF Warned
    <3> QED
      BY <1>2, <2>1, <2>2, <3>1 DEF UpdatedView
  <2>3. CASE after.view # 0
    <3>1. View \notin With("drop")
      BY <1>1, <1>2, <2>3
    <3> QED
      BY <1>2, <2>1, <2>3, <3>1 DEF UpdatedView
  <2> QED
    BY <2>2, <2>3
<1>6. ASSUME NEW t \in Table \ WarnedSeeds PROVE UpdatedSeeds[t] = after.seeds[t]
  <2>1. UpdatedSeeds[t] = IF t \in Reseeded THEN after.seeds[t]
                          ELSE IF t \in With("recreate") \/ t \in With("drop") THEN 0
                          ELSE before.seeds[t]
    BY DEF UpdatedSeeds, KeptSeeds, Reloaded, Emptied, Replenished, NoRows
  <2>2. CASE t \in Seeded(after)
    <3>1. t \in Tables(after)
      BY <2>2 DEF Updating, Ordered, Sane
    <3>2. t \notin With("drop")
      BY <1>1, <1>2, <3>1
    <3>3. t \in With("recreate") => t \in Reseeded
      BY <2>2 DEF Updating, OrderServes
    <3>4. t \notin Reseeded => before.seeds[t] = after.seeds[t]
      BY <2>2 DEF Reseeded
    <3> QED
      BY <2>1, <3>2, <3>3, <3>4
  <2>3. CASE t \notin Seeded(after)
    <3>1. after.seeds[t] = 0 /\ t \notin Reseeded
      BY <2>3 DEF Seeded, Reseeded
    <3>2. before.seeds[t] = 0
      BY <2>3 DEF WarnedSeeds, Seeded
    <3> QED
      BY <2>1, <3>1, <3>2
  <2> QED
    BY <2>2, <2>3
<1>8. UpdatedSeeds = [t \in Table |-> UpdatedSeeds[t]]
  BY DEF UpdatedSeeds, Reloaded, Replenished
<1>7. Objects(after) \ Warned = UpdatedOwned \ Warned
  <2>1. Registered \subseteq Objects(after)
    <3>1. Tables(after) \subseteq Objects(after)
      BY DEF Objects
    <3> QED
      BY <1>1, <1>2, <3>1 DEF Registered, Evolved
  <2>2. ASSUME NEW o \in Objects(after) PROVE o \in Objects(before) \cup Registered
    <3>1. CASE o \in Tables(after)
      BY <1>1, <1>2, <3>1 DEF Registered
    <3>2. CASE o = View
      BY <1>1, <1>2, <2>2, <3>2 DEF Registered
    <3> QED
      BY <1>1, <3>1, <3>2
  <2>3. ASSUME NEW o \in Objects(before), o \notin Objects(after), o \notin Warned
        PROVE  o \in With("drop")
    BY <2>3 DEF Warned
  <2> QED
    BY <1>2, <2>1, <2>2, <2>3 DEF UpdatedOwned
<1> QED
  BY <1>3, <1>4, <1>5, <1>6, <1>7, <1>8

-----------------------------------------------------------------------------
(* The releases *)

UpdatedSchema == Schema(UpdatedTable, UpdatedView, UpdatedSeeds, UpdatedOwned)

LEMMA SameTree ==
    ASSUME UNCHANGED <<before, after, scripts>>
    PROVE  /\ UpdatedSchema' = UpdatedSchema
           /\ OrderServes' <=> OrderServes
           /\ Conflicting' <=> Conflicting
           /\ Full(after)' = Full(after)
           /\ Full(before)' = Full(before)
           /\ Sane(after)' <=> Sane(after)
           /\ Sane(before)' <=> Sane(before)
           /\ Tables(after)' = Tables(after)
<1>1. before' = before /\ after' = after /\ scripts' = scripts
  OBVIOUS
<1>2. /\ Tables(after)' = Tables(after) /\ Tables(before)' = Tables(before)
      /\ Objects(after)' = Objects(after) /\ Objects(before)' = Objects(before)
      /\ Seeded(after)' = Seeded(after) /\ Seeded(before)' = Seeded(before)
  BY <1>1 DEF Tables, Objects, Seeded
<1>3. /\ With("drop")' = With("drop") /\ With("alter")' = With("alter")
      /\ With("recreate")' = With("recreate")
  BY <1>1 DEF With
<1>4. New' = New /\ Kept' = Kept /\ Evolved' = Evolved
  BY <1>2, <1>3 DEF New, Kept, Evolved
<1>5. Changed' = Changed
  BY <1>1, <1>4 DEF Changed
<1>6. Warned' = Warned
  BY <1>2, <1>3, <1>4, <1>5 DEF Warned
<1>7. Replaced' = Replaced /\ Reseeded' = Reseeded
  BY <1>1, <1>2 DEF Replaced, Reseeded
<1>8. Registered' = Registered
  BY <1>4, <1>7 DEF Registered
<1>9. Conflicting' <=> Conflicting
  BY <1>1, <1>4 DEF Conflicting
<1>10. OrderServes' <=> OrderServes
  BY <1>1, <1>2, <1>3, <1>4, <1>6, <1>7 DEF OrderServes, Referred
<1>11. UpdatedTable' = UpdatedTable
  BY <1>1, <1>3, <1>4 DEF UpdatedTable, Made, Redone, Without, Unlinked
<1>12. /\ UpdatedView' = UpdatedView
       /\ UpdatedSeeds' = UpdatedSeeds
       /\ UpdatedOwned' = UpdatedOwned
  BY <1>1, <1>2, <1>3, <1>7, <1>8 DEF UpdatedView, UpdatedSeeds, UpdatedOwned,
         KeptSeeds, Emptied, Reloaded, Replenished, NoRows
<1>13. UpdatedSchema' = UpdatedSchema
  BY <1>11, <1>12 DEF UpdatedSchema, Schema
<1>14. Full(after)' = Full(after) /\ Full(before)' = Full(before)
  BY <1>1, <1>2 DEF Full, Schema
<1>15. (Sane(after)' <=> Sane(after)) /\ (Sane(before)' <=> Sane(before))
  BY <1>1, <1>2 DEF Sane
<1> QED
  BY <1>2, <1>9, <1>10, <1>13, <1>14, <1>15

LEMMA SameOrder ==
    ASSUME UNCHANGED <<orderVars, after>>
    PROVE  (Ordered' <=> Ordered) /\ (OrderInv' <=> OrderInv)
<1>1. /\ names' = names /\ refs' = refs /\ inDegree' = inDegree /\ ready' = ready
      /\ sorted' = sorted /\ after' = after
  BY DEF orderVars
<1>2. Placed' = Placed
  BY <1>1 DEF Placed
<1>3. OrderTypeOK' <=> OrderTypeOK
  BY <1>1 DEF OrderTypeOK
<1>4. InDegreeCounts' <=> InDegreeCounts
  BY <1>1, <1>2 DEF InDegreeCounts, Waiting, Parents
<1>5. ReadyIsReady' <=> ReadyIsReady
  BY <1>1, <1>2 DEF ReadyIsReady, Waiting, Parents
<1>6. ParentsFirst' <=> ParentsFirst
  BY <1>1 DEF ParentsFirst, Parents
<1>7. OrderInv' <=> OrderInv
  BY <1>3, <1>4, <1>5, <1>6 DEF OrderInv
<1>8. (Finished' <=> Finished) /\ (Circular' <=> Circular)
  BY <1>1 DEF Finished, Circular
<1>9. Tables(after)' = Tables(after) /\ (Sane(after)' <=> Sane(after))
  BY <1>1 DEF Tables, Sane, Seeded
<1> QED
  BY <1>1, <1>7, <1>8, <1>9 DEF Ordered

\* The types of what developers edit.
SeriesTypeOK ==
    /\ before \in Tree
    /\ after \in Tree
    /\ scripts \in [Object -> SUBSET {"alter", "recreate", "drop"}]
    /\ release \in Nat \ {0}

\* What a release has come to.
Deployed ==
    /\ Ordered
    /\ fresh = Full(after)
    /\ release = 1 => upgraded = Full(after)
    /\ release > 1 => ~ Conflicting /\ (OrderServes => upgraded = UpdatedSchema)

\* While a release is edited and sorted, the schema that is to be upgraded is
\* that of the release before; afterwards both schemas are known.
SeriesInv ==
    /\ SeriesTypeOK
    /\ OrderInv
    /\ Sane(before)
    /\ release = 1 => before = EmptyTree
    /\ phase = "sorting" =>
           /\ Sane(after)
           /\ names = Tables(after)
           /\ refs = [t \in Table |-> after.table[t].refs]
    /\ phase = "deployed" => Deployed
    /\ release > 1 /\ phase # "deployed" => upgraded = Full(before)

LEMMA EmptyTreeFacts == EmptyTree \in Tree /\ Sane(EmptyTree)
<1>1. EmptyTree \in Tree
  <2>1. 0 \in 0..MaxForm
    BY GenerationAssumption
  <2> QED
    BY <2>1 DEF EmptyTree, Tree
<1>2. Tables(EmptyTree) = {} /\ Seeded(EmptyTree) = {}
  BY DEF EmptyTree, Tables, Seeded
<1> QED
  BY <1>1, <1>2 DEF Sane

LEMMA SeriesBegins == Init => SeriesInv
<1> SUFFICES ASSUME Init PROVE SeriesInv
  OBVIOUS
<1>1. SeriesTypeOK
  BY EmptyTreeFacts, GenerationAssumption DEF Init, SeriesTypeOK
<1>2. OrderInit
  <2>1. \A t \in Table : Parents(t) = {}
    BY DEF Init, Parents
  <2>2. Cardinality({}) = 0
    BY FS_EmptySet
  <2>3. inDegree = [t \in Table |-> Cardinality(Parents(t))]
    BY <2>1, <2>2 DEF Init
  <2> QED
    BY <2>1, <2>3 DEF Init, OrderInit
<1>3. OrderInv
  BY <1>2, OrderBegins
<1> QED
  BY <1>1, <1>3, EmptyTreeFacts DEF Init, SeriesInv

\* What the invariant says of the release that is being edited or sorted.
LEMMA Unsorted ==
    ASSUME SeriesInv, UNCHANGED <<orderVars, before, release, upgraded>>,
           SeriesTypeOK', phase # "deployed", phase' # "deployed",
           phase' = "sorting" => phase = "sorting" /\ UNCHANGED after
    PROVE  SeriesInv'
<1>1. OrderInv'
  BY DEF SeriesInv, OrderInv, OrderTypeOK, InDegreeCounts, ReadyIsReady, ParentsFirst,
         orderVars, Waiting, Parents, Placed
<1>2. Sane(before)' /\ Full(before)' = Full(before)
  BY DEF SeriesInv, Sane, Tables, Seeded, Full, Schema, Objects
<1>3. EmptyTree' = EmptyTree
  BY DEF EmptyTree
<1>4. phase' = "sorting" =>
          /\ Sane(after)'
          /\ names' = Tables(after)'
          /\ refs' = [t \in Table |-> after'.table[t].refs]
  BY DEF SeriesInv, Sane, Tables, Seeded, orderVars
<1> QED
  BY <1>1, <1>2, <1>3, <1>4 DEF SeriesInv

LEMMA EditKeeps ==
    ASSUME SeriesInv, NEW x \in Tree, NEW o \in Object, NEW actions \in Actions,
           Edit(x, o, actions)
    PROVE  SeriesInv'
<1>1. SeriesTypeOK'
  BY DEF SeriesInv, SeriesTypeOK, Edit, Actions
<1> QED
  BY <1>1, Unsorted DEF Edit

LEMMA EditSeedKeeps ==
    ASSUME SeriesInv, NEW t \in Table, NEW form \in 0..MaxForm, EditSeed(t, form)
    PROVE  SeriesInv'
<1> DEFINE x == [after EXCEPT !.seeds[t] = form]
<1>1. after \in Tree /\ t \in Object
  BY ViewIsNoTable DEF SeriesInv, SeriesTypeOK
<1>2. x \in Tree
  BY <1>1 DEF Tree
<1>3. Edit(x, t, scripts[t])
  BY DEF EditSeed
<1>4. SeriesTypeOK'
  BY <1>1, <1>2, <1>3 DEF SeriesInv, SeriesTypeOK, Edit
<1> QED
  BY <1>3, <1>4, Unsorted DEF Edit

LEMMA EditTableKeeps ==
    ASSUME SeriesInv, NEW t \in Table, NEW ddl \in TableDDL \cup {NoTable},
           NEW actions \in Actions, EditTable(t, ddl, actions)
    PROVE  SeriesInv'
<1> DEFINE x == [after EXCEPT !.table[t] = ddl]
<1>1. after \in Tree /\ t \in Object
  BY ViewIsNoTable DEF SeriesInv, SeriesTypeOK
<1>2. x \in Tree
  BY <1>1 DEF Tree
<1>3. Edit(x, t, actions)
  BY DEF EditTable
<1> HIDE DEF x
<1> QED
  BY <1>1, <1>2, <1>3, EditKeeps

LEMMA EditViewKeeps ==
    ASSUME SeriesInv, NEW form \in 0..MaxForm, NEW actions \in Actions,
           EditView(form, actions)
    PROVE  SeriesInv'
<1> DEFINE x == [after EXCEPT !.view = form]
<1>1. after \in Tree /\ View \in Object
  BY ViewIsNoTable DEF SeriesInv, SeriesTypeOK
<1>2. x \in Tree
  BY <1>1 DEF Tree
<1>3. Edit(x, View, actions)
  BY DEF EditView
<1> HIDE DEF x
<1> QED
  BY <1>1, <1>2, <1>3, EditKeeps

LEMMA GenerateKeeps == SeriesInv /\ Generate => SeriesInv'
<1> SUFFICES ASSUME SeriesInv, Generate PROVE SeriesInv'
  OBVIOUS
<1>1. /\ after \in Tree /\ Sane(after) /\ phase = "editing" /\ phase' = "sorting"
      /\ UNCHANGED <<tree, fresh, upgraded>>
      /\ Prepare(Tables(after), [t \in Table |-> after.table[t].refs])
  BY DEF SeriesInv, SeriesTypeOK, Generate
<1>2. /\ Tables(after) \in SUBSET Table
      /\ \A t \in Table : after.table[t].refs \in SUBSET Reference
  BY <1>1, TreeFacts, RowFacts
<1>3. OrderInit'
  BY <1>1, <1>2 DEF OrderInit, Prepare, Parents
<1>4. OrderInv'
  BY <1>3, OrderBegins, PTL
<1>5. before' = before /\ after' = after /\ scripts' = scripts /\ release' = release
  BY <1>1 DEF tree
<1>6. /\ Sane(before)' /\ Sane(after)' /\ Full(before)' = Full(before)
      /\ Tables(after)' = Tables(after)
  BY <1>1, <1>5, SameTree DEF SeriesInv
<1>7. names' = Tables(after)' /\ refs' = [t \in Table |-> after'.table[t].refs]
  BY <1>1, <1>5, <1>6 DEF Prepare
<1>8. SeriesTypeOK'
  BY <1>5 DEF SeriesInv, SeriesTypeOK
<1> QED
  BY <1>1, <1>4, <1>5, <1>6, <1>7, <1>8 DEF SeriesInv, EmptyTree

LEMMA SortKeeps == SeriesInv /\ Sort => SeriesInv'
<1> SUFFICES ASSUME SeriesInv, Sort PROVE SeriesInv'
  OBVIOUS
<1>1. OrderInv' /\ names' = names /\ refs' = refs
  BY PlacePreserves DEF SeriesInv, Sort, Place
<1>2. /\ before' = before /\ after' = after /\ scripts' = scripts /\ release' = release
      /\ phase = "sorting" /\ phase' = phase /\ upgraded' = upgraded
  BY DEF Sort, tree
<1>3. /\ Sane(before)' /\ Sane(after)' /\ Full(before)' = Full(before)
      /\ Tables(after)' = Tables(after)
  BY <1>2, SameTree DEF SeriesInv
<1>4. names' = Tables(after)' /\ refs' = [t \in Table |-> after'.table[t].refs]
  BY <1>1, <1>2, <1>3 DEF SeriesInv
<1>5. SeriesTypeOK'
  BY <1>2 DEF SeriesInv, SeriesTypeOK
<1> QED
  BY <1>1, <1>2, <1>3, <1>4, <1>5 DEF SeriesInv, EmptyTree

LEMMA RefusalKeeps == SeriesInv /\ (RefuseCircular \/ RefuseConflicting) => SeriesInv'
<1> SUFFICES ASSUME SeriesInv, RefuseCircular \/ RefuseConflicting PROVE SeriesInv'
  OBVIOUS
<1>1. /\ phase = "sorting" /\ phase' = "refused"
      /\ UNCHANGED <<orderVars, tree, fresh, upgraded>>
  BY DEF RefuseCircular, RefuseConflicting
<1>2. SeriesTypeOK'
  BY <1>1 DEF SeriesInv, SeriesTypeOK, tree
<1> QED
  BY <1>1, <1>2, Unsorted DEF tree

\* The tree and its order when the scripts run.
LEMMA OrderedThen ==
    ASSUME SeriesInv, phase = "sorting", Finished, ~ Circular
    PROVE  Ordered
  BY DEF SeriesInv, SeriesTypeOK, Ordered

LEMMA DeployKeeps ==
    ASSUME SeriesInv, Ordered, phase' = "deployed", UNCHANGED <<orderVars, tree>>,
           fresh' = Full(after),
           release = 1 => upgraded' = Full(after),
           release > 1 => ~ Conflicting /\ (OrderServes => upgraded' = UpdatedSchema)
    PROVE  SeriesInv'
<1>1. before' = before /\ after' = after /\ scripts' = scripts /\ release' = release
  BY DEF tree
<1>2. /\ UpdatedSchema' = UpdatedSchema
      /\ OrderServes' <=> OrderServes
      /\ Conflicting' <=> Conflicting
      /\ Full(after)' = Full(after)
      /\ Sane(before)'
  BY <1>1, SameTree DEF SeriesInv
<1>3. Ordered' /\ OrderInv'
  BY <1>1, SameOrder DEF SeriesInv
<1>4. Deployed'
  BY <1>1, <1>2, <1>3 DEF Deployed
<1>5. SeriesTypeOK'
  BY <1>1 DEF SeriesInv, SeriesTypeOK
<1> QED
  BY <1>1, <1>2, <1>3, <1>4, <1>5 DEF SeriesInv, EmptyTree

LEMMA DeployFirstKeeps == SeriesInv /\ DeployFirst => SeriesInv'
<1> SUFFICES ASSUME SeriesInv, DeployFirst PROVE SeriesInv'
  OBVIOUS
<1>1. Ordered
  BY OrderedThen DEF DeployFirst
<1>2. RunIn(Bare, InstallScript) = Full(after)
  BY <1>1, InstallRun
<1>3. /\ phase' = "deployed" /\ UNCHANGED <<orderVars, tree>> /\ release = 1
      /\ fresh' = Full(after) /\ upgraded' = Full(after)
  BY <1>2 DEF DeployFirst
<1> QED
  BY <1>1, <1>3, DeployKeeps

LEMMA DeployNextKeeps == SeriesInv /\ DeployNext => SeriesInv'
<1> SUFFICES ASSUME SeriesInv, DeployNext PROVE SeriesInv'
  OBVIOUS
<1>1. Ordered
  BY OrderedThen DEF DeployNext
<1>2. RunIn(Bare, InstallScript) = Full(after)
  BY <1>1, InstallRun
<1>3. upgraded = Full(before)
  BY DEF SeriesInv, DeployNext
<1>4. OrderServes => RunIn(upgraded, UpdateScript) = UpdatedSchema
  <2> SUFFICES ASSUME OrderServes PROVE RunIn(upgraded, UpdateScript) = UpdatedSchema
    OBVIOUS
  <2>1. Updating
    BY <1>1 DEF Updating, DeployNext, SeriesInv, SeriesTypeOK
  <2> QED
    BY <1>3, <2>1, UpdateRun DEF UpdatedSchema
<1>5. /\ phase' = "deployed" /\ UNCHANGED <<orderVars, tree>>
      /\ release > 1 /\ ~ Conflicting
      /\ fresh' = Full(after)
      /\ OrderServes => upgraded' = UpdatedSchema
  BY <1>2, <1>4 DEF DeployNext
<1> QED
  BY <1>1, <1>5, DeployKeeps

\* A schema that was upgraded without warnings is that of the tree.
LEMMA UpgradedIsFull ==
    ASSUME SeriesInv, phase = "deployed",
           release > 1 => OrderServes /\ Warned = {} /\ WarnedSeeds = {}
    PROVE  upgraded = Full(after)
<1>1. Deployed /\ release \in Nat \ {0}
  BY DEF SeriesInv, SeriesTypeOK
<1>2. CASE release = 1
  BY <1>1, <1>2 DEF Deployed
<1>3. CASE release > 1
  <2>1. Updating
    BY <1>1, <1>3 DEF Updating, Deployed, SeriesInv, SeriesTypeOK
  <2>2. /\ UpdatedTable = [t \in Table |-> UpdatedTable[t]]
        /\ \A t \in Table : UpdatedTable[t] = after.table[t]
        /\ UpdatedView = after.view
        /\ UpdatedSeeds = [t \in Table |-> UpdatedSeeds[t]]
        /\ \A t \in Table : UpdatedSeeds[t] = after.seeds[t]
        /\ Objects(after) = UpdatedOwned
    BY <1>3, <2>1, UpdatedIs
  <2>3. /\ after.table = [t \in Table |-> after.table[t]]
        /\ after.seeds = [t \in Table |-> after.seeds[t]]
    BY TreeFacts DEF SeriesInv, SeriesTypeOK, Rows
  <2>4. UpdatedTable = after.table /\ UpdatedSeeds = after.seeds
    BY <2>2, <2>3
  <2> QED
    BY <1>1, <1>3, <2>2, <2>4 DEF Deployed, UpdatedSchema, Full
<1> QED
  BY <1>1, <1>2, <1>3

LEMMA NextReleaseKeeps == SeriesInv /\ NextRelease => SeriesInv'
<1> SUFFICES ASSUME SeriesInv, NextRelease PROVE SeriesInv'
  OBVIOUS
<1>1. /\ before' = after /\ after' = after /\ scripts' = [o \in Object |-> {}]
      /\ release' = release + 1 /\ phase' = "editing" /\ phase = "deployed"
      /\ upgraded' = upgraded /\ UNCHANGED orderVars
      /\ release > 1 => OrderServes /\ Warned = {} /\ WarnedSeeds = {}
  BY DEF NextRelease
<1>2. upgraded = Full(after)
  BY <1>1, UpgradedIsFull
<1>3. Full(before)' = Full(after)
  BY <1>1 DEF Full, Schema, Objects, Tables
<1>4. Sane(before)'
  <2>1. Sane(after)
    BY <1>1 DEF SeriesInv, Deployed, Ordered
  <2> QED
    BY <1>1, <2>1 DEF Sane, Tables, Seeded
<1>5. OrderInv'
  BY <1>1, SameOrder DEF SeriesInv
<1>6. SeriesTypeOK' /\ release' > 1
  BY <1>1 DEF SeriesInv, SeriesTypeOK
<1> QED
  BY <1>1, <1>2, <1>3, <1>4, <1>5, <1>6 DEF SeriesInv

LEMMA SeriesStutters == SeriesInv /\ UNCHANGED vars => SeriesInv'
<1> SUFFICES ASSUME SeriesInv, UNCHANGED vars PROVE SeriesInv'
  OBVIOUS
<1>1. /\ before' = before /\ after' = after /\ scripts' = scripts /\ release' = release
      /\ phase' = phase /\ fresh' = fresh /\ upgraded' = upgraded /\ UNCHANGED orderVars
      /\ names' = names /\ refs' = refs
  BY DEF vars, tree, orderVars
<1>2. /\ UpdatedSchema' = UpdatedSchema
      /\ OrderServes' <=> OrderServes
      /\ Conflicting' <=> Conflicting
      /\ Full(after)' = Full(after) /\ Full(before)' = Full(before)
      /\ Sane(after)' <=> Sane(after)
      /\ Sane(before)' <=> Sane(before)
      /\ Tables(after)' = Tables(after)
  BY <1>1, SameTree
<1>3. (Ordered' <=> Ordered) /\ OrderInv'
  BY <1>1, SameOrder DEF SeriesInv
<1>4. Deployed' <=> Deployed
  BY <1>1, <1>2, <1>3 DEF Deployed
<1>5. SeriesTypeOK'
  BY <1>1 DEF SeriesInv, SeriesTypeOK
<1> QED
  BY <1>1, <1>2, <1>3, <1>4, <1>5 DEF SeriesInv, EmptyTree

LEMMA SeriesKept == SeriesInv /\ [Next]_vars => SeriesInv'
<1> SUFFICES ASSUME SeriesInv, [Next]_vars PROVE SeriesInv'
  OBVIOUS
<1>1. CASE \E t \in Table, ddl \in TableDDL \cup {NoTable}, actions \in Actions :
               EditTable(t, ddl, actions)
  BY <1>1, EditTableKeeps
<1>2. CASE \E form \in 0..MaxForm, actions \in Actions : EditView(form, actions)
  BY <1>2, EditViewKeeps
<1>3. CASE \E t \in Table, form \in 0..MaxForm : EditSeed(t, form)
  BY <1>3, EditSeedKeeps
<1>4. CASE Generate
  BY <1>4, GenerateKeeps
<1>5. CASE Sort
  BY <1>5, SortKeeps
<1>6. CASE RefuseCircular \/ RefuseConflicting
  BY <1>6, RefusalKeeps
<1>7. CASE DeployFirst
  BY <1>7, DeployFirstKeeps
<1>8. CASE DeployNext
  BY <1>8, DeployNextKeeps
<1>9. CASE NextRelease
  BY <1>9, NextReleaseKeeps
<1>10. CASE UNCHANGED vars
  BY <1>10, SeriesStutters
<1> QED
  BY <1>1, <1>2, <1>3, <1>4, <1>5, <1>6, <1>7, <1>8, <1>9, <1>10 DEF Next

\* The invariant of the series of releases, its types among it
\* (generate_scripts).
THEOREM SeriesInvariant == Spec => []SeriesInv
  BY SeriesBegins, SeriesKept, PTL DEF Spec

\* Whatever the tree: unless it has a circle, its install script runs to its
\* end in an empty schema and leaves there exactly the tree, all of it
\* registered (_render_install).
THEOREM InstallScriptsDeliver == Spec => []InstallDelivers
<1>1. SeriesInv => InstallDelivers
  BY DEF SeriesInv, Deployed, InstallDelivers, Full, Schema
<1> QED
  BY SeriesInvariant, <1>1, PTL

\* However many releases a schema has followed, and whatever was edited in
\* each: an update script that is neither refused nor out of the order that
\* serves it runs to its end, and makes the schema that of a fresh install but
\* for what the generator warned of (_render_update).
THEOREM UpgradesMatchInstalls == Spec => []UpgradeMatchesInstall
<1>1. SeriesInv => UpgradeMatchesInstall
  <2> SUFFICES ASSUME SeriesInv, phase = "deployed", release > 1 => OrderServes
               PROVE  /\ upgraded.complete
                      /\ \A t \in Table \ Warned : upgraded.table[t] = fresh.table[t]
                      /\ View \notin Warned => upgraded.view = fresh.view
                      /\ \A t \in Table \ WarnedSeeds : upgraded.seeds[t] = fresh.seeds[t]
                      /\ fresh.owned \ Warned = upgraded.owned \ Warned
    BY DEF UpgradeMatchesInstall
  <2>1. Deployed /\ release \in Nat \ {0}
    BY DEF SeriesInv, SeriesTypeOK
  <2>2. /\ fresh.table = after.table /\ fresh.view = after.view
        /\ fresh.seeds = after.seeds /\ fresh.owned = Objects(after)
    BY <2>1 DEF Deployed, Full, Schema
  <2>3. CASE release = 1
    <3>1. WarnedSeeds = {}
      BY <2>3 DEF SeriesInv, EmptyTree, WarnedSeeds, Seeded
    <3>2. upgraded = fresh /\ upgraded.complete
      BY <2>1, <2>3 DEF Deployed, Full, Schema
    <3> QED
      BY <3>1, <3>2
  <2>4. CASE release > 1
    <3>1. Updating
      BY <2>1, <2>4 DEF Updating, Deployed, SeriesInv, SeriesTypeOK
    <3>2. /\ upgraded.complete
          /\ upgraded.table = UpdatedTable /\ upgraded.view = UpdatedView
          /\ upgraded.seeds = UpdatedSeeds /\ upgraded.owned = UpdatedOwned
      BY <2>1, <2>4 DEF Deployed, UpdatedSchema, Schema
    <3> QED
      BY <2>2, <3>1, <3>2, UpdatedIs
  <2> QED
    BY <2>1, <2>3, <2>4
<1> QED
  BY SeriesInvariant, <1>1, PTL

\* The order of tables is right in every release (_compute_object_order).
THEOREM ScriptOrderIsRight == Spec => []OrderIsRight
<1>1. SeriesInv => OrderIsRight
  BY DEF SeriesInv, OrderInv, OrderIsRight, ReadyIsReady, CircleIsReal, Finished,
         Waiting
<1> QED
  BY SeriesInvariant, <1>1, PTL
=============================================================================
