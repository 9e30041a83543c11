------------------------------ MODULE TableOrder ------------------------------
(***************************************************************************)
(* The order in which generated scripts create tables                      *)
(* (script_generator._topological_sort and _compute_object_order): parents *)
(* before the tables whose foreign keys refer to them, by name otherwise.  *)
(*                                                                         *)
(* A table is a number, and the order of the numbers that of the names.    *)
(***************************************************************************)
EXTENDS Integers, FiniteSets, Sequences

CONSTANT MaxTable   \* bound: the tables there may be

ASSUME TableAssumption == MaxTable \in Nat

Table == 1..MaxTable

\* What DDL refers to: a table of the tree, or one of another schema.
Elsewhere == 0
Reference == Table \cup {Elsewhere}

VARIABLES
    names,      \* the tables to be ordered
    refs,       \* what the DDL of each table refers to
    inDegree,   \* the parents of each table that are not yet in the result
    ready,      \* the tables without such parents, not yet in the result
    sorted      \* the result so far

orderVars == <<names, refs, inDegree, ready, sorted>>

-----------------------------------------------------------------------------

\* Of the references only those to tables of the tree count.
Parents(n) == refs[n] \cap names

Placed == {sorted[i] : i \in 1..Len(sorted)}

OrderTypeOK ==
    /\ names \subseteq Table
    /\ refs \in [Table -> SUBSET Reference]
    /\ inDegree \in [Table -> Nat]
    /\ ready \subseteq names
    /\ sorted \in Seq(names)

\* The start of _topological_sort for tables n that refer to r.
Prepare(n, r) ==
    /\ names' = n
    /\ refs' = r
    /\ inDegree' = [t \in Table |-> Cardinality(r[t] \cap n)]
    /\ ready' = {t \in n : r[t] \cap n = {}}
    /\ sorted' = <<>>

First(S) == CHOOSE t \in S : \A u \in S : t <= u

\* Mutant: of the tables that refer to one, only the first is told.
DependentsFirstOnly(n) ==
    LET all == {d \in names : n \in Parents(d)} IN
    {d \in all : d = First(all)}

Dependents(n) == {d \in names : n \in Parents(d)}

\* One turn of its loop.
Place ==
    /\ ready # {}
    /\ LET n == First(ready)
           left == [d \in Table |-> IF d \in Dependents(n) THEN inDegree[d] - 1
                                                           ELSE inDegree[d]]
       IN  /\ sorted' = Append(sorted, n)
           /\ inDegree' = left
           /\ ready' = (ready \ {n}) \cup {d \in Dependents(n) : left[d] = 0}
    /\ UNCHANGED <<names, refs>>

Finished == ready = {}
Circular == Finished /\ Len(sorted) < Cardinality(names)

\* The sort on its own, of any tables.
OrderInit ==
    /\ names \in SUBSET Table
    /\ refs \in [Table -> SUBSET Reference]
    /\ inDegree = [t \in Table |-> Cardinality(Parents(t))]
    /\ ready = {t \in names : Parents(t) = {}}
    /\ sorted = <<>>

OrderSpec == OrderInit /\ [][Place]_orderVars

-----------------------------------------------------------------------------
(* What it promises *)

\* No table comes before one that its foreign keys refer to, and none twice:
\* the CREATE TABLE statements of a generated script find their parents.
ParentsFirst ==
    \A j \in 1..Len(sorted) :
        /\ \A p \in Parents(sorted[j]) : \E i \in 1..(j - 1) : sorted[i] = p
        /\ \A i \in 1..(j - 1) : sorted[i] # sorted[j]

\* The error that reports a circular dependency is never raised for a tree
\* without one: each table that is left has a parent that is left, so going
\* from parent to parent ends in a circle.
CircleIsReal ==
    Finished => \A t \in names \ Placed : Parents(t) \ Placed # {}

\* Both, for the sort that a generated script depends on (_topological_sort).
OrderIsRight == ParentsFirst /\ CircleIsReal
=============================================================================
