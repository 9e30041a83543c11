-------------------------- MODULE MCScriptGeneration --------------------------
(* An instance of ScriptGeneration.                                           *)
EXTENDS ScriptGeneration

\* At most one foreign key to a table, or two to the first ones.
Keys == {{}} \cup {{t} : t \in Table} \cup {{1, 2}}

\* Every tree of such tables in their first form, with a view, and with seeds
\* for all tables but the second.
Beginnings ==
    {[table |-> tables, view |-> 1,
      seeds |-> [t \in Table |-> IF tables[t] = NoTable \/ t = 2 THEN 0 ELSE 1]] :
         tables \in [Table -> [form: {1}, refs: Keys] \cup {NoTable}]}

\* Only the second release is edited, and a table that is changed has another
\* form whatever its foreign keys.
Commits ==
    /\ release # 2 => edits = 0
    /\ \A t \in Changed : after.table[t].form # before.table[t].form
=============================================================================
