-------------------------- MODULE MCRuntimeActivation --------------------------
EXTENDS RuntimeActivation, TLC

CONSTANTS p1, p2

Symmetry == Permutations(Proc)

Payload(n, v, a) == [name |-> n, version |-> v, artifact |-> a]

\* A library and its application; an upgrade of the application alone; and one
\* whose application is another build of version 1.
First    == <<Payload("lib", 1, "l1"), Payload("app", 1, "a1")>>
Upgraded == <<Payload("lib", 1, "l1"), Payload("app", 2, "a2")>>
Dirty    == <<Payload("lib", 2, "l2"), Payload("app", 1, "b1")>>

ThreeGraphs == {First, Upgraded, Dirty}
OneGraph    == {First}
TwoGraphs   == {First, Upgraded}

\* The steps an error is undone at.
Undone == {"script", "promote", "place", "journalPromoted", "swap", "switch",
           "journalSwitched", "archive", "receipt", "drop", "recoverBin",
           "recoverBackup", "prepare"}

\* The steps before which the journal, as it is on disk, covers what was done.
Journaled == {"script", "recoverBin", "recoverBackup", "prepare", "swap", "archive",
              "receipt", "unlink", "drop"}
===============================================================================
