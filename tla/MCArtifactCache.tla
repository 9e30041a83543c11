--------------------------- MODULE MCArtifactCache ---------------------------
(* An instance of ArtifactCache: a version that may be replaced, as a         *)
(* snapshot, and a final one; two publishers.                                 *)
EXTENDS ArtifactCache, TLC

CONSTANTS final, snap

Versions == {final, snap}
Snapshots == {snap}

Processes == Permutations(Command) \cup Permutations(Publisher)

\* The run is the sum of three parts instead of their product: publishers
\* among themselves; working copies, which have nothing to do with a
\* repository; and one publisher who replaces a snapshot under the commands,
\* of which the last one deploys (nobody would read the lockfile it writes).
\* Maven coordinates (by the first command) and unsigned registry entries are
\* only locked: a deployment takes them like a URL and like a lockfile; URLs are
\* only deployed: what is locked of them is what Maven coordinates lock.  The
\* files of a first build are there before the first command, and the end of a
\* publication comes while no command runs, which would not see it.
PublishersAlone == given = 0
WorkingCopies == built = 0
ReplacedSnapshot ==
    /\ working = 1
    /\ \A p \in Publisher : manifest[p] = snap
    /\ \E p \in Publisher : \A q \in Publisher \ {p} :
           job[q].next = "idle" /\ receipt[q] = NoReceipt
    /\ \A f \in File : repository[final][f] = None
    /\ LET r == repository[snap] IN   \* one publication after the other
           r["zip"] >= r["sums"] /\ r["sums"] >= r["asc"] /\ r["asc"] >= r["pom"]
    /\ \A p \in Publisher : job[p].version # final
    /\ \A b \in Build : madeFor[b] # final
    /\ \A c \in Command : order[c].version # final
    /\ \A c \in Command :
           /\ order[c].route = "maven" => order[c].goal = "lock" /\ given = 1
           /\ order[c].how = "coordinate" /\ order[c].route = "url"
                  => order[c].goal = "deploy"
           /\ order[c].how = "registry" /\ ~order[c].signed => order[c].goal = "lock"
    /\ (\E p \in Publisher : job[p].next \notin File \cup {"idle"})
           => \A c \in Command : Ended(c)
    /\ given > 0 => repository[snap]["pom"] # None
    /\ given = MaxCommands => \A c \in Command : order[c].goal = "deploy"

Parts == PublishersAlone \/ WorkingCopies \/ ReplacedSnapshot
=============================================================================
