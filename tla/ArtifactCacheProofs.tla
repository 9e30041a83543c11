------------------------- MODULE ArtifactCacheProofs -------------------------
(***************************************************************************)
(* Theorems about ArtifactCache, for every number of commands, versions,   *)
(* builds and contents: what a pinned deployment runs is what was pinned,  *)
(* and the checksum recorded with any deployment is that of what it ran.   *)
(*                                                                         *)
(* Except for those about the repository, the theorems are about operators *)
(* who do not let two commands prepare one version at once (~Overlap): the *)
(* SharedCache run shows what happens otherwise.  The invariant follows a  *)
(* command through its steps (CommandFits); that two commands at work on   *)
(* the cache do not disturb each other rests on Apart, since a build is    *)
(* made for one version, and a tree that is in use is safe because an      *)
(* extraction only begins when there is none.                              *)
(***************************************************************************)
EXTENDS ArtifactCache, PublicationProofs

\* A tree is in use, or about to be, from which no directory source runs.
UsesTree(c) == \/ step[c] \in {"check", "locking"}
               \/ step[c] = "ready" /\ order[c].how # "directory"

\* The temporary directory is a command's own.
Unpacking == {"extracting", "replacing", "naming"}

OrderFits(c) ==
    /\ order[c].expected # None => Made(order[c].version, order[c].expected)
    /\ order[c].how = "directory" => order[c].expected = None
    /\ step[c] \in Preparing \cup {"check", "locking"} =>
           order[c].version \in Version /\ order[c].how \notin {"directory", "none"}
    /\ step[c] \in {"recheck", "snapshotting"} => order[c].how = "directory"
    /\ step[c] = "ready" => order[c].how # "none"

\* What it has found in the cache.
ArchiveFits(c) ==
    /\ step[c] \in {"download", "writing"} => seen[c].at = "coordinate"
    /\ step[c] = "writing" => /\ coordinate[Entry(c)] # Absent
                              /\ seen[c].build = coordinate[Entry(c)].build
    /\ step[c] \in {"verify", "copying"} => Expected(c) # None
    /\ step[c] = "copying" => coordinate[Entry(c)] = Whole(Expected(c))
    /\ step[c] \in {"signature", "load"} => (seen[c].at = "checksum" <=> Expected(c) # None)

\* What it holds in memory, and where that is found.
TreeFits(c) ==
    /\ step[c] \in Extracting \/ UsesTree(c) =>
           /\ Made(order[c].version, seen[c].sum)
           /\ seen[c].sum \in Build
           /\ seen[c].build = seen[c].sum
           /\ Expected(c) # None => Expected(c) = seen[c].sum
    /\ seen[c].mine => step[c] \in Unpacking
    /\ step[c] \in Extracting => tree[seen[c].sum] = Absent
    /\ step[c] = "extracting" => temp[seen[c].sum] # Absent /\ seen[c].mine
    /\ step[c] \in {"replacing", "naming"} => temp[seen[c].sum] = Whole(seen[c].sum)
    /\ UsesTree(c) => tree[seen[c].sum] = Whole(seen[c].sum)

SnapshotFits(c) ==
    order[c].how = "directory" =>
        /\ step[c] \in {"recheck", "snapshotting", "ready"} => seen[c].sum \in Content
        /\ step[c] = "ready" => snapshot[seen[c].sum] = Whole(seen[c].sum)

CommandFits(c) == OrderFits(c) /\ ArchiveFits(c) /\ TreeFits(c) /\ SnapshotFits(c)

OutcomeFits(c) ==
    /\ outcome[c].expected # None => outcome[c].ran = Whole(outcome[c].expected)
    /\ outcome[c].how # "none" => outcome[c].ran = Whole(outcome[c].recorded)

Apart ==
    \A c, d \in Command :
        c # d /\ step[c] \in Preparing /\ step[d] \in Preparing =>
            order[c].version # order[d].version

CoordinateMade ==
    \A e \in Route \X Version :
        \/ coordinate[e] = Absent
        \/ /\ Made(e[2], coordinate[e].build) /\ coordinate[e].build \in Build
           /\ coordinate[e] \in {Part(coordinate[e].build), Whole(coordinate[e].build)}

LockMade == lock # NoLock => Made(lock.version, lock.build)

FilesFit == CacheHonest /\ CoordinateMade /\ LockMade

CacheInv ==
    /\ ~Overlap
    /\ CacheTypeOK
    /\ FilesFit
    /\ Apart
    /\ \A c \in Command : CommandFits(c) /\ OutcomeFits(c)

Inv == PubInv /\ CacheInv

-----------------------------------------------------------------------------
(* What is stored *)

LEMMA NoneIsNoBuild == None \notin Build
  BY DEF None, Build

LEMMA StoredFacts ==
    /\ Absent \in Stored /\ Absent.build = None /\ Absent.whole = FALSE
    /\ \A b : Part(b).build = b /\ Part(b).whole = FALSE
    /\ \A b : Whole(b).build = b /\ Whole(b).whole = TRUE
    /\ \A b \in Build : Part(b) \in Stored /\ Whole(b) \in Stored
    /\ \A b : Part(b) # Whole(b)
    /\ \A b : Whole(b) # Absent
    /\ \A b \in Build : Part(b) # Absent
<1>1. /\ Absent.whole = FALSE /\ Absent.build = None
      /\ \A b : Part(b).build = b /\ Part(b).whole = FALSE
      /\ \A b : Whole(b).build = b /\ Whole(b).whole = TRUE
  BY DEF Absent, Part, Whole
<1>2. Absent \in Stored /\ \A b \in Build : Part(b) \in Stored /\ Whole(b) \in Stored
  BY DEF Absent, Part, Whole, Stored
<1>3. /\ \A b : Part(b) # Whole(b)
      /\ \A b : Whole(b) # Absent
  BY <1>1
<1>4. \A b \in Build : Part(b) # Absent
  BY <1>1, NoneIsNoBuild
<1> QED
  BY <1>1, <1>2, <1>3, <1>4

\* Only what is whole has the checksum of a build.
LEMMA SumFacts ==
    ASSUME NEW f \in Stored, NEW b \in Build, Sum(f) = b
    PROVE  f = Whole(b)
<1>1. f.whole /\ f.build = b
  BY NoneIsNoBuild DEF Sum
<1> QED
  BY <1>1 DEF Stored, Whole

LEMMA NothingTypes ==
    /\ NoOrder \in Order /\ NothingSeen \in Seen /\ NoOutcome \in Outcome
    /\ NothingSeen.at = "coordinate" /\ ~NothingSeen.mine
    /\ NoOrder.expected = None /\ NoOrder.how = "none"
    /\ NoOutcome.expected = None /\ NoOutcome.how = "none"
  BY DEF NoOrder, Order, Route, NothingSeen, Seen, NoOutcome, Outcome, Absent

LEMMA CacheBegins == ~Overlap /\ Init => Inv
<1> SUFFICES ASSUME ~Overlap, Init PROVE Inv
  OBVIOUS
<1> USE DEF Init, CacheInit
<1>1. PubInv
  BY PublicationBegins
<1>2. CacheTypeOK
  <2>1. NoOrder \in Order /\ NothingSeen \in Seen /\ NoLock \in Lock
    BY DEF NoOrder, Order, Route, NothingSeen, Seen, NoLock, Lock
  <2>2. NoOutcome \in Outcome
    BY DEF NoOutcome, Outcome, Absent
  <2>3. "done" \in CommandStep /\ working \in Content /\ given \in 0..MaxCommands
    BY CacheAssumption DEF CommandStep, Content
  <2> QED
    BY <2>1, <2>2, <2>3, StoredFacts DEF CacheTypeOK
<1>3. FilesFit
  BY DEF FilesFit, CacheHonest, CoordinateMade, LockMade
<1>4. \A c \in Command : /\ step[c] = "done" /\ order[c] = NoOrder
                          /\ outcome[c] = NoOutcome
  OBVIOUS
<1>5. Apart
  BY <1>4 DEF Apart, Preparing, Extracting
<1>6. \A c \in Command : CommandFits(c)
  BY <1>4, NothingTypes DEF CommandFits, OrderFits, ArchiveFits, TreeFits,
     SnapshotFits, UsesTree, Extracting, Preparing, NoOrder
<1>7. \A c \in Command : OutcomeFits(c)
  BY <1>4 DEF OutcomeFits, NoOutcome
<1> QED
  BY <1>1, <1>2, <1>3, <1>5, <1>6, <1>7 DEF Inv, CacheInv

-----------------------------------------------------------------------------
(* A step of one command, and the others *)

\* What a step may do to the files that a command relies on.
Undisturbed(d) ==
    /\ step[d] \in {"writing", "copying"} =>
           coordinate'[Entry(d)] = coordinate[Entry(d)]
    /\ step[d] \in Extracting \/ UsesTree(d) => tree'[seen[d].sum] = tree[seen[d].sum]
    /\ step[d] \in Unpacking => temp'[seen[d].sum] = temp[seen[d].sum]
    /\ order[d].how = "directory" /\ step[d] = "ready" =>
           snapshot'[seen[d].sum] = snapshot[seen[d].sum]

Unmoved(d) ==
    /\ order'[d] = order[d] /\ step'[d] = step[d] /\ seen'[d] = seen[d]
    /\ outcome'[d] = outcome[d]

LEMMA OthersFit ==
    ASSUME Inv, PubInv', Lasting, NEW d \in Command, Unmoved(d), Undisturbed(d)
    PROVE  CommandFits(d)' /\ OutcomeFits(d)'
<1>1. CommandFits(d) /\ OutcomeFits(d)
  BY DEF Inv, CacheInv
<1>2. \A v, b : Made(v, b) => v \in Version /\ b \in 1..built' /\ madeFor'[b] = v
  BY MadeLasts DEF Inv, PubInv
<1>3. /\ order'[d] = order[d] /\ step'[d] = step[d] /\ seen'[d] = seen[d]
      /\ outcome'[d] = outcome[d]
  BY DEF Unmoved
<1>4. OrderFits(d)'
  BY <1>1, <1>2, <1>3 DEF CommandFits, OrderFits, Made
<1>5. ArchiveFits(d)'
  BY <1>1, <1>3 DEF CommandFits, ArchiveFits, Undisturbed, Expected, Entry
<1>6. TreeFits(d)'
  BY <1>1, <1>2, <1>3 DEF CommandFits, TreeFits, Unpacking, Undisturbed, Unpacking, Expected, UsesTree, Made
<1>7. SnapshotFits(d)'
  BY <1>1, <1>3 DEF CommandFits, SnapshotFits, Undisturbed, Unpacking
<1>8. OutcomeFits(d)'
  BY <1>1, <1>3 DEF OutcomeFits
<1> QED
  BY <1>4, <1>5, <1>6, <1>7, <1>8 DEF CommandFits

LEMMA CommandStepKeeps ==
    ASSUME Inv, PubInv', Lasting, NEW c \in Command,
           CacheTypeOK', FilesFit', CommandFits(c)', OutcomeFits(c)',
           \A d \in Command \ {c} : Unmoved(d) /\ Undisturbed(d),
           step'[c] \in Preparing =>
               \/ step[c] \in Preparing /\ order'[c].version = order[c].version
               \/ Free(order'[c].version)
    PROVE  Inv'
<1>1. \A d \in Command \ {c} : CommandFits(d)' /\ OutcomeFits(d)'
  BY OthersFit
<1>2. Apart'
  <2> SUFFICES ASSUME NEW a \in Command, NEW b \in Command, a # b,
                      step'[a] \in Preparing, step'[b] \in Preparing
               PROVE  order'[a].version # order'[b].version
    BY DEF Apart
  <2>1. \A d \in Command \ {c} : order'[d] = order[d] /\ step'[d] = step[d]
    BY DEF Unmoved
  <2>2. Apart /\ ~Overlap
    BY DEF Inv, CacheInv
  <2>3. CASE a # c /\ b # c
    BY <2>1, <2>2, <2>3 DEF Apart
  <2>4. CASE a = c
    BY <2>1, <2>2, <2>4 DEF Apart, Free
  <2>5. CASE b = c
    BY <2>1, <2>2, <2>5 DEF Apart, Free
  <2> QED
    BY <2>3, <2>4, <2>5
<1> QED
  BY <1>1, <1>2 DEF Inv, CacheInv
\* A step that changes no file, but what a command does next, holds in memory
\* and was asked for.
LEMMA MemoryStep ==
    ASSUME Inv, NEW c \in Command, UNCHANGED <<pubVars, files>>,
           order' \in [Command -> Order], step' \in [Command -> CommandStep],
           seen' \in [Command -> Seen], outcome' \in [Command -> Outcome],
           given' \in 0..MaxCommands,
           \A d \in Command \ {c} : Unmoved(d),
           CommandFits(c)', OutcomeFits(c)',
           step'[c] \in Preparing =>
               \/ step[c] \in Preparing /\ order'[c].version = order[c].version
               \/ Free(order'[c].version)
    PROVE  Inv'
<1>1. PubInv' /\ Lasting
  BY PublicationStep DEF Inv
<1>2. UNCHANGED <<coordinate, byChecksum, temp, tree, working, snapshot, lock, built, madeFor>>
  BY DEF files, pubVars
<1>3. CacheTypeOK'
  BY <1>2 DEF Inv, CacheInv, CacheTypeOK
<1>4. FilesFit'
  BY <1>2 DEF Inv, CacheInv, FilesFit, CacheHonest, CoordinateMade, LockMade, Made
<1>5. \A d \in Command \ {c} : Undisturbed(d)
  BY <1>2 DEF Undisturbed, Unpacking
<1> QED
  BY <1>1, <1>3, <1>4, <1>5, CommandStepKeeps

LEMMA Types ==
    ASSUME Inv, NEW c \in Command
    PROVE  /\ order \in [Command -> Order] /\ order[c] \in Order
           /\ step \in [Command -> CommandStep] /\ step[c] \in CommandStep
           /\ seen \in [Command -> Seen] /\ seen[c] \in Seen
           /\ outcome \in [Command -> Outcome] /\ outcome[c] \in Outcome
           /\ given \in 0..MaxCommands
           /\ CommandFits(c) /\ OutcomeFits(c)
  BY DEF Inv, CacheInv, CacheTypeOK

\* A command that has ended relies on nothing.
LEMMA EndedFits ==
    ASSUME NEW c \in Command, order'[c] = NoOrder, seen'[c] = NothingSeen,
           step'[c] \in {"done", "failed"}
    PROVE  CommandFits(c)'
  BY NothingTypes DEF CommandFits, OrderFits, ArchiveFits, TreeFits, Unpacking, SnapshotFits, UsesTree,
     Extracting, Preparing, Extracting, Expected

LEMMA EndStep ==
    ASSUME Inv, NEW c \in Command, NEW s \in {"done", "failed"}, End(c, s),
           UNCHANGED <<pubVars, files, given>>,
           outcome' \in [Command -> Outcome],
           \A d \in Command \ {c} : outcome'[d] = outcome[d],
           OutcomeFits(c)'
    PROVE  Inv'
<1> USE DEF End, To
<1>1. /\ order' \in [Command -> Order] /\ seen' \in [Command -> Seen]
      /\ step' \in [Command -> CommandStep]
  BY Types, NothingTypes DEF CommandStep
<1>2. \A d \in Command \ {c} : Unmoved(d)
  BY Types DEF Unmoved
<1>3. order'[c] = NoOrder /\ step'[c] = s /\ seen'[c] = NothingSeen
  BY Types
<1>4. CommandFits(c)'
  BY <1>3, EndedFits
<1>5. step'[c] \notin Preparing
  BY <1>3 DEF Preparing, Extracting
<1>6. given' \in 0..MaxCommands
  BY Types
<1> QED
  BY <1>1, <1>2, <1>4, <1>5, <1>6, MemoryStep

LEMMA FailStep ==
    ASSUME Inv, NEW c \in Command, Fail(c) \/ Kill(c)
    PROVE  Inv'
<1>1. UNCHANGED <<pubVars, files, outcome, given>>
  BY DEF Fail, Kill
<1>2. OutcomeFits(c)'
  BY <1>1, Types DEF OutcomeFits
<1>3. End(c, "failed") \/ End(c, "done")
  BY DEF Fail, Kill
<1> QED
  BY <1>1, <1>2, <1>3, EndStep, Types

-----------------------------------------------------------------------------
(* The steps of a command *)

\* A new command: for all kinds of sources alike.
Accepted(c, o, s, m) ==
    /\ Accept(c, o, s) /\ seen' = [seen EXCEPT ![c] = m]
    /\ o.expected # None => Made(o.version, o.expected)
    /\ ~m.mine
    /\ \/ /\ s = "lookup" /\ o.version \in Version
          /\ o.how \notin {"directory", "none"}
          /\ Free(o.version)
       \/ /\ s = "recheck" /\ o.how = "directory" /\ o.expected = None
          /\ m.sum \in Content

LEMMA AcceptStep ==
    ASSUME Inv, NEW c \in Command, Take(c)
    PROVE  Inv'
<1>1. PICK o \in Order, s \in {"lookup", "recheck"}, m \in Seen : Accepted(c, o, s, m)
  <2>1. ASSUME NEW v \in Version, NEW route \in Route, NEW goal \in {"deploy", "lock"},
               TakeCoordinate(c, v, route, goal)
        PROVE  \E o \in Order, s \in {"lookup", "recheck"}, m \in Seen :
                   Accepted(c, o, s, m)
    <3> DEFINE o == [how |-> "coordinate", route |-> route, version |-> v,
                     expected |-> None, signed |-> FALSE, goal |-> goal]
    <3>1. o \in Order /\ o.expected = None /\ o.version = v /\ o.how = "coordinate"
      BY DEF Order
    <3>2. Accepted(c, o, "lookup", NothingSeen)
      BY <2>1, <3>1, NothingTypes DEF TakeCoordinate, Accepted
    <3> HIDE DEF o
    <3> QED
      BY <3>1, <3>2, NothingTypes
  <2>2. ASSUME NEW v \in Version, NEW signed \in BOOLEAN, NEW goal \in {"deploy", "lock"},
               TakeRegistry(c, v, signed, goal)
        PROVE  \E o \in Order, s \in {"lookup", "recheck"}, m \in Seen :
                   Accepted(c, o, s, m)
    <3> DEFINE o == [how |-> "registry", route |-> "url", version |-> v,
                     expected |-> index[v], signed |-> signed, goal |-> goal]
    <3>1. index[v] \in Build /\ Made(v, index[v])
      BY <2>2 DEF TakeRegistry, Inv, PubInv, PublicationTypeOK, IndexServed
    <3>2. o \in Order /\ o.expected = index[v] /\ o.version = v /\ o.how = "registry"
      BY <3>1 DEF Order, Route
    <3>3. Accepted(c, o, "lookup", NothingSeen)
      BY <2>2, <3>1, <3>2, NothingTypes DEF TakeRegistry, Accepted
    <3> HIDE DEF o
    <3> QED
      BY <3>2, <3>3, NothingTypes
  <2>3. ASSUME TakeLockfile(c)
        PROVE  \E o \in Order, s \in {"lookup", "recheck"}, m \in Seen :
                   Accepted(c, o, s, m)
    <3> DEFINE o == [how |-> "lockfile", route |-> "url", version |-> lock.version,
                     expected |-> lock.build, signed |-> lock.signed,
                     goal |-> "deploy"]
    <3>1. lock \in Lock /\ Made(lock.version, lock.build)
      BY <2>3 DEF TakeLockfile, Inv, CacheInv, CacheTypeOK, FilesFit, LockMade
    <3>2. o \in Order /\ o.expected = lock.build /\ o.version = lock.version
          /\ o.how = "lockfile" /\ lock.version \in Version
      BY <3>1 DEF Order, Route, Lock, Made
    <3>3. Accepted(c, o, "lookup", NothingSeen)
      BY <2>3, <3>1, <3>2, NothingTypes DEF TakeLockfile, Accepted
    <3> HIDE DEF o
    <3> QED
      BY <3>2, <3>3, NothingTypes
  <2>4. ASSUME TakeDirectory(c)
        PROVE  \E o \in Order, s \in {"lookup", "recheck"}, m \in Seen :
                   Accepted(c, o, s, m)
    <3> DEFINE o == [NoOrder EXCEPT !.how = "directory"]
               m == [NothingSeen EXCEPT !.sum = working]
    <3>1. o \in Order /\ o.expected = None /\ o.how = "directory"
      BY NothingTypes DEF Order, NoOrder
    <3>2. working \in Content
      BY DEF Inv, CacheInv, CacheTypeOK
    <3>3. m \in Seen /\ m.sum = working /\ ~m.mine
      BY <3>2 DEF Seen, NothingSeen
    <3>4. Accepted(c, o, "recheck", m)
      BY <2>4, <3>1, <3>2, <3>3 DEF TakeDirectory, Accepted
    <3> HIDE DEF o, m
    <3> QED
      BY <3>1, <3>3, <3>4
  <2> QED
    BY <2>1, <2>2, <2>3, <2>4 DEF Take
<1> USE DEF Accepted, Accept, To
<1>2. /\ order' \in [Command -> Order] /\ seen' \in [Command -> Seen]
      /\ step' \in [Command -> CommandStep] /\ outcome' \in [Command -> Outcome]
  BY <1>1, Types, NothingTypes DEF CommandStep, Preparing, Extracting
<1>3. given' \in 0..MaxCommands
  BY <1>1, Types, CacheAssumption
<1>4. /\ order'[c] = o /\ step'[c] = s /\ seen'[c] = m /\ outcome'[c] = NoOutcome
      /\ UNCHANGED <<pubVars, files>>
  BY <1>1, Types
<1>5. \A d \in Command \ {c} : Unmoved(d)
  BY <1>1, Types DEF Unmoved
<1>6. UNCHANGED <<built, madeFor>>
  BY <1>4 DEF pubVars
<1>7. CommandFits(c)'
  BY <1>1, <1>4, <1>6 DEF CommandFits, OrderFits, ArchiveFits, TreeFits, Unpacking, SnapshotFits,
     UsesTree, Extracting, Preparing, Extracting, Expected, Made
<1>8. OutcomeFits(c)'
  BY <1>4, NothingTypes DEF OutcomeFits
<1>9. step'[c] \in Preparing => Free(order'[c].version)
  BY <1>1, <1>4 DEF Preparing, Extracting
<1> QED
  BY <1>2, <1>3, <1>4, <1>5, <1>7, <1>8, <1>9, MemoryStep
\* A step with which a command goes on, whatever it does to the cache.
LEMMA OnwardStep ==
    ASSUME Inv, NEW c \in Command,
           UNCHANGED <<pubVars, working, lock, order, outcome, given>>,
           coordinate' \in [Route \X Version -> Stored], byChecksum' \in [Build -> Stored],
           temp' \in [Build -> Stored], tree' \in [Build -> Stored],
           snapshot' \in [Content -> {Absent} \cup {Whole(k) : k \in Content}],
           CacheHonest', CoordinateMade',
           NEW s \in CommandStep, To(c, s), seen' \in [Command -> Seen],
           \A d \in Command \ {c} : seen'[d] = seen[d] /\ Undisturbed(d),
           CommandFits(c)',
           s \in Preparing => step[c] \in Preparing
    PROVE  Inv'
<1> USE DEF To
<1>1. PubInv' /\ Lasting
  BY PublicationStep DEF Inv
<1>2. step' \in [Command -> CommandStep] /\ step'[c] = s
  BY Types
<1>3. CacheTypeOK'
  BY <1>2 DEF Inv, CacheInv, CacheTypeOK
<1>4. UNCHANGED <<built, madeFor, lock>>
  BY DEF pubVars
<1>5. FilesFit'
  BY <1>4 DEF Inv, CacheInv, FilesFit, LockMade, Made
<1>6. \A d \in Command \ {c} : Unmoved(d)
  BY Types DEF Unmoved
<1>7. OutcomeFits(c)'
  BY Types DEF OutcomeFits
<1>8. step'[c] \in Preparing => step[c] \in Preparing /\ order'[c].version = order[c].version
  BY <1>2
<1> QED
  BY <1>1, <1>3, <1>5, <1>6, <1>7, <1>8, CommandStepKeeps

\* The same for a step that only reads.
LEMMA ReadStep ==
    ASSUME Inv, NEW c \in Command, UNCHANGED <<pubVars, files, order, outcome, given>>,
           NEW s \in CommandStep, To(c, s), seen' \in [Command -> Seen],
           \A d \in Command \ {c} : seen'[d] = seen[d],
           CommandFits(c)',
           s \in Preparing => step[c] \in Preparing
    PROVE  Inv'
<1>1. UNCHANGED <<coordinate, byChecksum, temp, tree, working, snapshot, lock, built, madeFor>>
  BY DEF files, pubVars
<1>2. CacheTypeOK /\ CacheHonest /\ CoordinateMade
  BY DEF Inv, CacheInv, FilesFit
<1>3. CacheHonest' /\ CoordinateMade'
  BY <1>1, <1>2 DEF CacheHonest, CoordinateMade, Made
<1>4. \A d \in Command \ {c} : Undisturbed(d)
  BY <1>1 DEF Undisturbed, Unpacking
<1> QED
  BY <1>1, <1>2, <1>3, <1>4, OnwardStep DEF CacheTypeOK

LEMMA FilesTypes ==
    ASSUME Inv
    PROVE  /\ coordinate \in [Route \X Version -> Stored] /\ byChecksum \in [Build -> Stored]
           /\ temp \in [Build -> Stored] /\ tree \in [Build -> Stored] /\ working \in Content
           /\ snapshot \in [Content -> {Absent} \cup {Whole(k) : k \in Content}]
           /\ CacheHonest /\ CoordinateMade /\ LockMade
  BY DEF Inv, CacheInv, CacheTypeOK, FilesFit

\* A build is of one version, and of a build there is.
LEMMA MadeFacts ==
    ASSUME Inv, NEW v, NEW b, Made(v, b)
    PROVE  v \in Version /\ b \in Build /\ \A w : Made(w, b) => w = v
<1>1. built \in 0..MaxBuild /\ MaxBuild \in Nat
  BY PublicationAssumption DEF Inv, PubInv, PublicationTypeOK
<1> QED
  BY <1>1 DEF Made, Build

\* The entry of the cache that a command goes to is one of its version.
LEMMA EntryFacts ==
    ASSUME Inv, NEW c \in Command, order[c].version \in Version
    PROVE  Entry(c) \in Route \X Version /\ Entry(c)[2] = order[c].version
<1>1. order[c].route \in Route
  BY Types DEF Order
<1> QED
  BY <1>1 DEF Entry

\* The archive that a command has found: if it is whole, one of its version, and
\* the one that was asked for.
LEMMA ArchiveFacts ==
    ASSUME Inv, NEW c \in Command, step[c] \in {"signature", "load"}, Archive(c).whole
    PROVE  /\ Sum(Archive(c)) = Archive(c).build
           /\ Made(order[c].version, Archive(c).build)
           /\ Archive(c).build \in Build
           /\ Expected(c) # None => Expected(c) = Archive(c).build
<1>1. OrderFits(c) /\ ArchiveFits(c)
  BY Types DEF CommandFits
<1>2. CASE Expected(c) = None
  <2>1. seen[c].at # "checksum" /\ order[c].version \in Version
    BY <1>1, <1>2 DEF ArchiveFits, OrderFits, Preparing
  <2>2. Archive(c) = coordinate[Entry(c)] /\ Archive(c) # Absent
    BY <2>1, StoredFacts DEF Archive
  <2>3. Entry(c) \in Route \X Version /\ Entry(c)[2] = order[c].version
    BY <2>1, EntryFacts
  <2> QED
    BY <1>2, <2>2, <2>3, FilesTypes DEF CoordinateMade, Sum
<1>3. CASE Expected(c) # None
  <2>1. /\ seen[c].at = "checksum"
        /\ Made(order[c].version, Expected(c))
    BY <1>1, <1>3 DEF ArchiveFits, OrderFits, Expected
  <2>2. Expected(c) \in Build
    BY <2>1, MadeFacts
  <2>3. Archive(c) = byChecksum[Expected(c)]
    BY <2>1 DEF Archive
  <2>4. Archive(c) = Whole(Expected(c))
    BY <2>2, <2>3, StoredFacts, FilesTypes DEF CacheHonest
  <2> QED
    BY <2>1, <2>2, <2>4, StoredFacts DEF Sum
<1> QED
  BY <1>2, <1>3

LEMMA LookupStep ==
    ASSUME Inv, NEW c \in Command, Lookup(c)
    PROVE  Inv'
<1> USE DEF Lookup, To, FoundBy
<1>1. PICK s \in {"signature", "download", "verify"}, at \in {"checksum", "coordinate"} :
          /\ step' = [step EXCEPT ![c] = s]
          /\ seen' = [seen EXCEPT ![c] = [@ EXCEPT !.at = at]]
          /\ s = "download" => at = "coordinate"
          /\ s = "signature" => (at = "checksum" <=> Expected(c) # None)
          /\ s = "verify" => Expected(c) # None
  BY DEF Cached
<1>2. /\ [seen[c] EXCEPT !.at = at] \in Seen /\ [seen[c] EXCEPT !.at = at].at = at
      /\ [seen[c] EXCEPT !.at = at].mine = seen[c].mine
  BY Types DEF Seen
<1>3. seen' \in [Command -> Seen] /\ seen'[c].at = at /\ step'[c] = s /\ order' = order
      /\ seen'[c].mine = seen[c].mine
      /\ \A d \in Command \ {c} : seen'[d] = seen[d]
  BY <1>1, <1>2, Types
<1>4. step[c] \in Preparing /\ s \in Preparing /\ s \in CommandStep
  BY DEF Preparing, Extracting, CommandStep
<1>5. UNCHANGED <<built, madeFor>>
  BY DEF pubVars
<1>6. OrderFits(c) /\ order[c].how # "directory" /\ TreeFits(c)
  BY <1>4, Types DEF CommandFits, OrderFits
<1>7. OrderFits(c)'
  BY <1>3, <1>4, <1>5, <1>6 DEF OrderFits, Made, Preparing, Extracting
<1>8. ArchiveFits(c)'
  BY <1>1, <1>3 DEF ArchiveFits, Expected
<1>9. TreeFits(c)' /\ SnapshotFits(c)'
  BY <1>3, <1>6 DEF TreeFits, Unpacking, UsesTree, Extracting, SnapshotFits
<1>10. CommandFits(c)'
  BY <1>7, <1>8, <1>9 DEF CommandFits
<1> QED
  BY <1>1, <1>3, <1>4, <1>10, ReadStep

LEMMA SignatureStep ==
    ASSUME Inv, NEW c \in Command, CheckSignature(c)
    PROVE  Inv'
<1> USE DEF CheckSignature, To
<1>1. step'[c] = "load" /\ step[c] = "signature" /\ order' = order /\ seen' = seen
  BY Types
<1>2. UNCHANGED <<built, madeFor>>
  BY DEF pubVars
<1>3. OrderFits(c) /\ ArchiveFits(c) /\ order[c].how # "directory" /\ TreeFits(c)
  BY <1>1, Types DEF CommandFits, OrderFits, Preparing, Extracting
<1>4. OrderFits(c)' /\ ArchiveFits(c)'
  BY <1>1, <1>2, <1>3 DEF OrderFits, ArchiveFits, Expected, Made, Preparing, Extracting
<1>5. TreeFits(c)' /\ SnapshotFits(c)'
  BY <1>1, <1>3 DEF TreeFits, Unpacking, UsesTree, Extracting, SnapshotFits
<1>6. CommandFits(c)'
  BY <1>4, <1>5 DEF CommandFits
<1>7. step[c] \in Preparing /\ "load" \in CommandStep
  BY DEF Preparing, Extracting, CommandStep
<1> QED
  BY <1>1, <1>6, <1>7, Types, ReadStep

LEMMA LoadStep ==
    ASSUME Inv, NEW c \in Command, Load(c)
    PROVE  Inv'
<1> USE DEF Load, To
<1> DEFINE b == Archive(c).build
           m == [seen[c] EXCEPT !.sum = b, !.build = b]
<1>1. /\ Sum(Archive(c)) = b
      /\ Made(order[c].version, b) /\ b \in Build
      /\ Expected(c) # None => Expected(c) = b
  BY ArchiveFacts
<1>2. m \in Seen /\ m.sum = b /\ m.build = b /\ ~m.mine
  BY <1>1, Types DEF Seen, CommandFits, TreeFits, Unpacking
<1>3. seen' = [seen EXCEPT ![c] = m]
  BY <1>1
<1>4. /\ seen'[c] = m /\ order' = order /\ tree' = tree
      /\ seen' \in [Command -> Seen]
      /\ \A d \in Command \ {c} : seen'[d] = seen[d]
      /\ UNCHANGED <<built, madeFor>>
  BY <1>2, <1>3, Types DEF files, pubVars
<1>5. PICK s \in {"check", "extract"} :
          /\ step' = [step EXCEPT ![c] = s]
          /\ s = "check" => tree[b] # Absent
          /\ s = "extract" => tree[b] = Absent
  BY <1>1
<1>6. step'[c] = s
  BY <1>5, Types
<1>7. s = "check" => tree[b] = Whole(b)
  BY <1>1, <1>5, FilesTypes DEF CacheHonest
<1>8. OrderFits(c) /\ order[c].how # "directory"
  BY Types DEF CommandFits, OrderFits, Preparing, Extracting
<1> HIDE DEF b, m
<1>9. OrderFits(c)'
  BY <1>4, <1>6, <1>8 DEF OrderFits, Made, Preparing, Extracting
<1>10. ArchiveFits(c)' /\ SnapshotFits(c)'
  BY <1>4, <1>6, <1>8 DEF ArchiveFits, SnapshotFits
<1>11. TreeFits(c)'
  BY <1>1, <1>2, <1>4, <1>5, <1>6, <1>7 DEF TreeFits, Unpacking, UsesTree, Extracting, Expected, Made
<1>12. CommandFits(c)'
  BY <1>9, <1>10, <1>11 DEF CommandFits
<1>13. step[c] \in Preparing /\ s \in CommandStep
  BY DEF Preparing, Extracting, CommandStep
<1> QED
  BY <1>4, <1>5, <1>12, <1>13, ReadStep
-----------------------------------------------------------------------------
(* The steps that write into the cache *)

\* What another command relies on is of another version.
LEMMA OthersElsewhere ==
    ASSUME Inv, NEW c \in Command, step[c] \in Preparing, NEW d \in Command \ {c}
    PROVE  /\ step[d] \in Preparing => order[d].version # order[c].version
           /\ step[c] \in Extracting /\ (step[d] \in Extracting \/ UsesTree(d)) =>
                  seen[d].sum # seen[c].sum
<1>1. step[d] \in Preparing => order[d].version # order[c].version
  BY DEF Inv, CacheInv, Apart
<1>2. ASSUME step[c] \in Extracting, step[d] \in Extracting \/ UsesTree(d),
             seen[d].sum = seen[c].sum
      PROVE  FALSE
  <2>1. TreeFits(c) /\ TreeFits(d)
    BY Types DEF CommandFits
  <2>2. tree[seen[c].sum] = Absent
    BY <1>2, <2>1 DEF TreeFits
  <2>3. ~UsesTree(d)
    BY <1>2, <2>1, <2>2, StoredFacts DEF TreeFits
  <2>4. Made(order[c].version, seen[c].sum) /\ Made(order[d].version, seen[c].sum)
    BY <1>2, <2>1 DEF TreeFits
  <2>5. order[d].version = order[c].version
    BY <2>4, MadeFacts
  <2>6. step[d] \in Preparing
    BY <1>2, <2>3 DEF Preparing
  <2> QED
    BY <1>1, <2>5, <2>6
<1> QED
  BY <1>1, <1>2

\* A download begins or ends.
LEMMA WriteCoordinate ==
    ASSUME Inv, NEW c \in Command,
           NEW s \in {"writing", "verify", "signature"},
           step[c] \in {"download", "writing"},
           To(c, s),
           NEW f \in Stored, NEW b \in Build, f \in {Part(b), Whole(b)},
           Made(order[c].version, b),
           coordinate' = [coordinate EXCEPT ![Entry(c)] = f],
           NEW h \in Build \cup {None},
           seen' = [seen EXCEPT ![c] = [@ EXCEPT !.build = h]],
           UNCHANGED <<pubVars, byChecksum, temp, tree, working, snapshot, lock,
                       order, outcome, given>>,
           s = "writing" => seen[c].at = "coordinate" /\ h = b,
           s = "verify" => Expected(c) # None,
           s = "signature" => (seen[c].at = "checksum" <=> Expected(c) # None)
    PROVE  Inv'
<1> USE DEF To
<1>1. /\ order[c].version \in Version
      /\ Entry(c) \in Route \X Version /\ Entry(c)[2] = order[c].version
  BY EntryFacts DEF Made
<1>2. \A e \in Route \X Version : coordinate'[e] = IF e = Entry(c) THEN f ELSE coordinate[e]
  BY <1>1, FilesTypes
<1>3. coordinate' \in [Route \X Version -> Stored]
  BY FilesTypes
<1>4. UNCHANGED <<built, madeFor>>
  BY DEF pubVars
<1>5. CacheHonest'
  BY FilesTypes DEF CacheHonest
<1>6. CoordinateMade'
  <2> SUFFICES ASSUME NEW e \in Route \X Version
               PROVE  \/ coordinate'[e] = Absent
                      \/ /\ Made(e[2], coordinate'[e].build)
                         /\ coordinate'[e].build \in Build
                         /\ coordinate'[e] \in {Part(coordinate'[e].build),
                                                Whole(coordinate'[e].build)}
    BY <1>4 DEF CoordinateMade, Made
  <2>1. CASE e = Entry(c)
    BY <1>1, <1>2, <2>1, StoredFacts
  <2>2. CASE e # Entry(c)
    BY <1>2, <2>2, FilesTypes DEF CoordinateMade
  <2> QED
    BY <2>1, <2>2
<1>7. step[c] \in Preparing /\ s \in CommandStep
  BY DEF Preparing, CommandStep
<1>8. \A d \in Command \ {c} : Undisturbed(d)
  <2> SUFFICES ASSUME NEW d \in Command \ {c}
               PROVE  Undisturbed(d)
    OBVIOUS
  <2>1. ASSUME step[d] \in {"writing", "copying"}
        PROVE  Entry(d) \in Route \X Version /\ Entry(d) # Entry(c)
    <3>1. step[d] \in Preparing
      BY <2>1 DEF Preparing
    <3>2. order[d].version # order[c].version /\ order[d].version \in Version
      BY <3>1, <1>7, OthersElsewhere, Types DEF CommandFits, OrderFits
    <3> QED
      BY <3>2, <1>1, EntryFacts
  <2> QED
    BY <2>1, <1>2 DEF Undisturbed
<1>9. OrderFits(c) /\ order[c].how # "directory" /\ TreeFits(c)
  BY <1>7, Types DEF CommandFits, OrderFits
<1>10. step'[c] = s
  BY Types
<1>11. OrderFits(c)'
  BY <1>4, <1>9, <1>10 DEF OrderFits, Made, Preparing, Extracting
<1>12. /\ seen' \in [Command -> Seen] /\ \A d \in Command \ {c} : seen'[d] = seen[d]
       /\ seen'[c].at = seen[c].at /\ seen'[c].build = h /\ seen'[c].mine = seen[c].mine
  BY Types DEF Seen
<1>13. ArchiveFits(c)'
  <2>1. Entry(c)' = Entry(c) /\ Expected(c)' = Expected(c)
    BY DEF Entry, Expected
  <2>2. coordinate'[Entry(c)] = f /\ f # Absent /\ f.build = b
    BY <1>1, <1>2, StoredFacts
  <2> QED
    BY <1>10, <1>12, <2>1, <2>2 DEF ArchiveFits
<1>14. TreeFits(c)' /\ SnapshotFits(c)'
  BY <1>9, <1>10, <1>12 DEF TreeFits, Unpacking, SnapshotFits, Extracting, UsesTree
<1>15. CommandFits(c)'
  BY <1>11, <1>13, <1>14 DEF CommandFits
<1> QED
  BY <1>3, <1>5, <1>6, <1>7, <1>8, <1>12, <1>15, FilesTypes, OnwardStep

LEMMA DownloadStep ==
    ASSUME Inv, NEW c \in Command, Download(c)
    PROVE  Inv'
<1> DEFINE v == order[c].version
           b == repository[v]["zip"]
<1>1. CASE Fail(c)
  BY <1>1, FailStep
<1>2. CASE ~Fail(c)
  <2>1. v \in Version
    BY Types DEF Download, CommandFits, OrderFits, Preparing
  <2>2. b # None /\ b \in Build
    BY <1>2, <2>1 DEF Download, Inv, PubInv, PublicationTypeOK, File
  <2>3. Made(v, b)
    BY <2>1, <2>2 DEF Inv, PubInv, FilesMade, File
  <2>4. seen[c].at = "coordinate" /\ step[c] = "download"
    BY Types DEF Download, CommandFits, ArchiveFits
  <2>5. /\ coordinate' = [coordinate EXCEPT ![Entry(c)] = Part(b)]
        /\ seen' = [seen EXCEPT ![c] = [@ EXCEPT !.build = b]]
        /\ To(c, "writing")
        /\ UNCHANGED <<pubVars, byChecksum, temp, tree, working, snapshot, lock,
                       order, outcome, given>>
    BY <1>2 DEF Download
  <2> QED
    BY <2>2, <2>3, <2>4, <2>5, StoredFacts, WriteCoordinate
<1> QED
  BY <1>1, <1>2

LEMMA FinishDownloadStep ==
    ASSUME Inv, NEW c \in Command, FinishDownload(c)
    PROVE  Inv'
<1> USE DEF FinishDownload
<1> DEFINE e == Entry(c)
           b == coordinate[e].build
           s == IF Expected(c) # None THEN "verify" ELSE "signature"
<1>1. step[c] = "writing" /\ step[c] \in Preparing
  BY DEF Preparing
<1>2. /\ order[c].version \in Version /\ seen[c].at = "coordinate"
      /\ coordinate[e] # Absent /\ seen[c].build = b
  BY <1>1, Types DEF CommandFits, OrderFits, ArchiveFits
<1>3. e \in Route \X Version /\ e[2] = order[c].version
  BY <1>2, EntryFacts
<1>4. Made(e[2], b) /\ b \in Build /\ coordinate[e] \in {Part(b), Whole(b)}
  BY <1>2, <1>3, FilesTypes DEF CoordinateMade
<1>5. PICK f \in {Part(b), Whole(b)} : coordinate' = [coordinate EXCEPT ![e] = f]
  <2>1. coordinate = [coordinate EXCEPT ![e] = coordinate[e]]
    BY <1>3, FilesTypes
  <2>2. coordinate' = [coordinate EXCEPT ![e] = Whole(b)] \/ coordinate' = coordinate
    BY <1>2
  <2> QED
    BY <1>4, <2>1, <2>2
<1>6. f \in Stored
  BY <1>4, <1>5, StoredFacts
<1>7. /\ s \in {"writing", "verify", "signature"} /\ To(c, s)
      /\ seen' = [seen EXCEPT ![c] = [@ EXCEPT !.build = None]]
      /\ UNCHANGED <<pubVars, byChecksum, temp, tree, working, snapshot, lock,
                     order, outcome, given>>
      /\ s = "verify" => Expected(c) # None
      /\ s = "signature" => (seen[c].at = "checksum" <=> Expected(c) # None)
      /\ s # "writing"
  BY <1>2
<1> HIDE DEF b, s
<1> QED
  BY <1>1, <1>3, <1>4, <1>5, <1>6, <1>7, WriteCoordinate

LEMMA ByChecksumWritten ==
    ASSUME Inv, NEW e \in Build, NEW f \in {Part(e), Whole(e)},
           byChecksum' = [byChecksum EXCEPT ![e] = f]
    PROVE  /\ byChecksum' \in [Build -> Stored]
           /\ \A b \in Build : \/ byChecksum'[b] = byChecksum[b]
                               \/ (b = e /\ byChecksum'[b] \in {Part(b), Whole(b)})
<1>1. f \in Stored /\ byChecksum \in [Build -> Stored]
  BY StoredFacts, FilesTypes
<1>2. byChecksum' \in [Build -> Stored]
  BY <1>1
<1>3. byChecksum'[e] \in {Part(e), Whole(e)}
  BY <1>1
<1>4. \A b \in Build : b # e => byChecksum'[b] = byChecksum[b]
  BY <1>1
<1> QED
  BY <1>2, <1>3, <1>4

\* The copy under the checksum is found, begun, or finished.
LEMMA WriteByChecksum ==
    ASSUME Inv, NEW c \in Command, VerifyChecksum(c) \/ FinishCopy(c)
    PROVE  Inv'
<1> USE DEF VerifyChecksum, FinishCopy, To, FoundBy
<1> DEFINE e == Expected(c)
           v == order[c].version
<1>1. step[c] \in {"verify", "copying"} /\ step[c] \in Preparing
  BY DEF Preparing
<1>2. /\ e # None /\ Made(v, e) /\ v \in Version /\ order[c].how # "directory"
      /\ OrderFits(c) /\ ~seen[c].mine
  BY <1>1, Types DEF CommandFits, OrderFits, ArchiveFits, TreeFits, Unpacking, Expected
<1>3. e \in Build /\ Entry(c) \in Route \X Version
  BY <1>2, MadeFacts, EntryFacts
<1>4. coordinate[Entry(c)] = Whole(e)
  <2>1. CASE step[c] = "verify"
    <3>1. Sum(coordinate[Entry(c)]) = e /\ coordinate[Entry(c)] \in Stored
      BY <2>1, <1>3, FilesTypes DEF Matches
    <3> QED
      BY <3>1, <1>3, SumFacts
  <2>2. CASE step[c] = "copying"
    BY <2>2, Types DEF CommandFits, ArchiveFits
  <2> QED
    BY <1>1, <2>1, <2>2
<1>5. /\ byChecksum' \in [Build -> Stored]
      /\ \A b \in Build : \/ byChecksum'[b] = byChecksum[b]
                          \/ (b = e /\ byChecksum'[b] \in {Part(b), Whole(b)})
  <2>1. CASE UNCHANGED byChecksum
    BY <2>1, FilesTypes
  <2>2. CASE ~UNCHANGED byChecksum
    <3>1. coordinate[Entry(c)].build = e
      BY <1>4, StoredFacts
    <3>2. PICK f \in {Part(e), Whole(e)} : byChecksum' = [byChecksum EXCEPT ![e] = f]
      BY <1>4, <2>2, <3>1
    <3> QED
      BY <1>3, <3>2, ByChecksumWritten
  <2> QED
    BY <2>1, <2>2
<1>6. UNCHANGED <<pubVars, coordinate, temp, tree, working, snapshot, lock, order,
                  outcome, given>>
  OBVIOUS
<1>7. UNCHANGED <<built, madeFor>>
  BY DEF pubVars
<1>8. CacheHonest' /\ CoordinateMade'
  BY <1>5, <1>6, <1>7, FilesTypes DEF CacheHonest, CoordinateMade, Made
<1>9. PICK s \in {"copying", "signature"} :
          /\ To(c, s) /\ step'[c] = s
          /\ seen' \in [Command -> Seen]
          /\ \A d \in Command \ {c} : seen'[d] = seen[d]
          /\ s = "signature" => seen'[c].at = "checksum"
          /\ seen'[c].mine = seen[c].mine
  BY Types DEF Seen
<1>10. \A d \in Command \ {c} : Undisturbed(d)
  BY <1>6 DEF Undisturbed
<1>11. OrderFits(c)' /\ SnapshotFits(c)'
  BY <1>2, <1>6, <1>7, <1>9 DEF OrderFits, SnapshotFits, Made, Preparing, Extracting
<1>12. ArchiveFits(c)' /\ TreeFits(c)'
  BY <1>2, <1>4, <1>6, <1>9
     DEF ArchiveFits, TreeFits, Unpacking, Extracting, UsesTree, Expected, Entry
<1>13. CommandFits(c)'
  BY <1>11, <1>12 DEF CommandFits
<1>14. s \in CommandStep
  BY DEF CommandStep, Preparing
<1> QED
  BY <1>1, <1>5, <1>6, <1>8, <1>9, <1>10, <1>13, <1>14, FilesTypes, OnwardStep

\* A tree is extracted under another name, then it has its own.
LEMMA WriteTree ==
    ASSUME Inv, NEW c \in Command, step[c] \in Extracting,
           NEW s \in {"extracting", "replacing", "naming", "check"}, To(c, s),
           NEW f \in {Absent, Whole(seen[c].sum)},
           tree' = [tree EXCEPT ![seen[c].sum] = f],
           NEW g \in Stored, temp' = [temp EXCEPT ![seen[c].sum] = g],
           NEW m \in BOOLEAN, seen' \in [Command -> Seen],
           seen'[c] = [seen[c] EXCEPT !.mine = m],
           \A d \in Command \ {c} : seen'[d] = seen[d],
           UNCHANGED <<pubVars, coordinate, byChecksum, working, snapshot, lock,
                       order, outcome, given>>,
           s = "check" => f = Whole(seen[c].sum) /\ ~m,
           s # "check" => f = Absent,
           s = "extracting" => g # Absent /\ m,
           s \in {"replacing", "naming"} => g = Whole(seen[c].sum)
    PROVE  Inv'
<1> USE DEF To
<1> DEFINE b == seen[c].sum
<1>1. step[c] \in Preparing /\ seen[c] \in Seen /\ step'[c] = s
  BY Types DEF Preparing
<1>2. /\ Made(order[c].version, b) /\ b \in Build /\ seen[c].build = b
      /\ Expected(c) # None => Expected(c) = b
  BY Types DEF CommandFits, TreeFits
<1>3. OrderFits(c) /\ order[c].how # "directory"
  BY <1>1, Types DEF CommandFits, OrderFits
<1>4. seen'[c].sum = b /\ seen'[c].build = b /\ seen'[c].mine = m /\ seen'[c].at = seen[c].at
  BY <1>1, <1>2 DEF Seen
<1>5. \A a \in Build : /\ tree'[a] = IF a = b THEN f ELSE tree[a]
                       /\ temp'[a] = IF a = b THEN g ELSE temp[a]
  BY FilesTypes
<1>6. tree' \in [Build -> Stored] /\ temp' \in [Build -> Stored]
  BY <1>2, StoredFacts, FilesTypes
<1>7. UNCHANGED <<built, madeFor>>
  BY DEF pubVars
<1>8. CacheHonest' /\ CoordinateMade'
  BY <1>5, <1>7, FilesTypes DEF CacheHonest, CoordinateMade, Made
<1>9. \A d \in Command \ {c} : Undisturbed(d)
  <2> SUFFICES ASSUME NEW d \in Command \ {c}
               PROVE  Undisturbed(d)
    OBVIOUS
  <2>1. step[d] \in Extracting \/ UsesTree(d) => seen[d].sum \in Build /\ seen[d].sum # b
    BY <1>1, OthersElsewhere, Types DEF CommandFits, TreeFits
  <2>2. step[d] \in Unpacking => step[d] \in Extracting
    BY DEF Unpacking, Extracting
  <2> QED
    BY <2>1, <2>2, <1>5 DEF Undisturbed
<1>10. OrderFits(c)' /\ SnapshotFits(c)' /\ ArchiveFits(c)'
  BY <1>1, <1>3, <1>7
     DEF OrderFits, SnapshotFits, ArchiveFits, Made, Preparing, Extracting
<1>11. TreeFits(c)'
  BY <1>1, <1>2, <1>4, <1>5, <1>7
     DEF TreeFits, Unpacking, Extracting, UsesTree, Expected, Made
<1>12. CommandFits(c)'
  BY <1>10, <1>11 DEF CommandFits
<1>13. s \in CommandStep
  BY DEF CommandStep, Preparing, Extracting
<1> QED
  BY <1>1, <1>6, <1>8, <1>9, <1>12, <1>13, FilesTypes, OnwardStep

LEMMA ExtractionStep ==
    ASSUME Inv, NEW c \in Command,
           Extract(c) \/ FinishExtract(c) \/ RemoveTree(c) \/ Rename(c)
    PROVE  Inv'
<1> DEFINE b == seen[c].sum
<1> USE DEF To
<1>1. step[c] \in Extracting /\ step[c] \in Preparing
  BY DEF Extract, FinishExtract, RemoveTree, Rename, Extracting, Preparing
<1>2. TreeFits(c) /\ seen \in [Command -> Seen] /\ seen[c] \in Seen
  BY Types DEF CommandFits
<1>3. /\ b \in Build /\ seen[c].build = b /\ tree[b] = Absent
      /\ temp[b] \in Stored
  BY <1>1, <1>2, FilesTypes DEF TreeFits
<1>4. tree = [tree EXCEPT ![b] = Absent] /\ temp = [temp EXCEPT ![b] = temp[b]]
  BY <1>3, FilesTypes
<1>5. seen[c].mine \in BOOLEAN /\ seen[c] = [seen[c] EXCEPT !.mine = seen[c].mine]
  BY <1>2 DEF Seen
<1>6. CASE Extract(c)
  <2>1. seen' \in [Command -> Seen] /\ seen'[c] = [seen[c] EXCEPT !.mine = TRUE]
    BY <1>2, <1>6 DEF Extract, Emptied, Seen
  <2>2. \A d \in Command \ {c} : seen'[d] = seen[d]
    <3> SUFFICES ASSUME NEW d \in Command \ {c}
                 PROVE  seen'[d] = seen[d]
      OBVIOUS
    <3>1. seen[d] \in Seen /\ TreeFits(d)
      BY Types DEF CommandFits
    <3>2. seen[d].mine => step[d] \in Extracting
      BY <3>1 DEF TreeFits, Unpacking, Extracting
    <3>3. seen[d].mine => seen[d].sum # b
      BY <1>1, <3>2, OthersElsewhere
    <3>4. (seen[d].mine /\ seen[d].sum # b) = seen[d].mine
      BY <3>1, <3>3 DEF Seen
    <3>5. seen[d] = [seen[d] EXCEPT !.mine = seen[d].mine]
      BY <3>1 DEF Seen
    <3>6. seen'[d] = [seen[d] EXCEPT !.mine = (@ /\ seen[d].sum # b)]
      BY <1>2, <1>6 DEF Extract, Emptied
    <3> QED
      BY <3>4, <3>5, <3>6
  <2>3. /\ temp' = [temp EXCEPT ![b] = Part(b)] /\ tree' = [tree EXCEPT ![b] = Absent]
        /\ To(c, "extracting")
        /\ UNCHANGED <<pubVars, coordinate, byChecksum, working, snapshot, lock,
                       order, outcome, given>>
    BY <1>3, <1>4, <1>6 DEF Extract
  <2>4. Part(b) \in Stored /\ Part(b) # Absent
    BY <1>3, StoredFacts
  <2> QED
    BY <1>1, <2>1, <2>2, <2>3, <2>4, WriteTree
<1>7. CASE FinishExtract(c)
  <2>1. seen[c].mine /\ temp[b] # Absent
    BY <1>2, <1>7 DEF FinishExtract, TreeFits
  <2>2. /\ temp' = [temp EXCEPT ![b] = Whole(b)]
        /\ To(c, "replacing") /\ UNCHANGED <<tree, seen>>
        /\ UNCHANGED <<pubVars, coordinate, byChecksum, working, snapshot, lock,
                       order, outcome, given>>
    BY <1>3, <1>7, <2>1 DEF FinishExtract
  <2>3. Whole(b) \in Stored
    BY <1>3, StoredFacts
  <2> QED
    BY <1>1, <1>2, <1>4, <1>5, <2>2, <2>3, WriteTree
<1>8. CASE RemoveTree(c)
  <2>1. temp[b] = Whole(b)
    BY <1>2, <1>8 DEF RemoveTree, TreeFits
  <2>2. /\ tree' = [tree EXCEPT ![b] = Absent] /\ UNCHANGED <<temp, seen>>
        /\ To(c, "naming")
        /\ UNCHANGED <<pubVars, coordinate, byChecksum, working, snapshot, lock,
                       order, outcome, given>>
    BY <1>8 DEF RemoveTree
  <2> QED
    BY <1>1, <1>2, <1>3, <1>4, <1>5, <2>1, <2>2, WriteTree
<1>9. CASE Rename(c)
  <2>1. temp[b] = Whole(b) /\ temp[b] # Absent
    BY <1>2, <1>9, StoredFacts DEF Rename, TreeFits
  <2>2. /\ tree' = [tree EXCEPT ![b] = Whole(b)] /\ temp' = [temp EXCEPT ![b] = Absent]
        /\ seen' = [seen EXCEPT ![c] = [@ EXCEPT !.mine = FALSE]]
        /\ To(c, "check")
        /\ UNCHANGED <<pubVars, coordinate, byChecksum, working, snapshot, lock,
                       order, outcome, given>>
    BY <1>3, <1>9, <2>1 DEF Rename
  <2>3. /\ seen' \in [Command -> Seen] /\ seen'[c] = [seen[c] EXCEPT !.mine = FALSE]
        /\ \A d \in Command \ {c} : seen'[d] = seen[d]
    BY <1>2, <2>2 DEF Seen
  <2>4. Absent \in Stored
    BY StoredFacts
  <2> QED
    BY <1>1, <2>2, <2>3, <2>4, WriteTree
<1> QED
  BY <1>6, <1>7, <1>8, <1>9

-----------------------------------------------------------------------------
(* Plans, snapshots and deployments *)

LEMMA CheckPlanStep ==
    ASSUME Inv, NEW c \in Command, CheckPlan(c)
    PROVE  Inv'
<1> USE DEF CheckPlan, To
<1>1. /\ step[c] = "check" /\ step'[c] = "ready" /\ order' = order /\ seen' = seen
      /\ tree' = tree
  BY Types DEF files
<1>2. UNCHANGED <<built, madeFor>>
  BY DEF pubVars
<1>3. CommandFits(c) /\ order[c].how \notin {"directory", "none"}
  BY <1>1, Types DEF CommandFits, OrderFits
<1>4. OrderFits(c)'
  BY <1>1, <1>2, <1>3 DEF CommandFits, OrderFits, Made, Preparing, Extracting
<1>5. ArchiveFits(c)' /\ SnapshotFits(c)'
  BY <1>1, <1>3 DEF ArchiveFits, SnapshotFits
<1>6. TreeFits(c)'
  BY <1>1, <1>2, <1>3 DEF CommandFits, TreeFits, Unpacking, UsesTree, Extracting, Expected, Made
<1>7. CommandFits(c)'
  BY <1>4, <1>5, <1>6 DEF CommandFits
<1>8. "ready" \in CommandStep /\ "ready" \notin Preparing
  BY DEF CommandStep, Preparing, Extracting
<1> QED
  BY <1>1, <1>7, <1>8, Types, ReadStep

LEMMA FinishLockStep ==
    ASSUME Inv, NEW c \in Command, FinishLock(c)
    PROVE  Inv'
<1> USE DEF FinishLock, End, To
<1>1. PubInv' /\ Lasting
  BY PublicationStep DEF Inv
<1>2. UNCHANGED <<built, madeFor>>
  BY DEF pubVars
<1>3. /\ order[c].version \in Version
      /\ seen[c].sum \in Build /\ Made(order[c].version, seen[c].sum)
  BY Types DEF CommandFits, OrderFits, TreeFits, UsesTree
<1>4. lock' \in Lock /\ Made(lock'.version, lock'.build)
  <2> DEFINE l == [version |-> order[c].version, build |-> seen[c].sum,
                   signed |-> order[c].signed]
  <2>1. order[c].signed \in BOOLEAN
    BY Types DEF Order
  <2>2. l \in Lock /\ l.version = order[c].version /\ l.build = seen[c].sum
    BY <1>3, <2>1 DEF Lock
  <2>3. lock' = l
    OBVIOUS
  <2> QED
    BY <1>3, <2>2, <2>3
<1>5. /\ order' \in [Command -> Order] /\ seen' \in [Command -> Seen]
      /\ step' \in [Command -> CommandStep]
      /\ order'[c] = NoOrder /\ seen'[c] = NothingSeen /\ step'[c] = "done"
  BY Types, NothingTypes DEF CommandStep
<1>6. CacheTypeOK'
  BY <1>4, <1>5, FilesTypes, Types DEF CacheTypeOK
<1>7. FilesFit'
  BY <1>2, <1>4, FilesTypes DEF FilesFit, CacheHonest, CoordinateMade, LockMade, Made
<1>8. \A d \in Command \ {c} : Unmoved(d) /\ Undisturbed(d)
  BY Types DEF Unmoved, Undisturbed
<1>9. CommandFits(c)'
  BY <1>5, EndedFits
<1>10. OutcomeFits(c)'
  BY Types DEF OutcomeFits
<1>11. step'[c] \notin Preparing
  BY <1>5 DEF Preparing, Extracting
<1> QED
  BY <1>1, <1>6, <1>7, <1>8, <1>9, <1>10, <1>11, CommandStepKeeps

LEMMA WriteLockStep ==
    ASSUME Inv, NEW c \in Command, WriteLock(c)
    PROVE  Inv'
<1> USE DEF WriteLock, To
<1>1. PubInv' /\ Lasting
  BY PublicationStep DEF Inv
<1>2. UNCHANGED <<built, madeFor>>
  BY DEF pubVars
<1>3. /\ step[c] = "check" /\ step'[c] = "locking" /\ step' \in [Command -> CommandStep]
      /\ CommandFits(c)
  BY Types DEF CommandStep
<1>4. CacheTypeOK'
  BY <1>3, FilesTypes, Types DEF CacheTypeOK, NoLock, Lock
<1>5. FilesFit'
  BY <1>2, FilesTypes DEF FilesFit, CacheHonest, CoordinateMade, LockMade, Made
<1>6. \A d \in Command \ {c} : Unmoved(d) /\ Undisturbed(d)
  BY Types DEF Unmoved, Undisturbed
<1>7. OrderFits(c)' /\ ArchiveFits(c)' /\ SnapshotFits(c)'
  BY <1>2, <1>3
     DEF CommandFits, OrderFits, ArchiveFits, SnapshotFits, Made, Preparing, Extracting
<1>8. TreeFits(c)'
  BY <1>2, <1>3 DEF CommandFits, TreeFits, Unpacking, UsesTree, Extracting, Expected, Made
<1>9. CommandFits(c)'
  BY <1>7, <1>8 DEF CommandFits
<1>10. OutcomeFits(c)'
  BY Types DEF OutcomeFits
<1>11. step'[c] \notin Preparing
  BY <1>3 DEF Preparing, Extracting
<1> QED
  BY <1>1, <1>4, <1>5, <1>6, <1>9, <1>10, <1>11, CommandStepKeeps

LEMMA SnapshotsStored ==
    ASSUME Inv, NEW k \in Content, snapshot[k] # Absent
    PROVE  snapshot[k] = Whole(k)
  BY FilesTypes DEF CacheHonest

LEMMA RecheckStep ==
    ASSUME Inv, NEW c \in Command, Recheck(c)
    PROVE  Inv'
<1> USE DEF Recheck, To
<1>1. PICK s \in {"ready", "snapshotting"} :
          /\ To(c, s) /\ step'[c] = s
          /\ s = "ready" => snapshot[seen[c].sum] # Absent
  BY Types
<1>2. order[c].how = "directory" /\ seen[c].sum \in Content /\ OrderFits(c)
      /\ ~seen[c].mine
  BY Types DEF CommandFits, OrderFits, SnapshotFits, TreeFits, Unpacking
<1>3. UNCHANGED <<built, madeFor, order, seen, snapshot>>
  BY DEF pubVars, files
<1>4. OrderFits(c)'
  BY <1>1, <1>2, <1>3 DEF OrderFits, Made, Preparing, Extracting
<1>5. ArchiveFits(c)' /\ TreeFits(c)'
  BY <1>1, <1>2, <1>3 DEF ArchiveFits, TreeFits, Unpacking, Extracting, UsesTree
<1>6. SnapshotFits(c)'
  BY <1>1, <1>2, <1>3, SnapshotsStored DEF SnapshotFits
<1>7. CommandFits(c)'
  BY <1>4, <1>5, <1>6 DEF CommandFits
<1>8. s \in CommandStep /\ s \notin Preparing
  BY DEF CommandStep, Preparing, Extracting
<1> QED
  BY <1>1, <1>3, <1>7, <1>8, Types, ReadStep

LEMMA FinishSnapshotStep ==
    ASSUME Inv, NEW c \in Command, FinishSnapshot(c)
    PROVE  Inv'
<1> USE DEF FinishSnapshot, To
<1> DEFINE k == seen[c].sum
<1>1. order[c].how = "directory" /\ k \in Content /\ OrderFits(c)
      /\ ~seen[c].mine
  BY Types DEF CommandFits, OrderFits, SnapshotFits, TreeFits, Unpacking
<1>2. snapshot' = [snapshot EXCEPT ![k] = Whole(k)]
  OBVIOUS
<1>3. /\ snapshot' \in [Content -> {Absent} \cup {Whole(i) : i \in Content}]
      /\ \A i \in Content : snapshot'[i] = IF i = k THEN Whole(k) ELSE snapshot[i]
  BY <1>1, <1>2, FilesTypes
<1>4. UNCHANGED <<pubVars, coordinate, byChecksum, temp, tree, working, lock,
                  order, seen, outcome, given>>
  OBVIOUS
<1>5. UNCHANGED <<built, madeFor>>
  BY DEF pubVars
<1>6. CacheHonest' /\ CoordinateMade'
  BY <1>3, <1>4, <1>5, FilesTypes DEF CacheHonest, CoordinateMade, Made
<1>7. \A d \in Command \ {c} : Undisturbed(d)
  <2> SUFFICES ASSUME NEW d \in Command \ {c}
               PROVE  Undisturbed(d)
    OBVIOUS
  <2>1. order[d].how = "directory" /\ step[d] = "ready" =>
            seen[d].sum \in Content /\ snapshot[seen[d].sum] = Whole(seen[d].sum)
    BY Types DEF CommandFits, SnapshotFits
  <2> QED
    BY <2>1, <1>3, <1>4 DEF Undisturbed, Unpacking
<1>8. step'[c] = "ready"
  BY Types
<1>9. OrderFits(c)'
  BY <1>1, <1>4, <1>5, <1>8 DEF OrderFits, Made, Preparing, Extracting
<1>10. ArchiveFits(c)' /\ TreeFits(c)'
  BY <1>1, <1>4, <1>8 DEF ArchiveFits, TreeFits, Unpacking, Extracting, UsesTree
<1>11. SnapshotFits(c)'
  BY <1>1, <1>3, <1>4 DEF SnapshotFits
<1>12. CommandFits(c)'
  BY <1>9, <1>10, <1>11 DEF CommandFits
<1>13. "ready" \in CommandStep /\ "ready" \notin Preparing
  BY DEF CommandStep, Preparing, Extracting
<1> QED
  BY <1>3, <1>4, <1>6, <1>7, <1>12, <1>13, FilesTypes, Types, OnwardStep

LEMMA DeployStep ==
    ASSUME Inv, NEW c \in Command, Deploy(c)
    PROVE  Inv'
<1> USE DEF Deploy
<1> DEFINE o == [how |-> order[c].how, expected |-> Expected(c),
                 recorded |-> seen[c].sum, ran |-> ScriptTree(c)]
<1>1. /\ ScriptTree(c) = Whole(seen[c].sum)
      /\ seen[c].sum \in Build \cup Content
      /\ Expected(c) # None => Expected(c) = seen[c].sum
  <2>1. CASE order[c].how = "directory"
    <3>1. OrderFits(c) /\ SnapshotFits(c)
      BY Types DEF CommandFits
    <3>2. Expected(c) = None
      BY <2>1, <3>1 DEF OrderFits, Expected
    <3>3. snapshot[seen[c].sum] = Whole(seen[c].sum) /\ seen[c].sum \in Content
      BY <2>1, <3>1 DEF SnapshotFits
    <3> QED
      BY <2>1, <3>2, <3>3 DEF ScriptTree
  <2>2. CASE order[c].how # "directory"
    <3>1. UsesTree(c) /\ TreeFits(c)
      BY <2>2, Types DEF CommandFits, UsesTree
    <3> QED
      BY <2>2, <3>1 DEF TreeFits, Unpacking, ScriptTree
  <2> QED
    BY <2>1, <2>2
<1>2. o \in Outcome
  <2>1. ScriptTree(c) \in [build: Build \cup Content \cup {None}, whole: BOOLEAN]
    BY <1>1 DEF Whole
  <2>2. order[c].how \in {"coordinate", "registry", "lockfile", "directory", "none"}
        /\ Expected(c) \in Build \cup {None}
    BY Types DEF Order, Expected
  <2> QED
    BY <1>1, <2>1, <2>2 DEF Outcome
<1>3. /\ o.how = order[c].how /\ o.expected = Expected(c)
      /\ o.recorded = seen[c].sum /\ o.ran = ScriptTree(c)
  OBVIOUS
<1>4. outcome' = [outcome EXCEPT ![c] = o]
  OBVIOUS
<1> HIDE DEF o
<1>5. /\ outcome' \in [Command -> Outcome] /\ outcome'[c] = o
      /\ \A d \in Command \ {c} : outcome'[d] = outcome[d]
  BY <1>2, <1>4, Types
<1>6. OutcomeFits(c)'
  BY <1>1, <1>3, <1>5 DEF OutcomeFits
<1>7. End(c, "done") /\ UNCHANGED <<pubVars, files, given>>
  OBVIOUS
<1> QED
  BY <1>5, <1>6, <1>7, EndStep
-----------------------------------------------------------------------------
(* What other than a command changes *)

\* Steps that change files only: what no command relies on.
LEMMA FilesStep ==
    ASSUME Inv, UNCHANGED <<pubVars, lock, commands>>, CacheTypeOK',
           CacheHonest', CoordinateMade', \A d \in Command : Undisturbed(d)
    PROVE  Inv'
<1>1. PubInv' /\ Lasting
  BY PublicationStep DEF Inv
<1>2. UNCHANGED <<order, step, seen, outcome, given, built, madeFor>>
  BY DEF commands, pubVars
<1>3. FilesFit'
  BY <1>2, FilesTypes DEF FilesFit, LockMade, Made
<1>4. \A d \in Command : Unmoved(d)
  BY <1>2 DEF Unmoved
<1>5. \A d \in Command : CommandFits(d)' /\ OutcomeFits(d)'
  BY <1>1, <1>4, OthersFit
<1>6. Apart'
  BY <1>2 DEF Inv, CacheInv, Apart
<1> QED
  BY <1>1, <1>3, <1>5, <1>6 DEF Inv, CacheInv

LEMMA RemoveCachedStep ==
    ASSUME Inv, NEW e \in Route \X Version, RemoveCached(e)
    PROVE  Inv'
<1> USE DEF RemoveCached
<1>1. UNCHANGED <<pubVars, byChecksum, temp, tree, working, snapshot, lock, commands>>
  OBVIOUS
<1>2. UNCHANGED <<order, step, seen, outcome, given, built, madeFor>>
  BY <1>1 DEF commands, pubVars
<1>3. /\ coordinate' \in [Route \X Version -> Stored]
      /\ \A a \in Route \X Version :
             coordinate'[a] = IF a = e THEN Absent ELSE coordinate[a]
  BY FilesTypes, StoredFacts
<1>4. CacheTypeOK'
  BY <1>1, <1>2, <1>3 DEF Inv, CacheInv, CacheTypeOK
<1>5. CacheHonest' /\ CoordinateMade'
  BY <1>1, <1>2, <1>3, FilesTypes DEF CacheHonest, CoordinateMade, Made
<1>6. ASSUME NEW d \in Command
      PROVE  Undisturbed(d)
  <2>1. step[d] \in {"writing", "copying"} =>
            step[d] \in Preparing /\ order[d].version \in Version
    BY Types DEF CommandFits, OrderFits, Preparing
  <2>2. step[d] \in Preparing => order[d].version # e[2]
    BY DEF Free, Inv, CacheInv
  <2>3. order[d].version \in Version => Entry(d) \in Route \X Version
                                         /\ Entry(d)[2] = order[d].version
    BY EntryFacts
  <2> QED
    BY <2>1, <2>2, <2>3, <1>1, <1>3 DEF Undisturbed
<1> QED
  BY <1>1, <1>4, <1>5, <1>6, FilesStep

LEMMA ClearCacheStep ==
    ASSUME Inv, ClearCache
    PROVE  Inv'
<1> USE DEF ClearCache
<1>1. UNCHANGED <<pubVars, working, snapshot, lock, commands>>
  OBVIOUS
<1>2. UNCHANGED <<order, step, seen, outcome, given, built, madeFor>>
  BY <1>1 DEF commands, pubVars
<1>3. /\ coordinate' \in [Route \X Version -> Stored]
      /\ byChecksum' \in [Build -> Stored]
      /\ temp' \in [Build -> Stored] /\ tree' \in [Build -> Stored]
      /\ \A e \in Route \X Version : coordinate'[e] = Absent
      /\ \A b \in Build : byChecksum'[b] = Absent /\ tree'[b] = Absent
  BY StoredFacts
<1>4. CacheTypeOK'
  BY <1>1, <1>2, <1>3 DEF Inv, CacheInv, CacheTypeOK
<1>5. CacheHonest' /\ CoordinateMade'
  BY <1>1, <1>3, FilesTypes DEF CacheHonest, CoordinateMade
<1>6. \A d \in Command : Undisturbed(d)
  BY <1>1 DEF Undisturbed, Unpacking, Ended, Extracting, UsesTree
<1> QED
  BY <1>1, <1>4, <1>5, <1>6, FilesStep

LEMMA EditWorkingStep ==
    ASSUME Inv, EditWorking
    PROVE  Inv'
<1> USE DEF EditWorking
<1>1. UNCHANGED <<pubVars, coordinate, byChecksum, temp, tree, snapshot, lock, commands>>
  OBVIOUS
<1>2. UNCHANGED <<order, step, seen, outcome, given, built, madeFor>>
  BY <1>1 DEF commands, pubVars
<1>3. working' \in Content
  BY FilesTypes, CacheAssumption DEF Content
<1>4. CacheTypeOK'
  BY <1>1, <1>2, <1>3 DEF Inv, CacheInv, CacheTypeOK
<1>5. CacheHonest' /\ CoordinateMade'
  BY <1>1, <1>2, FilesTypes DEF CacheHonest, CoordinateMade, Made
<1>6. \A d \in Command : Undisturbed(d)
  BY <1>1 DEF Undisturbed, Unpacking
<1> QED
  BY <1>1, <1>4, <1>5, <1>6, FilesStep

\* A publisher's step: a build that was made for a version stays its build.
LEMMA PublishStep ==
    ASSUME Inv, [PublicationNext]_pubVars, UNCHANGED <<files, commands>>
    PROVE  Inv'
<1>1. PubInv' /\ Lasting
  BY PublicationStep DEF Inv
<1>2. UNCHANGED <<coordinate, byChecksum, temp, tree, working, snapshot, lock,
                  order, step, seen, outcome, given>>
  BY DEF commands, files
<1>3. CacheTypeOK'
  BY <1>2 DEF Inv, CacheInv, CacheTypeOK
<1>4. \A v, b : Made(v, b) => Made(v, b)'
  <2>1. \A v, b : Made(v, b) => v \in Version /\ b \in 1..built' /\ madeFor'[b] = v
    BY <1>1, MadeLasts DEF Inv, PubInv
  <2> QED
    BY <2>1 DEF Made
<1>5. FilesFit'
  BY <1>2, <1>4, FilesTypes DEF FilesFit, CacheHonest, CoordinateMade, LockMade
<1>6. \A d \in Command : Unmoved(d) /\ Undisturbed(d)
  BY <1>2 DEF Unmoved, Undisturbed, Unpacking
<1>7. \A d \in Command : CommandFits(d)' /\ OutcomeFits(d)'
  BY <1>1, <1>6, OthersFit
<1>8. Apart'
  BY <1>2 DEF Inv, CacheInv, Apart
<1> QED
  BY <1>1, <1>3, <1>5, <1>7, <1>8 DEF Inv, CacheInv

LEMMA InvariantStep == Inv /\ [Next]_vars => Inv'
<1> SUFFICES ASSUME Inv, [Next]_vars PROVE Inv'
  OBVIOUS
<1>1. CASE Publish
  BY <1>1, PublishStep DEF Publish
<1>2. ASSUME NEW c \in Command, Take(c)
      PROVE  Inv'
  BY <1>2, AcceptStep
<1>3. ASSUME NEW c \in Command, Resolve(c)
      PROVE  Inv'
  BY <1>3, LookupStep, DownloadStep, FinishDownloadStep, WriteByChecksum, SignatureStep,
     FailStep DEF Resolve, BreakDownload, RefuseChecksum, RefuseSignature
<1>4. ASSUME NEW c \in Command, Use(c)
      PROVE  Inv'
  BY <1>4, LoadStep, ExtractionStep, CheckPlanStep, WriteLockStep, FinishLockStep,
     RecheckStep, FinishSnapshotStep, DeployStep, FailStep
     DEF Use, RefuseArchive, RefuseChanged, RefuseSnapshot
<1>5. ASSUME NEW c \in Command, Kill(c)
      PROVE  Inv'
  BY <1>5, FailStep
<1>6. ASSUME NEW e \in Route \X Version, RemoveCached(e)
      PROVE  Inv'
  BY <1>6, RemoveCachedStep
<1>7. CASE ClearCache
  BY <1>7, ClearCacheStep
<1>8. CASE EditWorking
  BY <1>8, EditWorkingStep
<1>9. CASE UNCHANGED vars
  BY <1>9, PublishStep DEF vars
<1> QED
  BY <1>1, <1>2, <1>3, <1>4, <1>5, <1>6, <1>7, <1>8, <1>9 DEF Next

LEMMA Invariant == ~Overlap /\ Spec => []Inv
  BY CacheBegins, InvariantStep, PTL DEF Spec

-----------------------------------------------------------------------------
(* The theorems *)

\* The types: of the repository, the cache, the snapshots and the commands.
THEOREM CacheTypes == ~Overlap /\ Spec => []TypeOK
<1>1. Inv => TypeOK
  BY DEF Inv, PubInv, CacheInv, TypeOK
<1> QED
  BY <1>1, Invariant, PTL

\* What runs for a lockfile or a registry entry (_resolve_remote_zip) is the
\* build whose checksum it gave.
THEOREM PinnedDeployments == ~Overlap /\ Spec => []DeployedAsPinned
<1>1. Inv => DeployedAsPinned
  BY DEF Inv, CacheInv, OutcomeFits, DeployedAsPinned
<1> QED
  BY <1>1, Invariant, PTL

\* What the provenance says of a deployment (snapshot_plan, _load_zip_source) is
\* what ran.
THEOREM TrueProvenance == ~Overlap /\ Spec => []ProvenanceIsTrue
<1>1. Inv => ProvenanceIsTrue
  BY DEF Inv, CacheInv, OutcomeFits, ProvenanceIsTrue
<1> QED
  BY <1>1, Invariant, PTL

\* A name that is a checksum does not lie (_extract_zip, snapshot_plan).
THEOREM HonestCache == ~Overlap /\ Spec => []CacheHonest
<1>1. Inv => CacheHonest
  BY DEF Inv, CacheInv, FilesFit
<1> QED
  BY <1>1, Invariant, PTL

\* Whatever commands do to the cache, also at once, the repository only sees the
\* steps of publishers.
LEMMA PublicationOnly == [Next]_vars => [PublicationNext]_pubVars
<1> SUFFICES ASSUME [Next]_vars PROVE [PublicationNext]_pubVars
  OBVIOUS
<1>1. ASSUME NEW c \in Command, Take(c) \/ Kill(c)
      PROVE  UNCHANGED pubVars
  BY <1>1 DEF Take, TakeCoordinate, TakeRegistry, TakeLockfile, TakeDirectory, Accept, Kill
<1>2. ASSUME NEW c \in Command, Resolve(c)
      PROVE  UNCHANGED pubVars
  BY <1>2 DEF Resolve, Lookup, Download, FinishDownload, BreakDownload, VerifyChecksum,
              RefuseChecksum, FinishCopy, CheckSignature, RefuseSignature, Fail
<1>3. ASSUME NEW c \in Command, Use(c)
      PROVE  UNCHANGED pubVars
  BY <1>3 DEF Use, Load, RefuseArchive, Extract, FinishExtract, RemoveTree, Rename,
              CheckPlan, WriteLock, FinishLock, Recheck, RefuseChanged, FinishSnapshot,
              RefuseSnapshot, Deploy, Fail
<1>4. CASE ClearCache \/ EditWorking \/ UNCHANGED vars
           \/ \E e \in Route \X Version : RemoveCached(e)
  BY <1>4 DEF ClearCache, EditWorking, RemoveCached, vars
<1> QED
  BY <1>1, <1>2, <1>3, <1>4 DEF Next, Publish

LEMMA RepositorySound == Spec => []PubInv
<1>1. Init => PubInv
  BY PublicationBegins DEF Init
<1>2. PubInv /\ [Next]_vars => PubInv'
  BY PublicationOnly, PublicationStep
<1> QED
  BY <1>1, <1>2, PTL DEF Spec

\* However the publishers and the commands interleave, are killed and are cut
\* off, a version that maven-metadata.xml lists is whole.
THEOREM RepositoryStaysSound == Spec => []ListedIsWhole
<1>1. PubInv => ListedIsWhole
  BY PubInvImplies
<1> QED
  BY <1>1, RepositorySound, PTL

\* What the registry says of a version is what the repository serves, wherever a
\* publisher stops between upload and registration.
THEOREM IndexStaysServed == Spec => []IndexIsServed
<1>1. PubInv => IndexIsServed
  BY PubInvImplies
<1> QED
  BY <1>1, RepositorySound, PTL

-----------------------------------------------------------------------------
(* A cached pin needs no repository *)

\* The steps of a command that did not find its archive under the checksum.
Asking == {"download", "writing", "verify"}

Uncached(c) ==
    step[c] \in Asking /\ Expected(c) # None => ~byChecksum[Expected(c)].whole

\* A lockfile pins, and who still asks the repository for a pinned build has no
\* copy of it, since nobody else prepares the version meanwhile.
PinFits(c) == (order[c].how = "lockfile" => Expected(c) # None) /\ Uncached(c)

PinInv == \A c \in Command : PinFits(c)

\* A step of another command copies another build.
LEMMA OthersPinned ==
    ASSUME Inv, PinInv, NEW d \in Command, step[d] \in Preparing, Expected(d) # None,
           NEW f, byChecksum' = [byChecksum EXCEPT ![Expected(d)] = f],
           UNCHANGED order, NEW s, step' = [step EXCEPT ![d] = s],
           NEW c \in Command, c # d
    PROVE  PinFits(c)'
<1>1. order'[c] = order[c] /\ step'[c] = step[c] /\ Expected(c)' = Expected(c)
  BY Types DEF Expected
<1>2. CASE step[c] \in Asking /\ Expected(c) # None
  <2>1. step[c] \in Preparing
    BY <1>2 DEF Asking, Preparing, Extracting
  <2>2. order[c].version # order[d].version
    BY <2>1, OthersElsewhere
  <2>3. Made(order[c].version, Expected(c)) /\ Made(order[d].version, Expected(d))
    BY <1>2, Types DEF CommandFits, OrderFits, Expected
  <2>4. Expected(c) # Expected(d) /\ Expected(c) \in Build /\ Expected(d) \in Build
    BY <2>2, <2>3, MadeFacts
  <2>5. byChecksum'[Expected(c)] = byChecksum[Expected(c)]
    BY <2>4, FilesTypes
  <2> QED
    BY <1>1, <2>5 DEF PinInv, PinFits, Uncached
<1> QED
  BY <1>1, <1>2 DEF PinInv, PinFits, Uncached

\* A step of command d that leaves the copies alone.
LEMMA PinsKept ==
    ASSUME Inv, PinInv, NEW d \in Command, UNCHANGED byChecksum,
           NEW o, order' = [order EXCEPT ![d] = o],
           NEW s, step' = [step EXCEPT ![d] = s],
           o.how = "lockfile" => o.expected # None,
           s \in Asking => \/ o.expected = None
                           \/ o = order[d] /\ step[d] \in Asking
                           \/ ~byChecksum[o.expected].whole
    PROVE  PinInv'
<1>1. \A c \in Command : /\ order'[c] = IF c = d THEN o ELSE order[c]
                         /\ step'[c] = IF c = d THEN s ELSE step[c]
  BY Types
<1>2. \A c \in Command : c # d => PinFits(c)'
  BY <1>1 DEF PinInv, PinFits, Uncached, Expected
<1>3. PinFits(d)'
  BY <1>1 DEF PinInv, PinFits, Uncached, Expected
<1> QED
  BY <1>2, <1>3 DEF PinInv

LEMMA PinStep ==
    ASSUME Inv, PinInv, [Next]_vars PROVE PinInv'
<1>1. \A c \in Command : /\ order = [order EXCEPT ![c] = order[c]]
                         /\ PinFits(c)
  BY Types DEF PinInv
<1>2. CASE UNCHANGED <<byChecksum, order, step>>
  BY <1>2 DEF PinInv, PinFits, Uncached, Expected
<1>3. CASE ClearCache
  <2>1. \A c \in Command : step'[c] \notin Asking /\ order'[c] = order[c]
    BY <1>3 DEF ClearCache, Ended, Asking, commands
  <2> QED
    BY <1>1, <2>1 DEF PinInv, PinFits, Uncached, Expected
<1>4. ASSUME NEW d \in Command, Take(d) PROVE PinInv'
  <2>1. ASSUME NEW o, NEW s, NEW m, Accept(d, o, s), s \notin Asking,
               o.how = "lockfile" => o.expected # None
        PROVE  PinInv'
    BY <2>1, PinsKept DEF Accept, files, To
  <2>2. CASE TakeLockfile(d)
    <3> DEFINE o == [how |-> "lockfile", route |-> "url", version |-> lock.version,
                     expected |-> lock.build, signed |-> lock.signed, goal |-> "deploy"]
    <3>1. Accept(d, o, "lookup") /\ lock # NoLock
      BY <2>2 DEF TakeLockfile
    <3>2. lock.build \in Build
      BY <3>1, FilesTypes, MadeFacts DEF LockMade
    <3>3. o.expected # None
      BY <3>2, NoneIsNoBuild
    <3> HIDE DEF o
    <3> QED
      BY <2>1, <3>1, <3>3 DEF Asking
  <2>3. CASE ~TakeLockfile(d)
    <3>1. ASSUME NEW v, NEW route, NEW goal, TakeCoordinate(d, v, route, goal)
          PROVE  PinInv'
      <4> DEFINE o == [how |-> "coordinate", route |-> route, version |-> v,
                       expected |-> None, signed |-> FALSE, goal |-> goal]
      <4>1. Accept(d, o, "lookup") /\ o.how # "lockfile"
        BY <3>1 DEF TakeCoordinate
      <4> HIDE DEF o
      <4> QED
        BY <2>1, <4>1 DEF Asking
    <3>2. ASSUME NEW v, NEW signed, NEW goal, TakeRegistry(d, v, signed, goal)
          PROVE  PinInv'
      <4> DEFINE o == [how |-> "registry", route |-> "url", version |-> v,
                       expected |-> index[v], signed |-> signed, goal |-> goal]
      <4>1. Accept(d, o, "lookup") /\ o.how # "lockfile"
        BY <3>2 DEF TakeRegistry
      <4> HIDE DEF o
      <4> QED
        BY <2>1, <4>1 DEF Asking
    <3>3. CASE TakeDirectory(d)
      <4> DEFINE o == [NoOrder EXCEPT !.how = "directory"]
      <4>1. Accept(d, o, "recheck") /\ o.how # "lockfile"
        BY <3>3 DEF TakeDirectory, NoOrder
      <4> HIDE DEF o
      <4> QED
        BY <2>1, <4>1 DEF Asking
    <3> QED
      BY <1>4, <2>3, <3>1, <3>2, <3>3 DEF Take
  <2> QED
    BY <2>2, <2>3
<1>5. ASSUME NEW d \in Command, NEW s, End(d, s), s \notin Asking, UNCHANGED byChecksum
      PROVE  PinInv'
  BY <1>5, NothingTypes, PinsKept DEF End, To
<1>6. ASSUME NEW d \in Command, NEW s, To(d, s), UNCHANGED <<byChecksum, order>>,
             s \in Asking => \/ Expected(d) = None \/ step[d] \in Asking
                             \/ ~byChecksum[Expected(d)].whole
      PROVE  PinInv'
  BY <1>1, <1>6, PinsKept DEF To, PinFits, Expected
<1>7. ASSUME NEW d \in Command, Resolve(d) PROVE PinInv'
  <2>1. CASE Lookup(d)
    <3>1. CASE Cached(d)
      BY <1>6, <2>1, <3>1 DEF Lookup, files, Asking
    <3>2. CASE ~Cached(d)
      <4>1. Expected(d) = None \/ ~byChecksum[Expected(d)].whole
        BY <3>2, StoredFacts DEF Cached
      <4>2. PICK s : To(d, s) /\ UNCHANGED <<byChecksum, order>>
        BY <2>1, <3>2 DEF Lookup, files
      <4> QED
        BY <1>6, <4>1, <4>2
    <3> QED
      BY <3>1, <3>2
  <2>2. CASE Download(d) \/ FinishDownload(d)
    <3>1. step[d] \in Asking
      BY <2>2 DEF Download, FinishDownload, Asking
    <3>2. Fail(d) \/ \E s : To(d, s) /\ UNCHANGED <<byChecksum, order>>
      BY <2>2 DEF Download, FinishDownload
    <3> QED
      BY <1>5, <1>6, <3>1, <3>2 DEF Fail, files, Asking
  <2>3. CASE BreakDownload(d) \/ RefuseChecksum(d) \/ RefuseSignature(d)
    BY <1>5, <2>3 DEF BreakDownload, RefuseChecksum, RefuseSignature, Fail, files, Asking
  <2>4. CASE CheckSignature(d)
    BY <1>6, <2>4 DEF CheckSignature, files, Asking
  <2>5. CASE VerifyChecksum(d) \/ FinishCopy(d)
    <3>1. PICK s, f :
             /\ s \in {"copying", "signature"}
             /\ step[d] \in {"verify", "copying"} /\ UNCHANGED order
             /\ step' = [step EXCEPT ![d] = s]
             /\ byChecksum' = [byChecksum EXCEPT ![Expected(d)] = f]
      <4>1. byChecksum = [byChecksum EXCEPT ![Expected(d)] = byChecksum[Expected(d)]]
        BY FilesTypes
      <4> QED
        BY <2>5, <4>1 DEF VerifyChecksum, FinishCopy, To
    <3>2. step[d] \in Preparing /\ Expected(d) # None
      BY <3>1, Types DEF CommandFits, ArchiveFits, Preparing, Extracting
    <3>3. \A c \in Command : c # d => PinFits(c)'
      BY <3>1, <3>2, OthersPinned
    <3>4. PinFits(d)'
      BY <1>1, <3>1, Types DEF PinFits, Uncached, Asking, Expected
    <3> QED
      BY <3>3, <3>4 DEF PinInv
  <2> QED
    BY <1>7, <2>1, <2>2, <2>3, <2>4, <2>5 DEF Resolve
<1>8. ASSUME NEW d \in Command, Use(d) PROVE PinInv'
  <2>1. CASE Load(d)
    <3>1. PICK s \in {"check", "extract"} : To(d, s) /\ UNCHANGED <<byChecksum, order>>
      BY <2>1 DEF Load, files
    <3> QED
      BY <1>6, <3>1 DEF Asking
  <2>2. CASE \/ Extract(d) \/ FinishExtract(d) \/ RemoveTree(d) \/ Rename(d)
             \/ CheckPlan(d) \/ WriteLock(d) \/ FinishSnapshot(d)
    <3>1. Fail(d) \/ \E s : s \notin Asking /\ To(d, s) /\ UNCHANGED <<byChecksum, order>>
      BY <2>2 DEF Extract, FinishExtract, RemoveTree, Rename, CheckPlan, WriteLock,
                  FinishSnapshot, files, Asking
    <3> QED
      BY <1>5, <1>6, <3>1 DEF Fail, files, Asking
  <2>3. CASE Recheck(d)
    <3>1. PICK s \in {"ready", "snapshotting"} : To(d, s) /\ UNCHANGED <<byChecksum, order>>
      BY <2>3 DEF Recheck, files
    <3> QED
      BY <1>6, <3>1 DEF Asking
  <2>4. CASE RefuseArchive(d) \/ RefuseChanged(d) \/ RefuseSnapshot(d)
    BY <1>5, <2>4 DEF RefuseArchive, RefuseChanged, RefuseSnapshot, Fail, files, Asking
  <2>5. CASE FinishLock(d) \/ Deploy(d)
    BY <1>5, <2>5 DEF FinishLock, Deploy, files, Asking
  <2> QED
    BY <1>8, <2>1, <2>2, <2>3, <2>4, <2>5 DEF Use
<1>9. ASSUME NEW d \in Command, Kill(d) PROVE PinInv'
  BY <1>5, <1>9 DEF Kill, files, Asking
<1>10. CASE Publish \/ EditWorking \/ (\E e \in Route \X Version : RemoveCached(e)) \/ UNCHANGED vars
  <2>1. UNCHANGED <<byChecksum, order, step>>
    BY <1>10 DEF Publish, EditWorking, RemoveCached, vars, files, commands
  <2> QED
    BY <1>2, <2>1
<1> QED
  BY <1>3, <1>4, <1>7, <1>8, <1>9, <1>10 DEF Next

\* No step ends such an install with an error.
LEMMA PinnedGoesOn ==
    ASSUME Inv, PinInv, [Next]_vars, NEW c \in Command,
           step[c] \in Preparing \cup {"check"}, order[c].how = "lockfile",
           ~order[c].signed, byChecksum[Expected(c)].whole
    PROVE  step'[c] # "failed"
<1>1. /\ Expected(c) # None /\ step[c] \notin Asking /\ step[c] # "failed"
      /\ step[c] \notin {"done", "recheck", "snapshotting", "ready"}
  BY DEF PinInv, PinFits, Uncached, Preparing, Extracting
<1>2. step[c] = "load" => Archive(c).whole
  BY <1>1, Types DEF CommandFits, ArchiveFits, Archive
<1>3. UNCHANGED step => step'[c] # "failed"
  BY <1>1
<1>4. ASSUME NEW d \in Command, d # c, NEW s, To(d, s) PROVE step'[c] # "failed"
  BY <1>1, <1>4, Types DEF To
<1>5. ASSUME NEW s, s # "failed", To(c, s) PROVE step'[c] # "failed"
  BY <1>5, Types DEF To
<1>6. ~Ended(c)
  BY <1>1 DEF Ended
<1>7. ASSUME NEW d \in Command, Take(d) \/ Resolve(d) \/ Use(d) \/ Kill(d), d # c
      PROVE  step'[c] # "failed"
  <2>1. \E s : To(d, s)
    BY <1>7 DEF Take, TakeCoordinate, TakeRegistry, TakeLockfile, TakeDirectory, Accept,
                Resolve, Lookup, Download, FinishDownload, BreakDownload, VerifyChecksum,
                RefuseChecksum, FinishCopy, CheckSignature, RefuseSignature, Use, Load,
                RefuseArchive, Extract, FinishExtract, RemoveTree, Rename, CheckPlan,
                WriteLock, FinishLock, Recheck, RefuseChanged, FinishSnapshot, RefuseSnapshot, Deploy, Fail, End, Kill
  <2> QED
    BY <1>4, <1>7, <2>1
<1>8. CASE Take(c)
  BY <1>6, <1>8 DEF Take, TakeCoordinate, TakeRegistry, TakeLockfile, TakeDirectory, Accept
<1>9. CASE Resolve(c)
  <2>1. step[c] \in {"lookup", "copying", "signature"}
    BY <1>1, <1>9 DEF Resolve, Lookup, Download, FinishDownload, BreakDownload,
                      VerifyChecksum, RefuseChecksum, FinishCopy, CheckSignature,
                      RefuseSignature, Asking
  <2>2. \E s : s # "failed" /\ To(c, s)
    BY <1>9, <2>1 DEF Resolve, Lookup, Download, FinishDownload, BreakDownload,
                      VerifyChecksum, RefuseChecksum, FinishCopy, CheckSignature,
                      RefuseSignature
  <2> QED
    BY <1>5, <2>2
<1>10. CASE Use(c)
  <2>1. step[c] = "extracting" => seen[c].mine /\ temp[seen[c].sum] # Absent
    BY Types DEF CommandFits, TreeFits
  <2>2. step[c] = "naming" =>
            tree[seen[c].sum] = Absent /\ temp[seen[c].sum] # Absent
    BY Types, StoredFacts DEF CommandFits, TreeFits, Extracting
  <2>3. \E s : s # "failed" /\ To(c, s)
    BY <1>1, <1>2, <1>10, <2>1, <2>2
       DEF Use, Load, RefuseArchive, Extract, FinishExtract, RemoveTree, Rename,
           CheckPlan, WriteLock, FinishLock, Recheck, RefuseChanged, FinishSnapshot,
           RefuseSnapshot, Deploy, End
  <2> QED
    BY <1>5, <2>3
<1>11. CASE Kill(c)
  BY <1>5, <1>11 DEF Kill, End
<1>12. CASE \/ Publish \/ ClearCache \/ EditWorking \/ (\E e \in Route \X Version : RemoveCached(e))
            \/ UNCHANGED vars
  <2>1. UNCHANGED step
    BY <1>12 DEF Publish, ClearCache, EditWorking, RemoveCached, vars, commands
  <2> QED
    BY <1>3, <2>1
<1> QED
  BY <1>7, <1>8, <1>9, <1>10, <1>11, <1>12 DEF Next

\* An install from a lockfile whose artifact is cached under its checksum, without
\* a signature to be fetched, does not fail: whatever is published or removed
\* upstream, and whatever commands that prepare other versions do.  (Without
\* ~Overlap it can: another command may remove the .tmp directory under it.)
THEOREM CachedPinsInstall == ~Overlap /\ Spec => CachedLockNeedsNoRepository
<1>1. Init => PinInv
  BY NothingTypes DEF Init, CacheInit, PinInv, PinFits, Uncached, Asking
<1>2. Inv /\ PinInv /\ [Next]_vars => PinInv'
  BY PinStep
<1>3. Inv /\ PinInv /\ [Next]_vars =>
          [\A c \in Command :
              /\ step[c] \in Preparing \cup {"check"}
              /\ order[c].how = "lockfile" /\ ~order[c].signed
              /\ byChecksum[order[c].expected].whole
              => step'[c] # "failed"]_vars
  BY PinnedGoesOn DEF Expected
<1> QED
  BY <1>1, <1>2, <1>3, Invariant, PTL DEF Spec, CachedLockNeedsNoRepository

=============================================================================
