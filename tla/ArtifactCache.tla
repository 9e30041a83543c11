---------------------------- MODULE ArtifactCache ----------------------------
(***************************************************************************)
(* How a package gets from a repository, or from a working copy, into a    *)
(* deployment: source.py (download, checksum, signature, extraction),      *)
(* lockfile.py and cli._build_plan_from_lockfile, lifecycle.snapshot_plan. *)
(* The repository and the registry are those of Publication and go on      *)
(* changing meanwhile.                                                     *)
(*                                                                         *)
(* Commands share the cache directory: coordinate paths, a copy under the  *)
(* checksum, the extracted tree and the .tmp directory it is extracted in. *)
(* A command may be killed anywhere and leaves behind what it has written  *)
(* so far; a connection that closes early truncates a download without an  *)
(* error.  Nothing in dbpm keeps two commands from preparing one version   *)
(* at once; Overlap says whether operators let them.                       *)
(***************************************************************************)
EXTENDS Publication

CONSTANTS
    Command,      \* the dbpm processes
    Overlap,      \* do operators let two commands prepare one version at once?
    MaxCommands,  \* bound: the commands that are given
    MaxContent    \* bound: the contents a developer gives a working copy

ASSUME CacheAssumption ==
    Overlap \in BOOLEAN /\ MaxCommands \in Nat /\ MaxContent \in Nat \ {0}

VARIABLES
    coordinate,   \* the archive cached under the coordinate or URL of a version
    byChecksum,   \* the archive cached under a checksum
    temp,         \* extract/<checksum>.tmp
    tree,         \* extract/<checksum>
    working,      \* the content of a package directory
    snapshot,     \* artifacts/<checksum> of the lifecycle store
    lock,         \* dbpm-lock.json, as far as it can be read
    order,        \* what a command was asked for
    step,         \* what it does next
    seen,         \* what it holds in memory
    outcome,      \* history: what the last script of a command ran from
    given         \* the number of commands so far

files == <<coordinate, byChecksum, temp, tree, working, snapshot, lock>>
commands == <<order, step, seen, outcome, given>>
vars == <<pubVars, files, commands>>

-----------------------------------------------------------------------------
(* Types *)

Content == 1..MaxContent

\* A file or tree: whose bytes, and whether it is all of them.
Stored == [build: Build \cup {None}, whole: BOOLEAN]
Absent == [build |-> None, whole |-> FALSE]
Whole(b) == [build |-> b, whole |-> TRUE]
Part(b)  == [build |-> b, whole |-> FALSE]

\* _sha256: what is cut off has a checksum that belongs to no build.
Sum(f) == IF f.whole THEN f.build ELSE None

\* Which part of the artifact cache a source belongs to: maven/ and maven-url/,
\* or url/.
Route == {"maven", "url"}

\* expected and signed: the checksum and the signature a lockfile or the
\* registry asks for; goal: dbpm install, or dbpm lock.
Order == [how: {"coordinate", "registry", "lockfile", "directory", "none"},
          route: Route, version: Version \cup {None},
          expected: Build \cup {None}, signed: BOOLEAN, goal: {"deploy", "lock"}]

NoOrder == [how |-> "none", route |-> "url", version |-> None, expected |-> None,
            signed |-> FALSE, goal |-> "deploy"]

\* In these steps a command works on the cache entries of its version.
Extracting == {"extract", "extracting", "replacing", "naming"}
Preparing == {"lookup", "download", "writing", "verify", "copying", "signature",
              "load"} \cup Extracting

CommandStep == Preparing \cup {"check", "locking", "recheck", "snapshotting",
                               "ready", "done", "failed"}

\* Where the archive was found, its checksum, the build that was downloaded or
\* opened, and whether nobody has removed what was extracted of it.
Seen == [at: {"coordinate", "checksum"}, sum: Build \cup Content \cup {None},
         build: Build \cup {None}, mine: BOOLEAN]
NothingSeen == [at |-> "coordinate", sum |-> None, build |-> None, mine |-> FALSE]

\* dbpm-lock.json: the root package with its artifact; a lockfile that is cut
\* off is no JSON and refused like a missing one.
Lock == [version: Version \cup {None}, build: Build \cup {None}, signed: BOOLEAN]
NoLock == [version |-> None, build |-> None, signed |-> FALSE]

\* recorded is the checksum in the provenance, ran what the script came from.
Outcome == [how: {"coordinate", "registry", "lockfile", "directory", "none"},
            expected: Build \cup {None}, recorded: Build \cup Content \cup {None},
            ran: [build: Build \cup Content \cup {None}, whole: BOOLEAN]]
NoOutcome == [how |-> "none", expected |-> None, recorded |-> None, ran |-> Absent]

CacheTypeOK ==
    /\ coordinate \in [Route \X Version -> Stored]
    /\ byChecksum \in [Build -> Stored]
    /\ temp \in [Build -> Stored]
    /\ tree \in [Build -> Stored]
    /\ working \in Content
    /\ snapshot \in [Content -> {Absent} \cup {Whole(k) : k \in Content}]
    /\ lock \in Lock
    /\ order \in [Command -> Order]
    /\ step \in [Command -> CommandStep]
    /\ seen \in [Command -> Seen]
    /\ outcome \in [Command -> Outcome]
    /\ given \in 0..MaxCommands

TypeOK == PublicationTypeOK /\ CacheTypeOK

CacheInit ==
    /\ coordinate = [e \in Route \X Version |-> Absent]
    /\ byChecksum = [b \in Build |-> Absent]
    /\ temp = [b \in Build |-> Absent]
    /\ tree = [b \in Build |-> Absent]
    /\ working = 1
    /\ snapshot = [k \in Content |-> Absent]
    /\ lock = NoLock
    /\ order = [c \in Command |-> NoOrder]
    /\ step = [c \in Command |-> "done"]
    /\ seen = [c \in Command |-> NothingSeen]
    /\ outcome = [c \in Command |-> NoOutcome]
    /\ given = 0

Init == PublicationInit /\ CacheInit

-----------------------------------------------------------------------------
(* A command begins *)

Ended(c) == step[c] \in {"done", "failed"}

\* Two commands in these steps for one version share the download, the copy and
\* the .tmp directory of the extraction.
Free(v) == Overlap \/ \A c \in Command : step[c] \in Preparing => order[c].version # v

To(c, s) == step' = [step EXCEPT ![c] = s]

Accept(c, o, s) ==
    /\ Ended(c)
    /\ given < MaxCommands
    /\ given' = given + 1
    /\ order' = [order EXCEPT ![c] = o]
    /\ To(c, s)
    /\ outcome' = [outcome EXCEPT ![c] = NoOutcome]
    /\ UNCHANGED <<pubVars, files>>

\* A source of which nothing is known: maven:, gh-maven: or a URL.
TakeCoordinate(c, v, route, goal) ==
    /\ Free(v)
    /\ Accept(c, [how |-> "coordinate", route |-> route, version |-> v,
                  expected |-> None, signed |-> FALSE, goal |-> goal], "lookup")
    /\ seen' = [seen EXCEPT ![c] = NothingSeen]

\* _load_registry_source: resolve_registry_source answers with the version's
\* URL and checksum, and with its signature or without.
TakeRegistry(c, v, signed, goal) ==
    /\ Free(v)
    /\ index[v] # None
    /\ Accept(c, [how |-> "registry", route |-> "url", version |-> v,
                  expected |-> index[v], signed |-> signed, goal |-> goal], "lookup")
    /\ seen' = [seen EXCEPT ![c] = NothingSeen]

\* _build_plan_from_lockfile: what was locked is a URL whatever the source was.
TakeLockfile(c) ==
    /\ lock # NoLock
    /\ Free(lock.version)
    /\ Accept(c, [how |-> "lockfile", route |-> "url", version |-> lock.version,
                  expected |-> lock.build, signed |-> lock.signed,
                  goal |-> "deploy"], "lookup")
    /\ seen' = [seen EXCEPT ![c] = NothingSeen]

\* _load_directory_source: the checksum of the working copy goes into the plan.
TakeDirectory(c) ==
    /\ Accept(c, [NoOrder EXCEPT !.how = "directory"], "recheck")
    /\ seen' = [seen EXCEPT ![c] = [NothingSeen EXCEPT !.sum = working]]

-----------------------------------------------------------------------------
(* _resolve_remote_zip *)

Expected(c) == order[c].expected
Entry(c) == <<order[c].route, order[c].version>>
Archive(c) == IF seen[c].at = "checksum" THEN byChecksum[Expected(c)]
                                         ELSE coordinate[Entry(c)]

\* Mutant: pinned artifacts go through the coordinate path like the others.
CachedNowhere(c) == FALSE

\* A pinned artifact that is cached under its checksum is taken as it is.
Cached(c) == Expected(c) # None /\ byChecksum[Expected(c)] # Absent

FoundBy(c, where) == seen' = [seen EXCEPT ![c] = [@ EXCEPT !.at = where]]

Lookup(c) ==
    /\ step[c] = "lookup"
    /\ IF Cached(c)
       THEN To(c, "signature") /\ FoundBy(c, "checksum")
       ELSE /\ FoundBy(c, "coordinate")
            /\ To(c, IF coordinate[Entry(c)] = Absent THEN "download"
                     ELSE IF Expected(c) # None THEN "verify" ELSE "signature")
    /\ UNCHANGED <<pubVars, files, order, outcome, given>>

\* A command ends, with an error or without, and forgets what it holds.
End(c, s) ==
    /\ To(c, s)
    /\ order' = [order EXCEPT ![c] = NoOrder]
    /\ seen' = [seen EXCEPT ![c] = NothingSeen]

Fail(c) == End(c, "failed") /\ UNCHANGED <<pubVars, files, outcome, given>>

\* _download: the request is answered and the file is opened for writing, or
\* the version is not there or the repository not reached.
Download(c) ==
    LET b == repository[order[c].version]["zip"] IN
    /\ step[c] = "download"
    /\ \/ /\ b # None
          /\ coordinate' = [coordinate EXCEPT ![Entry(c)] = Part(b)]
          /\ seen' = [seen EXCEPT ![c] = [@ EXCEPT !.build = b]]
          /\ To(c, "writing")
          /\ UNCHANGED <<pubVars, byChecksum, temp, tree, working, snapshot, lock,
                         order, outcome, given>>
       \/ Fail(c)

\* The body arrives, or its first part does: read(amt) of an HTTP response does
\* not complain about a connection that closes early.
FinishDownload(c) ==
    /\ step[c] = "writing"
    /\ \/ /\ coordinate[Entry(c)].build = seen[c].build
          /\ coordinate' = [coordinate EXCEPT ![Entry(c)] = Whole(seen[c].build)]
       \/ UNCHANGED coordinate
    /\ seen' = [seen EXCEPT ![c] = [@ EXCEPT !.build = None]]
    /\ To(c, IF Expected(c) # None THEN "verify" ELSE "signature")
    /\ UNCHANGED <<pubVars, byChecksum, temp, tree, working, snapshot, lock,
                   order, outcome, given>>

\* The connection breaks while the body is read.
BreakDownload(c) == step[c] = "writing" /\ Fail(c)

\* Mutant: the cached file is trusted.
MatchesAnyway(c) == TRUE

\* The checksum of what the coordinate path holds, from whichever command; then
\* copy2 opens the copy, if there is none.
Matches(c) == Sum(coordinate[Entry(c)]) = Expected(c)

VerifyChecksum(c) ==
    /\ step[c] = "verify"
    /\ Matches(c)
    /\ IF byChecksum[Expected(c)] # Absent
       THEN To(c, "signature") /\ FoundBy(c, "checksum") /\ UNCHANGED byChecksum
       ELSE /\ byChecksum' = [byChecksum EXCEPT ![Expected(c)] =
                                 Part(coordinate[Entry(c)].build)]
            /\ To(c, "copying")
            /\ UNCHANGED seen
    /\ UNCHANGED <<pubVars, coordinate, temp, tree, working, snapshot, lock,
                   order, outcome, given>>

RefuseChecksum(c) == step[c] = "verify" /\ ~Matches(c) /\ Fail(c)

FinishCopy(c) ==
    /\ step[c] = "copying"
    /\ byChecksum' = [byChecksum EXCEPT ![Expected(c)] = coordinate[Entry(c)]]
    /\ FoundBy(c, "checksum")
    /\ To(c, "signature")
    /\ UNCHANGED <<pubVars, coordinate, temp, tree, working, snapshot, lock,
                   order, outcome, given>>

\* _check_or_skip_signature: the signature is downloaded each time, and gpg
\* compares it with the archive.
SignatureFits(c) ==
    LET asc == repository[order[c].version]["asc"] IN
    asc # None /\ Sum(Archive(c)) = asc

CheckSignature(c) ==
    /\ step[c] = "signature"
    /\ order[c].signed => SignatureFits(c)
    /\ To(c, "load")
    /\ UNCHANGED <<pubVars, files, order, seen, outcome, given>>

\* It does not fit, is not there, or the repository is not reached.
RefuseSignature(c) == step[c] = "signature" /\ order[c].signed /\ Fail(c)

-----------------------------------------------------------------------------
(* _load_zip_source and _extract_zip *)

\* The checksum that the plan records, and the archive that is opened: the
\* directory of a ZIP is at its end, so a part of one is no ZIP file.
Load(c) ==
    LET sum == Sum(Archive(c)) IN
    /\ step[c] = "load"
    /\ Archive(c).whole
    /\ seen' = [seen EXCEPT ![c] = [@ EXCEPT !.sum = sum,
                                             !.build = Archive(c).build]]
    /\ To(c, IF tree[sum] # Absent THEN "check" ELSE "extract")
    /\ UNCHANGED <<pubVars, files, order, outcome, given>>

RefuseArchive(c) == step[c] = "load" /\ ~Archive(c).whole /\ Fail(c)

\* What a command holds once it has emptied the temporary directory, and what
\* others that are extracting there are left with.
Emptied(c) ==
    [d \in Command |-> [seen[d] EXCEPT !.mine =
                           d = c \/ (@ /\ seen[d].sum # seen[c].sum)]]

\* Mutant: the archive is extracted under its final name.
ExtractInPlace(c) ==
    /\ step[c] = "extract"
    /\ tree' = [tree EXCEPT ![seen[c].sum] = Part(seen[c].build)]
    /\ seen' = Emptied(c)
    /\ To(c, "extracting")
    /\ UNCHANGED <<pubVars, coordinate, byChecksum, temp, working, snapshot, lock,
                   order, outcome, given>>

\* The archive is extracted under a temporary name, where what an earlier
\* command left, or another one is writing, is removed first;
Extract(c) ==
    /\ step[c] = "extract"
    /\ temp' = [temp EXCEPT ![seen[c].sum] = Part(seen[c].build)]
    /\ seen' = Emptied(c)
    /\ To(c, "extracting")
    /\ UNCHANGED <<pubVars, coordinate, byChecksum, tree, working, snapshot, lock,
                   order, outcome, given>>

\* extractall is through.  It has written everything unless another command has
\* removed its first files, or has given them a name; then it stumbles, or goes
\* on with what it makes anew.
FinishExtract(c) ==
    LET k     == seen[c].sum
        whole == seen[c].mine /\ temp[k] # Absent
    IN  /\ step[c] = "extracting"
        /\ \/ /\ temp' = [temp EXCEPT ![k] =
                               IF whole THEN Whole(seen[c].build)
                               ELSE IF @ = Absent THEN Part(seen[c].build) ELSE @]
              /\ To(c, "replacing")
              /\ UNCHANGED <<pubVars, coordinate, byChecksum, tree, working, snapshot,
                             lock, order, seen, outcome, given>>
           \/ ~whole /\ Fail(c)

\* A tree without the package root, or one that another command has named
\* meanwhile, is removed;
RemoveTree(c) ==
    /\ step[c] = "replacing"
    /\ tree' = [tree EXCEPT ![seen[c].sum] = Absent]
    /\ To(c, "naming")
    /\ UNCHANGED <<pubVars, coordinate, byChecksum, temp, working, snapshot, lock,
                   order, seen, outcome, given>>

\* then the temporary directory gets its name, unless it is gone or another
\* command has used the name.
Rename(c) ==
    LET k == seen[c].sum IN
    /\ step[c] = "naming"
    /\ IF temp[k] # Absent /\ tree[k] = Absent
       THEN /\ tree' = [tree EXCEPT ![k] = temp[k]]
            /\ temp' = [temp EXCEPT ![k] = Absent]
            /\ seen' = [seen EXCEPT ![c] = [@ EXCEPT !.mine = FALSE]]
            /\ To(c, "check")
            /\ UNCHANGED <<pubVars, coordinate, byChecksum, working, snapshot, lock,
                           order, outcome, given>>
       ELSE Fail(c)

-----------------------------------------------------------------------------
(* The lockfile *)

\* assert_lockfile_matches_plan, against the lockfile as it was read.  Nothing
\* fails here: the archive was compared before, and the rest is the same.
PlanMatchesLock(c) == order[c].how = "lockfile" => seen[c].sum = Expected(c)

CheckPlan(c) ==
    /\ step[c] = "check"
    /\ order[c].goal = "deploy"
    /\ PlanMatchesLock(c)
    /\ To(c, "ready")
    /\ UNCHANGED <<pubVars, files, order, seen, outcome, given>>

\* dbpm lock: write_lockfile truncates the file and writes it in place.
WriteLock(c) ==
    /\ step[c] = "check"
    /\ order[c].goal = "lock"
    /\ lock' = NoLock
    /\ To(c, "locking")
    /\ UNCHANGED <<pubVars, coordinate, byChecksum, temp, tree, working, snapshot,
                   order, seen, outcome, given>>

FinishLock(c) ==
    /\ step[c] = "locking"
    /\ lock' = [version |-> order[c].version, build |-> seen[c].sum,
                signed |-> order[c].signed]
    /\ End(c, "done")
    /\ UNCHANGED <<pubVars, coordinate, byChecksum, temp, tree, working, snapshot,
                   outcome, given>>

-----------------------------------------------------------------------------
(* lifecycle.snapshot_plan *)

\* The working copy must be what was planned; a snapshot that is there is used.
Recheck(c) ==
    /\ step[c] = "recheck"
    /\ working = seen[c].sum
    /\ To(c, IF snapshot[working] # Absent THEN "ready" ELSE "snapshotting")
    /\ UNCHANGED <<pubVars, files, order, seen, outcome, given>>

RefuseChanged(c) == step[c] = "recheck" /\ working # seen[c].sum /\ Fail(c)

\* Mutants: the copy is not compared; it has its name from the start.
FinishSnapshotUnverified(c) ==
    /\ step[c] = "snapshotting"
    /\ snapshot' = [snapshot EXCEPT ![seen[c].sum] = Whole(working)]
    /\ To(c, "ready")
    /\ UNCHANGED <<pubVars, coordinate, byChecksum, temp, tree, working, lock,
                   order, seen, outcome, given>>
FinishSnapshotInPlace(c) ==
    /\ step[c] = "snapshotting"
    /\ snapshot' = [snapshot EXCEPT ![seen[c].sum] = Part(working)]
    /\ To(c, "snapshotting")
    /\ UNCHANGED <<pubVars, coordinate, byChecksum, temp, tree, working, lock,
                   order, seen, outcome, given>>

\* The copy is read from the working copy, so it has its checksum only if that
\* did not change until the end; then it gets its name, unless another command
\* has been faster: a directory that is not empty is not replaced.
FinishSnapshot(c) ==
    /\ step[c] = "snapshotting"
    /\ working = seen[c].sum
    /\ snapshot[working] = Absent
    /\ snapshot' = [snapshot EXCEPT ![seen[c].sum] = Whole(working)]
    /\ To(c, "ready")
    /\ UNCHANGED <<pubVars, coordinate, byChecksum, temp, tree, working, lock,
                   order, seen, outcome, given>>

RefuseSnapshot(c) ==
    /\ step[c] = "snapshotting"
    /\ working # seen[c].sum \/ snapshot[working] # Absent
    /\ Fail(c)

-----------------------------------------------------------------------------
(* Deployment, and what else happens *)

\* Where the script of the plan is.
ScriptTree(c) == IF order[c].how = "directory" THEN snapshot[seen[c].sum]
                                               ELSE tree[seen[c].sum]

\* The script runs, some time later, and the provenance is recorded.
Deploy(c) ==
    /\ step[c] = "ready"
    /\ outcome' = [outcome EXCEPT ![c] =
           [how |-> order[c].how, expected |-> Expected(c),
            recorded |-> seen[c].sum, ran |-> ScriptTree(c)]]
    /\ End(c, "done")
    /\ UNCHANGED <<pubVars, files, given>>

\* A signal, a full disk or a power failure: the files stay as they are.
Kill(c) ==
    /\ ~Ended(c)
    /\ End(c, "done")
    /\ UNCHANGED <<pubVars, files, outcome, given>>

\* The operator removes the cached file, as the checksum error asks for.
RemoveCached(e) ==
    /\ Free(e[2])
    /\ coordinate[e] # Absent
    /\ coordinate' = [coordinate EXCEPT ![e] = Absent]
    /\ UNCHANGED <<pubVars, byChecksum, temp, tree, working, snapshot, lock, commands>>

\* The operator removes the whole artifact cache while no command runs.
ClearCache ==
    /\ \A c \in Command : Ended(c)
    /\ coordinate' = [e \in Route \X Version |-> Absent]
    /\ byChecksum' = [b \in Build |-> Absent]
    /\ temp' = [b \in Build |-> Absent]
    /\ tree' = [b \in Build |-> Absent]
    /\ UNCHANGED <<pubVars, working, snapshot, lock, commands>>

\* A developer edits the working copy, at any time.
EditWorking ==
    /\ working < MaxContent
    /\ working' = working + 1
    /\ UNCHANGED <<pubVars, coordinate, byChecksum, temp, tree, snapshot, lock, commands>>

Publish == PublicationNext /\ UNCHANGED <<files, commands>>

Take(c) ==
    \/ \E v \in Version, goal \in {"deploy", "lock"} :
         \/ \E route \in Route : TakeCoordinate(c, v, route, goal)
         \/ \E signed \in BOOLEAN : TakeRegistry(c, v, signed, goal)
    \/ TakeLockfile(c)
    \/ TakeDirectory(c)

Resolve(c) ==
    \/ Lookup(c)
    \/ Download(c) \/ FinishDownload(c) \/ BreakDownload(c)
    \/ VerifyChecksum(c) \/ RefuseChecksum(c) \/ FinishCopy(c)
    \/ CheckSignature(c) \/ RefuseSignature(c)

Use(c) ==
    \/ Load(c) \/ RefuseArchive(c)
    \/ Extract(c) \/ FinishExtract(c) \/ RemoveTree(c) \/ Rename(c)
    \/ CheckPlan(c) \/ WriteLock(c) \/ FinishLock(c)
    \/ Recheck(c) \/ RefuseChanged(c) \/ FinishSnapshot(c) \/ RefuseSnapshot(c)
    \/ Deploy(c)

Next ==
    \/ Publish
    \/ \E c \in Command : Take(c) \/ Resolve(c) \/ Use(c) \/ Kill(c)
    \/ \E e \in Route \X Version : RemoveCached(e)
    \/ ClearCache
    \/ EditWorking

Spec == Init /\ [][Next]_vars

-----------------------------------------------------------------------------
(* What the cache promises *)

\* The script of a command that a lockfile or the registry gave a checksum ran
\* from the complete tree of exactly that build: whatever was published under
\* the version since, however downloads, copies and extractions were cut off,
\* and whoever had filled the cache.
DeployedAsPinned ==
    \A c \in Command :
        outcome[c].expected # None => outcome[c].ran = Whole(outcome[c].expected)

\* The checksum recorded with any deployment is that of the files its script
\* ran from, although the script runs later: the tree of an archive has been in
\* use by others, the working copy edited since.
ProvenanceIsTrue ==
    \A c \in Command :
        outcome[c].how # "none" => outcome[c].ran = Whole(outcome[c].recorded)

\* What is stored under a checksum is never of another build; an archive may be
\* cut off, a tree or a snapshot is complete as soon as it has its name.
CacheHonest ==
    /\ \A b \in Build : /\ byChecksum[b] \in {Absent, Part(b), Whole(b)}
                        /\ tree[b] \in {Absent, Whole(b)}
    /\ \A k \in Content : snapshot[k] \in {Absent, Whole(k)}

\* docs/environment-configuration.md:117: the cache may safely be shared, so no
\* step of one command changes the tree from which the script of another one is
\* about to run.  Two that prepare one version at once do.
TreeUndisturbed ==
    [][\A c \in Command : step[c] = "ready" /\ order[c].how # "directory"
           => tree'[seen[c].sum] = tree[seen[c].sum]]_vars

\* Once its artifact is cached under its checksum, an install from a lockfile
\* without a signature no longer depends on the repository: it does not end with
\* an error, whatever becomes of the version upstream and whatever commands that
\* prepare other versions do.
CachedLockNeedsNoRepository ==
    [][\A c \in Command :
           /\ step[c] \in Preparing \cup {"check"}
           /\ order[c].how = "lockfile" /\ ~order[c].signed
           /\ byChecksum[order[c].expected].whole
           => step'[c] # "failed"]_vars
=============================================================================
