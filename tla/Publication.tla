----------------------------- MODULE Publication -----------------------------
(***************************************************************************)
(* How a package gets into a Maven repository and into the registry        *)
(* (publisher.py, cli._run_publish, cli._run_registry, registry.py).       *)
(*                                                                         *)
(* `dbpm publish` builds and signs a ZIP, uploads its files one by one,    *)
(* adds the version to maven-metadata.xml, reads everything back, writes a *)
(* receipt into the checkout and may index the version in the registry,    *)
(* which `dbpm registry index` can do later from the receipt.  Publishers  *)
(* work at the same time, and each may stop between any two requests.      *)
(*                                                                         *)
(* The time of the build is part of the ZIP, so no two builds are equal    *)
(* and a build number stands for an archive and for its checksum.          *)
(* The ZIP lies in the artifact cache of the one who publishes and is read *)
(* from there again while it is uploaded and verified.  Publishers that    *)
(* share a cache would overwrite each other's ZIP; here each has his own.  *)
(***************************************************************************)
EXTENDS Integers

CONSTANTS
    Publisher,     \* checkouts of the package, each with one dbpm at most and
                   \* with an artifact cache that no other publisher uses
    Version,
    MaxBuild,      \* bound: the builds that are made
    Replaceable    \* the versions whose files the repository lets be replaced

None == 0
Build == 1..MaxBuild

ASSUME PublicationAssumption ==
    /\ MaxBuild \in Nat
    /\ None \notin Version
    /\ Replaceable \subseteq Version

VARIABLES
    repository,   \* whose file each file of a version's directory is
    listed,       \* the versions in maven-metadata.xml
    index,        \* the checksum that the registry has for a version
    built,        \* the number of builds so far
    madeFor,      \* history: the version each build was made for
    manifest,     \* the version in the manifest of a checkout
    receipt,      \* the publish receipt in a checkout
    job           \* the command that runs in a checkout

pubVars == <<repository, listed, index, built, madeFor, manifest, receipt, job>>

-----------------------------------------------------------------------------
(* Types *)

\* The ZIP, its checksums, its signature, and the POM with its checksums.
File == {"zip", "sums", "asc", "pom"}

\* What the command does next.
Step == File \cup {"idle", "fetch", "metadata", "listing", "download", "receipt",
                   "index"}

\* versions is the list of versions that will be uploaded.
Job == [next: Step, version: Version \cup {None}, build: Build \cup {None},
        versions: SUBSET Version]

NoJob == [next |-> "idle", version |-> None, build |-> None, versions |-> {}]

Receipt == [version: Version \cup {None}, build: Build \cup {None}]
NoReceipt == [version |-> None, build |-> None]

PublicationTypeOK ==
    /\ repository \in [Version -> [File -> Build \cup {None}]]
    /\ listed \subseteq Version
    /\ index \in [Version -> Build \cup {None}]
    /\ built \in 0..MaxBuild
    /\ madeFor \in [Build -> Version \cup {None}]
    /\ manifest \in [Publisher -> Version]
    /\ receipt \in [Publisher -> Receipt]
    /\ job \in [Publisher -> Job]

PublicationInit ==
    /\ repository = [v \in Version |-> [f \in File |-> None]]
    /\ listed = {}
    /\ index = [v \in Version |-> None]
    /\ built = 0
    /\ madeFor = [b \in Build |-> None]
    /\ manifest \in [Publisher -> Version]
    /\ receipt = [p \in Publisher |-> NoReceipt]
    /\ job = [p \in Publisher |-> NoJob]

-----------------------------------------------------------------------------
(* dbpm publish *)

Continue(p, step) == job' = [job EXCEPT ![p] = [@ EXCEPT !.next = step]]

\* _run_publish up to the first request: the manifest is read, the archive is
\* built and signed.
Start(p) ==
    /\ job[p].next = "idle"
    /\ built < MaxBuild
    /\ built' = built + 1
    /\ madeFor' = [madeFor EXCEPT ![built + 1] = manifest[p]]
    /\ job' = [job EXCEPT ![p] = [next |-> "zip", version |-> manifest[p],
                                  build |-> built + 1, versions |-> {}]]
    /\ UNCHANGED <<repository, listed, index, manifest, receipt>>

\* Mutant: the version is listed before its POM is there.
AfterWithoutPom == [zip |-> "sums", sums |-> "asc", asc |-> "fetch", pom |-> "fetch"]

\* The order of the uploads in publish_to_repository.
After == [zip |-> "sums", sums |-> "asc", asc |-> "pom", pom |-> "fetch"]

\* The repository answers a second upload of a file with an error.
Refused(v, f) == v \notin Replaceable /\ repository[v][f] # None

\* One _upload of a file of the version.
Upload(p, f) ==
    LET j == job[p] IN
    /\ j.next = f
    /\ ~Refused(j.version, f)
    /\ repository' = [repository EXCEPT ![j.version] = [@ EXCEPT ![f] = j.build]]
    /\ Continue(p, After[f])
    /\ UNCHANGED <<listed, index, built, madeFor, manifest, receipt>>

\* _build_updated_metadata: the list is read and completed.
FetchMetadata(p) ==
    /\ job[p].next = "fetch"
    /\ job' = [job EXCEPT ![p] = [@ EXCEPT !.next = "metadata",
                                           !.versions = listed \cup {job[p].version}]]
    /\ UNCHANGED <<repository, listed, index, built, madeFor, manifest, receipt>>

\* The upload of maven-metadata.xml replaces what others uploaded since.
UploadMetadata(p) ==
    /\ job[p].next = "metadata"
    /\ listed' = job[p].versions
    /\ job' = [job EXCEPT ![p] = [@ EXCEPT !.next = "listing", !.versions = {}]]
    /\ UNCHANGED <<repository, index, built, madeFor, manifest, receipt>>

\* verify_publish: the version is listed,
VerifyListed(p) ==
    /\ job[p].next = "listing"
    /\ job[p].version \in listed
    /\ Continue(p, "download")
    /\ UNCHANGED <<repository, listed, index, built, madeFor, manifest, receipt>>

\* and the archive has the checksum of the one that was built.
VerifyArtifact(p) ==
    /\ job[p].next = "download"
    /\ repository[job[p].version]["zip"] = job[p].build
    /\ Continue(p, "receipt")
    /\ UNCHANGED <<repository, listed, index, built, madeFor, manifest, receipt>>

\* write_publish_receipt, and the registry if --index-registry is given.
WriteReceipt(p) ==
    /\ job[p].next = "receipt"
    /\ receipt' = [receipt EXCEPT ![p] = [version |-> job[p].version,
                                          build |-> job[p].build]]
    /\ \/ Continue(p, "index")
       \/ job' = [job EXCEPT ![p] = NoJob]
    /\ UNCHANGED <<repository, listed, index, built, madeFor, manifest>>

\* index_registry_version at the end of a publish.
Index(p) ==
    /\ job[p].next = "index"
    /\ index' = [index EXCEPT ![job[p].version] = job[p].build]
    /\ job' = [job EXCEPT ![p] = NoJob]
    /\ UNCHANGED <<repository, listed, built, madeFor, manifest, receipt>>

\* The command ends early: an upload is refused, a check of verify_publish
\* fails, the registry refuses, a request or its answer is lost, or a signal.
Abort(p) ==
    /\ job[p].next # "idle"
    /\ job' = [job EXCEPT ![p] = NoJob]
    /\ UNCHANGED <<repository, listed, index, built, madeFor, manifest, receipt>>

-----------------------------------------------------------------------------
(* dbpm registry index, and the developer *)

\* Mutant: whatever receipt is in the checkout.
AnyReceiptFits(p) == TRUE

\* create_registry_index_payload refuses a receipt of another version.
ReceiptFits(p) == receipt[p].version = manifest[p]

\* _run_registry with the receipt of the checkout.  Without one the operator
\* has to give the checksum by hand, which nobody does here.
RegistryIndex(p) ==
    /\ job[p].next = "idle"
    /\ receipt[p] # NoReceipt
    /\ ReceiptFits(p)
    /\ index' = [index EXCEPT ![manifest[p]] = receipt[p].build]
    /\ UNCHANGED <<repository, listed, built, madeFor, manifest, receipt, job>>

\* The developer changes the version in the manifest, at any time.
EditManifest(p, v) ==
    /\ manifest[p] # v
    /\ manifest' = [manifest EXCEPT ![p] = v]
    /\ UNCHANGED <<repository, listed, index, built, madeFor, receipt, job>>

PublicationNext ==
    \E p \in Publisher :
        \/ Start(p)
        \/ \E f \in File : Upload(p, f)
        \/ FetchMetadata(p)
        \/ UploadMetadata(p)
        \/ VerifyListed(p)
        \/ VerifyArtifact(p)
        \/ WriteReceipt(p)
        \/ Index(p)
        \/ Abort(p)
        \/ RegistryIndex(p)
        \/ \E v \in Version : EditManifest(p, v)

PublicationSpec == PublicationInit /\ [][PublicationNext]_pubVars

-----------------------------------------------------------------------------
(* What publishing promises *)

Immutable == Version \ Replaceable

\* A version that maven-metadata.xml lists has all its files, and those of an
\* immutable version are of one build, although the list and the files are
\* uploaded one after another by publishers that stop or overtake each other.
ListedIsWhole ==
    \A v \in listed :
        /\ \A f \in File : repository[v][f] # None
        /\ v \in Immutable => \A f \in File : repository[v][f] = repository[v]["zip"]

\* The checksum that the registry has for an immutable version is that of the
\* archive, and of the signature, that the repository serves: also when it was
\* indexed later, from a receipt that lay in a checkout while the manifest
\* went on, and while others tried to publish the same version.  Of no version
\* does the registry have the checksum of another one's archive.
IndexIsServed ==
    \A v \in Version :
        index[v] # None =>
            /\ madeFor[index[v]] = v
            /\ v \in Immutable => /\ repository[v]["zip"] = index[v]
                                 /\ repository[v]["asc"] = index[v]
=============================================================================
