------------------------- MODULE PublicationProofs -------------------------
(***************************************************************************)
(* Theorems about Publication, for every number of publishers, versions    *)
(* and builds.  The invariant says, for each step of a publish, which      *)
(* files are there already, and whose they are when the version is         *)
(* immutable: all files of such a version are of the build whose ZIP came  *)
(* first, since each publisher uploads the ZIP before anything else and is *)
(* refused if there is one.                                                *)
(***************************************************************************)
EXTENDS Publication, TLAPS

\* Build b was made for version v.
Made(v, b) == v \in Version /\ b \in 1..built /\ madeFor[b] = v

\* The files that a publish has uploaded before a step.
Uploaded(step) ==
    {f \in File : \/ step \notin File
                  \/ f = "zip" /\ step # "zip"
                  \/ f = "sums" /\ step \in {"asc", "pom"}
                  \/ f = "asc" /\ step = "pom"}

Complete(v) == \A f \in File : repository[v][f] # None

Served(v, b) ==
    v \in Immutable => repository[v]["zip"] = b /\ repository[v]["asc"] = b

FilesMade ==
    \A v \in Version, f \in File :
        repository[v][f] # None => Made(v, repository[v][f])

ZipFirst ==
    \A v \in Immutable, f \in File :
        repository[v][f] # None => repository[v][f] = repository[v]["zip"]

JobsMade ==
    \A p \in Publisher :
        job[p].next # "idle" => Made(job[p].version, job[p].build)

JobsUploaded ==
    \A p \in Publisher : job[p].next # "idle" =>
        \A f \in Uploaded(job[p].next) :
            /\ repository[job[p].version][f] # None
            /\ job[p].version \in Immutable =>
                   repository[job[p].version][f] = job[p].build

ListsComplete ==
    /\ \A v \in listed : Complete(v)
    /\ \A p \in Publisher : \A v \in job[p].versions : Complete(v)

ReceiptsServed ==
    \A p \in Publisher : receipt[p] # NoReceipt =>
        /\ Made(receipt[p].version, receipt[p].build)
        /\ Served(receipt[p].version, receipt[p].build)

IndexServed ==
    \A v \in Version : index[v] # None => Made(v, index[v]) /\ Served(v, index[v])

PubInv ==
    /\ PublicationTypeOK
    /\ FilesMade
    /\ ZipFirst
    /\ JobsMade
    /\ JobsUploaded
    /\ ListsComplete
    /\ ReceiptsServed
    /\ IndexServed

-----------------------------------------------------------------------------

LEMMA PublicationBegins == PublicationInit => PubInv
<1> SUFFICES ASSUME PublicationInit PROVE PubInv
  OBVIOUS
<1> USE PublicationAssumption DEF PublicationInit
<1>1. PublicationTypeOK
  BY DEF PublicationTypeOK, Job, NoJob, Step, File, Receipt, NoReceipt, Build, None
<1>2. FilesMade /\ ZipFirst
  BY DEF FilesMade, ZipFirst, Immutable
<1>3. JobsMade /\ JobsUploaded /\ ListsComplete
  BY DEF JobsMade, JobsUploaded, ListsComplete, NoJob
<1>4. ReceiptsServed /\ IndexServed
  BY DEF ReceiptsServed, IndexServed, NoReceipt
<1> QED
  BY <1>1, <1>2, <1>3, <1>4 DEF PubInv

\* What a publish finds after each upload, and what was made, stays.
Lasting ==
    /\ \A v \in Version, f \in File : repository[v][f] # None =>
           /\ repository'[v][f] # None
           /\ v \in Immutable => repository'[v][f] = repository[v][f]
    /\ built' >= built
    /\ \A b \in 1..built : madeFor'[b] = madeFor[b]

LEMMA MadeLasts ==
    ASSUME PublicationTypeOK, PublicationTypeOK', Lasting
    PROVE  \A v, b : Made(v, b) => v \in Version /\ b \in 1..built' /\ madeFor'[b] = v
  BY DEF Made, Lasting, PublicationTypeOK

LEMMA ServedLasts ==
    ASSUME Lasting
    PROVE  \A v, b : Made(v, b) /\ Served(v, b) /\ v \in Immutable =>
               repository'[v]["zip"] = b /\ repository'[v]["asc"] = b
  BY DEF Lasting, Served, Made, File, Immutable, None

\* For all but uploads and the start of a publish this is plain.
LEMMA KeptLasts ==
    ASSUME PublicationTypeOK, UNCHANGED <<repository, built, madeFor>>
    PROVE  Lasting
  BY DEF Lasting, PublicationTypeOK

\* A step that changes only what a job does next, or its list of versions.
LEMMA JobStep ==
    ASSUME PubInv, NEW p \in Publisher, NEW j \in Job,
           job' = [job EXCEPT ![p] = j],
           UNCHANGED <<repository, built, madeFor>>,
           j.next # "idle" =>
               /\ j.version = job[p].version /\ j.build = job[p].build
               /\ job[p].next # "idle"
               /\ Uploaded(j.next) \subseteq Uploaded(job[p].next),
           \A v \in j.versions : Complete(v)
    PROVE  /\ job' \in [Publisher -> Job]
           /\ JobsMade'
           /\ JobsUploaded'
           /\ \A q \in Publisher : \A v \in job'[q].versions : Complete(v)'
<1>1. job \in [Publisher -> Job]
  BY DEF PubInv, PublicationTypeOK
<1>2. job' \in [Publisher -> Job]
  BY <1>1
<1>3. \A q \in Publisher : job'[q] = IF q = p THEN j ELSE job[q]
  BY <1>1
<1>4. JobsMade'
  BY <1>3 DEF PubInv, JobsMade, Made
<1>5. JobsUploaded'
  BY <1>3 DEF PubInv, JobsUploaded
<1>6. \A q \in Publisher : \A v \in job'[q].versions : Complete(v)'
  BY <1>3 DEF PubInv, ListsComplete, Complete
<1> QED
  BY <1>2, <1>4, <1>5, <1>6

-----------------------------------------------------------------------------
(* The steps of a publish *)

LEMMA StartStep ==
    ASSUME PubInv, NEW p \in Publisher, Start(p)
    PROVE  PubInv' /\ Lasting
<1> USE DEF Start
<1> DEFINE j == [next |-> "zip", version |-> manifest[p], build |-> built + 1,
                 versions |-> {}]
<1>1. PublicationTypeOK /\ MaxBuild \in Nat
  BY PublicationAssumption DEF PubInv
<1>2. manifest[p] \in Version /\ built + 1 \in Build /\ built \in Nat
  BY <1>1 DEF PublicationTypeOK, Build
<1>3. j \in Job
  BY <1>2 DEF Job, Step, File
<1>4. \A q \in Publisher : job'[q] = IF q = p THEN j ELSE job[q]
  BY <1>1 DEF PublicationTypeOK
<1>5. PublicationTypeOK'
  BY <1>1, <1>2, <1>3 DEF PublicationTypeOK, Build
<1>6. Lasting
  BY <1>1, <1>2 DEF Lasting, PublicationTypeOK
<1>7. built + 1 \in 1..built' /\ madeFor'[built + 1] = manifest[p]
  BY <1>1, <1>2 DEF PublicationTypeOK
<1>8. FilesMade' /\ ZipFirst'
  BY <1>1, <1>5, <1>6, MadeLasts DEF PubInv, FilesMade, ZipFirst, Made
<1>9. JobsMade'
  BY <1>1, <1>2, <1>4, <1>5, <1>6, <1>7, MadeLasts DEF PubInv, JobsMade, Made
<1>10. JobsUploaded'
  BY <1>4 DEF PubInv, JobsUploaded, Uploaded, File
<1>11. ListsComplete'
  BY <1>4 DEF PubInv, ListsComplete, Complete
<1>12. ReceiptsServed' /\ IndexServed'
  BY <1>1, <1>5, <1>6, MadeLasts DEF PubInv, ReceiptsServed, IndexServed, Served, Made
<1> QED
  BY <1>5, <1>6, <1>8, <1>9, <1>10, <1>11, <1>12 DEF PubInv
\* A file is uploaded: the first of an immutable version is its ZIP, and one
\* that comes later is of the build whose ZIP is there.
LEMMA UploadStep ==
    ASSUME PubInv, NEW p \in Publisher, NEW f \in File, Upload(p, f)
    PROVE  PubInv' /\ Lasting
<1> DEFINE v == job[p].version
           b == job[p].build
           j == [job[p] EXCEPT !.next = After[f]]
<1>1. PublicationTypeOK
  BY DEF PubInv
<1>2. /\ job[p] \in Job /\ job[p].next = f /\ f # "idle"
      /\ Made(v, b)
  BY <1>1 DEF PublicationTypeOK, Upload, PubInv, JobsMade, File
<1>3. /\ v \in Version /\ b \in Build /\ b # None
  BY <1>1, <1>2, PublicationAssumption DEF Made, PublicationTypeOK, Build, None
<1>4. /\ repository' = [repository EXCEPT ![v] = [@ EXCEPT ![f] = b]]
      /\ job' = [job EXCEPT ![p] = j]
      /\ UNCHANGED <<listed, index, built, madeFor, manifest, receipt>>
  BY DEF Upload, Continue
<1>5. \A w \in Version, g \in File :
          repository'[w][g] = IF w = v /\ g = f THEN b ELSE repository[w][g]
  BY <1>1, <1>3, <1>4 DEF PublicationTypeOK
<1>6. j \in Job /\ After[f] # "idle" /\ j.next = After[f]
      /\ j.version = v /\ j.build = b /\ j.versions = job[p].versions
  BY <1>2 DEF Job, Step, File, After
<1>7. \A q \in Publisher : job'[q] = IF q = p THEN j ELSE job[q]
  BY <1>1, <1>4 DEF PublicationTypeOK
<1>8. v \in Immutable => repository[v][f] = None
  BY <1>3 DEF Upload, Refused, Immutable
<1>9. PublicationTypeOK'
  <2>1. repository' \in [Version -> [File -> Build \cup {None}]]
    BY <1>1, <1>3, <1>4 DEF PublicationTypeOK
  <2> QED
    BY <2>1, <1>1, <1>4, <1>6 DEF PublicationTypeOK
<1>10. Lasting
  BY <1>1, <1>3, <1>4, <1>5, <1>8 DEF Lasting, PublicationTypeOK
<1> HIDE DEF v, b, j
<1>11. FilesMade'
  BY <1>2, <1>4, <1>5 DEF PubInv, FilesMade, Made
<1>12. v \in Immutable /\ f # "zip" => repository[v]["zip"] = b
  BY <1>2 DEF PubInv, JobsUploaded, Uploaded, File, v, b
<1>13. ZipFirst'
  <2>1. "zip" \in File /\ \A w \in Immutable : w \in Version
    BY DEF File, Immutable
  <2>2. v \in Immutable /\ f = "zip" => \A g \in File : repository[v][g] = None
    BY <1>8 DEF PubInv, ZipFirst
  <2> QED
    BY <2>1, <2>2, <1>4, <1>5, <1>12, <1>3 DEF PubInv, ZipFirst, Immutable
<1>14. JobsMade'
  BY <1>2, <1>4, <1>6, <1>7 DEF PubInv, JobsMade, Made
<1>15. Uploaded(After[f]) \subseteq Uploaded(f) \cup {f}
  BY DEF Uploaded, After, File
<1>16. JobsUploaded'
  <2> SUFFICES ASSUME NEW q \in Publisher, job'[q].next # "idle",
                      NEW g \in Uploaded(job'[q].next)
               PROVE  /\ repository'[job'[q].version][g] # None
                      /\ job'[q].version \in Immutable =>
                             repository'[job'[q].version][g] = job'[q].build
    BY DEF JobsUploaded, Uploaded, Immutable
  <2>1. g \in File /\ \A w \in Immutable : w \in Version
    BY DEF Uploaded, Immutable
  <2>2. CASE q = p /\ g = f
    BY <2>2, <1>3, <1>5, <1>6, <1>7, <2>1
  <2>3. CASE q = p /\ g # f
    <3>1. g \in Uploaded(job[p].next)
      BY <2>3, <1>2, <1>6, <1>7, <1>15
    <3>2. repository[v][g] # None /\ (v \in Immutable => repository[v][g] = b)
      BY <3>1, <1>2 DEF PubInv, JobsUploaded, v, b
    <3> QED
      BY <3>2, <2>3, <2>1, <1>3, <1>5, <1>6, <1>7
  <2>4. CASE q # p
    <3>1. g \in Uploaded(job[q].next) /\ job[q].next # "idle" /\ job'[q] = job[q]
      BY <2>4, <1>7
    <3>2. /\ repository[job[q].version][g] # None
          /\ job[q].version \in Immutable =>
                 repository[job[q].version][g] = job[q].build
      BY <3>1 DEF PubInv, JobsUploaded
    <3>3. job[q].version \in Version
      BY <3>1 DEF PubInv, JobsMade, Made
    <3> QED
      BY <3>1, <3>2, <3>3, <2>1, <1>10 DEF Lasting
  <2> QED
    BY <2>2, <2>3, <2>4
<1>17. ListsComplete'
  <2>1. \A w \in Version : (\A g \in File : repository[w][g] # None)
                              => \A g \in File : repository'[w][g] # None
    BY <1>3, <1>5
  <2>2. listed \subseteq Version /\ \A q \in Publisher : job[q].versions \subseteq Version
    BY <1>1 DEF PublicationTypeOK, Job
  <2>3. \A q \in Publisher : job'[q].versions = job[q].versions
    BY <1>6, <1>7
  <2> QED
    BY <2>1, <2>2, <2>3, <1>4 DEF PubInv, ListsComplete, Complete
<1>18. ReceiptsServed' /\ IndexServed'
  <2>1. ReceiptsServed /\ IndexServed
    BY DEF PubInv
  <2>2. ReceiptsServed'
    BY <2>1, <1>4, <1>10, ServedLasts DEF ReceiptsServed, Served, Made, Immutable
  <2>3. IndexServed'
    BY <2>1, <1>4, <1>10, ServedLasts DEF IndexServed, Served, Made, Immutable
  <2> QED
    BY <2>2, <2>3
<1> QED
  BY <1>9, <1>10, <1>11, <1>13, <1>14, <1>16, <1>17, <1>18 DEF PubInv

\* The steps between and after the uploads change no file.
LEMMA ListStep ==
    ASSUME PubInv, NEW p \in Publisher, FetchMetadata(p) \/ UploadMetadata(p)
    PROVE  PubInv' /\ Lasting
<1> USE DEF FetchMetadata, UploadMetadata
<1>1. PublicationTypeOK /\ job[p] \in Job
  BY DEF PubInv, PublicationTypeOK
<1>2. UNCHANGED <<repository, index, built, madeFor, manifest, receipt>>
  OBVIOUS
<1>3. job[p].next # "idle" /\ Uploaded(job[p].next) = File
  BY DEF Uploaded, File
<1>4. Complete(job[p].version) /\ job[p].version \in Version
  BY <1>3 DEF PubInv, JobsUploaded, JobsMade, Made, Complete
<1>5. listed \subseteq Version /\ job[p].versions \subseteq Version
  BY <1>1 DEF PublicationTypeOK, Job
<1>6. PICK j \in Job :
          /\ job' = [job EXCEPT ![p] = j]
          /\ j.next # "idle"
          /\ j.version = job[p].version /\ j.build = job[p].build
          /\ \A v \in j.versions : Complete(v)
  <2>1. CASE FetchMetadata(p)
    <3> DEFINE j == [job[p] EXCEPT !.next = "metadata",
                                   !.versions = listed \cup {job[p].version}]
    <3>1. j \in Job
      BY <1>1, <1>4, <1>5 DEF Job, Step
    <3>2. /\ j.next = "metadata" /\ j.version = job[p].version
          /\ j.build = job[p].build /\ j.versions = listed \cup {job[p].version}
      BY <1>1 DEF Job
    <3>3. job' = [job EXCEPT ![p] = j]
      BY <2>1
    <3>4. \A v \in j.versions : Complete(v)
      BY <3>2, <1>4 DEF PubInv, ListsComplete
    <3> QED
      BY <3>1, <3>2, <3>3, <3>4
  <2>2. CASE UploadMetadata(p)
    <3> DEFINE j == [job[p] EXCEPT !.next = "listing", !.versions = {}]
    <3>1. j \in Job
      BY <1>1 DEF Job, Step
    <3>2. /\ j.next = "listing" /\ j.version = job[p].version
          /\ j.build = job[p].build /\ j.versions = {}
      BY <1>1 DEF Job
    <3>3. job' = [job EXCEPT ![p] = j]
      BY <2>2
    <3> QED
      BY <3>1, <3>2, <3>3
  <2> QED
    BY <2>1, <2>2
<1>7. Uploaded(j.next) \subseteq Uploaded(job[p].next)
  BY <1>3 DEF Uploaded
<1>8. /\ job' \in [Publisher -> Job] /\ JobsMade' /\ JobsUploaded'
      /\ \A q \in Publisher : \A v \in job'[q].versions : Complete(v)'
  BY <1>2, <1>3, <1>6, <1>7, JobStep
<1>9. listed' \subseteq Version /\ \A v \in listed' : Complete(v)
  BY <1>5 DEF PubInv, ListsComplete
<1>10. PublicationTypeOK'
  BY <1>1, <1>2, <1>8, <1>9 DEF PublicationTypeOK
<1>11. ListsComplete'
  BY <1>2, <1>8, <1>9 DEF ListsComplete, Complete
<1>12. FilesMade' /\ ZipFirst' /\ ReceiptsServed' /\ IndexServed'
  BY <1>2 DEF PubInv, FilesMade, ZipFirst, ReceiptsServed, IndexServed, Made, Served
<1>13. Lasting
  BY <1>1, <1>2, KeptLasts
<1> QED
  BY <1>8, <1>10, <1>11, <1>12, <1>13 DEF PubInv

LEMMA CheckStep ==
    ASSUME PubInv, NEW p \in Publisher,
           VerifyListed(p) \/ VerifyArtifact(p) \/ Abort(p)
    PROVE  PubInv' /\ Lasting
<1> USE DEF VerifyListed, VerifyArtifact, Abort, Continue
<1>1. PublicationTypeOK /\ job[p] \in Job
  BY DEF PubInv, PublicationTypeOK
<1>2. UNCHANGED <<repository, listed, index, built, madeFor, manifest, receipt>>
  OBVIOUS
<1>3. PICK j \in Job :
          /\ job' = [job EXCEPT ![p] = j]
          /\ j.next # "idle" =>
                 /\ j.version = job[p].version /\ j.build = job[p].build
                 /\ job[p].next # "idle"
                 /\ Uploaded(j.next) \subseteq Uploaded(job[p].next)
          /\ \A v \in j.versions : Complete(v)
  <2>1. \A v \in job[p].versions : Complete(v)
    BY DEF PubInv, ListsComplete
  <2>2. ASSUME NEW s \in {"download", "receipt"},
               job[p].next \in {"listing", "download"},
               job' = [job EXCEPT ![p] = [@ EXCEPT !.next = s]]
        PROVE  \E j \in Job :
                 /\ job' = [job EXCEPT ![p] = j]
                 /\ j.next # "idle"
                 /\ j.version = job[p].version /\ j.build = job[p].build
                 /\ job[p].next # "idle"
                 /\ Uploaded(j.next) \subseteq Uploaded(job[p].next)
                 /\ \A v \in j.versions : Complete(v)
    <3> DEFINE j == [job[p] EXCEPT !.next = s]
    <3>1. j \in Job /\ j.next = s /\ j.version = job[p].version
          /\ j.build = job[p].build /\ j.versions = job[p].versions
      BY <1>1 DEF Job, Step
    <3>2. Uploaded(job[p].next) = File /\ Uploaded(s) \subseteq File
      BY <2>2 DEF Uploaded, File
    <3> QED
      BY <2>1, <2>2, <3>1, <3>2
  <2>3. CASE VerifyListed(p) \/ VerifyArtifact(p)
    BY <2>2, <2>3
  <2>4. CASE Abort(p)
    <3>1. NoJob \in Job /\ NoJob.next = "idle" /\ NoJob.versions = {}
      BY DEF NoJob, Job, Step
    <3> QED
      BY <3>1, <2>4
  <2> QED
    BY <2>3, <2>4
<1>4. /\ job' \in [Publisher -> Job] /\ JobsMade' /\ JobsUploaded'
      /\ \A q \in Publisher : \A v \in job'[q].versions : Complete(v)'
  BY <1>2, <1>3, JobStep
<1>5. PublicationTypeOK' /\ ListsComplete'
  BY <1>1, <1>2, <1>4 DEF PublicationTypeOK, PubInv, ListsComplete, Complete
<1>6. FilesMade' /\ ZipFirst' /\ ReceiptsServed' /\ IndexServed'
  BY <1>2 DEF PubInv, FilesMade, ZipFirst, ReceiptsServed, IndexServed, Made, Served
<1>7. Lasting
  BY <1>1, <1>2, KeptLasts
<1> QED
  BY <1>4, <1>5, <1>6, <1>7 DEF PubInv
\* What the receipt says, and then the registry, was true when the archive was
\* read back, and stays true.
LEMMA ReceiptStep ==
    ASSUME PubInv, NEW p \in Publisher, WriteReceipt(p)
    PROVE  PubInv' /\ Lasting
<1> USE DEF WriteReceipt, Continue
<1> DEFINE r == [version |-> job[p].version, build |-> job[p].build]
<1>1. PublicationTypeOK /\ job[p] \in Job /\ job[p].next = "receipt"
  BY DEF PubInv, PublicationTypeOK
<1>2. UNCHANGED <<repository, listed, index, built, madeFor, manifest>>
  OBVIOUS
<1>3. Uploaded(job[p].next) = File /\ Uploaded("index") \subseteq File
  BY <1>1 DEF Uploaded, File
<1>4. Made(job[p].version, job[p].build) /\ Served(job[p].version, job[p].build)
  BY <1>1, <1>3 DEF PubInv, JobsMade, JobsUploaded, Served, File
<1>5. PICK j \in Job :
          /\ job' = [job EXCEPT ![p] = j]
          /\ j.next # "idle" =>
                 /\ j.version = job[p].version /\ j.build = job[p].build
                 /\ Uploaded(j.next) \subseteq Uploaded(job[p].next)
          /\ \A v \in j.versions : Complete(v)
  <2>1. \A v \in job[p].versions : Complete(v)
    BY DEF PubInv, ListsComplete
  <2>2. CASE job' = [job EXCEPT ![p] = [@ EXCEPT !.next = "index"]]
    <3> DEFINE j == [job[p] EXCEPT !.next = "index"]
    <3>1. j \in Job /\ j.next = "index" /\ j.version = job[p].version
          /\ j.build = job[p].build /\ j.versions = job[p].versions
      BY <1>1 DEF Job, Step
    <3> QED
      BY <1>3, <2>1, <2>2, <3>1
  <2>3. CASE job' = [job EXCEPT ![p] = NoJob]
    <3>1. NoJob \in Job /\ NoJob.next = "idle" /\ NoJob.versions = {}
      BY DEF NoJob, Job, Step
    <3> QED
      BY <3>1, <2>3
  <2> QED
    BY <2>2, <2>3
<1>6. /\ job' \in [Publisher -> Job] /\ JobsMade' /\ JobsUploaded'
      /\ \A q \in Publisher : \A v \in job'[q].versions : Complete(v)'
  BY <1>1, <1>2, <1>5, JobStep
<1>7. \A q \in Publisher : receipt'[q] = IF q = p THEN r ELSE receipt[q]
  BY <1>1 DEF PublicationTypeOK
<1>8. r \in Receipt
  BY <1>1 DEF Job, Receipt
<1>9. PublicationTypeOK' /\ ListsComplete'
  BY <1>1, <1>2, <1>6, <1>8 DEF PublicationTypeOK, PubInv, ListsComplete, Complete
<1>10. ReceiptsServed'
  BY <1>2, <1>4, <1>7 DEF PubInv, ReceiptsServed, Made, Served
<1>11. FilesMade' /\ ZipFirst' /\ IndexServed'
  BY <1>2 DEF PubInv, FilesMade, ZipFirst, IndexServed, Made, Served
<1>12. Lasting
  BY <1>1, <1>2, KeptLasts
<1> QED
  BY <1>6, <1>9, <1>10, <1>11, <1>12 DEF PubInv

LEMMA IndexStep ==
    ASSUME PubInv, NEW p \in Publisher, Index(p)
    PROVE  PubInv' /\ Lasting
<1> USE DEF Index
<1>1. PublicationTypeOK /\ job[p].next = "index"
  BY DEF PubInv, PublicationTypeOK
<1>2. UNCHANGED <<repository, listed, built, madeFor, manifest, receipt>>
  OBVIOUS
<1>3. Uploaded(job[p].next) = File
  BY <1>1 DEF Uploaded, File
<1>4. Made(job[p].version, job[p].build) /\ Served(job[p].version, job[p].build)
  BY <1>1, <1>3 DEF PubInv, JobsMade, JobsUploaded, Served, File
<1>5. NoJob \in Job /\ NoJob.next = "idle" /\ NoJob.versions = {}
  BY DEF NoJob, Job, Step
<1>6. /\ job' \in [Publisher -> Job] /\ JobsMade' /\ JobsUploaded'
      /\ \A q \in Publisher : \A v \in job'[q].versions : Complete(v)'
  BY <1>2, <1>5, JobStep
<1>7. \A v \in Version : index'[v] = IF v = job[p].version THEN job[p].build
                                                         ELSE index[v]
  BY <1>1 DEF PublicationTypeOK
<1>8. job[p].build \in Build
  BY <1>1, <1>4, PublicationAssumption DEF Made, PublicationTypeOK, Build
<1>9. PublicationTypeOK' /\ ListsComplete'
  BY <1>1, <1>2, <1>6, <1>8 DEF PublicationTypeOK, PubInv, ListsComplete, Complete
<1>10. IndexServed'
  BY <1>2, <1>4, <1>7 DEF PubInv, IndexServed, Made, Served
<1>11. FilesMade' /\ ZipFirst' /\ ReceiptsServed'
  BY <1>2 DEF PubInv, FilesMade, ZipFirst, ReceiptsServed, Made, Served
<1>12. Lasting
  BY <1>1, <1>2, KeptLasts
<1> QED
  BY <1>6, <1>9, <1>10, <1>11, <1>12 DEF PubInv

LEMMA RegistryIndexStep ==
    ASSUME PubInv, NEW p \in Publisher, RegistryIndex(p)
    PROVE  PubInv' /\ Lasting
<1> USE DEF RegistryIndex
<1>1. PublicationTypeOK
  BY DEF PubInv
<1>2. UNCHANGED <<repository, listed, built, madeFor, manifest, receipt, job>>
  OBVIOUS
<1>3. /\ Made(manifest[p], receipt[p].build)
      /\ Served(manifest[p], receipt[p].build)
  BY DEF PubInv, ReceiptsServed, ReceiptFits
<1>4. \A v \in Version : index'[v] = IF v = manifest[p] THEN receipt[p].build
                                                      ELSE index[v]
  BY <1>1 DEF PublicationTypeOK
<1>5. receipt[p].build \in Build
  BY <1>1, <1>3, PublicationAssumption DEF Made, PublicationTypeOK, Build
<1>6. PublicationTypeOK'
  BY <1>1, <1>2, <1>5 DEF PublicationTypeOK
<1>7. IndexServed'
  BY <1>2, <1>3, <1>4 DEF PubInv, IndexServed, Made, Served
<1>8. FilesMade' /\ ZipFirst' /\ JobsMade' /\ JobsUploaded' /\ ListsComplete'
      /\ ReceiptsServed'
  BY <1>2 DEF PubInv, FilesMade, ZipFirst, JobsMade, JobsUploaded, ListsComplete,
              ReceiptsServed, Made, Served, Complete
<1>9. Lasting
  BY <1>1, <1>2, KeptLasts
<1> QED
  BY <1>6, <1>7, <1>8, <1>9 DEF PubInv

\* No file, list or job is touched.
LEMMA IdleStep ==
    ASSUME PubInv, manifest' \in [Publisher -> Version],
           UNCHANGED <<repository, listed, index, built, madeFor, receipt, job>>
    PROVE  PubInv' /\ Lasting
<1>1. PublicationTypeOK
  BY DEF PubInv
<1>2. PublicationTypeOK'
  BY <1>1 DEF PublicationTypeOK
<1>3. FilesMade' /\ ZipFirst' /\ JobsMade' /\ JobsUploaded' /\ ListsComplete'
      /\ ReceiptsServed' /\ IndexServed'
  BY DEF PubInv, FilesMade, ZipFirst, JobsMade, JobsUploaded, ListsComplete,
         ReceiptsServed, IndexServed, Made, Served, Complete
<1>4. Lasting
  BY <1>1, KeptLasts
<1> QED
  BY <1>2, <1>3, <1>4 DEF PubInv

-----------------------------------------------------------------------------
(* The results *)

\* Every step keeps the invariant, and what was uploaded of an immutable version.
LEMMA PublicationStep == PubInv /\ [PublicationNext]_pubVars => PubInv' /\ Lasting
<1> SUFFICES ASSUME PubInv, [PublicationNext]_pubVars PROVE PubInv' /\ Lasting
  OBVIOUS
<1>1. manifest \in [Publisher -> Version]
  BY DEF PubInv, PublicationTypeOK
<1>2. CASE UNCHANGED pubVars
  BY <1>1, <1>2, IdleStep DEF pubVars
<1>3. ASSUME NEW p \in Publisher, NEW v \in Version, EditManifest(p, v)
      PROVE  PubInv' /\ Lasting
  BY <1>1, <1>3, IdleStep DEF EditManifest
<1>4. CASE PublicationNext
  BY <1>3, <1>4, StartStep, UploadStep, ListStep, CheckStep, ReceiptStep, IndexStep,
     RegistryIndexStep DEF PublicationNext
<1> QED
  BY <1>2, <1>4

LEMMA PubInvImplies == PubInv => PublicationTypeOK /\ ListedIsWhole /\ IndexIsServed
<1> SUFFICES ASSUME PubInv
             PROVE  PublicationTypeOK /\ ListedIsWhole /\ IndexIsServed
  OBVIOUS
<1>1. ListedIsWhole
  <2>1. listed \subseteq Version
    BY DEF PubInv, PublicationTypeOK
  <2> QED
    BY <2>1 DEF PubInv, ListsComplete, Complete, ZipFirst, ListedIsWhole
<1>2. IndexIsServed
  BY DEF PubInv, IndexServed, Made, Served, IndexIsServed
<1> QED
  BY <1>1, <1>2 DEF PubInv

\* With any number of publishers: what maven-metadata.xml lists is there, all of
\* one build if it is immutable, and the registry has its checksum
\* (publish_to_repository, create_registry_index_payload).
THEOREM PublicationIsSound ==
    PublicationSpec => [](PublicationTypeOK /\ ListedIsWhole /\ IndexIsServed)
<1>1. PubInv /\ [PublicationNext]_pubVars => PubInv'
  BY PublicationStep
<1> QED
  BY PublicationBegins, <1>1, PubInvImplies, PTL DEF PublicationSpec
=============================================================================
