-------------------------- MODULE RuntimePrefixProofs --------------------------
(***************************************************************************)
(* What commands leave in a runtime prefix, when they run one after the    *)
(* other and faults strike where the except clause or the journal covers   *)
(* them.  Payloads, bin and their backups are only consistent between      *)
(* commands; at every step in between the invariant says what has been     *)
(* moved where since the activation began, and, of a command that was      *)
(* stopped, that its journal says so too.                                  *)
(***************************************************************************)
EXTENDS RuntimeActivationProofs

-----------------------------------------------------------------------------
(* Which faults are covered                                                   *)

\* The steps at which an error finds an except clause or a recovery that undoes
\* all that was done.
ErrorCovered == {"script", "recoverBin", "recoverBackup", "prepare", "promote", "place",
                 "journalPromoted", "swap", "switch", "journalSwitched", "archive",
                 "receipt", "drop", "archiveActive", "swapBack"}

\* The steps before which the journal on disk is that of what was done.
StopCovered == {"script", "recoverBin", "recoverBackup", "prepare", "swap", "archive",
                "receipt", "unlink", "drop", "archiveActive", "swapBack"}

\* Commands one after the other, faults where journal and handlers cover them,
\* and graphs that have one payload per package and version, as the resolver
\* makes them.
Covered == /\ Orderly
           /\ ErrorAt \subseteq ErrorCovered
           /\ InterruptAt \cup KillAt \subseteq StopCovered
           /\ \A g \in Graphs : \A i, j \in DOMAIN g : PathOf(g[i]) = PathOf(g[j]) => i = j

Whole(content, g) == \A path \in Paths(g) : content[path] # None

\* What the receipt and the newest archived generation name is there.
Settled(content, links) ==
    /\ receipt # None => links = Links(receipt.graph) /\ Whole(content, receipt.graph)
    /\ \A n \in Archived : n <= Gen(receipt)
    /\ \A n \in Archived : /\ receipt # None
                           /\ (\A m \in Archived : m <= n) => Whole(content, archive[n])

\* No backups are left that an activation of generation k or later would find.
CleanFrom(k) ==
    \A n \in Generation : n >= k => binBackup[n] = None /\ payloadBackup[n] = Nothing

Calm == Settled(payload, bin) /\ CleanFrom(Gen(receipt))

\* Since the activation began, new payloads came, and replaced ones were set aside.
Moved(promoted, replaced) ==
    /\ Settled(before.payload, before.bin) /\ CleanFrom(Gen(receipt) + 1)
    /\ \A path \in Path :
          /\ path \notin promoted \cup replaced => payload[path] = before.payload[path]
          /\ path \in promoted \ replaced => before.payload[path] = None
          /\ path \in replaced => before.payload[path] # None
          /\ payloadBackup[Gen(receipt)][path] = IF path \in replaced
                                                 THEN before.payload[path] ELSE None

OldBin == bin = before.bin /\ binBackup[Gen(receipt)] = None

NewBin(swapped) ==
    binBackup[Gen(receipt)] = before.bin /\ (swapped <=> before.bin # None)

\* The promoted payloads are in place, and their staging directory is free.
Out(promoted, s) ==
    \A path \in promoted : Present(path) /\ stages[s].payload[path] = None

\* What a journal tells the recovery.
JournalSound ==
    /\ journal # None /\ journal.phase \in {"payloads-promoted", "bin-activated"}
    /\ journal.generation = Gen(receipt) + 1
    /\ journal.replaced \subseteq journal.promoted
    /\ stages[journal.stage].status = "ready"

PromotedOut ==
    Moved(journal.promoted, journal.replaced) /\ Out(journal.promoted, journal.stage)

Unrecovered ==
    /\ JournalSound /\ PromotedOut
    /\ IF journal.phase = "payloads-promoted" THEN OldBin ELSE NewBin(journal.binBackup)

Written == receipt # None /\ receipt.generation = journal.generation /\ Calm

\* What a command may find that has not yet taken the lock to activate.
Left == \/ journal = None /\ Calm
        \/ journal # None /\ journal.phase = "receipt-written" /\ Written
        \/ Unrecovered

RecoveryInv(place) ==
    /\ place \in {"recoverBin", "recoverBackup"}
          => Unrecovered /\ journal.phase = "bin-activated"
    /\ place = "recoverBackup" => bin = None
    /\ place \in {"recoverPromoted", "recoverReplaced"}
          => JournalSound /\ Moved(journal.promoted, journal.replaced) /\ OldBin
    /\ place = "recoverPromoted" => Out(journal.promoted, journal.stage)
    /\ place = "recoverReplaced" => \A path \in journal.promoted : ~Present(path)
    /\ place = "recovered"
          => /\ payload = before.payload /\ bin = before.bin
             /\ Calm

Promoting == {"promote", "place"}

\* What has been promoted, and that it was the graph's payloads in their order.
PromotionInv(place, c) ==
    /\ Out(c.promoted, c.stage)
    /\ c.replaced # {} => c.mode = "reinstall"
    /\ place # "place" => c.replaced \subseteq c.promoted
    /\ place = "place"
          => /\ c.replaced \subseteq c.promoted \cup {PathOf(c.graph[c.next])}
             /\ PathOf(c.graph[c.next]) \in c.replaced \ c.promoted
    /\ place \in Promoting
          => \A path \in c.promoted : \E i \in 1..(c.next - 1) : path = PathOf(c.graph[i])
    /\ \A i \in DOMAIN c.graph :
          \/ Present(PathOf(c.graph[i]))
          \/ place \in Promoting /\ i >= c.next

BinInv(place, c) ==
    IF place \in Promoting \cup {"journalPromoted", "swap"}
    THEN OldBin /\ ~c.swapped
    ELSE NewBin(c.swapped) /\ bin = IF place = "switch" THEN None ELSE Links(c.graph)

\* The journal is that of the last step that wrote it.
JournalOf(place, c) ==
    /\ journal.stage = c.stage /\ journal.generation = Gen(receipt) + 1
    /\ place \in {"swap", "switch", "journalSwitched"}
          => journal.phase = "payloads-promoted"
    /\ place \in {"archive", "receipt"}
          => journal.phase = "bin-activated" /\ journal.binBackup = c.swapped
    /\ place \in {"swap", "switch", "journalSwitched", "archive", "receipt"}
          => journal.promoted = c.promoted /\ journal.replaced = c.replaced

UnderwayInv(place, c) ==
    /\ journal # None /\ Moved(c.promoted, c.replaced)
    /\ PromotionInv(place, c) /\ BinInv(place, c) /\ JournalOf(place, c)
    /\ place = "receipt" /\ receipt # None
          => archive[Gen(receipt)] = receipt.graph

\* A rollback has checked its target's payloads; until it moves bin it changed
\* nothing, and afterwards its target is all there.
RollbackInv(place, c) ==
    /\ journal = None /\ receipt # None
    /\ Whole(payload, c.graph) /\ Whole(payload, receipt.graph)
    /\ \A n \in Archived : n <= Gen(receipt)
    /\ CleanFrom(Gen(receipt) + 1)
    /\ place \in {"archiveActive", "swapBack"} => Calm
    /\ place # "archiveActive" => archive[Gen(receipt)] = receipt.graph
    /\ place = "receiptBack" => bin = Links(c.graph)

StageInv(place, c) ==
    /\ place = "select" => c.stage = 0
    /\ place = "stage" /\ c.stage # 0 => stages[c.stage].status # "ready"
    /\ place = "script" => stages[c.stage].status = "staging"
    /\ place \in {"activate", "prepare"} \cup Recovering \cup Underway
          => stages[c.stage].status = "ready"
    /\ place \in {"select", "stage", "script", "activate", "prepare"} \cup Recovering
          => c.promoted = {} /\ c.replaced = {} /\ ~c.swapped

PlaceInv(place, c) ==
    /\ place \in {"idle", "select", "stage", "script", "activate"} => Left
    /\ place \in {"prepare", "collect", "drop", "rollback", "uninstall"}
          => journal = None /\ Calm
    /\ place \in Recovering => RecoveryInv(place)
    /\ place \in Underway => UnderwayInv(place, c)
    /\ place \in {"finish", "unlink"} => journal # None /\ Written
    /\ place = "unlink" => journal.phase = "receipt-written"
    /\ place \in RollingBack => RollbackInv(place, c)
    /\ place \in Removing => journal = None
    /\ place = "removeReceipt" => Archived = {} /\ CleanFrom(0)
    /\ StageInv(place, c)

BeforeOK == before \in [payload: Contents, bin: LinkSets]

PrefixInv(p) == BeforeOK /\ PlaceInv(pc[p], cmd[p])

-----------------------------------------------------------------------------
(* What the invariant looks at, and what leaves it alone *)

\* The files that only mutators change.
files == <<payload, bin, receipt, archive, binBackup, payloadBackup>>

LEMMA FilesKept ==
    ASSUME UNCHANGED files
    PROVE  /\ Calm => Calm'
           /\ journal' = journal /\ Written => Written'
           /\ UNCHANGED before
                 => /\ \A P, R \in SUBSET Path : Moved(P, R) => Moved(P, R)'
                    /\ OldBin => OldBin'
                    /\ \A b \in BOOLEAN : NewBin(b) => NewBin(b)'
<1> USE DEF files
<1>1. \A content, links : Settled(content, links) => Settled(content, links)'
  BY DEF Settled, Archived, Gen, Whole
<1>2. \A k : CleanFrom(k) => CleanFrom(k)'
  BY DEF CleanFrom
<1>3. Calm => Calm'
  BY <1>1, <1>2 DEF Calm, Gen
<1>4. journal' = journal /\ Written => Written'
  BY <1>3 DEF Written
<1>5. ASSUME UNCHANGED before, NEW P \in SUBSET Path, NEW R \in SUBSET Path, Moved(P, R)
      PROVE  Moved(P, R)'
  BY <1>1, <1>2, <1>5 DEF Moved, Gen
<1>6. UNCHANGED before => /\ OldBin => OldBin'
                          /\ \A b \in BOOLEAN : NewBin(b) => NewBin(b)'
  BY DEF OldBin, NewBin, Gen
<1> QED
  BY <1>3, <1>4, <1>5, <1>6

\* A journal that is left over survives what commands do to other stages.
LEMMA LeftKept ==
    ASSUME TypeInv, UNCHANGED <<files, journal, before>>, Left,
           JournalSound => stages'[journal.stage] = stages[journal.stage]
    PROVE  Left'
<1>1. CASE journal = None /\ Calm
  BY <1>1, FilesKept DEF Left
<1>2. CASE journal # None /\ journal.phase = "receipt-written" /\ Written
  BY <1>2, FilesKept DEF Left
<1>3. CASE Unrecovered
  <2>1. /\ JournalSound /\ journal \in Journal
        /\ journal.promoted \in SUBSET Path /\ journal.replaced \in SUBSET Path
        /\ journal.binBackup \in BOOLEAN
    BY <1>3 DEF Unrecovered, JournalSound, TypeInv, FilesOK, Journal
  <2>2. JournalSound'
    BY <2>1 DEF JournalSound, Gen, files
  <2>3. Moved(journal.promoted, journal.replaced)'
    BY <1>3, <2>1, FilesKept DEF Unrecovered, PromotedOut
  <2>4. Out(journal.promoted, journal.stage)'
    BY <1>3, <2>1 DEF Unrecovered, PromotedOut, Out, Present, files
  <2>5. (IF journal.phase = "payloads-promoted" THEN OldBin ELSE NewBin(journal.binBackup))'
    BY <1>3, <2>1, FilesKept DEF Unrecovered
  <2> QED
    BY <2>2, <2>3, <2>4, <2>5 DEF Left, Unrecovered, PromotedOut
<1> QED
  BY <1>1, <1>2, <1>3 DEF Left

\* Where the process then is, and with what.
LEMMA Arrives ==
    ASSUME TypeInv, NEW p \in Proc, NEW to, NEW c,
           pc' = [pc EXCEPT ![p] = to], cmd' = [cmd EXCEPT ![p] = c],
           BeforeOK', PlaceInv(to, c)'
    PROVE  PrefixInv(p)'
<1>1. pc'[p] = to /\ cmd'[p] = c
  BY DEF TypeInv, LockInv, LockTypeOK, CommandsOK
<1> QED
  BY <1>1 DEF PrefixInv

\* A command that ends leaves the prefix to the next one.
LEMMA Rests ==
    ASSUME TypeInv, NEW p \in Proc, End(p), BeforeOK', Left' PROVE PrefixInv(p)'
<1>1. PlaceInv("idle", NoCommand)'
  BY DEF PlaceInv, StageInv, Recovering, Underway, Tried, RollingBack, Removing
<1> QED
  BY <1>1, Arrives DEF End

\* What a command is begun and refused with.
LEMMA CommandsKeepPrefix ==
    ASSUME TypeInv, NEW p \in Proc, PrefixInv(p), Orderly, Commanded(p) \/ Refused(p)
    PROVE  PrefixInv(p)'
<1>1. UNCHANGED <<files, journal, stages, before>>
  BY DEF Commanded, Deploy, Resume, Rollback, Uninstall, Start, Refused, active, retained,
         files
<1>2. BeforeOK' /\ (Left => Left') /\ (journal = None /\ Calm => Left')
  BY <1>1, LeftKept, FilesKept DEF PrefixInv, BeforeOK, Left
<1>3. ASSUME NEW to \in {"stage", "select", "rollback", "uninstall"}, NEW c,
             Start(p, to, c), to \in {"rollback", "uninstall"} => journal = None,
             c.stage = 0, c.promoted = {}, c.replaced = {}, ~c.swapped
      PROVE  PrefixInv(p)'
  <2>1. Left /\ pc' = [pc EXCEPT ![p] = to] /\ cmd' = [cmd EXCEPT ![p] = c]
    BY <1>3 DEF Start, Goto, PrefixInv, PlaceInv
  <2>2. Left' /\ (to \in {"rollback", "uninstall"} => journal' = None /\ Calm')
    BY <1>1, <1>2, <1>3, <2>1, FilesKept DEF Left, Unrecovered, JournalSound
  <2>3. PlaceInv(to, c)'
    BY <1>3, <2>2 DEF PlaceInv, StageInv, Recovering, Underway, Tried, RollingBack, Removing
  <2> QED
    BY <1>2, <2>1, <2>3, Arrives
<1>4. CASE Refused(p)
  <2>1. End(p) /\ pc[p] \in {"stage", "activate", "collect", "rollback", "uninstall"}
    BY <1>4 DEF Refused
  <2>2. Left \/ (journal = None /\ Calm)
    BY <2>1 DEF PrefixInv, PlaceInv
  <2> QED
    BY <1>2, <2>1, <2>2, Rests
<1> DEFINE Bare(c) == c.stage = 0 /\ c.promoted = {} /\ c.replaced = {} /\ ~c.swapped
<1>5. /\ \A mode, g : Bare([NoCommand EXCEPT !.mode = mode, !.graph = g])
      /\ \A g, prior : Bare([NoCommand EXCEPT !.graph = g, !.prior = prior])
      /\ Bare(NoCommand)
  BY DEF NoCommand
<1>6. CASE Commanded(p)
  <2>1. ASSUME NEW mode, NEW g,
               \E to \in {"stage", "select"} :
                  Start(p, to, [NoCommand EXCEPT !.mode = mode, !.graph = g])
        PROVE  PrefixInv(p)'
    <3> DEFINE c == [NoCommand EXCEPT !.mode = mode, !.graph = g]
    <3>1. PICK to \in {"stage", "select"} : Start(p, to, c)
      BY <2>1
    <3>2. Bare(c)
      BY <1>5
    <3> HIDE DEF c
    <3> QED
      BY <1>3, <3>1, <3>2
  <2>2. CASE \/ \E mode \in Modes, g \in Graphs : Deploy(p, mode, g)
             \/ \E mode \in Modes \cup {"resume"}, g \in Graphs : Resume(p, mode, g)
    BY <2>1, <2>2 DEF Deploy, Resume
  <2>3. CASE \E n \in Generation : Rollback(p, n)
    <3>1. PICK n \in Generation : Rollback(p, n)
      BY <2>3
    <3> DEFINE c == [NoCommand EXCEPT !.graph = archive[n], !.prior = receipt]
    <3>2. Start(p, "rollback", c) /\ journal = None
      BY <3>1 DEF Rollback, Quiet
    <3>3. Bare(c)
      BY <1>5
    <3> HIDE DEF c
    <3> QED
      BY <1>3, <3>2, <3>3
  <2>4. CASE Uninstall(p)
    BY <1>3, <1>5, <2>4 DEF Uninstall, Quiet
  <2> QED
    BY <1>6, <2>2, <2>3, <2>4 DEF Commanded
<1> QED
  BY <1>4, <1>6

\* What staging does to a directory that is not ready concerns no journal.
LEMMA StagingKeepsLeft ==
    ASSUME TypeInv, UNCHANGED <<files, journal, before>>, Left,
           NEW s, s \in 1..Len(stages) => stages[s].status # "ready",
           \A t \in 1..Len(stages) : t # s => stages'[t] = stages[t]
    PROVE  Left'
<1>1. JournalSound => journal.stage \in 1..Len(stages) /\ journal.stage # s
  BY FaultsAssumption DEF JournalSound, TypeInv, FilesOK, JournalOK, Journal, StagesOK
<1> QED
  BY <1>1, LeftKept

LEMMA StagingKeepsPrefix ==
    ASSUME TypeInv, NEW p \in Proc, PrefixInv(p), Stages(p) PROVE PrefixInv(p)'
<1> DEFINE s == cmd[p].stage
<1>1. UNCHANGED <<files, journal, before>>
  BY DEF Stages, Select, BeginStage, StageItem, StageLast, StageOccupied, active, retained,
         files
<1>2. BeforeOK'
  BY <1>1 DEF PrefixInv, BeforeOK
<1>3. pc[p] \in {"select", "stage", "script"}
  BY DEF Stages, Select, SelectNone, SelectReady, SelectUnready, BeginStage, StageItem,
         StageLast, StageOccupied, Goto
<1>4. Left /\ StageInv(pc[p], cmd[p])
  BY <1>3 DEF PrefixInv, PlaceInv
<1>5. /\ cmd[p].promoted = {} /\ cmd[p].replaced = {} /\ ~cmd[p].swapped
      /\ pc[p] = "select" => s = 0
      /\ pc[p] = "stage" /\ s # 0 => stages[s].status # "ready"
      /\ pc[p] = "script" => stages[s].status = "staging"
  BY <1>3, <1>4 DEF StageInv
<1>6. /\ cmd[p] \in Command /\ stages \in Seq(Stage)
      /\ cmd = [cmd EXCEPT ![p] = cmd[p]] /\ pc = [pc EXCEPT ![p] = pc[p]]
  BY Arguments DEF TypeInv, StagesOK
<1>7. ASSUME NEW to \in {"select", "stage", "script", "activate"}, NEW c, Left',
             pc' = [pc EXCEPT ![p] = to], cmd' = [cmd EXCEPT ![p] = c],
             c.promoted = {} /\ c.replaced = {} /\ ~c.swapped,
             to = "select" => c.stage = 0,
             to = "stage" /\ c.stage # 0 => stages'[c.stage].status # "ready",
             to = "script" => stages'[c.stage].status = "staging",
             to = "activate" => stages'[c.stage].status = "ready"
      PROVE  PrefixInv(p)'
  <2>1. PlaceInv(to, c)'
    BY <1>7 DEF PlaceInv, StageInv, Recovering, Underway, Tried, RollingBack, Removing
  <2> QED
    BY <1>2, <1>7, <2>1, Arrives
<1>8. CASE Select(p)
  <2>1. pc[p] = "select" /\ s = 0
    BY <1>5, <1>8 DEF Select
  <2>2. CASE SelectNone(p)
    <3>1. Left'
      BY <1>1, <1>4, <2>2, LeftKept DEF SelectNone
    <3> QED
      BY <1>2, <1>5, <1>6, <1>7, <2>1, <2>2, <3>1, Rests DEF SelectNone, Goto
  <2>3. ASSUME NEW d \in Matches(cmd[p].graph), SelectReady(p, d)
        PROVE  PrefixInv(p)'
    <3>1. Left' /\ stages'[d].status = "ready"
      BY <1>1, <1>4, <2>3, LeftKept DEF SelectReady
    <3>2. cmd' = [cmd EXCEPT ![p] = [cmd[p] EXCEPT !.stage = d]]
      BY <1>6, <2>3 DEF SelectReady, Command
    <3> DEFINE c == [cmd[p] EXCEPT !.stage = d]
    <3>3. c.stage = d /\ c.promoted = {} /\ c.replaced = {} /\ ~c.swapped
      BY <1>5, <1>6 DEF Command
    <3> HIDE DEF c
    <3> QED
      BY <1>7, <2>3, <3>1, <3>2, <3>3 DEF SelectReady, Goto, c
  <2>4. ASSUME NEW d \in Matches(cmd[p].graph), SelectUnready(p, d)
        PROVE  PrefixInv(p)'
    <3>1. d \in 1..Len(stages) /\ stages[d].status # "ready"
      BY <1>6, <2>4 DEF SelectUnready, Matches
    <3>2. stages'[d].status # "ready"
      BY <1>6, <2>4, <3>1 DEF SelectUnready, Stage
    <3>3. \A t \in 1..Len(stages) : t # d => stages'[t] = stages[t]
      BY <1>6, <2>4, <3>1 DEF SelectUnready
    <3>4. Left'
      BY <1>1, <1>4, <3>1, <3>3, StagingKeepsLeft
    <3> DEFINE c == [cmd[p] EXCEPT !.stage = d]
    <3>5. cmd' = [cmd EXCEPT ![p] = c]
      BY <1>6, <2>4 DEF SelectUnready, Command
    <3>6. c.stage = d /\ c.promoted = {} /\ c.replaced = {} /\ ~c.swapped
      BY <1>5, <1>6 DEF Command
    <3> HIDE DEF c
    <3> QED
      BY <1>7, <2>4, <3>2, <3>4, <3>5, <3>6 DEF SelectUnready, Goto
  <2> QED
    BY <1>8, <2>2, <2>3, <2>4 DEF Select
<1>9. CASE BeginStage(p)
  <2>1. pc[p] = "stage" /\ pc' = [pc EXCEPT ![p] = "script"]
    BY <1>9 DEF BeginStage, Goto
  <2>2. CASE s = 0
    <3> DEFINE new == Len(stages) + 1
               c   == [cmd[p] EXCEPT !.stage = new]
    <3>1. /\ \A t \in 1..Len(stages) : stages'[t] = stages[t]
          /\ stages'[new].status = "staging"
      BY <1>6, <1>9, <2>2 DEF BeginStage
    <3>2. Left'
      BY <1>1, <1>4, <3>1, StagingKeepsLeft
    <3>3. cmd' = [cmd EXCEPT ![p] = c]
      BY <1>6, <1>9, <2>2 DEF BeginStage, Command
    <3>4. c.stage = new /\ c.promoted = {} /\ c.replaced = {} /\ ~c.swapped
      BY <1>5, <1>6 DEF Command
    <3> HIDE DEF new, c
    <3> QED
      BY <1>7, <2>1, <3>1, <3>2, <3>3, <3>4
  <2>3. CASE s # 0
    <3>1. s \in 1..Len(stages) /\ stages[s].status # "ready"
      BY <1>5, <2>1, <2>3, StageArguments
    <3>2. stages' = [stages EXCEPT ![s].status = "staging"] /\ UNCHANGED cmd
      BY <1>9, <2>3 DEF BeginStage
    <3>3. stages[s] \in Stage
      BY <1>6, <3>1
    <3>4. /\ \A t \in 1..Len(stages) : t # s => stages'[t] = stages[t]
          /\ stages'[s].status = "staging"
      BY <1>6, <3>1, <3>2, <3>3 DEF Stage
    <3>5. Left'
      BY <1>1, <1>4, <3>1, <3>4, StagingKeepsLeft
    <3> QED
      BY <1>5, <1>6, <1>7, <2>1, <3>2, <3>4, <3>5
  <2> QED
    BY <2>2, <2>3
<1>10. ASSUME pc[p] = "script"
       PROVE  s \in 1..Len(stages) /\ stages[s].status = "staging" /\ stages[s] \in Stage
  BY <1>5, <1>10, StageArguments DEF WithStage, Staged
<1>11. CASE StageItem(p)
  <2>1. pc[p] = "script" /\ UNCHANGED pc
    BY <1>11 DEF StageItem
  <2>2. /\ \A t \in 1..Len(stages) : t # s => stages'[t] = stages[t]
        /\ stages'[s].status = "staging"
    BY <1>6, <1>10, <1>11, <2>1 DEF StageItem, Stage
  <2>3. Left'
    BY <1>1, <1>4, <1>10, <2>1, <2>2, StagingKeepsLeft
  <2> DEFINE c == [cmd[p] EXCEPT !.next = @ + 1]
  <2>4. cmd' = [cmd EXCEPT ![p] = c]
    BY <1>6, <1>11 DEF StageItem, Command
  <2>5. c.stage = s /\ c.promoted = {} /\ c.replaced = {} /\ ~c.swapped
    BY <1>5, <1>6 DEF Command
  <2> HIDE DEF c
  <2> QED
    BY <1>6, <1>7, <2>1, <2>2, <2>3, <2>4, <2>5
<1>12. CASE StageLast(p)
  <2>1. pc[p] = "script" /\ (UNCHANGED cmd \/ End(p))
    BY <1>12 DEF StageLast
  <2> DEFINE built == [Staged(p).payload EXCEPT ![ItemPath(p)] = Item(p).artifact]
             whole == \A path \in Paths(cmd[p].graph) : built[path] # None
             st    == [stages[s] EXCEPT !.payload = built,
                                        !.status = IF whole THEN "ready"
                                                   ELSE Staged(p).status]
  <2>2. /\ stages' = [stages EXCEPT ![s] = st]
        /\ IF whole THEN Goto(p, "script", "activate") /\ UNCHANGED cmd ELSE End(p)
    BY <1>12 DEF StageLast
  <2>3. whole => st.status = "ready"
    BY <1>10, <2>1 DEF Stage
  <2> HIDE DEF st, built, whole
  <2>4. /\ \A t \in 1..Len(stages) : t # s => stages'[t] = stages[t]
        /\ stages'[s] = st
    BY <1>6, <1>10, <2>1, <2>2
  <2>5. Left'
    BY <1>1, <1>4, <1>10, <2>1, <2>4, StagingKeepsLeft
  <2>6. CASE whole
    BY <1>5, <1>6, <1>7, <2>2, <2>3, <2>4, <2>5, <2>6 DEF Goto
  <2>7. CASE ~whole
    BY <1>2, <2>2, <2>5, <2>7, Rests
  <2> QED
    BY <2>6, <2>7
<1>13. CASE StageOccupied(p)
  <2>1. Left'
    BY <1>1, <1>4, <1>13, LeftKept DEF StageOccupied
  <2> QED
    BY <1>2, <1>13, <2>1, Rests DEF StageOccupied, Leave
<1> QED
  BY <1>8, <1>9, <1>11, <1>12, <1>13 DEF Stages

-----------------------------------------------------------------------------
(* Undoing, by the recovery and by the except clause *)

\* Replaced payloads brought back over what is otherwise as it was before.
LEMMA RestoresBefore ==
    ASSUME TypeInv, BeforeOK, NEW P, NEW R \in SUBSET Path, Moved(P, R),
           NEW n, n = Gen(receipt), NEW from,
           \A path \in Path : path \notin R => from[path] = before.payload[path],
           RestoreReplaced(n, R, from)
    PROVE  /\ payload' = before.payload
           /\ payloadBackup'[n] = Nothing
           /\ \A m \in Generation : m # n => payloadBackup'[m] = payloadBackup[m]
<1> DEFINE back == {path \in R : payloadBackup[n][path] # None}
           kept == [path \in Path |-> IF path \in back THEN None
                                      ELSE payloadBackup[n][path]]
<1>1. n \in Generation /\ payloadBackup \in [Generation -> Contents]
  BY FaultsAssumption DEF TypeInv, FilesOK, Gen, Receipt, Generation
<1>2. /\ before.payload \in [Path -> Artifact \cup {None}]
      /\ \A path \in Path : payloadBackup[n][path] = IF path \in R THEN before.payload[path]
                                                     ELSE None
      /\ \A path \in R : before.payload[path] # None
  BY DEF BeforeOK, Contents, Moved
<1>3. back = R
  BY <1>2
<1>4. payload' = [path \in Path |-> IF path \in back THEN payloadBackup[n][path]
                                    ELSE from[path]]
  BY DEF RestoreReplaced
<1>5. payloadBackup' = [payloadBackup EXCEPT ![n] = kept]
  BY <1>1 DEF RestoreReplaced
<1>6. kept = Nothing
  BY <1>2, <1>3 DEF Nothing
<1> HIDE DEF kept
<1>7. \A path \in Path : payload'[path] = before.payload[path]
  BY <1>2, <1>3, <1>4
<1>8. payload' = before.payload
  BY <1>2, <1>4, <1>7
<1> QED
  BY <1>1, <1>5, <1>6, <1>8

\* With bin and payloads as they were and no backup left, the prefix is calm.
LEMMA CalmAgain ==
    ASSUME TypeInv, NEW P, NEW R, Moved(P, R), UNCHANGED <<receipt, archive>>,
           payload' = before.payload, bin' = before.bin,
           NEW n, n = Gen(receipt),
           binBackup'[n] = None, payloadBackup'[n] = Nothing,
           \A m \in Generation : m # n => /\ binBackup'[m] = binBackup[m]
                                          /\ payloadBackup'[m] = payloadBackup[m]
    PROVE  Calm'
<1>1. Settled(before.payload, before.bin) /\ CleanFrom(n + 1)
  BY DEF Moved
<1>2. Settled(payload, bin)'
  BY <1>1 DEF Settled, Archived, Gen, Whole
<1>3. Generation \subseteq Nat /\ n \in Generation
  BY FaultsAssumption DEF TypeInv, FilesOK, Gen, Receipt, Generation
<1>4. \A m \in Generation : m >= n => binBackup'[m] = None /\ payloadBackup'[m] = Nothing
  <2> SUFFICES ASSUME NEW m \in Generation, m >= n
               PROVE  binBackup'[m] = None /\ payloadBackup'[m] = Nothing
    OBVIOUS
  <2>1. m # n => m >= n + 1
    BY <1>3
  <2> QED
    BY <1>1, <2>1 DEF CleanFrom
<1>5. Gen(receipt)' = n
  BY DEF Gen
<1> QED
  BY <1>2, <1>4, <1>5 DEF Calm, CleanFrom

-----------------------------------------------------------------------------
(* Recovery *)

\* A journal goes when its receipt is active, or what was done is undone.
EndsWhole ==
    journal # None /\ journal' = None
        => \/ receipt # None /\ receipt.generation = journal.generation
           \/ payload' = before.payload /\ bin' = before.bin

LEMMA MovedKept ==
    ASSUME UNCHANGED <<payload, receipt, archive, payloadBackup, before>>,
           NEW P, NEW R, Moved(P, R),
           \A n \in Generation : n >= Gen(receipt) + 1 => binBackup'[n] = binBackup[n]
    PROVE  Moved(P, R)'
<1>1. \A content, links : Settled(content, links) => Settled(content, links)'
  BY DEF Settled, Archived, Gen, Whole
<1>2. CleanFrom(Gen(receipt) + 1)'
  BY DEF Moved, CleanFrom, Gen
<1> QED
  BY <1>1, <1>2 DEF Moved, Gen

LEMMA ActivateKeepsPrefix ==
    ASSUME TypeInv, NEW p \in Proc, PrefixInv(p), Activate(p)
    PROVE  PrefixInv(p)' /\ EndsWhole
<1>1. /\ UNCHANGED <<files, stages, cmd, before>> /\ pc[p] = "activate"
      /\ cmd' = [cmd EXCEPT ![p] = cmd[p]]
  BY Arguments DEF Activate, active, retained, files, Goto
<1>2. Left /\ StageInv("activate", cmd[p]) /\ BeforeOK /\ BeforeOK'
  BY <1>1 DEF PrefixInv, PlaceInv, BeforeOK
<1>3. /\ cmd[p].promoted = {} /\ cmd[p].replaced = {} /\ ~cmd[p].swapped
      /\ stages'[cmd[p].stage].status = "ready"
  BY <1>1, <1>2 DEF StageInv
<1>4. \A to \in {"prepare", "recoverBin", "recoverPromoted"} : StageInv(to, cmd[p])'
  BY <1>1, <1>3 DEF StageInv, Recovering, Underway, Tried
<1>5. CASE journal = None \/ journal.phase = "receipt-written"
  <2>1. pc' = [pc EXCEPT ![p] = "prepare"] /\ journal' = None
    BY <1>5 DEF Activate, Goto
  <2>2. Calm /\ (journal # None => Written)
    BY <1>2, <1>5 DEF Left, Unrecovered, JournalSound, Written
  <2>3. PlaceInv("prepare", cmd[p])'
    BY <1>1, <1>4, <2>1, <2>2, FilesKept
       DEF PlaceInv, Recovering, Underway, Tried, RollingBack, Removing
  <2> QED
    BY <1>1, <1>2, <2>1, <2>2, <2>3, Arrives DEF EndsWhole, Written
<1>6. CASE journal # None /\ journal.phase # "receipt-written"
  <2>1. UNCHANGED journal
    BY <1>6 DEF Activate
  <2>2. Unrecovered /\ Unrecovered'
    <3>1. Unrecovered /\ Left'
      BY <1>1, <1>2, <1>6, <2>1, LeftKept DEF Left
    <3> QED
      BY <1>6, <2>1, <3>1 DEF Left
  <2>3. CASE journal.phase = "bin-activated"
    <3>1. pc' = [pc EXCEPT ![p] = "recoverBin"]
      BY <1>6, <2>3 DEF Activate, Goto
    <3>2. PlaceInv("recoverBin", cmd[p])'
      BY <1>4, <2>1, <2>2, <2>3
         DEF PlaceInv, RecoveryInv, Recovering, Underway, Tried, RollingBack, Removing
    <3> QED
      BY <1>1, <1>2, <1>6, <2>1, <3>1, <3>2, Arrives DEF EndsWhole
  <2>4. CASE journal.phase = "payloads-promoted"
    <3>1. pc' = [pc EXCEPT ![p] = "recoverPromoted"]
      BY <1>6, <2>4 DEF Activate, Goto
    <3>2. (JournalSound /\ PromotedOut /\ OldBin)'
      BY <2>1, <2>2, <2>4 DEF Unrecovered
    <3>3. PlaceInv("recoverPromoted", cmd[p])'
      BY <1>4, <3>2 DEF PlaceInv, RecoveryInv, PromotedOut, Recovering, Underway, Tried,
                        RollingBack, Removing
    <3> QED
      BY <1>1, <1>2, <1>6, <2>1, <3>1, <3>3, Arrives DEF EndsWhole
  <2> QED
    BY <2>2, <2>3, <2>4 DEF Unrecovered, JournalSound
<1> QED
  BY <1>5, <1>6

LEMMA RecoveryKeepsPrefix ==
    ASSUME TypeInv, NEW p \in Proc, PrefixInv(p), Recovers(p)
    PROVE  PrefixInv(p)' /\ EndsWhole
<1> DEFINE n == journal.generation - 1
           s == journal.stage
           P == journal.promoted
           R == journal.replaced
<1>1. pc[p] \in Recovering
  BY DEF Recovers, RecoverBin, RecoverBackup, RecoverPromoted, RecoverReplaced, Recovered,
         RecoveryFails, Goto, Recovering
<1>2. /\ journal \in Journal /\ journal # None /\ s \in 1..Len(stages) /\ stages[s] \in Stage
      /\ P \subseteq Path /\ R \subseteq Path
  BY <1>1, JournalArguments
<1>3. /\ UNCHANGED <<receipt, archive, before, cmd>> \/ RecoveryFails(p)
      /\ UNCHANGED journal \/ Recovered(p)
  BY DEF Recovers, RecoverBin, RecoverBackup, RecoverPromoted, RecoverReplaced, Recovered,
         RecoveryFails, active, retained
<1>4. RecoveryInv(pc[p]) /\ StageInv(pc[p], cmd[p]) /\ BeforeOK
  BY <1>1 DEF PrefixInv, PlaceInv
<1>5. /\ cmd[p].promoted = {} /\ cmd[p].replaced = {} /\ ~cmd[p].swapped
      /\ stages[cmd[p].stage].status = "ready"
  BY <1>1, <1>4 DEF StageInv
<1>6. /\ stages \in Seq(Stage) /\ payload \in Contents /\ bin \in LinkSets
      /\ payloadBackup \in [Generation -> Contents] /\ binBackup \in [Generation -> LinkSets]
      /\ cmd = [cmd EXCEPT ![p] = cmd[p]]
      /\ cmd[p].stage \in 1..Len(stages)
      /\ Gen(receipt) \in Generation /\ Generation \subseteq Nat
  BY <1>1, StageArguments, Arguments, GenerationFacts
     DEF TypeInv, StagesOK, FilesOK, WithStage
<1>7. ASSUME NEW to \in Recovering \cup {"prepare"}, pc' = [pc EXCEPT ![p] = to],
             UNCHANGED <<before, cmd>>,
             \A t \in 1..Len(stages) : stages'[t].status = stages[t].status,
             to = "prepare" => (journal = None /\ Calm)',
             to \in Recovering => RecoveryInv(to)'
      PROVE  PrefixInv(p)'
  <2>1. StageInv(to, cmd[p])'
    BY <1>5, <1>6, <1>7 DEF StageInv, Recovering, Underway, Tried
  <2>2. PlaceInv(to, cmd[p])'
    BY <1>7, <2>1 DEF PlaceInv, Recovering, Underway, Tried, RollingBack, Removing
  <2> QED
    BY <1>4, <1>6, <1>7, <2>2, Arrives DEF BeforeOK
<1>8. ASSUME UNCHANGED <<receipt, journal>>, JournalSound,
             \A t \in 1..Len(stages) : stages'[t].status = stages[t].status
      PROVE  JournalSound'
  BY <1>2, <1>8 DEF JournalSound, Gen
<1>9. CASE RecoverBin(p)
  <2>1. /\ pc[p] = "recoverBin" /\ pc' = [pc EXCEPT ![p] = "recoverBackup"] /\ bin' = None
        /\ UNCHANGED <<payload, receipt, archive, binBackup, payloadBackup, journal, cmd,
                       before>>
    BY <1>9 DEF RecoverBin, Goto, retained
  <2>2. \A t \in 1..Len(stages) : /\ stages'[t].status = stages[t].status
                                  /\ stages'[t].payload = stages[t].payload
    BY <1>2, <1>6, <1>9 DEF RecoverBin, Stage
  <2>3. Unrecovered /\ journal.phase = "bin-activated"
    BY <1>4, <2>1 DEF RecoveryInv
  <2>4. JournalSound' /\ Moved(P, R)'
    BY <1>8, <2>1, <2>2, <2>3, MovedKept DEF Unrecovered, PromotedOut
  <2>5. Out(P, s)' /\ NewBin(journal.binBackup)'
    BY <1>2, <2>1, <2>2, <2>3 DEF Unrecovered, PromotedOut, Out, Present, NewBin, Gen
  <2>6. RecoveryInv("recoverBackup")'
    BY <2>1, <2>3, <2>4, <2>5 DEF RecoveryInv, Unrecovered, PromotedOut
  <2> QED
    BY <1>2, <1>7, <2>1, <2>2, <2>6 DEF Recovering, EndsWhole
<1>10. CASE RecoverBackup(p)
  <2>1. /\ pc[p] = "recoverBackup" /\ pc' = [pc EXCEPT ![p] = "recoverPromoted"]
        /\ UNCHANGED <<payload, receipt, archive, payloadBackup, journal, cmd, stages, before>>
        /\ IF journal.binBackup /\ binBackup[n] # None
           THEN bin' = binBackup[n] /\ binBackup' = [binBackup EXCEPT ![n] = None]
           ELSE UNCHANGED <<bin, binBackup>>
    BY <1>10 DEF RecoverBackup, Goto
  <2>2. Unrecovered /\ journal.phase = "bin-activated" /\ bin = None
    BY <1>4, <2>1 DEF RecoveryInv
  <2>3. n = Gen(receipt)
    BY <1>6, <2>2 DEF Unrecovered, JournalSound
  <2>4. binBackup[n] = before.bin /\ (journal.binBackup <=> before.bin # None)
    BY <2>2, <2>3 DEF Unrecovered, NewBin
  <2>5. OldBin'
    BY <1>6, <2>1, <2>2, <2>3, <2>4 DEF OldBin, Gen
  <2>6. JournalSound' /\ Moved(P, R)'
    <3>1. \A m \in Generation : m >= Gen(receipt) + 1 => binBackup'[m] = binBackup[m]
      BY <1>6, <2>1, <2>3
    <3> QED
      BY <1>8, <2>1, <2>2, <3>1, MovedKept DEF Unrecovered, PromotedOut
  <2>7. Out(P, s)'
    BY <2>1, <2>2 DEF Unrecovered, PromotedOut, Out, Present
  <2>8. RecoveryInv("recoverPromoted")'
    BY <2>1, <2>5, <2>6, <2>7 DEF RecoveryInv
  <2> QED
    BY <1>2, <1>7, <2>1, <2>8 DEF Recovering, EndsWhole
<1>11. CASE RecoverPromoted(p)
  <2> DEFINE back == {path \in P : Present(path)}
             was  == stages[s].payload
             now  == [path \in Path |-> IF path \in back THEN payload[path] ELSE was[path]]
  <2>1. /\ pc[p] = "recoverPromoted" /\ pc' = [pc EXCEPT ![p] = "recoverReplaced"]
        /\ payload' = [path \in Path |-> IF path \in back THEN None ELSE payload[path]]
        /\ stages' = [stages EXCEPT ![s].payload = now]
        /\ UNCHANGED <<bin, receipt, archive, binBackup, payloadBackup, journal, cmd, before>>
    BY <1>11 DEF RecoverPromoted, Goto, retained
  <2>2. JournalSound /\ Moved(P, R) /\ OldBin /\ Out(P, s)
    BY <1>4, <2>1 DEF RecoveryInv
  <2>3. back = P /\ R \subseteq P
    BY <2>2 DEF Out, JournalSound
  <2> HIDE DEF now
  <2>4. \A t \in 1..Len(stages) : stages'[t].status = stages[t].status
    BY <1>2, <1>6, <2>1 DEF Stage
  <2>5. \A path \in Path : payload'[path] = IF path \in P THEN None ELSE payload[path]
    BY <2>1, <2>3
  <2>6. Moved(P, R)'
    <3>1. \A content, links : Settled(content, links) => Settled(content, links)'
      BY <2>1 DEF Settled, Archived, Gen, Whole
    <3>2. CleanFrom(Gen(receipt) + 1)'
      BY <2>1, <2>2 DEF Moved, CleanFrom, Gen
    <3>3. Gen(receipt)' = Gen(receipt)
      BY <2>1 DEF Gen
    <3> QED
      BY <2>1, <2>2, <2>3, <2>5, <3>1, <3>2, <3>3 DEF Moved
  <2>7. JournalSound' /\ OldBin'
    BY <1>8, <2>1, <2>2, <2>4 DEF OldBin, Gen
  <2>8. (\A path \in P : ~Present(path))'
    BY <1>2, <2>1, <2>5 DEF Present
  <2>9. RecoveryInv("recoverReplaced")'
    BY <2>1, <2>6, <2>7, <2>8 DEF RecoveryInv
  <2> QED
    BY <1>2, <1>7, <2>1, <2>4, <2>9 DEF Recovering, EndsWhole
<1>12. CASE RecoverReplaced(p)
  <2>1. /\ pc[p] = "recoverReplaced" /\ pc' = [pc EXCEPT ![p] = "recovered"]
        /\ RestoreReplaced(n, R, payload)
        /\ UNCHANGED <<bin, receipt, archive, binBackup, journal, cmd, stages, before>>
    BY <1>12 DEF RecoverReplaced, Goto
  <2>2. /\ JournalSound /\ Moved(P, R) /\ OldBin
        /\ \A path \in P : payload[path] = None
    BY <1>4, <2>1 DEF RecoveryInv, Present
  <2>3. n = Gen(receipt) /\ R \subseteq P
    <3>1. journal.generation = Gen(receipt) + 1 /\ R \subseteq P
      BY <2>2 DEF JournalSound
    <3>2. Gen(receipt) \in Nat
      BY <1>6
    <3> QED
      BY <3>1, <3>2
  <2>4. \A path \in Path : payload[path] = IF path \in R THEN None ELSE before.payload[path]
    BY <1>2, <2>2, <2>3 DEF Moved
  <2>5. /\ payload' = before.payload
        /\ payloadBackup'[n] = Nothing
        /\ \A m \in Generation : m # n => payloadBackup'[m] = payloadBackup[m]
    <3>1. R \in SUBSET Path
      BY <1>2
    <3>2. \A path \in Path : path \notin R => payload[path] = before.payload[path]
      BY <2>4
    <3> HIDE DEF n, P, R
    <3> QED
      BY <1>4, <2>1, <2>2, <2>3, <3>1, <3>2, RestoresBefore
  <2>6. Calm'
    <3>1. binBackup'[n] = None /\ bin' = before.bin
      BY <2>1, <2>2, <2>3 DEF OldBin
    <3>2. \A m \in Generation : m # n => /\ binBackup'[m] = binBackup[m]
                                          /\ payloadBackup'[m] = payloadBackup[m]
      BY <2>1, <2>5
    <3> HIDE DEF n, P, R
    <3> QED
      BY <2>1, <2>2, <2>3, <2>5, <3>1, <3>2, CalmAgain
  <2>7. bin' = before.bin
    BY <2>1, <2>2 DEF OldBin
  <2>8. RecoveryInv("recovered")'
    BY <2>1, <2>5, <2>6, <2>7 DEF RecoveryInv
  <2> QED
    BY <1>2, <1>7, <2>1, <2>8 DEF Recovering, EndsWhole
<1>13. CASE Recovered(p)
  <2>1. /\ pc[p] = "recovered" /\ pc' = [pc EXCEPT ![p] = "prepare"] /\ journal' = None
        /\ UNCHANGED <<files, cmd, stages, before>>
    BY <1>13 DEF Recovered, Goto, active, retained, files
  <2>2. payload = before.payload /\ bin = before.bin /\ Calm
    BY <1>4, <2>1 DEF RecoveryInv
  <2>3. Calm'
    BY <2>1, <2>2, FilesKept
  <2> QED
    BY <1>7, <2>1, <2>2, <2>3 DEF Recovering, EndsWhole, files
<1>14. CASE RecoveryFails(p)
  <2>1. JournalSound
    BY <1>4, <1>14 DEF RecoveryFails, RecoveryInv, Unrecovered
  <2>2. CASE pc[p] = "recoverBin"
    BY <1>14, <2>1, <2>2 DEF RecoveryFails, JournalSound
  <2>3. CASE pc[p] = "recoverPromoted"
    BY <1>4, <1>14, <2>3 DEF RecoveryFails, RecoveryInv, Out
  <2>4. CASE pc[p] = "recoverReplaced"
    BY <1>4, <1>14, <2>1, <2>4 DEF RecoveryFails, RecoveryInv, JournalSound
  <2> QED
    BY <1>14, <2>2, <2>3, <2>4 DEF RecoveryFails
<1> QED
  BY <1>9, <1>10, <1>11, <1>12, <1>13, <1>14 DEF Recovers

-----------------------------------------------------------------------------
(* Activation: promotion *)

Distinct == \A g \in Graphs : \A i, j \in DOMAIN g : PathOf(g[i]) = PathOf(g[j]) => i = j

\* What a process that activates has and finds.
LEMMA UnderwayFacts ==
    ASSUME TypeInv, PriorInv, NEW p \in Proc, PrefixInv(p), pc[p] \in Underway
    PROVE  /\ cmd[p].prior = receipt /\ PriorGeneration(p) = Gen(receipt)
           /\ UnderwayInv(pc[p], cmd[p]) /\ BeforeOK
           /\ cmd[p] \in Command /\ cmd[p].graph \in Graphs
           /\ cmd[p].next \in 1..Len(cmd[p].graph) /\ Len(cmd[p].graph) \in Nat
           /\ DOMAIN cmd[p].graph = 1..Len(cmd[p].graph)
           /\ \A i \in DOMAIN cmd[p].graph : PathOf(cmd[p].graph[i]) \in Path
           /\ cmd[p].stage \in 1..Len(stages)
           /\ stages[cmd[p].stage] \in Stage /\ stages \in Seq(Stage)
           /\ stages[cmd[p].stage].status = "ready"
           /\ journal \in Journal
           /\ Gen(receipt) \in Generation /\ Generation \subseteq Nat
<1>1. /\ pc[p] \in WithGraph /\ pc[p] \in WithStage /\ pc[p] \in Tried
      /\ pc[p] \in Recovering \cup Tried
  BY DEF Underway, WithGraph, WithStage
<1>2. cmd[p].graph \in Graphs /\ cmd[p].next \in 1..Len(cmd[p].graph)
  BY <1>1, ItemArguments
<1>3. /\ Len(cmd[p].graph) \in Nat /\ DOMAIN cmd[p].graph = 1..Len(cmd[p].graph)
      /\ \A i \in DOMAIN cmd[p].graph : PathOf(cmd[p].graph[i]) \in Path
  BY <1>2, GraphFacts
<1>4. cmd[p].prior = receipt /\ PriorGeneration(p) = Gen(receipt) /\ cmd[p] \in Command
  BY Arguments DEF PriorInv
<1>5. UnderwayInv(pc[p], cmd[p]) /\ BeforeOK /\ stages[cmd[p].stage].status = "ready"
  BY DEF PrefixInv, PlaceInv, StageInv
<1>6. cmd[p].stage \in 1..Len(stages) /\ stages[cmd[p].stage] \in Stage
  BY <1>1, StageArguments DEF Staged
<1> QED
  BY <1>1, <1>2, <1>3, <1>4, <1>5, <1>6, JournalArguments, GenerationFacts
     DEF TypeInv, StagesOK

LEMMA UndoRestores ==
    ASSUME TypeInv, PriorInv, NEW p \in Proc, PrefixInv(p), pc[p] \in Underway,
           Undo(p), UNCHANGED <<receipt, archive, before>>
    PROVE  /\ payload' = before.payload /\ bin' = before.bin
           /\ BeforeOK' /\ Left'
<1> DEFINE n == PriorGeneration(p)
           P == cmd[p].promoted
           R == cmd[p].replaced
           rest   == IF pc[p] \in Switched THEN None ELSE bin
           undone == [path \in Path |-> IF path \in P THEN None ELSE payload[path]]
<1>1. /\ n = Gen(receipt) /\ n \in Generation /\ BeforeOK /\ UnderwayInv(pc[p], cmd[p])
      /\ R \in SUBSET Path
  BY UnderwayFacts DEF Command
<1>2. Moved(P, R) /\ BinInv(pc[p], cmd[p])
  BY <1>1 DEF UnderwayInv
<1>3. /\ ~(binBackup[n] # None /\ rest # None)
      /\ before.bin = IF binBackup[n] # None THEN binBackup[n] ELSE rest
  <2>1. CASE pc[p] \in {"promote", "place", "journalPromoted", "swap"}
    BY <1>1, <1>2, <2>1 DEF BinInv, Promoting, OldBin, Switched
  <2>2. CASE pc[p] \in {"switch", "journalSwitched", "archive", "receipt"}
    BY <1>1, <1>2, <2>2 DEF BinInv, Promoting, NewBin, Switched
  <2> QED
    BY <2>1, <2>2 DEF Underway, Tried
<1>4. /\ bin' = before.bin
      /\ binBackup' = [binBackup EXCEPT ![n] = None]
      /\ RestoreReplaced(n, R, undone)
      /\ journal' = None
  BY <1>3 DEF Undo
<1>5. \A path \in Path : path \notin R => undone[path] = before.payload[path]
  BY <1>2 DEF Moved
<1> HIDE DEF n, P, R, undone
<1>6. /\ payload' = before.payload /\ payloadBackup'[n] = Nothing
      /\ \A m \in Generation : m # n => payloadBackup'[m] = payloadBackup[m]
  BY <1>1, <1>2, <1>4, <1>5, RestoresBefore
<1>7. /\ binBackup'[n] = None
      /\ \A m \in Generation : m # n => binBackup'[m] = binBackup[m]
  BY <1>1, <1>4 DEF TypeInv, FilesOK
<1>8. Calm'
  BY <1>1, <1>2, <1>4, <1>6, <1>7, CalmAgain
<1> QED
  BY <1>1, <1>4, <1>6, <1>8 DEF Left, BeforeOK

LEMMA PrepareKeepsPrefix ==
    ASSUME TypeInv, NEW p \in Proc, PrefixInv(p), Prepare(p) \/ PrepareFails(p)
    PROVE  PrefixInv(p)' /\ EndsWhole
<1>1. /\ pc[p] = "prepare" /\ UNCHANGED files
      /\ journal = None /\ Calm /\ StageInv("prepare", cmd[p]) /\ BeforeOK
  BY DEF Prepare, PrepareFails, Goto, PrefixInv, PlaceInv, active, retained, files
<1>2. Calm'
  BY <1>1, FilesKept
<1>3. CASE PrepareFails(p)
  <2>1. End(p) /\ UNCHANGED <<journal, before>>
    BY <1>3 DEF PrepareFails, Leave
  <2> QED
    BY <1>1, <1>2, <2>1, Rests DEF BeforeOK, Left, EndsWhole
<1>4. CASE Prepare(p)
  <2> DEFINE s == cmd[p].stage
  <2>0. PICK c : c = [cmd[p] EXCEPT !.prior = receipt, !.next = 1]
    OBVIOUS
  <2>1. /\ s \in 1..Len(stages) /\ stages[s] \in Stage /\ stages \in Seq(Stage)
        /\ cmd[p] \in Command
        /\ Gen(receipt) \in Generation /\ Generation \subseteq Nat
    BY <1>1, StageArguments, Arguments, GenerationFacts DEF WithStage, Staged, TypeInv, StagesOK
  <2>2. /\ pc' = [pc EXCEPT ![p] = "promote"] /\ cmd' = [cmd EXCEPT ![p] = c]
        /\ stages' = [stages EXCEPT ![s].bin = TRUE]
        /\ journal' # None /\ journal'.stage = s
        /\ journal'.generation = Gen(receipt) + 1
        /\ before' = [payload |-> payload, bin |-> bin]
        /\ UNCHANGED <<payload, receipt, bin, archive, binBackup, payloadBackup>>
    <3>1. journal' = [generation |-> IF receipt = None THEN 1 ELSE receipt.generation + 1,
                      phase |-> "prepared", stage |-> s,
                      promoted |-> {}, replaced |-> {}, binBackup |-> FALSE]
      BY <1>4 DEF Prepare
    <3>2. s \in 1..MaxCommands /\ Gen(receipt) + 1 \in Generation
      BY <1>1, <2>1, Arguments, FaultsAssumption DEF Writing
    <3>3. journal'.generation = Gen(receipt) + 1 /\ journal'.stage = s
      BY <3>1 DEF Gen
    <3>4. journal' \in Journal
      <4>1. (IF receipt = None THEN 1 ELSE receipt.generation + 1) \in Generation
        BY <3>2 DEF Gen
      <4> QED
        BY <3>1, <3>2, <4>1 DEF Journal, Phase
    <3> QED
      BY <1>1, <1>4, <2>0, <3>3, <3>4, NoneAssumption DEF Prepare, Goto, files
  <2>3. /\ c.graph = cmd[p].graph /\ c.stage = s /\ c.next = 1
        /\ c.promoted = {} /\ c.replaced = {} /\ ~c.swapped
    BY <1>1, <2>0, <2>1 DEF StageInv, Command
  <2>4. stages'[s].status = "ready"
    BY <1>1, <2>1, <2>2 DEF StageInv, Stage
  <2>5. Moved({}, {})'
    <3>1. PICK k \in Generation : k = Gen(receipt)
      BY <2>1
    <3>2. k = Gen(receipt)' /\ Settled(payload, bin)' /\ CleanFrom(k)'
      BY <1>2, <2>2, <3>1 DEF Calm, Gen
    <3>3. CleanFrom(k + 1)'
      <4>1. \A n \in Generation : n >= k + 1 => n >= k
        BY <2>1
      <4> QED
        BY <3>2, <4>1 DEF CleanFrom
    <3>4. \A path \in Path : payloadBackup'[k][path] = None
      BY <2>1, <3>2 DEF CleanFrom, Nothing
    <3> QED
      BY <2>2, <3>2, <3>3, <3>4 DEF Moved
  <2>6. PromotionInv("promote", c)'
    <3>1. \A i \in DOMAIN c.graph : i >= c.next
      BY <1>1, <2>1, <2>3, ItemArguments, GraphFacts DEF WithGraph
    <3> QED
      BY <2>3, <3>1 DEF PromotionInv, Out, Promoting
  <2>7. BinInv("promote", c)'
    BY <1>1, <2>1, <2>2, <2>3 DEF BinInv, Promoting, OldBin, Calm, CleanFrom, Gen
  <2>8. UnderwayInv("promote", c)'
    BY <2>2, <2>3, <2>5, <2>6, <2>7 DEF UnderwayInv, JournalOf, Gen
  <2>9. PlaceInv("promote", c)'
    BY <2>3, <2>4, <2>8 DEF PlaceInv, StageInv, Recovering, Underway, Tried, RollingBack,
                            Removing
  <2>10. BeforeOK'
    BY <2>2 DEF BeforeOK, TypeInv, FilesOK
  <2> QED
    BY <1>1, <2>2, <2>9, <2>10, Arrives DEF EndsWhole
<1> QED
  BY <1>3, <1>4

LEMMA GoesOn ==
    ASSUME TypeInv, NEW p \in Proc, BeforeOK, UNCHANGED before, NEW to \in Underway, NEW c,
           pc' = [pc EXCEPT ![p] = to], cmd' = [cmd EXCEPT ![p] = c],
           UnderwayInv(to, c)', stages'[c.stage].status = "ready"
    PROVE  PrefixInv(p)' /\ EndsWhole
<1>1. PlaceInv(to, c)'
  BY DEF PlaceInv, StageInv, Recovering, Underway, Tried, RollingBack, Removing
<1>2. journal' # None
  BY DEF UnderwayInv
<1> QED
  BY <1>1, <1>2, Arrives DEF BeforeOK, EndsWhole

\* The payload whose turn it is has been promoted, or was there already.
LEMMA ItemDealtWith ==
    ASSUME TypeInv, PriorInv, NEW p \in Proc, PrefixInv(p), pc[p] \in Promoting,
           NEW N, N \subseteq {ItemPath(p)}, NextItem(p, N),
           UNCHANGED <<bin, receipt, binBackup, journal, before>>,
           NEW P, P = cmd[p].promoted, NEW R, R = cmd[p].replaced,
           NEW s, s = cmd[p].stage, stages'[s].status = "ready",
           Moved(P \cup N, R)', R \subseteq P \cup N, Out(P \cup N, s)',
           payload'[ItemPath(p)] # None,
           \A path \in Path : Present(path) => payload'[path] # None
    PROVE  PrefixInv(p)' /\ EndsWhole
<1>1. pc[p] \in Underway
  BY DEF Promoting, Underway, Tried
<1>2. PICK g \in Graphs, i \in Nat :
        /\ g = cmd[p].graph /\ i = cmd[p].next /\ i \in 1..Len(g) /\ Len(g) \in Nat
        /\ DOMAIN g = 1..Len(g)
        /\ \A k \in DOMAIN g : PathOf(g[k]) \in Path
  BY <1>1, UnderwayFacts
<1>3. PICK c : c = [cmd[p] EXCEPT !.next = IF LastItem(p) THEN @ ELSE @ + 1,
                                  !.promoted = @ \cup N]
  OBVIOUS
<1>4. /\ c.next = (IF i = Len(g) THEN i ELSE i + 1) /\ c.promoted = P \cup N
      /\ c.replaced = R /\ c.graph = g /\ c.stage = s /\ c.mode = cmd[p].mode
      /\ c.swapped = cmd[p].swapped
  BY <1>1, <1>2, <1>3, UnderwayFacts DEF Command, LastItem
<1>5. cmd' = [cmd EXCEPT ![p] = c]
  BY <1>1, <1>3, UnderwayFacts DEF NextItem, Command, TypeInv, CommandsOK
<1>6. PICK to : to = IF i = Len(g) THEN "journalPromoted" ELSE "promote"
  OBVIOUS
<1>7. pc' = [pc EXCEPT ![p] = to] /\ to \in Underway /\ to \notin {"place", "swap", "switch",
                                       "journalSwitched", "archive", "receipt"}
  BY <1>2, <1>6 DEF NextItem, LastItem, Underway, Tried
<1>8. /\ PromotionInv(pc[p], cmd[p]) /\ BinInv(pc[p], cmd[p]) /\ JournalOf(pc[p], cmd[p])
      /\ journal # None /\ BeforeOK /\ pc[p] \in {"promote", "place"}
  BY <1>1, UnderwayFacts DEF UnderwayInv, Promoting
<1>9. PromotionInv(to, c)'
  <2>1. \A k \in DOMAIN g : k <= i => payload'[PathOf(g[k])] # None
    BY <1>2, <1>8 DEF PromotionInv, Promoting, ItemPath, Item
  <2>2. \A k \in DOMAIN g : \/ Present(PathOf(g[k]))'
                            \/ to \in Promoting /\ k >= c.next
    BY <1>2, <1>4, <1>6, <2>1 DEF Promoting, Present
  <2>3. to \in Promoting => \A path \in P \cup N : \E k \in 1..(c.next - 1) : path = PathOf(g[k])
    <3> SUFFICES ASSUME to \in Promoting, NEW path \in P \cup N
                 PROVE  \E k \in 1..(c.next - 1) : path = PathOf(g[k])
      OBVIOUS
    <3>1. c.next - 1 = i
      BY <1>2, <1>4, <1>6 DEF Promoting
    <3>2. CASE path \in P
      <4>1. PICK k \in 1..(i - 1) : path = PathOf(g[k])
        BY <1>2, <1>8, <3>2 DEF PromotionInv, Promoting
      <4> QED
        BY <1>2, <3>1, <4>1
    <3>3. CASE path \in N
      <4>1. path = PathOf(g[i])
        BY <1>2, <3>3 DEF ItemPath, Item
      <4> QED
        BY <1>2, <3>1, <4>1
    <3> QED
      BY <3>2, <3>3
  <2>4. c.replaced # {} => c.mode = "reinstall"
    BY <1>4, <1>8 DEF PromotionInv
  <2> QED
    BY <1>4, <1>7, <2>2, <2>3, <2>4 DEF PromotionInv
<1>10. BinInv(to, c)'
  BY <1>4, <1>6, <1>8 DEF BinInv, Promoting, OldBin, Gen
<1>11. JournalOf(to, c)'
  BY <1>4, <1>7, <1>8 DEF JournalOf, Gen
<1>12. UnderwayInv(to, c)'
  BY <1>4, <1>7, <1>8, <1>9, <1>10, <1>11 DEF UnderwayInv
<1> QED
  BY <1>4, <1>5, <1>7, <1>8, <1>12, GoesOn

\* No other payload of the graph, and nothing promoted, is at the item's path.
LEMMA ItemIsNew ==
    ASSUME TypeInv, PriorInv, Distinct, NEW p \in Proc, PrefixInv(p), pc[p] \in Promoting
    PROVE  /\ ItemPath(p) \in Path /\ ItemPath(p) \notin cmd[p].promoted
           /\ \A k \in DOMAIN cmd[p].graph :
                 k # cmd[p].next => PathOf(cmd[p].graph[k]) # ItemPath(p)
           /\ pc[p] = "promote" => ItemPath(p) \notin cmd[p].replaced
<1>1. pc[p] \in Underway
  BY DEF Promoting, Underway, Tried
<1>2. PICK g \in Graphs, i \in Nat :
        /\ g = cmd[p].graph /\ i = cmd[p].next /\ i \in 1..Len(g) /\ Len(g) \in Nat
        /\ DOMAIN g = 1..Len(g)
        /\ \A k \in DOMAIN g : PathOf(g[k]) \in Path
  BY <1>1, UnderwayFacts
<1>3. PromotionInv(pc[p], cmd[p])
  BY <1>1, UnderwayFacts DEF UnderwayInv
<1>4. ItemPath(p) = PathOf(g[i])
  BY <1>2 DEF ItemPath, Item
<1>5. \A k \in DOMAIN g : k # i => PathOf(g[k]) # PathOf(g[i])
  BY <1>2 DEF Distinct
<1>6. \A path \in cmd[p].promoted : \E k \in 1..(i - 1) : path = PathOf(g[k])
  BY <1>2, <1>3 DEF PromotionInv
<1>7. \A k \in 1..(i - 1) : k \in DOMAIN g /\ k # i
  BY <1>2
<1>8. ItemPath(p) \notin cmd[p].promoted
  BY <1>4, <1>5, <1>6, <1>7
<1>9. pc[p] = "promote" => cmd[p].replaced \subseteq cmd[p].promoted
  BY <1>3 DEF PromotionInv
<1> QED
  BY <1>2, <1>4, <1>5, <1>8, <1>9

LEMMA PromotionKeepsPrefix ==
    ASSUME TypeInv, PriorInv, Distinct, NEW p \in Proc, PrefixInv(p), Promotes(p)
    PROVE  PrefixInv(p)' /\ EndsWhole
<1>1. PICK P, R, s, path :
        /\ P = cmd[p].promoted /\ R = cmd[p].replaced /\ s = cmd[p].stage
        /\ path = ItemPath(p)
  OBVIOUS
<1>2. /\ pc[p] \in Underway /\ pc[p] \in {"promote", "place", "journalPromoted"}
      /\ UNCHANGED <<bin, receipt, archive, binBackup, before>>
  BY DEF Promotes, PromoteNew, Reuse, SetAside, PlaceNew, JournalPromoted, Goto, Underway,
         Tried, active, retained
<1>3. /\ Moved(P, R) /\ Out(P, s) /\ OldBin /\ BeforeOK /\ journal # None
      /\ PromotionInv(pc[p], cmd[p]) /\ BinInv(pc[p], cmd[p]) /\ JournalOf(pc[p], cmd[p])
  BY <1>1, <1>2, UnderwayFacts DEF UnderwayInv, PromotionInv, BinInv, Promoting
<1>4. /\ s \in 1..Len(stages) /\ stages[s] \in Stage /\ stages \in Seq(Stage)
      /\ stages[s].status = "ready" /\ cmd[p] \in Command
      /\ Gen(receipt) \in Generation /\ PriorGeneration(p) = Gen(receipt)
      /\ Generation \subseteq Nat
      /\ payload \in [Path -> Artifact \cup {None}]
      /\ payloadBackup \in [Generation -> [Path -> Artifact \cup {None}]]
      /\ stages[s].payload \in [Path -> Artifact \cup {None}]
  BY <1>1, <1>2, UnderwayFacts DEF TypeInv, FilesOK, Contents, Stage
<1>5. pc[p] \in Promoting
         => /\ path \in Path /\ path \notin P /\ (pc[p] = "promote" => path \notin R)
            /\ \A k \in DOMAIN cmd[p].graph :
                  k # cmd[p].next => PathOf(cmd[p].graph[k]) # path
  BY <1>1, ItemIsNew
<1>6. pc[p] = "promote" => R \subseteq P
  BY <1>1, <1>3 DEF PromotionInv
<1>7. ASSUME NEW N, N \subseteq {path}, UNCHANGED payloadBackup,
             \A other \in Path : other # path => payload'[other] = payload[other],
             N = {} => payload' = payload, path \notin R /\ N # {} => payload[path] = None,
             path \in R \/ payload[path] = None \/ N = {}
      PROVE  Moved(P \cup N, R)'
  <2>1. \A content, links : Settled(content, links) => Settled(content, links)'
    BY <1>2 DEF Settled, Archived, Gen, Whole
  <2>2. CleanFrom(Gen(receipt) + 1)' /\ Gen(receipt)' = Gen(receipt)
    BY <1>2, <1>3, <1>7 DEF Moved, CleanFrom, Gen
  <2>3. ASSUME NEW other \in Path
        PROVE  /\ other \notin P \cup N \cup R => payload'[other] = before.payload[other]
               /\ other \in (P \cup N) \ R => before.payload[other] = None
    <3>1. CASE other \notin N
      BY <1>3, <1>7, <2>3, <3>1 DEF Moved
    <3>2. CASE other \in N
      BY <1>3, <1>7, <2>3, <3>2 DEF Moved
    <3> QED
      BY <3>1, <3>2
  <2> QED
    BY <1>2, <1>3, <1>7, <2>1, <2>2, <2>3 DEF Moved
<1>8. ASSUME NEW c, stages' = [stages EXCEPT ![s].payload[path] = c], pc[p] \in Promoting
      PROVE  /\ stages'[s].status = "ready"
             /\ stages'[s].payload[path] = c
             /\ \A other \in Path : other # path
                   => stages'[s].payload[other] = stages[s].payload[other]
  <2>1. stages'[s] = [stages[s] EXCEPT !.payload = [stages[s].payload EXCEPT ![path] = c]]
    BY <1>4, <1>8
  <2> QED
    BY <1>4, <1>5, <1>8, <2>1 DEF Stage
<1>9. CASE PromoteNew(p) \/ PlaceNew(p)
  <2>1. /\ pc[p] \in Promoting /\ SourceThere(p) /\ MoveIntoPlace(p)
        /\ pc[p] = "promote" => ~Occupied(p)
        /\ UNCHANGED <<payloadBackup, journal>>
    BY <1>9 DEF PromoteNew, PlaceNew, Promoting, retained
  <2>2. pc[p] = "place" => path \in R
    BY <1>1, <1>3 DEF PromotionInv, ItemPath, Item
  <2>3. /\ payload' = [payload EXCEPT ![path] = stages[s].payload[path]]
        /\ stages' = [stages EXCEPT ![s].payload[path] = None]
        /\ NextItem(p, {path}) /\ stages[s].payload[path] # None
        /\ pc[p] = "promote" => payload[path] = None
    BY <1>1, <2>1 DEF MoveIntoPlace, SourceThere, Occupied, Present, Staged
  <2>4. /\ payload'[path] # None
        /\ \A other \in Path : other # path => payload'[other] = payload[other]
    BY <1>4, <1>5, <2>1, <2>3
  <2>5. Moved(P \cup {path}, R)'
    BY <1>2, <1>5, <1>7, <2>1, <2>2, <2>3, <2>4 DEF Promoting
  <2>6. Out(P \cup {path}, s)'
    <3>1. P \subseteq Path
      BY <1>1, <1>4 DEF Command
    <3> QED
      BY <1>3, <1>5, <1>8, <2>1, <2>3, <2>4, <3>1 DEF Out, Present
  <2>7. R \subseteq P \cup {path}
    BY <1>1, <1>3, <1>6, <2>1 DEF PromotionInv, Promoting, ItemPath, Item
  <2>8. \A other \in Path : Present(other) => payload'[other] # None
    BY <2>4 DEF Present
  <2> QED
    <3>1. PICK N : N = {path}
      OBVIOUS
    <3>2. N \subseteq {ItemPath(p)} /\ NextItem(p, N) /\ R \subseteq P \cup N
      BY <1>1, <2>3, <2>7, <3>1
    <3>3. Moved(P \cup N, R)' /\ Out(P \cup N, s)'
      BY <2>5, <2>6, <3>1
    <3>4. stages'[s].status = "ready" /\ payload'[ItemPath(p)] # None
      BY <1>1, <1>8, <2>1, <2>3, <2>4
    <3>5. UNCHANGED <<bin, receipt, binBackup, journal, before>> /\ pc[p] \in Promoting
      BY <1>2, <2>1
    <3> QED
      BY <1>1, <2>8, <3>2, <3>3, <3>4, <3>5, ItemDealtWith
<1>10. CASE Reuse(p)
  <2>1. /\ pc[p] = "promote" /\ pc[p] \in Promoting /\ Present(path)
        /\ stages' = [stages EXCEPT ![s].payload[path] = None]
        /\ NextItem(p, {})
        /\ UNCHANGED <<payload, payloadBackup, journal>>
    BY <1>1, <1>10 DEF Reuse, Promoting, Occupied, active, retained
  <2>2. Moved(P \cup {}, R)'
    BY <1>2, <1>7, <2>1
  <2>3. Out(P \cup {}, s)'
    <3>1. P \subseteq Path
      BY <1>1, <1>4 DEF Command
    <3> QED
      BY <1>3, <1>5, <1>8, <2>1, <3>1 DEF Out, Present
  <2> QED
    <3>1. PICK N : N = {}
      OBVIOUS
    <3>2. N \subseteq {ItemPath(p)} /\ NextItem(p, N) /\ R \subseteq P \cup N
      BY <1>6, <2>1, <3>1
    <3>3. Moved(P \cup N, R)' /\ Out(P \cup N, s)'
      BY <2>2, <2>3, <3>1
    <3>4. /\ stages'[s].status = "ready" /\ payload'[ItemPath(p)] # None
          /\ \A other \in Path : Present(other) => payload'[other] # None
      BY <1>1, <1>8, <2>1 DEF Present
    <3>5. UNCHANGED <<bin, receipt, binBackup, journal, before>>
      BY <1>2, <2>1
    <3> QED
      BY <1>1, <2>1, <3>2, <3>3, <3>4, <3>5, ItemDealtWith
<1>11. CASE SetAside(p)
  <2>1. PICK c : c = [cmd[p] EXCEPT !.replaced = @ \cup {path}]
    OBVIOUS
  <2>2. /\ pc[p] = "promote" /\ pc' = [pc EXCEPT ![p] = "place"]
        /\ Present(path) /\ cmd[p].mode = "reinstall"
        /\ payloadBackup' = [payloadBackup EXCEPT ![Gen(receipt)][path] = payload[path]]
        /\ payload' = [payload EXCEPT ![path] = None]
        /\ cmd' = [cmd EXCEPT ![p] = c]
        /\ UNCHANGED <<journal, stages>>
    BY <1>1, <1>4, <1>11, <2>1 DEF SetAside, Goto, Occupied, Command
  <2>3. /\ c.promoted = P /\ c.replaced = R \cup {path} /\ c.graph = cmd[p].graph
        /\ c.next = cmd[p].next /\ c.mode = "reinstall" /\ c.stage = s
        /\ c.swapped = cmd[p].swapped
    BY <1>1, <1>4, <2>1, <2>2 DEF Command
  <2>4. /\ path \in Path /\ path \notin P /\ path \notin R
    BY <1>5, <2>2 DEF Promoting
  <2>5. \A other \in Path : payload'[other] = IF other = path THEN None ELSE payload[other]
    BY <1>4, <2>2, <2>4
  <2>6. /\ \A other \in Path : payloadBackup'[Gen(receipt)][other] =
                 IF other = path THEN payload[path] ELSE payloadBackup[Gen(receipt)][other]
        /\ \A n \in Generation : n # Gen(receipt) => payloadBackup'[n] = payloadBackup[n]
    BY <1>4, <2>2, <2>4
  <2>7. Moved(P, R \cup {path})'
    <3>1. \A content, links : Settled(content, links) => Settled(content, links)'
      BY <1>2 DEF Settled, Archived, Gen, Whole
    <3>2. CleanFrom(Gen(receipt) + 1)'
      <4>1. \A n \in Generation : n >= Gen(receipt) + 1 => n # Gen(receipt)
        BY <1>4
      <4> QED
        BY <1>2, <1>3, <2>6, <4>1 DEF Moved, CleanFrom, Gen
    <3>3. Gen(receipt)' = Gen(receipt)
      BY <1>2 DEF Gen
    <3>4. payload[path] = before.payload[path]
      BY <1>3, <2>4 DEF Moved
    <3> QED
      BY <1>2, <1>3, <2>2, <2>4, <2>5, <2>6, <3>1, <3>2, <3>3, <3>4 DEF Moved, Present
  <2>8. PromotionInv("place", c)'
    <3>1. Out(P, s)'
      <4>1. P \subseteq Path
        BY <1>1, <1>4 DEF Command
      <4> QED
        BY <1>3, <2>2, <2>4, <2>5, <4>1 DEF Out, Present
    <3>2. path = PathOf(c.graph[c.next])
      BY <1>1, <2>3 DEF ItemPath, Item
    <3>3. ASSUME NEW k \in DOMAIN c.graph
          PROVE  Present(PathOf(c.graph[k]))' \/ k >= c.next
      <4>1. PathOf(c.graph[k]) \in Path
        BY <1>2, <2>3, UnderwayFacts
      <4>2. k < c.next \/ k >= c.next
        BY <1>2, <2>3, UnderwayFacts
      <4>3. CASE k < c.next
        <5>1. k # c.next /\ ~(k >= c.next)
          BY <1>2, <2>3, <4>3, UnderwayFacts
        <5>2. PathOf(c.graph[k]) # path /\ Present(PathOf(c.graph[k]))
          BY <1>3, <1>5, <2>2, <2>3, <5>1 DEF Promoting, PromotionInv
        <5> QED
          BY <2>5, <4>1, <5>2 DEF Present
      <4> QED
        BY <4>2, <4>3
    <3>4. \A other \in P : \E k \in 1..(c.next - 1) : other = PathOf(c.graph[k])
      BY <1>1, <1>3, <2>2, <2>3 DEF PromotionInv, Promoting
    <3> QED
      BY <1>6, <2>2, <2>3, <2>4, <3>1, <3>2, <3>3, <3>4 DEF PromotionInv, Promoting
  <2>9. BinInv("place", c)' /\ JournalOf("place", c)'
    BY <1>1, <1>2, <1>3, <2>2, <2>3 DEF BinInv, Promoting, OldBin, JournalOf, Gen
  <2>10. UnderwayInv("place", c)' /\ "place" \in Underway
    BY <1>3, <2>2, <2>3, <2>7, <2>8, <2>9 DEF UnderwayInv, Underway, Tried
  <2> QED
    BY <1>2, <1>3, <1>4, <2>2, <2>3, <2>10, GoesOn
<1>12. CASE JournalPromoted(p)
  <2>1. /\ pc[p] = "journalPromoted" /\ pc' = [pc EXCEPT ![p] = "swap"]
        /\ UNCHANGED <<files, stages, cmd>> /\ cmd' = [cmd EXCEPT ![p] = cmd[p]]
        /\ Advance(p, "payloads-promoted")
    BY <1>12, Arguments DEF JournalPromoted, Goto, active, retained, files
  <2>2. /\ journal' # None
        /\ journal'.phase = "payloads-promoted" /\ journal'.promoted = P
        /\ journal'.replaced = R /\ journal'.stage = journal.stage
        /\ journal'.generation = journal.generation
    <3>1. journal \in Journal
      BY <1>2, UnderwayFacts
    <3>2. journal' # None
      BY <1>2, <2>1, JournalEdits DEF Phase, Underway
    <3> QED
      BY <1>1, <2>1, <3>1, <3>2 DEF Advance, Journal
  <2>3. PICK c : c = cmd[p] /\ c = cmd'[p]
    BY <2>1
  <2>4. Moved(P, R)' /\ OldBin'
    BY <1>1, <1>2, <1>3, <1>4, <2>1, FilesKept DEF Command
  <2>5. PromotionInv("swap", c)'
    <3>1. Out(P, s)'
      BY <1>3, <2>1 DEF Out, Present, files
    <3> QED
      BY <1>1, <1>3, <2>1, <2>3, <3>1 DEF PromotionInv, Promoting, Present, files
  <2>6. BinInv("swap", c)' /\ JournalOf("swap", c)'
    BY <1>1, <1>2, <1>3, <2>1, <2>2, <2>3, <2>4 DEF BinInv, Promoting, JournalOf, Gen
  <2>7. UnderwayInv("swap", c)' /\ "swap" \in Underway
    BY <1>1, <2>2, <2>3, <2>4, <2>5, <2>6 DEF UnderwayInv, Underway, Tried
  <2> QED
    BY <1>1, <1>2, <1>3, <1>4, <2>1, <2>3, <2>7, GoesOn
<1> QED
  BY <1>9, <1>10, <1>11, <1>12 DEF Promotes

-----------------------------------------------------------------------------
(* Activation: bin, archive and receipt *)

\* Once everything is promoted, a step keeps what it does not change.
LEMMA PromotedKept ==
    ASSUME UNCHANGED <<payload, stages>>, NEW c, NEW from, NEW to, to \notin Promoting,
           from \notin Promoting, PromotionInv(from, c)
    PROVE  PromotionInv(to, c)'
<1>1. "place" \in Promoting
  BY DEF Promoting
<1> QED
  BY <1>1 DEF PromotionInv, Out, Present

LEMMA SwitchKeepsPrefix ==
    ASSUME TypeInv, PriorInv, NEW p \in Proc, PrefixInv(p),
           Swap(p) \/ Switch(p) \/ JournalSwitched(p)
    PROVE  PrefixInv(p)' /\ EndsWhole
<1>1. PICK c, s, k : c = cmd[p] /\ s = c.stage /\ k = Gen(receipt)
  OBVIOUS
<1>2. /\ pc[p] \in Underway /\ pc[p] \in {"swap", "switch", "journalSwitched"}
      /\ UNCHANGED <<payload, receipt, archive, payloadBackup, before>>
  BY DEF Swap, Switch, JournalSwitched, Goto, Underway, Tried, active, retained
<1>3. /\ Moved(c.promoted, c.replaced) /\ BeforeOK /\ journal # None /\ journal \in Journal
      /\ PromotionInv(pc[p], c) /\ BinInv(pc[p], c) /\ JournalOf(pc[p], c)
      /\ s \in 1..Len(stages) /\ stages[s] \in Stage /\ stages \in Seq(Stage)
      /\ stages[s].status = "ready" /\ c \in Command /\ PriorGeneration(p) = k
      /\ k \in Generation /\ Generation \subseteq Nat /\ c.prior = receipt
      /\ binBackup \in [Generation -> LinkSets]
      /\ Gen(receipt)' = k
  BY <1>1, <1>2, UnderwayFacts DEF UnderwayInv, TypeInv, FilesOK, Gen
<1>4. ASSUME UNCHANGED stages, NEW to, to \notin Promoting
      PROVE  PromotionInv(to, c)'
  BY <1>2, <1>3, <1>4, PromotedKept DEF Promoting
<1>5. CASE Swap(p)
  <2>1. PICK d : d = [c EXCEPT !.swapped = bin # None]
    OBVIOUS
  <2>2. pc[p] = "swap" /\ OldBin /\ c.swapped = FALSE
    BY <1>3, <1>5 DEF Swap, Goto, BinInv, Promoting, Command
  <2>3. /\ pc' = [pc EXCEPT ![p] = "switch"] /\ UNCHANGED <<journal, stages>>
        /\ bin' = None
        /\ binBackup'[k] = before.bin
        /\ \A n \in Generation : n # k => binBackup'[n] = binBackup[n]
        /\ cmd' = [cmd EXCEPT ![p] = d]
    <3>1. CASE bin = None
      <4>1. d = c
        BY <1>3, <2>1, <2>2, <3>1 DEF Command
      <4> QED
        BY <1>1, <1>3, <1>5, <2>2, <3>1, <4>1, Arguments DEF Swap, Goto, OldBin
    <3>2. CASE bin # None
      BY <1>1, <1>3, <1>5, <2>1, <2>2, <3>2 DEF Swap, Goto, OldBin, Command
    <3> QED
      BY <3>1, <3>2
  <2>4. /\ d.promoted = c.promoted /\ d.replaced = c.replaced /\ d.stage = s
        /\ d.graph = c.graph /\ d.mode = c.mode /\ d.next = c.next
        /\ d.swapped = (before.bin # None)
    BY <1>1, <1>3, <2>1, <2>2 DEF Command, OldBin
  <2>5. Moved(c.promoted, c.replaced)'
    <3>1. \A n \in Generation : n >= k + 1 => n # k
      BY <1>3
    <3> QED
      BY <1>1, <1>2, <1>3, <2>3, <3>1, MovedKept
  <2>6. PromotionInv("switch", d)'
    BY <1>1, <1>4, <2>3, <2>4 DEF PromotionInv, Promoting
  <2>7. BinInv("switch", d)' /\ JournalOf("switch", d)'
    BY <1>1, <1>2, <1>3, <2>2, <2>3, <2>4 DEF BinInv, Promoting, NewBin, JournalOf
  <2>8. UnderwayInv("switch", d)' /\ "switch" \in Underway
    BY <1>3, <2>3, <2>4, <2>5, <2>6, <2>7 DEF UnderwayInv, Underway, Tried
  <2> QED
    BY <1>2, <1>3, <2>3, <2>4, <2>8, GoesOn
<1>6. CASE Switch(p)
  <2>1. /\ pc[p] = "switch" /\ pc' = [pc EXCEPT ![p] = "journalSwitched"]
        /\ bin' = Links(c.graph)
        /\ stages' = [stages EXCEPT ![s].bin = FALSE]
        /\ UNCHANGED <<binBackup, journal, cmd>> /\ cmd' = [cmd EXCEPT ![p] = c]
    BY <1>1, <1>6, Arguments DEF Switch, Goto, retained
  <2>2. stages'[s].status = "ready" /\ stages'[s].payload = stages[s].payload
    BY <1>3, <2>1 DEF Stage
  <2>3. Moved(c.promoted, c.replaced)'
    BY <1>2, <1>3, <2>1, MovedKept
  <2>4. PromotionInv("journalSwitched", c)'
    <3>1. Out(c.promoted, s)'
      BY <1>1, <1>2, <1>3, <2>2 DEF PromotionInv, Out, Present
    <3> QED
      BY <1>1, <1>2, <1>3, <2>1, <3>1 DEF PromotionInv, Promoting, Present
  <2>5. BinInv("journalSwitched", c)' /\ JournalOf("journalSwitched", c)'
    BY <1>1, <1>2, <1>3, <2>1 DEF BinInv, Promoting, NewBin, JournalOf
  <2>6. UnderwayInv("journalSwitched", c)' /\ "journalSwitched" \in Underway
    BY <1>3, <2>1, <2>3, <2>4, <2>5 DEF UnderwayInv, Underway, Tried
  <2> QED
    BY <1>1, <1>2, <1>3, <2>1, <2>2, <2>6, GoesOn
<1>7. CASE JournalSwitched(p)
  <2>1. /\ pc[p] = "journalSwitched" /\ pc' = [pc EXCEPT ![p] = "archive"]
        /\ UNCHANGED <<files, stages, cmd>> /\ cmd' = [cmd EXCEPT ![p] = c]
        /\ Advance(p, "bin-activated")
    BY <1>1, <1>7, Arguments DEF JournalSwitched, Goto, active, retained, files
  <2>2. /\ journal' # None /\ journal'.phase = "bin-activated"
        /\ journal'.promoted = c.promoted /\ journal'.replaced = c.replaced
        /\ journal'.binBackup = c.swapped /\ journal'.stage = journal.stage
        /\ journal'.generation = journal.generation
    <3>1. journal' # None
      BY <1>2, <2>1, JournalEdits DEF Phase, Underway
    <3> QED
      BY <1>1, <1>3, <2>1, <3>1 DEF Advance, Journal
  <2>3. Moved(c.promoted, c.replaced)' /\ NewBin(c.swapped)'
    BY <1>2, <1>3, <2>1, FilesKept DEF Command, BinInv, Promoting
  <2>4. PromotionInv("archive", c)'
    BY <1>4, <2>1 DEF Promoting
  <2>5. BinInv("archive", c)' /\ JournalOf("archive", c)'
    BY <1>1, <1>2, <1>3, <2>1, <2>2, <2>3 DEF BinInv, Promoting, JournalOf, files
  <2>6. UnderwayInv("archive", c)' /\ "archive" \in Underway
    BY <2>2, <2>3, <2>4, <2>5 DEF UnderwayInv, Underway, Tried
  <2> QED
    BY <1>1, <1>2, <1>3, <2>1, <2>6, GoesOn
<1> QED
  BY <1>5, <1>6, <1>7

LEMMA ArchiveKeepsPrefix ==
    ASSUME TypeInv, PriorInv, NEW p \in Proc, PrefixInv(p), ArchivePrior(p)
    PROVE  PrefixInv(p)' /\ EndsWhole
<1>1. PICK c, s, k : c = cmd[p] /\ s = c.stage /\ k = Gen(receipt)
  OBVIOUS
<1>2. /\ pc[p] = "archive" /\ pc[p] \in Underway /\ pc' = [pc EXCEPT ![p] = "receipt"]
      /\ UNCHANGED <<payload, bin, receipt, binBackup, payloadBackup, before, stages, journal,
                     cmd>>
      /\ cmd' = [cmd EXCEPT ![p] = c]
  BY <1>1, Arguments DEF ArchivePrior, Goto, Underway, Tried, active
<1>3. /\ Moved(c.promoted, c.replaced) /\ BeforeOK /\ journal # None
      /\ PromotionInv("archive", c) /\ BinInv("archive", c) /\ JournalOf("archive", c)
      /\ stages[s].status = "ready" /\ PriorGeneration(p) = k
      /\ k \in Generation /\ Generation \subseteq Nat /\ c.prior = receipt
      /\ archive \in [Generation -> Graphs \cup {None}]
      /\ Gen(receipt)' = k
  BY <1>1, <1>2, UnderwayFacts DEF UnderwayInv, TypeInv, FilesOK, Gen
<1>4. archive' = IF receipt = None THEN archive ELSE [archive EXCEPT ![k] = receipt.graph]
  BY <1>1, <1>3 DEF ArchivePrior
<1>5. receipt # None
         => /\ archive'[k] = receipt.graph
            /\ \A n \in Generation : n # k => archive'[n] = archive[n]
  BY <1>3, <1>4
<1>6. Settled(before.payload, before.bin)'
  <2>1. Settled(before.payload, before.bin)
    BY <1>3 DEF Moved
  <2>2. CASE receipt = None
    BY <1>2, <1>4, <2>1, <2>2 DEF Settled, Archived, Gen, Whole
  <2>3. CASE receipt # None
    <3>1. receipt \in Receipt /\ receipt.graph # None
      BY <2>3, NoneAssumption DEF TypeInv, FilesOK, Receipt
    <3>2. k \in Archived'
      BY <1>3, <1>5, <2>3, <3>1 DEF Archived
    <3>3. \A n \in Archived' : n \in Nat /\ n <= k
      BY <1>1, <1>3, <1>5, <2>1, <2>3 DEF Archived, Settled
    <3>4. ASSUME NEW n \in Archived', \A m \in Archived' : m <= n
          PROVE  Whole(before.payload, archive[n])'
      <4>1. n = k
        BY <1>3, <3>2, <3>3, <3>4
      <4> QED
        BY <1>2, <1>5, <2>1, <2>3, <4>1 DEF Settled, Whole
    <3>5. Whole(before.payload, receipt.graph)' /\ before'.bin = Links(receipt'.graph)
      BY <1>2, <2>1, <2>3 DEF Settled, Whole
    <3> QED
      BY <1>2, <1>3, <2>3, <3>3, <3>4, <3>5 DEF Settled
  <2> QED
    BY <2>2, <2>3
<1>7. Moved(c.promoted, c.replaced)'
  BY <1>1, <1>2, <1>3, <1>6 DEF Moved, CleanFrom
<1>8. PromotionInv("receipt", c)'
  BY <1>2, <1>3, PromotedKept DEF Promoting
<1>9. BinInv("receipt", c)' /\ JournalOf("receipt", c)'
  BY <1>1, <1>2, <1>3 DEF BinInv, Promoting, NewBin, JournalOf
<1>10. UnderwayInv("receipt", c)' /\ "receipt" \in Underway
  BY <1>1, <1>2, <1>3, <1>5, <1>7, <1>8, <1>9 DEF UnderwayInv, Underway, Tried
<1> QED
  BY <1>1, <1>2, <1>3, <1>10, GoesOn

LEMMA ReceiptKeepsPrefix ==
    ASSUME TypeInv, PriorInv, NEW p \in Proc, PrefixInv(p), WriteReceipt(p)
    PROVE  PrefixInv(p)' /\ EndsWhole
<1>1. PICK c, k : c = cmd[p] /\ k = Gen(receipt)
  OBVIOUS
<1>2. /\ pc[p] = "receipt" /\ pc[p] \in Underway /\ pc' = [pc EXCEPT ![p] = "finish"]
      /\ UNCHANGED <<payload, bin, archive, binBackup, payloadBackup, before, stages, journal,
                     cmd>>
      /\ cmd' = [cmd EXCEPT ![p] = c]
  BY <1>1, Arguments DEF WriteReceipt, Goto, Underway, Tried, retained
<1>3. /\ Moved(c.promoted, c.replaced) /\ BeforeOK /\ journal # None
      /\ PromotionInv("receipt", c) /\ BinInv("receipt", c) /\ JournalOf("receipt", c)
      /\ receipt # None => archive[k] = receipt.graph
      /\ PriorGeneration(p) = k /\ c.graph \in Graphs /\ c \in Command
      /\ \A i \in DOMAIN c.graph : PathOf(c.graph[i]) \in Path
      /\ k \in Generation /\ Generation \subseteq Nat
  BY <1>1, <1>2, UnderwayFacts DEF UnderwayInv
<1>4. receipt' = [generation |-> k + 1, graph |-> c.graph] /\ receipt' # None
  <2>1. k + 1 \in Generation
    BY <1>1, <1>2, Arguments DEF Writing
  <2>2. [generation |-> k + 1, graph |-> c.graph] \in Receipt
    BY <1>3, <2>1 DEF Receipt
  <2> QED
    BY <1>1, <1>3, <2>2, NoneAssumption DEF WriteReceipt, NextGeneration
<1>5. Gen(receipt)' = k + 1 /\ receipt'.graph = c.graph
  BY <1>4 DEF Gen
<1>6. Settled(before.payload, before.bin) /\ CleanFrom(k + 1)
  BY <1>1, <1>3 DEF Moved
<1>7. bin = Links(c.graph) /\ Whole(payload, c.graph)
  <2>1. \A i \in DOMAIN c.graph : Present(PathOf(c.graph[i]))
    BY <1>3 DEF PromotionInv, Promoting
  <2> QED
    BY <1>3, <2>1 DEF BinInv, Promoting, Whole, Paths, Items, Present
<1>8. ASSUME NEW n \in Archived, \A m \in Archived : m <= n
      PROVE  Whole(payload, archive[n])
  <2>1. receipt # None /\ \A m \in Archived : m <= k
    BY <1>1, <1>6, <1>8 DEF Settled
  <2>2. archive[k] = receipt.graph /\ receipt.graph \in Graphs
    BY <1>3, <2>1 DEF TypeInv, FilesOK, Receipt
  <2>3. n = k
    <3>1. k \in Archived
      BY <1>3, <2>2, NoneAssumption DEF Archived
    <3> QED
      BY <1>3, <1>8, <2>1, <3>1 DEF Archived
  <2>4. \A path \in Paths(receipt.graph) : path \in Path /\ before.payload[path] # None
    BY <1>6, <2>1, <2>2 DEF Settled, Whole, Path
  <2>5. \A path \in Path : before.payload[path] # None => payload[path] # None
    <3>1. c.replaced \subseteq c.promoted /\ \A path \in c.promoted : payload[path] # None
      BY <1>3 DEF PromotionInv, Out, Present
    <3> QED
      BY <1>3, <3>1 DEF Moved
  <2> QED
    BY <2>2, <2>3, <2>4, <2>5 DEF Whole
<1>9. Settled(payload, bin)'
  <2>1. \A n \in Archived : n \in Nat /\ n <= k + 1
    BY <1>1, <1>3, <1>6 DEF Archived, Settled
  <2> QED
    BY <1>2, <1>4, <1>5, <1>7, <1>8, <2>1 DEF Settled, Archived, Whole
<1>10. Written'
  <2>1. CleanFrom(k + 1)'
    BY <1>2, <1>6 DEF CleanFrom
  <2>2. journal'.generation = k + 1
    BY <1>1, <1>2, <1>3 DEF JournalOf
  <2> QED
    BY <1>4, <1>5, <1>9, <2>1, <2>2 DEF Written, Calm
<1>11. PlaceInv("finish", c)'
  BY <1>2, <1>3, <1>10
     DEF PlaceInv, StageInv, Recovering, Underway, Tried, RollingBack, Removing
<1> QED
  BY <1>2, <1>3, <1>11, Arrives DEF BeforeOK, EndsWhole

LEMMA FinishKeepsPrefix ==
    ASSUME TypeInv, NEW p \in Proc, PrefixInv(p), JournalReceipt(p) \/ Finish(p)
    PROVE  PrefixInv(p)' /\ EndsWhole
<1>1. PICK c : c = cmd[p]
  OBVIOUS
<1>2. /\ pc[p] \in {"finish", "unlink"} /\ UNCHANGED <<files, before, cmd, stages>>
      /\ cmd' = [cmd EXCEPT ![p] = c]
  BY <1>1, Arguments DEF JournalReceipt, Finish, Goto, active, retained, files
<1>3. Written /\ journal # None /\ BeforeOK /\ BeforeOK'
  BY <1>2 DEF PrefixInv, PlaceInv, BeforeOK
<1>4. Calm'
  BY <1>2, <1>3, FilesKept DEF Written
<1>5. CASE JournalReceipt(p)
  <2>1. /\ pc[p] \in Tried /\ Advance(p, "receipt-written")
        /\ pc' = [pc EXCEPT ![p] = "unlink"]
    BY <1>2, <1>5 DEF JournalReceipt, Goto, Tried
  <2>2. journal \in Journal /\ journal' # None
    BY <2>1, JournalEdits, JournalArguments DEF Phase
  <2>3. journal'.generation = journal.generation /\ journal'.phase = "receipt-written"
    BY <2>1, <2>2 DEF Advance, Journal
  <2>4. Written'
    BY <1>2, <1>3, <1>4, <2>3 DEF Written, files
  <2>5. PlaceInv("unlink", c)'
    BY <2>2, <2>3, <2>4
       DEF PlaceInv, StageInv, Recovering, Underway, Tried, RollingBack, Removing
  <2> QED
    BY <1>2, <1>3, <2>1, <2>2, <2>5, Arrives DEF EndsWhole
<1>6. CASE Finish(p)
  <2>1. pc' = [pc EXCEPT ![p] = "collect"] /\ journal' = None
    BY <1>6 DEF Finish, Goto
  <2>2. PlaceInv("collect", c)'
    BY <1>4, <2>1 DEF PlaceInv, StageInv, Recovering, Underway, Tried, RollingBack, Removing
  <2> QED
    BY <1>2, <1>3, <2>1, <2>2, Arrives DEF EndsWhole, Written
<1> QED
  BY <1>5, <1>6

LEMMA FailureKeepsPrefix ==
    ASSUME TypeInv, PriorInv, NEW p \in Proc, PrefixInv(p), ActivationFails(p)
    PROVE  PrefixInv(p)' /\ EndsWhole
<1>1. pc[p] \in Underway
  BY DEF ActivationFails, PromotionImpossible, SwapImpossible, Underway, Tried
<1>2. Undo(p) /\ End(p) /\ UNCHANGED <<receipt, archive, before>>
  BY DEF ActivationFails, Leave
<1> QED
  BY <1>1, <1>2, UndoRestores, Rests DEF EndsWhole

-----------------------------------------------------------------------------
(* Collection, rollback, removal, and faults *)

LEMMA CollectionKeepsPrefix ==
    ASSUME TypeInv, NEW p \in Proc, PrefixInv(p), Collects(p)
    PROVE  PrefixInv(p)' /\ EndsWhole
<1>1. /\ pc[p] \in {"collect", "drop"}
      /\ UNCHANGED <<bin, receipt, before, journal>>
  BY DEF Collects, CollectPayloads, CollectFails, DropGenerations, Goto, active
<1>2. journal = None /\ Calm /\ BeforeOK /\ BeforeOK'
  BY <1>1 DEF PrefixInv, PlaceInv, BeforeOK
<1>3. /\ Settled(payload, bin) /\ CleanFrom(Gen(receipt)) /\ Gen(receipt)' = Gen(receipt)
      /\ Gen(receipt) \in Generation /\ Generation \subseteq Nat
      /\ payload \in [Path -> Artifact \cup {None}]
      /\ archive \in [Generation -> Graphs \cup {None}]
      /\ receipt # None => receipt.graph \in Graphs
      /\ Archived \subseteq Generation
  BY <1>1, <1>2, GenerationFacts
     DEF Calm, Gen, TypeInv, FilesOK, Contents, Receipt, Archived
<1>4. \A n \in Archived : n <= Gen(receipt)
  BY <1>3 DEF Settled
<1>6. Archived # {} => /\ Newest(Archived) \in Archived
                       /\ \A m \in Archived : m <= Newest(Archived)
  BY <1>3, NewestArchived
<1>7. Kept = {n \in Archived : \A m \in Archived : m <= n}
  <2>1. CASE Archived = {}
    BY <2>1 DEF Kept
  <2>2. CASE Archived # {}
    <3>1. Kept = {Newest(Archived)}
      BY <2>2 DEF Kept
    <3>2. \A n \in Archived : n \in Nat /\ Newest(Archived) \in Nat
      BY <1>3, <1>6
    <3> QED
      BY <1>6, <2>2, <3>1, <3>2
  <2> QED
    BY <2>1, <2>2
<1>8. CASE CollectPayloads(p)
  <2>1. /\ UNCHANGED <<archive, binBackup, payloadBackup, cmd>>
        /\ pc' = [pc EXCEPT ![p] = "drop"] /\ cmd' = [cmd EXCEPT ![p] = cmd[p]]
        /\ receipt # None
        /\ payload' = [path \in Path |-> IF path \in Referenced THEN payload[path] ELSE None]
    BY <1>8, Arguments DEF CollectPayloads, Goto, retained
  <2>2. ASSUME NEW g \in Graphs, Whole(payload, g), Paths(g) \subseteq Referenced
        PROVE  Whole(payload', g)
    <3>1. Paths(g) \subseteq Path
      BY DEF Path
    <3> QED
      BY <2>1, <2>2, <3>1 DEF Whole
  <2>3. Whole(payload', receipt.graph)
    BY <1>3, <2>1, <2>2 DEF Settled, Referenced
  <2>4. ASSUME NEW n \in Archived, \A m \in Archived : m <= n
        PROVE  Whole(payload', archive[n])
    <3>1. archive[n] \in Graphs /\ n \in Kept
      BY <1>3, <1>7, <2>4 DEF Archived
    <3>2. Paths(archive[n]) \subseteq Referenced
      BY <3>1 DEF Referenced
    <3> QED
      BY <1>3, <2>2, <2>4, <3>1, <3>2 DEF Settled
  <2>5. Settled(payload, bin)'
    BY <1>1, <1>3, <2>1, <2>3, <2>4 DEF Settled, Archived, Whole
  <2>6. CleanFrom(Gen(receipt))'
    BY <1>3, <2>1 DEF CleanFrom
  <2>7. PlaceInv("drop", cmd[p])'
    BY <1>1, <1>2, <2>5, <2>6
       DEF Calm, PlaceInv, StageInv, Recovering, Underway, Tried, RollingBack, Removing
  <2> QED
    BY <1>1, <1>2, <2>1, <2>7, Arrives DEF EndsWhole
<1>9. CASE CollectFails(p)
  <2>1. End(p) /\ UNCHANGED files
    BY <1>9 DEF CollectFails, active, retained, files
  <2> QED
    BY <1>1, <1>2, <2>1, FilesKept, Rests DEF Left, EndsWhole
<1>10. CASE DropGenerations(p)
  <2> DEFINE old == Archived \ Kept
  <2>1. /\ End(p) /\ UNCHANGED payload
        /\ archive' = [n \in Generation |-> IF n \in old THEN None ELSE archive[n]]
        /\ binBackup' = [n \in Generation |-> IF n \in old THEN None ELSE binBackup[n]]
        /\ payloadBackup' = [n \in Generation |-> IF n \in old THEN Nothing
                                                  ELSE payloadBackup[n]]
    BY <1>10 DEF DropGenerations, Leave, active
  <2> HIDE DEF old
  <2>2. /\ \A n \in Generation : archive'[n] = IF n \in old THEN None ELSE archive[n]
        /\ \A n \in Generation :
              /\ binBackup'[n] \in {None, binBackup[n]}
              /\ payloadBackup'[n] \in {Nothing, payloadBackup[n]}
    BY <2>1
  <2>3. Archived' = Kept /\ \A n \in Kept : archive'[n] = archive[n]
    BY <1>3, <1>7, <2>2 DEF Archived, old
  <2>4. Settled(payload, bin)'
    <3>1. \A n \in Kept : n \in Archived /\ \A m \in Archived : m <= n
      BY <1>7
    <3> QED
      BY <1>1, <1>3, <1>4, <2>1, <2>3, <3>1 DEF Settled, Whole
  <2>5. CleanFrom(Gen(receipt))'
    BY <1>3, <2>2 DEF CleanFrom
  <2> QED
    BY <1>1, <1>2, <2>1, <2>4, <2>5, Rests DEF Calm, Left, EndsWhole
<1> QED
  BY <1>8, <1>9, <1>10 DEF Collects

LEMMA RollbackKeepsPrefix ==
    ASSUME TypeInv, PriorInv, NEW p \in Proc, PrefixInv(p), RollsBack(p)
    PROVE  PrefixInv(p)' /\ EndsWhole
<1>1. PICK c, k : c = cmd[p] /\ k = Gen(receipt)
  OBVIOUS
<1>2. /\ pc[p] \in {"rollback", "archiveActive", "swapBack", "switchBack", "receiptBack"}
      /\ UNCHANGED <<payload, before, journal>>
  BY DEF RollsBack, BeginRollback, RollbackImpossible, ArchiveActive, SwapBack,
         SwapBackFails, SwitchBack, ReceiptBack, Goto, active
<1>3. journal = None /\ BeforeOK /\ BeforeOK' /\ (pc[p] = "rollback" => Calm)
  BY <1>2 DEF PrefixInv, PlaceInv, RollbackInv, RollingBack, BeforeOK
<1>4. pc[p] # "rollback" => RollbackInv(pc[p], c)
  BY <1>1, <1>2 DEF PrefixInv, PlaceInv, RollingBack
<1>5. /\ c.prior = receipt /\ receipt # None /\ receipt.graph \in Graphs
      /\ PriorGeneration(p) = k /\ k \in Generation /\ Generation \subseteq Nat
      /\ k + 1 \in Generation /\ c.graph \in Graphs
      /\ cmd = [cmd EXCEPT ![p] = c]
      /\ archive \in [Generation -> Graphs \cup {None}]
      /\ binBackup \in [Generation -> LinkSets]
  <2>1. pc[p] \in Rolling /\ pc[p] \in WithGraph /\ pc[p] \in Writing
        /\ pc[p] \in {"rollback"} \cup RollingBack
    BY <1>2 DEF Rolling, RollingBack, WithGraph, Writing
  <2>2. c.prior = receipt /\ receipt # None
    BY <1>1, <2>1, Arguments DEF PriorInv, Fits
  <2>3. receipt \in Receipt
    BY <2>2 DEF TypeInv, FilesOK
  <2> QED
    BY <1>1, <2>1, <2>2, <2>3, Arguments, ItemArguments, GenerationFacts
       DEF Receipt, TypeInv, FilesOK
<1>6. ASSUME NEW to \in RollingBack, pc' = [pc EXCEPT ![p] = to], UNCHANGED cmd,
             RollbackInv(to, c)'
      PROVE  PrefixInv(p)' /\ EndsWhole
  <2>1. PlaceInv(to, c)'
    BY <1>6 DEF PlaceInv, StageInv, Recovering, Underway, Tried, RollingBack, Removing
  <2> QED
    BY <1>2, <1>3, <1>5, <1>6, <2>1, Arrives DEF EndsWhole
<1>7. ASSUME End(p), Calm' PROVE PrefixInv(p)' /\ EndsWhole
  BY <1>2, <1>3, <1>7, Rests DEF Left, EndsWhole
<1>8. CASE BeginRollback(p)
  <2>1. /\ pc[p] = "rollback" /\ pc' = [pc EXCEPT ![p] = "archiveActive"]
        /\ UNCHANGED <<files, cmd>> /\ Whole(payload, c.graph)
    BY <1>1, <1>8 DEF BeginRollback, Goto, active, files, Whole, Present
  <2>2. Calm /\ Calm'
    BY <1>3, <2>1, FilesKept
  <2>3. /\ CleanFrom(k + 1) /\ Whole(payload, receipt.graph)
        /\ \A n \in Archived : n <= k
    <3>1. Settled(payload, bin) /\ CleanFrom(k)
      BY <1>1, <2>2 DEF Calm
    <3>2. \A n \in Generation : n >= k + 1 => n >= k
      BY <1>5
    <3> QED
      BY <1>1, <1>5, <3>1, <3>2 DEF Settled, CleanFrom
  <2>4. RollbackInv("archiveActive", c)'
    BY <1>1, <1>2, <1>3, <1>5, <2>1, <2>2, <2>3
       DEF RollbackInv, files, Whole, Archived, CleanFrom, Gen
  <2> QED
    BY <1>6, <2>1, <2>4 DEF RollingBack
<1>9. CASE RollbackImpossible(p)
  <2>1. pc[p] = "rollback" /\ End(p) /\ UNCHANGED files
    BY <1>9 DEF RollbackImpossible, active, files
  <2> QED
    BY <1>3, <1>7, <2>1, FilesKept
<1>10. CASE ArchiveActive(p)
  <2>1. /\ pc[p] = "archiveActive" /\ pc' = [pc EXCEPT ![p] = "swapBack"]
        /\ archive' = [archive EXCEPT ![k] = receipt.graph]
        /\ UNCHANGED <<payload, bin, receipt, binBackup, payloadBackup, cmd>>
    BY <1>1, <1>5, <1>10 DEF ArchiveActive, Goto, active
  <2>2. /\ archive'[k] = receipt.graph
        /\ \A n \in Generation : n # k => archive'[n] = archive[n]
        /\ Gen(receipt)' = k
    BY <1>1, <1>5, <2>1 DEF Gen
  <2>3. /\ RollbackInv("archiveActive", c) /\ Settled(payload, bin) /\ CleanFrom(k)
        /\ Whole(payload, receipt.graph) /\ CleanFrom(k + 1)
        /\ \A n \in Archived : n <= k
    BY <1>1, <1>4, <2>1 DEF RollbackInv, Calm
  <2>4. \A n \in Archived' : n \in Nat /\ n <= k
    BY <1>5, <2>2, <2>3 DEF Archived
  <2>5. k \in Archived'
    BY <1>5, <2>2, NoneAssumption DEF Archived
  <2>6. ASSUME NEW n \in Archived', \A m \in Archived' : m <= n
        PROVE  n = k
    BY <1>5, <2>4, <2>5, <2>6
  <2>7. Settled(payload, bin)'
    BY <1>5, <2>1, <2>2, <2>3, <2>4, <2>6 DEF Settled, Whole
  <2>8. CleanFrom(k)' /\ CleanFrom(k + 1)'
    BY <2>1, <2>3 DEF CleanFrom
  <2>9. Whole(payload, c.graph)' /\ Whole(payload, receipt.graph)'
    BY <2>1, <2>3 DEF RollbackInv, Whole
  <2>10. RollbackInv("swapBack", c)'
    BY <1>2, <1>3, <1>5, <2>1, <2>2, <2>4, <2>7, <2>8, <2>9 DEF RollbackInv, Calm
  <2> QED
    BY <1>6, <2>1, <2>10 DEF RollingBack
<1>11. CASE SwapBack(p)
  <2>1. /\ pc[p] = "swapBack" /\ pc' = [pc EXCEPT ![p] = "switchBack"]
        /\ binBackup' = [binBackup EXCEPT ![k] = bin] /\ bin' = None
        /\ UNCHANGED <<payload, receipt, archive, payloadBackup, cmd>>
    BY <1>1, <1>5, <1>11 DEF SwapBack, Goto
  <2>2. CleanFrom(k + 1)'
    <3>1. \A n \in Generation : n >= k + 1 => binBackup'[n] = binBackup[n]
      BY <1>5, <2>1
    <3> QED
      BY <1>1, <1>4, <2>1, <3>1 DEF RollbackInv, CleanFrom
  <2>3. RollbackInv("switchBack", c)'
    BY <1>1, <1>2, <1>4, <2>1, <2>2 DEF RollbackInv, Whole, Archived, Gen
  <2> QED
    BY <1>6, <2>1, <2>3 DEF RollingBack
<1>12. CASE SwapBackFails(p)
  <2>1. pc[p] = "swapBack" /\ bin = None
    BY <1>12 DEF SwapBackFails
  <2>2. bin = Links(receipt.graph)
    BY <1>4, <1>5, <2>1 DEF RollbackInv, Calm, Settled
  <2> QED
    BY <1>5, <2>1, <2>2, NoneAssumption
<1>13. CASE SwitchBack(p)
  <2>1. /\ pc[p] = "switchBack" /\ pc' = [pc EXCEPT ![p] = "receiptBack"]
        /\ bin' = Links(c.graph)
        /\ UNCHANGED <<payload, receipt, archive, binBackup, payloadBackup, cmd>>
    BY <1>1, <1>13 DEF SwitchBack, Goto
  <2>2. RollbackInv("receiptBack", c)'
    BY <1>1, <1>2, <1>4, <2>1 DEF RollbackInv, Whole, Archived, CleanFrom, Gen
  <2> QED
    BY <1>6, <2>1, <2>2 DEF RollingBack
<1>14. CASE ReceiptBack(p)
  <2>1. /\ pc[p] = "receiptBack" /\ pc' = [pc EXCEPT ![p] = "collect"]
        /\ receipt' = [generation |-> k + 1, graph |-> c.graph]
        /\ UNCHANGED <<payload, bin, archive, binBackup, payloadBackup, cmd>>
    BY <1>1, <1>5, <1>14 DEF ReceiptBack, Goto, NextGeneration, retained
  <2>2. receipt' # None
    <3>1. [generation |-> k + 1, graph |-> c.graph] \in Receipt
      BY <1>5 DEF Receipt
    <3> QED
      BY <2>1, <3>1, NoneAssumption
  <2>3. Gen(receipt)' = k + 1 /\ receipt'.graph = c.graph
    BY <2>1, <2>2 DEF Gen
  <2>4. RollbackInv("receiptBack", c)
    BY <1>4, <2>1
  <2>5. \A n \in Archived : n \in Nat /\ n <= k
    BY <1>1, <1>5, <2>4 DEF RollbackInv, Archived
  <2>6. archive[k] = receipt.graph /\ k \in Archived
    BY <1>1, <1>5, <2>4, NoneAssumption DEF RollbackInv, Archived
  <2>7. ASSUME NEW n \in Archived, \A m \in Archived : m <= n
        PROVE  Whole(payload, archive[n])
    <3>1. n = k
      BY <1>5, <2>5, <2>6, <2>7
    <3> QED
      BY <2>4, <2>6, <3>1 DEF RollbackInv
  <2>8. Settled(payload, bin)'
    <3>1. \A n \in Archived : n <= k + 1
      BY <1>5, <2>5
    <3> QED
      BY <2>1, <2>2, <2>3, <2>4, <2>7, <3>1 DEF RollbackInv, Settled, Archived, Whole
  <2>9. Calm'
    BY <1>1, <2>1, <2>3, <2>4, <2>8 DEF RollbackInv, Calm, CleanFrom
  <2>10. PlaceInv("collect", c)'
    BY <1>2, <1>3, <2>9 DEF PlaceInv, StageInv, Recovering, Underway, Tried, RollingBack,
                            Removing
  <2> QED
    BY <1>2, <1>3, <1>5, <2>1, <2>10, Arrives DEF EndsWhole
<1> QED
  BY <1>8, <1>9, <1>10, <1>11, <1>12, <1>13, <1>14 DEF RollsBack

LEMMA RemovalKeepsPrefix ==
    ASSUME TypeInv, NEW p \in Proc, PrefixInv(p), Removes(p)
    PROVE  PrefixInv(p)' /\ EndsWhole
<1>1. PICK c : c = cmd[p]
  OBVIOUS
<1>2. /\ pc[p] \in {"uninstall"} \cup Removing /\ UNCHANGED <<journal, before>>
      /\ cmd = [cmd EXCEPT ![p] = c]
  BY <1>1, Arguments
     DEF Removes, RemoveBin, RemovePackages, RemoveManaged, RemoveReceipt, Goto, Removing
<1>3. journal = None /\ BeforeOK /\ BeforeOK'
  BY <1>2 DEF PrefixInv, PlaceInv, BeforeOK
<1>4. ASSUME NEW to \in Removing, pc' = [pc EXCEPT ![p] = to], UNCHANGED cmd,
             to = "removeReceipt" => Archived' = {} /\ CleanFrom(0)'
      PROVE  PrefixInv(p)' /\ EndsWhole
  <2>1. PlaceInv(to, c)'
    BY <1>2, <1>3, <1>4
       DEF PlaceInv, StageInv, Recovering, Underway, Tried, RollingBack, Removing
  <2> QED
    BY <1>2, <1>3, <1>4, <2>1, Arrives DEF EndsWhole
<1>5. CASE RemoveBin(p) \/ RemovePackages(p)
  BY <1>4, <1>5 DEF RemoveBin, RemovePackages, Goto, Removing
<1>6. CASE RemoveManaged(p)
  <2>1. /\ pc' = [pc EXCEPT ![p] = "removeReceipt"] /\ UNCHANGED cmd
        /\ archive' = [n \in Generation |-> None]
        /\ binBackup' = [n \in Generation |-> None]
        /\ payloadBackup' = [n \in Generation |-> Nothing]
    BY <1>6 DEF RemoveManaged, Goto
  <2>2. Archived' = {} /\ CleanFrom(0)'
    BY <2>1 DEF Archived, CleanFrom
  <2> QED
    BY <1>4, <2>1, <2>2 DEF Removing
<1>7. CASE RemoveReceipt(p)
  <2>1. /\ pc[p] = "removeReceipt" /\ receipt' = None /\ End(p)
        /\ UNCHANGED <<payload, bin, archive, binBackup, payloadBackup>>
    BY <1>7 DEF RemoveReceipt, Leave, retained
  <2>2. Archived = {} /\ CleanFrom(0)
    BY <2>1 DEF PrefixInv, PlaceInv
  <2>3. Archived' = {} /\ CleanFrom(0)'
    BY <2>1, <2>2 DEF Archived, CleanFrom
  <2>4. Calm'
    BY <2>1, <2>3 DEF Calm, Settled, Gen
  <2> QED
    BY <1>2, <1>3, <2>1, <2>4, Rests DEF Left, EndsWhole
<1> QED
  BY <1>5, <1>6, <1>7 DEF Removes

\* Where a fault leaves the files and the journal alone, what it leaves can be
\* found by the next command.
LEMMA StopsAreFound ==
    ASSUME TypeInv, PriorInv, NEW p \in Proc, PrefixInv(p),
           pc[p] \in StopCovered, pc[p] # "script"
    PROVE  Left
<1>1. CASE pc[p] \in {"prepare", "drop"}
  BY <1>1 DEF PrefixInv, PlaceInv, Left
<1>2. CASE pc[p] \in {"archiveActive", "swapBack"}
  BY <1>2 DEF PrefixInv, PlaceInv, RollingBack, RollbackInv, Left
<1>3. CASE pc[p] \in {"recoverBin", "recoverBackup"}
  BY <1>3 DEF PrefixInv, PlaceInv, Recovering, RecoveryInv, Left
<1>4. CASE pc[p] = "unlink"
  BY <1>4 DEF PrefixInv, PlaceInv, Left
<1>5. CASE pc[p] \in {"swap", "archive", "receipt"}
  <2>1. pc[p] \in Underway
    BY <1>5 DEF Underway, Tried
  <2>2. PICK c, s : c = cmd[p] /\ s = c.stage
    OBVIOUS
  <2>3. /\ UnderwayInv(pc[p], c) /\ stages[s].status = "ready"
        /\ journal \in Journal
    BY <2>1, <2>2, UnderwayFacts
  <2>4. /\ journal # None /\ Moved(c.promoted, c.replaced) /\ BinInv(pc[p], c)
        /\ journal.stage = s /\ journal.generation = Gen(receipt) + 1
        /\ journal.promoted = c.promoted /\ journal.replaced = c.replaced
        /\ Out(c.promoted, s) /\ c.replaced \subseteq c.promoted
    BY <1>5, <2>2, <2>3 DEF UnderwayInv, JournalOf, PromotionInv
  <2>5. IF pc[p] = "swap" THEN journal.phase = "payloads-promoted" /\ OldBin
        ELSE /\ journal.phase = "bin-activated" /\ journal.binBackup = c.swapped
             /\ NewBin(c.swapped)
    BY <1>5, <2>3, <2>4 DEF UnderwayInv, JournalOf, BinInv, Promoting
  <2>6. JournalSound
    BY <2>3, <2>4, <2>5 DEF JournalSound
  <2>7. PromotedOut
    BY <2>4 DEF PromotedOut
  <2> QED
    BY <2>5, <2>6, <2>7 DEF Unrecovered, Left
<1> QED
  BY <1>1, <1>2, <1>3, <1>4, <1>5 DEF StopCovered

LEMMA FaultsKeepPrefix ==
    ASSUME TypeInv, PriorInv, Covered, NEW p \in Proc, PrefixInv(p),
           Error(p) \/ Interrupt(p) \/ Kill(p)
    PROVE  PrefixInv(p)' /\ EndsWhole
<1>1. BeforeOK
  BY DEF PrefixInv
<1>2. ASSUME End(p), UNCHANGED <<active, retained, journal, stages, before>>,
             pc[p] \in StopCovered
      PROVE  PrefixInv(p)' /\ EndsWhole
  <2>1. UNCHANGED <<files, journal, before, stages>>
    BY <1>2 DEF active, retained, files
  <2>2. Left
    BY <1>2, StopsAreFound DEF PrefixInv, PlaceInv
  <2>3. Left' /\ BeforeOK'
    BY <1>1, <2>1, <2>2, LeftKept DEF BeforeOK
  <2> QED
    BY <1>2, <2>1, <2>3, Rests DEF EndsWhole
<1>3. CASE Interrupt(p) \/ Kill(p)
  BY <1>2, <1>3 DEF Interrupt, Kill, Leave, Covered
<1>4. CASE Error(p) /\ pc[p] \in Staging
  <2>1. StageFails(p) /\ pc[p] = "script"
    BY <1>4 DEF Error, Staging, Tried
  <2>2. /\ UNCHANGED <<files, journal, before>> /\ End(p)
        /\ stages' = [stages EXCEPT ![cmd[p].stage].status = "failed"]
    BY <2>1 DEF StageFails, Leave, active, retained, files
  <2>3. Left /\ stages[cmd[p].stage].status = "staging"
    BY <2>1 DEF PrefixInv, PlaceInv, StageInv
  <2>4. \A t \in 1..Len(stages) : t # cmd[p].stage => stages'[t] = stages[t]
    BY <2>2 DEF TypeInv, StagesOK
  <2>5. Left' /\ BeforeOK'
    BY <1>1, <2>2, <2>3, <2>4, StagingKeepsLeft DEF BeforeOK
  <2> QED
    BY <2>2, <2>5, Rests DEF EndsWhole
<1>5. CASE Error(p) /\ pc[p] \in Tried
  <2>1. pc[p] \in Underway /\ Undo(p) /\ End(p) /\ UNCHANGED <<receipt, archive, before>>
    BY <1>5 DEF Error, Staging, Tried, Leave, Covered, ErrorCovered, Underway
  <2> QED
    BY <2>1, UndoRestores, Rests DEF EndsWhole
<1>6. CASE Error(p) /\ pc[p] \notin Staging \cup Tried
  BY <1>2, <1>6 DEF Error, Leave, Covered, ErrorCovered, StopCovered, Staging, Tried
<1> QED
  BY <1>3, <1>4, <1>5, <1>6

-----------------------------------------------------------------------------
(* The theorems of the prefix *)

\* One command after the other.
OneProcess == \E p : Proc = {p}

AllPrefix == TypeInv /\ PriorInv /\ \A p \in Proc : PrefixInv(p)

LEMMA PrefixInit == Init => AllPrefix
<1> SUFFICES ASSUME Init PROVE AllPrefix
  OBVIOUS
<1>1. TypeInv
  BY TypeInvInit
<1>2. PriorInv
  BY DEF Init, PriorInv, Underway, Tried, Rolling, RollingBack
<1>3. BeforeOK
  BY DEF Init, BeforeOK, Nothing, Contents, LinkSets
<1>4. Archived = {}
  BY DEF Init, Archived
<1>5. Calm
  BY <1>4 DEF Init, Calm, Settled, CleanFrom
<1>6. Left
  BY <1>5 DEF Init, Left
<1>7. ASSUME NEW p \in Proc PROVE PrefixInv(p)
  <2>1. pc[p] = "idle"
    BY DEF Init
  <2> QED
    BY <1>3, <1>6, <2>1
       DEF PrefixInv, PlaceInv, StageInv, Recovering, Underway, Tried, RollingBack, Removing
<1> QED
  BY <1>1, <1>2, <1>7 DEF AllPrefix

LEMMA PrefixStutters ==
    ASSUME AllPrefix, UNCHANGED vars, NEW p \in Proc PROVE PrefixInv(p)'
<1>1. /\ UNCHANGED <<payload, bin, receipt, archive, binBackup, payloadBackup, journal>>
      /\ UNCHANGED <<stages, pc, cmd, before>>
  BY DEF vars, active, retained
<1>2. PrefixInv(p)
  BY DEF AllPrefix
<1> QED
  BY <1>1, <1>2
     DEF PrefixInv, BeforeOK, PlaceInv, Left, Calm, Settled, CleanFrom, Archived, Whole, Gen,
         Moved, OldBin, NewBin, Out, Present, JournalSound, PromotedOut, Unrecovered, Written,
         RecoveryInv, PromotionInv, BinInv, JournalOf, UnderwayInv, RollbackInv, StageInv

LEMMA PrefixStep ==
    ASSUME Covered, OneProcess, AllPrefix, [Next]_vars
    PROVE  AllPrefix' /\ [EndsWhole]_vars
<1>1. TypeInv /\ PriorInv
  BY DEF AllPrefix
<1>2. TypeInv' /\ PriorInv'
  BY <1>1, TypeInvStep, PriorInvStep DEF Covered
<1>3. CASE UNCHANGED vars
  BY <1>2, <1>3, PrefixStutters DEF AllPrefix
<1>4. ASSUME NEW p \in Proc,
             \/ Commanded(p) \/ Refused(p)
             \/ Stages(p) \/ Recovers(p) \/ Activates(p) \/ Collects(p)
             \/ RollsBack(p) \/ Removes(p)
             \/ Error(p) \/ Interrupt(p) \/ Kill(p)
      PROVE  PrefixInv(p)' /\ EndsWhole
  <2>1. PrefixInv(p) /\ Orderly /\ Distinct
    BY DEF AllPrefix, Covered, Distinct
  <2>2. CASE Commanded(p) \/ Refused(p)
    BY <1>1, <2>1, <2>2, CommandsKeepPrefix
       DEF EndsWhole, Commanded, Deploy, Resume, Rollback, Uninstall, Start, Refused
  <2>3. CASE Stages(p)
    BY <1>1, <2>1, <2>3, StagingKeepsPrefix
       DEF EndsWhole, Stages, Select, BeginStage, StageItem, StageLast, StageOccupied
  <2>4. CASE Activates(p)
    BY <1>1, <2>1, <2>4, ActivateKeepsPrefix, PrepareKeepsPrefix, PromotionKeepsPrefix,
       SwitchKeepsPrefix, ArchiveKeepsPrefix, ReceiptKeepsPrefix, FinishKeepsPrefix,
       FailureKeepsPrefix DEF Activates
  <2>5. CASE Recovers(p) \/ Collects(p) \/ RollsBack(p) \/ Removes(p)
    BY <1>1, <2>1, <2>5, RecoveryKeepsPrefix, CollectionKeepsPrefix, RollbackKeepsPrefix,
       RemovalKeepsPrefix
  <2>6. CASE Error(p) \/ Interrupt(p) \/ Kill(p)
    BY <1>1, <2>1, <2>6, FaultsKeepPrefix
  <2> QED
    BY <1>4, <2>2, <2>3, <2>4, <2>5, <2>6
<1>5. CASE Next
  <2>1. PICK p : Proc = {p}
    BY DEF OneProcess
  <2>2. PrefixInv(p)' /\ EndsWhole
    BY <1>4, <1>5, <2>1 DEF Next
  <2> QED
    BY <1>2, <2>1, <2>2 DEF AllPrefix
<1> QED
  BY <1>3, <1>5

\* What is found when nobody is at work and no journal is left.
LEMMA RestingIsCalm ==
    ASSUME OneProcess, AllPrefix, Resting PROVE Calm
<1>1. PICK p \in Proc : PrefixInv(p)
  BY DEF OneProcess, AllPrefix
<1>2. pc[p] \in Place /\ pc[p] \notin Locked
  BY DEF AllPrefix, TypeInv, LockInv, LockTypeOK, Held, Resting
<1>3. pc[p] \in {"idle", "select", "stage", "activate", "collect", "rollback", "uninstall"}
  BY <1>2 DEF Place
<1>4. Left \/ Calm
  BY <1>1, <1>3 DEF PrefixInv, PlaceInv
<1> QED
  BY <1>4 DEF Left, Resting, Unrecovered, JournalSound

\* The generation a rollback selects by default has its payloads, whatever was
\* activated, collected, undone, rolled back, interrupted and recovered before.
THEOREM RollbackTargetsAreIntact ==
    ASSUME Covered, OneProcess PROVE Spec => []RollbackTargetIntact
<1>1. AllPrefix => RollbackTargetIntact
  <2> SUFFICES ASSUME AllPrefix, Resting, Archived # {}
               PROVE  \A path \in Paths(archive[Newest(Archived)]) : Present(path)
    BY DEF RollbackTargetIntact
  <2>1. Settled(payload, bin) /\ TypeInv
    BY RestingIsCalm DEF Calm, AllPrefix
  <2>2. Newest(Archived) \in Archived /\ \A m \in Archived : m <= Newest(Archived)
    BY <2>1, NewestArchived
  <2>3. Whole(payload, archive[Newest(Archived)])
    BY <2>1, <2>2 DEF Settled
  <2> QED
    BY <2>3 DEF Whole, Present
<1> QED
  BY <1>1, PrefixInit, PrefixStep, PTL DEF Spec

\* An activation that ends, by itself, by its except clause or by the recovery
\* of the next one, ends with its receipt or with payloads and bin as it found them.
THEOREM ActivationIsAllOrNothing ==
    ASSUME Covered, OneProcess PROVE Spec => AllOrNothing
<1>1. [EndsWhole]_vars => [journal # None /\ journal' = None
         => \/ receipt # None /\ receipt.generation = journal.generation
            \/ payload' = before.payload /\ bin' = before.bin]_vars
  BY DEF EndsWhole
<1> QED
  BY <1>1, PrefixInit, PrefixStep, PTL DEF Spec, AllOrNothing

\* Payloads that were only added to leave the old graph as it was.
LEMMA AdditionsKeepGraph ==
    ASSUME NEW P, Moved(P, {}), receipt \in Receipt PROVE Whole(payload, receipt.graph)
<1>1. Whole(before.payload, receipt.graph)
  BY NoneAssumption DEF Moved, Settled
<1>2. Paths(receipt.graph) \subseteq Path
  BY DEF Path, Receipt
<1>3. \A path \in Path : before.payload[path] # None => payload[path] = before.payload[path]
  BY DEF Moved
<1> QED
  BY <1>1, <1>2, <1>3 DEF Whole

\* The payloads of the active graph stay on disk while another is staged,
\* activated, undone, recovered or rolled back to.
THEOREM OldGraphIsUsable ==
    ASSUME Covered, OneProcess PROVE Spec => []OldGraphStaysUsable
<1>1. AllPrefix => OldGraphStaysUsable
  <2> SUFFICES ASSUME AllPrefix, receipt # None,
                      \A p \in Proc : /\ pc[p] \in Tried => cmd[p].mode # "reinstall"
                                      /\ pc[p] \notin Removing,
                      journal # None => journal.replaced = {}
               PROVE  Whole(payload, receipt.graph)
    BY DEF OldGraphStaysUsable, Whole, Present
  <2>1. PICK p \in Proc : PrefixInv(p)
    BY DEF OneProcess, AllPrefix
  <2>2. PICK c, P : c = cmd[p] /\ P = c.promoted
    OBVIOUS
  <2>3. pc[p] \in Place /\ receipt \in Receipt /\ PlaceInv(pc[p], c)
    BY <2>1, <2>2 DEF AllPrefix, TypeInv, LockInv, LockTypeOK, FilesOK, PrefixInv
  <2>4. Calm => Whole(payload, receipt.graph)
    BY DEF Calm, Settled
  <2>5. JournalSound /\ Moved(journal.promoted, journal.replaced)
           => Whole(payload, receipt.graph)
    BY <2>3, AdditionsKeepGraph DEF JournalSound
  <2>6. Left => Whole(payload, receipt.graph)
    BY <2>4, <2>5 DEF Left, Written, Unrecovered, PromotedOut
  <2>7. CASE pc[p] \in {"idle", "select", "stage", "script", "activate"}
    BY <2>3, <2>6, <2>7 DEF PlaceInv
  <2>8. CASE pc[p] \in {"prepare", "collect", "drop", "rollback", "uninstall"}
    BY <2>3, <2>4, <2>8 DEF PlaceInv
  <2>9. CASE pc[p] \in Recovering
    BY <2>3, <2>4, <2>5, <2>9 DEF PlaceInv, Recovering, RecoveryInv, Unrecovered, PromotedOut
  <2>10. CASE pc[p] \in Underway
    <3>1. UnderwayInv(pc[p], c) /\ c.mode # "reinstall"
      BY <2>2, <2>3, <2>10 DEF PlaceInv, Underway
    <3>2. Moved(P, c.replaced) /\ c.replaced = {}
      BY <2>2, <3>1 DEF UnderwayInv, PromotionInv
    <3> QED
      BY <2>3, <3>2, AdditionsKeepGraph
  <2>11. CASE pc[p] \in {"finish", "unlink"}
    BY <2>3, <2>4, <2>11 DEF PlaceInv, Written
  <2>12. CASE pc[p] \in RollingBack
    BY <2>3, <2>12 DEF PlaceInv, RollbackInv
  <2> QED
    BY <2>3, <2>7, <2>8, <2>9, <2>10, <2>11, <2>12 DEF Place, Locked, Staging, Underway
<1> QED
  BY <1>1, PrefixInit, PrefixStep, PTL DEF Spec

-----------------------------------------------------------------------------
(* What is in a payload directory was staged for it *)

AllItems == UNION {Items(g) : g \in Graphs}

\* The artifacts of a package's version, and no directory at all.
Builds(path) == {None} \cup {item.artifact : item \in {i \in AllItems : PathOf(i) = path}}

GenuineInv ==
    \A path \in Path :
        /\ payload[path] \in Builds(path)
        /\ \A n \in Generation : payloadBackup[n][path] \in Builds(path)
        /\ \A s \in 1..Len(stages) : stages[s].payload[path] \in Builds(path)

\* All graphs agree on the artifact of a package's version.
OneArtifact ==
    \A i, j \in AllItems : PathOf(i) = PathOf(j) => i.artifact = j.artifact

LEMMA StageIsGenuine ==
    ASSUME TypeInv, GenuineInv, NEW s \in 1..Len(stages), NEW st,
           stages' = [stages EXCEPT ![s] = st],
           \A path \in Path : /\ payload'[path] \in Builds(path)
                              /\ \A n \in Generation : payloadBackup'[n][path] \in Builds(path)
                              /\ st.payload[path] \in Builds(path)
    PROVE  GenuineInv'
<1>1. stages \in Seq(Stage) /\ Len(stages') = Len(stages)
  BY DEF TypeInv, StagesOK
<1>2. \A t \in 1..Len(stages) : stages'[t] = IF t = s THEN st ELSE stages[t]
  BY <1>1
<1> QED
  BY <1>1, <1>2 DEF GenuineInv

LEMMA StagingIsGenuine ==
    ASSUME TypeInv, GenuineInv, NEW p \in Proc, Stages(p) PROVE GenuineInv'
<1>1. UNCHANGED <<payload, payloadBackup>> /\ pc[p] \in {"select", "stage", "script"}
  BY DEF Stages, Select, SelectNone, SelectReady, SelectUnready, BeginStage, StageItem,
         StageLast, StageOccupied, Goto, active, retained
<1>2. stages \in Seq(Stage) /\ \A path : None \in Builds(path)
  BY DEF TypeInv, StagesOK, Builds
<1>3. UNCHANGED stages => GenuineInv'
  BY <1>1 DEF GenuineInv
<1>4. ASSUME NEW s \in 1..Len(stages), NEW st, stages' = [stages EXCEPT ![s] = st],
             \A path \in Path : st.payload[path] \in Builds(path)
      PROVE  GenuineInv'
  BY <1>1, <1>4, StageIsGenuine DEF GenuineInv
<1>5. ASSUME NEW s \in 1..Len(stages), NEW status,
             stages' = [stages EXCEPT ![s].status = status]
      PROVE  GenuineInv'
  <2>1. PICK st : st = [stages[s] EXCEPT !.status = status]
    OBVIOUS
  <2>2. st.payload = stages[s].payload /\ stages' = [stages EXCEPT ![s] = st]
    BY <1>2, <1>5, <2>1 DEF Stage
  <2> QED
    BY <1>4, <2>2 DEF GenuineInv
<1>6. CASE Select(p)
  <2>1. CASE UNCHANGED stages
    BY <1>3, <2>1
  <2>2. ASSUME NEW s \in Matches(cmd[p].graph), SelectUnready(p, s) PROVE GenuineInv'
    <3>1. s \in 1..Len(stages)
      BY <1>2 DEF Matches
    <3>2. PICK st : st = [stages[s] EXCEPT !.payload = Nothing]
      OBVIOUS
    <3>3. st.payload = Nothing /\ stages' = [stages EXCEPT ![s] = st]
      BY <1>2, <2>2, <3>1, <3>2 DEF SelectUnready, Stage
    <3>4. \A path \in Path : Nothing[path] \in Builds(path)
      BY <1>2 DEF Nothing
    <3> QED
      BY <1>4, <3>1, <3>3, <3>4
  <2> QED
    BY <1>6, <2>1, <2>2 DEF Select, SelectNone, SelectReady
<1>7. CASE BeginStage(p)
  <2>1. CASE cmd[p].stage = 0
    <3>1. PICK st : st = [graph |-> cmd[p].graph, status |-> "staging",
                          payload |-> Nothing, bin |-> FALSE]
      OBVIOUS
    <3>2. stages' = Append(stages, st) /\ st.payload = Nothing
      BY <1>7, <2>1, <3>1 DEF BeginStage
    <3>3. \A path \in Path : st.payload[path] \in Builds(path)
      BY <1>2, <3>2 DEF Nothing
    <3>4. Len(stages') = Len(stages) + 1 /\ Len(stages) \in Nat
      BY <1>2, <3>2
    <3>5. \A s \in 1..Len(stages') : stages'[s] = IF s = Len(stages) + 1 THEN st
                                                  ELSE stages[s]
      BY <1>2, <3>2, <3>4
    <3>6. \A s \in 1..Len(stages') : s # Len(stages) + 1 => s \in 1..Len(stages)
      BY <3>4
    <3> QED
      BY <1>1, <3>3, <3>5, <3>6 DEF GenuineInv
  <2>2. CASE cmd[p].stage # 0
    <3>1. cmd[p].stage \in 1..Len(stages)
      BY <2>2, StageArguments
    <3> QED
      BY <1>5, <1>7, <2>2, <3>1 DEF BeginStage
  <2> QED
    BY <2>1, <2>2
<1>8. CASE StageItem(p) \/ StageLast(p)
  <2>1. pc[p] \in WithGraph /\ pc[p] \in WithStage
    BY <1>8 DEF StageItem, StageLast, WithGraph, WithStage
  <2>2. PICK s, path, artifact :
           /\ s = cmd[p].stage /\ path = ItemPath(p) /\ artifact = Item(p).artifact
    OBVIOUS
  <2>3. s \in 1..Len(stages) /\ stages[s] \in Stage /\ path \in Path
    BY <2>1, <2>2, StageArguments, ItemArguments DEF Staged
  <2>4. artifact \in Builds(path)
    <3>1. cmd[p].graph \in Graphs /\ cmd[p].next \in DOMAIN cmd[p].graph
      BY <2>1, ItemArguments, GraphFacts
    <3>2. Item(p) \in AllItems
      BY <3>1 DEF AllItems, Items, Item
    <3> QED
      BY <2>2, <3>2 DEF Builds, ItemPath
  <2>5. PICK built : built = [stages[s].payload EXCEPT ![path] = artifact]
    OBVIOUS
  <2>6. \A other \in Path : built[other] \in Builds(other)
    <3>1. stages[s].payload \in Contents
      BY <2>3 DEF Stage
    <3>2. \A other \in Path : built[other] = IF other = path THEN artifact
                                             ELSE stages[s].payload[other]
      BY <2>3, <2>5, <3>1 DEF Contents
    <3> QED
      BY <2>3, <2>4, <3>2 DEF GenuineInv
  <2>7. CASE StageItem(p)
    <3>1. PICK st : st = [stages[s] EXCEPT !.payload = built]
      OBVIOUS
    <3>2. st.payload = built
      BY <2>3, <3>1 DEF Stage
    <3>3. stages' = [stages EXCEPT ![s] = st]
      BY <2>2, <2>5, <2>7, <3>1 DEF StageItem
    <3> QED
      BY <1>4, <2>3, <2>6, <3>2, <3>3
  <2>8. CASE StageLast(p)
    <3> DEFINE whole == \A other \in Paths(cmd[p].graph) : built[other] # None
    <3>1. PICK st : st = [stages[s] EXCEPT !.payload = built,
                             !.status = IF whole THEN "ready" ELSE stages[s].status]
      OBVIOUS
    <3>2. st.payload = built
      BY <2>3, <3>1 DEF Stage
    <3>3. stages' = [stages EXCEPT ![s] = st]
      BY <2>2, <2>5, <2>8, <3>1 DEF StageLast, Staged
    <3> QED
      BY <1>4, <2>3, <2>6, <3>2, <3>3
  <2> QED
    BY <1>8, <2>7, <2>8
<1> QED
  BY <1>3, <1>6, <1>7, <1>8 DEF Stages, StageOccupied

LEMMA RestoredIsGenuine ==
    ASSUME TypeInv, GenuineInv, NEW n \in Generation, NEW R \in SUBSET Path, NEW from,
           \A path \in Path : from[path] \in Builds(path), RestoreReplaced(n, R, from)
    PROVE  \A path \in Path :
              /\ payload'[path] \in Builds(path)
              /\ \A m \in Generation : payloadBackup'[m][path] \in Builds(path)
<1> DEFINE back == {path \in R : payloadBackup[n][path] # None}
           kept == [path \in Path |-> IF path \in back THEN None
                                      ELSE payloadBackup[n][path]]
<1>1. /\ payloadBackup \in [Generation -> Contents]
      /\ \A path : None \in Builds(path)
  BY DEF TypeInv, FilesOK, Builds
<1>2. /\ payload' = [path \in Path |-> IF path \in back THEN payloadBackup[n][path]
                                       ELSE from[path]]
      /\ payloadBackup' = [payloadBackup EXCEPT ![n] = kept]
  BY DEF RestoreReplaced
<1> HIDE DEF back
<1>3. \A path \in Path : payload'[path] \in Builds(path) /\ kept[path] \in Builds(path)
  BY <1>1, <1>2 DEF GenuineInv
<1> HIDE DEF kept
<1>4. \A m \in Generation : payloadBackup'[m] = IF m = n THEN kept ELSE payloadBackup[m]
  BY <1>1, <1>2
<1> QED
  BY <1>3, <1>4 DEF GenuineInv

LEMMA RecoveryIsGenuine ==
    ASSUME TypeInv, GenuineInv, NEW p \in Proc, Recovers(p) PROVE GenuineInv'
<1>1. /\ pc[p] \in Recovering \cup Tried /\ pc[p] \in Recovering
  BY DEF Recovers, RecoverBin, RecoverBackup, RecoverPromoted, RecoverReplaced, Recovered,
         RecoveryFails, Goto, Recovering
<1>2. PICK s, n : s = journal.stage /\ n = journal.generation - 1
  OBVIOUS
<1>3. /\ s \in 1..Len(stages) /\ stages[s] \in Stage /\ n \in Generation
      /\ journal.promoted \subseteq Path /\ journal.replaced \subseteq Path
  BY <1>1, <1>2, JournalArguments
<1>4. \A path : None \in Builds(path)
  BY DEF Builds
<1>5. UNCHANGED <<payload, payloadBackup, stages>> => GenuineInv'
  BY DEF GenuineInv
<1>6. CASE RecoverBin(p)
  <2>1. PICK st : st = [stages[s] EXCEPT !.bin = TRUE]
    OBVIOUS
  <2>2. /\ st.payload = stages[s].payload /\ UNCHANGED <<payload, payloadBackup>>
        /\ UNCHANGED stages \/ stages' = [stages EXCEPT ![s] = st]
    BY <1>2, <1>3, <1>6, <2>1 DEF RecoverBin, Stage, retained
  <2> QED
    BY <1>3, <1>5, <2>2, StageIsGenuine DEF GenuineInv
<1>7. CASE RecoverPromoted(p)
  <2> DEFINE back == {path \in journal.promoted : Present(path)}
             was  == stages[s].payload
             now  == [path \in Path |-> IF path \in back THEN payload[path] ELSE was[path]]
  <2>1. PICK st : st = [stages[s] EXCEPT !.payload = now]
    OBVIOUS
  <2>2. /\ st.payload = now /\ stages' = [stages EXCEPT ![s] = st] /\ UNCHANGED payloadBackup
        /\ payload' = [path \in Path |-> IF path \in back THEN None ELSE payload[path]]
    BY <1>2, <1>3, <1>7, <2>1 DEF RecoverPromoted, Stage, retained
  <2> HIDE DEF back
  <2>3. \A path \in Path : payload'[path] \in Builds(path) /\ now[path] \in Builds(path)
    BY <1>3, <1>4, <2>2 DEF GenuineInv
  <2>4. \A path \in Path : st.payload[path] \in Builds(path)
    BY <2>2, <2>3
  <2> QED
    BY <1>3, <2>2, <2>3, <2>4, StageIsGenuine DEF GenuineInv
<1>8. CASE RecoverReplaced(p)
  <2>1. RestoreReplaced(n, journal.replaced, payload) /\ UNCHANGED stages
    BY <1>2, <1>8 DEF RecoverReplaced
  <2>2. \A path \in Path : payload[path] \in Builds(path)
    BY DEF GenuineInv
  <2> QED
    BY <1>3, <2>1, <2>2, RestoredIsGenuine DEF GenuineInv
<1>9. CASE RecoverBackup(p) \/ Recovered(p) \/ RecoveryFails(p)
  BY <1>5, <1>9 DEF RecoverBackup, Recovered, RecoveryFails, active, retained
<1> QED
  BY <1>6, <1>7, <1>8, <1>9 DEF Recovers

LEMMA UndoIsGenuine ==
    ASSUME TypeInv, GenuineInv, NEW p \in Proc, pc[p] \in Tried, Undo(p) PROVE GenuineInv'
<1>1. PICK s, n, P : s = cmd[p].stage /\ n = PriorGeneration(p) /\ P = cmd[p].promoted
  OBVIOUS
<1>2. /\ s \in 1..Len(stages) /\ stages[s] \in Stage /\ n \in Generation
      /\ cmd[p].replaced \subseteq Path
  BY <1>1, StageArguments, Arguments DEF WithStage, Staged, Command
<1>3. \A path : None \in Builds(path)
  BY DEF Builds
<1>4. CASE UNCHANGED <<payload, payloadBackup, stages>>
  BY <1>4 DEF GenuineInv
<1>5. CASE ~UNCHANGED <<payload, payloadBackup, stages>>
  <2> DEFINE undone == [path \in Path |-> IF path \in P THEN None ELSE payload[path]]
             staged == [path \in Path |-> IF path \in P THEN payload[path]
                                          ELSE stages[s].payload[path]]
             b == stages[s].bin \/ (pc[p] \in Switched /\ bin # None)
  <2>1. PICK st : st = [stages[s] EXCEPT !.payload = staged, !.bin = b]
    OBVIOUS
  <2>2. RestoreReplaced(n, cmd[p].replaced, undone) /\ stages' = [stages EXCEPT ![s] = st]
    BY <1>1, <1>5, <2>1 DEF Undo, Staged
  <2>3. st.payload = staged
    BY <1>2, <2>1 DEF Stage
  <2>4. \A path \in Path : undone[path] \in Builds(path) /\ staged[path] \in Builds(path)
    BY <1>2, <1>3 DEF GenuineInv
  <2> HIDE DEF undone, staged
  <2>5. \A path \in Path : /\ payload'[path] \in Builds(path)
                           /\ \A m \in Generation : payloadBackup'[m][path] \in Builds(path)
    BY <1>2, <2>2, <2>4, RestoredIsGenuine
  <2> QED
    BY <1>2, <2>2, <2>3, <2>4, <2>5, StageIsGenuine
<1> QED
  BY <1>4, <1>5

LEMMA PromotionIsGenuine ==
    ASSUME TypeInv, GenuineInv, NEW p \in Proc, Promotes(p) PROVE GenuineInv'
<1>1. pc[p] \in Tried /\ pc[p] \in WithGraph /\ pc[p] \in WithStage
  BY DEF Promotes, PromoteNew, Reuse, SetAside, PlaceNew, JournalPromoted, Goto, Tried,
         WithGraph, WithStage
<1>2. PICK s, path, n : s = cmd[p].stage /\ path = ItemPath(p) /\ n = PriorGeneration(p)
  OBVIOUS
<1>3. /\ s \in 1..Len(stages) /\ stages[s] \in Stage /\ path \in Path /\ n \in Generation
      /\ stages[s].payload \in [Path -> Artifact \cup {None}]
      /\ payload \in [Path -> Artifact \cup {None}]
      /\ payloadBackup \in [Generation -> [Path -> Artifact \cup {None}]]
  BY <1>1, <1>2, StageArguments, ItemArguments, Arguments
     DEF Staged, Stage, Contents, TypeInv, FilesOK
<1>4. \A other : None \in Builds(other)
  BY DEF Builds
<1>5. PICK rest : rest = [stages[s].payload EXCEPT ![path] = None]
  OBVIOUS
<1>6. \A other \in Path : rest[other] \in Builds(other)
  BY <1>3, <1>4, <1>5 DEF GenuineInv
<1>7. PICK st : st = [stages[s] EXCEPT !.payload = rest]
  OBVIOUS
<1>8. st.payload = rest
  BY <1>3, <1>7 DEF Stage
<1>9. stages' = [stages EXCEPT ![cmd[p].stage].payload[ItemPath(p)] = None]
         => stages' = [stages EXCEPT ![s] = st]
  BY <1>2, <1>5, <1>7
<1>10. CASE PromoteNew(p) \/ PlaceNew(p)
  <2>1. /\ payload' = [payload EXCEPT ![path] = stages[s].payload[path]]
        /\ stages' = [stages EXCEPT ![s] = st] /\ UNCHANGED payloadBackup
    BY <1>2, <1>9, <1>10 DEF PromoteNew, PlaceNew, MoveIntoPlace, Staged, retained
  <2>2. \A other \in Path : payload'[other] \in Builds(other)
    BY <1>3, <2>1 DEF GenuineInv
  <2> QED
    BY <1>3, <1>6, <1>8, <2>1, <2>2, StageIsGenuine DEF GenuineInv
<1>11. CASE Reuse(p)
  <2>1. stages' = [stages EXCEPT ![s] = st] /\ UNCHANGED <<payload, payloadBackup>>
    BY <1>9, <1>11 DEF Reuse, active, retained
  <2> QED
    BY <1>3, <1>6, <1>8, <2>1, StageIsGenuine DEF GenuineInv
<1>12. CASE SetAside(p)
  <2>1. /\ payloadBackup' = [payloadBackup EXCEPT ![n][path] = payload[path]]
        /\ payload' = [payload EXCEPT ![path] = None] /\ UNCHANGED stages
    BY <1>2, <1>12 DEF SetAside
  <2>2. \A other \in Path : payload'[other] \in Builds(other)
    BY <1>3, <1>4, <2>1 DEF GenuineInv
  <2>3. \A m \in Generation : \A other \in Path : payloadBackup'[m][other]
             = IF m = n /\ other = path THEN payload[path] ELSE payloadBackup[m][other]
    BY <1>3, <2>1
  <2> QED
    BY <1>3, <2>1, <2>2, <2>3 DEF GenuineInv
<1>13. CASE JournalPromoted(p)
  BY <1>13 DEF JournalPromoted, active, retained, GenuineInv
<1> QED
  BY <1>10, <1>11, <1>12, <1>13 DEF Promotes

LEMMA GenuineInvStep ==
    ASSUME TypeInv, GenuineInv, [Next]_vars PROVE GenuineInv'
<1>1. UNCHANGED <<payload, payloadBackup, stages>> => GenuineInv'
  BY DEF GenuineInv
<1>2. \A path : None \in Builds(path)
  BY DEF Builds
<1>3. \A path \in Path : Nothing[path] \in Builds(path)
  BY <1>2 DEF Nothing
<1>4. ASSUME NEW p \in Proc,
             \/ Commanded(p) \/ Refused(p)
             \/ Stages(p) \/ Recovers(p) \/ Activates(p) \/ Collects(p)
             \/ RollsBack(p) \/ Removes(p)
             \/ Error(p) \/ Interrupt(p) \/ Kill(p)
      PROVE  GenuineInv'
  <2>1. PICK s : s = cmd[p].stage
    OBVIOUS
  <2>2. pc[p] \in WithStage => s \in 1..Len(stages) /\ stages[s] \in Stage
    BY <2>1, StageArguments DEF Staged
  <2>3. CASE Commanded(p) \/ Refused(p)
    BY <1>1, <2>3 DEF Commanded, Deploy, Resume, Rollback, Uninstall, Start, Refused, active,
                      retained
  <2>4. CASE Stages(p)
    BY <2>4, StagingIsGenuine
  <2>5. CASE Recovers(p)
    BY <2>5, RecoveryIsGenuine
  <2>6. ASSUME NEW b, stages' = [stages EXCEPT ![s].bin = b], pc[p] \in WithStage,
               UNCHANGED <<payload, payloadBackup>>
        PROVE  GenuineInv'
    <3>1. PICK st : st = [stages[s] EXCEPT !.bin = b]
      OBVIOUS
    <3>2. st.payload = stages[s].payload /\ stages' = [stages EXCEPT ![s] = st]
      BY <2>2, <2>6, <3>1 DEF Stage
    <3> QED
      BY <2>2, <2>6, <3>2, StageIsGenuine DEF GenuineInv
  <2>7. CASE Activates(p)
    <3>1. CASE Prepare(p) \/ Switch(p)
      BY <2>1, <2>6, <3>1 DEF Prepare, Switch, Goto, active, retained, WithStage, Tried
    <3>2. CASE Promotes(p)
      BY <3>2, PromotionIsGenuine
    <3>3. CASE ActivationFails(p)
      BY <3>3, UndoIsGenuine
         DEF ActivationFails, PromotionImpossible, SwapImpossible, Tried
    <3>4. CASE \/ Activate(p) \/ PrepareFails(p) \/ Swap(p) \/ JournalSwitched(p)
               \/ ArchivePrior(p) \/ WriteReceipt(p) \/ JournalReceipt(p) \/ Finish(p)
      BY <1>1, <3>4 DEF Activate, PrepareFails, Swap, JournalSwitched, ArchivePrior,
                        WriteReceipt, JournalReceipt, Finish, active, retained
    <3> QED
      BY <2>7, <3>1, <3>2, <3>3, <3>4 DEF Activates
  <2>8. CASE Collects(p)
    <3>1. CASE CollectPayloads(p)
      <4>1. UNCHANGED <<payloadBackup, stages>>
            /\ payload' = [path \in Path |-> IF path \in Referenced THEN payload[path]
                                             ELSE None]
        BY <3>1 DEF CollectPayloads, retained
      <4> QED
        BY <1>2, <4>1 DEF GenuineInv
    <3>2. CASE DropGenerations(p)
      <4> DEFINE old == Archived \ Kept
      <4>1. UNCHANGED <<payload, stages>>
            /\ payloadBackup' = [n \in Generation |-> IF n \in old THEN Nothing
                                                      ELSE payloadBackup[n]]
        BY <3>2 DEF DropGenerations, active
      <4> HIDE DEF old
      <4> QED
        BY <1>3, <4>1 DEF GenuineInv
    <3>3. CASE CollectFails(p)
      BY <1>1, <3>3 DEF CollectFails, active, retained
    <3> QED
      BY <2>8, <3>1, <3>2, <3>3 DEF Collects
  <2>9. CASE RollsBack(p)
    BY <1>1, <2>9 DEF RollsBack, BeginRollback, RollbackImpossible, ArchiveActive, SwapBack,
                      SwapBackFails, SwitchBack, ReceiptBack, active, retained
  <2>10. CASE Removes(p)
    <3>1. CASE RemoveBin(p) \/ RemoveReceipt(p)
      BY <1>1, <3>1 DEF RemoveBin, RemoveReceipt, retained
    <3>2. CASE RemovePackages(p)
      BY <1>3, <3>2 DEF RemovePackages, GenuineInv, retained
    <3>3. CASE RemoveManaged(p)
      <4>1. /\ UNCHANGED payload /\ payloadBackup' = [n \in Generation |-> Nothing]
            /\ stages' = [t \in DOMAIN stages |->
                             [stages[t] EXCEPT !.status = "removed", !.payload = Nothing]]
        BY <3>3 DEF RemoveManaged, active
      <4>2. stages \in Seq(Stage) /\ DOMAIN stages = 1..Len(stages) /\ Len(stages) \in Nat
        BY DEF TypeInv, StagesOK
      <4>3. ASSUME NEW t \in 1..Len(stages)
            PROVE  /\ [stages[t] EXCEPT !.status = "removed", !.payload = Nothing] \in Stage
                   /\ [stages[t] EXCEPT !.status = "removed",
                                        !.payload = Nothing].payload = Nothing
        <5>1. stages[t] \in Stage /\ Nothing \in Contents
          BY <4>2 DEF Contents, Nothing
        <5> QED
          BY <5>1 DEF Stage, Status
      <4>4. stages' = [t \in 1..Len(stages) |->
                         [stages[t] EXCEPT !.status = "removed", !.payload = Nothing]]
        BY <4>1, <4>2
      <4>5. stages' \in [1..Len(stages) -> Stage]
        BY <4>3, <4>4
      <4>6. Len(stages') = Len(stages)
        BY <4>2, <4>5
      <4>7. \A t \in 1..Len(stages) : stages'[t].payload = Nothing
        BY <4>3, <4>4
      <4> QED
        BY <1>3, <4>1, <4>6, <4>7 DEF GenuineInv
    <3> QED
      BY <2>10, <3>1, <3>2, <3>3 DEF Removes
  <2>11. CASE Error(p) \/ Interrupt(p) \/ Kill(p)
    <3>1. CASE StageFails(p) /\ pc[p] \in Staging
      <4>1. /\ UNCHANGED <<payload, payloadBackup>>
            /\ stages' = [stages EXCEPT ![s].status = "failed"] /\ pc[p] \in WithStage
        BY <2>1, <3>1 DEF StageFails, active, retained, Staging, WithStage
      <4>2. PICK st : st = [stages[s] EXCEPT !.status = "failed"]
        OBVIOUS
      <4>3. st.payload = stages[s].payload /\ stages' = [stages EXCEPT ![s] = st]
        BY <2>2, <4>1, <4>2 DEF Stage
      <4> QED
        BY <2>2, <4>1, <4>3, StageIsGenuine DEF GenuineInv
    <3>2. CASE pc[p] \in Tried /\ Undo(p)
      BY <3>2, UndoIsGenuine
    <3>3. CASE UNCHANGED <<active, retained, stages>>
      BY <1>1, <3>3 DEF active, retained
    <3> QED
      BY <2>11, <3>1, <3>2, <3>3 DEF Error, Interrupt, Kill
  <2> QED
    BY <1>4, <2>3, <2>4, <2>5, <2>7, <2>8, <2>9, <2>10, <2>11
<1>5. CASE UNCHANGED vars
  BY <1>1, <1>5 DEF vars, active, retained
<1> QED
  BY <1>4, <1>5 DEF Next

\* When nobody is at work and no journal is left, bin and the payloads on disk are
\* those of the active receipt: each is there, and is the artifact it names.
THEOREM ActiveIsIntact ==
    ASSUME Covered, OneProcess, OneArtifact PROVE Spec => []ActiveIntact
<1>1. Init => GenuineInv
  BY DEF Init, GenuineInv, Builds, Nothing
<1>2. AllPrefix => TypeInv
  BY DEF AllPrefix
<1>3. AllPrefix /\ GenuineInv => ActiveIntact
  <2> SUFFICES ASSUME AllPrefix, GenuineInv, Resting, receipt # None
               PROVE  /\ bin = Links(receipt.graph)
                      /\ \A item \in Items(receipt.graph) :
                            payload[PathOf(item)] = item.artifact
    BY DEF ActiveIntact
  <2>1. bin = Links(receipt.graph) /\ Whole(payload, receipt.graph)
    BY RestingIsCalm DEF Calm, Settled
  <2>2. receipt.graph \in Graphs
    BY DEF AllPrefix, TypeInv, FilesOK, Receipt
  <2>3. ASSUME NEW item \in Items(receipt.graph)
        PROVE  payload[PathOf(item)] = item.artifact
    <3>1. item \in AllItems /\ PathOf(item) \in Path
      BY <2>2 DEF AllItems, Path, Paths
    <3>2. payload[PathOf(item)] # None
      BY <2>1 DEF Whole, Paths
    <3>3. PICK i \in AllItems : PathOf(i) = PathOf(item) /\ payload[PathOf(item)] = i.artifact
      BY <3>1, <3>2 DEF GenuineInv, Builds
    <3> QED
      BY <3>1, <3>3 DEF OneArtifact
  <2> QED
    BY <2>1, <2>3
<1> QED
  BY <1>1, <1>2, <1>3, GenuineInvStep, PrefixInit, PrefixStep, PTL DEF Spec
===============================================================================
