------------------------ MODULE RuntimeActivationProofs ------------------------
(***************************************************************************)
(* Theorems about the runtime prefix, for any number of dbpm processes,    *)
(* graphs, modes, commands and faults: the lock file excludes, no step     *)
(* leaves the types (so none reads past the end of a graph or names a      *)
(* generation or a stage that does not exist).  Where rollbacks and        *)
(* uninstalls are orderly, generations grow, and the active graph and      *)
(* the rollback target keep their payloads.                                *)
(***************************************************************************)
EXTENDS RuntimeActivation, FiniteSetTheorems, WellFoundedInduction, TLAPS

LockTypeOK == pc \in [Proc -> Place] /\ lock \in BOOLEAN

\* A process at a locked step owns the lock file.  (The file may be there
\* without an owner: a killed process leaves it.)
Held == \A p \in Proc : pc[p] \in Locked => lock

\* At most one process is between the creation and the removal of the file.
OneMutator == \A p, q \in Proc : pc[p] \in Locked /\ pc[q] \in Locked => p = q

LockInv == LockTypeOK /\ Held /\ OneMutator

-----------------------------------------------------------------------------
(* What the steps of one process may do to the lock *)

Moves(p, to)    == to \in Place /\ pc' = [pc EXCEPT ![p] = to]
Acquires(p, to) == ~lock /\ lock' = TRUE
Departs(p, to)  == pc[p] \in Locked /\ to \notin Locked /\ lock' \in {lock, FALSE}
Passes(p, to)   == lock' = lock /\ (to \in Locked => pc[p] \in Locked)

Disciplined(p) ==
    \E to \in Place : Moves(p, to) /\ (Acquires(p, to) \/ Departs(p, to) \/ Passes(p, to))

\* Disciplined steps keep the invariant.
LEMMA DisciplineExcludes ==
    ASSUME LockInv, NEW p \in Proc, Disciplined(p) PROVE LockInv'
<1>1. PICK to \in Place : /\ Moves(p, to)
                          /\ Acquires(p, to) \/ Departs(p, to) \/ Passes(p, to)
  BY DEF Disciplined
<1>2. /\ pc' \in [Proc -> Place]
      /\ pc'[p] = to
      /\ \A q \in Proc : q # p => pc'[q] = pc[q]
  BY <1>1 DEF Moves, LockInv, LockTypeOK
<1>3. CASE Acquires(p, to)
  <2>1. \A q \in Proc : pc[q] \notin Locked
    BY <1>3 DEF Acquires, LockInv, Held
  <2> QED
    BY <1>2, <1>3, <2>1 DEF Acquires, LockInv, LockTypeOK, Held, OneMutator
<1>4. CASE Departs(p, to)
  <2>1. \A q \in Proc : q # p => pc[q] \notin Locked
    BY <1>4 DEF Departs, LockInv, OneMutator
  <2> QED
    BY <1>2, <1>4, <2>1 DEF Departs, LockInv, LockTypeOK, Held, OneMutator
<1>5. CASE Passes(p, to)
  BY <1>2, <1>5 DEF Passes, LockInv, LockTypeOK, Held, OneMutator
<1> QED
  BY <1>1, <1>3, <1>4, <1>5

\* The forms in which the actions move and treat the lock.
LEMMA Forms ==
    ASSUME LockInv, NEW p \in Proc
    PROVE  /\ \A from, to \in Place :
                 /\ Goto(p, from, to) /\ Lock => Disciplined(p)
                 /\ Goto(p, from, to) /\ UNCHANGED lock /\ (to \in Locked => from \in Locked)
                       => Disciplined(p)
                 /\ Goto(p, from, to) /\ Unlock /\ from \in Locked /\ to \notin Locked
                       => Disciplined(p)
           /\ pc[p] \in Locked /\ Leave(p) => Disciplined(p)
           /\ End(p) /\ UNCHANGED lock => Disciplined(p)
           /\ UNCHANGED <<pc, lock>> => Disciplined(p)
<1> "idle" \in Place /\ "idle" \notin Locked
  BY DEF Place, Locked, Staging, Recovering, Tried, RollingBack, Removing
<1> USE DEF Disciplined, Moves, Acquires, Departs, Passes, Goto, Lock, Unlock, Leave, End,
            LockInv, LockTypeOK
<1>1. ASSUME NEW from \in Place, NEW to \in Place
      PROVE  /\ Goto(p, from, to) /\ Lock => Disciplined(p)
             /\ Goto(p, from, to) /\ UNCHANGED lock /\ (to \in Locked => from \in Locked)
                   => Disciplined(p)
             /\ Goto(p, from, to) /\ Unlock /\ from \in Locked /\ to \notin Locked
                   => Disciplined(p)
  OBVIOUS
<1>2. pc[p] \in Locked /\ Leave(p) => Disciplined(p)
  OBVIOUS
<1>3. End(p) /\ UNCHANGED lock => Disciplined(p)
  OBVIOUS
<1>4. UNCHANGED <<pc, lock>> => Disciplined(p)
  <2>1. pc[p] \in Place /\ pc = [pc EXCEPT ![p] = pc[p]]
    OBVIOUS
  <2> QED
    BY <2>1
<1> QED
  BY <1>1, <1>2, <1>3, <1>4

-----------------------------------------------------------------------------
(* Every action is disciplined *)

LEMMA CommandsAreDisciplined ==
    ASSUME LockInv, NEW p \in Proc, Commanded(p) \/ Refused(p) PROVE Disciplined(p)
<1> USE DEF Place, Locked, Staging, Recovering, Tried, RollingBack, Removing
<1>1. ASSUME NEW to \in {"stage", "select", "rollback", "uninstall"}, NEW c, Start(p, to, c)
      PROVE  Disciplined(p)
  BY <1>1, Forms DEF Start
<1>2. CASE Commanded(p)
  BY <1>1, <1>2 DEF Commanded, Deploy, Resume, Rollback, Uninstall
<1>3. CASE Refused(p)
  BY <1>3, Forms DEF Refused
<1> QED
  BY <1>2, <1>3

LEMMA StagingIsDisciplined ==
    ASSUME LockInv, NEW p \in Proc, Stages(p) PROVE Disciplined(p)
<1> USE DEF Place, Locked, Staging, Recovering, Tried, RollingBack, Removing
<1>1. CASE Select(p)
  BY <1>1, Forms DEF Select, SelectNone, SelectReady, SelectUnready
<1>2. CASE BeginStage(p)
  BY <1>2, Forms DEF BeginStage
<1>3. CASE StageItem(p)
  BY <1>3, Forms DEF StageItem
<1>4. CASE StageLast(p)
  BY <1>4, Forms DEF StageLast, Leave
<1>5. CASE StageOccupied(p)
  BY <1>5, Forms DEF StageOccupied
<1> QED
  BY <1>1, <1>2, <1>3, <1>4, <1>5 DEF Stages

LEMMA RecoveryIsDisciplined ==
    ASSUME LockInv, NEW p \in Proc, Recovers(p) PROVE Disciplined(p)
<1> USE DEF Place, Locked, Staging, Recovering, Tried, RollingBack, Removing
<1>1. CASE RecoverBin(p) \/ RecoverBackup(p)
  BY <1>1, Forms DEF RecoverBin, RecoverBackup
<1>2. CASE RecoverPromoted(p) \/ RecoverReplaced(p)
  BY <1>2, Forms DEF RecoverPromoted, RecoverReplaced
<1>3. CASE Recovered(p)
  BY <1>3, Forms DEF Recovered
<1>4. CASE RecoveryFails(p)
  BY <1>4, Forms DEF RecoveryFails
<1> QED
  BY <1>1, <1>2, <1>3, <1>4 DEF Recovers

LEMMA PromotionIsDisciplined ==
    ASSUME LockInv, NEW p \in Proc, Promotes(p) PROVE Disciplined(p)
<1> USE DEF Place, Locked, Staging, Recovering, Tried, RollingBack, Removing
<1>1. ASSUME NEW moved, NextItem(p, moved), pc[p] \in {"promote", "place"}, UNCHANGED lock
      PROVE  Disciplined(p)
  BY <1>1 DEF NextItem, Disciplined, Moves, Passes
<1>2. CASE PromoteNew(p)
  BY <1>1, <1>2 DEF PromoteNew, MoveIntoPlace
<1>3. CASE Reuse(p)
  BY <1>1, <1>3 DEF Reuse
<1>4. CASE SetAside(p)
  BY <1>4, Forms DEF SetAside
<1>5. CASE PlaceNew(p)
  BY <1>1, <1>5 DEF PlaceNew, MoveIntoPlace
<1>6. CASE JournalPromoted(p)
  BY <1>6, Forms DEF JournalPromoted
<1> QED
  BY <1>2, <1>3, <1>4, <1>5, <1>6 DEF Promotes

LEMMA ActivationIsDisciplined ==
    ASSUME LockInv, NEW p \in Proc, Activates(p) PROVE Disciplined(p)
<1> USE DEF Place, Locked, Staging, Recovering, Tried, RollingBack, Removing
<1>1. CASE Activate(p)
  BY <1>1, Forms DEF Activate
<1>2. CASE Prepare(p) \/ PrepareFails(p)
  BY <1>2, Forms DEF Prepare, PrepareFails
<1>3. CASE Promotes(p)
  BY <1>3, PromotionIsDisciplined
<1>4. CASE Swap(p) \/ Switch(p)
  BY <1>4, Forms DEF Swap, Switch
<1>5. CASE JournalSwitched(p) \/ ArchivePrior(p)
  BY <1>5, Forms DEF JournalSwitched, ArchivePrior
<1>6. CASE WriteReceipt(p) \/ JournalReceipt(p)
  BY <1>6, Forms DEF WriteReceipt, JournalReceipt
<1>7. CASE Finish(p)
  BY <1>7, Forms DEF Finish
<1>8. CASE ActivationFails(p)
  BY <1>8, Forms DEF ActivationFails, PromotionImpossible, SwapImpossible
<1> QED
  BY <1>1, <1>2, <1>3, <1>4, <1>5, <1>6, <1>7, <1>8 DEF Activates

LEMMA CollectionIsDisciplined ==
    ASSUME LockInv, NEW p \in Proc, Collects(p) PROVE Disciplined(p)
<1> USE DEF Place, Locked, Staging, Recovering, Tried, RollingBack, Removing
<1>1. CASE CollectPayloads(p)
  BY <1>1, Forms DEF CollectPayloads
<1>2. CASE CollectFails(p)
  BY <1>2, Forms DEF CollectFails
<1>3. CASE DropGenerations(p)
  BY <1>3, Forms DEF DropGenerations
<1> QED
  BY <1>1, <1>2, <1>3 DEF Collects

LEMMA RollbackIsDisciplined ==
    ASSUME LockInv, NEW p \in Proc, RollsBack(p) \/ Removes(p) PROVE Disciplined(p)
<1> USE DEF Place, Locked, Staging, Recovering, Tried, RollingBack, Removing
<1>1. CASE BeginRollback(p) \/ RollbackImpossible(p)
  BY <1>1, Forms DEF BeginRollback, RollbackImpossible
<1>2. CASE ArchiveActive(p) \/ SwapBack(p)
  BY <1>2, Forms DEF ArchiveActive, SwapBack
<1>3. CASE SwapBackFails(p)
  BY <1>3, Forms DEF SwapBackFails
<1>4. CASE SwitchBack(p) \/ ReceiptBack(p)
  BY <1>4, Forms DEF SwitchBack, ReceiptBack
<1>5. CASE RemoveBin(p)
  BY <1>5, Forms DEF RemoveBin
<1>6. CASE RemovePackages(p) \/ RemoveManaged(p)
  BY <1>6, Forms DEF RemovePackages, RemoveManaged
<1>7. CASE RemoveReceipt(p)
  BY <1>7, Forms DEF RemoveReceipt
<1> QED
  BY <1>1, <1>2, <1>3, <1>4, <1>5, <1>6, <1>7 DEF RollsBack, Removes

LEMMA FaultsAreDisciplined ==
    ASSUME LockInv, NEW p \in Proc, Error(p) \/ Interrupt(p) \/ Kill(p)
    PROVE  Disciplined(p)
<1>1. CASE Error(p)
  BY <1>1, Forms DEF Error, StageFails
<1>2. CASE Interrupt(p)
  BY <1>2, Forms DEF Interrupt
<1>3. CASE Kill(p)
  BY <1>3, Forms DEF Kill
<1> QED
  BY <1>1, <1>2, <1>3

-----------------------------------------------------------------------------
\* The lock invariant is inductive.
LEMMA LockInvStep == LockInv /\ [Next]_vars => LockInv'
<1> SUFFICES ASSUME LockInv, [Next]_vars PROVE LockInv'
  OBVIOUS
<1>1. ASSUME NEW p \in Proc, Disciplined(p) PROVE LockInv'
  BY <1>1, DisciplineExcludes
<1>2. ASSUME NEW p \in Proc,
             \/ Commanded(p) \/ Refused(p)
             \/ Stages(p) \/ Recovers(p) \/ Activates(p) \/ Collects(p)
             \/ RollsBack(p) \/ Removes(p)
             \/ Error(p) \/ Interrupt(p) \/ Kill(p)
      PROVE  Disciplined(p)
  BY <1>2, CommandsAreDisciplined, StagingIsDisciplined, RecoveryIsDisciplined,
     ActivationIsDisciplined, CollectionIsDisciplined, RollbackIsDisciplined,
     FaultsAreDisciplined
<1>3. CASE Next
  BY <1>1, <1>2, <1>3 DEF Next
<1>4. CASE UNCHANGED vars
  BY <1>4 DEF vars, LockInv, LockTypeOK, Held, OneMutator
<1> QED
  BY <1>3, <1>4

-----------------------------------------------------------------------------
(* Types.  TypeOK is not inductive: a step may index a graph, the stages or a  *)
(* generation, so the processes' places bound their arguments, and the         *)
(* commands that are still under way bound the stages and generations to come. *)

\* The activation's steps up to the one that writes the receipt.
Underway == Tried \ {"finish", "unlink"}

Gen(r) == IF r = None THEN 0 ELSE r.generation

WithGraph == {"select", "stage", "script", "activate", "prepare", "rollback"}
             \cup Recovering \cup Tried \cup RollingBack
WithStage == {"script", "activate", "prepare"} \cup Recovering \cup Tried

\* What a process at a place has for arguments, with this many stages.
Fits(place, c, many, j) ==
    /\ place \in WithGraph => c.graph \in Graphs /\ c.next \in 1..Len(c.graph)
    /\ place \in WithStage => c.stage # 0
    /\ c.stage <= many
    /\ place \in {"rollback"} \cup RollingBack => c.prior # None
    /\ place \in Recovering \cup Tried => j # None

CommandOK(p) == Fits(pc[p], cmd[p], Len(stages), journal)

JournalOK ==
    journal # None => journal.generation >= 1 /\ journal.stage <= Len(stages)

\* The commands that may still make a staging directory.
Unstaged == {p \in Proc : pc[p] \in {"select", "stage"} /\ cmd[p].stage = 0}

StagesCounted ==
    IsFiniteSet(Unstaged) /\ Len(stages) + Cardinality(Unstaged) <= commands

\* The commands that may still write a receipt.
Writing == {"select", "stage", "script", "activate", "prepare", "rollback"}
           \cup Recovering \cup Underway \cup RollingBack
Ahead   == {p \in Proc : pc[p] \in Writing}

GenerationsCounted ==
    /\ IsFiniteSet(Ahead)
    /\ Gen(receipt) + Cardinality(Ahead) <= commands
    /\ \A p \in Ahead : Gen(cmd[p].prior) + Cardinality(Ahead) <= commands

FilesOK ==
    /\ payload \in Contents /\ bin \in LinkSets /\ receipt \in Receipt \cup {None}
    /\ archive \in [Generation -> Graphs \cup {None}]
    /\ binBackup \in [Generation -> LinkSets]
    /\ payloadBackup \in [Generation -> Contents]
    /\ rollbackBin \subseteq Generation
    /\ journal \in Journal \cup {None}

StagesOK == stages \in Seq(Stage)

CommandsOK == /\ cmd \in [Proc -> Command] /\ \A p \in Proc : CommandOK(p)
              /\ commands \in 0..MaxCommands /\ faults \in 0..MaxFaults

TypeInv == /\ LockInv /\ FilesOK /\ StagesOK /\ CommandsOK
           /\ JournalOK /\ StagesCounted /\ GenerationsCounted

LEMMA TypeInvTypes == TypeInv => TypeOK
<1> SUFFICES ASSUME TypeInv PROVE TypeOK
  OBVIOUS
<1>1. Cardinality(Unstaged) \in Nat /\ Len(stages) \in Nat
  BY FS_CardinalityType DEF TypeInv, StagesCounted, StagesOK
<1>2. Len(stages) <= MaxCommands
  BY <1>1, FaultsAssumption DEF TypeInv, StagesCounted, CommandsOK
<1> QED
  BY <1>2 DEF TypeInv, TypeOK, LockInv, LockTypeOK, FilesOK, StagesOK, CommandsOK

\* What an index of a graph finds.
LEMMA GraphFacts ==
    ASSUME NEW g \in Graphs
    PROVE  /\ g # None /\ Len(g) \in Nat /\ 1 \in 1..Len(g) /\ DOMAIN g = 1..Len(g)
           /\ \A i \in 1..Len(g) : /\ PathOf(g[i]) \in Paths(g) /\ PathOf(g[i]) \in Path
                                   /\ g[i].artifact \in Artifact /\ i \in 1..Longest
           /\ Paths(g) \subseteq Path /\ Links(g) \in LinkSets
           /\ Links(g) # None
<1>1. /\ g \in Seq([name: STRING, version: Nat, artifact: STRING]) /\ g # <<>>
      /\ \E h \in Graphs : \A other \in Graphs : Len(other) <= Len(h)
  BY GraphsAssumption
<1>2. Len(g) \in Nat /\ 1 \in 1..Len(g) /\ DOMAIN g = 1..Len(g)
  BY <1>1
<1>3. \A h \in Graphs : Len(h) \in Nat
  BY GraphsAssumption
<1>4. Longest \in Nat /\ Len(g) <= Longest
  <2>1. \E n \in {Len(h) : h \in Graphs} : \A h \in Graphs : Len(h) <= n
    BY <1>1
  <2>2. Longest \in {Len(h) : h \in Graphs} /\ \A h \in Graphs : Len(h) <= Longest
    BY <2>1 DEF Longest
  <2> QED
    BY <2>2, <1>3
<1>5. Paths(g) \subseteq Path /\ Links(g) \in LinkSets
  BY DEF Path, LinkSets, Links
<1>6. ASSUME NEW i \in 1..Len(g)
      PROVE  /\ PathOf(g[i]) \in Paths(g) /\ PathOf(g[i]) \in Path
             /\ g[i].artifact \in Artifact /\ i \in 1..Longest
  <2>1. g[i] \in Items(g)
    BY <1>2 DEF Items
  <2> QED
    BY <2>1, <1>2, <1>4, <1>5 DEF Paths, Artifact
<1> QED
  BY <1>2, <1>5, <1>6, NoneAssumption

-----------------------------------------------------------------------------
(* What the step of one process does to the commands under way *)

\* It makes no staging directory, or the one it still may make.
StagesAdded(p, to, c) ==
    LET mayStage == to \in {"select", "stage"} /\ c.stage = 0 IN
      \/ Len(stages') = Len(stages) /\ (mayStage => p \in Unstaged)
      \/ Len(stages') = Len(stages) + 1 /\ p \in Unstaged /\ ~mayStage

\* It writes no receipt, or the one after the receipt it found.
ReceiptAdded(p, to, c) ==
    \/ /\ receipt' = receipt \/ receipt' = None
       /\ to \in Writing => p \in Ahead /\ c.prior \in {cmd[p].prior, receipt}
    \/ /\ p \in Ahead /\ to \notin Writing
       /\ receipt' # None /\ receipt'.generation = Gen(cmd[p].prior) + 1

\* It begins a command, or goes on with one.
Begun(p, c) ==
    /\ pc[p] = "idle" /\ commands' = commands + 1 /\ commands < MaxCommands
    /\ Len(stages') = Len(stages) /\ receipt' = receipt /\ c.prior \in {None, receipt}

Proper(p) ==
    \E to \in Place, c \in Command :
        /\ pc' = [pc EXCEPT ![p] = to] /\ cmd' = [cmd EXCEPT ![p] = c]
        /\ Fits(to, c, Len(stages'), journal')
        /\ journal' = None => journal = None \/ pc[p] \in Locked \/ ~lock
        /\ faults' \in 0..MaxFaults
        /\ \/ Begun(p, c)
           \/ /\ commands' = commands
              /\ StagesAdded(p, to, c) /\ ReceiptAdded(p, to, c)

LEMMA PriorIsNat ==
    ASSUME TypeInv, NEW p \in Proc PROVE Gen(cmd[p].prior) \in Generation
<1>1. cmd[p].prior \in Receipt \cup {None}
  BY DEF TypeInv, CommandsOK, Command
<1> QED
  BY <1>1, FaultsAssumption DEF Gen, Receipt, Generation

\* A place of one process in a set of processes: in, out, or as it was.
LEMMA OneMoves ==
    ASSUME NEW S, NEW T, NEW p, IsFiniteSet(S), T \subseteq S \cup {p}, S \subseteq T \cup {p}
    PROVE  /\ IsFiniteSet(T) /\ Cardinality(S) \in Nat /\ Cardinality(T) \in Nat
           /\ Cardinality(T) <= Cardinality(S) + 1
           /\ (p \in T => p \in S) => Cardinality(T) <= Cardinality(S)
           /\ p \in S /\ p \notin T => Cardinality(T) + 1 <= Cardinality(S)
<1>1. Cardinality(S) \in Nat
  BY FS_CardinalityType
<1>2. IsFiniteSet(S \cup {p}) /\ Cardinality(S \cup {p}) <= Cardinality(S) + 1
  <2>1. /\ IsFiniteSet(S \cup {p})
        /\ Cardinality(S \cup {p}) = IF p \in S THEN Cardinality(S) ELSE Cardinality(S) + 1
    BY FS_AddElement
  <2> QED
    BY <1>1, <2>1
<1>3. IsFiniteSet(T) /\ Cardinality(T) <= Cardinality(S \cup {p})
  BY <1>2, FS_Subset
<1>4. Cardinality(T) \in Nat /\ Cardinality(S \cup {p}) \in Nat
  BY <1>2, <1>3, FS_CardinalityType
<1>5. CASE p \in T => p \in S
  <2>1. T \in SUBSET S
    BY <1>5
  <2>2. Cardinality(T) <= Cardinality(S)
    BY <2>1, FS_Subset
  <2>3. ASSUME p \in S, p \notin T PROVE Cardinality(T) + 1 <= Cardinality(S)
    <3>1. T = S \ {p}
      BY <2>1, <2>3
    <3>2. Cardinality(T) = Cardinality(S) - 1
      BY <3>1, <2>3, FS_RemoveElement
    <3> QED
      BY <3>2, <1>1
  <2> QED
    BY <2>2, <2>3, <1>1, <1>2, <1>3, <1>4
<1>6. CASE p \in T /\ p \notin S
  BY <1>1, <1>2, <1>3, <1>4, <1>6
<1> QED
  BY <1>5, <1>6

LEMMA PlacesMove ==
    ASSUME TypeInv, NEW p \in Proc, NEW to \in Place, NEW c \in Command,
           pc' = [pc EXCEPT ![p] = to], cmd' = [cmd EXCEPT ![p] = c]
    PROVE  /\ pc' \in [Proc -> Place] /\ cmd' \in [Proc -> Command]
           /\ pc'[p] = to /\ cmd'[p] = c
           /\ \A q \in Proc : q # p => pc'[q] = pc[q] /\ cmd'[q] = cmd[q]
           /\ p \in Unstaged' <=> to \in {"select", "stage"} /\ c.stage = 0
           /\ p \in Ahead' <=> to \in Writing
           /\ Unstaged' \subseteq Unstaged \cup {p} /\ Unstaged \subseteq Unstaged' \cup {p}
           /\ Ahead' \subseteq Ahead \cup {p} /\ Ahead \subseteq Ahead' \cup {p}
<1>1. pc \in [Proc -> Place] /\ cmd \in [Proc -> Command]
  BY DEF TypeInv, LockInv, LockTypeOK, CommandsOK
<1>2. /\ pc' \in [Proc -> Place] /\ cmd' \in [Proc -> Command]
      /\ pc'[p] = to /\ cmd'[p] = c
      /\ \A q \in Proc : q # p => pc'[q] = pc[q] /\ cmd'[q] = cmd[q]
  BY <1>1
<1> QED
  BY <1>2 DEF Unstaged, Ahead

\* A proper step keeps the bounds.
LEMMA ProperCounts ==
    ASSUME TypeInv, NEW p \in Proc, Proper(p), FilesOK', StagesOK'
    PROVE  (CommandsOK /\ StagesCounted /\ GenerationsCounted)'
<1>1. PICK to \in Place, c \in Command :
        /\ pc' = [pc EXCEPT ![p] = to] /\ cmd' = [cmd EXCEPT ![p] = c]
        /\ Fits(to, c, Len(stages'), journal')
        /\ journal' = None => journal = None \/ pc[p] \in Locked \/ ~lock
        /\ faults' \in 0..MaxFaults
        /\ \/ Begun(p, c)
           \/ /\ commands' = commands
              /\ StagesAdded(p, to, c) /\ ReceiptAdded(p, to, c)
  BY DEF Proper
<1>2. /\ pc' \in [Proc -> Place] /\ cmd' \in [Proc -> Command]
      /\ pc'[p] = to /\ cmd'[p] = c
      /\ \A q \in Proc : q # p => pc'[q] = pc[q] /\ cmd'[q] = cmd[q]
      /\ p \in Unstaged' <=> to \in {"select", "stage"} /\ c.stage = 0
      /\ p \in Ahead' <=> to \in Writing
      /\ Unstaged' \subseteq Unstaged \cup {p} /\ Unstaged \subseteq Unstaged' \cup {p}
      /\ Ahead' \subseteq Ahead \cup {p} /\ Ahead \subseteq Ahead' \cup {p}
  BY <1>1, PlacesMove
<1>3. IsFiniteSet(Unstaged) /\ IsFiniteSet(Ahead)
  BY DEF TypeInv, StagesCounted, GenerationsCounted
<1>4. /\ IsFiniteSet(Unstaged') /\ Cardinality(Unstaged) \in Nat /\ Cardinality(Unstaged') \in Nat
      /\ Cardinality(Unstaged') <= Cardinality(Unstaged) + 1
      /\ (p \in Unstaged' => p \in Unstaged) => Cardinality(Unstaged') <= Cardinality(Unstaged)
      /\ p \in Unstaged /\ p \notin Unstaged' => Cardinality(Unstaged') + 1 <= Cardinality(Unstaged)
  BY <1>2, <1>3, OneMoves
<1>5. /\ IsFiniteSet(Ahead') /\ Cardinality(Ahead) \in Nat /\ Cardinality(Ahead') \in Nat
      /\ Cardinality(Ahead') <= Cardinality(Ahead) + 1
      /\ (p \in Ahead' => p \in Ahead) => Cardinality(Ahead') <= Cardinality(Ahead)
      /\ p \in Ahead /\ p \notin Ahead' => Cardinality(Ahead') + 1 <= Cardinality(Ahead)
  BY <1>2, <1>3, OneMoves
<1>6. /\ Len(stages) \in Nat /\ Len(stages') \in Nat /\ commands \in Nat
      /\ Gen(receipt) \in Nat /\ Gen(receipt') \in Nat
      /\ \A q \in Proc : Gen(cmd[q].prior) \in Nat
      /\ commands <= MaxCommands /\ MaxCommands \in Nat
  <2>1. Gen(receipt) \in Generation /\ Gen(receipt') \in Generation
    BY FaultsAssumption DEF TypeInv, FilesOK, Gen, Receipt, Generation
  <2>2. \A q \in Proc : Gen(cmd[q].prior) \in Generation
    BY PriorIsNat
  <2> QED
    BY <2>1, <2>2, FaultsAssumption
       DEF TypeInv, StagesOK, CommandsOK, Generation, Gen
<1>7. commands' \in 0..MaxCommands /\ Len(stages) <= Len(stages')
  BY <1>1, <1>6 DEF Begun, StagesAdded
<1>8. CommandsOK'
  <2>1. ASSUME NEW q \in Proc PROVE CommandOK(q)'
    <3>1. CASE q = p
      BY <1>1, <1>2, <3>1 DEF CommandOK
    <3>2. CASE q # p
      <4>1. Fits(pc[q], cmd[q], Len(stages), journal)
        BY DEF TypeInv, CommandsOK, CommandOK
      <4>2. pc[q] \in Recovering \cup Tried => journal' # None
        <5>1. pc[q] \in Recovering \cup Tried => pc[q] \in Locked /\ journal # None
          BY <4>1 DEF Fits, Locked
        <5>2. pc[q] \in Locked => lock /\ pc[p] \notin Locked
          BY <3>2 DEF TypeInv, LockInv, Held, OneMutator
        <5> QED
          BY <5>1, <5>2, <1>1
      <4>3. cmd[q].stage \in Nat
        BY FaultsAssumption DEF TypeInv, CommandsOK, Command
      <4> QED
        BY <4>1, <4>2, <4>3, <3>2, <1>2, <1>6, <1>7 DEF CommandOK, Fits
    <3> QED
      BY <3>1, <3>2
  <2> QED
    BY <2>1, <1>1, <1>2, <1>7 DEF CommandsOK
<1>9. StagesCounted'
  <2>1. Len(stages) + Cardinality(Unstaged) <= commands
    BY DEF TypeInv, StagesCounted
  <2>2. CASE Begun(p, c)
    BY <2>1, <2>2, <1>4, <1>6 DEF Begun, StagesCounted
  <2>3. CASE commands' = commands /\ StagesAdded(p, to, c)
    BY <2>1, <2>3, <1>2, <1>4, <1>6 DEF StagesAdded, StagesCounted
  <2> QED
    BY <2>2, <2>3, <1>1
<1>10. GenerationsCounted'
  <2>1. /\ Gen(receipt) + Cardinality(Ahead) <= commands
        /\ \A q \in Ahead : Gen(cmd[q].prior) + Cardinality(Ahead) <= commands
    BY DEF TypeInv, GenerationsCounted
  <2>2. CASE Begun(p, c)
    <3>1. \A q \in Ahead' : \/ q \in Ahead /\ cmd'[q] = cmd[q]
                            \/ Gen(cmd'[q].prior) \in {0, Gen(receipt)}
      <4>1. p \notin Ahead
        BY <2>2 DEF Begun, Ahead, Writing, Recovering, Underway, Tried, RollingBack
      <4> QED
        BY <4>1, <2>2, <1>2 DEF Begun, Gen, Ahead
    <3>2. receipt' = receipt /\ commands' = commands + 1
      BY <2>2 DEF Begun
    <3>3. Gen(receipt)' = Gen(receipt)
      BY <3>2 DEF Gen
    <3>4. \A q \in Ahead' : Gen(cmd'[q].prior) + Cardinality(Ahead') <= commands'
      <4>1. \A q \in Ahead : q \in Proc
        BY DEF Ahead
      <4> QED
        BY <4>1, <3>1, <3>2, <2>1, <1>5, <1>6
    <3> QED
      BY <3>2, <3>3, <3>4, <2>1, <1>5, <1>6 DEF GenerationsCounted, Gen
  <2>3. CASE commands' = commands /\ ReceiptAdded(p, to, c)
    <3>1. CASE /\ receipt' = receipt \/ receipt' = None
               /\ to \in Writing => p \in Ahead /\ c.prior \in {cmd[p].prior, receipt}
      <4>1. Cardinality(Ahead') <= Cardinality(Ahead)
        BY <3>1, <1>2, <1>5
      <4>2. Gen(receipt') \in {0, Gen(receipt)}
        BY <3>1 DEF Gen
      <4>3. \A q \in Ahead' : \/ q \in Ahead /\ Gen(cmd'[q].prior) = Gen(cmd[q].prior)
                              \/ Gen(cmd'[q].prior) = Gen(receipt)
        BY <3>1, <1>2 DEF Ahead
      <4>4. Gen(receipt') + Cardinality(Ahead') <= commands
        BY <4>1, <4>2, <2>1, <1>5, <1>6
      <4>5. \A q \in Ahead' : Gen(cmd'[q].prior) + Cardinality(Ahead') <= commands
        <5>1. \A q \in Ahead : q \in Proc
          BY DEF Ahead
        <5> QED
          BY <5>1, <4>1, <4>3, <2>1, <1>5, <1>6
      <4> QED
        BY <4>4, <4>5, <2>3, <1>5 DEF GenerationsCounted, Gen
    <3>2. CASE /\ p \in Ahead /\ to \notin Writing
               /\ receipt' # None /\ receipt'.generation = Gen(cmd[p].prior) + 1
      <4>1. Cardinality(Ahead') + 1 <= Cardinality(Ahead) /\ p \notin Ahead'
        BY <3>2, <1>2, <1>5
      <4>2. Gen(receipt') = Gen(cmd[p].prior) + 1
        BY <3>2 DEF Gen
      <4>3. Gen(receipt') + Cardinality(Ahead') <= commands
        BY <4>1, <4>2, <3>2, <2>1, <1>5, <1>6
      <4>4. \A q \in Ahead' : q \in Ahead /\ cmd'[q] = cmd[q]
        BY <4>1, <1>2 DEF Ahead
      <4>5. \A q \in Ahead' : Gen(cmd'[q].prior) + Cardinality(Ahead') <= commands
        <5>1. \A q \in Ahead : q \in Proc
          BY DEF Ahead
        <5> QED
          BY <5>1, <4>1, <4>4, <2>1, <1>5, <1>6
      <4> QED
        BY <4>3, <4>5, <2>3, <1>5 DEF GenerationsCounted, Gen
    <3> QED
      BY <3>1, <3>2, <2>3 DEF ReceiptAdded
  <2> QED
    BY <2>2, <2>3, <1>1
<1> QED
  BY <1>8, <1>9, <1>10
\* A step that keeps the types, whatever the other processes are about to do.
TypeStep(p) == FilesOK' /\ StagesOK' /\ JournalOK' /\ Proper(p)

LEMMA TypeStepKeeps ==
    ASSUME TypeInv, NEW p \in Proc, Disciplined(p), TypeStep(p) PROVE TypeInv'
<1>1. LockInv'
  BY DisciplineExcludes DEF TypeInv
<1>2. (CommandsOK /\ StagesCounted /\ GenerationsCounted)'
  BY ProperCounts DEF TypeStep
<1> QED
  BY <1>1, <1>2 DEF TypeStep, TypeInv

-----------------------------------------------------------------------------
(* What a process has at its place *)

LEMMA Arguments ==
    ASSUME TypeInv, NEW p \in Proc
    PROVE  /\ pc[p] \in Place /\ cmd[p] \in Command /\ NoCommand \in Command
           /\ cmd = [cmd EXCEPT ![p] = cmd[p]] /\ pc = [pc EXCEPT ![p] = pc[p]]
           /\ Fits(pc[p], cmd[p], Len(stages), journal)
           /\ Len(stages) \in Nat /\ DOMAIN stages = 1..Len(stages)
           /\ Len(stages) <= MaxCommands
           /\ p \in Unstaged => Len(stages) < MaxCommands
           /\ PriorGeneration(p) = Gen(cmd[p].prior)
           /\ PriorGeneration(p) \in Generation
           /\ pc[p] \in Writing => /\ PriorGeneration(p) + 1 \in Generation
                                   /\ Gen(receipt) + 1 \in Generation
           /\ faults \in 0..MaxFaults /\ commands \in 0..MaxCommands
<1>1. /\ pc \in [Proc -> Place] /\ cmd \in [Proc -> Command] /\ CommandOK(p)
      /\ commands \in 0..MaxCommands /\ faults \in 0..MaxFaults
      /\ MaxCommands \in Nat /\ stages \in Seq(Stage)
  BY FaultsAssumption DEF TypeInv, LockInv, LockTypeOK, CommandsOK, StagesOK
<1>2. NoCommand \in Command
  <2>1. 1 \in 1..Longest
    <3>1. PICK g \in Graphs : \A other \in Graphs : Len(other) <= Len(g)
      BY GraphsAssumption
    <3> QED
      BY <3>1, GraphFacts
  <2> QED
    BY <1>1, <2>1 DEF NoCommand, Command
<1>3. PriorGeneration(p) = Gen(cmd[p].prior) /\ PriorGeneration(p) \in Generation
  BY PriorIsNat DEF PriorGeneration, Gen
<1>4. Len(stages) \in Nat /\ DOMAIN stages = 1..Len(stages)
  BY <1>1
<1>5. Len(stages) <= MaxCommands /\ (p \in Unstaged => Len(stages) < MaxCommands)
  <2>1. IsFiniteSet(Unstaged) /\ Len(stages) + Cardinality(Unstaged) <= commands
    BY DEF TypeInv, StagesCounted
  <2>2. Cardinality(Unstaged) \in Nat /\ (Cardinality(Unstaged) = 0 <=> Unstaged = {})
    BY <2>1, FS_CardinalityType, FS_EmptySet
  <2> QED
    BY <2>1, <2>2, <1>1, <1>4
<1>6. pc[p] \in Writing => /\ PriorGeneration(p) + 1 \in Generation
                           /\ Gen(receipt) + 1 \in Generation
  <2> SUFFICES ASSUME p \in Ahead
               PROVE  PriorGeneration(p) + 1 \in Generation /\ Gen(receipt) + 1 \in Generation
    BY DEF Ahead
  <2>1. /\ IsFiniteSet(Ahead) /\ Gen(receipt) + Cardinality(Ahead) <= commands
        /\ Gen(cmd[p].prior) + Cardinality(Ahead) <= commands
    BY DEF TypeInv, GenerationsCounted
  <2>2. Cardinality(Ahead) \in Nat /\ (Cardinality(Ahead) = 0 <=> Ahead = {})
    BY <2>1, FS_CardinalityType, FS_EmptySet
  <2>3. Gen(receipt) \in Nat
    BY <1>1 DEF TypeInv, FilesOK, Gen, Receipt, Generation
  <2> QED
    BY <2>1, <2>2, <2>3, <1>1, <1>3 DEF Generation
<1> QED
  BY <1>1, <1>2, <1>3, <1>4, <1>5, <1>6 DEF CommandOK

\* Arguments at the places that have them.
LEMMA StageArguments ==
    ASSUME TypeInv, NEW p \in Proc, pc[p] \in WithStage \/ cmd[p].stage # 0
    PROVE  /\ cmd[p].stage \in 1..Len(stages) /\ Staged(p) \in Stage
           /\ cmd[p].stage # 0
<1>1. cmd[p] \in Command /\ Fits(pc[p], cmd[p], Len(stages), journal) /\ Len(stages) \in Nat
  BY Arguments
<1>2. cmd[p].stage \in 1..Len(stages) /\ cmd[p].stage # 0
  BY <1>1, FaultsAssumption DEF Fits, Command
<1> QED
  BY <1>2 DEF TypeInv, StagesOK, Staged

LEMMA ItemArguments ==
    ASSUME TypeInv, NEW p \in Proc, pc[p] \in WithGraph
    PROVE  /\ cmd[p].graph \in Graphs /\ cmd[p].next \in 1..Len(cmd[p].graph)
           /\ Len(cmd[p].graph) \in Nat
           /\ ItemPath(p) \in Path /\ Item(p).artifact \in Artifact
           /\ ~LastItem(p) => cmd[p].next + 1 \in 1..Len(cmd[p].graph)
           /\ Links(cmd[p].graph) \in LinkSets
<1>1. cmd[p].graph \in Graphs /\ cmd[p].next \in 1..Len(cmd[p].graph)
  BY Arguments DEF Fits
<1> QED
  BY <1>1, GraphFacts DEF Item, ItemPath, LastItem

LEMMA JournalArguments ==
    ASSUME TypeInv, NEW p \in Proc, pc[p] \in Recovering \cup Tried
    PROVE  /\ journal \in Journal /\ journal # None
           /\ journal.stage \in 1..Len(stages) /\ stages[journal.stage] \in Stage
           /\ journal.generation - 1 \in Generation
           /\ journal.promoted \subseteq Path /\ journal.replaced \subseteq Path
<1>1. journal # None
  BY Arguments DEF Fits
<1>2. journal \in Journal /\ journal.stage <= Len(stages) /\ journal.generation >= 1
  BY <1>1 DEF TypeInv, FilesOK, JournalOK
<1>3. Len(stages) \in Nat
  BY Arguments
<1> QED
  BY <1>1, <1>2, <1>3, FaultsAssumption DEF Journal, Generation, TypeInv, StagesOK

LEMMA StageEdits ==
    ASSUME TypeInv, NEW s \in 1..Len(stages), NEW st \in Stage,
           stages' = [stages EXCEPT ![s] = st]
    PROVE  /\ StagesOK' /\ Len(stages') = Len(stages)
           /\ \A t \in 1..Len(stages) : stages'[t] = IF t = s THEN st ELSE stages[t]
BY DEF TypeInv, StagesOK

LEMMA SameStages ==
    ASSUME TypeInv, UNCHANGED stages PROVE StagesOK' /\ Len(stages') = Len(stages)
BY DEF TypeInv, StagesOK

\* The journal goes, or stays as it is.
LEMMA SameJournal ==
    ASSUME TypeInv, journal' = None \/ journal' = journal,
           Len(stages') \in Nat, Len(stages) <= Len(stages')
    PROVE  JournalOK'
<1>1. journal \in Journal \cup {None} /\ Len(stages) \in Nat
  BY DEF TypeInv, FilesOK, StagesOK
<1>2. CASE journal' = None
  BY <1>2 DEF JournalOK
<1>3. CASE journal' = journal /\ journal # None /\ journal \in Journal
  <2>1. Len(stages') >= Len(stages)
    OBVIOUS
  <2>2. journal.stage \in Nat /\ journal.stage <= Len(stages) /\ journal.generation >= 1
    BY <1>3, FaultsAssumption DEF JournalOK, TypeInv, Journal
  <2> QED
    BY <1>1, <1>3, <2>1, <2>2 DEF JournalOK
<1> QED
  BY <1>1, <1>2, <1>3

\* A step goes to its next place, with its arguments, or ends.
LEMMA Goes ==
    ASSUME TypeInv, NEW p \in Proc, UNCHANGED <<receipt, counters>>,
           Len(stages') = Len(stages),
           journal' = None => journal = None \/ pc[p] \in Locked \/ ~lock
    PROVE  \A to \in Place, c \in Command :
              /\ pc' = [pc EXCEPT ![p] = to] /\ cmd' = [cmd EXCEPT ![p] = c]
              /\ Fits(to, c, Len(stages), journal')
              /\ to \in {"select", "stage"} => c.stage # 0 \/ p \in Unstaged
              /\ to \in Writing => pc[p] \in Writing /\ c.prior \in {cmd[p].prior, receipt}
              => Proper(p)
<1>1. faults \in 0..MaxFaults
  BY Arguments
<1> QED
  BY <1>1 DEF Proper, StagesAdded, ReceiptAdded, Ahead, counters

LEMMA Ends ==
    ASSUME TypeInv, NEW p \in Proc, End(p),
           commands' = commands, faults' \in 0..MaxFaults,
           receipt' = receipt \/ receipt' = None, Len(stages') = Len(stages),
           journal' = None => journal = None \/ pc[p] \in Locked \/ ~lock
    PROVE  Proper(p)
<1>1. NoCommand \in Command /\ NoCommand.stage = 0 /\ Len(stages) \in Nat
  BY Arguments DEF NoCommand
<1> DEFINE to == "idle"
<1>2. to \in Place /\ to \notin Writing /\ to \notin {"select", "stage"}
  BY DEF Place, Writing, Locked, Staging, Recovering, Underway, Tried, RollingBack, Removing
<1>3. Fits(to, NoCommand, Len(stages'), journal')
  BY <1>1 DEF Fits, WithGraph, WithStage, Recovering, Tried, RollingBack
<1>4. StagesAdded(p, to, NoCommand) /\ ReceiptAdded(p, to, NoCommand)
  BY <1>2 DEF StagesAdded, ReceiptAdded
<1> HIDE DEF to
<1>5. pc' = [pc EXCEPT ![p] = to] /\ cmd' = [cmd EXCEPT ![p] = NoCommand]
  BY DEF End, to
<1> QED
  BY <1>1, <1>2, <1>3, <1>4, <1>5 DEF Proper

-----------------------------------------------------------------------------
(* Every action keeps the types *)

LEMMA CommandsKeepTypes ==
    ASSUME TypeInv, NEW p \in Proc, Commanded(p) \/ Refused(p) PROVE TypeStep(p)
<1> USE DEF Place, Locked, Staging, Recovering, Tried, RollingBack, Removing
<1>1. /\ Commanded(p) => UNCHANGED <<active, retained, journal, stages>>
      /\ Refused(p) => UNCHANGED <<active, retained, journal, stages>>
  BY DEF Commanded, Deploy, Resume, Rollback, Uninstall, Start, Refused
<1>2. UNCHANGED <<active, retained, journal, stages>>
  BY <1>1
<1>3. FilesOK' /\ StagesOK' /\ JournalOK' /\ Len(stages') = Len(stages)
  <2>1. StagesOK' /\ Len(stages') = Len(stages) /\ Len(stages) \in Nat
    BY <1>2, SameStages, Arguments
  <2>2. JournalOK'
    BY <1>2, <2>1, SameJournal
  <2> QED
    BY <1>2, <2>1, <2>2 DEF TypeInv, FilesOK, active, retained
<1> SUFFICES Proper(p)
  BY <1>3 DEF TypeStep
<1>4. ASSUME NEW to \in {"stage", "select", "rollback", "uninstall"}, NEW c \in Command,
             pc[p] = "idle", pc' = [pc EXCEPT ![p] = to], cmd' = [cmd EXCEPT ![p] = c],
             commands < MaxCommands, commands' = commands + 1, faults' = faults,
             c.stage = 0, c.prior \in {None, receipt},
             to # "uninstall" => c.graph \in Graphs /\ c.next = 1,
             to = "rollback" => c.prior # None
      PROVE  Proper(p)
  <2>1. to \in Place
    OBVIOUS
  <2>2. Begun(p, c) /\ faults' \in 0..MaxFaults
    BY <1>2, <1>3, <1>4, Arguments DEF Begun, active
  <2>4. Fits(to, c, Len(stages'), journal')
    <3>1. to # "uninstall" => 1 \in 1..Len(c.graph)
      BY <1>4, GraphFacts
    <3>2. Len(stages') \in Nat
      BY <1>3, Arguments
    <3> QED
      BY <1>4, <3>1, <3>2 DEF Fits, WithGraph, WithStage
  <2> QED
    BY <1>2, <1>4, <2>1, <2>2, <2>4 DEF Proper
<1>5. NoCommand \in Command /\ NoCommand.stage = 0 /\ NoCommand.prior = None
  BY Arguments DEF NoCommand
<1>6. ASSUME NEW mode \in Modes \cup {"resume"}, NEW g \in Graphs,
             NEW to \in {"stage", "select"},
             Start(p, to, [NoCommand EXCEPT !.mode = mode, !.graph = g])
      PROVE  Proper(p)
  <2> DEFINE c == [NoCommand EXCEPT !.mode = mode, !.graph = g]
  <2>1. c \in Command /\ c.stage = 0 /\ c.prior = None /\ c.graph \in Graphs /\ c.next = 1
    BY <1>5 DEF NoCommand, Command
  <2>2. /\ pc[p] = "idle" /\ pc' = [pc EXCEPT ![p] = to] /\ cmd' = [cmd EXCEPT ![p] = c]
        /\ commands < MaxCommands /\ commands' = commands + 1 /\ faults' = faults
    BY <1>6 DEF Start, Goto
  <2> HIDE DEF c
  <2> QED
    BY <1>4, <2>1, <2>2
<1>7. CASE \E mode \in Modes, g \in Graphs : Deploy(p, mode, g)
  <2>1. PICK mode \in Modes, g \in Graphs : Deploy(p, mode, g)
    BY <1>7
  <2> QED
    BY <1>6, <2>1 DEF Deploy
<1>8. CASE \E mode \in Modes \cup {"resume"}, g \in Graphs : Resume(p, mode, g)
  <2>1. PICK mode \in Modes \cup {"resume"}, g \in Graphs : Resume(p, mode, g)
    BY <1>8
  <2> QED
    BY <1>6, <2>1 DEF Resume
<1>9. CASE \E n \in Generation : Rollback(p, n)
  <2>1. PICK n \in Generation : Rollback(p, n)
    BY <1>9
  <2>2. archive[n] \in Graphs /\ receipt \in Receipt /\ receipt # None
    BY <2>1 DEF Rollback, Archived, TypeInv, FilesOK
  <2> DEFINE c == [NoCommand EXCEPT !.graph = archive[n], !.prior = receipt]
  <2>3. c \in Command /\ c.stage = 0 /\ c.prior = receipt /\ c.graph \in Graphs /\ c.next = 1
    BY <1>5, <2>2 DEF NoCommand, Command
  <2>4. /\ pc[p] = "idle" /\ pc' = [pc EXCEPT ![p] = "rollback"]
        /\ cmd' = [cmd EXCEPT ![p] = c]
        /\ commands < MaxCommands /\ commands' = commands + 1 /\ faults' = faults
    BY <2>1 DEF Rollback, Start, Goto
  <2> HIDE DEF c
  <2> QED
    BY <1>4, <2>2, <2>3, <2>4
<1>10. CASE Uninstall(p)
  BY <1>4, <1>5, <1>10 DEF Uninstall, Start, Goto
<1>11. CASE Refused(p)
  <2>1. commands' = commands /\ faults' \in 0..MaxFaults /\ receipt' = receipt
    BY <1>2, <1>11, Arguments DEF Refused, counters, active
  <2>2. journal' = journal /\ End(p)
    BY <1>2, <1>11 DEF Refused
  <2> QED
    BY <1>3, <2>1, <2>2, Ends
<1> QED
  BY <1>7, <1>8, <1>9, <1>10, <1>11 DEF Commanded

LEMMA StagingKeepsTypes ==
    ASSUME TypeInv, NEW p \in Proc, Stages(p) PROVE TypeStep(p)
<1> USE DEF Place, Locked, Staging, Recovering, Tried, RollingBack, Removing
<1>1. /\ pc[p] \in Place /\ cmd[p] \in Command /\ NoCommand \in Command
      /\ cmd = [cmd EXCEPT ![p] = cmd[p]]
      /\ Fits(pc[p], cmd[p], Len(stages), journal)
      /\ Len(stages) \in Nat /\ faults \in 0..MaxFaults
      /\ Len(stages) <= MaxCommands /\ (p \in Unstaged => Len(stages) < MaxCommands)
      /\ MaxCommands \in Nat
  BY Arguments, FaultsAssumption
<1>2. UNCHANGED <<active, retained, journal, counters>>
  BY DEF Stages, Select, BeginStage, StageItem, StageLast, StageOccupied
<1>3. FilesOK'
  BY <1>2 DEF TypeInv, FilesOK, active, retained
<1>4. pc[p] \in {"select", "stage", "script"}
  BY DEF Stages, Select, BeginStage, StageItem, StageLast, StageOccupied, Goto
<1>5. /\ cmd[p].graph \in Graphs /\ cmd[p].next \in 1..Len(cmd[p].graph)
      /\ ItemPath(p) \in Path /\ Item(p).artifact \in Artifact
      /\ ~LastItem(p) => cmd[p].next + 1 \in 1..Len(cmd[p].graph)
  BY <1>4, ItemArguments DEF WithGraph
<1>6. journal' = journal /\ receipt' = receipt /\ commands' = commands /\ faults' = faults
  BY <1>2 DEF active, counters
<1>7. ASSUME StagesOK', Len(stages') = Len(stages),
             NEW to \in {"stage", "script", "activate"}, NEW c \in Command,
             pc' = [pc EXCEPT ![p] = to], cmd' = [cmd EXCEPT ![p] = c],
             c.graph = cmd[p].graph, c.next \in 1..Len(c.graph), c.stage \in 0..Len(stages),
             to # "stage" => c.stage # 0,
             c.stage = 0 => pc[p] \in {"select", "stage"} /\ cmd[p].stage = 0,
             c.prior = cmd[p].prior
      PROVE  TypeStep(p)
  <2>2. Fits(to, c, Len(stages), journal')
    BY <1>1, <1>5, <1>7 DEF Fits, WithGraph, WithStage
  <2>3. to \in Place /\ to \in Writing /\ pc[p] \in Writing
    BY <1>4 DEF Writing
  <2>4. to \in {"select", "stage"} => c.stage # 0 \/ p \in Unstaged
    BY <1>7 DEF Unstaged
  <2>5. Proper(p)
    BY <1>2, <1>6, <1>7, <2>2, <2>3, <2>4, Goes
  <2>6. JournalOK'
    BY <1>1, <1>6, <1>7, SameJournal
  <2> QED
    BY <1>3, <1>7, <2>5, <2>6 DEF TypeStep
<1>8. ASSUME StagesOK', Len(stages') = Len(stages), End(p) PROVE TypeStep(p)
  <2>1. Proper(p)
    BY <1>1, <1>6, <1>8, Ends
  <2>2. JournalOK'
    BY <1>1, <1>6, <1>8, SameJournal
  <2> QED
    BY <1>3, <1>8, <2>1, <2>2 DEF TypeStep
<1>12. \A s \in 1..Len(stages) : s \in 0..Len(stages) /\ s # 0
  BY <1>1
<1>9. CASE Select(p)
  <2>1. pc[p] = "select" /\ cmd[p].stage \in 0..Len(stages)
    BY <1>1, <1>9, FaultsAssumption DEF Select, Fits, Command
  <2>2. CASE SelectNone(p)
    <3>1. StagesOK' /\ Len(stages') = Len(stages)
      BY <2>2, SameStages DEF SelectNone
    <3>2. CASE End(p)
      BY <1>8, <3>1, <3>2
    <3>3. CASE Goto(p, "select", "stage") /\ UNCHANGED cmd
      BY <1>1, <1>5, <1>7, <2>1, <3>1, <3>3 DEF Goto
    <3> QED
      BY <2>2, <3>2, <3>3 DEF SelectNone
  <2>3. ASSUME NEW s \in Matches(cmd[p].graph), SelectReady(p, s) PROVE TypeStep(p)
    <3>1. s \in 1..Len(stages) /\ s # 0
      BY DEF Matches, TypeInv, StagesOK
    <3> DEFINE c == [cmd[p] EXCEPT !.stage = s]
    <3>2. /\ c \in Command /\ c.graph = cmd[p].graph /\ c.next = cmd[p].next /\ c.stage = s
          /\ c.prior = cmd[p].prior
      BY <1>1, <3>1 DEF Command
    <3>3. pc' = [pc EXCEPT ![p] = "activate"] /\ cmd' = [cmd EXCEPT ![p] = c]
      BY <2>3 DEF SelectReady, Goto
    <3>4. StagesOK' /\ Len(stages') = Len(stages)
      BY <2>3, SameStages DEF SelectReady
    <3> HIDE DEF c
    <3> QED
      BY <1>5, <1>7, <1>12, <3>1, <3>2, <3>3, <3>4
  <2>4. ASSUME NEW s \in Matches(cmd[p].graph), SelectUnready(p, s) PROVE TypeStep(p)
    <3>1. s \in 1..Len(stages) /\ s # 0 /\ stages[s] \in Stage
      BY DEF Matches, TypeInv, StagesOK
    <3> DEFINE c  == [cmd[p] EXCEPT !.stage = s]
               st == [stages[s] EXCEPT !.payload = Nothing]
    <3>2. /\ c \in Command /\ c.graph = cmd[p].graph /\ c.next = cmd[p].next /\ c.stage = s
          /\ c.prior = cmd[p].prior
      BY <1>1, <3>1 DEF Command
    <3>3. /\ pc' = [pc EXCEPT ![p] = "stage"] /\ cmd' = [cmd EXCEPT ![p] = c]
          /\ stages' = [stages EXCEPT ![s] = st]
      BY <2>4 DEF SelectUnready, Goto
    <3>4. st \in Stage
      BY <3>1 DEF Stage, Contents, Nothing
    <3> HIDE DEF c, st
    <3>5. StagesOK' /\ Len(stages') = Len(stages)
      BY <3>1, <3>3, <3>4, StageEdits
    <3> QED
      BY <1>5, <1>7, <1>12, <3>1, <3>2, <3>3, <3>5
  <2> QED
    BY <1>9, <2>2, <2>3, <2>4 DEF Select
<1>10. CASE BeginStage(p)
  <2>1. pc[p] = "stage" /\ pc' = [pc EXCEPT ![p] = "script"]
    BY <1>10 DEF BeginStage, Goto
  <2>2. CASE cmd[p].stage = 0
    <3> DEFINE c  == [cmd[p] EXCEPT !.stage = Len(stages) + 1]
               st == [graph |-> cmd[p].graph, status |-> "staging",
                      payload |-> Nothing, bin |-> FALSE]
    <3>1. p \in Unstaged
      BY <2>1, <2>2 DEF Unstaged
    <3>2. st \in Stage
      BY <1>5 DEF Stage, Status, Contents, Nothing
    <3>3. stages' = Append(stages, st) /\ cmd' = [cmd EXCEPT ![p] = c]
      BY <1>10, <2>2 DEF BeginStage
    <3>4. /\ c \in Command /\ c.graph = cmd[p].graph /\ c.next = cmd[p].next
          /\ c.stage = Len(stages) + 1 /\ c.prior = cmd[p].prior
      BY <1>1, <3>1 DEF Command
    <3> HIDE DEF c, st
    <3>5. StagesOK' /\ Len(stages') = Len(stages) + 1
      BY <3>2, <3>3 DEF TypeInv, StagesOK
    <3>6. Fits("script", c, Len(stages'), journal')
      BY <1>1, <1>5, <3>4, <3>5 DEF Fits, WithGraph, WithStage
    <3>7. StagesAdded(p, "script", c) /\ ReceiptAdded(p, "script", c)
      BY <1>6, <2>1, <3>1, <3>4, <3>5 DEF StagesAdded, ReceiptAdded, Ahead, Writing
    <3>8. Proper(p)
      <4>1. "script" \in Place
        OBVIOUS
      <4> QED
        BY <1>1, <1>6, <2>1, <3>3, <3>4, <3>6, <3>7, <4>1 DEF Proper
    <3>9. JournalOK'
      BY <1>1, <1>6, <3>5, SameJournal
    <3> QED
      BY <1>3, <3>5, <3>8, <3>9 DEF TypeStep
  <2>3. CASE cmd[p].stage # 0
    <3>1. cmd[p].stage \in 1..Len(stages) /\ stages[cmd[p].stage] \in Stage
      BY <2>3, StageArguments DEF Staged
    <3> DEFINE st == [stages[cmd[p].stage] EXCEPT !.status = "staging"]
    <3>2. st \in Stage
      BY <3>1 DEF Stage, Status
    <3>3. stages' = [stages EXCEPT ![cmd[p].stage] = st] /\ UNCHANGED cmd
      BY <1>10, <2>3 DEF BeginStage
    <3> HIDE DEF st
    <3>4. StagesOK' /\ Len(stages') = Len(stages)
      BY <3>1, <3>2, <3>3, StageEdits
    <3>5. cmd' = [cmd EXCEPT ![p] = cmd[p]]
      BY <1>1, <3>3
    <3> QED
      <4>1. cmd[p] \in Command
        BY <1>1
      <4> QED
        BY <1>5, <1>7, <1>12, <2>1, <2>3, <3>1, <3>4, <3>5, <4>1
  <2> QED
    BY <2>2, <2>3
<1>11. CASE StageItem(p) \/ StageLast(p)
  <2>1. pc[p] = "script"
    BY <1>11 DEF StageItem, StageLast
  <2>2. cmd[p].stage \in 1..Len(stages) /\ stages[cmd[p].stage] \in Stage /\ cmd[p].stage # 0
    BY <2>1, StageArguments DEF Staged, WithStage
  <2> DEFINE built == [stages[cmd[p].stage].payload EXCEPT ![ItemPath(p)] = Item(p).artifact]
  <2>3. built \in Contents
    BY <1>5, <2>2 DEF Stage, Contents
  <2>4. CASE StageItem(p)
    <3> DEFINE c  == [cmd[p] EXCEPT !.next = @ + 1]
               st == [stages[cmd[p].stage] EXCEPT !.payload = built]
    <3>1. stages' = [stages EXCEPT ![cmd[p].stage] = st] /\ cmd' = [cmd EXCEPT ![p] = c]
      BY <2>4 DEF StageItem
    <3>2. st \in Stage
      BY <2>2, <2>3 DEF Stage
    <3>3. cmd[p].next + 1 \in 1..Longest /\ cmd[p].next + 1 \in 1..Len(cmd[p].graph)
      BY <1>5, <2>4, GraphFacts DEF StageItem
    <3>4. /\ c \in Command /\ c.graph = cmd[p].graph /\ c.next = cmd[p].next + 1
          /\ c.stage = cmd[p].stage /\ c.prior = cmd[p].prior
      BY <1>1, <3>3 DEF Command
    <3>5. pc' = [pc EXCEPT ![p] = "script"]
      <4>1. UNCHANGED pc
        BY <2>4 DEF StageItem
      <4> QED
        BY <2>1, <4>1, Arguments
    <3> HIDE DEF c, st, built
    <3>6. StagesOK' /\ Len(stages') = Len(stages)
      BY <2>2, <3>1, <3>2, StageEdits
    <3> QED
      BY <1>5, <1>7, <1>12, <2>2, <3>1, <3>3, <3>4, <3>5, <3>6
  <2>5. CASE StageLast(p)
    <3> DEFINE whole == \A path \in Paths(cmd[p].graph) : built[path] # None
               stat  == IF whole THEN "ready" ELSE stages[cmd[p].stage].status
               st    == [stages[cmd[p].stage] EXCEPT !.payload = built, !.status = stat]
    <3>1. stages' = [stages EXCEPT ![cmd[p].stage] = st]
      BY <2>5 DEF StageLast, Staged
    <3>2. st \in Stage
      BY <2>2, <2>3 DEF Stage, Status
    <3>3. StagesOK' /\ Len(stages') = Len(stages)
      <4> HIDE DEF st
      <4> QED
        BY <2>2, <3>1, <3>2, StageEdits
    <3>4. \/ Goto(p, "script", "activate") /\ UNCHANGED cmd
          \/ End(p)
      BY <2>5 DEF StageLast
    <3>5. CASE End(p)
      BY <1>8, <3>3, <3>5
    <3>6. CASE Goto(p, "script", "activate") /\ UNCHANGED cmd
      <4>1. pc' = [pc EXCEPT ![p] = "activate"] /\ cmd' = [cmd EXCEPT ![p] = cmd[p]]
        BY <1>1, <3>6 DEF Goto
      <4>2. cmd[p] \in Command
        BY <1>1
      <4> QED
        BY <1>5, <1>7, <1>12, <2>2, <3>3, <4>1, <4>2
    <3> QED
      BY <3>4, <3>5, <3>6
  <2> QED
    BY <1>11, <2>4, <2>5
<1>13. CASE StageOccupied(p)
  <2>1. StagesOK' /\ Len(stages') = Len(stages)
    BY <1>13, SameStages DEF StageOccupied
  <2> QED
    BY <1>8, <1>13, <2>1 DEF StageOccupied, Leave
<1> QED
  BY <1>9, <1>10, <1>11, <1>13 DEF Stages

\* A step of a staging or an activation that goes on with the same arguments.
LEMMA StepsOn ==
    ASSUME TypeInv, NEW p \in Proc, UNCHANGED <<receipt, counters>>,
           Len(stages') = Len(stages), pc[p] \in WithStage,
           journal' = None => journal = None \/ pc[p] \in Locked \/ ~lock
    PROVE  /\ \A to \in WithStage \cup {"collect"}, c \in Command :
                 /\ pc' = [pc EXCEPT ![p] = to] /\ cmd' = [cmd EXCEPT ![p] = c]
                 /\ c.graph = cmd[p].graph /\ c.next \in 1..Len(c.graph)
                 /\ c.stage = cmd[p].stage /\ c.prior \in {cmd[p].prior, receipt}
                 /\ to \in Recovering \cup Tried => journal' # None
                 /\ to \in Writing => pc[p] \in Writing
                 => Proper(p)
           /\ \A to \in WithStage \cup {"collect"} :
                 /\ pc' = [pc EXCEPT ![p] = to] /\ UNCHANGED cmd
                 /\ to \in Recovering \cup Tried => journal' # None
                 /\ to \in Writing => pc[p] \in Writing
                 => Proper(p)
<1> USE DEF Place, Locked, Staging, Recovering, Tried, RollingBack, Removing
<1>1. /\ cmd[p] \in Command /\ cmd = [cmd EXCEPT ![p] = cmd[p]]
      /\ Fits(pc[p], cmd[p], Len(stages), journal)
  BY Arguments
<1>2. pc[p] \in WithGraph
  BY DEF WithGraph, WithStage
<1>3. cmd[p].graph \in Graphs /\ cmd[p].next \in 1..Len(cmd[p].graph)
  BY <1>2, ItemArguments
<1>4. ASSUME NEW to \in WithStage \cup {"collect"}, NEW c \in Command,
             pc' = [pc EXCEPT ![p] = to], cmd' = [cmd EXCEPT ![p] = c],
             c.graph = cmd[p].graph, c.next \in 1..Len(c.graph),
             c.stage = cmd[p].stage, c.prior \in {cmd[p].prior, receipt},
             to \in Recovering \cup Tried => journal' # None,
             to \in Writing => pc[p] \in Writing
      PROVE  Proper(p)
  <2>1. to \in Place /\ to \notin {"select", "stage"}
    BY DEF WithStage
  <2>2. Fits(to, c, Len(stages), journal')
    BY <1>1, <1>3, <1>4 DEF Fits, WithGraph, WithStage
  <2> QED
    BY <1>4, <2>1, <2>2, Goes
<1>5. ASSUME NEW to \in WithStage \cup {"collect"},
             pc' = [pc EXCEPT ![p] = to], UNCHANGED cmd,
             to \in Recovering \cup Tried => journal' # None,
             to \in Writing => pc[p] \in Writing
      PROVE  Proper(p)
  BY <1>1, <1>3, <1>4, <1>5
<1> QED
  BY <1>4, <1>5

LEMMA RecoveryKeepsTypes ==
    ASSUME TypeInv, NEW p \in Proc, Recovers(p) PROVE TypeStep(p)
<1>1. pc[p] \in Recovering
  BY DEF Recovers, RecoverBin, RecoverBackup, RecoverPromoted, RecoverReplaced, Recovered,
         RecoveryFails, Goto, Recovering
<1> DEFINE n == journal.generation - 1
           s == journal.stage
<1>2. /\ journal \in Journal /\ journal # None /\ s \in 1..Len(stages) /\ stages[s] \in Stage
      /\ n \in Generation
  BY <1>1, JournalArguments
<1>3. pc[p] \in WithStage /\ pc[p] \in Locked /\ pc[p] \in Writing
  BY <1>1 DEF WithStage, Locked, Writing
<1>4. UNCHANGED <<receipt, counters>>
  BY DEF Recovers, RecoverBin, RecoverBackup, RecoverPromoted, RecoverReplaced, Recovered,
         RecoveryFails, active
<1>5. FilesOK /\ Len(stages) \in Nat
  BY Arguments DEF TypeInv
<1>6. ASSUME StagesOK', Len(stages') = Len(stages), journal' \in {journal, None}
      PROVE  JournalOK'
  BY <1>5, <1>6, SameJournal
<1>7. ASSUME Len(stages') = Len(stages), journal' \in {journal, None},
             NEW to \in {"recoverBackup", "recoverPromoted", "recoverReplaced", "recovered",
                         "prepare"},
             pc' = [pc EXCEPT ![p] = to], UNCHANGED cmd,
             to # "prepare" => journal' = journal
      PROVE  Proper(p)
  <2>1. to \in WithStage \cup {"collect"} /\ (to \in Recovering \cup Tried => journal' # None)
    BY <1>2, <1>7 DEF WithStage, Recovering, Tried
  <2> QED
    BY <1>3, <1>4, <1>7, <2>1, StepsOn
<1>8. ASSUME NEW st \in Stage, stages' = [stages EXCEPT ![s] = st]
      PROVE  StagesOK' /\ Len(stages') = Len(stages)
  BY <1>2, <1>8, StageEdits
<1>9. CASE RecoverBin(p)
  <2>1. StagesOK' /\ Len(stages') = Len(stages)
    <3>1. CASE UNCHANGED stages
      BY <3>1, SameStages
    <3>2. CASE stages' = [stages EXCEPT ![s].bin = TRUE]
      <4> DEFINE st == [stages[s] EXCEPT !.bin = TRUE]
      <4>1. stages' = [stages EXCEPT ![s] = st] /\ st \in Stage
        BY <1>2, <3>2 DEF Stage
      <4> HIDE DEF st
      <4> QED
        BY <1>8, <4>1
    <3> QED
      BY <1>9, <3>1, <3>2 DEF RecoverBin
  <2>2. FilesOK'
    BY <1>5, <1>9 DEF RecoverBin, FilesOK, LinkSets, retained
  <2> QED
    BY <1>6, <1>7, <1>9, <2>1, <2>2 DEF RecoverBin, Goto, TypeStep
<1>10. CASE RecoverBackup(p)
  <2>1. StagesOK' /\ Len(stages') = Len(stages)
    BY <1>10, SameStages DEF RecoverBackup
  <2>2. FilesOK'
    BY <1>2, <1>5, <1>10 DEF RecoverBackup, FilesOK, LinkSets
  <2> QED
    BY <1>6, <1>7, <1>10, <2>1, <2>2 DEF RecoverBackup, Goto, TypeStep
<1>11. CASE RecoverPromoted(p)
  <2> DEFINE back == {path \in journal.promoted : Present(path)}
             put  == [path \in Path |-> IF path \in back THEN payload[path]
                                        ELSE stages[s].payload[path]]
             st   == [stages[s] EXCEPT !.payload = put]
  <2>1. put \in Contents
    BY <1>2, <1>5 DEF FilesOK, Contents, Stage
  <2>2. stages' = [stages EXCEPT ![s] = st] /\ st \in Stage
    BY <1>2, <1>11, <2>1 DEF Stage, RecoverPromoted
  <2>3. payload' \in Contents
    BY <1>5, <1>11 DEF RecoverPromoted, FilesOK, Contents
  <2> HIDE DEF back, put, st
  <2>4. StagesOK' /\ Len(stages') = Len(stages)
    BY <1>8, <2>2
  <2>5. FilesOK'
    BY <1>5, <1>11, <2>3 DEF RecoverPromoted, FilesOK, retained
  <2> QED
    BY <1>6, <1>7, <1>11, <2>4, <2>5 DEF RecoverPromoted, Goto, TypeStep
<1>12. CASE RecoverReplaced(p)
  <2>1. StagesOK' /\ Len(stages') = Len(stages)
    BY <1>12, SameStages DEF RecoverReplaced
  <2>2. payload' \in Contents /\ payloadBackup' \in [Generation -> Contents]
    BY <1>2, <1>5, <1>12 DEF RecoverReplaced, RestoreReplaced, FilesOK, Contents
  <2>3. FilesOK'
    BY <1>5, <1>12, <2>2 DEF RecoverReplaced, FilesOK
  <2> QED
    BY <1>6, <1>7, <1>12, <2>1, <2>3 DEF RecoverReplaced, Goto, TypeStep
<1>13. CASE Recovered(p)
  <2>1. StagesOK' /\ Len(stages') = Len(stages)
    BY <1>13, SameStages DEF Recovered
  <2>2. FilesOK'
    BY <1>5, <1>13 DEF Recovered, FilesOK, active, retained
  <2> QED
    BY <1>6, <1>7, <1>13, <2>1, <2>2 DEF Recovered, Goto, TypeStep
<1>14. CASE RecoveryFails(p)
  <2>1. StagesOK' /\ Len(stages') = Len(stages)
    BY <1>14, SameStages DEF RecoveryFails
  <2>2. FilesOK' /\ journal' = journal
    BY <1>5, <1>14 DEF RecoveryFails, FilesOK, active, retained
  <2>3. End(p) /\ commands' = commands /\ faults' \in 0..MaxFaults /\ receipt' = receipt
    BY <1>14, Arguments DEF RecoveryFails, Leave, counters, active
  <2>4. Proper(p)
    BY <1>3, <2>1, <2>2, <2>3, Ends
  <2> QED
    BY <1>6, <2>1, <2>2, <2>4 DEF TypeStep
<1> QED
  BY <1>9, <1>10, <1>11, <1>12, <1>13, <1>14 DEF Recovers

LEMMA JournalEdits ==
    ASSUME TypeInv, NEW p \in Proc, pc[p] \in Tried, NEW phase \in Phase, Advance(p, phase)
    PROVE  /\ journal' \in Journal /\ journal' # None
           /\ UNCHANGED stages => JournalOK'
<1>1. journal \in Journal /\ journal # None /\ journal.generation >= 1
      /\ journal.stage <= Len(stages)
  BY JournalArguments DEF TypeInv, JournalOK
<1>2. /\ cmd[p].promoted \subseteq Path /\ cmd[p].replaced \subseteq Path
      /\ cmd[p].swapped \in BOOLEAN
  BY Arguments DEF Command
<1>3. journal' \in Journal
  BY <1>1, <1>2 DEF Advance, Journal
<1>4. journal'.generation = journal.generation /\ journal'.stage = journal.stage
  BY <1>1 DEF Advance, Journal
<1> QED
  BY <1>1, <1>3, <1>4, NoneAssumption DEF JournalOK

LEMMA PromotionKeepsTypes ==
    ASSUME TypeInv, NEW p \in Proc, Promotes(p) PROVE TypeStep(p)
<1>1. pc[p] \in {"promote", "place", "journalPromoted"}
  BY DEF Promotes, PromoteNew, Reuse, SetAside, PlaceNew, JournalPromoted, Goto
<1>2. pc[p] \in WithStage /\ pc[p] \in Locked /\ pc[p] \in Writing /\ pc[p] \in Tried
  BY <1>1 DEF WithStage, Locked, Writing, Underway, Tried
<1> DEFINE s == cmd[p].stage
<1>3. s \in 1..Len(stages) /\ Staged(p) \in Stage /\ stages[s] = Staged(p)
  BY <1>2, StageArguments DEF Staged
<1>4. /\ cmd[p].graph \in Graphs /\ cmd[p].next \in 1..Len(cmd[p].graph)
      /\ ItemPath(p) \in Path
      /\ ~LastItem(p) => cmd[p].next + 1 \in 1..Len(cmd[p].graph)
  <2>1. pc[p] \in WithGraph
    BY <1>2 DEF WithGraph
  <2> QED
    BY <2>1, ItemArguments
<1>5. FilesOK /\ Len(stages) \in Nat /\ cmd[p] \in Command /\ PriorGeneration(p) \in Generation
  BY Arguments DEF TypeInv
<1>6. UNCHANGED <<receipt, counters>>
  BY DEF Promotes, PromoteNew, Reuse, SetAside, PlaceNew, JournalPromoted, active
<1>7. journal # None
  BY <1>2, JournalArguments
<1>8. ASSUME StagesOK', Len(stages') = Len(stages), journal' = journal PROVE JournalOK'
  BY <1>5, <1>8, SameJournal
<1>9. ASSUME NEW moved \in SUBSET Path, NextItem(p, moved), Len(stages') = Len(stages),
             journal' = journal
      PROVE  Proper(p)
  <2> DEFINE to   == IF LastItem(p) THEN "journalPromoted" ELSE "promote"
             next == IF LastItem(p) THEN cmd[p].next ELSE cmd[p].next + 1
             c    == [cmd[p] EXCEPT !.next = next, !.promoted = @ \cup moved]
  <2>1. to \in WithStage \cup {"collect"}
    BY DEF WithStage, Tried
  <2>2. pc' = [pc EXCEPT ![p] = to] /\ cmd' = [cmd EXCEPT ![p] = c]
    <3>1. cmd \in [Proc -> Command]
      BY DEF TypeInv, CommandsOK
    <3> QED
      BY <1>9, <3>1 DEF NextItem
  <2>3. next \in 1..Len(cmd[p].graph) /\ next \in 1..Longest
    BY <1>4, GraphFacts
  <2>4. /\ c \in Command /\ c.graph = cmd[p].graph /\ c.next = next
        /\ c.stage = cmd[p].stage /\ c.prior = cmd[p].prior
    <3> HIDE DEF next
    <3> QED
      BY <1>5, <2>3 DEF Command
  <2> HIDE DEF to, next, c
  <2> QED
    BY <1>2, <1>6, <1>7, <1>9, <2>1, <2>2, <2>3, <2>4, StepsOn
<1>10. ASSUME NEW st \in Stage, stages' = [stages EXCEPT ![s] = st]
       PROVE  StagesOK' /\ Len(stages') = Len(stages)
  BY <1>3, <1>10, StageEdits
<1>11. ASSUME stages' = [stages EXCEPT ![s].payload[ItemPath(p)] = None]
       PROVE  StagesOK' /\ Len(stages') = Len(stages)
  <2> DEFINE st == [stages[s] EXCEPT !.payload = [stages[s].payload EXCEPT ![ItemPath(p)] = None]]
  <2>1. stages' = [stages EXCEPT ![s] = st] /\ st \in Stage
    BY <1>3, <1>4, <1>11 DEF Stage, Contents
  <2> HIDE DEF st
  <2> QED
    BY <1>10, <2>1
<1>12. CASE PromoteNew(p) \/ PlaceNew(p)
  <2>1. MoveIntoPlace(p)
    BY <1>12 DEF PromoteNew, PlaceNew
  <2>2. /\ UNCHANGED <<bin, receipt, retained, journal>>
    BY <1>12 DEF PromoteNew, PlaceNew
  <2>3. StagesOK' /\ Len(stages') = Len(stages)
    BY <1>11, <2>1 DEF MoveIntoPlace
  <2>4. payload' \in Contents
    BY <1>3, <1>4, <1>5, <2>1 DEF MoveIntoPlace, FilesOK, Contents, Stage
  <2>5. FilesOK'
    BY <1>5, <2>2, <2>4 DEF FilesOK, retained
  <2>6. Proper(p)
    BY <1>4, <1>9, <2>1, <2>2, <2>3 DEF MoveIntoPlace
  <2> QED
    BY <1>8, <2>2, <2>3, <2>5, <2>6 DEF TypeStep
<1>13. CASE Reuse(p)
  <2>1. StagesOK' /\ Len(stages') = Len(stages)
    BY <1>11, <1>13 DEF Reuse
  <2>2. FilesOK' /\ journal' = journal
    BY <1>5, <1>13 DEF Reuse, FilesOK, active, retained
  <2>3. Proper(p)
    BY <1>9, <1>13, <2>1, <2>2 DEF Reuse
  <2> QED
    BY <1>8, <2>1, <2>2, <2>3 DEF TypeStep
<1>14. CASE SetAside(p)
  <2>1. StagesOK' /\ Len(stages') = Len(stages) /\ journal' = journal
    BY <1>14, SameStages DEF SetAside
  <2>2. payload' \in Contents /\ payloadBackup' \in [Generation -> Contents]
    BY <1>4, <1>5, <1>14 DEF SetAside, FilesOK, Contents
  <2>3. FilesOK'
    BY <1>5, <1>14, <2>2 DEF SetAside, FilesOK
  <2> DEFINE c == [cmd[p] EXCEPT !.replaced = @ \cup {ItemPath(p)}]
  <2>4. pc' = [pc EXCEPT ![p] = "place"] /\ cmd' = [cmd EXCEPT ![p] = c]
    BY <1>14 DEF SetAside, Goto
  <2>5. /\ c \in Command /\ c.graph = cmd[p].graph /\ c.next = cmd[p].next
        /\ c.stage = cmd[p].stage /\ c.prior = cmd[p].prior
    BY <1>4, <1>5 DEF Command
  <2>6. "place" \in WithStage \cup {"collect"}
    BY DEF WithStage, Tried
  <2> HIDE DEF c
  <2>7. Proper(p)
    BY <1>2, <1>4, <1>6, <1>7, <2>1, <2>4, <2>5, <2>6, StepsOn
  <2> QED
    BY <1>8, <2>1, <2>3, <2>7 DEF TypeStep
<1>15. CASE JournalPromoted(p)
  <2>1. StagesOK' /\ Len(stages') = Len(stages)
    BY <1>15, SameStages DEF JournalPromoted
  <2>2. journal' \in Journal /\ journal' # None /\ JournalOK'
    BY <1>2, <1>15, JournalEdits DEF JournalPromoted, Phase
  <2>3. FilesOK'
    BY <1>5, <1>15, <2>2 DEF JournalPromoted, FilesOK, active, retained
  <2>4. "swap" \in WithStage \cup {"collect"}
    BY DEF WithStage, Tried
  <2>5. Proper(p)
    BY <1>2, <1>6, <1>15, <2>1, <2>2, <2>4, StepsOn DEF JournalPromoted, Goto
  <2> QED
    BY <2>1, <2>2, <2>3, <2>5 DEF TypeStep
<1> QED
  BY <1>12, <1>13, <1>14, <1>15 DEF Promotes

\* Undo keeps the types, whatever follows.
LEMMA UndoKeepsTypes ==
    ASSUME TypeInv, NEW p \in Proc, pc[p] \in Tried, Undo(p),
           UNCHANGED <<receipt, archive, rollbackBin>>
    PROVE  /\ FilesOK' /\ StagesOK' /\ JournalOK' /\ Len(stages') = Len(stages)
           /\ journal' \in {journal, None}
<1> DEFINE s == cmd[p].stage
           n == PriorGeneration(p)
<1>1. s \in 1..Len(stages) /\ Staged(p) \in Stage /\ stages[s] = Staged(p)
  BY StageArguments DEF Staged, WithStage
<1>2. FilesOK /\ Len(stages) \in Nat /\ n \in Generation /\ cmd[p] \in Command
  BY Arguments DEF TypeInv
<1>3. CASE UNCHANGED <<payload, bin, binBackup, payloadBackup, stages, journal>>
  BY <1>2, <1>3, SameStages, SameJournal DEF FilesOK
<1>4. CASE ~UNCHANGED <<payload, bin, binBackup, payloadBackup, stages, journal>>
  <2> DEFINE rest   == IF pc[p] \in Switched THEN None ELSE bin
             undone == [path \in Path |-> IF path \in cmd[p].promoted THEN None
                                          ELSE payload[path]]
             staged == [path \in Path |-> IF path \in cmd[p].promoted THEN payload[path]
                                          ELSE Staged(p).payload[path]]
             isBin  == Staged(p).bin \/ (pc[p] \in Switched /\ bin # None)
             st     == [stages[s] EXCEPT !.payload = staged, !.bin = isBin]
  <2>1. /\ bin' = IF binBackup[n] # None THEN binBackup[n] ELSE rest
        /\ binBackup' = [binBackup EXCEPT ![n] = None]
        /\ RestoreReplaced(n, cmd[p].replaced, undone)
        /\ stages' = [stages EXCEPT ![s] = st]
        /\ journal' = None
    BY <1>4 DEF Undo
  <2>2. staged \in Contents /\ undone \in Contents
    BY <1>1, <1>2 DEF FilesOK, Contents, Stage
  <2>3. isBin \in BOOLEAN
    BY <1>1 DEF Stage
  <2> HIDE DEF undone, staged, isBin
  <2>4. st \in Stage
    BY <1>1, <2>2, <2>3 DEF Stage
  <2> HIDE DEF st
  <2>5. StagesOK' /\ Len(stages') = Len(stages)
    BY <1>1, <2>1, <2>4, StageEdits
  <2>6. payload' \in Contents /\ payloadBackup' \in [Generation -> Contents]
    BY <1>2, <2>1, <2>2 DEF RestoreReplaced, FilesOK, Contents
  <2>7. bin' \in LinkSets /\ binBackup' \in [Generation -> LinkSets]
    BY <1>2, <2>1 DEF FilesOK, LinkSets
  <2>8. FilesOK'
    BY <1>2, <2>1, <2>6, <2>7 DEF FilesOK
  <2>9. JournalOK'
    BY <1>2, <2>1, <2>5, SameJournal
  <2> QED
    BY <2>1, <2>5, <2>8, <2>9
<1> QED
  BY <1>3, <1>4

LEMMA ActivationKeepsTypes ==
    ASSUME TypeInv, NEW p \in Proc, Activates(p) PROVE TypeStep(p)
<1> USE DEF Place, Locked, Staging, Recovering, Tried, RollingBack, Removing
<1>1. CASE Promotes(p)
  BY <1>1, PromotionKeepsTypes
<1>2. CASE Activate(p)
  <2>1. StagesOK' /\ Len(stages') = Len(stages) /\ ~lock
    BY <1>2, SameStages DEF Activate, Lock
  <2>2. FilesOK' /\ journal' \in {journal, None} /\ UNCHANGED <<receipt, counters, cmd>>
    BY <1>2 DEF Activate, TypeInv, FilesOK, active, retained
  <2>3. PICK to \in {"prepare", "recoverBin", "recoverPromoted"} :
           /\ Goto(p, "activate", to)
           /\ to \in Recovering => journal' # None
    BY <1>2 DEF Activate
  <2>4. JournalOK'
    BY <2>1, <2>2, Arguments, SameJournal
  <2>5. Proper(p)
    BY <2>1, <2>2, <2>3, StepsOn DEF Goto, WithStage, Writing
  <2> QED
    BY <2>1, <2>2, <2>4, <2>5 DEF TypeStep
<1>3. CASE Prepare(p)
  <2>1. pc[p] = "prepare" /\ pc[p] \in WithStage
    BY <1>3 DEF Prepare, Goto, WithStage
  <2> DEFINE s  == cmd[p].stage
             st == [stages[s] EXCEPT !.bin = TRUE]
             c  == [cmd[p] EXCEPT !.prior = receipt, !.next = 1]
  <2>2. s \in 1..Len(stages) /\ stages[s] \in Stage /\ s # 0
    BY <2>1, StageArguments DEF Staged
  <2>3. stages' = [stages EXCEPT ![s] = st] /\ st \in Stage
    BY <1>3, <2>2 DEF Prepare, Stage
  <2>4. StagesOK' /\ Len(stages') = Len(stages)
    <3> HIDE DEF st
    <3> QED
      BY <2>2, <2>3, StageEdits
  <2>5. /\ receipt \in Receipt \cup {None} /\ cmd[p] \in Command
        /\ cmd[p].graph \in Graphs /\ Gen(receipt) + 1 \in Generation
        /\ Len(stages) \in Nat /\ Len(stages) <= MaxCommands /\ MaxCommands \in Nat
    <3>1. pc[p] \in WithGraph /\ pc[p] \in Writing
      BY <2>1 DEF WithGraph, Writing
    <3> QED
      BY <3>1, Arguments, ItemArguments, FaultsAssumption DEF TypeInv, FilesOK
  <2>6. 1 \in 1..Longest /\ 1 \in 1..Len(cmd[p].graph)
    BY <2>5, GraphFacts
  <2>7. /\ c \in Command /\ c.graph = cmd[p].graph /\ c.next = 1
        /\ c.stage = cmd[p].stage /\ c.prior = receipt
    BY <2>5, <2>6 DEF Command
  <2>8. pc' = [pc EXCEPT ![p] = "promote"] /\ cmd' = [cmd EXCEPT ![p] = c]
    BY <1>3 DEF Prepare, Goto
  <2>9. journal' = [generation |-> Gen(receipt) + 1, phase |-> "prepared", stage |-> s,
                    promoted |-> {}, replaced |-> {}, binBackup |-> FALSE]
    <3>1. Gen(receipt) + 1 = IF receipt = None THEN 1 ELSE receipt.generation + 1
      BY DEF Gen
    <3> QED
      BY <1>3, <3>1 DEF Prepare
  <2>10. journal' \in Journal
    BY <2>2, <2>5, <2>9 DEF Journal, Phase
  <2>11. JournalOK' /\ journal' # None
    <3>1. Gen(receipt) + 1 >= 1
      BY <2>5 DEF Gen, Receipt, Generation
    <3>2. journal' # None
      BY <2>10, NoneAssumption
    <3>3. journal'.generation = Gen(receipt) + 1 /\ journal'.stage = s
      BY <2>9
    <3>4. s <= Len(stages')
      BY <2>2, <2>4, <2>5
    <3> QED
      BY <3>1, <3>2, <3>3, <3>4 DEF JournalOK
  <2>12. FilesOK'
    BY <1>3, <2>10 DEF Prepare, TypeInv, FilesOK, active, retained
  <2>13. Proper(p)
    <3>1. UNCHANGED <<receipt, counters>>
      BY <1>3 DEF Prepare, active
    <3>2. "promote" \in WithStage \cup {"collect"} /\ pc[p] \in Writing
      BY <2>1 DEF WithStage, Writing
    <3> HIDE DEF c, st
    <3> QED
      BY <2>1, <2>4, <2>6, <2>7, <2>8, <2>11, <3>1, <3>2, StepsOn
  <2> QED
    BY <2>4, <2>11, <2>12, <2>13 DEF TypeStep
<1>4. CASE PrepareFails(p)
  <2>1. StagesOK' /\ Len(stages') = Len(stages) /\ UNCHANGED <<receipt, counters, journal>>
    BY <1>4, SameStages DEF PrepareFails, active
  <2>2. FilesOK' /\ End(p)
    BY <1>4 DEF PrepareFails, TypeInv, FilesOK, active, retained, Leave
  <2>3. Proper(p)
    BY <2>1, <2>2, Arguments, Ends DEF counters
  <2>4. JournalOK'
    BY <2>1, Arguments, SameJournal
  <2> QED
    BY <2>1, <2>2, <2>3, <2>4 DEF TypeStep
<1>5. ASSUME pc[p] \in Tried, UNCHANGED <<receipt, counters, stages>>, journal' \in {journal, None},
             FilesOK', UNCHANGED cmd,
             NEW to \in Tried \cup {"collect"}, pc' = [pc EXCEPT ![p] = to],
             to # "collect" => journal' = journal,
             to \in Writing => pc[p] \in Writing
      PROVE  TypeStep(p)
  <2>1. StagesOK' /\ Len(stages') = Len(stages) /\ journal # None
    BY <1>5, SameStages, JournalArguments
  <2>2. JournalOK'
    BY <1>5, <2>1, Arguments, SameJournal
  <2>3. to \in WithStage \cup {"collect"} /\ pc[p] \in WithStage
    BY <1>5 DEF WithStage
  <2>4. Proper(p)
    <3>1. to \in Recovering \cup Tried => journal' # None
      BY <1>5, <2>1
    <3> QED
      BY <1>5, <2>1, <2>3, <3>1, StepsOn
  <2> QED
    BY <1>5, <2>1, <2>2, <2>4 DEF TypeStep
<1>6. CASE Swap(p)
  <2>1. pc[p] = "swap" /\ pc' = [pc EXCEPT ![p] = "switch"] /\ pc[p] \in WithStage
    BY <1>6 DEF Swap, Goto, WithStage
  <2>2. UNCHANGED <<receipt, counters, stages, journal>>
    BY <1>6 DEF Swap
  <2>3. FilesOK /\ PriorGeneration(p) \in Generation /\ cmd[p] \in Command
    BY Arguments DEF TypeInv
  <2>4. FilesOK'
    BY <1>6, <2>3 DEF Swap, FilesOK, LinkSets
  <2>5. CASE UNCHANGED cmd
    BY <1>5, <2>1, <2>2, <2>4, <2>5 DEF Writing, Underway
  <2>6. CASE cmd' = [cmd EXCEPT ![p].swapped = TRUE]
    <3> DEFINE c == [cmd[p] EXCEPT !.swapped = TRUE]
    <3>1. cmd' = [cmd EXCEPT ![p] = c]
      BY <2>6
    <3>2. /\ c \in Command /\ c.graph = cmd[p].graph /\ c.next = cmd[p].next
          /\ c.stage = cmd[p].stage /\ c.prior = cmd[p].prior
      BY <2>3 DEF Command
    <3>3. StagesOK' /\ Len(stages') = Len(stages) /\ journal # None
      BY <2>1, <2>2, SameStages, JournalArguments
    <3>4. cmd[p].next \in 1..Len(cmd[p].graph)
      BY <2>1, ItemArguments DEF WithGraph
    <3>5. "switch" \in WithStage \cup {"collect"} /\ pc[p] \in Writing
      BY <2>1 DEF WithStage, Writing, Underway
    <3> HIDE DEF c
    <3>6. Proper(p)
      BY <2>1, <2>2, <3>1, <3>2, <3>3, <3>4, <3>5, StepsOn
    <3>7. JournalOK'
      BY <2>2, <3>3, Arguments, SameJournal
    <3> QED
      BY <2>4, <3>3, <3>6, <3>7 DEF TypeStep
  <2> QED
    BY <1>6, <2>5, <2>6 DEF Swap
<1>7. CASE Switch(p)
  <2>1. /\ pc[p] = "switch" /\ pc' = [pc EXCEPT ![p] = "journalSwitched"]
        /\ pc[p] \in WithStage /\ pc[p] \in WithGraph /\ pc[p] \in Writing
    BY <1>7 DEF Switch, Goto, WithStage, WithGraph, Writing, Underway
  <2>2. UNCHANGED <<receipt, counters, journal, cmd>>
    BY <1>7 DEF Switch
  <2> DEFINE st == [stages[cmd[p].stage] EXCEPT !.bin = FALSE]
  <2>3. cmd[p].stage \in 1..Len(stages) /\ stages[cmd[p].stage] \in Stage
    BY <2>1, StageArguments DEF Staged
  <2>4. stages' = [stages EXCEPT ![cmd[p].stage] = st] /\ st \in Stage
    BY <1>7, <2>3 DEF Switch, Stage
  <2> HIDE DEF st
  <2>5. StagesOK' /\ Len(stages') = Len(stages) /\ journal # None
    BY <2>1, <2>3, <2>4, StageEdits, JournalArguments
  <2>6. FilesOK'
    <3>1. Links(cmd[p].graph) \in LinkSets
      BY <2>1, ItemArguments
    <3> QED
      BY <1>7, <3>1 DEF Switch, TypeInv, FilesOK, retained
  <2>7. "journalSwitched" \in WithStage \cup {"collect"}
    BY DEF WithStage
  <2>8. Proper(p)
    BY <2>1, <2>2, <2>5, <2>7, StepsOn
  <2>9. JournalOK'
    BY <2>2, <2>5, Arguments, SameJournal
  <2> QED
    BY <2>5, <2>6, <2>8, <2>9 DEF TypeStep
<1>8. CASE JournalSwitched(p) \/ JournalReceipt(p)
  <2>1. PICK phase \in Phase, from \in {"journalSwitched", "finish"},
             to \in {"archive", "unlink"} :
           /\ Goto(p, from, to) /\ Advance(p, phase)
           /\ to \in Writing => from \in Writing
    BY <1>8 DEF JournalSwitched, JournalReceipt, Phase, Writing, Underway
  <2>2. UNCHANGED <<active, retained, stages, cmd, counters>>
    BY <1>8 DEF JournalSwitched, JournalReceipt
  <2>3. pc[p] \in Tried /\ pc[p] \in WithStage /\ pc' = [pc EXCEPT ![p] = to]
    BY <2>1 DEF Goto, WithStage
  <2>4. journal' \in Journal /\ journal' # None /\ JournalOK'
    BY <2>1, <2>2, <2>3, JournalEdits
  <2>5. FilesOK' /\ receipt' = receipt
    BY <2>2, <2>4 DEF TypeInv, FilesOK, active, retained
  <2>6. StagesOK' /\ Len(stages') = Len(stages)
    BY <2>2, SameStages
  <2>7. to \in WithStage \cup {"collect"} /\ (to \in Writing => pc[p] \in Writing)
    BY <2>1 DEF WithStage, Goto
  <2>8. Proper(p)
    BY <2>2, <2>3, <2>4, <2>5, <2>6, <2>7, StepsOn
  <2> QED
    BY <2>4, <2>5, <2>6, <2>8 DEF TypeStep
<1>9. CASE ArchivePrior(p)
  <2>1. pc[p] = "archive" /\ pc' = [pc EXCEPT ![p] = "receipt"]
    BY <1>9 DEF ArchivePrior, Goto
  <2>2. UNCHANGED <<receipt, counters, stages, journal, cmd>>
    BY <1>9 DEF ArchivePrior, active
  <2>3. archive' \in [Generation -> Graphs \cup {None}]
    <3>1. archive \in [Generation -> Graphs \cup {None}] /\ PriorGeneration(p) \in Generation
      BY Arguments DEF TypeInv, FilesOK
    <3>2. cmd[p].prior # None => cmd[p].prior.graph \in Graphs
      BY Arguments DEF Command, Receipt
    <3> QED
      BY <1>9, <3>1, <3>2 DEF ArchivePrior
  <2>4. FilesOK'
    BY <1>9, <2>3 DEF ArchivePrior, TypeInv, FilesOK, active
  <2> QED
    BY <1>5, <2>1, <2>2, <2>4 DEF Writing, Underway
<1>10. CASE WriteReceipt(p)
  <2>1. pc[p] = "receipt" /\ pc' = [pc EXCEPT ![p] = "finish"] /\ UNCHANGED cmd
    BY <1>10 DEF WriteReceipt, Goto
  <2>2. pc[p] \in WithStage /\ pc[p] \in WithGraph /\ pc[p] \in Writing /\ "finish" \notin Writing
    BY <2>1 DEF WithStage, WithGraph, Writing, Underway
  <2>3. UNCHANGED <<payload, bin, retained, journal, stages, counters>>
    BY <1>10 DEF WriteReceipt
  <2>4. /\ cmd[p].graph \in Graphs /\ cmd[p] \in Command
        /\ Fits(pc[p], cmd[p], Len(stages), journal)
        /\ PriorGeneration(p) = Gen(cmd[p].prior)
        /\ PriorGeneration(p) + 1 \in Generation /\ cmd = [cmd EXCEPT ![p] = cmd[p]]
        /\ faults \in 0..MaxFaults
    BY <2>2, Arguments, ItemArguments
  <2>5. receipt' \in Receipt /\ receipt' # None /\ receipt'.generation = Gen(cmd[p].prior) + 1
    BY <1>10, <2>4, NoneAssumption DEF WriteReceipt, NextGeneration, Receipt
  <2>6. FilesOK'
    BY <2>3, <2>5 DEF TypeInv, FilesOK, retained
  <2>7. StagesOK' /\ Len(stages') = Len(stages)
    BY <2>3, SameStages
  <2>8. JournalOK'
    BY <2>3, <2>7, Arguments, SameJournal
  <2>9. Proper(p)
    <3>1. Fits("finish", cmd[p], Len(stages'), journal')
      BY <2>1, <2>3, <2>4, <2>7 DEF Fits, WithGraph, WithStage
    <3>2. StagesAdded(p, "finish", cmd[p]) /\ ReceiptAdded(p, "finish", cmd[p])
      BY <2>2, <2>5, <2>7 DEF StagesAdded, ReceiptAdded, Ahead
    <3>3. "finish" \in Place /\ cmd' = [cmd EXCEPT ![p] = cmd[p]]
      BY <2>1, <2>4
    <3> QED
      BY <2>1, <2>3, <2>4, <3>1, <3>2, <3>3 DEF Proper, counters
  <2> QED
    BY <2>6, <2>7, <2>8, <2>9 DEF TypeStep
<1>11. CASE Finish(p)
  <2>1. pc[p] = "unlink" /\ pc' = [pc EXCEPT ![p] = "collect"]
    BY <1>11 DEF Finish, Goto
  <2>2. UNCHANGED <<receipt, counters, stages, cmd>> /\ journal' = None
    BY <1>11 DEF Finish, active
  <2>3. FilesOK'
    BY <1>11 DEF Finish, TypeInv, FilesOK, active, retained
  <2> QED
    BY <1>5, <2>1, <2>2, <2>3 DEF Writing, Underway
<1>12. CASE ActivationFails(p)
  <2>1. pc[p] \in Tried
    BY <1>12 DEF ActivationFails, PromotionImpossible, SwapImpossible
  <2>2. Undo(p) /\ End(p) /\ UNCHANGED <<receipt, archive, rollbackBin, counters>>
    BY <1>12 DEF ActivationFails, Leave
  <2>3. /\ FilesOK' /\ StagesOK' /\ JournalOK' /\ Len(stages') = Len(stages)
        /\ journal' \in {journal, None}
    BY <2>1, <2>2, UndoKeepsTypes
  <2>4. Proper(p)
    BY <2>1, <2>2, <2>3, Arguments, Ends DEF counters
  <2> QED
    BY <2>3, <2>4 DEF TypeStep
<1> QED
  BY <1>1, <1>2, <1>3, <1>4, <1>6, <1>7, <1>8, <1>9, <1>10, <1>11, <1>12 DEF Activates

LEMMA CollectionKeepsTypes ==
    ASSUME TypeInv, NEW p \in Proc, Collects(p) PROVE TypeStep(p)
<1> USE DEF Place, Locked, Staging, Recovering, Tried, RollingBack, Removing
<1>1. StagesOK' /\ Len(stages') = Len(stages) /\ UNCHANGED <<receipt, counters, journal>>
  BY SameStages DEF Collects, CollectPayloads, CollectFails, DropGenerations, active
<1>2. JournalOK'
  BY <1>1, Arguments, SameJournal
<1>3. FilesOK /\ cmd = [cmd EXCEPT ![p] = cmd[p]] /\ cmd[p] \in Command
      /\ Fits(pc[p], cmd[p], Len(stages), journal)
  BY Arguments DEF TypeInv
<1>4. End(p) => Proper(p)
  BY <1>1, Arguments, Ends DEF counters
<1>5. CASE CollectPayloads(p)
  <2>1. payload' \in Contents
    BY <1>3, <1>5 DEF CollectPayloads, FilesOK, Contents
  <2>2. FilesOK'
    BY <1>3, <1>5, <2>1 DEF CollectPayloads, FilesOK, retained
  <2>3. pc' = [pc EXCEPT ![p] = "drop"] /\ cmd' = [cmd EXCEPT ![p] = cmd[p]]
    BY <1>3, <1>5 DEF CollectPayloads, Goto
  <2>4. Fits("drop", cmd[p], Len(stages), journal')
    BY <1>1, <1>3 DEF Fits, WithGraph, WithStage
  <2>5. "drop" \in Place /\ "drop" \notin Writing /\ "drop" \notin {"select", "stage"}
    BY DEF Writing, Underway
  <2>6. Proper(p)
    BY <1>1, <1>3, <2>3, <2>4, <2>5, Goes
  <2> QED
    BY <1>1, <1>2, <2>2, <2>6 DEF TypeStep
<1>6. CASE CollectFails(p)
  <2>1. FilesOK'
    BY <1>3, <1>6 DEF CollectFails, FilesOK, active, retained
  <2> QED
    BY <1>1, <1>2, <1>4, <1>6, <2>1 DEF CollectFails, TypeStep
<1>7. CASE DropGenerations(p)
  <2>1. /\ archive' \in [Generation -> Graphs \cup {None}]
        /\ binBackup' \in [Generation -> LinkSets]
        /\ payloadBackup' \in [Generation -> Contents]
    BY <1>3, <1>7 DEF DropGenerations, FilesOK, LinkSets, Contents, Nothing
  <2>2. FilesOK'
    BY <1>3, <1>7, <2>1 DEF DropGenerations, FilesOK, active
  <2> QED
    BY <1>1, <1>2, <1>4, <1>7, <2>2 DEF DropGenerations, Leave, TypeStep
<1> QED
  BY <1>5, <1>6, <1>7 DEF Collects

LEMMA RollbackKeepsTypes ==
    ASSUME TypeInv, NEW p \in Proc, RollsBack(p) PROVE TypeStep(p)
<1> USE DEF Place, Locked, Staging, Recovering, Tried, RollingBack, Removing
<1>1. pc[p] \in {"rollback"} \cup RollingBack
  BY DEF RollsBack, BeginRollback, RollbackImpossible, ArchiveActive, SwapBack,
         SwapBackFails, SwitchBack, ReceiptBack, Goto
<1>2. UNCHANGED <<stages, journal, commands, faults>>
  BY DEF RollsBack, BeginRollback, RollbackImpossible, ArchiveActive, SwapBack,
         SwapBackFails, SwitchBack, ReceiptBack, counters
<1>3. StagesOK' /\ Len(stages') = Len(stages)
  BY <1>2, SameStages
<1>4. JournalOK'
  BY <1>2, <1>3, Arguments, SameJournal
<1>5. pc[p] \in WithGraph /\ pc[p] \in Writing
  BY <1>1 DEF WithGraph, Writing
<1>6. /\ FilesOK /\ cmd = [cmd EXCEPT ![p] = cmd[p]] /\ cmd[p] \in Command
      /\ Fits(pc[p], cmd[p], Len(stages), journal)
      /\ PriorGeneration(p) = Gen(cmd[p].prior) /\ PriorGeneration(p) \in Generation
      /\ NextGeneration(p) \in Generation
      /\ cmd[p].graph \in Graphs /\ cmd[p].prior \in Receipt
      /\ faults \in 0..MaxFaults
  <2>1. cmd[p].prior # None
    BY <1>1, Arguments DEF Fits
  <2> QED
    BY <1>5, <2>1, Arguments, ItemArguments DEF TypeInv, Command, NextGeneration
<1>7. End(p) /\ receipt' = receipt => Proper(p)
  BY <1>2, <1>3, <1>6, Ends
<1>8. ASSUME NEW to \in RollingBack, pc' = [pc EXCEPT ![p] = to], UNCHANGED <<receipt, cmd>>
      PROVE  Proper(p)
  <2>1. Fits(to, cmd[p], Len(stages), journal')
    BY <1>1, <1>2, <1>6 DEF Fits, WithGraph, WithStage
  <2>2. to \in Place /\ to \notin {"select", "stage"}
    OBVIOUS
  <2>3. UNCHANGED <<receipt, counters>> /\ (journal' = None => journal = None)
        /\ cmd' = [cmd EXCEPT ![p] = cmd[p]]
    BY <1>2, <1>6, <1>8 DEF counters
  <2> QED
    BY <1>3, <1>5, <1>6, <1>8, <2>1, <2>2, <2>3, Goes
<1>9. CASE BeginRollback(p) \/ RollbackImpossible(p)
  <2>1. FilesOK'
    BY <1>2, <1>6, <1>9 DEF BeginRollback, RollbackImpossible, FilesOK, active
  <2>2. receipt' = receipt
    BY <1>9 DEF BeginRollback, RollbackImpossible, active
  <2>3. Proper(p)
    BY <1>7, <1>8, <1>9, <2>2 DEF BeginRollback, RollbackImpossible, Goto
  <2> QED
    BY <1>3, <1>4, <2>1, <2>3 DEF TypeStep
<1>10. CASE ArchiveActive(p)
  <2>1. FilesOK' /\ receipt' = receipt
    BY <1>2, <1>6, <1>10 DEF ArchiveActive, FilesOK, active, Receipt
  <2>2. Proper(p)
    BY <1>8, <1>10, <2>1 DEF ArchiveActive, Goto
  <2> QED
    BY <1>3, <1>4, <2>1, <2>2 DEF TypeStep
<1>11. CASE SwapBack(p)
  <2>1. FilesOK' /\ receipt' = receipt
    BY <1>2, <1>6, <1>11 DEF SwapBack, FilesOK, LinkSets
  <2>2. Proper(p)
    BY <1>8, <1>11, <2>1 DEF SwapBack, Goto
  <2> QED
    BY <1>3, <1>4, <2>1, <2>2 DEF TypeStep
<1>12. CASE SwapBackFails(p)
  <2>1. FilesOK' /\ receipt' = receipt
    BY <1>2, <1>6, <1>12 DEF SwapBackFails, FilesOK, LinkSets, active
  <2>2. Proper(p)
    BY <1>7, <1>12, <2>1 DEF SwapBackFails, Leave
  <2> QED
    BY <1>3, <1>4, <2>1, <2>2 DEF TypeStep
<1>13. CASE SwitchBack(p)
  <2>1. FilesOK' /\ receipt' = receipt
    <3>1. Links(cmd[p].graph) \in LinkSets
      BY <1>5, ItemArguments
    <3> QED
      BY <1>2, <1>6, <1>13, <3>1 DEF SwitchBack, FilesOK
  <2>2. Proper(p)
    BY <1>8, <1>13, <2>1 DEF SwitchBack, Goto
  <2> QED
    BY <1>3, <1>4, <2>1, <2>2 DEF TypeStep
<1>14. CASE ReceiptBack(p)
  <2>1. receipt' \in Receipt /\ receipt' # None /\ receipt'.generation = Gen(cmd[p].prior) + 1
    BY <1>6, <1>14, NoneAssumption DEF ReceiptBack, NextGeneration, Receipt
  <2>2. FilesOK'
    BY <1>6, <1>14, <2>1 DEF ReceiptBack, FilesOK, retained
  <2>3. pc' = [pc EXCEPT ![p] = "collect"] /\ cmd' = [cmd EXCEPT ![p] = cmd[p]]
    BY <1>6, <1>14 DEF ReceiptBack, Goto
  <2>4. Fits("collect", cmd[p], Len(stages'), journal')
    BY <1>3, <1>6 DEF Fits, WithGraph, WithStage
  <2>5. "collect" \in Place /\ "collect" \notin Writing /\ "collect" \notin {"select", "stage"}
    BY DEF Writing, Underway
  <2>6. StagesAdded(p, "collect", cmd[p]) /\ ReceiptAdded(p, "collect", cmd[p])
    BY <1>3, <1>5, <2>1, <2>5 DEF StagesAdded, ReceiptAdded, Ahead
  <2>7. Proper(p)
    BY <1>2, <1>6, <2>3, <2>4, <2>5, <2>6 DEF Proper
  <2> QED
    BY <1>3, <1>4, <2>2, <2>7 DEF TypeStep
<1> QED
  BY <1>9, <1>10, <1>11, <1>12, <1>13, <1>14 DEF RollsBack

LEMMA RemovalKeepsTypes ==
    ASSUME TypeInv, NEW p \in Proc, Removes(p) PROVE TypeStep(p)
<1> USE DEF Place, Locked, Staging, Recovering, Tried, RollingBack, Removing
<1>1. UNCHANGED <<journal, commands, faults>>
  BY DEF Removes, RemoveBin, RemovePackages, RemoveManaged, RemoveReceipt, counters
<1>2. /\ FilesOK /\ cmd = [cmd EXCEPT ![p] = cmd[p]] /\ cmd[p] \in Command
      /\ Fits(pc[p], cmd[p], Len(stages), journal) /\ Len(stages) \in Nat
      /\ faults \in 0..MaxFaults
  BY Arguments DEF TypeInv
<1>3. ASSUME StagesOK', Len(stages') = Len(stages) PROVE JournalOK'
  BY <1>1, <1>2, <1>3, SameJournal
<1>4. ASSUME StagesOK', Len(stages') = Len(stages), UNCHANGED <<receipt, cmd>>,
             NEW to \in Removing, pc' = [pc EXCEPT ![p] = to]
      PROVE  Proper(p)
  <2>1. Fits(to, cmd[p], Len(stages), journal')
    BY <1>2 DEF Fits, WithGraph, WithStage
  <2>2. to \in Place /\ to \notin {"select", "stage"} /\ to \notin Writing
    BY DEF Writing, Underway
  <2>3. UNCHANGED <<receipt, counters>> /\ cmd' = [cmd EXCEPT ![p] = cmd[p]]
        /\ (journal' = None => journal = None)
    BY <1>1, <1>2, <1>4 DEF counters
  <2> QED
    BY <1>2, <1>4, <2>1, <2>2, <2>3, Goes
<1>5. CASE RemoveBin(p) \/ RemovePackages(p)
  <2>1. StagesOK' /\ Len(stages') = Len(stages) /\ UNCHANGED <<receipt, cmd>>
    BY <1>5, SameStages DEF RemoveBin, RemovePackages
  <2>2. FilesOK'
    BY <1>2, <1>5 DEF RemoveBin, RemovePackages, FilesOK, LinkSets, Contents, Nothing, retained
  <2>3. Proper(p)
    BY <1>4, <1>5, <2>1 DEF RemoveBin, RemovePackages, Goto
  <2> QED
    BY <1>3, <2>1, <2>2, <2>3 DEF TypeStep
<1>6. CASE RemoveManaged(p)
  <2>1. StagesOK' /\ Len(stages') = Len(stages)
    <3>1. stages \in Seq(Stage)
      BY DEF TypeInv, StagesOK
    <3>2. DOMAIN stages = 1..Len(stages)
      BY <3>1
    <3>3. ASSUME NEW s \in 1..Len(stages)
          PROVE  [stages[s] EXCEPT !.status = "removed", !.payload = Nothing] \in Stage
      <4>1. stages[s] \in Stage /\ Nothing \in Contents
        BY <3>1 DEF Contents, Nothing
      <4> QED
        BY <4>1 DEF Stage, Status
    <3>4. stages' = [s \in 1..Len(stages) |->
                        [stages[s] EXCEPT !.status = "removed", !.payload = Nothing]]
      BY <1>6, <3>2 DEF RemoveManaged
    <3>5. stages' \in [1..Len(stages) -> Stage]
      BY <3>3, <3>4
    <3>6. stages' \in Seq(Stage) /\ Len(stages') = Len(stages)
      BY <1>2, <3>5
    <3> QED
      BY <3>6 DEF StagesOK
  <2>2. FilesOK'
    BY <1>1, <1>2, <1>6 DEF RemoveManaged, FilesOK, LinkSets, Contents, Nothing, active
  <2>3. Proper(p)
    BY <1>4, <1>6, <2>1 DEF RemoveManaged, Goto, active
  <2> QED
    BY <1>3, <2>1, <2>2, <2>3 DEF TypeStep
<1>7. CASE RemoveReceipt(p)
  <2>1. StagesOK' /\ Len(stages') = Len(stages)
    BY <1>7, SameStages DEF RemoveReceipt
  <2>2. FilesOK'
    BY <1>2, <1>7 DEF RemoveReceipt, FilesOK, retained
  <2>3. Proper(p)
    BY <1>1, <1>2, <1>7, <2>1, Ends DEF RemoveReceipt, Leave
  <2> QED
    BY <1>3, <2>1, <2>2, <2>3 DEF TypeStep
<1> QED
  BY <1>5, <1>6, <1>7 DEF Removes

LEMMA FaultsKeepTypes ==
    ASSUME TypeInv, NEW p \in Proc, Error(p) \/ Interrupt(p) \/ Kill(p)
    PROVE  TypeStep(p)
<1>1. /\ pc[p] \in Locked /\ End(p) /\ commands' = commands /\ faults' \in 0..MaxFaults
      /\ receipt' = receipt
  <2>1. pc[p] \in Locked /\ Fault /\ End(p) /\ receipt' = receipt
    BY DEF Error, Interrupt, Kill, Leave, StageFails, active
  <2> QED
    BY <2>1, Arguments, FaultsAssumption DEF Fault
<1>2. ASSUME UNCHANGED <<active, retained, journal, stages>> PROVE TypeStep(p)
  <2>1. StagesOK' /\ Len(stages') = Len(stages)
    BY <1>2, SameStages
  <2>2. FilesOK' /\ JournalOK'
    BY <1>2, <2>1, Arguments, SameJournal DEF TypeInv, FilesOK, active, retained
  <2>3. Proper(p)
    BY <1>1, <1>2, <2>1, Ends
  <2> QED
    BY <2>1, <2>2, <2>3 DEF TypeStep
<1>3. CASE pc[p] \in Staging /\ StageFails(p) /\ Error(p)
  <2>1. cmd[p].stage \in 1..Len(stages) /\ stages[cmd[p].stage] \in Stage
    BY <1>3, StageArguments DEF Staging, WithStage, Staged
  <2> DEFINE st == [stages[cmd[p].stage] EXCEPT !.status = "failed"]
  <2>2. stages' = [stages EXCEPT ![cmd[p].stage] = st] /\ st \in Stage
    BY <1>3, <2>1 DEF StageFails, Stage, Status
  <2> HIDE DEF st
  <2>3. StagesOK' /\ Len(stages') = Len(stages)
    BY <2>1, <2>2, StageEdits
  <2>4. FilesOK' /\ journal' = journal
    BY <1>3 DEF StageFails, TypeInv, FilesOK, active, retained
  <2>5. JournalOK'
    BY <2>3, <2>4, Arguments, SameJournal
  <2>6. Proper(p)
    BY <1>1, <2>3, <2>4, Ends
  <2> QED
    BY <2>3, <2>4, <2>5, <2>6 DEF TypeStep
<1>4. CASE pc[p] \in Tried /\ Undo(p) /\ Error(p)
  <2>1. UNCHANGED <<receipt, archive, rollbackBin>>
    BY <1>1, <1>4 DEF Error, StageFails, Staging, Tried, retained
  <2>2. /\ FilesOK' /\ StagesOK' /\ JournalOK' /\ Len(stages') = Len(stages)
        /\ journal' \in {journal, None}
    BY <1>4, <2>1, UndoKeepsTypes
  <2>3. Proper(p)
    BY <1>1, <2>2, Ends
  <2> QED
    BY <2>2, <2>3 DEF TypeStep
<1> QED
  BY <1>2, <1>3, <1>4 DEF Error, Interrupt, Kill

-----------------------------------------------------------------------------
\* The steps of the processes keep the types.
LEMMA TypeInvStep == TypeInv /\ [Next]_vars => TypeInv'
<1> SUFFICES ASSUME TypeInv, [Next]_vars PROVE TypeInv'
  OBVIOUS
<1>1. ASSUME NEW p \in Proc,
             \/ Commanded(p) \/ Refused(p)
             \/ Stages(p) \/ Recovers(p) \/ Activates(p) \/ Collects(p)
             \/ RollsBack(p) \/ Removes(p)
             \/ Error(p) \/ Interrupt(p) \/ Kill(p)
      PROVE  Disciplined(p) /\ TypeStep(p)
  <2>1. LockInv
    BY DEF TypeInv
  <2>2. Disciplined(p)
    BY <1>1, <2>1, CommandsAreDisciplined, StagingIsDisciplined, RecoveryIsDisciplined,
       ActivationIsDisciplined, CollectionIsDisciplined, RollbackIsDisciplined,
       FaultsAreDisciplined
  <2>3. TypeStep(p)
    BY <1>1, CommandsKeepTypes, StagingKeepsTypes, RecoveryKeepsTypes, ActivationKeepsTypes,
       CollectionKeepsTypes, RollbackKeepsTypes, RemovalKeepsTypes, FaultsKeepTypes
  <2> QED
    BY <2>2, <2>3
<1>2. CASE Next
  BY <1>1, <1>2, TypeStepKeeps DEF Next
<1>3. CASE UNCHANGED vars
  <2>1. /\ UNCHANGED <<payload, bin, receipt, archive, binBackup, payloadBackup, rollbackBin>>
        /\ UNCHANGED <<journal, stages, lock, pc, cmd, before, commands, faults>>
    BY <1>3 DEF vars, active, retained, counters
  <2>2. LockInv'
    BY <1>3, LockInvStep DEF TypeInv
  <2>3. FilesOK' /\ StagesOK' /\ JournalOK'
    BY <2>1 DEF TypeInv, FilesOK, StagesOK, JournalOK
  <2>4. CommandsOK'
    BY <2>1 DEF TypeInv, CommandsOK, CommandOK
  <2>5. Unstaged' = Unstaged /\ Ahead' = Ahead
    BY <2>1 DEF Unstaged, Ahead
  <2>6. StagesCounted' /\ GenerationsCounted'
    BY <2>1, <2>5 DEF TypeInv, StagesCounted, GenerationsCounted, Gen
  <2> QED
    BY <2>2, <2>3, <2>4, <2>6 DEF TypeInv
<1> QED
  BY <1>2, <1>3

LEMMA TypeInvInit == Init => TypeInv
<1> SUFFICES ASSUME Init PROVE TypeInv
  OBVIOUS
<1> USE DEF Init
<1>1. LockInv
  BY DEF LockInv, LockTypeOK, Held, OneMutator, Place, Locked, Staging, Recovering,
         Tried, RollingBack, Removing
<1>2. FilesOK
  BY DEF FilesOK, LinkSets, Contents, Nothing
<1>3. StagesOK /\ JournalOK
  BY DEF StagesOK, JournalOK
<1>4. NoCommand \in Command
  <2>1. 1 \in 1..Longest
    <3>1. PICK g \in Graphs : \A other \in Graphs : Len(other) <= Len(g)
      BY GraphsAssumption
    <3> QED
      BY <3>1, GraphFacts
  <2> QED
    BY <2>1, FaultsAssumption DEF NoCommand, Command
<1>5. \A p \in Proc : CommandOK(p)
  BY DEF CommandOK, Fits, NoCommand, WithGraph, WithStage, Recovering, Tried, RollingBack
<1>6. CommandsOK
  BY <1>4, <1>5, FaultsAssumption DEF CommandsOK
<1>7. Unstaged = {} /\ Ahead = {}
  BY DEF Unstaged, Ahead, Writing, Recovering, Underway, Tried, RollingBack
<1>8. StagesCounted /\ GenerationsCounted
  BY <1>7, FS_EmptySet DEF StagesCounted, GenerationsCounted, Gen
<1> QED
  BY <1>1, <1>2, <1>3, <1>6, <1>8 DEF TypeInv

\* Every file, directory and argument is of its kind: no step reads past the end
\* of a graph, a stage that was never made, or a generation no command may reach.
THEOREM TypesAreKept == Spec => []TypeOK
BY TypeInvInit, TypeInvStep, TypeInvTypes, PTL DEF Spec

-----------------------------------------------------------------------------
(* Exclusion.  Whoever is between the lock and the unlock owns the lock file;  *)
(* the other processes' steps need the lock, or change none of these files.    *)

Files == <<active, retained, journal>>

\* Only a process that holds the lock, or finds it free, changes the files.
LEMMA FilesNeedLock ==
    ASSUME NEW p \in Proc, Held,
           \/ Commanded(p) \/ Refused(p)
           \/ Stages(p) \/ Recovers(p) \/ Activates(p) \/ Collects(p)
           \/ RollsBack(p) \/ Removes(p)
           \/ Error(p) \/ Interrupt(p) \/ Kill(p)
    PROVE  UNCHANGED Files \/ pc[p] \in Locked \/ ~lock
<1> USE DEF Files
<1> USE DEF Locked, Staging, Recovering, Tried, RollingBack, Removing
<1>1. CASE Commanded(p) \/ Refused(p)
  BY <1>1 DEF Commanded, Deploy, Resume, Rollback, Uninstall, Start, Refused
<1>2. CASE Stages(p)
  BY <1>2 DEF Stages, Select, BeginStage, StageItem, StageLast, StageOccupied
<1>3. CASE Recovers(p)
  BY <1>3 DEF Recovers, RecoverBin, RecoverBackup, RecoverPromoted, RecoverReplaced,
              Recovered, RecoveryFails, Goto
<1>4. CASE Promotes(p)
  BY <1>4 DEF Promotes, PromoteNew, Reuse, SetAside, PlaceNew, JournalPromoted, Goto
<1>5. CASE Activates(p)
  BY <1>4, <1>5 DEF Activates, Activate, Prepare, PrepareFails, Swap, Switch, JournalSwitched,
                    ArchivePrior, WriteReceipt, JournalReceipt, Finish, ActivationFails,
                    PromotionImpossible, SwapImpossible, Goto, Lock
<1>6. CASE Collects(p)
  BY <1>6 DEF Collects, CollectPayloads, CollectFails, DropGenerations, Lock
<1>7. CASE RollsBack(p)
  BY <1>7 DEF RollsBack, BeginRollback, RollbackImpossible, ArchiveActive, SwapBack,
              SwapBackFails, SwitchBack, ReceiptBack, Goto, Lock
<1>8. CASE Removes(p)
  BY <1>8 DEF Removes, RemoveBin, RemovePackages, RemoveManaged, RemoveReceipt, Goto, Lock
<1>9. CASE Error(p) \/ Interrupt(p) \/ Kill(p)
  BY <1>9 DEF Error, Interrupt, Kill
<1> QED
  BY <1>1, <1>2, <1>3, <1>5, <1>6, <1>7, <1>8, <1>9

\* A process that holds the lock moves on, or to the next payload, whenever it
\* changes the files.
LEMMA FilesMoveOwner ==
    ASSUME TypeInv, NEW p \in Proc, pc[p] \in Locked,
           \/ Commanded(p) \/ Refused(p)
           \/ Stages(p) \/ Recovers(p) \/ Activates(p) \/ Collects(p)
           \/ RollsBack(p) \/ Removes(p)
           \/ Error(p) \/ Interrupt(p) \/ Kill(p)
    PROVE  UNCHANGED Files \/ ~Beside(p)
<1> USE DEF Files
<1>1. /\ pc \in [Proc -> Place] /\ cmd \in [Proc -> Command] /\ cmd[p] \in Command
      /\ cmd[p].next \in Nat
  BY DEF TypeInv, LockInv, LockTypeOK, CommandsOK, Command
<1>2. End(p) => ~Beside(p)
  BY <1>1 DEF End, Beside, Locked, Staging, Recovering, Tried, RollingBack, Removing
<1>3. ASSUME NEW from \in Place, NEW to \in Place, from # to, Goto(p, from, to)
      PROVE  ~Beside(p)
  BY <1>1, <1>3 DEF Goto, Beside
<1>4. ASSUME NEW moved, NextItem(p, moved), pc[p] \in {"promote", "place"} PROVE ~Beside(p)
  <2>1. CASE LastItem(p)
    BY <1>1, <1>4, <2>1 DEF NextItem, Beside
  <2>2. CASE ~LastItem(p)
    <3>1. cmd'[p].next = cmd[p].next + 1
      BY <1>1, <1>4, <2>2 DEF NextItem, Command
    <3> QED
      BY <1>1, <3>1 DEF Beside
  <2> QED
    BY <2>1, <2>2
<1>5. CASE Commanded(p) \/ Refused(p)
  BY <1>5 DEF Commanded, Deploy, Resume, Rollback, Uninstall, Start, Refused
<1>6. CASE Stages(p)
  BY <1>6 DEF Stages, Select, BeginStage, StageItem, StageLast, StageOccupied
<1> USE DEF Place, Locked, Staging, Recovering, Tried, RollingBack, Removing
<1>7. CASE Recovers(p)
  BY <1>2, <1>3, <1>7 DEF Recovers, RecoverBin, RecoverBackup, RecoverPromoted,
                          RecoverReplaced, Recovered, RecoveryFails, Leave
<1>8. CASE Promotes(p)
  BY <1>3, <1>4, <1>8 DEF Promotes, PromoteNew, Reuse, SetAside, PlaceNew, MoveIntoPlace,
                          JournalPromoted
<1>9. CASE Activates(p)
  BY <1>2, <1>3, <1>8, <1>9 DEF Activates, Activate, Prepare, PrepareFails, Swap, Switch,
                    JournalSwitched, ArchivePrior, WriteReceipt, JournalReceipt, Finish,
                    ActivationFails, Leave
<1>10. CASE Collects(p)
  BY <1>2, <1>3, <1>10 DEF Collects, CollectPayloads, CollectFails, DropGenerations, Leave
<1>11. CASE RollsBack(p)
  BY <1>2, <1>3, <1>11 DEF RollsBack, BeginRollback, RollbackImpossible, ArchiveActive,
                    SwapBack, SwapBackFails, SwitchBack, ReceiptBack, Leave
<1>12. CASE Removes(p)
  BY <1>2, <1>3, <1>12 DEF Removes, RemoveBin, RemovePackages, RemoveManaged, RemoveReceipt,
                           Leave
<1>13. CASE Error(p) \/ Interrupt(p) \/ Kill(p)
  BY <1>2, <1>13 DEF Error, StageFails, Interrupt, Kill, Leave
<1> QED
  BY <1>5, <1>6, <1>7, <1>9, <1>10, <1>11, <1>12, <1>13

\* application_runtime_lock: from its lock to its unlock, through failing and
\* interrupted steps, a process's files are changed by no other process, however
\* many there are and whatever they were about to do.  (Staging directories are
\* not among the files: SelectUnready empties one without the lock.)
THEOREM MutationIsExclusive == Spec => ExclusiveMutation
<1> DEFINE Excluded == \A p \in Proc : pc[p] \in Locked /\ Beside(p) => UNCHANGED Files
<1>1. ASSUME TypeInv, [Next]_vars PROVE Excluded
  <2>1. CASE UNCHANGED vars
    BY <2>1 DEF vars, Files
  <2>2. ASSUME NEW p \in Proc, pc[p] \in Locked, Beside(p), NEW q \in Proc,
               \/ Commanded(q) \/ Refused(q)
               \/ Stages(q) \/ Recovers(q) \/ Activates(q) \/ Collects(q)
               \/ RollsBack(q) \/ Removes(q)
               \/ Error(q) \/ Interrupt(q) \/ Kill(q)
        PROVE  UNCHANGED Files
    <3> Held /\ OneMutator
      BY <1>1 DEF TypeInv, LockInv
    <3>1. lock /\ (q = p \/ pc[q] \notin Locked)
      BY <2>2, Zenon DEF Held, OneMutator
    <3>2. CASE q = p
      BY <1>1, <2>2, <3>2, FilesMoveOwner
    <3>3. CASE q # p
      BY <2>2, <3>1, <3>3, FilesNeedLock
    <3> QED
      BY <3>2, <3>3
  <2> QED
    BY <1>1, <2>1, <2>2 DEF Next
<1>2. Excluded => [\A p \in Proc : pc[p] \in Locked /\ Beside(p)
                     => UNCHANGED <<active, retained, journal>>]_vars
  BY DEF Files
<1>3. TypeInv /\ [Next]_vars => [\A p \in Proc : pc[p] \in Locked /\ Beside(p)
                     => UNCHANGED <<active, retained, journal>>]_vars
  BY <1>1, <1>2
<1> QED
  BY <1>3, TypeInvInit, TypeInvStep, PTL DEF Spec, ExclusiveMutation

-----------------------------------------------------------------------------
(* Generations.  An activation reads the receipt under the lock; a rollback   *)
(* reads it before the lock, and relies on its operator (Orderly).            *)

Rolling == {"rollback"} \cup RollingBack
Alone   == {"uninstall"} \cup Rolling \cup Removing

PriorInv ==
    \A p \in Proc :
        /\ pc[p] \in Underway \cup Rolling => cmd[p].prior = receipt
        /\ pc[p] \in Alone => \A q \in Proc : q # p => pc[q] = "idle"

\* What a step may do to the arguments PriorInv is about.
PriorStep(p) ==
    \E to \in Place, c \in Command :
        /\ pc' = [pc EXCEPT ![p] = to] /\ cmd' = [cmd EXCEPT ![p] = c]
        /\ \/ receipt' = receipt
           \/ pc[p] \in Locked /\ to \notin Underway \cup Rolling
        /\ to \in Underway \cup Rolling
              => \/ c.prior = receipt
                 \/ pc[p] \in Underway \cup Rolling /\ c.prior = cmd[p].prior
        /\ to \in Alone => pc[p] \in Alone \/ \A q \in Proc : pc[q] = "idle"
        /\ pc[p] = "idle" /\ to # "idle" => \A q \in Proc : pc[q] \notin Alone

LEMMA PriorStepKeeps ==
    ASSUME TypeInv, PriorInv, NEW p \in Proc, PriorStep(p) PROVE PriorInv'
<1>1. PICK to \in Place, c \in Command :
        /\ pc' = [pc EXCEPT ![p] = to] /\ cmd' = [cmd EXCEPT ![p] = c]
        /\ \/ receipt' = receipt
           \/ pc[p] \in Locked /\ to \notin Underway \cup Rolling
        /\ to \in Underway \cup Rolling
              => \/ c.prior = receipt
                 \/ pc[p] \in Underway \cup Rolling /\ c.prior = cmd[p].prior
        /\ to \in Alone => pc[p] \in Alone \/ \A q \in Proc : pc[q] = "idle"
        /\ pc[p] = "idle" /\ to # "idle" => \A q \in Proc : pc[q] \notin Alone
  BY DEF PriorStep
<1>2. /\ pc'[p] = to /\ cmd'[p] = c
      /\ \A q \in Proc : q # p => pc'[q] = pc[q] /\ cmd'[q] = cmd[q]
  <2>1. pc' = [pc EXCEPT ![p] = to] /\ cmd' = [cmd EXCEPT ![p] = c]
    BY <1>1
  <2> QED
    BY <2>1 DEF TypeInv, LockInv, LockTypeOK, CommandsOK
<1>3. to \in Underway \cup Rolling => c.prior = receipt /\ receipt' = receipt
  BY <1>1 DEF PriorInv
<1>4. ASSUME NEW q \in Proc, q # p, pc[q] \in Underway \cup Rolling
      PROVE  receipt' = receipt /\ cmd[q].prior = receipt
  <2>1. cmd[q].prior = receipt /\ (pc[q] \in Alone => pc[p] = "idle")
    BY <1>4 DEF PriorInv
  <2>2. pc[q] \in Locked \/ pc[q] \in Alone
    BY <1>4 DEF Locked, Underway, Alone
  <2>3. pc[q] \in Locked => pc[p] \notin Locked
    BY <1>4 DEF TypeInv, LockInv, OneMutator
  <2>4. "idle" \notin Locked
    BY DEF Locked, Staging, Recovering, Tried, RollingBack, Removing
  <2> QED
    BY <1>1, <2>1, <2>2, <2>3, <2>4
<1>5. ASSUME NEW q \in Proc, pc'[q] \in Underway \cup Rolling
      PROVE  cmd'[q].prior = receipt'
  <2>1. CASE q = p
    BY <1>2, <1>3, <1>5, <2>1
  <2>2. CASE q # p
    BY <1>2, <1>4, <1>5, <2>2
  <2> QED
    BY <2>1, <2>2
<1>6. ASSUME NEW q \in Proc, pc'[q] \in Alone, NEW r \in Proc, r # q
      PROVE  pc'[r] = "idle"
  <2>1. CASE q = p
    <3>1. pc[r] = "idle"
      BY <1>1, <1>2, <1>6, <2>1 DEF PriorInv
    <3> QED
      BY <1>2, <1>6, <2>1, <3>1
  <2>2. CASE q # p
    <3>1. pc[q] \in Alone /\ pc[r] = "idle"
      BY <1>2, <1>6, <2>2 DEF PriorInv
    <3>2. r = p => to = "idle"
      BY <1>1, <3>1
    <3> QED
      BY <1>2, <3>1, <3>2
  <2> QED
    BY <2>1, <2>2
<1> QED
  BY <1>5, <1>6 DEF PriorInv

\* The forms in which the actions go on.
LEMMA PriorForms ==
    ASSUME TypeInv, NEW p \in Proc
    PROVE  /\ End(p) /\ receipt' \in {receipt, None}
                 /\ (receipt' = receipt \/ pc[p] \in Locked) => PriorStep(p)
           /\ \A to \in Place, c \in Command :
                 /\ pc' = [pc EXCEPT ![p] = to] /\ cmd' = [cmd EXCEPT ![p] = c]
                 /\ UNCHANGED receipt /\ pc[p] # "idle"
                 /\ to \in Underway \cup Rolling
                       => \/ c.prior = receipt
                          \/ pc[p] \in Underway \cup Rolling /\ c.prior = cmd[p].prior
                 /\ to \in Alone => pc[p] \in Alone
                 => PriorStep(p)
           /\ \A to \in Place :
                 /\ pc' = [pc EXCEPT ![p] = to] /\ UNCHANGED <<receipt, cmd>>
                 /\ pc[p] # "idle"
                 /\ to \in Underway \cup Rolling => pc[p] \in Underway \cup Rolling
                 /\ to \in Alone => pc[p] \in Alone
                 => PriorStep(p)
<1> "idle" \in Place /\ "idle" \notin Underway \cup Rolling /\ "idle" \notin Alone
  BY DEF Place, Locked, Staging, Recovering, Underway, Tried, RollingBack, Removing,
         Rolling, Alone
<1>1. NoCommand \in Command /\ cmd[p] \in Command /\ cmd = [cmd EXCEPT ![p] = cmd[p]]
  BY Arguments
<1>2. End(p) /\ receipt' \in {receipt, None} /\ (receipt' = receipt \/ pc[p] \in Locked)
         => PriorStep(p)
  BY <1>1 DEF PriorStep, End
<1>3. ASSUME NEW to \in Place, NEW c \in Command,
             pc' = [pc EXCEPT ![p] = to], cmd' = [cmd EXCEPT ![p] = c],
             UNCHANGED receipt, pc[p] # "idle",
             to \in Underway \cup Rolling
                => \/ c.prior = receipt
                   \/ pc[p] \in Underway \cup Rolling /\ c.prior = cmd[p].prior,
             to \in Alone => pc[p] \in Alone
      PROVE  PriorStep(p)
  BY <1>3 DEF PriorStep
<1>4. ASSUME NEW to \in Place,
             pc' = [pc EXCEPT ![p] = to], UNCHANGED <<receipt, cmd>>, pc[p] # "idle",
             to \in Underway \cup Rolling => pc[p] \in Underway \cup Rolling,
             to \in Alone => pc[p] \in Alone
      PROVE  PriorStep(p)
  BY <1>1, <1>3, <1>4
<1> QED
  BY <1>2, <1>3, <1>4

\* Every action of an orderly prefix is such a step, and grows the generation.
LEMMA PriorSteps ==
    ASSUME TypeInv, PriorInv, Orderly, NEW p \in Proc,
           \/ Commanded(p) \/ Refused(p)
           \/ Stages(p) \/ Recovers(p) \/ Activates(p) \/ Collects(p)
           \/ RollsBack(p) \/ Removes(p)
           \/ Error(p) \/ Interrupt(p) \/ Kill(p)
    PROVE  /\ PriorStep(p)
           /\ receipt # None /\ receipt' \notin {None, receipt}
                 => receipt'.generation > receipt.generation
<1> DEFINE Goal == /\ PriorStep(p)
                   /\ receipt # None /\ receipt' \notin {None, receipt}
                         => receipt'.generation > receipt.generation
<1> SUFFICES Goal
  OBVIOUS
<1> USE DEF Place, Locked, Staging, Recovering, Tried, Underway, RollingBack, Removing,
            Rolling, Alone
<1>1. /\ cmd[p] \in Command /\ NoCommand \in Command
      /\ PriorGeneration(p) = Gen(cmd[p].prior) /\ PriorGeneration(p) \in Nat
      /\ cmd = [cmd EXCEPT ![p] = cmd[p]]
  BY Arguments, FaultsAssumption DEF Generation
<1>2. ASSUME UNCHANGED receipt, PriorStep(p) PROVE Goal
  BY <1>2
<1>3. ASSUME UNCHANGED receipt, End(p) PROVE Goal
  BY <1>3, PriorForms
<1>4. ASSUME NEW to \in {"stage", "select", "rollback", "uninstall"}, NEW c \in Command,
             pc[p] = "idle", pc' = [pc EXCEPT ![p] = to], cmd' = [cmd EXCEPT ![p] = c],
             receipt' = receipt, Undisturbed, to = "rollback" => c.prior = receipt,
             to \in {"rollback", "uninstall"} => Quiet
      PROVE  Goal
  <2>1. PriorStep(p)
    BY <1>4 DEF PriorStep, Undisturbed, Quiet
  <2> QED
    BY <1>2, <1>4, <2>1
<1>5. CASE Commanded(p)
  <2>1. Undisturbed
    BY <1>5 DEF Commanded
  <2>2. ASSUME NEW mode \in Modes \cup {"resume"}, NEW g \in Graphs,
               NEW to \in {"stage", "select"},
               Start(p, to, [NoCommand EXCEPT !.mode = mode, !.graph = g])
        PROVE  Goal
    <3> DEFINE c == [NoCommand EXCEPT !.mode = mode, !.graph = g]
    <3>1. c \in Command
      BY <1>1 DEF NoCommand, Command
    <3>2. /\ pc[p] = "idle" /\ pc' = [pc EXCEPT ![p] = to] /\ cmd' = [cmd EXCEPT ![p] = c]
          /\ receipt' = receipt
      BY <2>2 DEF Start, Goto, active
    <3> HIDE DEF c, Goal
    <3> QED
      BY <1>4, <2>1, <3>1, <3>2
  <2>3. CASE \E mode \in Modes, g \in Graphs : Deploy(p, mode, g)
    BY <2>2, <2>3 DEF Deploy
  <2>4. CASE \E mode \in Modes \cup {"resume"}, g \in Graphs : Resume(p, mode, g)
    BY <2>2, <2>4 DEF Resume
  <2>5. CASE \E n \in Generation : Rollback(p, n)
    <3>1. PICK n \in Generation : Rollback(p, n)
      BY <2>5
    <3>2. archive[n] \in Graphs /\ receipt \in Receipt
      BY <3>1 DEF Rollback, Archived, TypeInv, FilesOK
    <3> DEFINE c == [NoCommand EXCEPT !.graph = archive[n], !.prior = receipt]
    <3>3. c \in Command /\ c.prior = receipt
      BY <1>1, <3>2 DEF NoCommand, Command
    <3>4. /\ pc[p] = "idle" /\ pc' = [pc EXCEPT ![p] = "rollback"]
          /\ cmd' = [cmd EXCEPT ![p] = c] /\ receipt' = receipt /\ Quiet
      BY <3>1 DEF Rollback, Start, Goto, active
    <3> HIDE DEF c, Goal
    <3> QED
      BY <1>4, <2>1, <3>3, <3>4
  <2>6. CASE Uninstall(p)
    <3>1. /\ pc[p] = "idle" /\ pc' = [pc EXCEPT ![p] = "uninstall"]
          /\ cmd' = [cmd EXCEPT ![p] = NoCommand] /\ receipt' = receipt /\ Quiet
      BY <2>6 DEF Uninstall, Start, Goto, active
    <3> HIDE DEF Goal
    <3> QED
      BY <1>1, <1>4, <2>1, <3>1
  <2> QED
    BY <1>5, <2>3, <2>4, <2>5, <2>6 DEF Commanded
<1>6. ASSUME UNCHANGED receipt, pc[p] \notin {"idle"} \cup Alone,
             NEW to \in Place \ (Alone \cup Underway), pc' = [pc EXCEPT ![p] = to],
             NEW c \in Command, cmd' = [cmd EXCEPT ![p] = c]
      PROVE  Goal
  <2>1. PriorStep(p)
    BY <1>6, PriorForms
  <2> QED
    BY <1>2, <1>6, <2>1
<1>7. ASSUME UNCHANGED <<receipt, cmd>>, pc[p] # "idle",
             NEW to \in Place, pc' = [pc EXCEPT ![p] = to],
             to \in Underway \cup Rolling => pc[p] \in Underway \cup Rolling,
             to \in Alone => pc[p] \in Alone
      PROVE  Goal
  <2>1. PriorStep(p)
    BY <1>7, PriorForms
  <2> QED
    BY <1>2, <1>7, <2>1
<1>8. CASE Refused(p) \/ Collects(p)
  <2>1. UNCHANGED receipt
    BY <1>8 DEF Refused, Collects, CollectPayloads, CollectFails, DropGenerations, active
  <2>2. End(p) \/ (Goto(p, "collect", "drop") /\ UNCHANGED cmd)
    BY <1>8 DEF Refused, Collects, CollectPayloads, CollectFails, DropGenerations, Leave
  <2> HIDE DEF Goal
  <2> QED
    BY <1>3, <1>7, <2>1, <2>2 DEF Goto
<1>9. CASE Stages(p)
  <2>1. UNCHANGED receipt
    BY <1>9 DEF Stages, Select, BeginStage, StageItem, StageLast, StageOccupied, active
  <2>2. PICK to \in Place, c \in Command :
           pc' = [pc EXCEPT ![p] = to] /\ cmd' = [cmd EXCEPT ![p] = c]
    BY <1>9, StagingKeepsTypes DEF TypeStep, Proper
  <2>3. pc[p] \in {"select", "stage", "script"} /\ pc \in [Proc -> Place]
    BY <1>9 DEF Stages, Select, BeginStage, StageItem, StageLast, StageOccupied, Goto,
                TypeInv, LockInv, LockTypeOK
  <2>4. pc'[p] \in {"idle", "stage", "script", "activate"}
    BY <1>9, <2>3 DEF Stages, Select, SelectNone, SelectReady, SelectUnready, BeginStage,
                      StageItem, StageLast, StageOccupied, Goto, Leave, End
  <2>5. to \in Place \ (Alone \cup Underway)
    BY <2>2, <2>3, <2>4
  <2> HIDE DEF Goal
  <2> QED
    BY <1>6, <2>1, <2>2, <2>3, <2>5
<1>10. CASE Recovers(p)
  <2>1. UNCHANGED receipt
    BY <1>10 DEF Recovers, RecoverBin, RecoverBackup, RecoverPromoted, RecoverReplaced,
                 Recovered, RecoveryFails, active
  <2>2. CASE RecoveryFails(p)
    BY <1>3, <2>1, <2>2 DEF RecoveryFails, Leave
  <2>3. CASE ~RecoveryFails(p)
    <3>1. PICK from \in Recovering, to \in Recovering \cup {"prepare"} :
             Goto(p, from, to) /\ UNCHANGED cmd
      BY <1>10, <2>3 DEF Recovers, RecoverBin, RecoverBackup, RecoverPromoted,
                         RecoverReplaced, Recovered
    <3> HIDE DEF Goal
    <3> QED
      BY <1>7, <2>1, <3>1 DEF Goto
  <2> QED
    BY <2>2, <2>3
<1>11. CASE Activates(p) /\ ~WriteReceipt(p)
  <2>1. UNCHANGED receipt
    BY <1>11 DEF Activates, Activate, Prepare, PrepareFails, Promotes, PromoteNew, Reuse,
         SetAside, PlaceNew, JournalPromoted, Swap, Switch, JournalSwitched, ArchivePrior,
         JournalReceipt, Finish, ActivationFails, active
  <2>2. CASE PrepareFails(p) \/ ActivationFails(p)
    BY <1>3, <2>1, <2>2 DEF PrepareFails, ActivationFails, Leave
  <2>3. CASE Activate(p)
    <3>1. PICK to \in {"prepare", "recoverBin", "recoverPromoted"} :
             Goto(p, "activate", to) /\ UNCHANGED cmd
      BY <2>3 DEF Activate
    <3> HIDE DEF Goal
    <3> QED
      BY <1>7, <2>1, <3>1 DEF Goto
  <2>4. CASE Prepare(p)
    <3> DEFINE c == [cmd[p] EXCEPT !.prior = receipt, !.next = 1]
    <3>1. /\ pc[p] = "prepare" /\ pc' = [pc EXCEPT ![p] = "promote"]
          /\ cmd' = [cmd EXCEPT ![p] = c]
      BY <2>4 DEF Prepare, Goto
    <3>2. PICK c1 \in Command : cmd' = [cmd EXCEPT ![p] = c1]
      BY <1>11, ActivationKeepsTypes DEF TypeStep, Proper
    <3>3. c \in Command /\ c.prior = receipt
      <4>1. cmd \in [Proc -> Command]
        BY DEF TypeInv, CommandsOK
      <4> QED
        BY <1>1, <3>1, <3>2, <4>1 DEF Command
    <3> HIDE DEF c
    <3>4. PriorStep(p)
      BY <2>1, <3>1, <3>3, PriorForms
    <3> QED
      BY <1>2, <2>1, <3>4
  <2>5. CASE Promotes(p) \/ Swap(p) \/ Switch(p) \/ JournalSwitched(p)
             \/ ArchivePrior(p) \/ JournalReceipt(p) \/ Finish(p)
    <3>1. PICK to \in Place, c \in Command :
             pc' = [pc EXCEPT ![p] = to] /\ cmd' = [cmd EXCEPT ![p] = c]
      BY <1>11, ActivationKeepsTypes DEF TypeStep, Proper
    <3>2. pc \in [Proc -> Place] /\ cmd \in [Proc -> Command]
      BY DEF TypeInv, LockInv, LockTypeOK, CommandsOK
    <3>3. \/ pc[p] \in Underway /\ pc'[p] \in Underway
          \/ pc[p] \in {"finish", "unlink"} /\ pc'[p] \in {"unlink", "collect"}
      BY <2>5, <3>2 DEF Promotes, PromoteNew, Reuse, SetAside, PlaceNew, MoveIntoPlace,
           NextItem, JournalPromoted, Swap, Switch, JournalSwitched, ArchivePrior,
           JournalReceipt, Finish, Goto
    <3>4. cmd'[p].prior = cmd[p].prior
      BY <1>1, <2>5, <3>2 DEF Promotes, PromoteNew, Reuse, SetAside, PlaceNew,
           MoveIntoPlace, NextItem, JournalPromoted, Swap, Switch, JournalSwitched,
           ArchivePrior, JournalReceipt, Finish, Command
    <3>5. to = pc'[p] /\ c = cmd'[p]
      BY <3>1, <3>2
    <3>6. PriorStep(p)
      BY <2>1, <3>1, <3>3, <3>4, <3>5, PriorForms
    <3> QED
      BY <1>2, <2>1, <3>6
  <2> QED
    BY <1>11, <2>2, <2>3, <2>4, <2>5 DEF Activates
<1>12. ASSUME pc[p] \in Underway \cup Rolling, pc[p] \in Locked,
              NEW to \in {"finish", "collect"}, pc' = [pc EXCEPT ![p] = to], UNCHANGED cmd,
              receipt' = [generation |-> NextGeneration(p), graph |-> cmd[p].graph]
       PROVE  Goal
  <2>1. PriorStep(p)
    BY <1>1, <1>12 DEF PriorStep
  <2>2. cmd[p].prior = receipt
    BY <1>12 DEF PriorInv
  <2>3. receipt # None => receipt'.generation = receipt.generation + 1
                          /\ receipt.generation \in Nat
    BY <1>1, <1>12, <2>2 DEF NextGeneration, Gen
  <2> QED
    BY <2>1, <2>3
<1>13. CASE WriteReceipt(p)
  BY <1>12, <1>13 DEF WriteReceipt, Goto
<1>14. CASE RollsBack(p)
  <2>1. CASE ReceiptBack(p)
    BY <1>12, <2>1 DEF ReceiptBack, Goto
  <2>2. CASE RollbackImpossible(p) \/ SwapBackFails(p)
    BY <1>3, <2>2 DEF RollbackImpossible, SwapBackFails, Leave, active
  <2>3. CASE BeginRollback(p) \/ ArchiveActive(p) \/ SwapBack(p) \/ SwitchBack(p)
    <3>1. PICK from \in Rolling, to \in RollingBack :
             Goto(p, from, to) /\ UNCHANGED <<receipt, cmd>>
      BY <2>3 DEF BeginRollback, ArchiveActive, SwapBack, SwitchBack, active
    <3> HIDE DEF Goal
    <3> QED
      BY <1>7, <3>1 DEF Goto
  <2> QED
    BY <1>14, <2>1, <2>2, <2>3 DEF RollsBack
<1>15. CASE Removes(p)
  <2>1. CASE RemoveReceipt(p)
    <3>1. PriorStep(p) /\ receipt' = None
      BY <2>1, PriorForms DEF RemoveReceipt, Leave
    <3> QED
      BY <3>1
  <2>2. CASE RemoveBin(p) \/ RemovePackages(p) \/ RemoveManaged(p)
    <3>1. PICK from \in Alone, to \in Removing :
             Goto(p, from, to) /\ UNCHANGED <<receipt, cmd>>
      BY <2>2 DEF RemoveBin, RemovePackages, RemoveManaged, active
    <3> HIDE DEF Goal
    <3> QED
      BY <1>7, <3>1 DEF Goto
  <2> QED
    BY <1>15, <2>1, <2>2 DEF Removes
<1>16. CASE Error(p) \/ Interrupt(p) \/ Kill(p)
  BY <1>3, <1>16 DEF Error, Interrupt, Kill, Leave, StageFails, active
<1> HIDE DEF Goal
<1> QED
  BY <1>5, <1>8, <1>9, <1>10, <1>11, <1>13, <1>14, <1>15, <1>16 DEF Activates

LEMMA PriorInvStep ==
    ASSUME Orderly
    PROVE  TypeInv /\ PriorInv /\ [Next]_vars
              => /\ PriorInv'
                 /\ receipt # None /\ receipt' \notin {None, receipt}
                       => receipt'.generation > receipt.generation
<1> SUFFICES ASSUME TypeInv, PriorInv, [Next]_vars
             PROVE  /\ PriorInv'
                    /\ receipt # None /\ receipt' \notin {None, receipt}
                          => receipt'.generation > receipt.generation
  OBVIOUS
<1>1. CASE Next
  <2>1. PICK p \in Proc :
           \/ Commanded(p) \/ Refused(p)
           \/ Stages(p) \/ Recovers(p) \/ Activates(p) \/ Collects(p)
           \/ RollsBack(p) \/ Removes(p)
           \/ Error(p) \/ Interrupt(p) \/ Kill(p)
    BY <1>1 DEF Next
  <2> QED
    BY <2>1, PriorSteps, PriorStepKeeps
<1>2. CASE UNCHANGED vars
  BY <1>2 DEF vars, active, PriorInv
<1> QED
  BY <1>1, <1>2

\* docs/commands/rollback.md: for any number of processes whose rollbacks and
\* uninstalls are not begun beside another command, every receipt written has a
\* higher generation than the one it replaces.
THEOREM GenerationsAreMonotonic ==
    ASSUME Orderly PROVE Spec => GenerationsGrow
<1>1. Init => TypeInv /\ PriorInv
  <2>1. Init => PriorInv
    BY DEF Init, PriorInv, Underway, Tried, Rolling, RollingBack, Alone, Removing
  <2> QED
    BY <2>1, TypeInvInit
<1>2. TypeInv /\ PriorInv /\ [Next]_vars
         => /\ (TypeInv /\ PriorInv)'
            /\ [receipt # None /\ receipt' \notin {None, receipt}
                   => receipt'.generation > receipt.generation]_vars
  BY TypeInvStep, PriorInvStep
<1> QED
  BY <1>1, <1>2, PTL DEF Spec, GenerationsGrow
-----------------------------------------------------------------------------
(* The active graph and the rollback target, with any number of processes.     *)
(* What an activation brings in was not there and is of neither, so that       *)
(* whoever takes it away again, its except clause or a later recovery, leaves  *)
(* both alone; a collection reads the receipts under the lock.                 *)

\* Where a fault takes the active graph apart: the receipt is written and the
\* journal does not say so, or an uninstall has removed the payloads only.
Unguarded == {"finish", "unlink", "removeManaged", "removeReceipt"}

\* No reinstalls, no rollback or uninstall beside another command, and no faults
\* at these steps (before "unlink" the journal says that the receipt is written,
\* but the except clause does not look).
Spared ==
    /\ Orderly /\ "reinstall" \notin Modes
    /\ ErrorAt \cap Unguarded = {}
    /\ (InterruptAt \cup KillAt) \cap Unguarded \subseteq {"unlink"}

ActivePaths == IF receipt = None THEN {} ELSE Paths(receipt.graph)

\* What has to be there: the active graph and the newest archived one, which a
\* rollback selects by default and a collection retains.
Needed == ActivePaths \cup UNION {Paths(archive[n]) : n \in Kept}

ArchivedBefore == \A n \in Archived : n <= Gen(receipt)

\* An uninstall removes the payloads before the receipt.
Gone == {"removeManaged", "removeReceipt"}

NeededThere ==
    (\A p \in Proc : pc[p] \notin Gone) => \A path \in Needed : Present(path)

\* What a journal has the recovery take away is nothing that is needed.
JournalSpares ==
    journal # None =>
        /\ journal.replaced = {}
        /\ \/ journal.phase = "receipt-written"
           \/ \E p \in Proc : pc[p] = "finish"
           \/ journal.promoted \cap Needed = {}

\* What a process has promoted is nothing that is needed, and its own graph is
\* there up to the payload it deals with.
PromotedApart(place, c) ==
    /\ c.promoted \cap Needed = {}
    /\ \A i \in DOMAIN c.graph :
          Present(PathOf(c.graph[i])) \/ (place = "promote" /\ i >= c.next)

Unpromoted == {"select", "stage", "script", "activate", "prepare"} \cup Recovering

UsableAt(place, c) ==
    /\ c.mode # "reinstall" /\ c.replaced = {}
    /\ place \in Unpromoted => c.promoted = {}
    /\ place \in Recovering => journal.phase # "receipt-written"
    /\ place # "place"
    /\ place \in Underway => PromotedApart(place, c)
    /\ place \in RollingBack => \A path \in Paths(c.graph) : Present(path)
    /\ place \in Alone => journal = None
    /\ place = "removeReceipt" => Archived = {}

UsableInv == /\ NeededThere /\ JournalSpares /\ ArchivedBefore
             /\ \A p \in Proc : UsableAt(pc[p], cmd[p])

LEMMA GenerationFacts ==
    ASSUME TypeInv
    PROVE  /\ Gen(receipt) \in Generation /\ Gen(receipt) \in Nat
           /\ Generation \subseteq Nat
  BY FaultsAssumption DEF TypeInv, FilesOK, Gen, Receipt, Generation

\* Generations with a bound have a newest one.
LEMMA BoundedHasNewest ==
    ASSUME NEW S \in SUBSET Nat, S # {}, NEW k \in Nat, \A n \in S : n <= k
    PROVE  \E n \in S : \A m \in S : m <= n
<1> DEFINE T == {k - n : n \in S}
<1>1. T \subseteq Nat /\ T # {}
  <2>1. \A n \in S : n \in Nat /\ k - n \in Nat
    OBVIOUS
  <2>2. PICK n \in S : TRUE
    OBVIOUS
  <2>3. k - n \in T
    OBVIOUS
  <2> QED
    BY <2>1, <2>3
<1> HIDE DEF T
<1>2. PICK t \in T : \A u \in T : ~ (<<u, t>> \in OpToRel(<, Nat))
  BY <1>1, NatLessThanWellFounded, WFMin
<1>3. ASSUME NEW u \in T PROVE t <= u
  <2>1. u \in Nat /\ t \in Nat
    BY <1>1, <1>2
  <2>2. ~ (u < t)
    BY <1>2, <2>1 DEF OpToRel
  <2> QED
    BY <2>1, <2>2
<1>4. PICK n \in S : t = k - n
  BY <1>2 DEF T
<1>5. ASSUME NEW m \in S PROVE m <= n
  <2>1. t <= k - m
    BY <1>3 DEF T
  <2> QED
    BY <1>4, <2>1
<1> QED
  BY <1>4, <1>5

LEMMA NewestArchived ==
    ASSUME TypeInv, Archived # {}
    PROVE  Newest(Archived) \in Archived /\ \A m \in Archived : m <= Newest(Archived)
<1>1. Archived \in SUBSET Nat /\ MaxCommands \in Nat /\ \A n \in Archived : n <= MaxCommands
  BY FaultsAssumption DEF Archived, Generation
<1>2. \E n \in Archived : \A m \in Archived : m <= n
  BY <1>1, BoundedHasNewest
<1> QED
  BY <1>2 DEF Newest

LEMMA NeededFacts ==
    ASSUME TypeInv
    PROVE  /\ Kept \subseteq Archived /\ Needed \subseteq Path
           /\ UNCHANGED <<receipt, archive>>
                 => Needed' = Needed /\ (ArchivedBefore => ArchivedBefore')
<1>1. Kept \subseteq Archived
  BY NewestArchived DEF Kept
<1>2. ASSUME NEW n \in Kept PROVE Paths(archive[n]) \subseteq Path
  <2>1. archive[n] \in Graphs
    BY <1>1 DEF Archived, TypeInv, FilesOK
  <2> QED
    BY <2>1 DEF Path
<1>3. ActivePaths \subseteq Path
  BY DEF ActivePaths, Path, TypeInv, FilesOK, Receipt
<1>4. Needed \subseteq Path
  BY <1>2, <1>3 DEF Needed
<1>5. ASSUME UNCHANGED <<receipt, archive>>
      PROVE  Needed' = Needed /\ (ArchivedBefore => ArchivedBefore')
  <2>1. Archived' = Archived
    BY <1>5 DEF Archived
  <2>2. Kept' = Kept
    BY <2>1 DEF Kept
  <2> QED
    BY <1>5, <2>1, <2>2 DEF Needed, ActivePaths, ArchivedBefore
<1> QED
  BY <1>1, <1>4, <1>5

\* A step of one process leaves the others what they rely on: it changes none of
\* it, or has the lock to itself.
LEMMA UsableGoes ==
    ASSUME TypeInv, PriorInv, UsableInv, NEW p \in Proc, NEW to, NEW c,
           pc' = [pc EXCEPT ![p] = to], cmd' = [cmd EXCEPT ![p] = c],
           \/ UNCHANGED <<payload, receipt, archive, journal>>
           \/ pc[p] # "idle" /\ (pc[p] \in Locked \/ ~lock),
           UsableAt(to, c)', NeededThere', JournalSpares', ArchivedBefore'
    PROVE  UsableInv'
<1>1. /\ pc'[p] = to /\ cmd'[p] = c
      /\ \A q \in Proc : q # p => pc'[q] = pc[q] /\ cmd'[q] = cmd[q]
  BY DEF TypeInv, LockInv, LockTypeOK, CommandsOK
<1>2. ASSUME NEW place, NEW d, UsableAt(place, d),
             \/ UNCHANGED <<payload, receipt, archive, journal>>
             \/ place \notin Locked \cup Alone
      PROVE  UsableAt(place, d)'
  <2>1. CASE UNCHANGED <<payload, receipt, archive, journal>>
    <3>1. Needed' = Needed /\ Archived' = Archived
      BY <2>1, NeededFacts DEF Archived
    <3> QED
      BY <1>2, <2>1, <3>1 DEF UsableAt, PromotedApart, Present
  <2>2. CASE place \notin Locked \cup Alone
    BY <1>2, <2>2 DEF UsableAt, Locked, Recovering, Underway, RollingBack, Alone, Removing
  <2> QED
    BY <1>2, <2>1, <2>2
<1>3. ASSUME NEW q \in Proc, q # p PROVE UsableAt(pc[q], cmd[q])'
  <2>1. PICK place, d : place = pc[q] /\ d = cmd[q]
    OBVIOUS
  <2>2. UsableAt(place, d) /\ pc'[q] = place /\ cmd'[q] = d
    BY <1>1, <1>3, <2>1 DEF UsableInv
  <2>3. pc[p] # "idle" => pc[q] \notin Alone
    BY <1>3 DEF PriorInv
  <2>4. pc[p] \in Locked \/ ~lock => pc[q] \notin Locked
    BY <1>3 DEF TypeInv, LockInv, Held, OneMutator
  <2>5. UsableAt(place, d)'
    BY <1>2, <2>1, <2>2, <2>3, <2>4
  <2> QED
    BY <2>1, <2>2, <2>5
<1>4. UsableAt(pc[p], cmd[p])'
  BY <1>1
<1> QED
  BY <1>3, <1>4 DEF UsableInv

\* Steps that have nothing to do with payloads, receipt or journal.
LEMMA UsableQuietly ==
    ASSUME TypeInv, PriorInv, UsableInv, NEW p \in Proc, NEW to, NEW c,
           pc' = [pc EXCEPT ![p] = to], cmd' = [cmd EXCEPT ![p] = c],
           UNCHANGED <<payload, receipt, archive, journal>>,
           pc[p] \notin Gone \cup {"finish"},
           UsableAt(to, c)
    PROVE  UsableInv'
<1>1. \A q \in Proc : q # p => pc'[q] = pc[q]
  BY DEF TypeInv, LockInv, LockTypeOK
<1>0. Needed' = Needed /\ Archived' = Archived /\ ArchivedBefore'
  BY NeededFacts DEF Archived, UsableInv
<1>2. UsableAt(to, c)'
  BY <1>0 DEF UsableAt, PromotedApart, Present
<1>3. NeededThere'
  <2>1. NeededThere /\ \A path : Present(path)' = Present(path)
    BY DEF UsableInv, Present
  <2>2. (\A q \in Proc : pc'[q] \notin Gone) => \A q \in Proc : pc[q] \notin Gone
    BY <1>1
  <2> QED
    BY <1>0, <2>1, <2>2 DEF NeededThere
<1>4. JournalSpares'
  <2>1. JournalSpares
    BY DEF UsableInv
  <2>2. (\E q \in Proc : pc[q] = "finish") => \E q \in Proc : pc'[q] = "finish"
    BY <1>1
  <2> QED
    BY <1>0, <2>1, <2>2 DEF JournalSpares
<1> QED
  BY <1>0, <1>2, <1>3, <1>4, UsableGoes

LEMMA IdleIsUsable == UsableAt("idle", NoCommand)
BY DEF UsableAt, NoCommand, Unpromoted, Recovering, Underway, Tried, RollingBack, Alone,
       Rolling, Removing

LEMMA UsableEnds ==
    ASSUME TypeInv, PriorInv, UsableInv, NEW p \in Proc, End(p),
           UNCHANGED <<payload, receipt, archive, journal>>, pc[p] \notin Gone \cup {"finish"}
    PROVE  UsableInv'
BY IdleIsUsable, UsableQuietly DEF End

LEMMA CommandsKeepUsable ==
    ASSUME TypeInv, PriorInv, UsableInv, Spared, NEW p \in Proc, Commanded(p) \/ Refused(p)
    PROVE  UsableInv'
<1>1. CASE Refused(p)
  BY <1>1, UsableEnds DEF Refused, Gone, active, retained
<1>2. ASSUME NEW to \in {"stage", "select", "rollback", "uninstall"}, NEW c,
             Start(p, to, c), to \in {"rollback", "uninstall"} => journal = None,
             c.mode # "reinstall", c.promoted = {}, c.replaced = {}
      PROVE  UsableInv'
  <2>1. UsableAt(to, c)
    BY <1>2 DEF UsableAt, Recovering, Underway, Tried, RollingBack, Alone, Rolling, Removing
  <2>2. /\ pc[p] = "idle" /\ pc' = [pc EXCEPT ![p] = to] /\ cmd' = [cmd EXCEPT ![p] = c]
        /\ UNCHANGED <<payload, receipt, archive, journal>>
    BY <1>2 DEF Start, Goto, active, retained
  <2> QED
    BY <2>1, <2>2, UsableQuietly DEF Gone
<1>3. ASSUME NEW mode \in Modes \cup {"resume"}, NEW g, NEW to \in {"stage", "select"},
             Start(p, to, [NoCommand EXCEPT !.mode = mode, !.graph = g])
      PROVE  UsableInv'
  <2> DEFINE c == [NoCommand EXCEPT !.mode = mode, !.graph = g]
  <2>1. c.mode # "reinstall" /\ c.promoted = {} /\ c.replaced = {}
    BY DEF NoCommand, Spared
  <2> HIDE DEF c
  <2> QED
    BY <1>2, <1>3, <2>1 DEF c
<1>4. CASE Commanded(p)
  <2>1. CASE \/ \E mode \in Modes, g \in Graphs : Deploy(p, mode, g)
             \/ \E mode \in Modes \cup {"resume"}, g \in Graphs : Resume(p, mode, g)
    BY <1>3, <2>1 DEF Deploy, Resume
  <2>2. CASE \E n \in Generation : Rollback(p, n)
    <3>1. PICK n \in Generation : Rollback(p, n)
      BY <2>2
    <3> DEFINE c == [NoCommand EXCEPT !.graph = archive[n], !.prior = receipt]
    <3>2. c.mode # "reinstall" /\ c.promoted = {} /\ c.replaced = {}
      BY DEF NoCommand
    <3>3. Start(p, "rollback", c) /\ journal = None
      BY <3>1 DEF Rollback, Quiet, Spared
    <3> HIDE DEF c
    <3> QED
      BY <1>2, <3>2, <3>3
  <2>3. CASE Uninstall(p)
    <3>1. Start(p, "uninstall", NoCommand) /\ journal = None
      BY <2>3 DEF Uninstall, Quiet, Spared
    <3> QED
      BY <1>2, <3>1 DEF NoCommand
  <2> QED
    BY <1>4, <2>1, <2>2, <2>3 DEF Commanded
<1> QED
  BY <1>1, <1>4

LEMMA StagingKeepsUsable ==
    ASSUME TypeInv, PriorInv, UsableInv, NEW p \in Proc, Stages(p) PROVE UsableInv'
<1>1. /\ UNCHANGED <<payload, receipt, archive, journal>> /\ pc[p] \in {"select", "stage", "script"}
      /\ pc[p] \notin Gone \cup {"finish"}
  BY DEF Stages, Select, BeginStage, StageItem, StageLast, StageOccupied, Goto, SelectReady,
         SelectUnready, SelectNone, active, retained, Gone
<1>2. /\ cmd[p] \in Command /\ pc \in [Proc -> Place] /\ cmd \in [Proc -> Command]
      /\ UsableAt(pc[p], cmd[p])
  BY DEF TypeInv, LockInv, LockTypeOK, CommandsOK, UsableInv
<1>3. CASE End(p)
  BY <1>1, <1>3, UsableEnds
<1>4. CASE ~End(p)
  <2>1. PICK to, c : pc' = [pc EXCEPT ![p] = to] /\ cmd' = [cmd EXCEPT ![p] = c]
    BY StagingKeepsTypes DEF TypeStep, Proper
  <2>2. pc'[p] \in {"stage", "script", "activate"}
    BY <1>1, <1>2, <1>4 DEF Stages, Select, SelectNone, SelectReady, SelectUnready,
                            BeginStage, StageItem, StageLast, StageOccupied, Goto, Leave
  <2>3. /\ cmd'[p].mode = cmd[p].mode /\ cmd'[p].replaced = cmd[p].replaced
        /\ cmd'[p].promoted = cmd[p].promoted
    BY <1>2, <1>4 DEF Stages, Select, SelectNone, SelectReady, SelectUnready, BeginStage,
                      StageItem, StageLast, StageOccupied, Leave, Command
  <2>4. to = pc'[p] /\ c = cmd'[p]
    BY <1>2, <2>1
  <2>5. UsableAt(to, c)
    BY <1>1, <1>2, <2>2, <2>3, <2>4
       DEF UsableAt, Unpromoted, Recovering, Underway, Tried, RollingBack, Alone, Rolling,
           Removing
  <2> QED
    BY <1>1, <2>1, <2>5, UsableQuietly
<1> QED
  BY <1>3, <1>4

\* Who has the lock, or takes it, finds what is needed there, and a journal
\* that spares it.
LEMMA UsableUnderLock ==
    ASSUME TypeInv, UsableInv, NEW p \in Proc, pc[p] \in Locked \/ ~lock,
           pc[p] \notin Gone \cup {"finish"}
    PROVE  /\ \A path \in Needed : Present(path)
           /\ journal # None => /\ journal.replaced = {}
                                /\ \/ journal.phase = "receipt-written"
                                   \/ journal.promoted \cap Needed = {}
<1>1. \A q \in Proc : q # p => pc[q] \notin Locked
  BY DEF TypeInv, LockInv, Held, OneMutator
<1>2. Gone \cup {"finish"} \subseteq Locked
  BY DEF Gone, Locked, Tried, Removing
<1>3. \A q \in Proc : pc[q] \notin Gone \cup {"finish"}
  BY <1>1, <1>2
<1> QED
  BY <1>3 DEF UsableInv, NeededThere, JournalSpares

\* Steps that bring payloads, or take away what is not needed, or give up the
\* need for it.
LEMMA UsablePayload ==
    ASSUME TypeInv, PriorInv, UsableInv, NEW p \in Proc, NEW to, NEW c,
           pc' = [pc EXCEPT ![p] = to], cmd' = [cmd EXCEPT ![p] = c],
           pc[p] # "idle", pc[p] \in Locked \/ ~lock, pc[p] \notin Gone \cup {"finish"},
           Needed' \subseteq Needed, ArchivedBefore',
           journal' = journal \/ journal' = None,
           \A path \in Needed : payload'[path] = payload[path],
           UsableAt(to, c)'
    PROVE  UsableInv'
<1>1. /\ \A path \in Needed : Present(path)
      /\ journal # None => /\ journal.replaced = {}
                           /\ \/ journal.phase = "receipt-written"
                              \/ journal.promoted \cap Needed = {}
  BY UsableUnderLock
<1>3. NeededThere'
  BY <1>1 DEF NeededThere, Present
<1>4. JournalSpares'
  BY <1>1 DEF JournalSpares
<1> QED
  BY <1>3, <1>4, UsableGoes

\* The same for steps that leave receipts alone.
LEMMA UsableFiles ==
    ASSUME TypeInv, PriorInv, UsableInv, NEW p \in Proc, NEW to, NEW c,
           pc' = [pc EXCEPT ![p] = to], cmd' = [cmd EXCEPT ![p] = c],
           pc[p] # "idle", pc[p] \in Locked \/ ~lock, pc[p] \notin Gone \cup {"finish"},
           UNCHANGED <<receipt, archive>>, journal' = journal \/ journal' = None,
           \A path \in Needed : payload'[path] = payload[path],
           UsableAt(to, c)'
    PROVE  UsableInv'
<1>1. Needed' \subseteq Needed /\ ArchivedBefore'
  BY NeededFacts DEF UsableInv
<1> QED
  BY <1>1, UsablePayload

LEMMA RecoveryKeepsUsable ==
    ASSUME TypeInv, PriorInv, UsableInv, NEW p \in Proc, Recovers(p) PROVE UsableInv'
<1>1. /\ pc[p] \in Recovering /\ pc[p] \in Locked /\ pc[p] # "idle"
      /\ pc[p] \notin Gone \cup {"finish"}
  BY DEF Recovers, RecoverBin, RecoverBackup, RecoverPromoted, RecoverReplaced, Recovered,
         RecoveryFails, Goto, Recovering, Locked, Gone
<1>2. /\ UsableAt(pc[p], cmd[p]) /\ cmd = [cmd EXCEPT ![p] = cmd[p]]
      /\ journal # None /\ payload \in Contents
  BY <1>1, Arguments, JournalArguments DEF UsableInv, TypeInv, FilesOK
<1>3. PICK c : c = cmd[p]
  OBVIOUS
<1>4. \A to \in Recovering \cup {"prepare"} :
         UsableAt(to, c) /\ (to = "prepare" => UsableAt(to, c)')
  BY <1>1, <1>2, <1>3 DEF UsableAt, Unpromoted, Recovering, Underway, Tried, RollingBack,
                          Alone, Rolling, Removing
<1>5. /\ journal.replaced = {} /\ journal.promoted \cap Needed = {}
      /\ journal.phase # "receipt-written"
  BY <1>1, <1>2, UsableUnderLock DEF UsableAt
<1>6. CASE RecoverBin(p) \/ RecoverBackup(p)
  <2>1. PICK to \in Recovering :
           Goto(p, pc[p], to) /\ UNCHANGED <<payload, receipt, archive, journal, cmd>>
    BY <1>6 DEF RecoverBin, RecoverBackup, Recovering, Goto, retained
  <2> QED
    BY <1>1, <1>2, <1>3, <1>4, <2>1, UsableQuietly DEF Goto
<1>7. CASE RecoverPromoted(p)
  <2>1. /\ Goto(p, pc[p], "recoverReplaced") /\ UNCHANGED <<receipt, archive, journal, cmd>>
        /\ payload' = [path \in Path |-> IF path \in {q \in journal.promoted : Present(q)}
                                         THEN None ELSE payload[path]]
    BY <1>7 DEF RecoverPromoted, Goto, retained
  <2>2. Needed \subseteq Path
    BY NeededFacts
  <2>3. \A path \in Needed : payload'[path] = payload[path]
    BY <1>5, <2>1, <2>2
  <2>4. UsableAt("recoverReplaced", c)'
    BY <1>1, <1>2, <1>3, <1>5, <2>1
       DEF UsableAt, Unpromoted, Recovering, Underway, Tried, RollingBack, Alone, Rolling,
           Removing
  <2> QED
    BY <1>1, <1>2, <1>3, <2>1, <2>3, <2>4, UsableFiles DEF Goto
<1>8. CASE RecoverReplaced(p)
  <2>1. /\ Goto(p, pc[p], "recovered") /\ UNCHANGED <<receipt, archive, journal, cmd>>
        /\ payload' = [path \in Path |-> payload[path]]
    BY <1>5, <1>8 DEF RecoverReplaced, RestoreReplaced, Goto
  <2>2. payload' = payload
    BY <1>2, <2>1 DEF Contents
  <2> QED
    BY <1>1, <1>2, <1>3, <1>4, <2>1, <2>2, UsableQuietly DEF Goto, Recovering
<1>9. CASE Recovered(p)
  <2>1. /\ Goto(p, pc[p], "prepare") /\ UNCHANGED <<payload, receipt, archive, cmd>>
        /\ journal' = None
    BY <1>9 DEF Recovered, Goto, active, retained
  <2> QED
    BY <1>1, <1>2, <1>3, <1>4, <2>1, UsableFiles DEF Goto
<1>10. CASE RecoveryFails(p)
  BY <1>1, <1>10, UsableEnds DEF RecoveryFails, Leave, active, retained
<1> QED
  BY <1>6, <1>7, <1>8, <1>9, <1>10 DEF Recovers

\* Undoing takes away what was promoted.
LEMMA UndoKeepsUsable ==
    ASSUME TypeInv, PriorInv, UsableInv, NEW p \in Proc, pc[p] \in Underway,
           Undo(p), End(p), UNCHANGED <<receipt, archive>>
    PROVE  UsableInv'
<1>1. /\ pc[p] \in Locked /\ pc[p] # "idle" /\ pc[p] \notin Gone \cup {"finish"}
  BY DEF Underway, Tried, Locked, Gone
<1>2. /\ cmd[p].replaced = {} /\ cmd[p].promoted \cap Needed = {}
      /\ Needed \subseteq Path
  BY NeededFacts DEF UsableInv, UsableAt, PromotedApart
<1>3. CASE UNCHANGED <<payload, journal>>
  BY <1>1, <1>3, UsableEnds
<1>4. CASE ~UNCHANGED <<payload, journal>>
  <2> DEFINE undone == [path \in Path |-> IF path \in cmd[p].promoted THEN None
                                          ELSE payload[path]]
  <2>1. RestoreReplaced(PriorGeneration(p), {}, undone) /\ journal' = None
    BY <1>2, <1>4 DEF Undo
  <2>2. payload' = [path \in Path |-> undone[path]]
    BY <2>1 DEF RestoreReplaced
  <2>3. \A path \in Needed : payload'[path] = payload[path]
    BY <1>2, <2>2
  <2>4. UsableAt("idle", NoCommand)'
    BY DEF UsableAt, NoCommand, Unpromoted, Recovering, Underway, Tried, RollingBack, Alone,
           Rolling, Removing
  <2> QED
    BY <1>1, <2>1, <2>3, <2>4, UsableFiles DEF End
<1> QED
  BY <1>3, <1>4

\* The journal is written: what it says was promoted is apart from what is needed.
LEMMA AdvanceKeepsUsable ==
    ASSUME TypeInv, PriorInv, UsableInv, NEW p \in Proc, pc[p] \in Underway,
           NEW phase, Advance(p, phase), UNCHANGED <<payload, receipt, archive, cmd>>,
           NEW to \in Underway \ {"promote", "place"}, pc[p] # "promote",
           pc' = [pc EXCEPT ![p] = to]
    PROVE  UsableInv'
<1>1. /\ pc[p] \in Locked /\ pc[p] # "idle" /\ pc[p] \notin Gone \cup {"finish"}
      /\ pc[p] \notin Unpromoted \cup Recovering \cup RollingBack \cup Alone
  BY DEF Underway, Tried, Locked, Gone, Unpromoted, Recovering, RollingBack, Alone, Rolling,
         Removing
<1>2. PICK c : c = cmd[p]
  OBVIOUS
<1>3. UsableAt(pc[p], c) /\ PromotedApart(pc[p], c) /\ cmd = [cmd EXCEPT ![p] = c]
  BY <1>2, Arguments DEF UsableInv, UsableAt
<1>4. journal \in Journal /\ journal # None
  BY JournalArguments DEF Underway
<1>5. /\ journal'.promoted = c.promoted /\ journal'.replaced = {}
  BY <1>2, <1>3, <1>4 DEF Advance, Journal, UsableAt
<1>6. /\ Needed' = Needed /\ ArchivedBefore' /\ \A path : Present(path)' = Present(path)
  BY NeededFacts DEF UsableInv, Present
<1>7. NeededThere'
  BY <1>1, <1>6, UsableUnderLock DEF NeededThere
<1>8. JournalSpares'
  BY <1>3, <1>5, <1>6 DEF JournalSpares, PromotedApart
<1>9. PromotedApart(to, c)'
  BY <1>3, <1>6 DEF PromotedApart
<1>10. UsableAt(to, c)'
  BY <1>3, <1>9 DEF UsableAt, Underway, Tried, Unpromoted, Recovering, RollingBack, Alone,
                   Rolling, Removing
<1> QED
  BY <1>1, <1>3, <1>6, <1>7, <1>8, <1>10, UsableGoes

LEMMA PromotionKeepsUsable ==
    ASSUME TypeInv, PriorInv, UsableInv, NEW p \in Proc, Promotes(p) PROVE UsableInv'
<1>1. /\ pc[p] \in {"promote", "place", "journalPromoted"}
      /\ pc[p] \in Underway /\ pc[p] \in Locked /\ pc[p] \in WithGraph /\ pc[p] # "idle"
      /\ pc[p] \notin Gone \cup {"finish"}
  BY DEF Promotes, PromoteNew, Reuse, SetAside, PlaceNew, JournalPromoted, Goto, Underway,
         Tried, Locked, Gone, WithGraph
<1>2. PICK c, g, n : c = cmd[p] /\ g = c.graph /\ n = c.next
  OBVIOUS
<1>3. /\ c \in Command /\ cmd \in [Proc -> Command] /\ cmd = [cmd EXCEPT ![p] = c]
      /\ g \in Seq([name: STRING, version: Nat, artifact: STRING])
      /\ n \in 1..Len(g) /\ Len(g) \in Nat /\ ItemPath(p) = PathOf(g[n]) /\ ItemPath(p) \in Path
      /\ payload \in Contents
  BY <1>1, <1>2, Arguments, ItemArguments, GraphsAssumption
     DEF TypeInv, CommandsOK, FilesOK, ItemPath, Item
<1>4. UsableAt(pc[p], c) /\ PromotedApart(pc[p], c) /\ pc[p] # "place"
  BY <1>1, <1>2 DEF UsableInv, UsableAt
<1>5. \A path \in Needed : Present(path)
  BY <1>1, UsableUnderLock
<1>6. ASSUME NEW P, NextItem(p, P), pc[p] = "promote",
             payload'[ItemPath(p)] # None,
             \A path \in Path \ {ItemPath(p)} : payload'[path] = payload[path],
             P \cap Needed = {},
             ItemPath(p) \in Needed => payload'[ItemPath(p)] = payload[ItemPath(p)],
             UNCHANGED <<receipt, archive, journal>>
      PROVE  UsableInv'
  <2>0. PICK to, d :
           /\ to = IF LastItem(p) THEN "journalPromoted" ELSE "promote"
           /\ d = [c EXCEPT !.next = IF LastItem(p) THEN @ ELSE @ + 1, !.promoted = @ \cup P]
    OBVIOUS
  <2>1. pc' = [pc EXCEPT ![p] = to] /\ cmd' = [cmd EXCEPT ![p] = d]
    BY <1>2, <1>3, <1>6, <2>0 DEF NextItem
  <2>2. /\ d.mode = c.mode /\ d.replaced = c.replaced /\ d.graph = g
        /\ d.promoted = c.promoted \cup P
        /\ d.next = IF LastItem(p) THEN n ELSE n + 1
    BY <1>2, <1>3, <2>0 DEF Command
  <2>3. LastItem(p) => n = Len(g)
    BY <1>2 DEF LastItem
  <2>4. \A i \in DOMAIN g : PathOf(g[i]) \in Path
    BY <1>1, <1>2, ItemArguments, GraphFacts
  <2>5. \A path \in Path : Present(path) => payload'[path] # None
    BY <1>6 DEF Present
  <2>6. Needed' = Needed
    BY <1>6, NeededFacts
  <2>7. d.promoted \cap Needed = {}
    BY <1>4, <1>6, <2>2 DEF PromotedApart
  <2>8. ASSUME NEW i \in DOMAIN g
        PROVE  payload'[PathOf(g[i])] # None \/ (to = "promote" /\ i >= d.next)
    <3>1. CASE i = n
      BY <1>3, <1>6, <3>1
    <3>2. CASE i < n
      <4>1. Present(PathOf(g[i]))
        BY <1>2, <1>3, <1>4, <3>2 DEF PromotedApart
      <4> QED
        BY <2>4, <2>5, <4>1
    <3>3. CASE i > n
      <4>1. ~LastItem(p) /\ i >= n + 1
        BY <1>3, <2>3, <3>3
      <4> QED
        BY <2>0, <2>2, <4>1
    <3> QED
      BY <1>3, <3>1, <3>2, <3>3
  <2>9. PromotedApart(to, d)'
    BY <2>2, <2>6, <2>7, <2>8 DEF PromotedApart, Present
  <2>10. to \in {"promote", "journalPromoted"}
    BY <2>0
  <2>11. UsableAt(to, d)'
    BY <1>4, <2>2, <2>9, <2>10 DEF UsableAt, Unpromoted, Recovering, Underway, Tried,
                                   RollingBack, Alone, Rolling, Removing
  <2>12. \A path \in Needed : payload'[path] = payload[path]
    <3>1. Needed \subseteq Path
      BY NeededFacts
    <3> QED
      BY <1>6, <3>1
  <2> QED
    BY <1>1, <1>6, <2>1, <2>11, <2>12, UsableFiles
<1>7. CASE PromoteNew(p)
  <2>1. /\ payload' = [payload EXCEPT ![ItemPath(p)] = Staged(p).payload[ItemPath(p)]]
        /\ NextItem(p, {ItemPath(p)}) /\ Staged(p).payload[ItemPath(p)] # None
        /\ pc[p] = "promote" /\ UNCHANGED <<receipt, archive, journal>>
        /\ ~Present(ItemPath(p))
    BY <1>7 DEF PromoteNew, MoveIntoPlace, SourceThere, Occupied, retained
  <2>2. /\ payload'[ItemPath(p)] # None
        /\ \A path \in Path \ {ItemPath(p)} : payload'[path] = payload[path]
    BY <1>3, <2>1 DEF Contents
  <2> QED
    BY <1>5, <1>6, <2>1, <2>2
<1>8. CASE Reuse(p)
  <2>1. /\ NextItem(p, {}) /\ pc[p] = "promote" /\ UNCHANGED <<payload, receipt, archive, journal>>
        /\ Present(ItemPath(p))
    BY <1>8 DEF Reuse, Occupied, active, retained
  <2> QED
    BY <1>6, <2>1 DEF Present
<1>9. ~SetAside(p) /\ ~PlaceNew(p)
  BY <1>2, <1>4 DEF SetAside, PlaceNew, UsableAt
<1>10. CASE JournalPromoted(p)
  <2>1. /\ pc[p] = "journalPromoted" /\ pc' = [pc EXCEPT ![p] = "swap"]
        /\ UNCHANGED <<payload, receipt, archive, cmd>>
        /\ Advance(p, "payloads-promoted")
    BY <1>10 DEF JournalPromoted, Goto, active, retained
  <2>2. "swap" \in Underway \ {"promote", "place"}
    BY DEF Underway, Tried
  <2> QED
    BY <1>1, <2>1, <2>2, AdvanceKeepsUsable
<1> QED
  BY <1>7, <1>8, <1>9, <1>10 DEF Promotes

\* An activation and a rollback archive the active graph, which is then the
\* newest of the archive.
LEMMA ArchivingNeedsNoMore ==
    ASSUME TypeInv, ArchivedBefore, receipt # None, UNCHANGED receipt,
           archive' = [archive EXCEPT ![receipt.generation] = receipt.graph]
    PROVE  Needed' \subseteq Needed /\ ArchivedBefore'
<1>1. PICK k : k = receipt.generation
  OBVIOUS
<1>2. /\ k = Gen(receipt) /\ k \in Generation /\ k \in Nat
      /\ receipt.graph \in Graphs /\ receipt.graph # None
  BY <1>1, GenerationFacts, NoneAssumption DEF Gen, TypeInv, FilesOK, Receipt
<1>3. /\ archive' \in [Generation -> Graphs \cup {None}]
      /\ archive'[k] = receipt.graph /\ \A n \in Generation \ {k} : archive'[n] = archive[n]
  BY <1>1, <1>2 DEF TypeInv, FilesOK
<1>4. Archived' = Archived \cup {k}
  BY <1>2, <1>3 DEF Archived
<1>5. \A n \in Archived' : n \in Nat /\ n <= k
  BY <1>2, <1>4, GenerationFacts DEF ArchivedBefore, Archived
<1>6. Newest(Archived') = k
  BY <1>2, <1>4, <1>5 DEF Newest
<1>7. Kept' = {k}
  BY <1>4, <1>6 DEF Kept
<1>8. Needed' \subseteq ActivePaths
  BY <1>3, <1>7 DEF Needed, ActivePaths
<1> QED
  BY <1>2, <1>5, <1>8 DEF Needed, ArchivedBefore

\* A collection drops what it does not retain.
LEMMA DroppingNeedsNoMore ==
    ASSUME TypeInv, ArchivedBefore, UNCHANGED receipt,
           archive' = [n \in Generation |-> IF n \in Archived \ Kept THEN None
                                            ELSE archive[n]]
    PROVE  Needed' \subseteq Needed /\ ArchivedBefore'
<1>1. Kept \subseteq Archived /\ Archived \subseteq Generation /\ Generation \subseteq Nat
  BY NeededFacts, GenerationFacts DEF Archived
<1>2. Archived' = Kept /\ \A n \in Kept : archive'[n] = archive[n]
  BY <1>1 DEF Archived
<1>3. Kept' = Kept
  <2>1. CASE Archived = {}
    BY <1>1, <1>2, <2>1 DEF Kept
  <2>2. CASE Archived # {}
    <3>1. PICK k \in Nat : Kept = {k}
      BY <1>1, <2>2 DEF Kept
    <3>2. Newest({k}) = k
      BY <3>1 DEF Newest
    <3> QED
      BY <1>2, <3>1, <3>2 DEF Kept
  <2> QED
    BY <2>1, <2>2
<1> QED
  BY <1>1, <1>2, <1>3 DEF Needed, ActivePaths, ArchivedBefore

\* The next generation adds its graph to what is needed.
LEMMA ReceiptNeedsItsGraph ==
    ASSUME TypeInv, ArchivedBefore, NEW g \in Graphs, UNCHANGED archive,
           Gen(receipt) + 1 \in Generation,
           receipt' = [generation |-> Gen(receipt) + 1, graph |-> g]
    PROVE  Needed' \subseteq Paths(g) \cup Needed /\ ArchivedBefore'
<1>1. Archived' = Archived
  BY DEF Archived
<1>2. Kept' = Kept
  BY <1>1 DEF Kept
<1>3. Needed' \subseteq Paths(g) \cup Needed
  BY <1>2 DEF Needed, ActivePaths
<1>4. receipt' \in Receipt /\ receipt' # None
  BY NoneAssumption DEF Receipt
<1>5. Gen(receipt)' = Gen(receipt) + 1
  BY <1>4 DEF Gen
<1>6. \A n \in Archived : n \in Nat
  BY GenerationFacts DEF Archived
<1> QED
  BY <1>1, <1>3, <1>4, <1>5, <1>6, GenerationFacts DEF ArchivedBefore

LEMMA ActivationKeepsUsable ==
    ASSUME TypeInv, PriorInv, UsableInv, NEW p \in Proc, Activates(p) PROVE UsableInv'
<1>1. PICK c : c = cmd[p]
  OBVIOUS
<1>2. UsableAt(pc[p], c) /\ cmd = [cmd EXCEPT ![p] = c] /\ c \in Command
  BY <1>1, Arguments DEF UsableInv
<1> DEFINE Late == {"swap", "switch", "journalSwitched", "archive", "receipt"}
<1>3. /\ Late \subseteq (Underway \cap Tried \cap Locked) \ {"idle", "finish", "promote", "place"}
      /\ Late \cap Gone = {}
      /\ pc[p] \in Late => \A to \in Late : UsableAt(to, c)
  BY <1>2 DEF UsableAt, PromotedApart, Locked, Gone, Unpromoted, Recovering, Underway, Tried,
              RollingBack, Alone, Rolling, Removing
<1>4. CASE Activate(p)
  <2>1. PICK to \in {"prepare", "recoverBin", "recoverPromoted"} :
           /\ pc[p] = "activate" /\ pc' = [pc EXCEPT ![p] = to]
           /\ to # "prepare" => journal' = journal /\ journal.phase # "receipt-written"
    BY <1>4 DEF Activate, Goto
  <2>2. /\ UNCHANGED <<payload, receipt, archive, cmd>> /\ ~lock
        /\ journal' = journal \/ journal' = None
    BY <1>4 DEF Activate, Lock, active, retained
  <2>3. UsableAt(to, c)'
    BY <1>2, <2>1, <2>2 DEF UsableAt, Unpromoted, Recovering, Underway, Tried, RollingBack,
                            Alone, Rolling, Removing
  <2> QED
    BY <1>2, <2>1, <2>2, <2>3, UsableFiles DEF Gone
<1>5. CASE Prepare(p)
  <2>1. /\ pc[p] = "prepare" /\ pc' = [pc EXCEPT ![p] = "promote"]
        /\ cmd' = [cmd EXCEPT ![p] = [c EXCEPT !.prior = receipt, !.next = 1]]
        /\ journal'.promoted = {} /\ journal'.replaced = {}
        /\ UNCHANGED <<payload, receipt, archive>>
    BY <1>1, <1>5 DEF Prepare, Goto, active, retained
  <2>2. PICK d : d = [c EXCEPT !.prior = receipt, !.next = 1]
    OBVIOUS
  <2>3. /\ d.mode = c.mode /\ d.promoted = {} /\ d.replaced = {} /\ d.next = 1
        /\ DOMAIN d.graph = 1..Len(c.graph)
    <3>1. c.graph \in Graphs
      BY <1>1, <2>1, ItemArguments DEF WithGraph
    <3> QED
      BY <1>2, <2>1, <2>2, <3>1, GraphsAssumption DEF Command, UsableAt, Unpromoted
  <2>4. /\ pc[p] \in Locked \ (Gone \cup {"idle", "finish"})
    BY <2>1 DEF Locked, Gone
  <2>5. PromotedApart("promote", d)'
    BY <2>3 DEF PromotedApart
  <2>6. UsableAt("promote", d)'
    BY <1>2, <2>3, <2>5 DEF UsableAt, Unpromoted, Recovering, Underway, Tried, RollingBack,
                            Alone, Rolling, Removing
  <2>7. NeededThere' /\ ArchivedBefore'
    BY <2>1, <2>4, UsableUnderLock, NeededFacts DEF NeededThere, Present, UsableInv
  <2>8. JournalSpares'
    BY <2>1 DEF JournalSpares
  <2> QED
    BY <2>1, <2>2, <2>4, <2>6, <2>7, <2>8, UsableGoes
<1>6. CASE PrepareFails(p)
  BY <1>6, UsableEnds DEF PrepareFails, Leave, active, retained, Gone
<1>7. CASE Promotes(p)
  BY <1>7, PromotionKeepsUsable
<1>8. CASE Swap(p) \/ Switch(p)
  <2>1. PICK to \in Late : pc[p] \in Late /\ pc' = [pc EXCEPT ![p] = to]
    BY <1>8 DEF Swap, Switch, Goto
  <2>2. PICK d : /\ cmd' = [cmd EXCEPT ![p] = d]
                 /\ d = c \/ d = [c EXCEPT !.swapped = TRUE]
    BY <1>1, <1>2, <1>8 DEF Swap, Switch
  <2>3. UNCHANGED <<payload, receipt, archive, journal>>
    BY <1>8 DEF Swap, Switch, active, retained
  <2>4. /\ d.mode = c.mode /\ d.promoted = c.promoted /\ d.replaced = c.replaced
        /\ d.graph = c.graph /\ d.next = c.next
    BY <1>2, <2>2 DEF Command
  <2>5. UsableAt(to, d)
    BY <1>3, <2>1, <2>4 DEF UsableAt, PromotedApart
  <2> QED
    BY <1>3, <2>1, <2>2, <2>3, <2>5, UsableQuietly
<1>9. CASE JournalSwitched(p)
  <2>1. /\ pc[p] = "journalSwitched" /\ pc' = [pc EXCEPT ![p] = "archive"]
        /\ UNCHANGED <<payload, receipt, archive, cmd>> /\ Advance(p, "bin-activated")
    BY <1>9 DEF JournalSwitched, Goto, active, retained
  <2> QED
    BY <1>3, <2>1, AdvanceKeepsUsable
<1>10. CASE ArchivePrior(p)
  <2>1. /\ pc[p] = "archive" /\ pc' = [pc EXCEPT ![p] = "receipt"]
        /\ UNCHANGED <<payload, receipt, journal, cmd>> /\ c.prior = receipt
        /\ archive' = IF c.prior = None THEN archive
                      ELSE [archive EXCEPT ![receipt.generation] = receipt.graph]
    BY <1>1, <1>10 DEF ArchivePrior, Goto, active, PriorGeneration, PriorInv, Underway, Tried
  <2>2. Needed' \subseteq Needed /\ ArchivedBefore'
    BY <2>1, NeededFacts, ArchivingNeedsNoMore DEF UsableInv
  <2>3. PromotedApart("receipt", c)'
    BY <1>2, <1>3, <2>1, <2>2 DEF UsableAt, PromotedApart, Present
  <2>4. UsableAt("receipt", c)'
    BY <1>2, <2>3 DEF UsableAt, Unpromoted, Recovering, Underway, Tried, RollingBack,
                      Alone, Rolling, Removing
  <2> QED
    BY <1>2, <1>3, <2>1, <2>2, <2>4, UsablePayload
<1>11. CASE WriteReceipt(p)
  <2>1. /\ pc[p] = "receipt" /\ pc' = [pc EXCEPT ![p] = "finish"]
        /\ UNCHANGED <<payload, journal, archive, cmd>>
        /\ receipt' = [generation |-> NextGeneration(p), graph |-> c.graph]
    BY <1>1, <1>11 DEF WriteReceipt, Goto, retained
  <2>2. \A path \in Paths(c.graph) : Present(path)
    BY <1>2, <1>3, <2>1 DEF UsableAt, PromotedApart, Paths, Items
  <2>3. Needed' \subseteq Paths(c.graph) \cup Needed /\ ArchivedBefore'
    <3>1. NextGeneration(p) = Gen(receipt) + 1 /\ Gen(receipt) + 1 \in Generation
      BY <2>1, Arguments DEF NextGeneration, PriorInv, Underway, Tried, Writing
    <3>2. c.graph \in Graphs
      BY <1>1, <2>1, ItemArguments DEF WithGraph, Tried
    <3> QED
      BY <2>1, <3>1, <3>2, ReceiptNeedsItsGraph DEF UsableInv
  <2>4. NeededThere'
    BY <1>3, <2>1, <2>2, <2>3, UsableUnderLock DEF NeededThere, Present
  <2>5. pc'[p] = "finish"
    BY <2>1 DEF TypeInv, LockInv, LockTypeOK
  <2>6. JournalSpares'
    BY <2>1, <2>5 DEF UsableInv, JournalSpares
  <2>7. UsableAt("finish", c)'
    BY <1>2 DEF UsableAt, Unpromoted, Recovering, Underway, Tried, RollingBack, Alone,
                Rolling, Removing
  <2> QED
    BY <1>2, <1>3, <2>1, <2>3, <2>4, <2>6, <2>7, UsableGoes
<1>12. CASE JournalReceipt(p)
  <2>1. /\ pc[p] = "finish" /\ pc' = [pc EXCEPT ![p] = "unlink"]
        /\ UNCHANGED <<payload, receipt, archive, cmd>>
        /\ Advance(p, "receipt-written")
    BY <1>12 DEF JournalReceipt, Goto, active, retained
  <2>2. pc[p] \in Locked \ (Gone \cup {"idle"}) /\ pc[p] \in Tried
    BY <2>1 DEF Locked, Tried, Gone
  <2>3. journal \in Journal
    BY <2>2, JournalArguments
  <2>4. journal'.phase = "receipt-written" /\ journal'.replaced = {}
    BY <1>1, <1>2, <2>1, <2>3 DEF Advance, Journal, UsableAt
  <2>5. JournalSpares'
    BY <2>4 DEF JournalSpares
  <2>6. \A q \in Proc : pc[q] \notin Gone
    <3>1. Gone \subseteq Locked
      BY DEF Gone, Locked, Removing
    <3> QED
      BY <2>2, <3>1 DEF TypeInv, LockInv, OneMutator
  <2>7. NeededThere' /\ ArchivedBefore'
    BY <2>1, <2>6, NeededFacts DEF UsableInv, NeededThere, Present
  <2>8. UsableAt("unlink", c)'
    BY <1>2 DEF UsableAt, Unpromoted, Recovering, Underway, Tried, RollingBack, Alone,
                Rolling, Removing
  <2> QED
    BY <1>2, <2>1, <2>2, <2>5, <2>7, <2>8, UsableGoes
<1>13. CASE Finish(p)
  <2>1. /\ pc[p] = "unlink" /\ pc' = [pc EXCEPT ![p] = "collect"]
        /\ UNCHANGED <<payload, receipt, archive, cmd>> /\ journal' = None
    BY <1>13 DEF Finish, Goto, active, retained
  <2>2. pc[p] \in Locked \ (Gone \cup {"idle", "finish"})
    BY <2>1 DEF Locked, Tried, Gone
  <2>3. UsableAt("collect", c)'
    BY <1>2 DEF UsableAt, Unpromoted, Recovering, Underway, Tried, RollingBack, Alone,
                Rolling, Removing
  <2> QED
    BY <1>2, <2>1, <2>2, <2>3, UsableFiles
<1>14. CASE ActivationFails(p)
  <2>1. pc[p] \in Underway
    BY <1>14 DEF ActivationFails, PromotionImpossible, SwapImpossible, Underway, Tried
  <2> QED
    BY <1>14, <2>1, UndoKeepsUsable DEF ActivationFails, Leave
<1> QED
  BY <1>4, <1>5, <1>6, <1>7, <1>8, <1>9, <1>10, <1>12, <1>13, <1>14,
     <1>11 DEF Activates

\* A collection reads the receipts under the lock, and keeps what is needed.
LEMMA CollectionKeepsUsable ==
    ASSUME TypeInv, PriorInv, UsableInv, NEW p \in Proc, Collects(p) PROVE UsableInv'
<1>1. PICK c : c = cmd[p]
  OBVIOUS
<1>2. UsableAt(pc[p], c) /\ cmd = [cmd EXCEPT ![p] = c]
  BY <1>1, Arguments DEF UsableInv
<1>3. CASE CollectPayloads(p)
  <2>1. /\ pc[p] = "collect" /\ pc' = [pc EXCEPT ![p] = "drop"] /\ ~lock
        /\ UNCHANGED <<receipt, archive, journal, cmd>> /\ receipt # None
        /\ payload' = [path \in Path |-> IF path \in Referenced THEN payload[path] ELSE None]
    BY <1>3 DEF CollectPayloads, Goto, Lock, retained
  <2>2. Needed \subseteq Referenced /\ Needed \subseteq Path
    BY <2>1, NeededFacts DEF Needed, ActivePaths, Referenced
  <2>3. \A path \in Needed : payload'[path] = payload[path]
    BY <2>1, <2>2
  <2>4. UsableAt("drop", c)'
    BY <1>2 DEF UsableAt, Unpromoted, Recovering, Underway, Tried, RollingBack, Alone,
                Rolling, Removing
  <2> QED
    BY <1>2, <2>1, <2>3, <2>4, UsableFiles DEF Gone
<1>4. CASE CollectFails(p)
  BY <1>4, UsableEnds DEF CollectFails, active, retained, Gone
<1>5. CASE DropGenerations(p)
  <2>1. /\ pc[p] = "drop" /\ End(p) /\ UNCHANGED <<payload, receipt, journal>>
    BY <1>5 DEF DropGenerations, Leave, active
  <2>2. Needed' \subseteq Needed /\ ArchivedBefore'
    BY <1>5, <2>1, DroppingNeedsNoMore DEF DropGenerations, UsableInv
  <2>3. UsableAt("idle", NoCommand)'
    BY DEF UsableAt, NoCommand, Unpromoted, Recovering, Underway, Tried, RollingBack, Alone,
           Rolling, Removing
  <2>4. pc[p] \in Locked \ (Gone \cup {"idle", "finish"})
    BY <2>1 DEF Locked, Gone
  <2> QED
    BY <2>1, <2>2, <2>3, <2>4, UsablePayload DEF End
<1> QED
  BY <1>3, <1>4, <1>5 DEF Collects

LEMMA RollbackKeepsUsable ==
    ASSUME TypeInv, PriorInv, UsableInv, NEW p \in Proc, RollsBack(p) PROVE UsableInv'
<1>1. PICK c : c = cmd[p]
  OBVIOUS
<1>2. UsableAt(pc[p], c) /\ cmd = [cmd EXCEPT ![p] = c]
  BY <1>1, Arguments DEF UsableInv
<1>3. pc[p] \in Rolling /\ journal = None /\ pc[p] \notin Gone \cup {"finish"}
  BY <1>1, <1>2 DEF RollsBack, BeginRollback, RollbackImpossible, ArchiveActive, SwapBack,
       SwapBackFails, SwitchBack, ReceiptBack, Goto, UsableAt, Alone, Rolling, RollingBack, Gone
<1>4. CASE BeginRollback(p) \/ SwapBack(p) \/ SwitchBack(p)
  <2>1. PICK to \in RollingBack : pc' = [pc EXCEPT ![p] = to] /\ UNCHANGED cmd
    BY <1>4 DEF BeginRollback, SwapBack, SwitchBack, Goto, RollingBack
  <2>2. UNCHANGED <<payload, receipt, archive, journal>>
    BY <1>4 DEF BeginRollback, SwapBack, SwitchBack, active
  <2>3. \A path \in Paths(c.graph) : Present(path)
    BY <1>1, <1>2, <1>4 DEF BeginRollback, SwapBack, SwitchBack, Goto, UsableAt, RollingBack
  <2>4. UsableAt(to, c)
    BY <1>2, <1>3, <2>3 DEF UsableAt, Unpromoted, Recovering, Underway, Tried, RollingBack
  <2> QED
    BY <1>2, <1>3, <2>1, <2>2, <2>4, UsableQuietly
<1>5. CASE RollbackImpossible(p) \/ SwapBackFails(p)
  BY <1>3, <1>5, UsableEnds DEF RollbackImpossible, SwapBackFails, Leave, active
<1>6. CASE ArchiveActive(p)
  <2>1. /\ pc[p] = "archiveActive" /\ pc' = [pc EXCEPT ![p] = "swapBack"]
        /\ UNCHANGED <<payload, receipt, journal, cmd>> /\ c.prior = receipt
        /\ archive' = [archive EXCEPT ![PriorGeneration(p)] = receipt.graph]
    BY <1>1, <1>3, <1>6 DEF ArchiveActive, Goto, active, PriorInv
  <2>2. receipt # None /\ PriorGeneration(p) = receipt.generation
    BY <1>1, <2>1, Arguments DEF Fits, Rolling, RollingBack, PriorGeneration
  <2>3. Needed' \subseteq Needed /\ ArchivedBefore'
    BY <2>1, <2>2, ArchivingNeedsNoMore DEF UsableInv
  <2>4. pc[p] \in Locked \cap RollingBack /\ pc[p] # "idle"
    BY <2>1 DEF Locked, RollingBack
  <2>5. UsableAt("swapBack", c)'
    BY <1>2, <1>3, <2>1, <2>4 DEF UsableAt, Present, Unpromoted, Recovering, Underway, Tried,
                                  RollingBack
  <2> QED
    BY <1>2, <1>3, <2>1, <2>3, <2>4, <2>5, UsablePayload
<1>7. CASE ReceiptBack(p)
  <2>1. /\ pc[p] = "receiptBack" /\ pc' = [pc EXCEPT ![p] = "collect"]
        /\ UNCHANGED <<payload, archive, journal, cmd>>
        /\ receipt' = [generation |-> NextGeneration(p), graph |-> c.graph]
    BY <1>1, <1>7 DEF ReceiptBack, Goto, retained
  <2>2. pc[p] \in Locked /\ pc[p] # "idle" /\ pc[p] \in RollingBack
    BY <2>1 DEF Locked, RollingBack
  <2>3. \A path \in Paths(c.graph) : Present(path)
    BY <1>2, <2>2 DEF UsableAt
  <2>4. Needed' \subseteq Paths(c.graph) \cup Needed /\ ArchivedBefore'
    <3>1. NextGeneration(p) = Gen(receipt) + 1 /\ Gen(receipt) + 1 \in Generation
      BY <1>3, <2>1, Arguments DEF NextGeneration, PriorInv, Writing, RollingBack
    <3>2. c.graph \in Graphs
      BY <1>1, <2>2, ItemArguments DEF WithGraph
    <3> QED
      BY <2>1, <3>1, <3>2, ReceiptNeedsItsGraph DEF UsableInv
  <2>5. NeededThere'
    BY <1>3, <2>1, <2>2, <2>3, <2>4, UsableUnderLock DEF NeededThere, Present
  <2>6. JournalSpares'
    BY <1>3, <2>1 DEF JournalSpares
  <2>7. UsableAt("collect", c)'
    BY <1>2 DEF UsableAt, Unpromoted, Recovering, Underway, Tried, RollingBack, Alone,
                Rolling, Removing
  <2> QED
    BY <1>2, <2>1, <2>2, <2>4, <2>5, <2>6, <2>7, UsableGoes
<1> QED
  BY <1>4, <1>5, <1>6, <1>7 DEF RollsBack

LEMMA RemovalKeepsUsable ==
    ASSUME TypeInv, PriorInv, UsableInv, NEW p \in Proc, Removes(p) PROVE UsableInv'
<1>1. PICK c : c = cmd[p]
  OBVIOUS
<1>2. UsableAt(pc[p], c) /\ cmd = [cmd EXCEPT ![p] = c]
  BY <1>1, Arguments DEF UsableInv
<1>3. pc[p] \in {"uninstall"} \cup Removing /\ journal = None
  BY <1>2 DEF Removes, RemoveBin, RemovePackages, RemoveManaged, RemoveReceipt, Goto,
              UsableAt, Alone, Removing
<1>4. CASE RemoveBin(p)
  <2>1. /\ pc[p] = "uninstall" /\ pc' = [pc EXCEPT ![p] = "removePackages"]
        /\ UNCHANGED <<payload, receipt, archive, journal, cmd>>
    BY <1>4 DEF RemoveBin, Goto, retained
  <2>2. UsableAt("removePackages", c)
    BY <1>2, <1>3 DEF UsableAt, Unpromoted, Recovering, Underway, Tried, RollingBack
  <2> QED
    BY <1>2, <2>1, <2>2, UsableQuietly DEF Gone
<1>5. CASE RemovePackages(p) \/ RemoveManaged(p)
  <2>1. PICK to \in Gone : /\ pc' = [pc EXCEPT ![p] = to]
                           /\ UNCHANGED <<receipt, journal, cmd>>
                           /\ \/ to # "removeReceipt" /\ archive' = archive
                              \/ archive' = [n \in Generation |-> None]
    BY <1>5 DEF RemovePackages, RemoveManaged, Goto, Gone, active, retained
  <2>2. pc'[p] \in Gone
    BY <2>1 DEF TypeInv, LockInv, LockTypeOK
  <2>3. NeededThere'
    BY <2>2 DEF NeededThere
  <2>4. JournalSpares'
    BY <1>3, <2>1 DEF JournalSpares
  <2>5. Archived' = {} \/ (to # "removeReceipt" /\ archive' = archive)
    BY <2>1 DEF Archived
  <2>6. ArchivedBefore'
    BY <2>1, <2>5, NeededFacts DEF UsableInv, ArchivedBefore
  <2>7. UsableAt(to, c)'
    BY <1>2, <1>3, <2>1, <2>5 DEF UsableAt, Unpromoted, Recovering, Underway, Tried,
                                  RollingBack, Gone
  <2>8. pc[p] \in Locked /\ pc[p] # "idle"
    BY <1>5 DEF RemovePackages, RemoveManaged, Goto, Locked, Removing
  <2> QED
    BY <1>2, <2>1, <2>3, <2>4, <2>6, <2>7, <2>8, UsableGoes
<1>6. CASE RemoveReceipt(p)
  <2>1. /\ receipt' = None /\ UNCHANGED <<archive, journal>> /\ End(p)
        /\ pc[p] = "removeReceipt"
    BY <1>6 DEF RemoveReceipt, Leave, retained
  <2>2. Archived' = {}
    BY <1>2, <2>1 DEF UsableAt, Archived
  <2>3. NeededThere' /\ JournalSpares' /\ ArchivedBefore'
    BY <1>3, <2>1, <2>2 DEF NeededThere, Needed, Kept, ActivePaths, JournalSpares,
                            ArchivedBefore
  <2>4. UsableAt("idle", NoCommand)'
    BY DEF UsableAt, NoCommand, Unpromoted, Recovering, Underway, Tried, RollingBack, Alone,
           Rolling, Removing
  <2>5. pc[p] \in Locked /\ pc[p] # "idle"
    BY <2>1 DEF Locked, Removing
  <2> QED
    BY <2>1, <2>3, <2>4, <2>5, UsableGoes DEF End
<1> QED
  BY <1>4, <1>5, <1>6 DEF Removes

LEMMA FaultsKeepUsable ==
    ASSUME TypeInv, PriorInv, UsableInv, Spared, NEW p \in Proc,
           Error(p) \/ Interrupt(p) \/ Kill(p)
    PROVE  UsableInv'
<1>1. pc[p] \notin Gone \cup {"finish"} /\ (Error(p) => pc[p] # "unlink")
  BY DEF Error, Interrupt, Kill, Spared, Unguarded, Gone
<1>2. CASE pc[p] \in Tried /\ Undo(p) /\ Error(p) /\ Leave(p)
            /\ UNCHANGED <<receipt, archive>>
  BY <1>1, <1>2, UndoKeepsUsable DEF Underway, Leave
<1>3. CASE End(p) /\ UNCHANGED <<payload, receipt, archive, journal>>
  BY <1>1, <1>3, UsableEnds
<1> QED
  BY <1>2, <1>3 DEF Error, Interrupt, Kill, StageFails, Leave, active, retained

LEMMA UsableInvStep ==
    ASSUME Spared PROVE TypeInv /\ PriorInv /\ UsableInv /\ [Next]_vars => UsableInv'
<1> SUFFICES ASSUME TypeInv, PriorInv, UsableInv, [Next]_vars PROVE UsableInv'
  OBVIOUS
<1>1. CASE Next
  <2>1. PICK p \in Proc :
           \/ Commanded(p) \/ Refused(p)
           \/ Stages(p) \/ Recovers(p) \/ Activates(p) \/ Collects(p)
           \/ RollsBack(p) \/ Removes(p)
           \/ Error(p) \/ Interrupt(p) \/ Kill(p)
    BY <1>1 DEF Next
  <2> QED
    BY <2>1, CommandsKeepUsable, StagingKeepsUsable, RecoveryKeepsUsable,
       ActivationKeepsUsable, CollectionKeepsUsable, RollbackKeepsUsable,
       RemovalKeepsUsable, FaultsKeepUsable
<1>2. CASE UNCHANGED vars
  <2>1. UNCHANGED <<payload, receipt, archive, journal, pc, cmd>>
    BY <1>2 DEF vars, active, retained
  <2>2. Needed' = Needed /\ Archived' = Archived /\ ArchivedBefore'
    BY <2>1, NeededFacts DEF Archived, UsableInv
  <2> QED
    BY <2>1, <2>2 DEF UsableInv, NeededThere, JournalSpares, UsableAt, PromotedApart, Present
<1> QED
  BY <1>1, <1>2

LEMMA UsableInvariant ==
    ASSUME Spared PROVE Spec => [](TypeInv /\ UsableInv)
<1>1. Init => TypeInv /\ PriorInv /\ UsableInv
  <2>1. Init => PriorInv
    BY DEF Init, PriorInv, Underway, Tried, Rolling, RollingBack, Alone, Removing
  <2>2. ASSUME Init PROVE UsableInv
    <3>1. Archived = {} /\ Needed = {}
      BY <2>2 DEF Init, Archived, Needed, Kept, ActivePaths
    <3>2. \A p \in Proc : UsableAt(pc[p], cmd[p])
      BY <2>2, IdleIsUsable DEF Init
    <3> QED
      BY <2>2, <3>1, <3>2 DEF Init, UsableInv, NeededThere, JournalSpares, ArchivedBefore
  <2> QED
    BY <2>1, <2>2, TypeInvInit
<1>2. Orderly
  BY DEF Spared
<1>3. TypeInv /\ PriorInv /\ UsableInv /\ [Next]_vars => (TypeInv /\ PriorInv /\ UsableInv)'
  BY <1>2, TypeInvStep, PriorInvStep, UsableInvStep
<1> QED
  BY <1>1, <1>3, PTL DEF Spec

\* spec/runtime-component.md, "Before activation, the old graph remains usable":
\* while any number of processes stage, activate, fail, are interrupted, recover
\* and collect, the payloads of the active graph are on disk at every moment.
THEOREM OldGraphUsableByMany ==
    ASSUME Spared PROVE Spec => []OldGraphStaysUsable
<1>1. UsableInv => OldGraphStaysUsable
  BY DEF UsableInv, NeededThere, Needed, ActivePaths, OldGraphStaysUsable, Gone, Removing
<1> QED
  BY <1>1, UsableInvariant, PTL

\* However many processes deployed, failed, recovered and collected: when nobody
\* is at work, the newest archived generation, which a rollback selects by
\* default, has its payloads on disk.
THEOREM RollbackTargetsKeptByMany ==
    ASSUME Spared PROVE Spec => []RollbackTargetIntact
<1>1. TypeInv /\ UsableInv => RollbackTargetIntact
  <2> SUFFICES ASSUME TypeInv, UsableInv, Resting, Archived # {}
               PROVE  \A path \in Paths(archive[Newest(Archived)]) : Present(path)
    BY DEF RollbackTargetIntact
  <2>1. \A p \in Proc : pc[p] \notin Gone
    BY DEF TypeInv, LockInv, Held, Resting, Gone, Locked, Removing
  <2>2. Kept = {Newest(Archived)}
    BY DEF Kept
  <2>3. Paths(archive[Newest(Archived)]) \subseteq Needed
    BY <2>2 DEF Needed
  <2> QED
    BY <2>1, <2>3 DEF UsableInv, NeededThere
<1> QED
  BY <1>1, UsableInvariant, PTL
===============================================================================
