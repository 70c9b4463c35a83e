--------------------------- MODULE MutationProofs ---------------------------
(***************************************************************************)
(* ProjectMutation implements AtomicProject when every writer takes the     *)
(* workspace lock and backups can be written back, for every set of files,  *)
(* contents, transactions and writers and any number of crashes and failed  *)
(* writes; and the triggers of ProjectTriggers, where a start is quick,     *)
(* start one run at a time and none of a project that is not open.          *)
(***************************************************************************)
EXTENDS ProjectMutation, ProjectTriggers, FiniteSetTheorems, TLAPS

(* A journal keeps its shape when its state is rewritten.                   *)
LEMMA JournalState_Type ==
    ASSUME NEW j \in Journal, NEW s \in JournalState
    PROVE  /\ [j EXCEPT !.state = s] \in Journal
           /\ [j EXCEPT !.state = s].state = s
           /\ [j EXCEPT !.state = s].change = j.change
           /\ [j EXCEPT !.state = s].orig = j.orig
BY DEF Journal

(* The journal file that does not exist.                                    *)
LEMMA NoJournal_Type ==
    /\ NoJournal \in Journal
    /\ NoJournal.state = "missing"
    /\ NoJournal.change = [f \in {} |-> Absent]
BY DEF NoJournal, Journal

(* What stage captures is a journal: one original for each path.            *)
LEMMA Staged_Type ==
    ASSUME NEW change \in Changes, disk \in [Files -> Value]
    PROVE  /\ [state |-> "staging", change |-> change,
               orig |-> [f \in DOMAIN change |-> disk[f]]] \in Journal
           /\ DOMAIN change \subseteq Files
           /\ change \in [DOMAIN change -> Value]
<1>1. PICK S \in SUBSET Files \ {{}} : change \in [S -> Value]
  BY DEF Changes
<1>2. DOMAIN change = S
  BY <1>1
<1>3. [f \in S |-> disk[f]] \in [S -> Value]
  BY <1>1
<1>4. [f \in S |-> disk[f]] \in Changes
  BY <1>1, <1>3 DEF Changes
<1>5. "staging" \in JournalState \cup {"missing"}
  BY DEF JournalState
<1> QED BY <1>1, <1>2, <1>4, <1>5 DEF Journal

(* The paths of a journal are files, with a value and an original each.     *)
LEMMA Journal_Paths ==
    ASSUME NEW j \in Journal
    PROVE  /\ Paths(j) \subseteq Files
           /\ j.change \in [Paths(j) -> Value]
           /\ j.orig \in [Paths(j) -> Value]
<1>1. j.change \in Changes \cup {[f \in {} |-> Absent]}
      /\ j.orig \in Changes \cup {[f \in {} |-> Absent]}
      /\ DOMAIN j.orig = DOMAIN j.change
  BY DEF Journal
<1>2. ASSUME NEW c \in Changes \cup {[f \in {} |-> Absent]}
      PROVE  DOMAIN c \subseteq Files /\ c \in [DOMAIN c -> Value]
  <2>1. CASE c \in Changes
    <3>1. PICK S \in SUBSET Files \ {{}} : c \in [S -> Value]
      BY <2>1 DEF Changes
    <3> QED BY <3>1
  <2>2. CASE c = [f \in {} |-> Absent]
    BY <2>2
  <2> QED BY <2>1, <2>2
<1> QED BY <1>1, <1>2 DEF Paths

(* The program's idle states have their types.                              *)
LEMMA Idle_Type ==
    /\ AnyTxn \in Txns
    /\ IdleWriter \in Writer
    /\ IdleRecovery \in RecoveryState
    /\ NoDirectory \in Directory
<1>1. AnyTxn \in Txns
  BY MutationAssumption DEF AnyTxn
<1> QED
  BY <1>1, NoJournal_Type
  DEF IdleWriter, IdleRecovery, Writer, RecoveryState, WriterPC, RecoveryPC, NoDirectory, Directory

(* A step of one writer replaces that writer's state only.                  *)
LEMMA MoveWriter ==
    ASSUME thr \in [Writers -> Writer], NEW w \in Writers, NEW wr \in Writer,
           thr' = [thr EXCEPT ![w] = wr]
    PROVE  /\ thr' \in [Writers -> Writer]
           /\ thr'[w] = wr
           /\ \A x \in Writers : x # w => thr'[x] = thr[x]
OBVIOUS

(* The state of a writer that goes on with journal j.                       *)
LEMMA Goto_Type ==
    ASSUME thr \in [Writers -> Writer], NEW w \in Writers, NEW pc \in WriterPC,
           NEW j \in Journal, Goto(w, pc, j)
    PROVE  /\ thr' \in [Writers -> Writer]
           /\ thr'[w] = [pc |-> pc, txn |-> thr[w].txn, journal |-> j, done |-> {}]
           /\ \A x \in Writers : x # w => thr'[x] = thr[x]
<1>1. [pc |-> pc, txn |-> thr[w].txn, journal |-> j, done |-> {}] \in Writer
  BY DEF Writer
<1> QED BY <1>1, MoveWriter DEF Goto

(* The state of a writer that has dealt with the file f.                    *)
LEMMA Done_Type ==
    ASSUME thr \in [Writers -> Writer], NEW w \in Writers, NEW f \in Files, Done(w, f)
    PROVE  /\ thr' \in [Writers -> Writer]
           /\ thr'[w] = [pc |-> thr[w].pc, txn |-> thr[w].txn, journal |-> thr[w].journal,
                         done |-> thr[w].done \cup {f}]
           /\ \A x \in Writers : x # w => thr'[x] = thr[x]
<1>1. [pc |-> thr[w].pc, txn |-> thr[w].txn, journal |-> thr[w].journal,
       done |-> thr[w].done \cup {f}] \in Writer
  BY DEF Writer
<1> QED BY <1>1, MoveWriter DEF Done

(* The state of a writer whose apply ended.                                 *)
LEMMA Finish_Type ==
    ASSUME thr \in [Writers -> Writer], NEW w \in Writers, Finish(w)
    PROVE  /\ thr' \in [Writers -> Writer]
           /\ thr'[w] = IdleWriter
           /\ \A x \in Writers : x # w => thr'[x] = thr[x]
BY MoveWriter, Idle_Type DEF Finish

(* Writing a journal touches one directory.                                 *)
LEMMA WithJournal_Type ==
    ASSUME dirs \in [Txns -> Directory], NEW t \in Txns, NEW j \in Journal
    PROVE  /\ WithJournal(t, j) \in [Txns -> Directory]
           /\ WithJournal(t, j)[t] = [exists |-> TRUE, journal |-> j, data |-> dirs[t].data]
           /\ \A u \in Txns : u # t => WithJournal(t, j)[u] = dirs[u]
BY DEF WithJournal, Directory

(* So does removing a part of a directory: the journal stays or goes.       *)
LEMMA RemovePart_Type ==
    ASSUME dirs \in [Txns -> Directory], NEW t \in Txns, RemovePart(t)
    PROVE  /\ dirs' \in [Txns -> Directory]
           /\ dirs'[t].exists /\ dirs'[t].journal \in {dirs[t].journal, NoJournal}
           /\ \A u \in Txns : u # t => dirs'[u] = dirs[u]
<1>1. CASE dirs' = [dirs EXCEPT ![t] = [exists |-> TRUE, journal |-> NoJournal,
                                          data |-> dirs[t].data]]
  <2>1. [exists |-> TRUE, journal |-> NoJournal, data |-> dirs[t].data] \in Directory
    BY NoJournal_Type DEF Directory
  <2> QED BY <1>1, <2>1
<1>2. CASE dirs' = [dirs EXCEPT ![t] = [exists |-> TRUE, journal |-> dirs[t].journal,
                                          data |-> FALSE]]
  <2>1. [exists |-> TRUE, journal |-> dirs[t].journal, data |-> FALSE] \in Directory
    BY DEF Directory
  <2> QED BY <1>2, <2>1
<1> QED BY <1>1, <1>2 DEF RemovePart

(* The directory goes last.                                                 *)
LEMMA RemoveLast_Type ==
    ASSUME dirs \in [Txns -> Directory], NEW t \in Txns, RemoveLast(t)
    PROVE  /\ dirs' \in [Txns -> Directory]
           /\ dirs'[t] = NoDirectory
           /\ \A u \in Txns : u # t => dirs'[u] = dirs[u]
BY Idle_Type DEF RemoveLast

(* A replaced file has a value.                                             *)
LEMMA Replace_Type ==
    ASSUME disk \in [Files -> Value], NEW f \in Files, NEW v \in Value,
           disk' = [disk EXCEPT ![f] = v]
    PROVE  /\ disk' \in [Files -> Value]
           /\ disk'[f] = v
           /\ \A g \in Files : g # f => disk'[g] = disk[g]
OBVIOUS

(* The state of the recovery after RecoverAt.                               *)
LEMMA RecoverAt_Type ==
    ASSUME NEW pc \in RecoveryPC, NEW t \in Txns, NEW todo \in SUBSET Txns, NEW j \in Journal,
           NEW done \in SUBSET Files, RecoverAt(pc, t, todo, j, done)
    PROVE  rec' \in RecoveryState
BY DEF RecoverAt, RecoveryState

----------------------------------------------------------------------------
(* Type correctness.                                                        *)

(* A step of a writer keeps the types: what it writes is a journal it       *)
(* staged, and the files get staged or original contents.                   *)
LEMMA Transaction_Type ==
    ASSUME TypeOK, NEW w \in Writers, Transaction(w)
    PROVE  TypeOK'
<1> DEFINE j == thr[w].journal
<1>1. /\ disk \in [Files -> Value] /\ dirs \in [Txns -> Directory]
      /\ thr \in [Writers -> Writer] /\ rec \in RecoveryState
      /\ opened \in BOOLEAN /\ refused \in BOOLEAN /\ crashes \in 0..MaxCrashes
  BY DEF TypeOK
<1>2. thr[w].txn \in Txns /\ j \in Journal
  BY <1>1 DEF Writer
<1>3. \A s \in JournalState : [j EXCEPT !.state = s] \in Journal
  BY <1>2, JournalState_Type
<1>4. \A pc \in {"staging", "prepared", "applying", "restoring", "removing"} : pc \in WriterPC
  BY DEF WriterPC
<1>5. {"staging", "prepared", "committing", "committed", "rolled_back"} \subseteq JournalState
  BY DEF JournalState
<1>6. SUFFICES /\ disk' \in [Files -> Value] /\ dirs' \in [Txns -> Directory]
               /\ thr' \in [Writers -> Writer]
               /\ UNCHANGED <<rec, opened, refused, crashes>>
  BY <1>1 DEF TypeOK
<1> DEFINE Goal == /\ disk' \in [Files -> Value] /\ dirs' \in [Txns -> Directory]
                   /\ thr' \in [Writers -> Writer]
                   /\ UNCHANGED <<rec, opened, refused, crashes>>
<1>a. ASSUME NEW t \in Txns, NEW change \in Changes, stage(w, t, change)
      PROVE  Goal
  <2>1. [exists |-> TRUE, journal |-> NoJournal, data |-> TRUE] \in Directory
    BY NoJournal_Type DEF Directory
  <2>2. [pc |-> "staging", txn |-> t, done |-> {},
         journal |-> [state |-> "staging", change |-> change,
                      orig |-> [f \in DOMAIN change |-> disk[f]]]] \in Writer
    BY <1>1, <1>4, Staged_Type DEF Writer
  <2>3. thr' \in [Writers -> Writer]
    BY <1>a, <1>1, <2>2, MoveWriter DEF stage
  <2> QED BY <1>a, <1>1, <2>1, <2>3 DEF stage
<1>b. CASE prepare(w)
  BY <1>b, <1>1, <1>2, <1>3, <1>4, <1>5, Goto_Type, WithJournal_Type DEF prepare
<1>c. CASE stage_fails(w)
  BY <1>c, <1>1, <1>2, <1>4, Goto_Type DEF stage_fails
<1>d. CASE commit(w)
  BY <1>d, <1>1, <1>2, <1>3, <1>4, <1>5, Goto_Type, WithJournal_Type DEF commit
<1>e. CASE commit_refused(w)
  BY <1>e, <1>1, <1>2, <1>4, Goto_Type DEF commit_refused
<1>f. CASE commit_not_started(w)
  BY <1>f, <1>1, Finish_Type DEF commit_not_started
<1>g. ASSUME NEW f \in Files, apply_file(w, f)
      PROVE  Goal
  BY <1>g, <1>1, <1>2, Done_Type, Journal_Paths, Replace_Type DEF apply_file
<1>h. ASSUME NEW f \in Files, restore_file(w, f)
      PROVE  Goal
  BY <1>h, <1>1, <1>2, Done_Type, Journal_Paths, Replace_Type DEF restore_file
<1>i. CASE apply_fails(w)
  BY <1>i, <1>1, <1>2, <1>4, Goto_Type DEF apply_fails
<1>j. CASE write_marker(w)
  BY <1>j, <1>1, <1>2, <1>3, <1>4, <1>5, Goto_Type, WithJournal_Type DEF write_marker
<1>k. CASE marker_fails(w)
  BY <1>k, <1>1, <1>2, <1>3, <1>4, <1>5, Goto_Type DEF marker_fails
<1>l. CASE restore_fails(w)
  BY <1>l, <1>1, <1>2, <1>4, Goto_Type, Finish_Type DEF restore_fails
<1>m. CASE rolled_back(w)
  <2> DEFINE k == [j EXCEPT !.state = "rolled_back"]
  <2>1. k \in Journal
    BY <1>3, <1>5
  <2>2. Goto(w, "removing", k) /\ dirs' \in {WithJournal(thr[w].txn, k), dirs}
        /\ UNCHANGED <<disk, rec, opened, refused, crashes>>
    BY <1>m DEF rolled_back
  <2> HIDE DEF k
  <2>3. thr' \in [Writers -> Writer]
    BY <2>1, <2>2, <1>1, <1>4, Goto_Type
  <2>4. WithJournal(thr[w].txn, k) \in [Txns -> Directory]
    BY <2>1, <1>1, <1>2, WithJournal_Type
  <2>5. dirs' \in [Txns -> Directory]
    BY <2>2, <2>4, <1>1
  <2> QED BY <2>2, <2>3, <2>5, <1>1
<1>n. CASE remove_part(w)
  BY <1>n, <1>1, <1>2, RemovePart_Type DEF remove_part
<1>o. CASE remove_last(w)
  BY <1>o, <1>1, <1>2, RemoveLast_Type, Finish_Type DEF remove_last
<1>p. CASE remove_stuck(w)
  BY <1>p, <1>1, Finish_Type DEF remove_stuck
<1> QED
  BY <1>a, <1>b, <1>c, <1>d, <1>e, <1>f, <1>g, <1>h, <1>i, <1>j, <1>k, <1>l, <1>m, <1>n, <1>o,
     <1>p DEF Transaction

(* A step of open keeps the types.                                          *)
LEMMA Recovery_Type ==
    ASSUME TypeOK, Recovery
    PROVE  TypeOK'
<1>1. /\ disk \in [Files -> Value] /\ dirs \in [Txns -> Directory]
      /\ thr \in [Writers -> Writer] /\ rec \in RecoveryState
      /\ opened \in BOOLEAN /\ refused \in BOOLEAN /\ crashes \in 0..MaxCrashes
  BY DEF TypeOK
<1>2. /\ rec.txn \in Txns /\ rec.todo \in SUBSET Txns /\ rec.journal \in Journal
      /\ rec.done \in SUBSET Files
  BY <1>1 DEF RecoveryState
<1>3. /\ \A t \in Txns : dirs[t].journal \in Journal
      /\ "scanning" \in RecoveryPC /\ "restoring" \in RecoveryPC /\ "removing" \in RecoveryPC
      /\ AnyTxn \in Txns /\ NoJournal \in Journal /\ IdleRecovery \in RecoveryState
  BY <1>1, Idle_Type, NoJournal_Type DEF Directory, RecoveryPC
<1>4. SUFFICES /\ disk' \in [Files -> Value] /\ dirs' \in [Txns -> Directory]
               /\ rec' \in RecoveryState /\ opened' \in BOOLEAN /\ refused' \in BOOLEAN
               /\ UNCHANGED <<thr, crashes>>
  BY <1>1 DEF TypeOK
<1> DEFINE Goal == /\ disk' \in [Files -> Value] /\ dirs' \in [Txns -> Directory]
                   /\ rec' \in RecoveryState /\ opened' \in BOOLEAN /\ refused' \in BOOLEAN
                   /\ UNCHANGED <<thr, crashes>>
<1>a. CASE open(Leftovers)
  <2>1. Leftovers \in SUBSET Txns
    BY DEF Leftovers
  <2> QED BY <1>a, <2>1, <1>1, <1>3, RecoverAt_Type DEF open
<1>b. ASSUME NEW t \in Txns, recover_directory(t)
      PROVE  Goal
  <2>1. UNCHANGED <<disk, dirs, thr, opened, crashes>>
    BY <1>b DEF recover_directory
  <2>2. \/ RecoverAt("scanning", AnyTxn, rec.todo \ {t}, NoJournal, {}) /\ UNCHANGED refused
        \/ rec' = IdleRecovery /\ refused' = TRUE
        \/ RecoverAt("restoring", t, rec.todo, dirs[t].journal, {}) /\ UNCHANGED refused
        \/ RecoverAt("removing", t, rec.todo, NoJournal, {}) /\ UNCHANGED refused
    BY <1>b DEF recover_directory, Refuse
  <2>3. rec.todo \ {t} \in SUBSET Txns /\ {} \in SUBSET Files
    BY <1>2
  <2>4. rec' \in RecoveryState
    BY <2>2, <2>3, <1>2, <1>3, RecoverAt_Type
  <2>5. refused' \in BOOLEAN
    BY <2>2, <1>1
  <2> QED BY <2>1, <2>4, <2>5, <1>1
<1>c. ASSUME NEW f \in Files, recover_file(f)
      PROVE  Goal
  <2>1. rec.done \cup {f} \in SUBSET Files
    BY <1>2
  <2>2. disk' \in [Files -> Value]
    BY <1>c, <1>1, <1>2, Journal_Paths, Replace_Type DEF recover_file
  <2> QED BY <1>c, <2>1, <2>2, <1>1, <1>2, <1>3, RecoverAt_Type DEF recover_file
<1>d. CASE recover_fails
  BY <1>d, <1>1, <1>3 DEF recover_fails, Refuse
<1>e. CASE recover_restored
  BY <1>e, <1>1, <1>2, <1>3, RecoverAt_Type DEF recover_restored
<1>f. CASE recover_remove_part
  BY <1>f, <1>1, <1>2, RemovePart_Type DEF recover_remove_part
<1>g. CASE recover_remove_last
  BY <1>g, <1>1, <1>2, <1>3, RemoveLast_Type, RecoverAt_Type DEF recover_remove_last
<1>h. CASE activate
  BY <1>h, <1>1, <1>3 DEF activate
<1> QED
  BY <1>a, <1>b, <1>c, <1>d, <1>e, <1>f, <1>g, <1>h DEF Recovery

(* A crash keeps the types.                                                 *)
LEMMA Crash_Type ==
    ASSUME TypeOK, crash
    PROVE  TypeOK'
<1>1. thr' \in [Writers -> Writer] /\ rec' \in RecoveryState
  BY Idle_Type DEF crash
<1>2. crashes' \in 0..MaxCrashes
  BY MutationAssumption DEF TypeOK, crash
<1> QED BY <1>1, <1>2 DEF TypeOK, crash

(* Whatever fails, whoever reopens the project and however often the        *)
(* process stops, the journals on disk and in memory keep their shape: one  *)
(* original for every path of the change.                                   *)
THEOREM MutationTypes == Spec => []TypeOK
<1>1. Init => TypeOK
  <2>1. SUFFICES ASSUME Init PROVE TypeOK
    OBVIOUS
  <2>2. thr \in [Writers -> Writer] /\ rec \in RecoveryState /\ dirs \in [Txns -> Directory]
    BY <2>1, Idle_Type DEF Init
  <2>3. crashes \in 0..MaxCrashes
    BY <2>1, MutationAssumption DEF Init
  <2>4. disk \in [Files -> Value] /\ opened \in BOOLEAN /\ refused \in BOOLEAN
    BY <2>1 DEF Init
  <2> QED BY <2>2, <2>3, <2>4 DEF TypeOK
<1>2. TypeOK /\ [Next]_vars => TypeOK'
  <2>1. TypeOK /\ UNCHANGED vars => TypeOK'
    BY DEF TypeOK, vars
  <2> QED BY <2>1, Transaction_Type, Recovery_Type, Crash_Type DEF Next
<1> QED BY <1>1, <1>2, PTL DEF Spec

----------------------------------------------------------------------------
(* The inductive invariant.                                                 *)

\* The lock admits one writer, or the recovery, at a time.
ExclusiveInv ==
    /\ \A w, x \in Writers : thr[w].pc # "idle" /\ thr[x].pc # "idle" => w = x
    /\ rec.pc # "idle" => \A w \in Writers : thr[w].pc = "idle"

\* Every path of the journal has its original content.
Restored(j, files) == \A f \in Paths(j) : files[f] = j.orig[f]

\* What the journal on disk, the journal in memory and the files have to do
\* with each other at each point of a transaction.
WriterOK(wr, ds, files) ==
    /\ wr.pc = "staging" => wr.journal.state = "staging"
    /\ wr.pc = "prepared" => wr.journal.state = "prepared"
    /\ wr.pc \in {"staging", "prepared"} => wr.txn \notin Unfinished(ds)
    /\ wr.pc \in {"staging", "prepared", "applying", "restoring"} => ds[wr.txn].data
    /\ wr.pc = "applying" =>
          /\ wr.journal.state = "committing"
          /\ ds[wr.txn].journal = wr.journal
          /\ \A f \in Paths(wr.journal) :
                files[f] = IF f \in wr.done THEN wr.journal.change[f] ELSE wr.journal.orig[f]
    /\ wr.pc = "restoring" =>
          /\ WriteFaults /\ wr.txn \in Unfinished(ds)
          /\ ds[wr.txn].journal.change = wr.journal.change
          /\ ds[wr.txn].journal.orig = wr.journal.orig
          /\ \A f \in Paths(wr.journal) \cap wr.done : files[f] = wr.journal.orig[f]
    /\ wr.pc = "removing" /\ wr.txn \in Unfinished(ds) =>
          WriteFaults /\ wr.journal.state # "committed" /\ Restored(ds[wr.txn].journal, files)

IdleInv == \A w \in Writers : thr[w].pc = "idle" => thr[w] = IdleWriter

WriterInv == \A w \in Writers : thr[w].pc # "idle" => opened /\ WriterOK(thr[w], dirs, disk)

\* While the project is open an unfinished commit belongs to a running writer.
BusyInv ==
    opened => \A t \in Unfinished(dirs) :
                 \E w \in Writers : /\ thr[w].pc \in {"applying", "restoring", "removing"}
                                   /\ thr[w].txn = t

UniqueInv == \A t, u \in Unfinished(dirs) : t = u

ExistsInv == \A t \in Unfinished(dirs) : dirs[t].exists

\* Recovery still has every unfinished commit before it.
RecoveryInv ==
    /\ rec.pc # "idle" => Unfinished(dirs) \subseteq rec.todo
    /\ rec.pc = "restoring" =>
          /\ rec.txn \in Unfinished(dirs)
          /\ rec.journal = dirs[rec.txn].journal
          /\ \A f \in Paths(rec.journal) \cap rec.done : disk[f] = rec.journal.orig[f]
    /\ rec.pc = "removing" /\ rec.txn \in Unfinished(dirs) =>
          Restored(dirs[rec.txn].journal, disk)

MutationInv ==
    TypeOK /\ ExclusiveInv /\ IdleInv /\ WriterInv /\ BusyInv /\ UniqueInv /\ ExistsInv /\ RecoveryInv
----------------------------------------------------------------------------
(* What the lock gives.                                                     *)

(* A writer in a transaction runs alone, and only its own directory may     *)
(* hold an unfinished commit.                                               *)
LEMMA Alone ==
    ASSUME MutationInv, NEW w \in Writers, thr[w].pc # "idle"
    PROVE  /\ opened /\ rec.pc = "idle"
           /\ \A x \in Writers : x # w => thr[x].pc = "idle"
           /\ WriterOK(thr[w], dirs, disk)
           /\ \A t \in Unfinished(dirs) :
                 /\ dirs[t].exists /\ thr[w].txn = t
                 /\ thr[w].pc \in {"applying", "restoring", "removing"}
<1>1. opened /\ rec.pc = "idle" /\ WriterOK(thr[w], dirs, disk)
  BY DEF MutationInv, ExclusiveInv, WriterInv
<1>2. \A x \in Writers : x # w => thr[x].pc = "idle"
  BY DEF MutationInv, ExclusiveInv
<1>3. ASSUME NEW t \in Unfinished(dirs)
      PROVE  /\ dirs[t].exists /\ thr[w].txn = t
             /\ thr[w].pc \in {"applying", "restoring", "removing"}
  BY <1>1, <1>2 DEF MutationInv, BusyInv, ExistsInv
<1> QED BY <1>1, <1>2, <1>3

(* Who takes the lock of an open project finds no unfinished commit.        *)
LEMMA Unlocked_Idle ==
    ASSUME MutationInv, Unlocked = {}, LockFree
    PROVE  /\ rec.pc = "idle"
           /\ \A x \in Writers : thr[x].pc = "idle"
           /\ opened => Unfinished(dirs) = {}
<1>1. rec.pc = "idle" /\ \A x \in Writers : thr[x].pc = "idle"
  BY DEF LockFree
<1> QED BY <1>1 DEF MutationInv, BusyInv

(* A step of the writer that holds the lock keeps the invariant when its    *)
(* own state, its directory and the files agree afterwards.                 *)
LEMMA WriterStep ==
    ASSUME MutationInv, Unlocked = {}, TypeOK', NEW w \in Writers,
           thr[w].pc # "idle" \/ LockFree, opened, UNCHANGED <<rec, opened>>,
           \A x \in Writers : x # w => thr'[x] = thr[x],
           thr'[w].pc = "idle" => thr'[w] = IdleWriter,
           thr'[w].pc # "idle" => WriterOK(thr'[w], dirs', disk'),
           \A t \in Unfinished(dirs') :
              /\ dirs'[t].exists /\ thr'[w].txn = t
              /\ thr'[w].pc \in {"applying", "restoring", "removing"}
    PROVE  MutationInv'
<1>1. rec.pc = "idle" /\ \A x \in Writers : x # w => thr[x].pc = "idle"
  BY Alone, Unlocked_Idle
<1>2. rec'.pc = "idle" /\ \A x \in Writers : x # w => thr'[x].pc = "idle"
  BY <1>1
<1>3. ExclusiveInv'
  BY <1>2 DEF ExclusiveInv
<1>4. IdleInv'
  BY <1>1 DEF IdleInv, MutationInv
<1>5. WriterInv'
  BY <1>2 DEF WriterInv
<1>6. BusyInv' /\ UniqueInv' /\ ExistsInv'
  BY DEF BusyInv, UniqueInv, ExistsInv
<1>7. RecoveryInv'
  BY <1>2 DEF RecoveryInv
<1> QED BY <1>3, <1>4, <1>5, <1>6, <1>7 DEF MutationInv

(* A step of the recovery keeps the invariant when it finishes no commit,   *)
(* starts none, and still has the unfinished one before it.                 *)
LEMMA RecoveryStep ==
    ASSUME MutationInv, Unlocked = {}, TypeOK', rec.pc # "idle" \/ LockFree, UNCHANGED thr,
           Unfinished(dirs') \subseteq Unfinished(dirs),
           \A t \in Unfinished(dirs') : dirs'[t].exists,
           opened' => opened \/ Unfinished(dirs') = {},
           RecoveryInv'
    PROVE  MutationInv'
<1>1. \A x \in Writers : thr[x].pc = "idle"
  BY Unlocked_Idle DEF MutationInv, ExclusiveInv
<1>2. opened => Unfinished(dirs) = {}
  BY <1>1 DEF MutationInv, BusyInv
<1>3. ExclusiveInv' /\ IdleInv' /\ WriterInv'
  BY <1>1 DEF MutationInv, ExclusiveInv, IdleInv, WriterInv
<1>4. BusyInv'
  BY <1>2 DEF BusyInv
<1>5. UniqueInv' /\ ExistsInv'
  BY DEF MutationInv, UniqueInv, ExistsInv
<1> QED BY <1>3, <1>4, <1>5 DEF MutationInv

----------------------------------------------------------------------------
(* The version that recovery leads to.                                      *)

(* Without an unfinished commit it is what the files say.                   *)
LEMMA Recovered_None ==
    ASSUME NEW files \in [Files -> Value], NEW ds, Unfinished(ds) = {}
    PROVE  Recovered(files, ds) = files
BY DEF Recovered

(* With one, the paths of that commit have their originals.                 *)
LEMMA Recovered_One ==
    ASSUME NEW files, NEW ds, NEW t \in Unfinished(ds), \A u \in Unfinished(ds) : u = t
    PROVE  Recovered(files, ds) =
             [f \in Files |-> IF f \in Paths(ds[t].journal) THEN ds[t].journal.orig[f] ELSE files[f]]
<1>1. ASSUME NEW f \in Files, f \in Paths(ds[t].journal)
      PROVE  (CHOOSE u \in Unfinished(ds) : f \in Paths(ds[u].journal)) = t
  <2>1. \E u \in Unfinished(ds) : f \in Paths(ds[u].journal)
    BY <1>1
  <2> QED BY <2>1
<1>2. ASSUME NEW f \in Files
      PROVE  (\E u \in Unfinished(ds) : f \in Paths(ds[u].journal)) <=> f \in Paths(ds[t].journal)
  OBVIOUS
<1> QED BY <1>1, <1>2 DEF Recovered

(* Once those paths are restored it is again what the files say.            *)
LEMMA Recovered_Restored ==
    ASSUME NEW files \in [Files -> Value], NEW ds, NEW t, \A u \in Unfinished(ds) : u = t,
           t \in Unfinished(ds) => Restored(ds[t].journal, files)
    PROVE  Recovered(files, ds) = files
<1>1. CASE Unfinished(ds) = {}
  BY <1>1, Recovered_None
<1>2. CASE t \in Unfinished(ds)
  <2>1. \A f \in Paths(ds[t].journal) : files[f] = ds[t].journal.orig[f]
    BY <1>2 DEF Restored
  <2>2. Recovered(files, ds) =
          [f \in Files |-> IF f \in Paths(ds[t].journal) THEN ds[t].journal.orig[f] ELSE files[f]]
    BY <1>2, Recovered_One
  <2> QED BY <2>1, <2>2
<1> QED BY <1>1, <1>2

(* It does not depend on the files of the unfinished commit.                *)
LEMMA Recovered_Same ==
    ASSUME NEW a \in [Files -> Value], NEW b \in [Files -> Value], NEW ds, NEW es,
           NEW t \in Unfinished(ds), \A u \in Unfinished(ds) : u = t,
           t \in Unfinished(es), \A u \in Unfinished(es) : u = t,
           es[t].journal = ds[t].journal,
           \A f \in Files \ Paths(ds[t].journal) : a[f] = b[f]
    PROVE  Recovered(b, es) = Recovered(a, ds)
<1>1. Recovered(a, ds) =
        [f \in Files |-> IF f \in Paths(ds[t].journal) THEN ds[t].journal.orig[f] ELSE a[f]]
  BY Recovered_One
<1>2. Recovered(b, es) =
        [f \in Files |-> IF f \in Paths(ds[t].journal) THEN ds[t].journal.orig[f] ELSE b[f]]
  BY Recovered_One
<1> QED BY <1>1, <1>2

(* The request of the writer that moved is the only one that may change.    *)
LEMMA Request_Move ==
    ASSUME NEW w \in Writers, \A x \in Writers : x # w => thr'[x] = thr[x]
    PROVE  /\ Request' = [Request EXCEPT ![w] = RequestOf(thr'[w])]
           /\ RequestOf(thr'[w]) = RequestOf(thr[w]) => Request' = Request
BY DEF Request

(* A transaction before its marker is a request in work, afterwards a       *)
(* committed one.                                                           *)
LEMMA Request_Phase ==
    ASSUME NEW wr, wr.pc # "idle"
    PROVE  /\ wr.pc # "removing" \/ wr.journal.state # "committed" =>
                 RequestOf(wr) = [phase |-> "working", change |-> wr.journal.change]
           /\ wr.pc = "removing" /\ wr.journal.state = "committed" =>
                 RequestOf(wr) = [phase |-> "committed", change |-> wr.journal.change]
BY DEF RequestOf

(* An idle writer works on nothing.                                         *)
LEMMA Request_Idle == RequestOf(IdleWriter) = Project!Idle
BY NoJournal_Type DEF RequestOf, IdleWriter, Project!Idle, Project!NoChange

----------------------------------------------------------------------------
(* Every step of a transaction.                                             *)

\* Every writer takes the workspace lock, a backup can be written back, and
\* no file resists both replacement and removal.
Dependable == Unlocked = {} /\ ~RestoreFaults /\ ~(WriteFaults /\ RemoveFaults)

Stutter == LogicalDisk' = LogicalDisk /\ Request' = Request

(* Staging is a new request; nothing of the project changes.                *)
LEMMA Stage_Step ==
    ASSUME Dependable, MutationInv, NEW w \in Writers, NEW t \in Txns, NEW change \in Changes,
           stage(w, t, change), TypeOK'
    PROVE  MutationInv' /\ Project!Begin(w)
<1> DEFINE j == [state |-> "staging", change |-> change,
                 orig |-> [f \in DOMAIN change |-> disk[f]]]
           wr == [pc |-> "staging", txn |-> t, done |-> {}, journal |-> j]
<1>1. /\ disk \in [Files -> Value] /\ dirs \in [Txns -> Directory] /\ thr \in [Writers -> Writer]
      /\ disk' \in [Files -> Value]
  BY DEF MutationInv, TypeOK
<1>2. LockFree /\ opened /\ thr[w].pc = "idle" /\ UNCHANGED <<disk, rec, opened>>
  BY DEF stage, Dependable
<1>3. Unfinished(dirs) = {}
  BY <1>2, Unlocked_Idle DEF Dependable
<1>4. /\ dirs'[t] = [exists |-> TRUE, journal |-> NoJournal, data |-> TRUE]
      /\ \A u \in Txns : u # t => dirs'[u] = dirs[u]
  BY <1>1 DEF stage
<1>5. Unfinished(dirs') = {}
  BY <1>3, <1>4, NoJournal_Type DEF Unfinished
<1>6. thr'[w] = wr /\ \A x \in Writers : x # w => thr'[x] = thr[x]
  BY <1>1 DEF stage
<1>7. WriterOK(wr, dirs', disk')
  BY <1>4, <1>5 DEF WriterOK
<1>8. MutationInv'
  BY <1>2, <1>5, <1>6, <1>7, WriterStep DEF Dependable
<1>9. LogicalDisk' = LogicalDisk
  BY <1>1, <1>2, <1>3, <1>5, Recovered_None DEF LogicalDisk
<1>10. Request[w] = Project!Idle
  BY <1>2, Request_Idle DEF MutationInv, IdleInv, Request
<1>11. Request' = [Request EXCEPT ![w] = [phase |-> "working", change |-> change]]
  <2>1. RequestOf(thr'[w]) = [phase |-> "working", change |-> change]
    BY <1>6, Request_Phase
  <2> QED BY <1>6, <2>1, Request_Move
<1>12. DOMAIN change \in SUBSET Files /\ change \in [DOMAIN change -> Value]
  BY <1>1, Staged_Type
<1> QED BY <1>8, <1>9, <1>10, <1>11, <1>12 DEF Project!Begin, Project!Value, Value

(* Writing the journal of a complete stage changes nothing yet.             *)
LEMMA Prepare_Step ==
    ASSUME Dependable, MutationInv, NEW w \in Writers, prepare(w), TypeOK'
    PROVE  MutationInv' /\ Stutter
<1> DEFINE t == thr[w].txn
           j == [thr[w].journal EXCEPT !.state = "prepared"]
<1>1. /\ disk \in [Files -> Value] /\ dirs \in [Txns -> Directory] /\ thr \in [Writers -> Writer]
      /\ disk' \in [Files -> Value]
  BY DEF MutationInv, TypeOK
<1>2. thr[w].pc = "staging" /\ thr[w].journal \in Journal /\ t \in Txns
  BY <1>1 DEF prepare, Writer
<1>3. j \in Journal /\ j.state = "prepared" /\ j.change = thr[w].journal.change
  BY <1>2, JournalState_Type DEF JournalState
<1>4. /\ opened /\ Unfinished(dirs) = {} /\ WriterOK(thr[w], dirs, disk)
      /\ UNCHANGED <<disk, rec, opened>>
  BY <1>2, Alone DEF prepare
<1> HIDE DEF j
<1>5. Goto(w, "prepared", j) /\ dirs' = WithJournal(t, j)
  BY DEF prepare, j
<1>6. /\ thr'[w] = [pc |-> "prepared", txn |-> t, journal |-> j, done |-> {}]
      /\ \A x \in Writers : x # w => thr'[x] = thr[x]
  BY <1>1, <1>3, <1>5, Goto_Type DEF WriterPC
<1>7. /\ dirs'[t] = [exists |-> TRUE, journal |-> j, data |-> dirs[t].data]
      /\ \A u \in Txns : u # t => dirs'[u] = dirs[u]
  BY <1>1, <1>2, <1>3, <1>5, WithJournal_Type
<1>8. Unfinished(dirs') = {}
  BY <1>3, <1>4, <1>7 DEF Unfinished
<1>9. dirs'[t].data
  BY <1>2, <1>4, <1>7 DEF WriterOK
<1>10. WriterOK(thr'[w], dirs', disk')
  BY <1>3, <1>6, <1>8, <1>9 DEF WriterOK
<1>11. MutationInv'
  BY <1>2, <1>4, <1>6, <1>8, <1>10, WriterStep DEF Dependable
<1>12. LogicalDisk' = LogicalDisk
  BY <1>1, <1>4, <1>8, Recovered_None DEF LogicalDisk
<1>13. Request' = Request
  <2>1. RequestOf(thr[w]) = [phase |-> "working", change |-> j.change]
    BY <1>2, <1>3, Request_Phase
  <2>2. RequestOf(thr'[w]) = [phase |-> "working", change |-> j.change]
    BY <1>6, Request_Phase
  <2> QED BY <1>6, <2>1, <2>2, Request_Move
<1> QED BY <1>11, <1>12, <1>13 DEF Stutter

(* The journal says "committing" before the first file changes.             *)
LEMMA Commit_Step ==
    ASSUME Dependable, MutationInv, NEW w \in Writers, commit(w), TypeOK'
    PROVE  MutationInv' /\ Stutter
<1> DEFINE t == thr[w].txn
           j == [thr[w].journal EXCEPT !.state = "committing"]
<1>1. /\ disk \in [Files -> Value] /\ dirs \in [Txns -> Directory] /\ thr \in [Writers -> Writer]
      /\ disk' \in [Files -> Value]
  BY DEF MutationInv, TypeOK
<1>2. thr[w].pc = "prepared" /\ thr[w].journal \in Journal /\ t \in Txns
  BY <1>1 DEF commit, Writer
<1>3. j \in Journal /\ j.state = "committing" /\ j.change = thr[w].journal.change
  BY <1>2, JournalState_Type DEF JournalState
<1>4. /\ opened /\ Unfinished(dirs) = {} /\ WriterOK(thr[w], dirs, disk)
      /\ UNCHANGED <<disk, rec, opened>>
  BY <1>2, Alone DEF commit
<1> HIDE DEF j
<1>5. Goto(w, "applying", j) /\ dirs' = WithJournal(t, j) /\ \A f \in Paths(j) : disk[f] = j.orig[f]
  BY DEF commit, j, OriginalsUnchanged
<1>6. /\ thr'[w] = [pc |-> "applying", txn |-> t, journal |-> j, done |-> {}]
      /\ \A x \in Writers : x # w => thr'[x] = thr[x]
  BY <1>1, <1>3, <1>5, Goto_Type DEF WriterPC
<1>7. /\ dirs'[t] = [exists |-> TRUE, journal |-> j, data |-> dirs[t].data]
      /\ \A u \in Txns : u # t => dirs'[u] = dirs[u]
  BY <1>1, <1>2, <1>3, <1>5, WithJournal_Type
<1>8. Unfinished(dirs') = {t}
  BY <1>2, <1>3, <1>4, <1>7 DEF Unfinished
<1>9. dirs'[t].data
  BY <1>2, <1>4, <1>7 DEF WriterOK
<1>10. WriterOK(thr'[w], dirs', disk')
  BY <1>3, <1>4, <1>5, <1>6, <1>7, <1>8, <1>9 DEF WriterOK
<1>11. MutationInv'
  BY <1>2, <1>4, <1>6, <1>7, <1>8, <1>10, WriterStep DEF Dependable
<1>12. LogicalDisk' = LogicalDisk
  <2>1. Restored(dirs'[t].journal, disk')
    BY <1>4, <1>5, <1>7 DEF Restored
  <2>2. Recovered(disk', dirs') = disk'
    BY <1>1, <1>8, <2>1, Recovered_Restored
  <2>3. Recovered(disk, dirs) = disk
    BY <1>1, <1>4, Recovered_None
  <2> QED BY <2>2, <2>3, <1>4 DEF LogicalDisk
<1>13. Request' = Request
  <2>1. RequestOf(thr[w]) = [phase |-> "working", change |-> j.change]
    BY <1>2, <1>3, Request_Phase
  <2>2. RequestOf(thr'[w]) = [phase |-> "working", change |-> j.change]
    BY <1>6, Request_Phase
  <2> QED BY <1>6, <2>1, <2>2, Request_Move
<1> QED BY <1>11, <1>12, <1>13 DEF Stutter

(* Replacing one file of the commit is invisible until the marker.          *)
LEMMA Apply_Step ==
    ASSUME Dependable, MutationInv, NEW w \in Writers, NEW f \in Files, apply_file(w, f), TypeOK'
    PROVE  MutationInv' /\ Stutter
<1> DEFINE t == thr[w].txn
           j == thr[w].journal
<1>1. /\ disk \in [Files -> Value] /\ dirs \in [Txns -> Directory] /\ thr \in [Writers -> Writer]
      /\ disk' \in [Files -> Value]
  BY DEF MutationInv, TypeOK
<1>2. /\ thr[w].pc = "applying" /\ j \in Journal /\ t \in Txns /\ f \in Paths(j)
      /\ UNCHANGED <<dirs, rec, opened>>
  BY <1>1 DEF apply_file, Writer
<1>3. /\ opened /\ WriterOK(thr[w], dirs, disk)
      /\ \A u \in Unfinished(dirs) : dirs[u].exists /\ u = t
  BY <1>2, Alone
<1>4. /\ dirs[t].journal = j /\ j.state = "committing" /\ dirs[t].data
      /\ \A g \in Paths(j) : disk[g] = IF g \in thr[w].done THEN j.change[g] ELSE j.orig[g]
  BY <1>2, <1>3 DEF WriterOK
<1>5. t \in Unfinished(dirs)
  BY <1>2, <1>4 DEF Unfinished
<1>6. /\ disk'[f] = j.change[f]
      /\ \A g \in Files : g # f => disk'[g] = disk[g]
  BY <1>1 DEF apply_file
<1>7. /\ thr'[w] = [pc |-> "applying", txn |-> t, journal |-> j, done |-> thr[w].done \cup {f}]
      /\ \A x \in Writers : x # w => thr'[x] = thr[x]
  BY <1>1, <1>2, Done_Type DEF apply_file
<1>8. Paths(j) \subseteq Files
  BY <1>2, Journal_Paths
<1>9. WriterOK(thr'[w], dirs', disk')
  BY <1>2, <1>4, <1>6, <1>7, <1>8 DEF WriterOK
<1>10. MutationInv'
  BY <1>2, <1>3, <1>7, <1>9, WriterStep DEF Dependable
<1>11. \A g \in Files \ Paths(dirs[t].journal) : disk[g] = disk'[g]
  BY <1>2, <1>4, <1>6
<1>12. LogicalDisk' = LogicalDisk
  BY <1>1, <1>2, <1>3, <1>5, <1>11, Recovered_Same DEF LogicalDisk
<1>13. Request' = Request
  <2>1. RequestOf(thr[w]) = [phase |-> "working", change |-> j.change]
    BY <1>2, Request_Phase
  <2>2. RequestOf(thr'[w]) = [phase |-> "working", change |-> j.change]
    BY <1>7, Request_Phase
  <2> QED BY <1>7, <2>1, <2>2, Request_Move
<1> QED BY <1>10, <1>12, <1>13 DEF Stutter

(* The commit marker makes the whole change durable in one step.            *)
LEMMA Marker_Step ==
    ASSUME Dependable, MutationInv, NEW w \in Writers, write_marker(w), TypeOK'
    PROVE  MutationInv' /\ Project!Commit(w)
<1> DEFINE t == thr[w].txn
           j == [thr[w].journal EXCEPT !.state = "committed"]
<1>1. /\ disk \in [Files -> Value] /\ dirs \in [Txns -> Directory] /\ thr \in [Writers -> Writer]
      /\ disk' \in [Files -> Value]
  BY DEF MutationInv, TypeOK
<1>2. thr[w].pc = "applying" /\ thr[w].journal \in Journal /\ t \in Txns
  BY <1>1 DEF write_marker, Writer
<1>3. j \in Journal /\ j.state = "committed" /\ j.change = thr[w].journal.change
  BY <1>2, JournalState_Type DEF JournalState
<1>4. /\ opened /\ WriterOK(thr[w], dirs, disk) /\ UNCHANGED <<disk, rec, opened>>
      /\ \A u \in Unfinished(dirs) : dirs[u].exists /\ u = t
  BY <1>2, Alone DEF write_marker
<1> HIDE DEF j
<1>5. Goto(w, "removing", j) /\ dirs' = WithJournal(t, j) /\ thr[w].done = Paths(j)
  BY DEF write_marker, j
<1>6. /\ thr'[w] = [pc |-> "removing", txn |-> t, journal |-> j, done |-> {}]
      /\ \A x \in Writers : x # w => thr'[x] = thr[x]
  BY <1>1, <1>3, <1>5, Goto_Type DEF WriterPC
<1>7. /\ dirs'[t] = [exists |-> TRUE, journal |-> j, data |-> dirs[t].data]
      /\ \A u \in Txns : u # t => dirs'[u] = dirs[u]
  BY <1>1, <1>2, <1>3, <1>5, WithJournal_Type
<1>8. Unfinished(dirs') = {}
  BY <1>3, <1>4, <1>7 DEF Unfinished
<1>9. WriterOK(thr'[w], dirs', disk')
  BY <1>6, <1>8 DEF WriterOK
<1>10. MutationInv'
  BY <1>2, <1>4, <1>6, <1>8, <1>9, WriterStep DEF Dependable
<1>11. /\ dirs[t].journal = thr[w].journal /\ t \in Unfinished(dirs)
       /\ \A f \in DOMAIN j.change : disk[f] = j.change[f]
  BY <1>2, <1>3, <1>4, <1>5 DEF WriterOK, Unfinished, Paths
<1>12. LogicalDisk = [f \in Files |-> IF f \in DOMAIN j.change THEN thr[w].journal.orig[f]
                                      ELSE disk[f]]
  BY <1>3, <1>4, <1>11, Recovered_One DEF LogicalDisk, Paths
<1>13. LogicalDisk' = disk
  BY <1>1, <1>4, <1>8, Recovered_None DEF LogicalDisk
<1>14. Request[w] = [phase |-> "working", change |-> j.change]
  BY <1>2, <1>3 DEF Request, RequestOf
<1>15. LogicalDisk' = [f \in Files |-> IF f \in DOMAIN Request[w].change
                                       THEN Request[w].change[f] ELSE LogicalDisk[f]]
  BY <1>1, <1>11, <1>12, <1>13, <1>14
<1>16. Request' = [Request EXCEPT ![w] = [phase |-> "committed", change |-> j.change]]
  <2>1. RequestOf(thr'[w]) = [phase |-> "committed", change |-> j.change]
    BY <1>3, <1>6, Request_Phase
  <2> QED BY <1>6, <2>1, Request_Move
<1>17. Request' = [Request EXCEPT ![w].phase = "committed"]
  <2>1. [Request[w] EXCEPT !.phase = "committed"] = [phase |-> "committed", change |-> j.change]
    BY <1>14
  <2> QED BY <1>16, <2>1
<1> QED BY <1>10, <1>14, <1>15, <1>17 DEF Project!Commit

(* A transaction that fails before its commit is removed; nothing of the    *)
(* project changed.                                                         *)
LEMMA GiveUp_Step ==
    ASSUME Dependable, MutationInv, NEW w \in Writers, stage_fails(w) \/ commit_refused(w), TypeOK'
    PROVE  MutationInv' /\ Stutter
<1> DEFINE j == thr[w].journal
<1>1. thr \in [Writers -> Writer] /\ j \in Journal
  BY DEF MutationInv, TypeOK, Writer
<1>2. /\ thr[w].pc \in {"staging", "prepared"} /\ Goto(w, "removing", j)
      /\ UNCHANGED <<disk, dirs, rec, opened>>
  BY DEF stage_fails, commit_refused
<1>3. opened /\ Unfinished(dirs) = {} /\ WriterOK(thr[w], dirs, disk)
  BY <1>2, Alone
<1>4. j.state # "committed"
  BY <1>2, <1>3 DEF WriterOK
<1>5. /\ thr'[w] = [pc |-> "removing", txn |-> thr[w].txn, journal |-> j, done |-> {}]
      /\ \A x \in Writers : x # w => thr'[x] = thr[x]
  BY <1>1, <1>2, Goto_Type DEF WriterPC
<1>6. Unfinished(dirs') = {}
  BY <1>2, <1>3
<1>7. WriterOK(thr'[w], dirs', disk')
  BY <1>5, <1>6 DEF WriterOK
<1>8. MutationInv'
  BY <1>2, <1>3, <1>5, <1>6, <1>7, WriterStep DEF Dependable
<1>9. Request' = Request
  <2>1. RequestOf(thr[w]) = [phase |-> "working", change |-> j.change]
    BY <1>2, Request_Phase
  <2>2. RequestOf(thr'[w]) = [phase |-> "working", change |-> j.change]
    BY <1>4, <1>5, Request_Phase
  <2> QED BY <1>5, <2>1, <2>2, Request_Move
<1> QED BY <1>2, <1>8, <1>9 DEF Stutter, LogicalDisk

(* A failed replacement, or a failed marker, turns to the backups.          *)
LEMMA Fails_Step ==
    ASSUME Dependable, MutationInv, NEW w \in Writers, apply_fails(w) \/ marker_fails(w), TypeOK'
    PROVE  MutationInv' /\ Stutter
<1> DEFINE t == thr[w].txn
<1>1. /\ dirs \in [Txns -> Directory] /\ thr \in [Writers -> Writer]
      /\ thr[w].journal \in Journal /\ t \in Txns
  BY DEF MutationInv, TypeOK, Writer
<1>2. PICK j \in Journal : /\ j.change = thr[w].journal.change /\ j.orig = thr[w].journal.orig
                           /\ Goto(w, "restoring", j)
  BY <1>1, JournalState_Type DEF apply_fails, marker_fails, JournalState
<1>3. thr[w].pc = "applying" /\ UNCHANGED <<disk, dirs, rec, opened>>
  BY DEF apply_fails, marker_fails
<1>4. /\ opened /\ WriterOK(thr[w], dirs, disk)
      /\ \A u \in Unfinished(dirs) : dirs[u].exists /\ u = t
  BY <1>3, Alone
<1>5. dirs[t].data /\ dirs[t].journal = thr[w].journal /\ thr[w].journal.state = "committing"
  BY <1>3, <1>4 DEF WriterOK
<1>6. WriteFaults
  BY <1>5 DEF apply_fails, marker_fails, StagedReadable
<1>7. t \in Unfinished(dirs)
  BY <1>1, <1>5 DEF Unfinished
<1>8. /\ thr'[w] = [pc |-> "restoring", txn |-> t, journal |-> j, done |-> {}]
      /\ \A x \in Writers : x # w => thr'[x] = thr[x]
  BY <1>1, <1>2, Goto_Type DEF WriterPC
<1>9. WriterOK(thr'[w], dirs', disk')
  BY <1>2, <1>3, <1>5, <1>6, <1>7, <1>8 DEF WriterOK
<1>10. MutationInv'
  BY <1>3, <1>4, <1>8, <1>9, WriterStep DEF Dependable
<1>11. Request' = Request
  <2>1. RequestOf(thr[w]) = [phase |-> "working", change |-> j.change]
    BY <1>2, <1>3, Request_Phase
  <2>2. RequestOf(thr'[w]) = [phase |-> "working", change |-> j.change]
    BY <1>8, Request_Phase
  <2> QED BY <1>8, <2>1, <2>2, Request_Move
<1> QED BY <1>3, <1>10, <1>11 DEF Stutter, LogicalDisk

(* Restoring one file of the unfinished commit is invisible.                *)
LEMMA Restore_Step ==
    ASSUME Dependable, MutationInv, NEW w \in Writers, NEW f \in Files, restore_file(w, f), TypeOK'
    PROVE  MutationInv' /\ Stutter
<1> DEFINE t == thr[w].txn
           j == thr[w].journal
<1>1. /\ disk \in [Files -> Value] /\ dirs \in [Txns -> Directory] /\ thr \in [Writers -> Writer]
      /\ disk' \in [Files -> Value]
  BY DEF MutationInv, TypeOK
<1>2. /\ thr[w].pc = "restoring" /\ j \in Journal /\ t \in Txns /\ f \in Paths(j)
      /\ UNCHANGED <<dirs, rec, opened>>
  BY <1>1 DEF restore_file, Writer
<1>3. /\ opened /\ WriterOK(thr[w], dirs, disk)
      /\ \A u \in Unfinished(dirs) : dirs[u].exists /\ u = t
  BY <1>2, Alone
<1>4. /\ WriteFaults /\ dirs[t].data /\ t \in Unfinished(dirs)
      /\ dirs[t].journal.change = j.change /\ dirs[t].journal.orig = j.orig
      /\ \A g \in Paths(j) \cap thr[w].done : disk[g] = j.orig[g]
  BY <1>2, <1>3 DEF WriterOK
<1>5. disk'[f] = j.orig[f] /\ \A g \in Files : g # f => disk'[g] = disk[g]
  BY <1>1 DEF restore_file
<1>6. /\ thr'[w] = [pc |-> "restoring", txn |-> t, journal |-> j, done |-> thr[w].done \cup {f}]
      /\ \A x \in Writers : x # w => thr'[x] = thr[x]
  BY <1>1, <1>2, Done_Type DEF restore_file
<1>7. Paths(j) \subseteq Files
  BY <1>2, Journal_Paths
<1>8. WriterOK(thr'[w], dirs', disk')
  BY <1>2, <1>4, <1>5, <1>6, <1>7 DEF WriterOK
<1>9. MutationInv'
  BY <1>2, <1>3, <1>6, <1>8, WriterStep DEF Dependable
<1>10. \A g \in Files \ Paths(dirs[t].journal) : disk[g] = disk'[g]
  BY <1>2, <1>4, <1>5 DEF Paths
<1>11. LogicalDisk' = LogicalDisk
  BY <1>1, <1>2, <1>3, <1>4, <1>10, Recovered_Same DEF LogicalDisk
<1>12. Request' = Request
  <2>1. RequestOf(thr[w]) = [phase |-> "working", change |-> j.change]
    BY <1>2, Request_Phase
  <2>2. RequestOf(thr'[w]) = [phase |-> "working", change |-> j.change]
    BY <1>6, Request_Phase
  <2> QED BY <1>6, <2>1, <2>2, Request_Move
<1> QED BY <1>9, <1>11, <1>12 DEF Stutter

(* After the last file the project is the original version again, also      *)
(* when the journal still says "committing".                                *)
LEMMA RolledBack_Step ==
    ASSUME Dependable, MutationInv, NEW w \in Writers, rolled_back(w), TypeOK'
    PROVE  MutationInv' /\ Stutter
<1> DEFINE t == thr[w].txn
           j == [thr[w].journal EXCEPT !.state = "rolled_back"]
<1>1. /\ disk \in [Files -> Value] /\ dirs \in [Txns -> Directory] /\ thr \in [Writers -> Writer]
      /\ disk' \in [Files -> Value]
  BY DEF MutationInv, TypeOK
<1>2. thr[w].pc = "restoring" /\ thr[w].journal \in Journal /\ t \in Txns
  BY <1>1 DEF rolled_back, Writer
<1>3. /\ j \in Journal /\ j.state = "rolled_back" /\ j.change = thr[w].journal.change
      /\ j.orig = thr[w].journal.orig
  BY <1>2, JournalState_Type DEF JournalState
<1>4. /\ opened /\ WriterOK(thr[w], dirs, disk) /\ UNCHANGED <<disk, rec, opened>>
      /\ \A u \in Unfinished(dirs) : dirs[u].exists /\ u = t
  BY <1>2, Alone DEF rolled_back
<1> HIDE DEF j
<1>5. /\ Goto(w, "removing", j) /\ thr[w].done = Paths(j)
      /\ dirs' = WithJournal(t, j) \/ dirs' = dirs
  BY DEF rolled_back, j
<1>6. /\ thr'[w] = [pc |-> "removing", txn |-> t, journal |-> j, done |-> {}]
      /\ \A x \in Writers : x # w => thr'[x] = thr[x]
  BY <1>1, <1>3, <1>5, Goto_Type DEF WriterPC
<1>7. /\ WriteFaults /\ t \in Unfinished(dirs)
      /\ Restored(dirs[t].journal, disk)
  BY <1>2, <1>3, <1>4, <1>5 DEF WriterOK, Restored, Paths
<1>8. /\ \A u \in Unfinished(dirs') : dirs'[u].exists /\ u = t
      /\ t \in Unfinished(dirs') => dirs'[t].journal = dirs[t].journal
  <2>1. CASE dirs' = WithJournal(t, j)
    <3>1. /\ dirs'[t] = [exists |-> TRUE, journal |-> j, data |-> dirs[t].data]
          /\ \A u \in Txns : u # t => dirs'[u] = dirs[u]
      BY <2>1, <1>1, <1>2, <1>3, WithJournal_Type
    <3>2. Unfinished(dirs') = {}
      BY <3>1, <1>3, <1>4 DEF Unfinished
    <3> QED BY <3>2
  <2>2. CASE dirs' = dirs
    BY <2>2, <1>4
  <2> QED BY <1>5, <2>1, <2>2
<1>9. WriterOK(thr'[w], dirs', disk')
  BY <1>3, <1>4, <1>6, <1>7, <1>8 DEF WriterOK
<1>10. MutationInv'
  BY <1>2, <1>4, <1>6, <1>8, <1>9, WriterStep DEF Dependable
<1>11. LogicalDisk' = LogicalDisk
  <2>1. Recovered(disk, dirs) = disk
    BY <1>1, <1>4, <1>7, Recovered_Restored
  <2>2. Recovered(disk', dirs') = disk'
    BY <1>1, <1>4, <1>7, <1>8, Recovered_Restored
  <2> QED BY <2>1, <2>2, <1>4 DEF LogicalDisk
<1>12. Request' = Request
  <2>1. RequestOf(thr[w]) = [phase |-> "working", change |-> j.change]
    BY <1>2, <1>3, Request_Phase
  <2>2. RequestOf(thr'[w]) = [phase |-> "working", change |-> j.change]
    BY <1>3, <1>6, Request_Phase
  <2> QED BY <1>6, <2>1, <2>2, Request_Move
<1> QED BY <1>10, <1>11, <1>12 DEF Stutter

(* Removing a part of the directory shows nothing: an unfinished commit in  *)
(* it is restored.                                                          *)
LEMMA RemovePart_Step ==
    ASSUME Dependable, MutationInv, NEW w \in Writers, remove_part(w), TypeOK'
    PROVE  MutationInv' /\ Stutter
<1> DEFINE t == thr[w].txn
<1>1. /\ disk \in [Files -> Value] /\ dirs \in [Txns -> Directory] /\ thr \in [Writers -> Writer]
      /\ disk' \in [Files -> Value]
  BY DEF MutationInv, TypeOK
<1>2. thr[w].pc = "removing" /\ t \in Txns /\ UNCHANGED <<disk, thr, rec, opened>>
  BY <1>1 DEF remove_part, Writer
<1>3. /\ opened /\ WriterOK(thr[w], dirs, disk)
      /\ \A u \in Unfinished(dirs) : dirs[u].exists /\ u = t
  BY <1>2, Alone
<1>4. /\ dirs'[t].exists /\ dirs'[t].journal \in {dirs[t].journal, NoJournal}
      /\ \A u \in Txns : u # t => dirs'[u] = dirs[u]
  BY <1>1, <1>2, RemovePart_Type DEF remove_part
<1>5. /\ \A u \in Unfinished(dirs') : dirs'[u].exists /\ u = t
      /\ t \in Unfinished(dirs') => t \in Unfinished(dirs) /\ dirs'[t].journal = dirs[t].journal
  BY <1>3, <1>4, NoJournal_Type DEF Unfinished
<1>6. WriterOK(thr'[w], dirs', disk')
  BY <1>2, <1>3, <1>5 DEF WriterOK
<1>7. MutationInv'
  BY <1>2, <1>3, <1>5, <1>6, WriterStep DEF Dependable
<1>8. /\ t \in Unfinished(dirs) => Restored(dirs[t].journal, disk)
      /\ t \in Unfinished(dirs') => Restored(dirs'[t].journal, disk')
  BY <1>2, <1>3, <1>5 DEF WriterOK
<1>9. LogicalDisk' = LogicalDisk
  <2>1. Recovered(disk, dirs) = disk
    BY <1>1, <1>3, <1>8, Recovered_Restored
  <2>2. Recovered(disk', dirs') = disk'
    BY <1>1, <1>5, <1>8, Recovered_Restored
  <2> QED BY <2>1, <2>2, <1>2 DEF LogicalDisk
<1> QED BY <1>2, <1>7, <1>9 DEF Stutter, Request

(* apply returns, or raises, with nothing unfinished left on disk.          *)
LEMMA Return_Step ==
    ASSUME Dependable, MutationInv, NEW w \in Writers, TypeOK',
           commit_not_started(w) \/ remove_last(w) \/ remove_stuck(w)
    PROVE  MutationInv' /\ Project!Return(w)
<1> DEFINE t == thr[w].txn
<1>1. /\ disk \in [Files -> Value] /\ dirs \in [Txns -> Directory] /\ thr \in [Writers -> Writer]
      /\ disk' \in [Files -> Value]
  BY DEF MutationInv, TypeOK
<1>2. /\ thr[w].pc \in {"prepared", "removing"} /\ t \in Txns /\ Finish(w)
      /\ UNCHANGED <<disk, rec, opened>>
  BY <1>1 DEF commit_not_started, remove_last, remove_stuck, Writer
<1>3. /\ opened /\ WriterOK(thr[w], dirs, disk)
      /\ \A u \in Unfinished(dirs) : dirs[u].exists /\ u = t /\ thr[w].pc = "removing"
  BY <1>2, Alone
<1>4. thr'[w] = IdleWriter /\ \A x \in Writers : x # w => thr'[x] = thr[x]
  BY <1>1, <1>2, Finish_Type
<1>5. Unfinished(dirs') = {}
  <2>1. CASE commit_not_started(w)
    BY <2>1, <1>3 DEF commit_not_started
  <2>2. CASE remove_last(w)
    <3>1. dirs'[t] = NoDirectory /\ \A u \in Txns : u # t => dirs'[u] = dirs[u]
      BY <2>2, <1>1, <1>2, RemoveLast_Type DEF remove_last
    <3>2. NoDirectory.journal.state # "committing"
      BY NoJournal_Type DEF NoDirectory
    <3> QED BY <3>1, <3>2, <1>3 DEF Unfinished
  <2>3. CASE remove_stuck(w)
    <3>1. ~WriteFaults /\ UNCHANGED dirs
      BY <2>3 DEF remove_stuck, Dependable
    <3> QED BY <3>1, <1>3 DEF WriterOK
  <2> QED BY <2>1, <2>2, <2>3
<1>6. IdleWriter.pc = "idle"
  BY DEF IdleWriter
<1>7. MutationInv'
  BY <1>2, <1>3, <1>4, <1>5, <1>6, WriterStep DEF Dependable
<1>8. t \in Unfinished(dirs) => Restored(dirs[t].journal, disk)
  BY <1>3 DEF WriterOK
<1>9. LogicalDisk' = LogicalDisk
  <2>1. Recovered(disk, dirs) = disk
    BY <1>1, <1>3, <1>8, Recovered_Restored
  <2>2. Recovered(disk', dirs') = disk'
    BY <1>1, <1>5, Recovered_None
  <2> QED BY <2>1, <2>2, <1>2 DEF LogicalDisk
<1>10. Request[w].phase \in {"working", "committed"}
  BY <1>2 DEF Request, RequestOf
<1>11. Request' = [Request EXCEPT ![w] = Project!Idle]
  BY <1>4, Request_Move, Request_Idle
<1> QED BY <1>7, <1>9, <1>10, <1>11 DEF Project!Return

(* Every step of a transaction keeps the invariant and is a step of the     *)
(* abstract project, or none.                                               *)
LEMMA Transaction_Step ==
    ASSUME Dependable, MutationInv, NEW w \in Writers, Transaction(w)
    PROVE  MutationInv' /\ (Stutter \/ Project!Next)
<1>1. TypeOK'
  BY Transaction_Type DEF MutationInv
<1>2. ~restore_fails(w)
  <2>1. SUFFICES ASSUME restore_fails(w) PROVE FALSE
    OBVIOUS
  <2>2. thr[w].pc = "restoring"
    BY <2>1 DEF restore_fails
  <2>3. dirs[thr[w].txn].data
    BY <2>2, Alone DEF WriterOK
  <2> QED BY <2>1, <2>3 DEF restore_fails, BackupReadable, Dependable
<1>3. \/ MutationInv' /\ Stutter
      \/ MutationInv' /\ (Project!Begin(w) \/ Project!Commit(w) \/ Project!Return(w))
  BY <1>1, <1>2, Stage_Step, Prepare_Step, GiveUp_Step, Commit_Step, Apply_Step, Fails_Step,
     Marker_Step, Restore_Step, RolledBack_Step, RemovePart_Step, Return_Step DEF Transaction
<1> QED BY <1>3 DEF Project!Next

----------------------------------------------------------------------------
(* Every step of open, and a crash.                                         *)

(* The steps of the recovery that touch no file.                            *)
LEMMA Scan_Step ==
    ASSUME Dependable, MutationInv, TypeOK',
           \/ open(Leftovers) \/ (\E t \in Txns : recover_directory(t))
           \/ recover_fails \/ recover_restored \/ activate
    PROVE  MutationInv' /\ Stutter
<1>1. UNCHANGED <<disk, dirs, thr>>
  BY DEF open, recover_directory, recover_fails, recover_restored, activate
<1>2. /\ \A t \in Unfinished(dirs) : dirs[t].exists
      /\ \A t, u \in Unfinished(dirs) : t = u
      /\ Unfinished(dirs) \subseteq Txns
  BY DEF MutationInv, ExistsInv, UniqueInv, Unfinished
<1>3. SUFFICES /\ RecoveryInv'
               /\ rec.pc # "idle" \/ LockFree
               /\ opened' => opened \/ Unfinished(dirs) = {}
  BY <1>1, <1>2, RecoveryStep DEF Dependable, Stutter, LogicalDisk, Request
<1> DEFINE Goal == /\ RecoveryInv' /\ (rec.pc # "idle" \/ LockFree)
                   /\ opened' => opened \/ Unfinished(dirs) = {}
<1>4. CASE open(Leftovers)
  <2>1. rec'.pc = "scanning" /\ rec'.todo = Leftovers /\ LockFree /\ opened' = opened
    BY <1>4 DEF open, RecoverAt
  <2>2. Unfinished(dirs) \subseteq Leftovers
    BY <1>2 DEF Leftovers
  <2> QED BY <2>1, <2>2, <1>1 DEF RecoveryInv
<1>5. ASSUME NEW t \in Txns, recover_directory(t)
      PROVE  Goal
  <2>1. rec.pc = "scanning" /\ opened' = opened /\ Unfinished(dirs) \subseteq rec.todo
    BY <1>5 DEF recover_directory, MutationInv, RecoveryInv
  <2>2. CASE ~dirs[t].exists /\ RecoverAt("scanning", AnyTxn, rec.todo \ {t}, NoJournal, {})
    <3>1. rec'.pc = "scanning" /\ rec'.todo = rec.todo \ {t}
      BY <2>2 DEF RecoverAt
    <3>2. Unfinished(dirs) \subseteq rec.todo \ {t}
      BY <2>1, <2>2, <1>2
    <3> QED BY <2>1, <3>1, <3>2, <1>1 DEF RecoveryInv
  <2>3. CASE Refuse
    <3>1. rec'.pc = "idle"
      BY <2>3 DEF Refuse, IdleRecovery
    <3> QED BY <2>1, <3>1 DEF RecoveryInv
  <2>4. CASE /\ dirs[t].journal.state = "committing"
             /\ RecoverAt("restoring", t, rec.todo, dirs[t].journal, {})
    <3>1. /\ rec'.pc = "restoring" /\ rec'.todo = rec.todo /\ rec'.txn = t
          /\ rec'.journal = dirs[t].journal /\ rec'.done = {}
      BY <2>4 DEF RecoverAt
    <3>2. t \in Unfinished(dirs)
      BY <2>4 DEF Unfinished
    <3> QED BY <2>1, <3>1, <3>2, <1>1 DEF RecoveryInv
  <2>5. CASE /\ dirs[t].journal.state # "committing"
             /\ RecoverAt("removing", t, rec.todo, NoJournal, {})
    <3>1. rec'.pc = "removing" /\ rec'.todo = rec.todo /\ rec'.txn = t
      BY <2>5 DEF RecoverAt
    <3>2. t \notin Unfinished(dirs)
      BY <2>5 DEF Unfinished
    <3> QED BY <2>1, <3>1, <3>2, <1>1 DEF RecoveryInv
  <2> QED BY <1>5, <2>2, <2>3, <2>4, <2>5 DEF recover_directory
<1>6. CASE recover_fails
  <2>1. rec'.pc = "idle" /\ rec.pc # "idle" /\ opened' = opened
    BY <1>6 DEF recover_fails, Refuse, IdleRecovery
  <2> QED BY <2>1 DEF RecoveryInv
<1>7. CASE recover_restored
  <2>1. /\ rec.pc = "restoring" /\ rec.done = Paths(rec.journal) /\ opened' = opened
        /\ rec'.pc = "removing" /\ rec'.todo = rec.todo /\ rec'.txn = rec.txn
    BY <1>7 DEF recover_restored, RecoverAt
  <2>2. /\ Unfinished(dirs) \subseteq rec.todo
        /\ Restored(dirs[rec.txn].journal, disk)
    BY <2>1 DEF MutationInv, RecoveryInv, Restored
  <2> QED BY <2>1, <2>2, <1>1 DEF RecoveryInv
<1>8. CASE activate
  <2>1. rec.pc = "scanning" /\ rec.todo = {} /\ rec'.pc = "idle"
    BY <1>8 DEF activate, IdleRecovery
  <2>2. Unfinished(dirs) = {}
    BY <2>1 DEF MutationInv, RecoveryInv
  <2> QED BY <2>1, <2>2 DEF RecoveryInv
<1> QED BY <1>4, <1>5, <1>6, <1>7, <1>8

(* Recovery restores files of the unfinished commit only.                   *)
LEMMA RecoverFile_Step ==
    ASSUME Dependable, MutationInv, TypeOK', NEW f \in Files, recover_file(f)
    PROVE  MutationInv' /\ Stutter
<1> DEFINE t == rec.txn
<1>1. disk \in [Files -> Value] /\ disk' \in [Files -> Value] /\ rec.journal \in Journal
  BY DEF MutationInv, TypeOK, RecoveryState
<1>2. /\ rec.pc = "restoring" /\ f \in Paths(rec.journal)
      /\ disk'[f] = rec.journal.orig[f] /\ \A g \in Files : g # f => disk'[g] = disk[g]
      /\ rec' = [pc |-> "restoring", txn |-> t, todo |-> rec.todo, journal |-> rec.journal,
                 done |-> rec.done \cup {f}]
      /\ UNCHANGED <<dirs, thr, opened>>
  BY <1>1 DEF recover_file, RecoverAt
<1>3. /\ t \in Unfinished(dirs) /\ \A u \in Unfinished(dirs) : u = t
      /\ rec.journal = dirs[t].journal /\ Unfinished(dirs) \subseteq rec.todo
      /\ \A g \in Paths(rec.journal) \cap rec.done : disk[g] = rec.journal.orig[g]
      /\ \A u \in Unfinished(dirs) : dirs[u].exists
  BY <1>2 DEF MutationInv, RecoveryInv, UniqueInv, ExistsInv
<1>4. Paths(rec.journal) \subseteq Files
  BY <1>1, Journal_Paths
<1>5. RecoveryInv'
  BY <1>2, <1>3, <1>4 DEF RecoveryInv
<1>6. MutationInv'
  BY <1>2, <1>3, <1>5, RecoveryStep DEF Dependable
<1>7. \A g \in Files \ Paths(dirs[t].journal) : disk[g] = disk'[g]
  BY <1>2, <1>3
<1>8. LogicalDisk' = LogicalDisk
  BY <1>1, <1>2, <1>3, <1>7, Recovered_Same DEF LogicalDisk
<1> QED BY <1>2, <1>6, <1>8 DEF Stutter, Request

(* Recovery removes a directory whose commit, if unfinished, is restored.   *)
LEMMA RecoverRemove_Step ==
    ASSUME Dependable, MutationInv, TypeOK', recover_remove_part \/ recover_remove_last
    PROVE  MutationInv' /\ Stutter
<1> DEFINE t == rec.txn
<1>1. /\ disk \in [Files -> Value] /\ disk' \in [Files -> Value] /\ dirs \in [Txns -> Directory]
      /\ t \in Txns
  BY DEF MutationInv, TypeOK, RecoveryState
<1>2. rec.pc = "removing" /\ UNCHANGED <<disk, thr, opened>>
  BY DEF recover_remove_part, recover_remove_last
<1>3. /\ Unfinished(dirs) \subseteq rec.todo
      /\ t \in Unfinished(dirs) => Restored(dirs[t].journal, disk)
      /\ \A u \in Unfinished(dirs) : dirs[u].exists
      /\ \A u, v \in Unfinished(dirs) : u = v
  BY <1>2 DEF MutationInv, RecoveryInv, UniqueInv, ExistsInv
<1>4. \A u \in Txns : u # t => dirs'[u] = dirs[u]
  BY <1>1, RemovePart_Type, RemoveLast_Type DEF recover_remove_part, recover_remove_last
<1>5. CASE recover_remove_part
  <2>1. rec' = rec /\ dirs'[t].exists /\ dirs'[t].journal \in {dirs[t].journal, NoJournal}
    BY <1>5, <1>1, RemovePart_Type DEF recover_remove_part
  <2>2. /\ Unfinished(dirs') \subseteq Unfinished(dirs)
        /\ t \in Unfinished(dirs') => dirs'[t].journal = dirs[t].journal
        /\ \A u \in Unfinished(dirs') : dirs'[u].exists
    BY <2>1, <1>3, <1>4, NoJournal_Type DEF Unfinished
  <2>3. RecoveryInv'
    BY <2>1, <2>2, <1>2, <1>3 DEF RecoveryInv
  <2>4. MutationInv'
    BY <2>2, <2>3, <1>2, RecoveryStep DEF Dependable
  <2>5. Recovered(disk', dirs') = Recovered(disk, dirs)
    <3>1. CASE t \in Unfinished(dirs)
      <4>1. Recovered(disk, dirs) = disk
        BY <3>1, <1>1, <1>3, Recovered_Restored
      <4>2. Recovered(disk', dirs') = disk'
        BY <3>1, <1>1, <1>2, <1>3, <2>2, Recovered_Restored
      <4> QED BY <4>1, <4>2, <1>2
    <3>2. CASE Unfinished(dirs) = {}
      <4>1. Recovered(disk, dirs) = disk /\ Recovered(disk', dirs') = disk'
        BY <3>2, <2>2, <1>1, Recovered_None
      <4> QED BY <4>1, <1>2
    <3>3. CASE t \notin Unfinished(dirs) /\ Unfinished(dirs) # {}
      <4>1. PICK u \in Unfinished(dirs) : TRUE
        BY <3>3
      <4>2. u \in Unfinished(dirs') /\ dirs'[u].journal = dirs[u].journal
        BY <4>1, <3>3, <1>4 DEF Unfinished
      <4> QED BY <4>1, <4>2, <2>2, <1>1, <1>2, <1>3, Recovered_Same
    <3> QED BY <3>1, <3>2, <3>3
  <2> QED BY <2>4, <2>5, <1>2 DEF Stutter, LogicalDisk, Request
<1>6. CASE recover_remove_last
  <2>1. /\ rec'.pc = "scanning" /\ rec'.todo = rec.todo \ {t}
        /\ dirs'[t] = NoDirectory /\ dirs[t].journal = NoJournal
    BY <1>6, <1>1, RemoveLast_Type DEF recover_remove_last, RecoverAt, RemoveLast
  <2>2. NoDirectory.journal = NoJournal
    BY DEF NoDirectory
  <2>3. /\ Unfinished(dirs') = Unfinished(dirs) /\ t \notin Unfinished(dirs)
        /\ \A u \in Unfinished(dirs') : dirs'[u].exists /\ dirs'[u].journal = dirs[u].journal
    BY <2>1, <2>2, <1>3, <1>4, NoJournal_Type DEF Unfinished
  <2>4. RecoveryInv'
    BY <2>1, <2>3, <1>3 DEF RecoveryInv
  <2>5. MutationInv'
    BY <2>3, <2>4, <1>2, RecoveryStep DEF Dependable
  <2>6. Recovered(disk', dirs') = Recovered(disk, dirs)
    <3>1. CASE Unfinished(dirs) = {}
      <4>1. Recovered(disk, dirs) = disk /\ Recovered(disk', dirs') = disk'
        BY <3>1, <2>3, <1>1, Recovered_None
      <4> QED BY <4>1, <1>2
    <3>2. CASE Unfinished(dirs) # {}
      <4>1. PICK u \in Unfinished(dirs) : TRUE
        BY <3>2
      <4> QED BY <4>1, <2>3, <1>1, <1>2, <1>3, Recovered_Same
    <3> QED BY <3>1, <3>2
  <2> QED BY <2>5, <2>6, <1>2 DEF Stutter, LogicalDisk, Request
<1> QED BY <1>5, <1>6

(* A crash loses the requests and nothing else.                             *)
LEMMA Crash_Step ==
    ASSUME MutationInv, crash
    PROVE  MutationInv' /\ Project!Stop
<1>1. TypeOK'
  BY Crash_Type DEF MutationInv
<1>2. /\ UNCHANGED <<disk, dirs>> /\ rec'.pc = "idle" /\ ~opened'
      /\ \A w \in Writers : thr'[w] = IdleWriter /\ thr'[w].pc = "idle"
  BY DEF crash, IdleRecovery, IdleWriter
<1>3. ExclusiveInv' /\ IdleInv' /\ WriterInv' /\ BusyInv' /\ RecoveryInv'
  BY <1>2 DEF ExclusiveInv, IdleInv, WriterInv, BusyInv, RecoveryInv
<1>4. UniqueInv' /\ ExistsInv'
  BY <1>2 DEF MutationInv, UniqueInv, ExistsInv
<1>5. Request' = [w \in Writers |-> Project!Idle]
  BY <1>2, Request_Idle DEF Request
<1> QED BY <1>1, <1>2, <1>3, <1>4, <1>5 DEF MutationInv, Project!Stop, LogicalDisk

----------------------------------------------------------------------------
(* The theorems.                                                            *)

(* Every step keeps the invariant and implements a step of the abstract     *)
(* project, or none.                                                        *)
LEMMA Next_Step ==
    ASSUME Dependable, MutationInv, [Next]_vars
    PROVE  MutationInv' /\ [Project!Next]_(Project!vars)
<1>1. CASE UNCHANGED vars
  <2>1. MutationInv'
    BY <1>1 DEF vars, MutationInv, TypeOK, ExclusiveInv, IdleInv, WriterInv, BusyInv, UniqueInv,
                ExistsInv, RecoveryInv
  <2> QED BY <2>1, <1>1 DEF vars, Project!vars, LogicalDisk, Request
<1>2. ASSUME NEW w \in Writers, Transaction(w)
      PROVE  MutationInv' /\ [Project!Next]_(Project!vars)
  BY <1>2, Transaction_Step DEF Stutter, Project!vars
<1>3. CASE Recovery
  <2>1. TypeOK'
    BY <1>3, Recovery_Type DEF MutationInv
  <2>2. MutationInv' /\ Stutter
    BY <1>3, <2>1, Scan_Step, RecoverFile_Step, RecoverRemove_Step DEF Recovery
  <2> QED BY <2>2 DEF Stutter, Project!vars
<1>4. CASE crash
  BY <1>4, Crash_Step DEF Project!Next
<1> QED BY <1>1, <1>2, <1>3, <1>4 DEF Next

(* The initial states satisfy the invariant and are initial states of the   *)
(* abstract project.                                                        *)
LEMMA Init_Step ==
    ASSUME Init
    PROVE  MutationInv /\ Project!Init
<1>1. /\ thr \in [Writers -> Writer] /\ rec \in RecoveryState /\ dirs \in [Txns -> Directory]
      /\ disk \in [Files -> Value]
  BY Idle_Type DEF Init
<1>2. crashes \in 0..MaxCrashes
  BY MutationAssumption DEF Init
<1>3. TypeOK
  BY <1>1, <1>2 DEF Init, TypeOK
<1>4. /\ rec.pc = "idle" /\ \A w \in Writers : thr[w] = IdleWriter /\ thr[w].pc = "idle"
      /\ Unfinished(dirs) = {}
  BY NoJournal_Type DEF Init, IdleRecovery, IdleWriter, Unfinished, NoDirectory
<1>5. MutationInv
  BY <1>3, <1>4 DEF MutationInv, ExclusiveInv, IdleInv, WriterInv, BusyInv, UniqueInv, ExistsInv,
                    RecoveryInv
<1>6. LogicalDisk = disk
  BY <1>1, <1>4, Recovered_None DEF LogicalDisk
<1>7. Request = [w \in Writers |-> Project!Idle]
  BY <1>4, Request_Idle DEF Request
<1> QED BY <1>1, <1>5, <1>6, <1>7 DEF Project!Init, Project!Value, Value

(* When every writer takes the workspace lock, a backup can be written back *)
(* and no file resists both replacement and removal, the journal, the files *)
(* and the running code agree at every point of every transaction, rollback *)
(* and recovery.                                                            *)
THEOREM JournalInvariant ==
    ASSUME Dependable
    PROVE  Spec => []MutationInv
<1>1. Init => MutationInv
  BY Init_Step
<1>2. MutationInv /\ [Next]_vars => MutationInv'
  BY Next_Step
<1> QED BY <1>1, <1>2, PTL DEF Spec

(* Under the same conditions project mutations are atomic: whatever write   *)
(* fails and wherever the process stops, the files move from one whole      *)
(* version to the next when a commit marker is written, and never otherwise.*)
THEOREM AtomicUpdates ==
    ASSUME Dependable
    PROVE  Spec => Atomic
<1>1. Init => Project!Init
  BY Init_Step
<1>2. MutationInv /\ [Next]_vars => [Project!Next]_(Project!vars)
  BY Next_Step
<1> QED BY <1>1, <1>2, JournalInvariant, PTL DEF Spec, Atomic, Project!Spec

(* Under the same conditions a project that is open and has no transaction  *)
(* in progress shows a whole version.                                       *)
THEOREM WholeVersions ==
    ASSUME Dependable
    PROVE  Spec => []WholeWhenIdle
<1>1. MutationInv => WholeWhenIdle
  <2>1. SUFFICES ASSUME MutationInv, opened, \A w \in Writers : thr[w].pc = "idle"
                 PROVE  disk = LogicalDisk
    BY DEF WholeWhenIdle
  <2>2. Unfinished(dirs) = {} /\ disk \in [Files -> Value]
    BY <2>1 DEF MutationInv, BusyInv, TypeOK
  <2> QED BY <2>2, Recovered_None DEF LogicalDisk
<1> QED BY <1>1, JournalInvariant, PTL

----------------------------------------------------------------------------
(* The commit marker, under every combination of faults and for writers    *)
(* that take no lock.                                                      *)

\* A transaction writes its journal while it stands here.
WritesJournal == {"staging", "prepared", "applying", "restoring"}

\* A directory has one writer, and none that would still write the journal once
\* it says committed.
MarkerInv ==
    /\ \A v, w \in Writers :
          thr[v].pc # "idle" /\ thr[w].pc # "idle" /\ thr[v].txn = thr[w].txn => v = w
    /\ \A w \in Writers :
          thr[w].pc \in WritesJournal => dirs[thr[w].txn].journal.state # "committed"

\* While a project is being opened no writer that takes the lock is at work, and what
\* a recovery restores is not committed.
RecoveryAlone ==
    /\ rec.pc # "idle" => \A w \in Writers \ Unlocked : thr[w].pc = "idle"
    /\ Unlocked = {} /\ rec.pc = "restoring" => dirs[rec.txn].journal.state # "committed"

\* What MarkerIsFinal says of a step's journals.
MarkerKept ==
    \A t \in Txns : dirs[t].journal.state = "committed" =>
        dirs'[t].journal.state \in {"committed", "missing"}

(* A writer changes its own directory only, and takes a committed journal   *)
(* away at most.                                                            *)
LEMMA MarkerOwn ==
    ASSUME TypeOK, MarkerInv, NEW w \in Writers, thr[w].pc # "idle",
           \A x \in Writers : x # w => thr'[x] = thr[x],
           thr'[w].pc = "idle" \/ thr'[w].txn = thr[w].txn,
           \A u \in Txns : u # thr[w].txn => dirs'[u] = dirs[u],
           thr'[w].pc \in WritesJournal => dirs'[thr[w].txn].journal.state # "committed",
           thr[w].pc \in WritesJournal \/ dirs'[thr[w].txn].journal \in {dirs[thr[w].txn].journal, NoJournal}
    PROVE  MarkerInv' /\ MarkerKept
<1>1. \A x \in Writers : thr[x].txn \in Txns
  BY DEF TypeOK, Writer
<1>2. "idle" \notin WritesJournal
  BY DEF WritesJournal
<1>3. ASSUME NEW v \in Writers, NEW x \in Writers,
             thr'[v].pc # "idle", thr'[x].pc # "idle", thr'[v].txn = thr'[x].txn
      PROVE  v = x
  BY <1>3 DEF MarkerInv
<1>4. ASSUME NEW x \in Writers, thr'[x].pc \in WritesJournal
      PROVE  dirs'[thr'[x].txn].journal.state # "committed"
  <2>1. CASE x = w
    BY <1>2, <1>4, <2>1
  <2>2. CASE x # w
    <3>1. thr'[x] = thr[x] /\ thr[x].txn # thr[w].txn
      BY <1>2, <1>4, <2>2 DEF MarkerInv
    <3> QED BY <1>1, <1>4, <3>1 DEF MarkerInv
  <2> QED BY <2>1, <2>2
<1>5. MarkerKept
  BY DEF MarkerInv, MarkerKept, NoJournal
<1> QED BY <1>3, <1>4, <1>5 DEF MarkerInv

(* Staging takes a directory nobody works on.                               *)
LEMMA MarkerStage ==
    ASSUME TypeOK, MarkerInv, NEW w \in Writers, NEW t \in Txns, NEW change \in Changes,
           stage(w, t, change)
    PROVE  MarkerInv' /\ MarkerKept
<1>1. /\ \A x \in Writers : x # w => thr'[x] = thr[x]
      /\ thr'[w].txn = t
      /\ \A u \in Txns : u # t => dirs'[u] = dirs[u]
      /\ dirs'[t].journal = NoJournal
      /\ \A x \in Writers : thr[x].pc # "idle" => thr[x].txn # t
  BY DEF stage, Fresh, TypeOK
<1>2. \A x \in Writers : thr[x].txn \in Txns
  BY DEF TypeOK, Writer
<1>3. "idle" \notin WritesJournal
  BY DEF WritesJournal
<1>4. NoJournal.state = "missing"
  BY DEF NoJournal
<1>5. ASSUME NEW v \in Writers, NEW x \in Writers,
             thr'[v].pc # "idle", thr'[x].pc # "idle", thr'[v].txn = thr'[x].txn
      PROVE  v = x
  BY <1>1, <1>5 DEF MarkerInv
<1>6. ASSUME NEW x \in Writers, thr'[x].pc \in WritesJournal
      PROVE  dirs'[thr'[x].txn].journal.state # "committed"
  <2>1. CASE x = w
    BY <1>1, <1>4, <2>1
  <2>2. CASE x # w
    BY <1>1, <1>2, <1>3, <1>6, <2>2 DEF MarkerInv
  <2> QED BY <2>1, <2>2
<1>7. MarkerKept
  BY <1>1, <1>4 DEF MarkerKept
<1> QED BY <1>5, <1>6, <1>7 DEF MarkerInv

(* So do the other steps of a transaction.                                  *)
LEMMA MarkerTransaction ==
    ASSUME TypeOK, MarkerInv, NEW w \in Writers, Transaction(w)
    PROVE  MarkerInv' /\ MarkerKept
<1>0. /\ thr \in [Writers -> Writer] /\ dirs \in [Txns -> Directory]
      /\ thr[w].txn \in Txns /\ thr[w].journal \in Journal
  BY DEF TypeOK, Writer
<1>w. WriterPC = {"idle", "staging", "prepared", "applying", "restoring", "removing"}
  BY DEF WriterPC
<1>1. ASSUME NEW pc \in WriterPC, NEW st \in JournalState,
             Goto(w, pc, [thr[w].journal EXCEPT !.state = st])
      PROVE  thr'[w].pc = pc /\ thr'[w].txn = thr[w].txn /\ \A x \in Writers : x # w => thr'[x] = thr[x]
  BY <1>0, <1>1 DEF Goto
<1>2. ASSUME NEW pc \in WriterPC, Goto(w, pc, thr[w].journal)
      PROVE  thr'[w].pc = pc /\ thr'[w].txn = thr[w].txn /\ \A x \in Writers : x # w => thr'[x] = thr[x]
  BY <1>0, <1>2 DEF Goto
<1>3. ASSUME NEW st \in JournalState,
             dirs' = WithJournal(thr[w].txn, [thr[w].journal EXCEPT !.state = st])
      PROVE  /\ dirs'[thr[w].txn].journal.state = st
             /\ \A u \in Txns : u # thr[w].txn => dirs'[u] = dirs[u]
  <2>1. [thr[w].journal EXCEPT !.state = st].state = st
    BY <1>0 DEF Journal
  <2> QED BY <1>0, <1>3, <2>1 DEF WithJournal
<1>4. ASSUME Finish(w)
      PROVE  thr'[w].pc = "idle" /\ \A x \in Writers : x # w => thr'[x] = thr[x]
  BY <1>0, <1>4, Finish_Type DEF IdleWriter
<1>n. {"prepared", "committing", "committed", "rolled_back"} \subseteq JournalState
  BY DEF JournalState
<1> USE DEF WritesJournal
<1>5. CASE \E t \in Txns, change \in Changes : stage(w, t, change)
  BY <1>5, MarkerStage
<1>6. CASE prepare(w) \/ commit(w)
  <2>1. PICK st \in {"prepared", "committing"}, pc \in {"prepared", "applying"} :
          /\ Goto(w, pc, [thr[w].journal EXCEPT !.state = st])
          /\ dirs' = WithJournal(thr[w].txn, [thr[w].journal EXCEPT !.state = st])
    BY <1>6 DEF prepare, commit
  <2>2. thr[w].pc \in {"staging", "prepared"}
    BY <1>6 DEF prepare, commit
  <2>3. thr'[w].pc = pc /\ thr'[w].txn = thr[w].txn /\ \A x \in Writers : x # w => thr'[x] = thr[x]
    BY <1>1, <1>n, <1>w, <2>1
  <2>4. /\ dirs'[thr[w].txn].journal.state = st
        /\ \A u \in Txns : u # thr[w].txn => dirs'[u] = dirs[u]
    BY <1>3, <1>n, <2>1
  <2> QED BY <2>2, <2>3, <2>4, MarkerOwn
<1>7. CASE write_marker(w)
  <2>1. thr'[w].pc = "removing" /\ thr'[w].txn = thr[w].txn /\ \A x \in Writers : x # w => thr'[x] = thr[x]
    BY <1>1, <1>7, <1>n, <1>w DEF write_marker
  <2>2. \A u \in Txns : u # thr[w].txn => dirs'[u] = dirs[u]
    BY <1>3, <1>7, <1>n DEF write_marker
  <2> QED BY <1>7, <2>1, <2>2, MarkerOwn DEF write_marker
<1>8. CASE rolled_back(w)
  <2>1. thr'[w].pc = "removing" /\ thr'[w].txn = thr[w].txn /\ \A x \in Writers : x # w => thr'[x] = thr[x]
    BY <1>1, <1>8, <1>n, <1>w DEF rolled_back
  <2>2. \A u \in Txns : u # thr[w].txn => dirs'[u] = dirs[u]
    BY <1>3, <1>8, <1>n DEF rolled_back
  <2> QED BY <1>8, <2>1, <2>2, MarkerOwn DEF rolled_back
<1>9. CASE marker_fails(w)
  <2>1. thr'[w].pc = "restoring" /\ thr'[w].txn = thr[w].txn /\ \A x \in Writers : x # w => thr'[x] = thr[x]
    BY <1>1, <1>9, <1>n, <1>w DEF marker_fails
  <2>2. thr[w].pc = "applying" /\ dirs' = dirs /\ dirs[thr[w].txn].journal.state # "committed"
    BY <1>9 DEF marker_fails, MarkerInv
  <2> QED BY <2>1, <2>2, MarkerOwn
<1>10. CASE stage_fails(w) \/ commit_refused(w) \/ apply_fails(w) \/ restore_fails(w)
            \/ commit_not_started(w) \/ remove_stuck(w)
  <2>1. thr[w].pc # "idle" /\ dirs' = dirs
    BY <1>10 DEF stage_fails, commit_refused, apply_fails, restore_fails, commit_not_started, remove_stuck
  <2>2. CASE Finish(w)
    BY <1>4, <2>1, <2>2, MarkerOwn
  <2>3. CASE \E pc \in {"removing", "restoring"} :
               Goto(w, pc, thr[w].journal) /\ (pc = "restoring" => thr[w].pc = "applying")
    <3>1. PICK pc \in {"removing", "restoring"} :
            Goto(w, pc, thr[w].journal) /\ (pc = "restoring" => thr[w].pc = "applying")
      BY <2>3
    <3>2. thr'[w].pc = pc /\ thr'[w].txn = thr[w].txn /\ \A x \in Writers : x # w => thr'[x] = thr[x]
      BY <1>2, <1>w, <3>1
    <3>3. pc = "restoring" => dirs[thr[w].txn].journal.state # "committed"
      BY <3>1 DEF MarkerInv
    <3> QED BY <2>1, <3>2, <3>3, MarkerOwn
  <2> QED BY <1>10, <2>2, <2>3 DEF stage_fails, commit_refused, apply_fails, restore_fails,
                                   commit_not_started, remove_stuck
<1>11. ASSUME NEW f \in Files, apply_file(w, f) \/ restore_file(w, f) PROVE MarkerInv' /\ MarkerKept
  <2>1. thr[w].pc \in {"applying", "restoring"} /\ dirs' = dirs /\ Done(w, f)
    BY <1>11 DEF apply_file, restore_file
  <2>2. thr'[w].pc = thr[w].pc /\ thr'[w].txn = thr[w].txn /\ \A x \in Writers : x # w => thr'[x] = thr[x]
    <3>1. thr'[w] = [pc |-> thr[w].pc, txn |-> thr[w].txn, journal |-> thr[w].journal,
                     done |-> thr[w].done \cup {f}]
      BY <1>0, <2>1, Done_Type
    <3>2. \A x \in Writers : x # w => thr'[x] = thr[x]
      BY <1>0, <2>1, Done_Type
    <3> QED BY <3>1, <3>2
  <2>3. dirs[thr[w].txn].journal.state # "committed"
    BY <2>1 DEF MarkerInv
  <2> QED BY <2>1, <2>2, <2>3, MarkerOwn
<1>12. CASE remove_part(w)
  <2>1. thr[w].pc = "removing" /\ thr' = thr /\ RemovePart(thr[w].txn)
    BY <1>12 DEF remove_part
  <2>2. /\ dirs'[thr[w].txn].journal \in {dirs[thr[w].txn].journal, NoJournal}
        /\ \A u \in Txns : u # thr[w].txn => dirs'[u] = dirs[u]
    BY <1>0, <2>1, RemovePart_Type
  <2> QED BY <2>1, <2>2, MarkerOwn
<1>13. CASE remove_last(w)
  <2>1. thr[w].pc = "removing" /\ Finish(w) /\ RemoveLast(thr[w].txn)
    BY <1>13 DEF remove_last
  <2>2. /\ dirs'[thr[w].txn].journal = NoJournal
        /\ \A u \in Txns : u # thr[w].txn => dirs'[u] = dirs[u]
    BY <1>0, <2>1, RemoveLast_Type DEF NoDirectory
  <2> QED BY <1>4, <2>1, <2>2, MarkerOwn
<1> QED BY <1>5, <1>6, <1>7, <1>8, <1>9, <1>10, <1>11, <1>12, <1>13 DEF Transaction

(* The recovery writes no journal, it removes directories.                  *)
LEMMA MarkerRecovery ==
    ASSUME TypeOK, MarkerInv, Recovery
    PROVE  MarkerInv' /\ MarkerKept
<1>0. thr' = thr /\ dirs \in [Txns -> Directory] /\ rec.txn \in Txns
  BY DEF TypeOK, RecoveryState, Recovery, open, recover_directory, recover_file, recover_fails,
         recover_restored, recover_remove_part, recover_remove_last, activate
<1>1. \A t \in Txns : dirs'[t].journal \in {dirs[t].journal, NoJournal}
  <2>1. CASE recover_remove_part
    BY <1>0, <2>1, RemovePart_Type DEF recover_remove_part
  <2>2. CASE recover_remove_last
    BY <1>0, <2>2, RemoveLast_Type DEF recover_remove_last, NoDirectory
  <2>3. CASE dirs' = dirs
    BY <2>3
  <2> QED BY <2>1, <2>2, <2>3 DEF Recovery, open, recover_directory, recover_file, recover_fails,
                                  recover_restored, activate
<1>2. NoJournal.state = "missing"
  BY DEF NoJournal
<1>3. \A w \in Writers : thr[w].txn \in Txns
  BY DEF TypeOK, Writer
<1> QED BY <1>0, <1>1, <1>2, <1>3 DEF MarkerInv, MarkerKept

(* A crash forgets the writers.                                             *)
LEMMA MarkerNext == ASSUME TypeOK, MarkerInv, [Next]_vars PROVE MarkerInv' /\ MarkerKept
<1>1. CASE crash
  <2>1. dirs' = dirs /\ \A w \in Writers : thr'[w].pc = "idle"
    BY <1>1 DEF crash, IdleWriter
  <2> QED BY <2>1 DEF MarkerInv, MarkerKept, WritesJournal
<1>2. CASE UNCHANGED vars
  BY <1>2 DEF vars, MarkerInv, MarkerKept
<1> QED BY <1>1, <1>2, MarkerTransaction, MarkerRecovery DEF Next

(* The lock keeps writers away from a recovery and the other way round.     *)
LEMMA AloneNext == ASSUME TypeOK, RecoveryAlone, [Next]_vars PROVE RecoveryAlone'
<1>1. ASSUME NEW w \in Writers, Transaction(w) PROVE RecoveryAlone'
  <2>1. rec' = rec /\ \A x \in Writers : x # w => thr'[x] = thr[x]
    BY <1>1 DEF TypeOK, Transaction, stage, prepare, stage_fails, commit, commit_refused,
       commit_not_started, apply_file, apply_fails, write_marker, marker_fails, restore_file,
       restore_fails, rolled_back, remove_part, remove_last, remove_stuck, Goto, Done, Finish
  <2>2. thr[w].pc # "idle" \/ w \in Unlocked \/ rec.pc = "idle"
    BY <1>1 DEF Transaction, stage, LockFree, prepare, stage_fails, commit, commit_refused,
       commit_not_started, apply_file, apply_fails, write_marker, marker_fails, restore_file,
       restore_fails, rolled_back, remove_part, remove_last, remove_stuck
  <2>3. rec.pc = "idle" \/ w \in Unlocked
    BY <2>2 DEF RecoveryAlone
  <2> QED BY <2>1, <2>3 DEF RecoveryAlone
<1>2. CASE Recovery
  <2>1. thr' = thr
    BY <1>2 DEF Recovery, open, recover_directory, recover_file, recover_fails, recover_restored,
       recover_remove_part, recover_remove_last, activate
  <2>2. CASE open(Leftovers)
    BY <2>1, <2>2 DEF open, LockFree, RecoverAt, RecoveryAlone
  <2>3. CASE \E t \in Txns : recover_directory(t)
    <3>1. PICK t \in Txns : recover_directory(t)
      BY <2>3
    <3>2. rec.pc # "idle" /\ dirs' = dirs
      BY <3>1 DEF recover_directory
    <3>3. rec'.pc = "restoring" => rec'.txn = t /\ dirs[t].journal.state = "committing"
      BY <3>1 DEF recover_directory, RecoverAt, Refuse, IdleRecovery
    <3> QED BY <2>1, <3>2, <3>3 DEF RecoveryAlone
  <2>4. CASE \E f \in Files : recover_file(f)
    BY <2>1, <2>4 DEF recover_file, RecoverAt, RecoveryAlone
  <2>5. CASE recover_fails \/ activate
    BY <2>1, <2>5 DEF recover_fails, activate, Refuse, IdleRecovery, RecoveryAlone
  <2>6. CASE recover_restored \/ recover_remove_part \/ recover_remove_last
    BY <2>1, <2>6 DEF recover_restored, recover_remove_part, recover_remove_last, RecoverAt, RecoveryAlone
  <2> QED BY <1>2, <2>2, <2>3, <2>4, <2>5, <2>6 DEF Recovery
<1>3. CASE crash
  BY <1>3 DEF crash, IdleRecovery, RecoveryAlone
<1>4. CASE UNCHANGED vars
  BY <1>4 DEF vars, RecoveryAlone
<1> QED BY <1>1, <1>2, <1>3, <1>4 DEF Next

(* Nothing takes a committed transaction back: mutation.py writes no other  *)
(* journal after the marker and restores nothing, whatever fails, and a     *)
(* recovery does not while every writer takes the workspace lock.           *)
THEOREM MarkersStay == Spec => MarkerIsFinal
<1>1. Init => MarkerInv /\ RecoveryAlone
  BY DEF Init, MarkerInv, IdleWriter, WritesJournal, RecoveryAlone, IdleRecovery
<1>2. TypeOK /\ MarkerInv /\ RecoveryAlone /\ [Next]_vars => MarkerInv' /\ RecoveryAlone'
  BY MarkerNext, AloneNext
<1>3. Spec => [](MarkerInv /\ RecoveryAlone)
  BY <1>1, <1>2, MutationTypes, PTL DEF Spec
<1> DEFINE Final == \A t \in Txns : dirs[t].journal.state = "committed" =>
                       dirs'[t].journal.state \in {"committed", "missing"} /\ ~TakenBack(t)
<1>4. TypeOK /\ MarkerInv /\ RecoveryAlone /\ [Next]_vars => [Final]_vars
  <2> SUFFICES ASSUME TypeOK, MarkerInv, RecoveryAlone, [Next]_vars PROVE Final
    OBVIOUS
  <2>1. MarkerKept
    BY MarkerNext
  <2>2. \A t \in Txns : dirs[t].journal.state = "committed" => ~TakenBack(t)
    BY DEF TakenBack, MarkerInv, RecoveryAlone, WritesJournal
  <2> QED BY <2>1, <2>2 DEF MarkerKept
<1>5. [][Final]_vars => MarkerIsFinal
  BY PTL DEF MarkerIsFinal
<1> QED BY <1>3, <1>4, <1>5, MutationTypes, PTL DEF Spec

-----------------------------------------------------------------------------
(* The triggers of an open project.                                        *)

ThreadStates ==
    {"off", "waiting", "reading", "replacing", "scanning", "listening", "called", "planning",
     "planned", "started"}
Projects == {"none", "own", "other"}
Kinds == {"global_hotkey", "filesystem", "none"}

RuntimeType ==
    [stop : BOOLEAN, active : 0..MaxTriggered, queued : BOOLEAN, recent : BOOLEAN, cooling : BOOLEAN,
     kind : Kinds, seen : Nat, host : 0..MaxHosts]
ThreadType ==
    [at : ThreadStates, back : {"off", "listening", "reading", "waiting"}, run : 0..MaxTriggered,
     holds : BOOLEAN, quit : BOOLEAN]

TriggerTypes ==
    /\ triggerConf \in [kind : Kinds, rev : Nat]
    /\ policy \in {"skip_if_running", "queue_one"}
    /\ opening \in 0..MaxOpens
    /\ projectOf \in [Openings -> Projects]
    /\ opener \in Projects
    /\ triggerRt \in [Openings -> RuntimeType]
    /\ triggerThr \in [TriggerThreads -> ThreadType]
    /\ triggered \in [1..MaxTriggered -> [of : 0..MaxOpens, live : BOOLEAN]]

\* The same project is being opened again: its generation has changed already.
Reopening == opener # "none" /\ opening # 0 /\ projectOf[opening] = opener

\* The threads that exist are those of an opened project, up to its current host.
ThreadsExist ==
    /\ \A g \in Openings : opening < g => projectOf[g] = "none"
    /\ \A t \in TriggerThreads :
          \/ triggerRt[t[1]].host < t[2]
          \/ projectOf[t[1]] # "own"
          \/ Reopening /\ t[1] = opening
          => triggerThr[t].at = "off"
    /\ \A g \in Openings : triggerThr[<<g, Loop>>].at = "replacing" => triggerRt[g].host < MaxHosts
    /\ Reopening => opening - 1 \in Openings /\ projectOf[opening - 1] = opener
    /\ opener # "none" /\ ~Reopening => opening + 1 \in Openings

(* A thread is a generation and a number.                                  *)
LEMMA ThreadIsPair ==
    /\ \A t \in TriggerThreads : t = <<t[1], t[2]>> /\ t[1] \in Openings /\ t[2] \in 0..MaxHosts
    /\ \A g \in Openings : \A n \in 0..MaxHosts : <<g, n>> \in TriggerThreads
    /\ \A g \in Openings : <<g, Loop>> \in TriggerThreads
    /\ MaxHosts \in Nat /\ MaxOpens \in Nat /\ MaxTriggered \in Nat
    /\ Openings = 1..MaxOpens
  BY TriggerAssumption DEF TriggerThreads, Openings, Loop

(* A thread that goes on keeps its type.                                   *)
LEMMA ThreadTyped ==
    ASSUME NEW f \in [TriggerThreads -> ThreadType], NEW t \in TriggerThreads, NEW x \in ThreadType
    PROVE  [f EXCEPT ![t] = x] \in [TriggerThreads -> ThreadType]
  OBVIOUS

\* Every thread but one is where it was.
Moved(t, at) ==
    /\ triggerThr' \in [TriggerThreads -> ThreadType]
    /\ triggerThr'[t].at = at
    /\ \A u \in TriggerThreads :
          u # t => triggerThr'[u].at = triggerThr[u].at /\ triggerThr'[u].run = triggerThr[u].run

(* A thread goes on, or comes back to what it was doing.                   *)
LEMMA ThreadMoves ==
    ASSUME TriggerTypes, NEW t \in TriggerThreads
    PROVE  /\ \A at \in ThreadStates : Goes(t, at) => Moved(t, at)
           /\ Returns(t) => Moved(t, triggerThr[t].back)
<1>1. triggerThr \in [TriggerThreads -> ThreadType] /\ triggerThr[t] \in ThreadType
  BY DEF TriggerTypes
<1>2. ASSUME NEW at \in ThreadStates, Goes(t, at) PROVE Moved(t, at)
  <2>1. PICK z : z = [triggerThr[t] EXCEPT !.at = at]
    OBVIOUS
  <2>2. z \in ThreadType /\ z.at = at
    BY <1>1, <2>1 DEF ThreadType
  <2>3. triggerThr' = [triggerThr EXCEPT ![t] = z]
    BY <1>2, <2>1 DEF Goes
  <2> QED
    BY <1>1, <2>2, <2>3 DEF Moved
<1>3. ASSUME Returns(t) PROVE Moved(t, triggerThr[t].back)
  <2>1. PICK z : z = [triggerThr[t] EXCEPT !.at = triggerThr[t].back, !.run = NoTriggered]
    OBVIOUS
  <2>2. z \in ThreadType /\ z.at = triggerThr[t].back
    <3>1. triggerThr[t].back \in ThreadStates /\ NoTriggered \in 0..MaxTriggered
      BY <1>1, TriggerAssumption DEF ThreadType, ThreadStates, NoTriggered
    <3> QED
      BY <1>1, <2>1, <3>1 DEF ThreadType
  <2>3. triggerThr' = [triggerThr EXCEPT ![t] = z]
    BY <1>3, <2>1 DEF Returns
  <2> QED
    BY <1>1, <2>2, <2>3 DEF Moved
<1> QED
  BY <1>2, <1>3

(* The types hold at first.                                                *)
LEMMA TypesInit == ASSUME TriggerInit PROVE TriggerTypes
<1> USE TriggerAssumption
<1>1. triggerRt \in [Openings -> RuntimeType]
  <2>1. NewRuntime \in RuntimeType
    BY DEF NewRuntime, RuntimeType, NoTriggered, Kinds
  <2> QED
    BY <2>1 DEF TriggerInit
<1>2. triggerThr \in [TriggerThreads -> ThreadType]
  <2>1. Off \in ThreadType
    BY DEF Off, ThreadType, NoTriggered, ThreadStates
  <2> QED
    BY <2>1 DEF TriggerInit
<1>3. triggered \in [1..MaxTriggered -> [of : 0..MaxOpens, live : BOOLEAN]]
  BY DEF TriggerInit
<1>4. /\ triggerConf \in [kind : Kinds, rev : Nat] /\ projectOf \in [Openings -> Projects]
      /\ opening \in 0..MaxOpens /\ opener \in Projects /\ policy \in {"skip_if_running", "queue_one"}
  BY DEF TriggerInit, Kinds, Projects
<1> QED
  BY <1>1, <1>2, <1>3, <1>4 DEF TriggerTypes

(* The fields of a runtime that a decision or a poll may set.              *)
LEMMA RuntimeFlags ==
    ASSUME NEW rt \in RuntimeType, NEW b \in BOOLEAN
    PROVE  /\ [rt EXCEPT !.queued = b] \in RuntimeType /\ [rt EXCEPT !.recent = b] \in RuntimeType
           /\ [rt EXCEPT !.queued = b].host = rt.host /\ [rt EXCEPT !.recent = b].host = rt.host
           /\ [rt EXCEPT !.queued = b].active = rt.active /\ [rt EXCEPT !.recent = b].active = rt.active
  BY DEF RuntimeType

(* The run that a runtime remembers.                                       *)
LEMMA RuntimeActive ==
    ASSUME NEW rt \in RuntimeType, NEW n \in 0..MaxTriggered
    PROVE  [rt EXCEPT !.active = n] \in RuntimeType /\ [rt EXCEPT !.active = n].host = rt.host
  BY DEF RuntimeType

(* What a thread that decides leaves.                                      *)
LEMMA Decides ==
    ASSUME TriggerTypes, NEW t \in TriggerThreads, decide(t)
    PROVE  /\ TriggerTypes'
           /\ triggerThr[t].at = "called"
           /\ \/ Moved(t, triggerThr[t].back) /\ ~Decision(triggerRt[t[1]]).start
              \/ Moved(t, "planning") /\ Decision(triggerRt[t[1]]).start
           /\ \A g \in Openings : g # t[1] => triggerRt'[g] = triggerRt[g]
           /\ triggerRt'[t[1]] = Decision(triggerRt[t[1]]).rt
<1>1. t[1] \in Openings /\ triggerRt[t[1]] \in RuntimeType /\ triggerThr[t].at = "called"
  BY ThreadIsPair DEF TriggerTypes, decide
<1>2. PICK rt : rt = triggerRt[t[1]] /\ rt \in RuntimeType
  BY <1>1
<1>3. Decision(rt).rt \in RuntimeType
  <2>1. ActiveNow(rt) \in 0..MaxTriggered
    BY <1>2, TriggerAssumption DEF ActiveNow, NoTriggered, RuntimeType
  <2>2. PICK one : one = [rt EXCEPT !.recent = TRUE]
    OBVIOUS
  <2>3. PICK two : two = [one EXCEPT !.active = ActiveNow(rt)]
    OBVIOUS
  <2>4. PICK last : last = [two EXCEPT !.queued = @ \/ policy = "queue_one"]
    OBVIOUS
  <2>5. one \in RuntimeType
    BY <1>2, <2>2, RuntimeFlags
  <2>6. two \in RuntimeType
    BY <2>1, <2>3, <2>5, RuntimeActive
  <2>7. two.queued \in BOOLEAN
    BY <2>6 DEF RuntimeType
  <2>8. last \in RuntimeType
    BY <2>4, <2>6, <2>7, RuntimeFlags
  <2>9. two = [rt EXCEPT !.recent = TRUE, !.active = ActiveNow(rt)]
    BY <2>2, <2>3
  <2>10. Decision(rt).rt \in {rt, two, last}
    BY <2>4, <2>9 DEF Decision
  <2> QED
    BY <1>2, <2>6, <2>8, <2>10
<1>4. triggerRt' = [triggerRt EXCEPT ![t[1]] = Decision(rt).rt]
  BY <1>2 DEF decide
<1>5. triggerRt' \in [Openings -> RuntimeType]
  BY <1>1, <1>3, <1>4 DEF TriggerTypes
<1>6. \/ Moved(t, triggerThr[t].back) /\ ~Decision(rt).start
      \/ Moved(t, "planning") /\ Decision(rt).start
  BY <1>2, ThreadMoves DEF decide, ThreadStates
<1>7. TriggerTypes'
  BY <1>5, <1>6 DEF decide, TriggerTypes, Moved
<1> QED
  BY <1>1, <1>2, <1>4, <1>6, <1>7 DEF TriggerTypes

(* What a thread that starts a run leaves.                                 *)
LEMMA StartsRun ==
    ASSUME TriggerTypes, NEW t \in TriggerThreads, start_run(t)
    PROVE  /\ TriggerTypes'
           /\ triggerThr[t].at = "planned"
           /\ \/ Moved(t, triggerThr[t].back) /\ UNCHANGED triggered
              \/ /\ Moved(t, "started")
                 /\ triggered[triggerThr'[t].run].of = 0
                 /\ triggerThr'[t].run \in 1..MaxTriggered
                 /\ triggered' = [triggered EXCEPT ![triggerThr'[t].run] = [of |-> t[1], live |-> TRUE]]
<1>1. t[1] \in Openings /\ t[1] \in 0..MaxOpens /\ triggerThr[t] \in ThreadType
  BY ThreadIsPair DEF TriggerTypes
<1>2. CASE Returns(t) /\ UNCHANGED triggered
  BY <1>2, ThreadMoves DEF start_run, TriggerTypes, Moved
<1>3. CASE ~(Returns(t) /\ UNCHANGED triggered)
  <2>1. PICK r \in DOMAIN triggered :
             /\ triggered[r].of = 0
             /\ triggered' = [triggered EXCEPT ![r] = [of |-> t[1], live |-> TRUE]]
             /\ triggerThr' = [triggerThr EXCEPT ![t].at = "started", ![t].run = r]
    BY <1>3 DEF start_run
  <2>2. r \in 1..MaxTriggered /\ r \in 0..MaxTriggered
    BY <2>1, TriggerAssumption DEF TriggerTypes
  <2>3. PICK z : z = [triggerThr[t] EXCEPT !.at = "started", !.run = r]
    OBVIOUS
  <2>4. z \in ThreadType /\ z.at = "started" /\ z.run = r
    BY <1>1, <2>2, <2>3 DEF ThreadType, ThreadStates
  <2>5. triggerThr' = [triggerThr EXCEPT ![t] = z]
    BY <2>1, <2>3
  <2>6. Moved(t, "started") /\ triggerThr'[t].run = r
    BY <2>4, <2>5 DEF Moved, TriggerTypes
  <2>7. triggered' \in [1..MaxTriggered -> [of : 0..MaxOpens, live : BOOLEAN]]
    BY <1>1, <2>1, <2>2 DEF TriggerTypes
  <2>8. TriggerTypes'
    BY <2>6, <2>7 DEF start_run, TriggerTypes, Moved
  <2> QED
    BY <2>1, <2>2, <2>6, <2>8 DEF start_run
<1> QED
  BY <1>2, <1>3 DEF start_run

(* What a thread that remembers its run leaves.                            *)
LEMMA Remembers ==
    ASSUME TriggerTypes, NEW t \in TriggerThreads, remember(t)
    PROVE  /\ TriggerTypes'
           /\ triggerThr[t].at = "started"
           /\ Moved(t, triggerThr[t].back)
           /\ \A g \in Openings : g # t[1] => triggerRt'[g] = triggerRt[g]
           /\ triggerRt'[t[1]].active = triggerThr[t].run
           /\ triggerRt'[t[1]].host = triggerRt[t[1]].host
           /\ triggerRt'[t[1]].queued = triggerRt[t[1]].queued
<1>1. t[1] \in Openings /\ triggerRt[t[1]] \in RuntimeType /\ triggerThr[t] \in ThreadType
  BY ThreadIsPair DEF TriggerTypes
<1>2. Moved(t, triggerThr[t].back)
  BY ThreadMoves DEF remember
<1>3. PICK z : z = [triggerRt[t[1]] EXCEPT !.active = triggerThr[t].run, !.cooling = TRUE]
  OBVIOUS
<1>4. /\ z \in RuntimeType
      /\ z.active = triggerThr[t].run /\ z.host = triggerRt[t[1]].host /\ z.queued = triggerRt[t[1]].queued
  BY <1>1, <1>3 DEF RuntimeType, ThreadType
<1>5. triggerRt' = [triggerRt EXCEPT ![t[1]] = z]
  BY <1>3 DEF remember
<1>6. TriggerTypes'
  BY <1>2, <1>4, <1>5 DEF remember, TriggerTypes, Moved
<1> QED
  BY <1>1, <1>2, <1>4, <1>5, <1>6 DEF remember, TriggerTypes

(* The other steps of a thread.                                            *)
LEMMA OtherDispatch ==
    ASSUME TriggerTypes, NEW t \in TriggerThreads, pressed(t) \/ plan(t) \/ host_quits(t)
    PROVE  /\ TriggerTypes'
           /\ UNCHANGED <<triggerRt, triggered, policy, opening, projectOf, opener>>
           /\ \/ triggerThr[t].at = "listening" /\ Moved(t, "called")
              \/ triggerThr[t].at = "planning" /\ Moved(t, triggerThr[t].back)
              \/ triggerThr[t].at = "planning" /\ Moved(t, "planned") /\ opener = "none" /\ t[1] = opening
              \/ triggerThr[t].at = "listening" /\ Moved(t, "off")
<1>1. CASE pressed(t)
  <2>1. Moved(t, "called")
    BY <1>1, ThreadMoves DEF pressed, ThreadStates
  <2> QED
    BY <1>1, <2>1 DEF pressed, TriggerTypes, Moved
<1>2. CASE plan(t)
  <2>1. Moved(t, triggerThr[t].back) \/ (Moved(t, "planned") /\ t[1] = opening)
    BY <1>2, ThreadMoves DEF plan, ThreadStates, CurrentOpening
  <2> QED
    BY <1>2, <2>1 DEF plan, TriggerTypes, Moved
<1>3. CASE host_quits(t)
  <2>1. Off \in ThreadType /\ Off.at = "off"
    BY TriggerAssumption DEF Off, ThreadType, NoTriggered, ThreadStates
  <2>2. triggerThr' = [triggerThr EXCEPT ![t] = Off] /\ triggerThr \in [TriggerThreads -> ThreadType]
    BY <1>3 DEF host_quits, TriggerTypes
  <2>3. Moved(t, "off")
    BY <2>1, <2>2 DEF Moved
  <2> QED
    BY <1>3, <2>3 DEF host_quits, TriggerTypes, Moved
<1> QED
  BY <1>1, <1>2, <1>3

\* What a step of the polling thread of an opening leaves alone.
LoopLeaves(g) ==
    /\ UNCHANGED <<triggered, policy, opening, projectOf, opener>>
    /\ \A o \in Openings : o # g => triggerRt'[o] = triggerRt[o]

(* A poll: the thread ends, calls, or reads.                               *)
LEMMA Polls ==
    ASSUME TriggerTypes, NEW g \in Openings, poll(g)
    PROVE  /\ TriggerTypes' /\ LoopLeaves(g)
           /\ triggerThr[<<g, Loop>>].at = "waiting"
           /\ triggerRt'[g].host = triggerRt[g].host
           /\ Moved(<<g, Loop>>, "off") \/ Moved(<<g, Loop>>, "called") \/ Moved(<<g, Loop>>, "reading")
           /\ ~triggerRt[g].queued => triggerRt' = triggerRt
<1> DEFINE t == <<g, Loop>>
<1>1. t \in TriggerThreads /\ triggerRt[g] \in RuntimeType /\ triggerThr[t] \in ThreadType
  BY ThreadIsPair DEF TriggerTypes
<1>2. CASE UNCHANGED triggerRt /\ (Goes(t, "off") \/ Goes(t, "reading"))
  <2>1. Moved(t, "off") \/ Moved(t, "reading")
    BY <1>1, <1>2, ThreadMoves DEF ThreadStates
  <2>2. TriggerTypes'
    BY <1>2, <2>1 DEF poll, TriggerTypes, Moved
  <2> QED
    BY <1>2, <2>1, <2>2 DEF poll, LoopLeaves
<1>3. CASE ~(UNCHANGED triggerRt /\ (Goes(t, "off") \/ Goes(t, "reading")))
  <2>1. /\ triggerRt[g].queued
        /\ triggerRt' = [triggerRt EXCEPT ![g].queued = FALSE, ![g].active = NoTriggered, ![g].recent = FALSE]
        /\ triggerThr' = [triggerThr EXCEPT ![t].at = "called", ![t].back = "reading"]
    BY <1>3 DEF poll
  <2>2. PICK y : y = [triggerRt[g] EXCEPT !.queued = FALSE, !.active = NoTriggered, !.recent = FALSE]
    OBVIOUS
  <2>3. PICK z : z = [triggerThr[t] EXCEPT !.at = "called", !.back = "reading"]
    OBVIOUS
  <2>4. y \in RuntimeType /\ y.host = triggerRt[g].host
    <3>1. PICK a : a = [triggerRt[g] EXCEPT !.queued = FALSE]
      OBVIOUS
    <3>2. PICK b : b = [a EXCEPT !.active = NoTriggered]
      OBVIOUS
    <3>3. y = [b EXCEPT !.recent = FALSE] /\ NoTriggered \in 0..MaxTriggered
      BY <2>2, <3>1, <3>2, TriggerAssumption DEF NoTriggered
    <3>4. a \in RuntimeType /\ a.host = triggerRt[g].host
      BY <1>1, <3>1, RuntimeFlags
    <3>5. b \in RuntimeType /\ b.host = triggerRt[g].host
      BY <3>2, <3>3, <3>4, RuntimeActive
    <3> QED
      BY <3>3, <3>5, RuntimeFlags
  <2>5. z \in ThreadType /\ z.at = "called"
    BY <1>1, <2>3 DEF ThreadType, ThreadStates
  <2>6. triggerRt' = [triggerRt EXCEPT ![g] = y] /\ triggerThr' = [triggerThr EXCEPT ![t] = z]
    BY <2>1, <2>2, <2>3
  <2>7. Moved(t, "called")
    BY <1>1, <2>5, <2>6 DEF Moved, TriggerTypes
  <2>8. TriggerTypes'
    BY <2>4, <2>6, <2>7 DEF poll, TriggerTypes, Moved
  <2> QED
    BY <2>1, <2>4, <2>6, <2>7, <2>8 DEF poll, LoopLeaves, TriggerTypes
<1> QED
  BY <1>2, <1>3

(* To be told to quit moves nobody.                                        *)
LEMMA QuitMovesNobody ==
    ASSUME TriggerTypes, NEW g \in Openings
    PROVE  /\ Quit(triggerThr, g) \in [TriggerThreads -> ThreadType]
           /\ \A u \in TriggerThreads : /\ Quit(triggerThr, g)[u].at = triggerThr[u].at
                                        /\ Quit(triggerThr, g)[u].run = triggerThr[u].run
<1> DEFINE h == <<g, triggerRt[g].host>>
<1>1. h \in TriggerThreads /\ triggerThr[h] \in ThreadType /\ triggerThr \in [TriggerThreads -> ThreadType]
  BY ThreadIsPair DEF TriggerTypes, RuntimeType
<1>2. PICK z : z = [triggerThr[h] EXCEPT !.quit = triggerRt[g].host # 0]
  OBVIOUS
<1>3. z \in ThreadType /\ z.at = triggerThr[h].at /\ z.run = triggerThr[h].run
  BY <1>1, <1>2 DEF ThreadType
<1>4. Quit(triggerThr, g) = [triggerThr EXCEPT ![h] = z]
  BY <1>2 DEF Quit
<1> HIDE DEF h
<1> QED
  BY <1>1, <1>3, <1>4

(* The configuration is read: the host is kept or to be replaced.          *)
LEMMA ReadsConfiguration ==
    ASSUME TriggerTypes, NEW g \in Openings, read_configuration(g)
    PROVE  /\ TriggerTypes' /\ LoopLeaves(g)
           /\ triggerThr[<<g, Loop>>].at = "reading"
           /\ \/ Moved(<<g, Loop>>, "scanning")
              \/ Moved(<<g, Loop>>, "replacing") /\ triggerRt[g].host < MaxHosts
           /\ \E kind \in Kinds : \E seen \in Nat :
                 triggerRt' = [triggerRt EXCEPT ![g] = [triggerRt[g] EXCEPT !.kind = kind, !.seen = seen]]
<1> DEFINE t == <<g, Loop>>
<1>1. t \in TriggerThreads /\ triggerRt[g] \in RuntimeType /\ triggerThr[t] \in ThreadType
  BY ThreadIsPair DEF TriggerTypes
<1>2. PICK y : y = [triggerRt[g] EXCEPT !.kind = triggerConf.kind, !.seen = triggerConf.rev]
  OBVIOUS
<1>3. y \in RuntimeType /\ triggerRt' = [triggerRt EXCEPT ![g] = y] /\ triggerConf.kind \in Kinds /\ triggerConf.rev \in Nat
  BY <1>1, <1>2 DEF read_configuration, TriggerTypes, RuntimeType
<1>4. Moved(t, "scanning") \/ (Moved(t, "replacing") /\ triggerRt[g].host < MaxHosts)
  <2>1. CASE triggerRt[g].seen = triggerConf.rev
    BY <1>1, <2>1, ThreadMoves DEF read_configuration, ThreadStates
  <2>2. CASE triggerRt[g].seen # triggerConf.rev
    <3>1. triggerThr' = [Quit(triggerThr, g) EXCEPT ![t].at = "replacing"] /\ triggerRt[g].host < MaxHosts
      BY <2>2 DEF read_configuration
    <3>2. PICK q : q = Quit(triggerThr, g)
      OBVIOUS
    <3>3. /\ q \in [TriggerThreads -> ThreadType]
          /\ \A u \in TriggerThreads : q[u].at = triggerThr[u].at /\ q[u].run = triggerThr[u].run
      BY <3>2, QuitMovesNobody
    <3>4. PICK z : z = [q[t] EXCEPT !.at = "replacing"]
      OBVIOUS
    <3>5. q[t] \in ThreadType
      BY <1>1, <3>3
    <3>6. z \in ThreadType /\ z.at = "replacing"
      BY <3>4, <3>5 DEF ThreadType, ThreadStates
    <3>7. triggerThr' = [q EXCEPT ![t] = z]
      BY <3>1, <3>2, <3>4
    <3>8. Moved(t, "replacing")
      BY <1>1, <3>3, <3>6, <3>7 DEF Moved
    <3> QED
      BY <3>1, <3>8
  <2> QED
    BY <2>1, <2>2
<1>5. TriggerTypes'
  <2>1. UNCHANGED <<triggerConf, policy, opening, projectOf, opener, triggered>>
    BY DEF read_configuration
  <2> QED
    BY <1>3, <1>4, <2>1 DEF TriggerTypes, Moved
<1>6. \E kind \in Kinds : \E seen \in Nat :
          triggerRt' = [triggerRt EXCEPT ![g] = [triggerRt[g] EXCEPT !.kind = kind, !.seen = seen]]
  BY <1>2, <1>3, Zenon
<1>7. LoopLeaves(g) /\ triggerThr[t].at = "reading"
  BY <1>3 DEF read_configuration, LoopLeaves, TriggerTypes
<1> QED
  BY <1>4, <1>5, <1>6, <1>7, Zenon

(* A new host takes the next thread.                                       *)
LEMMA ReplacesHost ==
    ASSUME TriggerTypes, ThreadsExist, NEW g \in Openings, replace_host(g)
    PROVE  /\ TriggerTypes' /\ LoopLeaves(g)
           /\ triggerThr[<<g, Loop>>].at = "replacing"
           /\ JoinedHost(<<g, triggerRt[g].host>>)
           /\ triggerRt[g].host + 1 \in 0..MaxHosts
           /\ triggerRt' = [triggerRt EXCEPT ![g] = [triggerRt[g] EXCEPT !.host = triggerRt[g].host + 1]]
           /\ triggerThr'[<<g, Loop>>].at = "scanning"
           /\ triggerThr'[<<g, triggerRt[g].host + 1>>].at = "listening"
           /\ \A u \in TriggerThreads \ {<<g, Loop>>, <<g, triggerRt[g].host + 1>>} :
                 triggerThr'[u].at = triggerThr[u].at /\ triggerThr'[u].run = triggerThr[u].run
<1> DEFINE t == <<g, Loop>>
           n == triggerRt[g].host
           h == <<g, n + 1>>
<1>1. t \in TriggerThreads /\ triggerRt[g] \in RuntimeType /\ triggerThr[t] \in ThreadType
  BY ThreadIsPair DEF TriggerTypes
<1>2. n \in 0..MaxHosts /\ n < MaxHosts
  BY <1>1 DEF replace_host, ThreadsExist, RuntimeType
<1>3. n + 1 \in 0..MaxHosts /\ h \in TriggerThreads /\ h # t
  BY <1>2, ThreadIsPair DEF Loop
<1>4. PICK y : y = [triggerRt[g] EXCEPT !.host = n + 1]
  OBVIOUS
<1>5. y \in RuntimeType /\ triggerRt' = [triggerRt EXCEPT ![g] = y]
  BY <1>1, <1>3, <1>4 DEF replace_host, RuntimeType
<1>6. PICK z : z = [triggerThr[t] EXCEPT !.at = "scanning"]
  OBVIOUS
<1>7. z \in ThreadType /\ z.at = "scanning"
  BY <1>1, <1>6 DEF ThreadType, ThreadStates
<1>8. PICK v : v = [at |-> "listening", back |-> "listening", run |-> NoTriggered,
                    holds |-> (\A u \in TriggerThreads : ~triggerThr[u].holds) /\ triggerRt[g].kind = "global_hotkey",
                    quit |-> FALSE]
  OBVIOUS
<1>9. v \in ThreadType /\ v.at = "listening"
  BY <1>8, TriggerAssumption DEF ThreadType, ThreadStates, NoTriggered
<1>10. triggerThr' = [triggerThr EXCEPT ![t] = z, ![h] = v]
  BY <1>6, <1>8 DEF replace_host
<1>11. /\ triggerThr' \in [TriggerThreads -> ThreadType] /\ triggerThr'[t].at = "scanning"
       /\ triggerThr'[h].at = "listening"
       /\ \A u \in TriggerThreads \ {t, h} :
              triggerThr'[u].at = triggerThr[u].at /\ triggerThr'[u].run = triggerThr[u].run
  <2> HIDE DEF t, h
  <2> QED
    BY <1>1, <1>3, <1>7, <1>9, <1>10 DEF TriggerTypes
<1>12. TriggerTypes'
  BY <1>5, <1>11 DEF replace_host, TriggerTypes
<1> QED
  BY <1>3, <1>4, <1>5, <1>11, <1>12 DEF replace_host, LoopLeaves, TriggerTypes

(* A scan, and the windows that close.                                     *)
LEMMA OtherPolling ==
    ASSUME TriggerTypes, NEW g \in Openings
    PROVE  /\ scan(g) => /\ TriggerTypes' /\ UNCHANGED triggerRt /\ LoopLeaves(g)
                         /\ triggerThr[<<g, Loop>>].at = "scanning"
                         /\ Moved(<<g, Loop>>, "waiting") \/ Moved(<<g, Loop>>, "called")
           /\ debounce_passes(g) => /\ TriggerTypes' /\ UNCHANGED triggerThr /\ LoopLeaves(g)
                                    /\ triggerRt' = [triggerRt EXCEPT ![g] = [triggerRt[g] EXCEPT !.recent = FALSE]]
           /\ cooldown_passes(g) => /\ TriggerTypes' /\ UNCHANGED triggerThr /\ LoopLeaves(g)
                                    /\ triggerRt' = [triggerRt EXCEPT ![g] = [triggerRt[g] EXCEPT !.cooling = FALSE]]
<1> DEFINE t == <<g, Loop>>
<1>1. t \in TriggerThreads /\ triggerRt[g] \in RuntimeType /\ triggerThr[t] \in ThreadType
  BY ThreadIsPair DEF TriggerTypes
<1>2. ASSUME scan(g)
      PROVE  /\ TriggerTypes' /\ UNCHANGED triggerRt /\ LoopLeaves(g)
             /\ triggerThr[<<g, Loop>>].at = "scanning"
             /\ Moved(t, "waiting") \/ Moved(t, "called")
  <2>1. Moved(t, "waiting") \/ Moved(t, "called")
    <3>1. CASE Goes(t, "waiting")
      BY <1>1, <3>1, ThreadMoves DEF ThreadStates
    <3>2. CASE triggerThr' = [triggerThr EXCEPT ![t].at = "called", ![t].back = "waiting"]
      <4>1. PICK z : z = [triggerThr[t] EXCEPT !.at = "called", !.back = "waiting"]
        OBVIOUS
      <4>2. z \in ThreadType /\ z.at = "called"
        BY <1>1, <4>1 DEF ThreadType, ThreadStates
      <4>3. triggerThr' = [triggerThr EXCEPT ![t] = z]
        BY <3>2, <4>1
      <4> QED
        BY <1>1, <4>2, <4>3 DEF Moved, TriggerTypes
    <3> QED
      BY <1>2, <3>1, <3>2 DEF scan
  <2> QED
    BY <1>2, <2>1 DEF scan, TriggerTypes, Moved, LoopLeaves
<1>3. ASSUME debounce_passes(g)
      PROVE  /\ TriggerTypes' /\ UNCHANGED triggerThr /\ LoopLeaves(g)
             /\ triggerRt' = [triggerRt EXCEPT ![g] = [triggerRt[g] EXCEPT !.recent = FALSE]]
  <2>1. PICK y : y = [triggerRt[g] EXCEPT !.recent = FALSE]
    OBVIOUS
  <2>2. y \in RuntimeType /\ triggerRt' = [triggerRt EXCEPT ![g] = y]
    BY <1>1, <1>3, <2>1 DEF debounce_passes, RuntimeType
  <2> QED
    BY <1>3, <2>1, <2>2 DEF debounce_passes, TriggerTypes, LoopLeaves
<1>4. ASSUME cooldown_passes(g)
      PROVE  /\ TriggerTypes' /\ UNCHANGED triggerThr /\ LoopLeaves(g)
             /\ triggerRt' = [triggerRt EXCEPT ![g] = [triggerRt[g] EXCEPT !.cooling = FALSE]]
  <2>1. PICK y : y = [triggerRt[g] EXCEPT !.cooling = FALSE]
    OBVIOUS
  <2>2. y \in RuntimeType /\ triggerRt' = [triggerRt EXCEPT ![g] = y]
    BY <1>1, <1>4, <2>1 DEF cooldown_passes, RuntimeType
  <2> QED
    BY <1>4, <2>1, <2>2 DEF cooldown_passes, TriggerTypes, LoopLeaves
<1> QED
  BY <1>2, <1>3, <1>4

(* A run ends, or a trigger is saved.                                      *)
LEMMA EndsAndSaves ==
    ASSUME TriggerTypes
    PROVE  /\ \A r \in 1..MaxTriggered : triggered_ends(r) =>
                 /\ TriggerTypes' /\ UNCHANGED <<triggerThr, triggerRt, policy, opening, projectOf, opener>>
                 /\ triggered' = [triggered EXCEPT ![r] = [triggered[r] EXCEPT !.live = FALSE]]
           /\ \A kind \in Kinds : save_trigger(kind) =>
                 /\ TriggerTypes'
                 /\ UNCHANGED <<triggerThr, triggerRt, policy, opening, projectOf, opener, triggered>>
<1>1. ASSUME NEW r \in 1..MaxTriggered, triggered_ends(r)
      PROVE  /\ TriggerTypes' /\ UNCHANGED <<triggerThr, triggerRt, policy, opening, projectOf, opener>>
             /\ triggered' = [triggered EXCEPT ![r] = [triggered[r] EXCEPT !.live = FALSE]]
  <2>1. triggered' \in [1..MaxTriggered -> [of : 0..MaxOpens, live : BOOLEAN]]
    BY <1>1 DEF triggered_ends, TriggerTypes
  <2> QED
    BY <1>1, <2>1 DEF triggered_ends, TriggerTypes
<1>2. ASSUME NEW kind \in Kinds, save_trigger(kind)
      PROVE  /\ TriggerTypes'
             /\ UNCHANGED <<triggerThr, triggerRt, policy, opening, projectOf, opener, triggered>>
  BY <1>2 DEF save_trigger, TriggerTypes
<1> QED
  BY <1>1, <1>2

(* An opening begins: nobody moves.                                        *)
LEMMA OpeningBegins ==
    ASSUME TriggerTypes, NEW p \in {"own", "other"}, open_project(p)
    PROVE  /\ TriggerTypes'
           /\ \A u \in TriggerThreads :
                 triggerThr'[u].at = triggerThr[u].at /\ triggerThr'[u].run = triggerThr[u].run
           /\ \A g \in Openings : \/ triggerRt'[g] = triggerRt[g]
                                   \/ triggerRt'[g] = [triggerRt[g] EXCEPT !.stop = TRUE]
           /\ UNCHANGED <<policy, triggered>>
<1>1. opener' \in Projects
  BY DEF open_project, Projects
<1>2. opening' \in 0..MaxOpens /\ projectOf' \in [Openings -> Projects]
  BY ThreadIsPair DEF open_project, TriggerTypes, Projects
<1>3. CASE ~HasRuntime(opening)
  BY <1>1, <1>2, <1>3 DEF open_project, StopRuntime, TriggerTypes
<1>4. CASE HasRuntime(opening)
  <2>1. opening \in Openings
    BY <1>4, ThreadIsPair DEF HasRuntime, TriggerTypes
  <2>2. triggerRt[opening] \in RuntimeType
    BY <2>1 DEF TriggerTypes
  <2>3. triggerRt' = [triggerRt EXCEPT ![opening].stop = TRUE] /\ triggerThr' = Quit(triggerThr, opening)
    BY <1>4 DEF open_project, StopRuntime
  <2>4. PICK y : y = [triggerRt[opening] EXCEPT !.stop = TRUE]
    OBVIOUS
  <2>5. y \in RuntimeType /\ triggerRt' = [triggerRt EXCEPT ![opening] = y]
    BY <2>2, <2>3, <2>4 DEF RuntimeType
  <2>6. PICK q : q = Quit(triggerThr, opening)
    OBVIOUS
  <2>7. /\ q \in [TriggerThreads -> ThreadType]
        /\ \A u \in TriggerThreads : q[u].at = triggerThr[u].at /\ q[u].run = triggerThr[u].run
    BY <2>1, <2>6, QuitMovesNobody
  <2>8. TriggerTypes'
    BY <1>1, <1>2, <2>3, <2>5, <2>6, <2>7 DEF open_project, TriggerTypes
  <2> QED
    BY <2>3, <2>4, <2>5, <2>6, <2>7, <2>8 DEF open_project, TriggerTypes
<1> QED
  BY <1>3, <1>4

\* The generation that opened_project serves from now on.
NextServed == IF Reopening THEN opening ELSE opening + 1

(* An opening ends: the polling thread of the new generation begins.       *)
LEMMA OpeningEnds ==
    ASSUME TriggerTypes, ThreadsExist, opened_project
    PROVE  /\ TriggerTypes'
           /\ NextServed \in Openings
           /\ opening' = NextServed /\ opener' = "none" /\ opener # "none"
           /\ projectOf' = [projectOf EXCEPT ![NextServed] = opener]
           /\ UNCHANGED <<triggerRt, policy, triggered>>
           /\ \/ UNCHANGED triggerThr
              \/ Moved(<<NextServed, Loop>>, "waiting") /\ opener = "own"
<1>1. NextServed \in Openings /\ NextServed \in 0..MaxOpens
  BY ThreadIsPair DEF opened_project, ThreadsExist, Reopening, TriggerTypes, NextServed
<1>2. /\ opening' = NextServed /\ projectOf' = [projectOf EXCEPT ![NextServed] = opener] /\ opener' = "none"
      /\ triggerThr' = IF opener = "own" THEN [triggerThr EXCEPT ![<<NextServed, Loop>>].at = "waiting"] ELSE triggerThr
      /\ UNCHANGED <<triggerConf, policy, triggerRt, triggered>> /\ opener # "none"
  BY DEF opened_project, Reopening, NextServed
<1>3. UNCHANGED triggerThr \/ (Moved(<<NextServed, Loop>>, "waiting") /\ opener = "own")
  BY <1>1, <1>2, ThreadMoves, ThreadIsPair DEF Goes, ThreadStates
<1>4. TriggerTypes'
  BY <1>1, <1>2, <1>3 DEF TriggerTypes, Projects, Moved
<1> QED
  BY <1>1, <1>2, <1>3, <1>4

(* What a decision says and changes.                                       *)
LEMMA DecisionMeans ==
    ASSUME TriggerTypes, NEW rt \in RuntimeType
    PROVE  /\ Decision(rt).rt.host = rt.host
           /\ rt.recent => Decision(rt).rt = rt /\ ~Decision(rt).start
           /\ ~rt.recent => /\ Decision(rt).start => Decision(rt).rt.recent /\ ~is_running(rt.active)
                            /\ Decision(rt).rt.active = ActiveNow(rt)
           /\ policy = "skip_if_running" => Decision(rt).rt.queued = rt.queued
<1>1. ActiveNow(rt) \in 0..MaxTriggered
  BY TriggerAssumption DEF ActiveNow, NoTriggered, RuntimeType
<1>2. PICK one : one = [rt EXCEPT !.recent = TRUE]
  OBVIOUS
<1>3. PICK two : two = [one EXCEPT !.active = ActiveNow(rt)]
  OBVIOUS
<1>4. one \in RuntimeType /\ one.host = rt.host /\ one.queued = rt.queued /\ one.recent
  BY <1>2 DEF RuntimeType
<1>5. /\ two \in RuntimeType /\ two.host = rt.host /\ two.queued = rt.queued /\ two.recent
      /\ two.active = ActiveNow(rt)
  BY <1>1, <1>3, <1>4 DEF RuntimeType
<1>6. PICK last : last = [two EXCEPT !.queued = @ \/ policy = "queue_one"]
  OBVIOUS
<1>7. /\ last.host = rt.host /\ last.active = ActiveNow(rt)
      /\ policy = "skip_if_running" => last.queued = rt.queued
  <2>1. policy = "skip_if_running" => policy # "queue_one"
    OBVIOUS
  <2>2. two.queued \in BOOLEAN
    BY <1>5 DEF RuntimeType
  <2>3. policy = "skip_if_running" => last = [two EXCEPT !.queued = rt.queued]
    BY <1>5, <1>6, <2>1, <2>2
  <2>4. last.host = two.host /\ last.active = two.active
    BY <1>5, <1>6 DEF RuntimeType
  <2> QED
    BY <1>5, <2>3, <2>4 DEF RuntimeType
<1>8. Decision(rt) = IF rt.recent THEN [rt |-> rt, start |-> FALSE]
                     ELSE IF two.active # NoTriggered THEN [rt |-> last, start |-> FALSE]
                     ELSE [rt |-> two, start |-> ~two.cooling]
  BY <1>2, <1>3, <1>6 DEF Decision
<1>9. is_running(rt.active) => two.active # NoTriggered
  BY <1>5 DEF is_running, ActiveNow
<1> QED
  BY <1>5, <1>7, <1>8, <1>9

-----------------------------------------------------------------------------
(* A thread that exists goes on existing.                                  *)
LEMMA ExistMoved ==
    ASSUME TriggerTypes, ThreadsExist, NEW t \in TriggerThreads, NEW at, Moved(t, at),
           triggerThr[t].at # "off", at = "replacing" => triggerRt[t[1]].host < MaxHosts,
           \A g \in Openings : triggerRt'[g].host = triggerRt[g].host,
           UNCHANGED <<opening, projectOf, opener>>
    PROVE  ThreadsExist'
<1>1. Reopening' = Reopening
  BY DEF Reopening
<1>2. ASSUME NEW u \in TriggerThreads,
             \/ triggerRt'[u[1]].host < u[2]
             \/ projectOf'[u[1]] # "own"
             \/ Reopening' /\ u[1] = opening'
      PROVE  triggerThr'[u].at = "off"
  <2>1. u[1] \in Openings
    BY ThreadIsPair
  <2>2. triggerThr[u].at = "off"
    BY <1>1, <1>2, <2>1 DEF ThreadsExist
  <2>3. u # t
    BY <2>2
  <2> QED
    BY <2>2, <2>3 DEF Moved
<1>3. ASSUME NEW g \in Openings, triggerThr'[<<g, Loop>>].at = "replacing"
      PROVE  triggerRt'[g].host < MaxHosts
  <2>1. <<g, Loop>> \in TriggerThreads /\ <<g, Loop>>[1] = g
    BY ThreadIsPair
  <2>2. CASE <<g, Loop>> = t
    BY <1>3, <2>1, <2>2 DEF Moved
  <2>3. CASE <<g, Loop>> # t
    BY <1>3, <2>1, <2>3 DEF Moved, ThreadsExist
  <2> QED
    BY <2>2, <2>3
<1> QED
  BY <1>1, <1>2, <1>3 DEF ThreadsExist

(* Nor does anything else move a thread that is off.                       *)
LEMMA ExistKept ==
    ASSUME TriggerTypes, ThreadsExist,
           \A u \in TriggerThreads : triggerThr'[u].at = triggerThr[u].at,
           \A g \in Openings : triggerRt'[g].host = triggerRt[g].host,
           UNCHANGED <<opening, projectOf, opener>>
    PROVE  ThreadsExist'
<1>1. Reopening' = Reopening
  BY DEF Reopening
<1> QED
  BY <1>1, ThreadIsPair DEF ThreadsExist

(* The threads of dispatches exist.                                        *)
LEMMA ExistDispatch ==
    ASSUME TriggerTypes, ThreadsExist, NEW t \in TriggerThreads, Dispatching(t)
    PROVE  TriggerTypes' /\ ThreadsExist'
<1>1. triggerThr[t].back \notin {"replacing"} /\ t[1] \in Openings /\ triggerRt[t[1]] \in RuntimeType
  BY ThreadIsPair DEF TriggerTypes, ThreadType
<1>2. CASE decide(t)
  <2>1. \A g \in Openings : triggerRt'[g].host = triggerRt[g].host
    BY <1>1, <1>2, Decides, DecisionMeans
  <2>2. UNCHANGED <<opening, projectOf, opener>>
    BY <1>2 DEF decide
  <2>3. triggerThr[t].at = "called" /\ (Moved(t, triggerThr[t].back) \/ Moved(t, "planning"))
    BY <1>2, Decides
  <2> QED
    BY <1>1, <1>2, <2>1, <2>2, <2>3, Decides, ExistMoved
<1>3. CASE start_run(t)
  <2>1. UNCHANGED <<opening, projectOf, opener, triggerRt>>
    BY <1>3 DEF start_run
  <2>2. triggerThr[t].at = "planned" /\ (Moved(t, triggerThr[t].back) \/ Moved(t, "started"))
    BY <1>3, StartsRun
  <2> QED
    BY <1>1, <1>3, <2>1, <2>2, StartsRun, ExistMoved
<1>4. CASE remember(t)
  <2>1. UNCHANGED <<opening, projectOf, opener>>
    BY <1>4 DEF remember
  <2>2. triggerThr[t].at = "started" /\ Moved(t, triggerThr[t].back)
    BY <1>4, Remembers
  <2>3. \A g \in Openings : triggerRt'[g].host = triggerRt[g].host
    BY <1>1, <1>4, Remembers DEF RuntimeType
  <2> QED
    BY <1>1, <1>4, <2>1, <2>2, <2>3, Remembers, ExistMoved
<1>5. CASE pressed(t) \/ plan(t) \/ host_quits(t)
  <2>1. UNCHANGED <<opening, projectOf, opener, triggerRt>> /\ TriggerTypes'
    BY <1>5, OtherDispatch
  <2>2. PICK at \in {"called", "planned", "off", triggerThr[t].back} : Moved(t, at)
    BY <1>5, OtherDispatch
  <2>3. triggerThr[t].at # "off"
    BY <1>5, OtherDispatch
  <2> QED
    BY <1>1, <2>1, <2>2, <2>3, ExistMoved
<1> QED
  BY <1>2, <1>3, <1>4, <1>5 DEF Dispatching

(* The threads of a runtime exist.                                         *)
LEMMA ExistPolling ==
    ASSUME TriggerTypes, ThreadsExist, NEW g \in Openings, Polling(g)
    PROVE  TriggerTypes' /\ ThreadsExist'
<1> DEFINE t == <<g, Loop>>
<1>1. t \in TriggerThreads /\ t[1] = g /\ triggerRt[g] \in RuntimeType
  BY ThreadIsPair DEF TriggerTypes
<1>2. CASE poll(g)
  <2>1. triggerThr[t].at = "waiting" /\ TriggerTypes' /\ LoopLeaves(g) /\ triggerRt'[g].host = triggerRt[g].host
    BY <1>2, Polls
  <2>2. PICK at \in {"called", "reading", "off"} : Moved(t, at)
    BY <1>2, Polls
  <2> QED
    BY <1>1, <2>1, <2>2, ExistMoved DEF LoopLeaves
<1>3. CASE read_configuration(g)
  <2>1. triggerThr[t].at = "reading" /\ TriggerTypes' /\ LoopLeaves(g)
    BY <1>3, ReadsConfiguration
  <2>2. triggerRt'[g].host = triggerRt[g].host
    <3>1. PICK kind \in Kinds, seen \in Nat :
             triggerRt' = [triggerRt EXCEPT ![g] = [triggerRt[g] EXCEPT !.kind = kind, !.seen = seen]]
      BY <1>3, ReadsConfiguration
    <3>2. triggerRt \in [Openings -> RuntimeType]
      BY DEF TriggerTypes
    <3> QED
      BY <1>1, <3>1, <3>2 DEF RuntimeType
  <2>3. CASE Moved(t, "scanning")
    BY <1>1, <2>1, <2>2, <2>3, ExistMoved DEF LoopLeaves
  <2>4. CASE Moved(t, "replacing") /\ triggerRt[g].host < MaxHosts
    BY <1>1, <2>1, <2>2, <2>4, ExistMoved DEF LoopLeaves
  <2> QED
    BY <1>3, <2>3, <2>4, ReadsConfiguration
<1>4. CASE scan(g)
  <2>1. triggerThr[t].at = "scanning" /\ TriggerTypes' /\ LoopLeaves(g) /\ UNCHANGED triggerRt
    BY <1>4, OtherPolling
  <2>2. PICK at \in {"called", "waiting"} : Moved(t, at)
    BY <1>4, OtherPolling
  <2> QED
    BY <1>1, <2>1, <2>2, ExistMoved DEF LoopLeaves
<1>5. CASE debounce_passes(g) \/ cooldown_passes(g)
  <2>1. TriggerTypes' /\ LoopLeaves(g) /\ UNCHANGED triggerThr
    BY <1>5, OtherPolling
  <2>2. triggerRt'[g].host = triggerRt[g].host
    <3>1. \/ triggerRt' = [triggerRt EXCEPT ![g] = [triggerRt[g] EXCEPT !.recent = FALSE]]
          \/ triggerRt' = [triggerRt EXCEPT ![g] = [triggerRt[g] EXCEPT !.cooling = FALSE]]
      BY <1>5, OtherPolling
    <3>2. triggerRt \in [Openings -> RuntimeType]
      BY DEF TriggerTypes
    <3> QED
      BY <1>1, <3>1, <3>2 DEF RuntimeType
  <2> QED
    BY <2>1, <2>2, ExistKept DEF LoopLeaves
<1>6. CASE replace_host(g)
  <2> DEFINE n == triggerRt[g].host
             h == <<g, n + 1>>
  <2>1. /\ TriggerTypes' /\ LoopLeaves(g) /\ triggerThr[t].at = "replacing" /\ n + 1 \in 0..MaxHosts
        /\ triggerRt' = [triggerRt EXCEPT ![g] = [triggerRt[g] EXCEPT !.host = n + 1]]
        /\ triggerThr'[t].at = "scanning"
        /\ \A u \in TriggerThreads \ {t, h} : triggerThr'[u].at = triggerThr[u].at
    BY <1>6, ReplacesHost
  <2>2. triggerRt'[g].host = n + 1 /\ n \in Nat
    <3>1. triggerRt \in [Openings -> RuntimeType]
      BY DEF TriggerTypes
    <3> QED
      BY <1>1, <2>1, <3>1 DEF RuntimeType
  <2>3. Reopening' = Reopening /\ UNCHANGED <<opening, projectOf, opener>>
    BY <2>1 DEF Reopening, LoopLeaves
  <2>4. projectOf[g] = "own" /\ ~(Reopening /\ g = opening)
    BY <1>1, <2>1 DEF ThreadsExist
  <2>5. ASSUME NEW u \in TriggerThreads,
               \/ triggerRt'[u[1]].host < u[2]
               \/ projectOf'[u[1]] # "own"
               \/ Reopening' /\ u[1] = opening'
        PROVE  triggerThr'[u].at = "off"
    <3>1. u[1] \in Openings /\ u[2] \in Nat /\ u = <<u[1], u[2]>>
      BY ThreadIsPair
    <3>2. u # t /\ u # h
      BY <2>2, <2>3, <2>4, <2>5, <3>1 DEF Loop
    <3>3. triggerThr[u].at = "off"
      <4>1. CASE u[1] = g
        BY <2>2, <2>3, <2>5, <3>1, <4>1 DEF ThreadsExist
      <4>2. CASE u[1] # g
        BY <2>1, <2>3, <2>5, <3>1, <4>2 DEF ThreadsExist, LoopLeaves
      <4> QED
        BY <4>1, <4>2
    <3> HIDE DEF t, h
    <3> QED
      BY <2>1, <3>2, <3>3
  <2>6. ASSUME NEW o \in Openings, triggerThr'[<<o, Loop>>].at = "replacing"
        PROVE  triggerRt'[o].host < MaxHosts
    <3>1. o # g
      BY <2>1, <2>6
    <3>2. <<o, Loop>> \in TriggerThreads /\ <<o, Loop>> # t /\ <<o, Loop>> # h
      BY <3>1, ThreadIsPair
    <3> HIDE DEF t, h
    <3> QED
      BY <2>1, <2>6, <3>1, <3>2 DEF ThreadsExist, LoopLeaves
  <2> QED
    BY <2>1, <2>3, <2>5, <2>6 DEF ThreadsExist
<1> QED
  BY <1>2, <1>3, <1>4, <1>5, <1>6 DEF Polling

(* The threads of the workspace's steps exist.                             *)
LEMMA ExistWorkspace ==
    ASSUME TriggerTypes, ThreadsExist
    PROVE  /\ \A p \in {"own", "other"} : open_project(p) => TriggerTypes' /\ ThreadsExist'
           /\ opened_project => TriggerTypes' /\ ThreadsExist'
<1>1. ASSUME NEW p \in {"own", "other"}, open_project(p)
      PROVE  TriggerTypes' /\ ThreadsExist'
  <2>1. /\ TriggerTypes' /\ \A u \in TriggerThreads : triggerThr'[u].at = triggerThr[u].at
        /\ \A g \in Openings : \/ triggerRt'[g] = triggerRt[g]
                                \/ triggerRt'[g] = [triggerRt[g] EXCEPT !.stop = TRUE]
    BY <1>1, OpeningBegins
  <2>2. \A g \in Openings : triggerRt'[g].host = triggerRt[g].host
    <3>1. \A g \in Openings : triggerRt[g] \in RuntimeType
      BY DEF TriggerTypes
    <3> QED
      BY <2>1, <3>1 DEF RuntimeType
  <2>3. /\ opener = "none" /\ opener' = p /\ opening \in 0..MaxOpens /\ opening < MaxOpens /\ MaxOpens \in Nat
        /\ opening + 1 \in Openings /\ projectOf \in [Openings -> Projects] /\ Openings = 1..MaxOpens
    BY <1>1, ThreadIsPair DEF open_project, TriggerTypes
  <2>4. CASE opening # 0 /\ projectOf[opening] = p
    <3>1. opening' = opening + 1 /\ projectOf' = [projectOf EXCEPT ![opening + 1] = p]
      BY <1>1, <2>4 DEF open_project
    <3>2. projectOf'[opening + 1] = p /\ projectOf'[opening] = p /\ opening' - 1 = opening /\ opening \in Openings
      BY <2>3, <2>4, <3>1
    <3>3. Reopening'
      BY <2>3, <3>1, <3>2 DEF Reopening
    <3>4. ASSUME NEW u \in TriggerThreads,
                 \/ triggerRt'[u[1]].host < u[2]
                 \/ projectOf'[u[1]] # "own"
                 \/ Reopening' /\ u[1] = opening'
          PROVE  triggerThr'[u].at = "off"
      <4>1. u[1] \in Openings
        BY ThreadIsPair
      <4>2. CASE u[1] = opening + 1
        <5>1. projectOf[u[1]] # "own"
          BY <2>3, <4>1, <4>2 DEF ThreadsExist
        <5> QED
          BY <2>1, <5>1 DEF ThreadsExist
      <4>3. CASE u[1] # opening + 1
        <5>1. projectOf'[u[1]] = projectOf[u[1]]
          BY <2>3, <3>1, <4>1, <4>3
        <5> QED
          BY <2>1, <2>2, <3>1, <3>4, <4>1, <4>3, <5>1 DEF ThreadsExist
      <4> QED
        BY <4>2, <4>3
    <3>5. \A g \in Openings : opening' < g => projectOf'[g] = "none"
      BY <2>3, <3>1 DEF ThreadsExist
    <3>6. \A g \in Openings : triggerThr'[<<g, Loop>>].at = "replacing" => triggerRt'[g].host < MaxHosts
      BY <2>1, <2>2, ThreadIsPair DEF ThreadsExist
    <3> QED
      BY <2>1, <2>3, <3>2, <3>3, <3>4, <3>5, <3>6 DEF ThreadsExist
  <2>5. CASE ~(opening # 0 /\ projectOf[opening] = p)
    <3>1. UNCHANGED <<opening, projectOf>>
      BY <1>1, <2>5 DEF open_project
    <3>2. ~Reopening' /\ ~Reopening
      BY <2>3, <2>5, <3>1 DEF Reopening
    <3>3. ASSUME NEW u \in TriggerThreads,
                 triggerRt'[u[1]].host < u[2] \/ projectOf'[u[1]] # "own"
          PROVE  triggerThr'[u].at = "off"
      BY <2>1, <2>2, <3>1, <3>3, ThreadIsPair DEF ThreadsExist
    <3>4. \A g \in Openings : triggerThr'[<<g, Loop>>].at = "replacing" => triggerRt'[g].host < MaxHosts
      BY <2>1, <2>2, ThreadIsPair DEF ThreadsExist
    <3> QED
      BY <2>1, <2>3, <3>1, <3>2, <3>3, <3>4 DEF ThreadsExist
  <2> QED
    BY <2>4, <2>5
<1>2. ASSUME opened_project
      PROVE  TriggerTypes' /\ ThreadsExist'
  <2> DEFINE t == <<NextServed, Loop>>
  <2>1. /\ TriggerTypes' /\ NextServed \in Openings
        /\ opening' = NextServed /\ opener' = "none" /\ opener # "none"
        /\ projectOf' = [projectOf EXCEPT ![NextServed] = opener]
        /\ UNCHANGED <<triggerRt, policy, triggered>>
        /\ UNCHANGED triggerThr \/ (Moved(t, "waiting") /\ opener = "own")
    BY <1>2, OpeningEnds
  <2>2. t \in TriggerThreads /\ t[1] = NextServed /\ t[2] = 0 /\ projectOf \in [Openings -> Projects]
        /\ opening \in Nat /\ Openings = 1..MaxOpens /\ MaxOpens \in Nat /\ MaxHosts \in Nat
    BY <2>1, ThreadIsPair DEF Loop, TriggerTypes
  <2>3. ~Reopening'
    BY <2>1 DEF Reopening
  <2>4. \A u \in TriggerThreads : u[1] = NextServed => triggerThr[u].at = "off"
    <3>1. Reopening \/ (NextServed = opening + 1 /\ projectOf[NextServed] = "none")
      BY <2>1, <2>2 DEF NextServed, ThreadsExist
    <3> QED
      BY <3>1 DEF ThreadsExist, NextServed
  <2>5. ASSUME NEW u \in TriggerThreads,
               triggerRt'[u[1]].host < u[2] \/ projectOf'[u[1]] # "own"
        PROVE  triggerThr'[u].at = "off"
    <3>1. u[1] \in Openings /\ u[2] \in 0..MaxHosts /\ u = <<u[1], u[2]>>
      BY ThreadIsPair
    <3>2. triggerRt[u[1]].host \in 0..MaxHosts
      BY <3>1 DEF TriggerTypes, RuntimeType
    <3>3. u # t \/ opener # "own"
      BY <2>1, <2>2, <2>5, <3>1, <3>2
    <3>4. triggerThr[u].at = "off"
      <4>1. CASE u[1] = NextServed
        BY <2>4, <4>1
      <4>2. CASE u[1] # NextServed
        BY <2>1, <2>2, <2>5, <3>1, <4>2 DEF ThreadsExist
      <4> QED
        BY <4>1, <4>2
    <3> QED
      BY <2>1, <3>3, <3>4 DEF Moved
  <2>6. ASSUME NEW g \in Openings, triggerThr'[<<g, Loop>>].at = "replacing"
        PROVE  triggerRt'[g].host < MaxHosts
    <3>1. <<g, Loop>> \in TriggerThreads
      BY ThreadIsPair
    <3>2. triggerThr[<<g, Loop>>].at = "replacing"
      BY <2>1, <2>6, <3>1 DEF Moved
    <3> QED
      BY <2>1, <3>2 DEF ThreadsExist
  <2>7. \A g \in Openings : opening' < g => projectOf'[g] = "none"
    BY <2>1, <2>2 DEF ThreadsExist, NextServed
  <2> QED
    BY <2>1, <2>3, <2>5, <2>6, <2>7 DEF ThreadsExist
<1> QED
  BY <1>1, <1>2

-----------------------------------------------------------------------------
\* The types, and which threads exist.
TriggerBase == TriggerTypes /\ ThreadsExist

(* Both hold at first.                                                     *)
LEMMA BaseInit == ASSUME TriggerInit PROVE TriggerBase
<1>1. TriggerTypes
  BY TypesInit
<1>2. ~Reopening /\ opener = "none"
  BY DEF TriggerInit, Reopening
<1>3. \A t \in TriggerThreads : triggerThr[t].at = "off"
  BY DEF TriggerInit, Off
<1>4. \A g \in Openings : projectOf[g] = "none"
  BY DEF TriggerInit
<1> QED
  BY <1>1, <1>2, <1>3, <1>4, ThreadIsPair DEF ThreadsExist, TriggerBase

(* And after every step.                                                   *)
LEMMA BaseStep == ASSUME TriggerBase, [TriggerNext]_triggerVars PROVE TriggerBase'
<1>1. CASE UNCHANGED triggerVars
  BY <1>1 DEF TriggerBase, TriggerTypes, ThreadsExist, Reopening, triggerVars
<1>2. ASSUME NEW r \in 1..MaxTriggered, triggered_ends(r) PROVE TriggerBase'
  BY <1>2, EndsAndSaves, ExistKept DEF TriggerBase
<1>3. ASSUME NEW kind \in Kinds, save_trigger(kind) PROVE TriggerBase'
  BY <1>3, EndsAndSaves, ExistKept DEF TriggerBase
<1> QED
  BY <1>1, <1>2, <1>3, ExistDispatch, ExistPolling, ExistWorkspace DEF TriggerNext, TriggerBase, Kinds

-----------------------------------------------------------------------------
StartingAt == {"planning", "planned", "started"}

\* The runs of an opening whose trigger skips while it runs.
Single(g) ==
    /\ ~triggerRt[g].queued
    /\ \A t \in Starting(g) :
          /\ triggerRt[g].recent
          /\ \A u \in Starting(g) : u = t
          /\ RunOf(g) \subseteq (IF triggerThr[t].at = "started" THEN {triggerThr[t].run} ELSE {})
    /\ Starting(g) = {} => RunOf(g) \subseteq {triggerRt[g].active}

\* What keeps an opening's runs single: its starts, their debounce and its runs stay.
Undisturbed(g) ==
    /\ RunOf(g)' \subseteq RunOf(g)
    /\ \A t \in TriggerThreads :
          t[1] = g /\ (t \in Starting(g) \/ t \in Starting(g)') =>
             triggerThr'[t].at = triggerThr[t].at /\ triggerThr'[t].run = triggerThr[t].run
    /\ triggerRt'[g].queued = triggerRt[g].queued
    /\ triggerRt'[g].recent = triggerRt[g].recent \/ Starting(g) = {}
    /\ triggerRt'[g].active = triggerRt[g].active

(* A step that does not disturb an opening.                                *)
LEMMA SingleKept ==
    ASSUME NEW g, Single(g), Undisturbed(g)
    PROVE  Single(g)'
<1>1. Starting(g)' = Starting(g)
  BY DEF Undisturbed, Starting
<1>2. \A t \in Starting(g) : triggerThr'[t].at = triggerThr[t].at /\ triggerThr'[t].run = triggerThr[t].run
  BY DEF Undisturbed, Starting
<1>3. \A t \in Starting(g) : triggerRt'[g].recent = triggerRt[g].recent
  BY DEF Undisturbed
<1> QED
  BY <1>1, <1>2, <1>3 DEF Single, Undisturbed

(* A thread that moves outside of a start.                                 *)
LEMMA QuietMove ==
    ASSUME NEW t \in TriggerThreads, NEW at, Moved(t, at), at \notin StartingAt,
           triggerThr[t].at \notin StartingAt, UNCHANGED triggered, NEW g \in Openings,
           triggerRt'[g].queued = triggerRt[g].queued,
           triggerRt'[g].recent = triggerRt[g].recent \/ Starting(g) = {},
           triggerRt'[g].active = triggerRt[g].active
    PROVE  Undisturbed(g)
  BY DEF Moved, Undisturbed, Starting, StartingAt, RunOf

(* Threads of one opening say nothing of another.                          *)
LEMMA OtherOpening ==
    ASSUME NEW t \in TriggerThreads, NEW at, Moved(t, at), NEW g \in Openings, g # t[1],
           RunOf(g)' \subseteq RunOf(g), triggerRt'[g] = triggerRt[g]
    PROVE  Undisturbed(g)
  BY DEF Moved, Undisturbed, Starting

(* The decision: only one of two looks at once.                            *)
LEMMA SingleDecide ==
    ASSUME TriggerBase, policy = "skip_if_running", NEW t \in TriggerThreads, decide(t),
           NEW g \in Openings, Single(g)
    PROVE  Single(g)'
<1>1. /\ triggerThr[t].at = "called" /\ t[1] \in Openings /\ triggerRt[t[1]] \in RuntimeType
      /\ triggerThr[t].back \notin StartingAt
  BY Decides, ThreadIsPair DEF TriggerBase, TriggerTypes, ThreadType, StartingAt
<1>2. UNCHANGED triggered
  BY DEF decide
<1>3. RunOf(g)' = RunOf(g)
  BY <1>2 DEF RunOf
<1>4. Moved(t, triggerThr[t].back) \/ Moved(t, "planning")
  BY Decides DEF TriggerBase
<1>5. CASE g # t[1]
  <2>1. triggerRt'[g] = triggerRt[g]
    BY <1>5, Decides DEF TriggerBase
  <2> QED
    BY <1>3, <1>4, <1>5, <2>1, OtherOpening, SingleKept
<1>6. CASE g = t[1]
  <2> DEFINE rt == triggerRt[g]
  <2>1. triggerRt'[g] = Decision(rt).rt /\ Decision(rt).rt.queued = rt.queued
    BY <1>1, <1>6, Decides, DecisionMeans DEF TriggerBase
  <2>2. CASE rt.recent
    <3>1. triggerRt'[g] = rt /\ Moved(t, triggerThr[t].back)
      BY <1>1, <1>6, <2>1, <2>2, Decides, DecisionMeans DEF TriggerBase
    <3>2. triggerThr[t].at \notin StartingAt
      BY <1>1 DEF StartingAt
    <3> QED
      BY <1>1, <1>2, <3>1, <3>2, QuietMove, SingleKept
  <2>3. CASE ~rt.recent
    <3>1. Starting(g) = {} /\ RunOf(g) \subseteq {rt.active}
      BY <2>3 DEF Single
    <3>2. rt.active = ActiveNow(rt) \/ RunOf(g) = {}
      BY <3>1 DEF ActiveNow, is_running, RunOf, NoTriggered
    <3>3. triggerRt'[g].active = ActiveNow(rt)
      BY <1>1, <1>6, <2>1, <2>3, DecisionMeans DEF TriggerBase
    <3>4. RunOf(g)' \subseteq {triggerRt'[g].active}
      BY <1>3, <3>1, <3>2, <3>3
    <3>5. CASE Moved(t, triggerThr[t].back)
      <4>1. Starting(g)' = {}
        BY <1>1, <3>1, <3>5 DEF Moved, Starting, StartingAt
      <4> QED
        BY <2>1, <3>4, <4>1 DEF Single
    <3>6. CASE Moved(t, "planning") /\ Decision(rt).start
      <4>1. Starting(g)' = {t} /\ triggerThr'[t].at = "planning"
        BY <1>6, <3>1, <3>6 DEF Moved, Starting
      <4>2. triggerRt'[g].recent /\ ~is_running(rt.active)
        BY <1>1, <1>6, <2>1, <2>3, <3>6, DecisionMeans DEF TriggerBase
      <4>3. RunOf(g)' = {}
        <5>1. triggered \in [1..MaxTriggered -> [of : 0..MaxOpens, live : BOOLEAN]]
          BY DEF TriggerBase, TriggerTypes
        <5>2. 0 \notin RunOf(g) /\ \A r \in RunOf(g) : triggered[r].live
          BY <5>1 DEF RunOf
        <5>3. rt.active \notin RunOf(g)
          BY <4>2, <5>2 DEF is_running, NoTriggered
        <5> HIDE DEF rt
        <5> QED
          BY <1>3, <3>1, <5>3
      <4>4. ~triggerRt'[g].queued
        BY <2>1 DEF Single
      <4> HIDE DEF rt
      <4> QED
        BY <4>1, <4>2, <4>3, <4>4 DEF Single
    <3> QED
      BY <1>6, <3>5, <3>6, Decides DEF TriggerBase
  <2> QED
    BY <2>2, <2>3
<1> QED
  BY <1>5, <1>6

(* The start: its opening has no run yet.                                  *)
LEMMA SingleStart ==
    ASSUME TriggerBase, NEW t \in TriggerThreads, start_run(t), NEW g \in Openings, Single(g)
    PROVE  Single(g)'
<1>1. /\ triggerThr[t].at = "planned" /\ t[1] \in Openings /\ t[1] # 0
      /\ triggerThr[t].back \notin StartingAt
  <2>1. triggerThr[t].at = "planned"
    BY StartsRun DEF TriggerBase
  <2>2. triggerThr[t] \in ThreadType
    BY DEF TriggerBase, TriggerTypes
  <2>3. triggerThr[t].back \notin StartingAt
    BY <2>2 DEF ThreadType, StartingAt
  <2> QED
    BY <2>1, <2>3, ThreadIsPair
<1>2. UNCHANGED triggerRt
  BY DEF start_run
<1>3. triggered \in [1..MaxTriggered -> [of : 0..MaxOpens, live : BOOLEAN]]
  BY DEF TriggerBase, TriggerTypes
<1>4. CASE Moved(t, triggerThr[t].back) /\ UNCHANGED triggered
  <2>1. RunOf(g)' = RunOf(g)
    BY <1>4 DEF RunOf
  <2>2. CASE g # t[1]
    BY <1>2, <1>4, <2>1, <2>2, OtherOpening, SingleKept
  <2>3. CASE g = t[1]
    <3>1. t \in Starting(g)
      BY <1>1, <2>3 DEF Starting
    <3>2. Starting(g) = {t} /\ RunOf(g) = {}
      BY <1>1, <3>1 DEF Single
    <3>3. Starting(g)' = {}
      BY <1>1, <1>4, <3>2 DEF Moved, Starting, StartingAt
    <3> QED
      BY <1>2, <2>1, <3>2, <3>3 DEF Single
  <2> QED
    BY <2>2, <2>3
<1>5. CASE /\ Moved(t, "started")
           /\ triggered[triggerThr'[t].run].of = 0
           /\ triggerThr'[t].run \in 1..MaxTriggered
           /\ triggered' = [triggered EXCEPT ![triggerThr'[t].run] = [of |-> t[1], live |-> TRUE]]
  <2>1. CASE g # t[1]
    <3>1. RunOf(g)' \subseteq RunOf(g)
      BY <1>3, <1>5, <2>1 DEF RunOf
    <3> QED
      BY <1>2, <1>5, <2>1, <3>1, OtherOpening, SingleKept
  <2>2. CASE g = t[1]
    <3>1. t \in Starting(g)
      BY <1>1, <2>2 DEF Starting
    <3>2. Starting(g) = {t} /\ RunOf(g) = {} /\ triggerRt[g].recent
      BY <1>1, <3>1 DEF Single
    <3>3. Starting(g)' = {t} /\ triggerThr'[t].at = "started"
      BY <1>5, <2>2, <3>2 DEF Moved, Starting
    <3>4. RunOf(g)' \subseteq {triggerThr'[t].run}
      BY <1>3, <1>5, <3>2 DEF RunOf
    <3> QED
      BY <1>2, <3>2, <3>3, <3>4 DEF Single
  <2> QED
    BY <2>1, <2>2
<1> QED
  BY <1>4, <1>5, StartsRun DEF TriggerBase

(* The other steps of a thread.                                            *)
LEMMA SingleDispatch ==
    ASSUME TriggerBase, policy = "skip_if_running", NEW t \in TriggerThreads, Dispatching(t),
           NEW g \in Openings, Single(g)
    PROVE  Single(g)'
<1>1. triggerThr[t].back \notin StartingAt /\ t[1] \in Openings
  BY ThreadIsPair DEF TriggerBase, TriggerTypes, ThreadType, StartingAt
<1>2. CASE remember(t)
  <2>1. triggerThr[t].at = "started" /\ Moved(t, triggerThr[t].back) /\ UNCHANGED triggered
    BY <1>2, Remembers DEF TriggerBase, remember
  <2>2. RunOf(g)' = RunOf(g)
    BY <2>1 DEF RunOf
  <2>3. CASE g # t[1]
    <3>1. triggerRt'[g] = triggerRt[g]
      BY <1>2, <2>3, Remembers DEF TriggerBase
    <3> QED
      BY <2>1, <2>2, <2>3, <3>1, OtherOpening, SingleKept
  <2>4. CASE g = t[1]
    <3>1. t \in Starting(g)
      BY <2>1, <2>4 DEF Starting
    <3>2. Starting(g) = {t} /\ RunOf(g) \subseteq {triggerThr[t].run}
      BY <2>1, <3>1 DEF Single
    <3>3. Starting(g)' = {}
      BY <1>1, <2>1, <3>2 DEF Moved, Starting, StartingAt
    <3>4. triggerRt'[g].active = triggerThr[t].run /\ triggerRt'[g].queued = triggerRt[g].queued
      BY <1>2, <2>4, Remembers DEF TriggerBase
    <3> QED
      BY <2>2, <3>2, <3>3, <3>4 DEF Single
  <2> QED
    BY <2>3, <2>4
<1>3. CASE pressed(t) \/ plan(t) \/ host_quits(t)
  <2>1. UNCHANGED <<triggerRt, triggered>>
    BY <1>3, OtherDispatch DEF TriggerBase
  <2>2. RunOf(g)' = RunOf(g)
    BY <2>1 DEF RunOf
  <2>3. CASE triggerThr[t].at = "listening" /\ (Moved(t, "called") \/ Moved(t, "off"))
    BY <2>1, <2>3, QuietMove, SingleKept DEF StartingAt
  <2>4. CASE triggerThr[t].at = "planning" /\ Moved(t, triggerThr[t].back)
    <3>1. CASE g # t[1]
      BY <2>1, <2>2, <2>4, <3>1, OtherOpening, SingleKept
    <3>2. CASE g = t[1]
      <4>1. t \in Starting(g)
        BY <2>4, <3>2 DEF Starting
      <4>2. Starting(g) = {t} /\ RunOf(g) = {}
        BY <2>4, <4>1 DEF Single
      <4>3. Starting(g)' = {}
        BY <1>1, <2>4, <4>2 DEF Moved, Starting, StartingAt
      <4> QED
        BY <2>1, <2>2, <4>2, <4>3 DEF Single
    <3> QED
      BY <3>1, <3>2
  <2>5. CASE triggerThr[t].at = "planning" /\ Moved(t, "planned")
    <3>1. CASE g # t[1]
      BY <2>1, <2>2, <2>5, <3>1, OtherOpening, SingleKept
    <3>2. CASE g = t[1]
      <4>1. t \in Starting(g)
        BY <2>5, <3>2 DEF Starting
      <4>2. Starting(g) = {t} /\ RunOf(g) = {} /\ triggerRt[g].recent
        BY <2>5, <4>1 DEF Single
      <4>3. Starting(g)' = {t}
        BY <2>5, <3>2, <4>2 DEF Moved, Starting
      <4> QED
        BY <2>1, <2>2, <4>2, <4>3 DEF Single
    <3> QED
      BY <3>1, <3>2
  <2> QED
    BY <1>3, <2>3, <2>4, <2>5, OtherDispatch DEF TriggerBase
<1> QED
  BY <1>2, <1>3, SingleDecide, SingleStart DEF Dispatching

(* A runtime's own steps start nothing, and no debounce passes under a     *)
(* start.                                                                  *)
LEMMA SinglePolling ==
    ASSUME TriggerBase, QuickStarts, policy = "skip_if_running", NEW o \in Openings, Polling(o),
           NEW g \in Openings, Single(g), ~triggerRt[o].queued
    PROVE  Single(g)'
<1> DEFINE t == <<o, Loop>>
<1>1. t \in TriggerThreads /\ triggerRt \in [Openings -> RuntimeType]
  BY ThreadIsPair DEF TriggerBase, TriggerTypes
<1>2. CASE poll(o)
  <2>1. triggerThr[t].at \notin StartingAt /\ triggerRt' = triggerRt /\ UNCHANGED triggered
    BY <1>2, Polls DEF TriggerBase, LoopLeaves, StartingAt
  <2>2. PICK at \in {"off", "called", "reading"} : Moved(t, at)
    BY <1>2, Polls DEF TriggerBase
  <2>3. at \notin StartingAt
    BY DEF StartingAt
  <2> HIDE DEF t
  <2> QED
    BY <1>1, <2>1, <2>2, <2>3, QuietMove, SingleKept
<1>3. CASE read_configuration(o)
  <2>1. triggerThr[t].at \notin StartingAt /\ LoopLeaves(o)
    BY <1>3, ReadsConfiguration DEF TriggerBase, StartingAt
  <2>2. PICK at \in {"scanning", "replacing"} : Moved(t, at)
    BY <1>3, ReadsConfiguration DEF TriggerBase
  <2>3. at \notin StartingAt
    BY DEF StartingAt
  <2>4. PICK kind \in Kinds, seen \in Nat :
           triggerRt' = [triggerRt EXCEPT ![o] = [triggerRt[o] EXCEPT !.kind = kind, !.seen = seen]]
    BY <1>3, ReadsConfiguration DEF TriggerBase
  <2>5. /\ triggerRt'[g].queued = triggerRt[g].queued /\ triggerRt'[g].recent = triggerRt[g].recent
        /\ triggerRt'[g].active = triggerRt[g].active
    BY <1>1, <2>4 DEF RuntimeType
  <2> HIDE DEF t
  <2> QED
    BY <1>1, <2>1, <2>2, <2>3, <2>5, QuietMove, SingleKept DEF LoopLeaves
<1>4. CASE scan(o)
  <2>1. triggerThr[t].at \notin StartingAt /\ triggerRt' = triggerRt /\ UNCHANGED triggered
    BY <1>4, OtherPolling DEF TriggerBase, LoopLeaves, StartingAt
  <2>2. PICK at \in {"waiting", "called"} : Moved(t, at)
    BY <1>4, OtherPolling DEF TriggerBase
  <2>3. at \notin StartingAt
    BY DEF StartingAt
  <2> HIDE DEF t
  <2> QED
    BY <1>1, <2>1, <2>2, <2>3, QuietMove, SingleKept
<1>5. CASE debounce_passes(o)
  <2>1. /\ UNCHANGED <<triggerThr, triggered>> /\ Starting(o) = {}
        /\ triggerRt' = [triggerRt EXCEPT ![o] = [triggerRt[o] EXCEPT !.recent = FALSE]]
    BY <1>5, OtherPolling DEF TriggerBase, LoopLeaves, debounce_passes
  <2>2. /\ triggerRt'[g].queued = triggerRt[g].queued /\ triggerRt'[g].active = triggerRt[g].active
        /\ triggerRt'[g].recent = triggerRt[g].recent \/ g = o
    BY <1>1, <2>1 DEF RuntimeType
  <2>3. Undisturbed(g)
    BY <2>1, <2>2 DEF Undisturbed, RunOf
  <2> QED
    BY <2>3, SingleKept
<1>6. CASE cooldown_passes(o)
  <2>1. /\ UNCHANGED <<triggerThr, triggered>>
        /\ triggerRt' = [triggerRt EXCEPT ![o] = [triggerRt[o] EXCEPT !.cooling = FALSE]]
    BY <1>6, OtherPolling DEF TriggerBase, LoopLeaves
  <2>2. /\ triggerRt'[g].queued = triggerRt[g].queued /\ triggerRt'[g].active = triggerRt[g].active
        /\ triggerRt'[g].recent = triggerRt[g].recent
    BY <1>1, <2>1 DEF RuntimeType
  <2>3. Undisturbed(g)
    BY <2>1, <2>2 DEF Undisturbed, RunOf
  <2> QED
    BY <2>3, SingleKept
<1>7. CASE replace_host(o)
  <2> DEFINE h == <<o, triggerRt[o].host + 1>>
  <2>1. /\ LoopLeaves(o) /\ triggerThr[t].at = "replacing" /\ triggerRt[o].host + 1 \in 0..MaxHosts
        /\ triggerRt' = [triggerRt EXCEPT ![o] = [triggerRt[o] EXCEPT !.host = triggerRt[o].host + 1]]
        /\ triggerThr'[t].at = "scanning" /\ triggerThr'[h].at = "listening"
        /\ \A u \in TriggerThreads \ {t, h} :
              triggerThr'[u].at = triggerThr[u].at /\ triggerThr'[u].run = triggerThr[u].run
    BY <1>7, ReplacesHost DEF TriggerBase
  <2>2. /\ triggerRt'[g].queued = triggerRt[g].queued /\ triggerRt'[g].active = triggerRt[g].active
        /\ triggerRt'[g].recent = triggerRt[g].recent
    BY <1>1, <2>1 DEF RuntimeType
  <2>3. h \in TriggerThreads /\ h[1] = o /\ h[2] = triggerRt[o].host + 1 /\ triggerRt[o].host \in Nat
    BY <1>1, <2>1, ThreadIsPair DEF RuntimeType
  <2>4. triggerThr[h].at = "off"
    <3>1. triggerRt[h[1]].host < h[2]
      BY <2>3
    <3> QED
      BY <2>3, <3>1 DEF TriggerBase, ThreadsExist
  <2> HIDE DEF t, h
  <2>5. \A u \in TriggerThreads :
          \/ triggerThr'[u].at = triggerThr[u].at /\ triggerThr'[u].run = triggerThr[u].run
          \/ triggerThr[u].at \notin StartingAt /\ triggerThr'[u].at \notin StartingAt
    BY <2>1, <2>4 DEF StartingAt
  <2>6. Undisturbed(g)
    BY <2>1, <2>2, <2>5 DEF Undisturbed, RunOf, Starting, StartingAt, LoopLeaves
  <2> QED
    BY <2>6, SingleKept
<1> QED
  BY <1>2, <1>3, <1>4, <1>5, <1>6, <1>7 DEF Polling

\* A trigger that skips while it runs, where a start takes less than the debounce.
SingleRuns ==
    QuickStarts /\ policy = "skip_if_running" => \A g \in Openings : Single(g)

(* No start is under way at first.                                         *)
LEMMA SingleInit == ASSUME TriggerInit PROVE SingleRuns
<1>1. ASSUME NEW g \in Openings PROVE Single(g)
  <2>1. Starting(g) = {}
    BY DEF TriggerInit, Starting, Off
  <2>2. RunOf(g) = {}
    BY DEF TriggerInit, RunOf
  <2>3. ~triggerRt[g].queued
    BY DEF TriggerInit, NewRuntime
  <2> QED
    BY <2>1, <2>2, <2>3 DEF Single
<1> QED
  BY <1>1 DEF SingleRuns

(* Every step keeps the runs of every opening single.                      *)
LEMMA SingleStep == ASSUME TriggerBase, SingleRuns, [TriggerNext]_triggerVars PROVE SingleRuns'
<1> SUFFICES ASSUME QuickStarts, policy' = "skip_if_running", NEW g \in Openings
             PROVE  Single(g)'
  BY DEF SingleRuns
<1>1. policy = policy'
  BY DEF TriggerNext, triggerVars, Dispatching, Polling, pressed, decide, plan, start_run, remember,
         host_quits, poll, read_configuration, replace_host, scan, debounce_passes, cooldown_passes,
         triggered_ends, save_trigger, open_project, opened_project
<1>2. \A o \in Openings : Single(o)
  BY <1>1 DEF SingleRuns
<1>3. \A o \in Openings : ~triggerRt[o].queued
  BY <1>2 DEF Single
<1>4. CASE UNCHANGED triggerVars
  BY <1>2, <1>4, SingleKept DEF triggerVars, Undisturbed, RunOf, Starting
<1>5. ASSUME NEW t \in TriggerThreads, Dispatching(t) PROVE Single(g)'
  BY <1>1, <1>2, <1>5, SingleDispatch
<1>6. ASSUME NEW o \in Openings, Polling(o) PROVE Single(g)'
  BY <1>1, <1>2, <1>3, <1>6, SinglePolling
<1>7. ASSUME NEW r \in 1..MaxTriggered, triggered_ends(r) PROVE Single(g)'
  <2>1. UNCHANGED <<triggerThr, triggerRt>>
    BY <1>7 DEF triggered_ends
  <2>2. triggered' = [triggered EXCEPT ![r] = [triggered[r] EXCEPT !.live = FALSE]]
    BY <1>7, EndsAndSaves DEF TriggerBase
  <2>3. triggered \in [1..MaxTriggered -> [of : 0..MaxOpens, live : BOOLEAN]]
    BY DEF TriggerBase, TriggerTypes
  <2>4. RunOf(g)' \subseteq RunOf(g)
    BY <2>2, <2>3 DEF RunOf
  <2> QED
    BY <1>2, <2>1, <2>4, SingleKept DEF Undisturbed, Starting
<1>8. ASSUME NEW kind \in Kinds, save_trigger(kind) PROVE Single(g)'
  BY <1>2, <1>8, SingleKept DEF save_trigger, Undisturbed, RunOf, Starting
<1>9. ASSUME NEW p \in {"own", "other"}, open_project(p) PROVE Single(g)'
  <2>1. /\ UNCHANGED triggered
        /\ \A u \in TriggerThreads :
              triggerThr'[u].at = triggerThr[u].at /\ triggerThr'[u].run = triggerThr[u].run
        /\ triggerRt'[g] = triggerRt[g] \/ triggerRt'[g] = [triggerRt[g] EXCEPT !.stop = TRUE]
    BY <1>9, OpeningBegins DEF TriggerBase
  <2>2. triggerRt[g] \in RuntimeType
    BY DEF TriggerBase, TriggerTypes
  <2>3. /\ triggerRt'[g].queued = triggerRt[g].queued /\ triggerRt'[g].active = triggerRt[g].active
        /\ triggerRt'[g].recent = triggerRt[g].recent
    BY <2>1, <2>2 DEF RuntimeType
  <2> QED
    BY <1>2, <2>1, <2>3, SingleKept DEF Undisturbed, RunOf, Starting
<1>10. ASSUME opened_project PROVE Single(g)'
  <2> DEFINE t == <<NextServed, Loop>>
  <2>1. /\ NextServed \in Openings /\ UNCHANGED <<triggerRt, triggered>>
        /\ UNCHANGED triggerThr \/ Moved(t, "waiting")
    BY <1>10, OpeningEnds DEF TriggerBase
  <2>2. t \in TriggerThreads /\ t[1] = NextServed
    BY <2>1, ThreadIsPair
  <2>3. triggerThr[t].at = "off"
    <3>1. Reopening \/ (NextServed = opening + 1 /\ projectOf[NextServed] = "none")
      BY <2>1, ThreadIsPair DEF NextServed, TriggerBase, ThreadsExist, TriggerTypes
    <3> QED
      BY <2>2, <3>1 DEF TriggerBase, ThreadsExist, NextServed
  <2>4. CASE UNCHANGED triggerThr
    BY <1>2, <2>1, <2>4, SingleKept DEF Undisturbed, RunOf, Starting
  <2>5. CASE Moved(t, "waiting")
    <3> HIDE DEF t
    <3> QED
      BY <1>2, <2>1, <2>2, <2>3, <2>5, QuietMove, SingleKept DEF StartingAt
  <2> QED
    BY <2>1, <2>4, <2>5
<1> QED
  BY <1>4, <1>5, <1>6, <1>7, <1>8, <1>9, <1>10 DEF TriggerNext, Kinds

(* Where a start takes less than the debounce, a trigger that skips while   *)
(* it runs never has two runs of one opening in progress.                   *)
THEOREM RunsAreSingle == QuickStarts => (TriggerSpec => []SkipMeansOne)
<1>1. TriggerInit => TriggerBase /\ SingleRuns
  BY BaseInit, SingleInit
<1>2. TriggerBase /\ SingleRuns /\ [TriggerNext]_triggerVars => TriggerBase' /\ SingleRuns'
  BY BaseStep, SingleStep
<1>3. ASSUME QuickStarts, TriggerBase, SingleRuns PROVE SkipMeansOne
  <2> SUFFICES ASSUME policy = "skip_if_running", NEW g \in Openings PROVE Cardinality(RunOf(g)) <= 1
    BY DEF SkipMeansOne
  <2>1. Single(g)
    BY <1>3 DEF SingleRuns
  <2>2. PICK r : RunOf(g) \subseteq {r}
    BY <2>1 DEF Single
  <2>3. RunOf(g) = {} \/ RunOf(g) = {r}
    BY <2>2
  <2>4. Cardinality({}) = 0 /\ Cardinality({r}) = 1
    BY FS_EmptySet, FS_Singleton
  <2> QED
    BY <2>3, <2>4
<1>4. ASSUME QuickStarts PROVE TriggerSpec => []SkipMeansOne
  <2>1. TriggerBase /\ SingleRuns => SkipMeansOne
    BY <1>3, <1>4
  <2> QED
    BY <1>1, <1>2, <2>1, PTL DEF TriggerSpec
<1> QED
  BY <1>4

-----------------------------------------------------------------------------
\* The generation whose threads may still start runs.
Served == IF Reopening THEN opening - 1 ELSE opening

\* Only the current host of the generation that is served, and its polling thread, are
\* past the last check of the workspace; what an earlier host still does waits for the
\* lock of an opening that ends that generation.
Closing ==
    \A t \in TriggerThreads :
       /\ triggerThr[t].at = "planned" => t[1] = Served
       /\ t[1] = Served /\ t[2] # Loop /\ t[2] # triggerRt[t[1]].host =>
             triggerThr[t].at = "off" \/ (triggerThr[t].at = "planning" /\ opener # "none")

(* A thread that moves does not belong to an earlier host.                 *)
LEMMA ClosingMoved ==
    ASSUME TriggerBase, Closing, NEW t \in TriggerThreads, NEW at, Moved(t, at),
           triggerThr[t].at # "off", triggerThr[t].at = "planning" => opener = "none",
           at = "planned" => t[1] = Served,
           \A g \in Openings : triggerRt'[g].host = triggerRt[g].host,
           UNCHANGED <<opening, projectOf, opener>>
    PROVE  Closing'
<1>1. Served' = Served
  BY DEF Served, Reopening
<1>2. ASSUME NEW u \in TriggerThreads
      PROVE  /\ triggerThr'[u].at = "planned" => u[1] = Served
             /\ u[1] = Served /\ u[2] # Loop /\ u[2] # triggerRt'[u[1]].host =>
                   triggerThr'[u].at = "off" \/ (triggerThr'[u].at = "planning" /\ opener # "none")
  <2>1. triggerRt'[u[1]].host = triggerRt[u[1]].host
    BY ThreadIsPair
  <2>2. CASE u = t
    BY <2>1, <2>2 DEF Closing, Moved
  <2>3. CASE u # t
    BY <2>1, <2>3 DEF Closing, Moved
  <2> QED
    BY <2>2, <2>3
<1> QED
  BY <1>1, <1>2 DEF Closing

(* Where nobody moves nothing changes.                                     *)
LEMMA ClosingKept ==
    ASSUME TriggerBase, Closing,
           \A u \in TriggerThreads : triggerThr'[u].at = triggerThr[u].at,
           \A g \in Openings : triggerRt'[g].host = triggerRt[g].host,
           UNCHANGED <<opening, projectOf, opener>>
    PROVE  Closing'
<1>1. Served' = Served
  BY DEF Served, Reopening
<1> QED
  BY <1>1, ThreadIsPair DEF Closing

(* The steps of a dispatch.                                                *)
LEMMA ClosingDispatch ==
    ASSUME TriggerBase, Closing, NEW t \in TriggerThreads, Dispatching(t)
    PROVE  Closing'
<1>1. /\ triggerThr[t].back # "planned" /\ t[1] \in Openings /\ triggerRt[t[1]] \in RuntimeType
  BY ThreadIsPair DEF TriggerBase, TriggerTypes, ThreadType
<1>2. CASE decide(t)
  <2>1. \A g \in Openings : triggerRt'[g].host = triggerRt[g].host
    BY <1>1, <1>2, Decides, DecisionMeans DEF TriggerBase
  <2>2. UNCHANGED <<opening, projectOf, opener>>
    BY <1>2 DEF decide
  <2>3. triggerThr[t].at = "called"
    BY <1>2, Decides DEF TriggerBase
  <2>4. PICK at \in {"planning", triggerThr[t].back} : Moved(t, at)
    BY <1>2, Decides DEF TriggerBase
  <2> QED
    BY <1>1, <2>1, <2>2, <2>3, <2>4, ClosingMoved
<1>3. CASE start_run(t)
  <2>1. UNCHANGED <<opening, projectOf, opener, triggerRt>>
    BY <1>3 DEF start_run
  <2>2. triggerThr[t].at = "planned"
    BY <1>3, StartsRun DEF TriggerBase
  <2>3. PICK at \in {"started", triggerThr[t].back} : Moved(t, at)
    BY <1>3, StartsRun DEF TriggerBase
  <2> QED
    BY <1>1, <2>1, <2>2, <2>3, ClosingMoved
<1>4. CASE remember(t)
  <2>1. UNCHANGED <<opening, projectOf, opener>>
    BY <1>4 DEF remember
  <2>2. triggerThr[t].at = "started" /\ Moved(t, triggerThr[t].back)
    BY <1>4, Remembers DEF TriggerBase
  <2>3. \A g \in Openings : triggerRt'[g].host = triggerRt[g].host
    BY <1>1, <1>4, Remembers DEF TriggerBase
  <2> QED
    BY <1>1, <2>1, <2>2, <2>3, ClosingMoved
<1>5. CASE pressed(t) \/ plan(t) \/ host_quits(t)
  <2>1. UNCHANGED <<opening, projectOf, opener, triggerRt>>
    BY <1>5, OtherDispatch DEF TriggerBase
  <2>2. triggerThr[t].at = "planning" => opener = "none"
    BY <1>5 DEF pressed, plan, host_quits
  <2>3. CASE triggerThr[t].at = "planning" /\ Moved(t, "planned") /\ opener = "none" /\ t[1] = opening
    <3>1. t[1] = Served
      BY <2>3 DEF Served, Reopening
    <3> QED
      BY <2>1, <2>3, <3>1, ClosingMoved
  <2>4. CASE triggerThr[t].at # "off" /\ \E at \in {"called", "off", triggerThr[t].back} : Moved(t, at)
    <3>1. PICK at \in {"called", "off", triggerThr[t].back} : Moved(t, at)
      BY <2>4
    <3> QED
      BY <1>1, <2>1, <2>2, <2>4, <3>1, ClosingMoved
  <2> QED
    BY <1>5, <2>3, <2>4, OtherDispatch DEF TriggerBase
<1> QED
  BY <1>2, <1>3, <1>4, <1>5 DEF Dispatching

(* The steps of a runtime: a new host begins once the one before is done,   *)
(* or waits for the lock of the opening.                                    *)
LEMMA ClosingPolling ==
    ASSUME QuickStarts, TriggerBase, Closing, NEW g \in Openings, Polling(g)
    PROVE  Closing'
<1> DEFINE t == <<g, Loop>>
<1>1. t \in TriggerThreads /\ t[1] = g /\ triggerRt[g] \in RuntimeType /\ triggerRt \in [Openings -> RuntimeType]
  BY ThreadIsPair DEF TriggerBase, TriggerTypes
<1>2. CASE poll(g)
  <2>1. triggerThr[t].at = "waiting" /\ LoopLeaves(g) /\ triggerRt'[g].host = triggerRt[g].host
    BY <1>2, Polls DEF TriggerBase
  <2>2. PICK at \in {"called", "reading", "off"} : Moved(t, at)
    BY <1>2, Polls DEF TriggerBase
  <2> QED
    BY <1>1, <2>1, <2>2, ClosingMoved DEF LoopLeaves
<1>3. CASE read_configuration(g)
  <2>1. triggerThr[t].at = "reading" /\ LoopLeaves(g)
    BY <1>3, ReadsConfiguration DEF TriggerBase
  <2>2. triggerRt'[g].host = triggerRt[g].host
    <3>1. PICK kind \in Kinds, seen \in Nat :
             triggerRt' = [triggerRt EXCEPT ![g] = [triggerRt[g] EXCEPT !.kind = kind, !.seen = seen]]
      BY <1>3, ReadsConfiguration DEF TriggerBase
    <3> QED
      BY <1>1, <3>1 DEF RuntimeType
  <2>3. PICK at \in {"scanning", "replacing"} : Moved(t, at)
    BY <1>3, ReadsConfiguration DEF TriggerBase
  <2> QED
    BY <1>1, <2>1, <2>2, <2>3, ClosingMoved DEF LoopLeaves
<1>4. CASE scan(g)
  <2>1. triggerThr[t].at = "scanning" /\ LoopLeaves(g) /\ UNCHANGED triggerRt
    BY <1>4, OtherPolling DEF TriggerBase
  <2>2. PICK at \in {"called", "waiting"} : Moved(t, at)
    BY <1>4, OtherPolling DEF TriggerBase
  <2> QED
    BY <1>1, <2>1, <2>2, ClosingMoved DEF LoopLeaves
<1>5. CASE debounce_passes(g) \/ cooldown_passes(g)
  <2>1. LoopLeaves(g) /\ UNCHANGED triggerThr
    BY <1>5, OtherPolling DEF TriggerBase
  <2>2. triggerRt'[g].host = triggerRt[g].host
    <3>1. \/ triggerRt' = [triggerRt EXCEPT ![g] = [triggerRt[g] EXCEPT !.recent = FALSE]]
          \/ triggerRt' = [triggerRt EXCEPT ![g] = [triggerRt[g] EXCEPT !.cooling = FALSE]]
      BY <1>5, OtherPolling DEF TriggerBase
    <3> QED
      BY <1>1, <3>1 DEF RuntimeType
  <2> QED
    BY <2>1, <2>2, ClosingKept DEF LoopLeaves
<1>6. CASE replace_host(g)
  <2> DEFINE n == triggerRt[g].host
             h == <<g, n + 1>>
             old == <<g, n>>
  <2>1. /\ LoopLeaves(g) /\ triggerThr[t].at = "replacing" /\ n + 1 \in 0..MaxHosts
        /\ JoinedHost(old)
        /\ triggerRt' = [triggerRt EXCEPT ![g] = [triggerRt[g] EXCEPT !.host = n + 1]]
        /\ triggerThr'[t].at = "scanning" /\ triggerThr'[h].at = "listening"
        /\ \A u \in TriggerThreads \ {t, h} : triggerThr'[u].at = triggerThr[u].at
    BY <1>6, ReplacesHost DEF TriggerBase
  <2>2. triggerRt'[g].host = n + 1 /\ n \in Nat
    BY <1>1, <2>1 DEF RuntimeType
  <2>3. Served' = Served /\ opener' = opener
    BY <2>1 DEF Served, Reopening, LoopLeaves
  <2>4. ASSUME NEW u \in TriggerThreads
        PROVE  /\ triggerThr'[u].at = "planned" => u[1] = Served
               /\ u[1] = Served /\ u[2] # Loop /\ u[2] # triggerRt'[u[1]].host =>
                     triggerThr'[u].at = "off" \/ (triggerThr'[u].at = "planning" /\ opener # "none")
    <3>1. u[1] \in Openings /\ u = <<u[1], u[2]>>
      BY ThreadIsPair
    <3>2. CASE u = t
      BY <2>1, <3>2
    <3>3. CASE u = h
      BY <2>1, <2>2, <3>3
    <3>4. CASE u # t /\ u # h
      <4>1. triggerThr'[u].at = triggerThr[u].at
        <5> HIDE DEF t, h
        <5> QED
          BY <2>1, <3>4
      <4>2. CASE u[1] # g
        <5>1. triggerRt'[u[1]] = triggerRt[u[1]]
          BY <2>1, <3>1, <4>2 DEF LoopLeaves
        <5> QED
          BY <4>1, <5>1 DEF Closing
      <4>3. CASE u[1] = g /\ u[2] # n
        BY <4>1, <4>3 DEF Closing
      <4>4. CASE u = old
        <5>1. \/ n = 0
              \/ triggerThr[u].at = "off"
              \/ triggerThr[u].at = "planning" /\ opener # "none"
          BY <2>1, <4>4 DEF JoinedHost
        <5> QED
          BY <4>1, <4>4, <5>1 DEF Closing, Loop
      <4> QED
        BY <3>1, <4>2, <4>3, <4>4
    <3> QED
      BY <3>2, <3>3, <3>4
  <2> QED
    BY <2>3, <2>4 DEF Closing
<1> QED
  BY <1>2, <1>3, <1>4, <1>5, <1>6 DEF Polling

(* Opening a project: the new generation is served once the old one cannot  *)
(* start anything.                                                          *)
LEMMA ClosingWorkspace ==
    ASSUME QuickStarts, TriggerBase, Closing
    PROVE  /\ \A p \in {"own", "other"} : open_project(p) => Closing'
           /\ opened_project => Closing'
<1>1. ASSUME NEW p \in {"own", "other"}, open_project(p) PROVE Closing'
  <2>1. /\ \A u \in TriggerThreads : triggerThr'[u].at = triggerThr[u].at
        /\ \A g \in Openings : \/ triggerRt'[g] = triggerRt[g]
                                \/ triggerRt'[g] = [triggerRt[g] EXCEPT !.stop = TRUE]
    BY <1>1, OpeningBegins DEF TriggerBase
  <2>2. \A g \in Openings : triggerRt'[g].host = triggerRt[g].host
    <3>1. \A g \in Openings : triggerRt[g] \in RuntimeType
      BY DEF TriggerBase, TriggerTypes
    <3> QED
      BY <2>1, <3>1 DEF RuntimeType
  <2>3. /\ opener = "none" /\ opener' = p /\ opening \in 0..MaxOpens /\ opening < MaxOpens /\ MaxOpens \in Nat
        /\ projectOf \in [Openings -> Projects] /\ Openings = 1..MaxOpens
    BY <1>1, ThreadIsPair DEF open_project, TriggerBase, TriggerTypes
  <2>4. Served' = Served
    <3>1. Served = opening
      BY <2>3 DEF Served, Reopening
    <3>2. CASE opening # 0 /\ projectOf[opening] = p
      <4>1. opening' = opening + 1 /\ projectOf' = [projectOf EXCEPT ![opening + 1] = p]
        BY <1>1, <3>2 DEF open_project
      <4>2. Reopening'
        BY <2>3, <4>1 DEF Reopening
      <4> QED
        BY <2>3, <3>1, <4>1, <4>2 DEF Served
    <3>3. CASE ~(opening # 0 /\ projectOf[opening] = p)
      <4>1. UNCHANGED <<opening, projectOf>>
        BY <1>1, <3>3 DEF open_project
      <4>2. ~Reopening'
        BY <2>3, <3>3, <4>1 DEF Reopening
      <4> QED
        BY <3>1, <4>1, <4>2 DEF Served
    <3> QED
      BY <3>2, <3>3
  <2> QED
    BY <2>1, <2>2, <2>3, <2>4, ThreadIsPair DEF Closing
<1>2. ASSUME opened_project PROVE Closing'
  <2> DEFINE t == <<NextServed, Loop>>
  <2>1. /\ NextServed \in Openings
        /\ opening' = NextServed /\ opener' = "none" /\ opener # "none"
        /\ UNCHANGED triggerRt
        /\ UNCHANGED triggerThr \/ Moved(t, "waiting")
    BY <1>2, OpeningEnds DEF TriggerBase
  <2>2. t \in TriggerThreads /\ t[1] = NextServed /\ t[2] = Loop
        /\ opening \in Nat /\ Openings = 1..MaxOpens /\ MaxOpens \in Nat
    BY <2>1, ThreadIsPair DEF TriggerBase, TriggerTypes
  <2>3. Served' = NextServed
    BY <2>1 DEF Served, Reopening
  <2>4. \A u \in TriggerThreads : u[1] = NextServed => triggerThr[u].at = "off"
    <3>1. Reopening \/ (NextServed = opening + 1 /\ projectOf[NextServed] = "none")
      BY <2>1, <2>2 DEF NextServed, TriggerBase, ThreadsExist
    <3> QED
      BY <3>1 DEF TriggerBase, ThreadsExist, NextServed
  <2>5. HasRuntime(Served) => JoinedHost(<<Served, triggerRt[Served].host>>) /\ JoinedLoop(Served)
    BY <1>2, <2>1 DEF opened_project, Served, Reopening
  <2>6. ASSUME NEW u \in TriggerThreads PROVE triggerThr[u].at # "planned"
    <3>1. SUFFICES ASSUME triggerThr[u].at = "planned" PROVE FALSE
      OBVIOUS
    <3>2. u[1] = Served /\ u[1] \in Openings /\ u = <<u[1], u[2]>>
      BY <3>1, ThreadIsPair DEF Closing
    <3>3. HasRuntime(Served)
      BY <2>2, <3>1, <3>2 DEF HasRuntime, TriggerBase, ThreadsExist
    <3>4. u[2] = Loop \/ u[2] = triggerRt[u[1]].host
      BY <3>1, <3>2 DEF Closing
    <3>5. CASE u[2] = Loop
      BY <2>5, <3>1, <3>2, <3>3, <3>5 DEF JoinedLoop
    <3>6. CASE u[2] # Loop /\ u = <<Served, triggerRt[Served].host>>
      <4>1. JoinedHost(u)
        BY <2>5, <3>3, <3>6
      <4> QED
        BY <3>1, <3>6, <4>1 DEF JoinedHost, Loop
    <3> QED
      BY <3>2, <3>4, <3>5, <3>6
  <2>7. ASSUME NEW u \in TriggerThreads
        PROVE  /\ triggerThr'[u].at # "planned"
               /\ u[1] = NextServed /\ u[2] # Loop => triggerThr'[u].at = "off"
    <3>1. CASE UNCHANGED triggerThr
      BY <2>4, <2>6, <3>1
    <3>2. CASE Moved(t, "waiting") /\ u = t
      BY <2>2, <3>2 DEF Moved
    <3>3. CASE Moved(t, "waiting") /\ u # t
      BY <2>4, <2>6, <3>3 DEF Moved
    <3> QED
      BY <2>1, <3>1, <3>2, <3>3
  <2> QED
    BY <2>3, <2>7 DEF Closing
<1> QED
  BY <1>1, <1>2

(* Nothing is planned at first.                                            *)
LEMMA ClosingInit == ASSUME TriggerInit PROVE Closing
  BY DEF TriggerInit, Off, Closing

(* Every step keeps it so.                                                 *)
LEMMA ClosingStep == ASSUME QuickStarts, TriggerBase, Closing, [TriggerNext]_triggerVars PROVE Closing'
<1>1. CASE UNCHANGED triggerVars
  BY <1>1, ClosingKept DEF triggerVars
<1>2. ASSUME NEW r \in 1..MaxTriggered, triggered_ends(r) PROVE Closing'
  BY <1>2, ClosingKept DEF triggered_ends
<1>3. ASSUME NEW kind \in Kinds, save_trigger(kind) PROVE Closing'
  BY <1>3, ClosingKept DEF save_trigger
<1> QED
  BY <1>1, <1>2, <1>3, ClosingDispatch, ClosingPolling, ClosingWorkspace DEF TriggerNext, Kinds

(* A run is started by a thread of the project that is open.               *)
LEMMA StartsForOpen ==
    ASSUME TriggerBase, Closing, [TriggerNext]_triggerVars, NEW r \in 1..MaxTriggered,
           triggered[r].of = 0, triggered'[r].of # 0
    PROVE  projectOf[triggered'[r].of] = projectOf[opening]
<1>1. triggered' # triggered
  OBVIOUS
<1>2. triggered \in [1..MaxTriggered -> [of : 0..MaxOpens, live : BOOLEAN]]
  BY DEF TriggerBase, TriggerTypes
<1>3. PICK t \in TriggerThreads : start_run(t)
  <2>1. ASSUME NEW q \in 1..MaxTriggered, triggered_ends(q) PROVE FALSE
    <3>1. triggered' = [triggered EXCEPT ![q].live = FALSE]
      BY <2>1 DEF triggered_ends
    <3>2. triggered'[r].of = triggered[r].of
      <4>1. CASE q = r
        BY <1>2, <3>1, <4>1
      <4>2. CASE q # r
        BY <1>2, <3>1, <4>2
      <4> QED
        BY <4>1, <4>2
    <3> QED
      BY <3>2
  <2> QED
    BY <1>1, <2>1 DEF TriggerNext, triggerVars, Dispatching, Polling, pressed, decide, plan, remember,
         host_quits, poll, read_configuration, replace_host, scan, debounce_passes, cooldown_passes,
         save_trigger, open_project, opened_project
<1>4. triggerThr[t].at = "planned"
  BY <1>3 DEF start_run
<1>5. triggered'[r].of = t[1]
  <2>1. PICK q \in 1..MaxTriggered : triggered' = [triggered EXCEPT ![q] = [of |-> t[1], live |-> TRUE]]
    BY <1>1, <1>2, <1>3 DEF start_run
  <2>2. q = r
    BY <1>2, <2>1
  <2> QED
    BY <1>2, <2>1, <2>2
<1>6. t[1] = Served
  BY <1>4 DEF Closing
<1>7. Reopening => projectOf[opening - 1] = projectOf[opening]
  BY DEF TriggerBase, ThreadsExist, Reopening
<1> QED
  BY <1>5, <1>6, <1>7 DEF Served

(* Where a start takes less than the two seconds that stop waits, no run of *)
(* a project's triggers starts once another project is open.                *)
THEOREM NothingStartsClosed == QuickStarts => (TriggerSpec => ClosedStartsNothing)
<1>1. TriggerInit => TriggerBase /\ Closing
  BY BaseInit, ClosingInit
<1>2. ASSUME QuickStarts
      PROVE  TriggerBase /\ Closing /\ [TriggerNext]_triggerVars => TriggerBase' /\ Closing'
  BY <1>2, BaseStep, ClosingStep
<1>3. TriggerBase /\ Closing /\ [TriggerNext]_triggerVars =>
         [\A r \in 1..MaxTriggered :
            triggered[r].of = 0 /\ triggered'[r].of # 0
            => projectOf[triggered'[r].of] = projectOf[opening]]_triggerVars
  BY StartsForOpen
<1>4. ASSUME QuickStarts PROVE TriggerSpec => ClosedStartsNothing
  <2>1. TriggerBase /\ Closing /\ [TriggerNext]_triggerVars => TriggerBase' /\ Closing'
    BY <1>2, <1>4
  <2> QED
    BY <1>1, <1>3, <2>1, PTL DEF TriggerSpec, ClosedStartsNothing
<1> QED
  BY <1>4
=============================================================================
