--------------------------- MODULE ProjectMutation ---------------------------
(***************************************************************************)
(* Journaled project mutations (core/vnext/mutation.py) and the recovery    *)
(* that opening a project runs first (core/vnext/workspace.py, open).       *)
(*                                                                         *)
(* A writer stages a transaction in a directory of its own, writes the      *)
(* journal, replaces the project's files one by one, writes the commit      *)
(* marker and removes the directory.  Every file replacement is atomic      *)
(* (temporary file, fsync, os.replace); the process may stop between any    *)
(* two of them.  The caller of a transaction and open hold the workspace    *)
(* lock, except the writers in Unlocked (repair_control_selector).          *)
(*                                                                         *)
(* The operations of a transaction are applied and restored in an arbitrary *)
(* order: the code follows the order of the caller's mapping.               *)
(***************************************************************************)
EXTENDS Naturals, FiniteSets

CONSTANTS
    Files,          \* project-relative paths
    Contents,       \* contents of a file
    Absent,         \* the path has no file
    Txns,           \* transaction ids; bounds the directories that exist at once
    Writers,        \* threads that apply transactions
    Unlocked,       \* writers whose caller does not take the workspace lock
    WriteFaults,    \* whether a staged file or a journal may fail to be written
    RestoreFaults,  \* whether a backup may fail to be written back
    RemoveFaults,   \* whether a file of a transaction directory may resist removal
    MaxCrashes      \* bound: how often the process stops

ASSUME MutationAssumption ==
    /\ Absent \notin Contents /\ Txns # {}
    /\ Unlocked \subseteq Writers
    /\ WriteFaults \in BOOLEAN /\ RestoreFaults \in BOOLEAN /\ RemoveFaults \in BOOLEAN
    /\ MaxCrashes \in Nat

Value == Contents \cup {Absent}

\* The replacements of one transaction; Absent deletes the path.
Changes == UNION {[S -> Value] : S \in SUBSET Files \ {{}}}

JournalState == {"staging", "prepared", "committing", "committed", "rolled_back"}

\* A journal: the state, the replacements and the original of every path.
Journal ==
    {j \in [state : JournalState \cup {"missing"},
            change : Changes \cup {[f \in {} |-> Absent]},
            orig : Changes \cup {[f \in {} |-> Absent]}] :
        DOMAIN j.orig = DOMAIN j.change}

NoJournal ==
    [state |-> "missing", change |-> [f \in {} |-> Absent], orig |-> [f \in {} |-> Absent]]

\* A transaction directory: its journal.json, and whether staged/ and backup/
\* are complete.
Directory == [exists : BOOLEAN, journal : Journal, data : BOOLEAN]
NoDirectory == [exists |-> FALSE, journal |-> NoJournal, data |-> FALSE]

VARIABLES
    disk,     \* the project's files
    dirs,     \* .easycode/transactions
    thr,      \* writer -> where it is, its transaction, its journal in memory
    rec,      \* the recovery that open runs
    opened,   \* a workspace of the project is active
    refused,  \* the last open ended with "project transaction recovery failed"
    crashes

vars == <<disk, dirs, thr, rec, opened, refused, crashes>>

WriterPC == {"idle", "staging", "prepared", "applying", "restoring", "removing"}
RecoveryPC == {"idle", "scanning", "restoring", "removing"}

Writer == [pc : WriterPC, txn : Txns, journal : Journal, done : SUBSET Files]
RecoveryState ==
    [pc : RecoveryPC, txn : Txns, todo : SUBSET Txns, journal : Journal, done : SUBSET Files]

AnyTxn == CHOOSE t \in Txns : TRUE
IdleWriter == [pc |-> "idle", txn |-> AnyTxn, journal |-> NoJournal, done |-> {}]
IdleRecovery ==
    [pc |-> "idle", txn |-> AnyTxn, todo |-> {}, journal |-> NoJournal, done |-> {}]

\* Mutant: open looks for another open only.
OpensBesideWriters == rec.pc = "idle"

\* The workspace lock (VNextWorkspaceContext.lock) is free.
LockFree ==
    /\ rec.pc = "idle"
    /\ \A w \in Writers \ Unlocked : thr[w].pc = "idle"

Paths(j) == DOMAIN j.change

----------------------------------------------------------------------------
Init ==
    /\ disk \in [Files -> Value]
    /\ dirs = [t \in Txns |-> NoDirectory]
    /\ thr = [w \in Writers |-> IdleWriter]
    /\ rec = IdleRecovery
    /\ opened = FALSE
    /\ refused = FALSE
    /\ crashes = 0

----------------------------------------------------------------------------
(* apply: stage, then commit.                                              *)

\* The writer goes on at pc with the journal j in memory.
Goto(w, pc, j) ==
    thr' = [thr EXCEPT ![w] = [pc |-> pc, txn |-> thr[w].txn, journal |-> j, done |-> {}]]

Done(w, f) ==
    thr' = [thr EXCEPT ![w] = [pc |-> thr[w].pc, txn |-> thr[w].txn, journal |-> thr[w].journal,
                               done |-> thr[w].done \cup {f}]]

Finish(w) == thr' = [thr EXCEPT ![w] = IdleWriter]

\* txn_<uuid4>: no directory and no running code has this id.
Fresh(t) ==
    /\ ~dirs[t].exists
    /\ \A w \in Writers : thr[w].pc # "idle" => thr[w].txn # t
    /\ rec.pc # "idle" => t \notin rec.todo

\* _atomic_write_json(journal_path, journal): also recreates the directory.
WithJournal(t, j) ==
    [dirs EXCEPT ![t] = [exists |-> TRUE, journal |-> j, data |-> dirs[t].data]]

\* stage up to the journal: backups and staged contents are on disk.
stage(w, t, change) ==
    /\ opened
    /\ thr[w].pc = "idle"
    /\ w \in Unlocked \/ LockFree
    /\ Fresh(t)
    /\ dirs' = [dirs EXCEPT ![t] = [exists |-> TRUE, journal |-> NoJournal, data |-> TRUE]]
    /\ thr' = [thr EXCEPT ![w] =
                  [pc |-> "staging", txn |-> t, done |-> {},
                   journal |-> [state |-> "staging", change |-> change,
                                orig |-> [f \in DOMAIN change |-> disk[f]]]]]
    /\ UNCHANGED <<disk, rec, opened, refused, crashes>>

\* The journal of a complete stage.
prepare(w) ==
    LET j == [thr[w].journal EXCEPT !.state = "prepared"] IN
    /\ thr[w].pc = "staging"
    /\ Goto(w, "prepared", j)
    /\ dirs' = WithJournal(thr[w].txn, j)
    /\ UNCHANGED <<disk, rec, opened, refused, crashes>>

\* A write of stage fails, or a later path of the mapping is invalid or a
\* duplicate: apply removes the directory.
stage_fails(w) ==
    /\ thr[w].pc = "staging"
    /\ Goto(w, "removing", thr[w].journal)
    /\ UNCHANGED <<disk, dirs, rec, opened, refused, crashes>>

\* _verify_originals
OriginalsUnchanged(j) == \A f \in Paths(j) : disk[f] = j.orig[f]

commit(w) ==
    LET j == [thr[w].journal EXCEPT !.state = "committing"] IN
    /\ thr[w].pc = "prepared"
    /\ OriginalsUnchanged(j)
    /\ Goto(w, "applying", j)
    /\ dirs' = WithJournal(thr[w].txn, j)
    /\ UNCHANGED <<disk, rec, opened, refused, crashes>>

\* A file changed since stage read it: apply removes the directory.
commit_refused(w) ==
    /\ thr[w].pc = "prepared"
    /\ ~OriginalsUnchanged(thr[w].journal)
    /\ Goto(w, "removing", thr[w].journal)
    /\ UNCHANGED <<disk, dirs, rec, opened, refused, crashes>>

\* The "committing" journal is not written: the exception leaves the prepared
\* directory behind.
commit_not_started(w) ==
    /\ WriteFaults
    /\ thr[w].pc = "prepared"
    /\ OriginalsUnchanged(thr[w].journal)
    /\ Finish(w)
    /\ UNCHANGED <<disk, dirs, rec, opened, refused, crashes>>

StagedReadable(w, f) == thr[w].journal.change[f] = Absent \/ dirs[thr[w].txn].data

apply_file(w, f) ==
    /\ thr[w].pc = "applying"
    /\ f \in Paths(thr[w].journal) \ thr[w].done
    /\ StagedReadable(w, f)
    /\ disk' = [disk EXCEPT ![f] = thr[w].journal.change[f]]
    /\ Done(w, f)
    /\ UNCHANGED <<dirs, rec, opened, refused, crashes>>

\* Mutant: a failed replacement ends the transaction without _restore.
ApplyFailsUnrestored(w) ==
    /\ thr[w].pc = "applying"
    /\ \E f \in Paths(thr[w].journal) \ thr[w].done : WriteFaults \/ ~StagedReadable(w, f)
    /\ Finish(w)
    /\ UNCHANGED <<disk, dirs, rec, opened, refused, crashes>>

apply_fails(w) ==
    /\ thr[w].pc = "applying"
    /\ \E f \in Paths(thr[w].journal) \ thr[w].done : WriteFaults \/ ~StagedReadable(w, f)
    /\ Goto(w, "restoring", thr[w].journal)
    /\ UNCHANGED <<disk, dirs, rec, opened, refused, crashes>>

\* The commit marker; then the directory is removed and apply returns.
write_marker(w) ==
    LET j == [thr[w].journal EXCEPT !.state = "committed"] IN
    /\ thr[w].pc = "applying"
    /\ thr[w].done = Paths(j)
    /\ Goto(w, "removing", j)
    /\ dirs' = WithJournal(thr[w].txn, j)
    /\ UNCHANGED <<disk, rec, opened, refused, crashes>>

\* Mutant: the failure comes after the marker is on disk.
MarkerThenFails(w) ==
    LET j == [thr[w].journal EXCEPT !.state = "committed"] IN
    /\ WriteFaults
    /\ thr[w].pc = "applying"
    /\ thr[w].done = Paths(j)
    /\ Goto(w, "restoring", j)
    /\ dirs' = WithJournal(thr[w].txn, j)
    /\ UNCHANGED <<disk, rec, opened, refused, crashes>>

\* The marker is not written; the journal in memory already says committed.
marker_fails(w) ==
    /\ WriteFaults
    /\ thr[w].pc = "applying"
    /\ thr[w].done = Paths(thr[w].journal)
    /\ Goto(w, "restoring", [thr[w].journal EXCEPT !.state = "committed"])
    /\ UNCHANGED <<disk, dirs, rec, opened, refused, crashes>>

----------------------------------------------------------------------------
(* _restore                                                                *)

BackupReadable(j, t, f) == j.orig[f] = Absent \/ dirs[t].data

restore_file(w, f) ==
    /\ thr[w].pc = "restoring"
    /\ f \in Paths(thr[w].journal) \ thr[w].done
    /\ BackupReadable(thr[w].journal, thr[w].txn, f)
    /\ disk' = [disk EXCEPT ![f] = thr[w].journal.orig[f]]
    /\ Done(w, f)
    /\ UNCHANGED <<dirs, rec, opened, refused, crashes>>

\* _restore raises; the finally clause goes by the state in memory.
restore_fails(w) ==
    /\ thr[w].pc = "restoring"
    /\ \E f \in Paths(thr[w].journal) \ thr[w].done :
          RestoreFaults \/ ~BackupReadable(thr[w].journal, thr[w].txn, f)
    /\ IF thr[w].journal.state = "committed" THEN Goto(w, "removing", thr[w].journal) ELSE Finish(w)
    /\ UNCHANGED <<disk, dirs, rec, opened, refused, crashes>>

\* Everything is restored; the journal says so, if it can be written.
rolled_back(w) ==
    LET j == [thr[w].journal EXCEPT !.state = "rolled_back"] IN
    /\ thr[w].pc = "restoring"
    /\ thr[w].done = Paths(j)
    /\ Goto(w, "removing", j)
    /\ \/ dirs' = WithJournal(thr[w].txn, j)
       \/ WriteFaults /\ UNCHANGED dirs
    /\ UNCHANGED <<disk, rec, opened, refused, crashes>>

----------------------------------------------------------------------------
(* shutil.rmtree: the journal and the data go in either order, then the     *)
(* directory.                                                               *)

RemovePart(t) ==
    /\ dirs[t].exists
    /\ \/ /\ dirs[t].journal # NoJournal
          /\ dirs' = [dirs EXCEPT ![t] = [exists |-> TRUE, journal |-> NoJournal,
                                          data |-> dirs[t].data]]
       \/ /\ dirs[t].data
          /\ dirs' = [dirs EXCEPT ![t] = [exists |-> TRUE, journal |-> dirs[t].journal,
                                          data |-> FALSE]]

RemoveLast(t) ==
    /\ dirs[t].journal = NoJournal /\ ~dirs[t].data
    /\ dirs' = [dirs EXCEPT ![t] = NoDirectory]

remove_part(w) ==
    /\ thr[w].pc = "removing"
    /\ RemovePart(thr[w].txn)
    /\ UNCHANGED <<disk, thr, rec, opened, refused, crashes>>

remove_last(w) ==
    /\ thr[w].pc = "removing"
    /\ RemoveLast(thr[w].txn)
    /\ Finish(w)
    /\ UNCHANGED <<disk, rec, opened, refused, crashes>>

\* ignore_errors: apply ends, whatever is left of the directory.
remove_stuck(w) ==
    /\ RemoveFaults
    /\ thr[w].pc = "removing"
    /\ Finish(w)
    /\ UNCHANGED <<disk, dirs, rec, opened, refused, crashes>>

----------------------------------------------------------------------------
(* open: recover every directory, then activate the workspace.              *)

\* Recovery stands at pc, for the directory t with journal j in memory, and has
\* the directories in todo before it.
RecoverAt(pc, t, todo, j, done) ==
    rec' = [pc |-> pc, txn |-> t, todo |-> todo, journal |-> j, done |-> done]

open(listing) ==
    /\ LockFree
    /\ RecoverAt("scanning", AnyTxn, listing, NoJournal, {})
    /\ UNCHANGED <<disk, dirs, thr, opened, refused, crashes>>

Leftovers == {t \in Txns : dirs[t].exists}

\* VNextWorkspaceError: the project is not opened.
Refuse == rec' = IdleRecovery /\ refused' = TRUE

\* Mutant: an unfinished commit is discarded like a prepared one.
DiscardDirectory(t) ==
    /\ rec.pc = "scanning"
    /\ t \in rec.todo
    /\ RecoverAt("removing", t, rec.todo, NoJournal, {})
    /\ UNCHANGED <<disk, dirs, thr, opened, refused, crashes>>

recover_directory(t) ==
    /\ rec.pc = "scanning"
    /\ t \in rec.todo
    /\ \/ /\ ~dirs[t].exists
          /\ RecoverAt("scanning", AnyTxn, rec.todo \ {t}, NoJournal, {})
          /\ UNCHANGED refused
       \/ /\ dirs[t].exists /\ dirs[t].journal.state = "missing"
          /\ Refuse
       \/ /\ dirs[t].exists /\ dirs[t].journal.state = "committing"
          /\ RecoverAt("restoring", t, rec.todo, dirs[t].journal, {})
          /\ UNCHANGED refused
       \/ /\ dirs[t].exists /\ dirs[t].journal.state \notin {"missing", "committing"}
          /\ RecoverAt("removing", t, rec.todo, NoJournal, {})
          /\ UNCHANGED refused
    /\ UNCHANGED <<disk, dirs, thr, opened, crashes>>

recover_file(f) ==
    /\ rec.pc = "restoring"
    /\ f \in Paths(rec.journal) \ rec.done
    /\ BackupReadable(rec.journal, rec.txn, f)
    /\ disk' = [disk EXCEPT ![f] = rec.journal.orig[f]]
    /\ RecoverAt("restoring", rec.txn, rec.todo, rec.journal, rec.done \cup {f})
    /\ UNCHANGED <<dirs, thr, opened, refused, crashes>>

\* A backup cannot be written back, or the directory cannot be removed or is
\* gone: recover does not ignore errors.
recover_fails ==
    /\ \/ /\ rec.pc = "restoring"
          /\ \E f \in Paths(rec.journal) \ rec.done :
                RestoreFaults \/ ~BackupReadable(rec.journal, rec.txn, f)
       \/ rec.pc = "removing" /\ (RemoveFaults \/ ~dirs[rec.txn].exists)
    /\ Refuse
    /\ UNCHANGED <<disk, dirs, thr, opened, crashes>>

recover_restored ==
    /\ rec.pc = "restoring"
    /\ rec.done = Paths(rec.journal)
    /\ RecoverAt("removing", rec.txn, rec.todo, NoJournal, {})
    /\ UNCHANGED <<disk, dirs, thr, opened, refused, crashes>>

recover_remove_part ==
    /\ rec.pc = "removing"
    /\ RemovePart(rec.txn)
    /\ UNCHANGED <<disk, thr, rec, opened, refused, crashes>>

recover_remove_last ==
    /\ rec.pc = "removing"
    /\ dirs[rec.txn].exists
    /\ RemoveLast(rec.txn)
    /\ RecoverAt("scanning", AnyTxn, rec.todo \ {rec.txn}, NoJournal, {})
    /\ UNCHANGED <<disk, thr, opened, refused, crashes>>

activate ==
    /\ rec.pc = "scanning"
    /\ rec.todo = {}
    /\ rec' = IdleRecovery
    /\ opened' = TRUE
    /\ refused' = FALSE
    /\ UNCHANGED <<disk, dirs, thr, crashes>>

\* The process stops; the disk stays as it is.
crash ==
    /\ crashes < MaxCrashes
    /\ crashes' = crashes + 1
    /\ thr' = [w \in Writers |-> IdleWriter]
    /\ rec' = IdleRecovery
    /\ opened' = FALSE
    /\ refused' = FALSE
    /\ UNCHANGED <<disk, dirs>>

----------------------------------------------------------------------------
Transaction(w) ==
    \/ \E t \in Txns, change \in Changes : stage(w, t, change)
    \/ prepare(w) \/ stage_fails(w)
    \/ commit(w) \/ commit_refused(w) \/ commit_not_started(w)
    \/ \E f \in Files : apply_file(w, f) \/ restore_file(w, f)
    \/ apply_fails(w) \/ write_marker(w) \/ marker_fails(w)
    \/ restore_fails(w) \/ rolled_back(w)
    \/ remove_part(w) \/ remove_last(w) \/ remove_stuck(w)

Recovery ==
    \/ open(Leftovers)
    \/ \E t \in Txns : recover_directory(t)
    \/ \E f \in Files : recover_file(f)
    \/ recover_fails \/ recover_restored
    \/ recover_remove_part \/ recover_remove_last
    \/ activate

Next == (\E w \in Writers : Transaction(w)) \/ Recovery \/ crash

Spec == Init /\ [][Next]_vars

----------------------------------------------------------------------------
(* Properties.                                                             *)

(* Directories, journals in memory and the recovery have their shapes.     *)
TypeOK ==
    /\ disk \in [Files -> Value]
    /\ dirs \in [Txns -> Directory]
    /\ thr \in [Writers -> Writer]
    /\ rec \in RecoveryState
    /\ opened \in BOOLEAN /\ refused \in BOOLEAN
    /\ crashes \in 0..MaxCrashes

\* The version of the files that recovery leads to: an unfinished commit is
\* taken back.
Unfinished(ds) == {t \in Txns : ds[t].journal.state = "committing"}
Recovered(files, ds) ==
    [f \in Files |->
        IF \E t \in Unfinished(ds) : f \in Paths(ds[t].journal)
        THEN ds[CHOOSE t \in Unfinished(ds) : f \in Paths(ds[t].journal)].journal.orig[f]
        ELSE files[f]]

LogicalDisk == Recovered(disk, dirs)

\* The request a writer works on; it counts as committed from the marker on.
RequestOf(wr) ==
    [phase |-> IF wr.pc = "idle" THEN "idle"
               ELSE IF wr.pc = "removing" /\ wr.journal.state = "committed" THEN "committed"
               ELSE "working",
     change |-> wr.journal.change]
Request == [w \in Writers |-> RequestOf(thr[w])]

Project == INSTANCE AtomicProject WITH content <- LogicalDisk, request <- Request

(* Crashes, failed writes and repeated recoveries included, the project     *)
(* moves from one whole version to the next: a transaction's changes become *)
(* durable together when its commit marker is written, or not at all.       *)
Atomic == Project!Spec

(* A project that is open and has no transaction in progress shows exactly  *)
(* a whole version: neither a failed commit nor a recovery leaves part of a *)
(* change behind.                                                           *)
WholeWhenIdle ==
    opened /\ rec.pc = "idle" /\ (\A w \in Writers : thr[w].pc = "idle") => disk = LogicalDisk

\* The originals of t are being written back: by its writer or, where every
\* writer takes the workspace lock, by a recovery.
TakenBack(t) ==
    \/ \E w \in Writers : thr[w].pc = "restoring" /\ thr[w].txn = t
    \/ Unlocked = {} /\ rec.pc = "restoring" /\ rec.txn = t

(* Once the commit marker of a transaction is on disk nothing takes it back, *)
(* whatever fails afterwards and whoever opens the project meanwhile: the   *)
(* journal stays "committed" until the directory goes, and nobody writes    *)
(* its originals back.  One exception is known: a recovery that has read    *)
(* "committing" of a writer without the workspace lock goes on restoring    *)
(* after that writer's marker.                                              *)
MarkerIsFinal ==
    [][\A t \in Txns : dirs[t].journal.state = "committed"
          => dirs'[t].journal.state \in {"committed", "missing"} /\ ~TakenBack(t)]_vars

(* Whatever a stopped process leaves behind, opening the project recovers   *)
(* it.                                                                      *)
NeverRefused == ~refused
=============================================================================
