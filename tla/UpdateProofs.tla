---------------------------- MODULE UpdateProofs ----------------------------
(***************************************************************************)
(* Theorems about UpdateHelper and UpdateClient for every number of helpers, *)
(* processes, threads, runs, releases and versions of the feed, every       *)
(* choice of broken releases and every number of outages; and about         *)
(* UpdateRepository with one publisher, for every number of releases,       *)
(* commits, rotations and operations that are broken off.                  *)
(***************************************************************************)
EXTENDS UpdateHelper, UpdateClient, UpdateRepository, SequenceTheorems, TLAPS

----------------------------------------------------------------------------
(* The exchange of the application.                                        *)

HelperSteps ==
    {"none", "waiting", "verify", "prepare", "swap_out", "swap_in", "launch", "health",
     "undo", "restore", "gone"}

\* The version in each directory.
Folders == [install : 0..2, backup : 0..2, staging : 0..2, failed : 0..2]

HelperTypes ==
    /\ folder \in Folders
    /\ program \in [version : 0..2, status : {"none", "running", "starting", "dying"},
                    by : Helpers \cup {Nobody}]
    /\ helper \in [Helpers -> [at : HelperSteps, swapped : BOOLEAN]]
    /\ notes \in [receipt : {"none", "healthy", "rolled_back"}, probe : Helpers \cup {Nobody}]
    /\ client \in {"staged", "awaiting", "complete", "rolled_back"}
    /\ crossed \in BOOLEAN

\* A program that runs is the installed one: its directory cannot be renamed.
RunsFromInstall ==
    ~crossed => IF InUse THEN program.version = folder.install /\ folder.install # 0
                ELSE program = NoProgram

\* One helper is at work, unless another one was spawned meanwhile.
OneHelper ==
    ~crossed => \A g, h \in Helpers :
       helper[g].at \notin {"none", "gone"} /\ helper[h].at \notin {"none", "gone"} => g = h

Moved == folder.backup = Old /\ folder.install = New

Unreported == notes.receipt # "healthy" /\ client # "complete"

\* Where the versions are while a helper is at each of its steps.
StepMeans(h) ==
    /\ helper[h].at \in {"waiting", "verify", "prepare", "swap_out"} =>
          folder.install = Old
    /\ helper[h].at \in {"none", "waiting", "verify", "prepare", "swap_out"} => ~helper[h].swapped
    /\ helper[h].at \in {"prepare", "swap_out", "swap_in"} => folder.staging = New
    /\ helper[h].at = "swap_in" =>
          folder.install = 0 /\ folder.backup = Old /\ helper[h].swapped
    /\ helper[h].at \in {"launch", "health"} => Moved /\ helper[h].swapped
    /\ helper[h].at = "undo" =>
          \/ folder.install = Old /\ ~helper[h].swapped
          \/ Moved /\ helper[h].swapped
    /\ helper[h].at = "restore" =>
          /\ folder.install = 0
          /\ \/ folder.failed = Old /\ ~helper[h].swapped
             \/ folder.backup = Old /\ helper[h].swapped
    /\ helper[h].at \in {"launch", "health", "undo", "restore"} => Unreported

\* All of it, as long as no two helpers have been at work together.
Exchange ==
    /\ RunsFromInstall
    /\ OneHelper
    /\ PreviousIsKept
    /\ HealthyIsTrue
    /\ ~crossed => \A h \in Helpers : StepMeans(h)

HelperInv == HelperTypes /\ Exchange

(* The directories after each step of a helper that renames them.          *)
LEMMA FoldersAfter ==
    ASSUME HelperTypes, NEW h \in Helpers
    PROVE  /\ clear_old(h) => folder' = [install |-> folder.install, backup |-> 0,
                                         staging |-> folder.staging, failed |-> 0]
           /\ swap_out(h) /\ ~(folder.install # 0 /\ InUse) =>
                 folder' = [install |-> 0,
                            backup |-> IF folder.install # 0 THEN folder.install ELSE folder.backup,
                            staging |-> folder.staging, failed |-> folder.failed]
           /\ swap_in(h) /\ folder.staging # 0 /\ folder.install = 0 =>
                 folder' = [install |-> folder.staging, backup |-> folder.backup, staging |-> 0,
                            failed |-> folder.failed]
           /\ undo(h) /\ ~InUse /\ folder.install # 0 =>
                 folder' = [install |-> 0, backup |-> folder.backup, staging |-> folder.staging,
                            failed |-> folder.install]
           /\ restore(h) /\ helper[h].swapped /\ folder.backup # 0 =>
                 folder' = [install |-> folder.backup, backup |-> 0, staging |-> folder.staging,
                            failed |-> folder.failed]
<1>0. folder \in Folders
  BY DEF HelperTypes
<1>1. folder.install \in 0..2 /\ folder.backup \in 0..2 /\ folder.staging \in 0..2 /\ 0 \in 0..2
  BY <1>0 DEF Folders
<1> DEFINE kept == IF folder.install # 0 THEN folder.install ELSE folder.backup
<1>2. kept \in 0..2
  BY <1>1
<1>3. clear_old(h) =>
         folder' = [install |-> folder.install, backup |-> 0,
                    staging |-> folder.staging, failed |-> 0]
  <2> DEFINE half == [folder EXCEPT !.failed = 0]
  <2>1. /\ half \in Folders
        /\ half.install = folder.install /\ half.backup = folder.backup
        /\ half.staging = folder.staging /\ half.failed = 0
    BY <1>0, <1>1 DEF Folders
  <2>2. clear_old(h) => folder' = [half EXCEPT !.backup = 0]
    BY DEF clear_old
  <2> HIDE DEF half
  <2> QED BY <1>1, <2>1, <2>2 DEF Folders
<1>4. swap_out(h) /\ ~(folder.install # 0 /\ InUse) =>
         folder' = [install |-> 0, backup |-> kept,
                    staging |-> folder.staging, failed |-> folder.failed]
  <2> DEFINE half == [folder EXCEPT !.backup = kept]
  <2>1. /\ half \in Folders
        /\ half.install = folder.install /\ half.backup = kept
        /\ half.staging = folder.staging /\ half.failed = folder.failed
    BY <1>0, <1>1 DEF Folders
  <2>2. swap_out(h) /\ ~(folder.install # 0 /\ InUse) => folder' = [half EXCEPT !.install = 0]
    BY DEF swap_out
  <2> HIDE DEF half
  <2> QED BY <1>1, <2>1, <2>2 DEF Folders
<1>5. swap_in(h) /\ folder.staging # 0 /\ folder.install = 0 =>
         folder' = [install |-> folder.staging, backup |-> folder.backup,
                    staging |-> 0, failed |-> folder.failed]
  <2> DEFINE half == [folder EXCEPT !.install = folder.staging]
  <2>1. /\ half \in Folders
        /\ half.install = folder.staging /\ half.backup = folder.backup
        /\ half.staging = folder.staging /\ half.failed = folder.failed
    BY <1>0, <1>1 DEF Folders
  <2>2. swap_in(h) /\ folder.staging # 0 /\ folder.install = 0 => folder' = [half EXCEPT !.staging = 0]
    BY DEF swap_in
  <2> HIDE DEF half
  <2> QED BY <1>1, <2>1, <2>2 DEF Folders
<1>6. undo(h) /\ ~InUse /\ folder.install # 0 =>
         folder' = [install |-> 0, backup |-> folder.backup,
                    staging |-> folder.staging, failed |-> folder.install]
  <2> DEFINE half == [folder EXCEPT !.failed = folder.install]
  <2>1. /\ half \in Folders
        /\ half.install = folder.install /\ half.backup = folder.backup
        /\ half.staging = folder.staging /\ half.failed = folder.install
    BY <1>0, <1>1 DEF Folders
  <2>2. undo(h) /\ ~InUse /\ folder.install # 0 => folder' = [half EXCEPT !.install = 0]
    BY DEF undo, PutAside
  <2> HIDE DEF half
  <2> QED BY <1>1, <2>1, <2>2 DEF Folders
<1>7. restore(h) /\ helper[h].swapped /\ folder.backup # 0 =>
         folder' = [install |-> folder.backup, backup |-> 0,
                    staging |-> folder.staging, failed |-> folder.failed]
  <2> DEFINE half == [folder EXCEPT !.install = folder.backup]
  <2>1. /\ half \in Folders
        /\ half.install = folder.backup /\ half.backup = folder.backup
        /\ half.staging = folder.staging /\ half.failed = folder.failed
    BY <1>0, <1>1 DEF Folders
  <2>2. restore(h) /\ helper[h].swapped /\ folder.backup # 0 => folder' = [half EXCEPT !.backup = 0]
    BY DEF restore
  <2> HIDE DEF half
  <2> QED BY <1>1, <2>1, <2>2 DEF Folders
<1> QED BY <1>3, <1>4, <1>5, <1>6, <1>7

(* The machine and the files hold values of their types after every step.  *)
LEMMA HelperTypesStep ==
    ASSUME HelperTypes, HelperNext
    PROVE  HelperTypes'
<1> USE DEF HelperTypes, HelperSteps, Folders, Old, New, Nobody
<1>1. ASSUME NEW h \in Helpers, apply(h) PROVE HelperTypes'
  BY <1>1 DEF apply, NoNotes
<1>2. ASSUME NEW h \in Helpers, parent_stays(h) PROVE HelperTypes'
  BY <1>2 DEF parent_stays, goes
<1>3. ASSUME NEW h \in Helpers, verify(h) PROVE HelperTypes'
  BY <1>3 DEF verify, goes
<1>4. ASSUME NEW h \in Helpers, clear_old(h) PROVE HelperTypes'
  <2>1. folder' = [install |-> folder.install, backup |-> 0, staging |-> folder.staging, failed |-> 0]
    BY <1>4, FoldersAfter
  <2> QED BY <1>4, <2>1 DEF clear_old, NoNotes, goes
<1>5. ASSUME NEW h \in Helpers, swap_out(h) PROVE HelperTypes'
  <2>1. CASE folder.install # 0 /\ InUse
    BY <1>5, <2>1 DEF swap_out, goes
  <2>2. CASE ~(folder.install # 0 /\ InUse)
    <3>1. folder' = [install |-> 0,
                     backup |-> IF folder.install # 0 THEN folder.install ELSE folder.backup,
                     staging |-> folder.staging, failed |-> folder.failed]
      BY <1>5, <2>2, FoldersAfter
    <3>2. folder' \in Folders
      BY <3>1
    <3>3. (folder.install # 0) \in BOOLEAN
      OBVIOUS
    <3>4. PICK moved \in BOOLEAN : helper' = [helper EXCEPT ![h] = [at |-> "swap_in", swapped |-> moved]]
      BY <1>5, <2>2, <3>3 DEF swap_out
    <3>5. helper' \in [Helpers -> [at : HelperSteps, swapped : BOOLEAN]]
      BY <3>4
    <3> QED BY <1>5, <3>2, <3>5 DEF swap_out
  <2> QED BY <2>1, <2>2
<1>6. ASSUME NEW h \in Helpers, swap_in(h) PROVE HelperTypes'
  <2>1. CASE folder.staging = 0 \/ folder.install # 0
    BY <1>6, <2>1 DEF swap_in, goes
  <2>2. CASE ~(folder.staging = 0 \/ folder.install # 0)
    <3>1. folder' = [install |-> folder.staging, backup |-> folder.backup, staging |-> 0,
                     failed |-> folder.failed]
      BY <1>6, <2>2, FoldersAfter
    <3> QED BY <1>6, <2>2, <3>1 DEF swap_in, goes
  <2> QED BY <2>1, <2>2
<1>7. ASSUME NEW h \in Helpers, launch(h) PROVE HelperTypes'
  <2>1. CASE program' = [version |-> folder.install, status |-> "starting", by |-> h] /\ goes(h, "health")
    BY <1>7, <2>1 DEF launch, goes
  <2>2. CASE goes(h, "undo") /\ UNCHANGED program
    BY <1>7, <2>2 DEF launch, goes
  <2> QED BY <1>7, <2>1, <2>2 DEF launch
<1>8. ASSUME NEW h \in Helpers, healthy(h) PROVE HelperTypes'
  BY <1>8 DEF healthy, goes
<1>9. ASSUME NEW h \in Helpers, unhealthy(h) PROVE HelperTypes'
  BY <1>9 DEF unhealthy, goes
<1>10. ASSUME NEW h \in Helpers, undo(h) PROVE HelperTypes'
  <2>1. CASE folder.install # 0 /\ InUse
    BY <1>10, <2>1 DEF undo, goes
  <2>2. CASE ~(folder.install # 0 /\ InUse)
    <3>1. folder' \in Folders
      <4>1. CASE folder.install # 0
        BY <1>10, <2>2, <4>1, FoldersAfter
      <4>2. CASE folder.install = 0
        BY <1>10, <2>2, <4>2 DEF undo
      <4> QED BY <4>1, <4>2
    <3> QED BY <1>10, <2>2, <3>1 DEF undo, goes
  <2> QED BY <2>1, <2>2
<1>11. ASSUME NEW h \in Helpers, restore(h) PROVE HelperTypes'
  <2>1. CASE helper[h].swapped /\ folder.backup # 0
    <3>1. folder' = [install |-> folder.backup, backup |-> 0, staging |-> folder.staging,
                     failed |-> folder.failed]
      BY <1>11, <2>1, FoldersAfter
    <3> QED BY <1>11, <2>1, <3>1 DEF restore, Outcome, Opened, goes
  <2>2. CASE ~(helper[h].swapped /\ folder.backup # 0)
    BY <1>11, <2>2 DEF restore, Outcome, goes
  <2> QED BY <2>1, <2>2
<1>12. CASE reconcile
  BY <1>12 DEF reconcile
<1>13. CASE program_exits
  BY <1>13 DEF program_exits, NoProgram
<1>14. CASE open_program
  BY <1>14 DEF open_program, Opened, NoProgram
<1>15. CASE startup_probe
  BY <1>15 DEF startup_probe
<1>16. CASE startup_fails
  BY <1>16 DEF startup_fails, NoProgram
<1>17. CASE outage
  BY <1>17 DEF outage, NoProgram
<1> QED BY <1>1, <1>2, <1>3, <1>4, <1>5, <1>6, <1>7, <1>8, <1>9, <1>10, <1>11, <1>12, <1>13, <1>14, <1>15, <1>16, <1>17 DEF HelperNext

(* No step loses the version that worked or reports an exchange that is    *)
(* not there, unless two helpers are at work.                              *)
LEMMA ExchangeStep ==
    ASSUME HelperInv, HelperNext
    PROVE  Exchange'
<1>0. CASE crossed'
  BY <1>0 DEF Exchange, RunsFromInstall, OneHelper, PreviousIsKept, HealthyIsTrue
<1> SUFFICES ASSUME ~crossed'
             PROVE  Exchange'
  BY <1>0
<1>0a. ASSUME NEW h \in Helpers, helper[h].at \notin {"none", "gone"}, ~crossed
       PROVE  \A g \in Helpers : g # h => helper[g].at \in {"none", "gone"}
  BY <1>0a DEF HelperInv, HelperTypes, HelperSteps, Exchange, OneHelper
<1> USE DEF HelperInv, HelperTypes, Exchange, RunsFromInstall, OneHelper, PreviousIsKept,
            HealthyIsTrue, StepMeans, Moved, Unreported, InUse, Folders, Old, New, HelperSteps,
            NoProgram
<1>1. ASSUME NEW h \in Helpers, apply(h) PROVE Exchange'
  <2>1. /\ ~crossed /\ \A g \in Helpers : helper[g].at \in {"none", "gone"}
        /\ folder.install = Old /\ client # "complete"
    BY <1>1 DEF apply
  <2>2. /\ folder'.install = folder.install /\ folder'.backup = folder.backup
        /\ folder'.failed = folder.failed
    BY <1>1 DEF apply
  <2>3. /\ helper'[h].at = "waiting" /\ ~helper'[h].swapped
        /\ \A g \in Helpers : g # h => helper'[g] = helper[g]
    BY <1>1, <2>1 DEF apply
  <2>4. notes'.receipt = "none" /\ client' = "awaiting" /\ program' = program
    BY <1>1 DEF apply, NoNotes
  <2> QED BY <2>1, <2>2, <2>3, <2>4
<1>2. ASSUME NEW h \in Helpers, parent_stays(h) PROVE Exchange'
  BY <1>2, SMTT(30) DEF parent_stays, goes
<1>3. ASSUME NEW h \in Helpers, verify(h) PROVE Exchange'
  BY <1>3, SMTT(30) DEF verify, goes
<1>4. ASSUME NEW h \in Helpers, clear_old(h) PROVE Exchange'
  BY <1>4, SMTT(30) DEF clear_old, NoNotes, goes
<1>5. ASSUME NEW h \in Helpers, swap_out(h) PROVE Exchange'
  <2>0. /\ ~crossed /\ helper[h].at = "swap_out" /\ folder.install = Old
        /\ \A g \in Helpers : g # h => helper[g].at \in {"none", "gone"}
    BY <1>5, <1>0a DEF swap_out
  <2>1. CASE InUse
    <3>1. helper' = [helper EXCEPT ![h].at = "undo"] /\ folder' = folder
      BY <1>5, <2>0, <2>1 DEF swap_out, goes
    <3>2. /\ helper'[h].at = "undo" /\ ~helper'[h].swapped
          /\ \A g \in Helpers : g # h => helper'[g] = helper[g]
      BY <2>0, <3>1
    <3> QED BY <1>5, <2>0, <3>1, <3>2 DEF swap_out
  <2>2. CASE ~InUse
    <3>1. folder' = [install |-> 0, backup |-> folder.install, staging |-> folder.staging,
                     failed |-> folder.failed]
      BY <1>5, <2>0, <2>2, FoldersAfter
    <3>2. helper' = [helper EXCEPT ![h] = [at |-> "swap_in", swapped |-> folder.install # 0]]
      BY <1>5, <2>0, <2>2 DEF swap_out
    <3>3. /\ helper'[h].at = "swap_in" /\ helper'[h].swapped = (folder.install # 0)
          /\ \A g \in Helpers : g # h => helper'[g] = helper[g]
      BY <3>2
    <3>4. helper'[h].swapped
      <4>1. folder.install # 0
        BY <2>0
      <4> QED BY <3>3, <4>1, Zenon
    <3>5. folder'.install = 0 /\ folder'.backup = Old /\ folder'.staging = New /\ ~InUse'
      BY <1>5, <2>0, <2>2, <3>1 DEF swap_out
    <3> QED BY <1>5, <2>0, <2>2, <3>3, <3>4, <3>5 DEF swap_out
  <2> QED BY <2>1, <2>2
<1>6. ASSUME NEW h \in Helpers, swap_in(h) PROVE Exchange'
  <2>0. /\ ~crossed /\ helper[h].at = "swap_in" /\ folder.install = 0 /\ folder.staging = New
        /\ folder.backup = Old /\ helper[h].swapped /\ Unreported
        /\ \A g \in Helpers : g # h => helper[g].at \in {"none", "gone"}
    BY <1>6, <1>0a DEF swap_in
  <2>1. folder' = [install |-> New, backup |-> Old, staging |-> 0, failed |-> folder.failed]
    BY <1>6, <2>0, FoldersAfter
  <2>2. helper' = [helper EXCEPT ![h].at = "launch"]
    BY <1>6, <2>0 DEF swap_in, goes
  <2>3. /\ helper'[h].at = "launch" /\ helper'[h].swapped
        /\ \A g \in Helpers : g # h => helper'[g] = helper[g]
    BY <2>0, <2>2
  <2> QED BY <1>6, <2>0, <2>1, <2>3 DEF swap_in
<1>7. ASSUME NEW h \in Helpers, launch(h) PROVE Exchange'
  BY <1>7, SMTT(30) DEF launch, goes
<1>8. ASSUME NEW h \in Helpers, healthy(h) PROVE Exchange'
  BY <1>8, SMTT(30) DEF healthy, goes
<1>9. ASSUME NEW h \in Helpers, unhealthy(h) PROVE Exchange'
  <2>0. /\ ~crossed /\ helper[h].at = "health" /\ Moved /\ helper[h].swapped /\ Unreported
        /\ \A g \in Helpers : g # h => helper[g].at \in {"none", "gone"}
    BY <1>9, <1>0a DEF unhealthy
  <2>1. /\ helper'[h].at = "undo" /\ helper'[h].swapped
        /\ \A g \in Helpers : g # h => helper'[g] = helper[g]
    BY <1>9, <2>0 DEF unhealthy, goes
  <2>2. program' = program \/ program' = [program EXCEPT !.status = "dying"]
    BY <1>9 DEF unhealthy
  <2>3. program'.version = program.version /\ (program' # program => InUse)
    BY <1>9, <2>0, <2>2 DEF unhealthy
  <2> QED BY <1>9, <2>0, <2>1, <2>2, <2>3 DEF unhealthy
<1>10. ASSUME NEW h \in Helpers, undo(h) PROVE Exchange'
  <2>0. /\ ~crossed /\ helper[h].at = "undo" /\ folder.install # 0 /\ Unreported
        /\ \/ folder.install = Old /\ ~helper[h].swapped
           \/ Moved /\ helper[h].swapped
        /\ \A g \in Helpers : g # h => helper[g].at \in {"none", "gone"}
    BY <1>10, <1>0a DEF undo
  <2>1. CASE InUse
    <3>1. helper' = [helper EXCEPT ![h].at = "gone"] /\ folder' = folder
      BY <1>10, <2>0, <2>1 DEF undo, goes
    <3>2. /\ helper'[h].at = "gone"
          /\ \A g \in Helpers : g # h => helper'[g] = helper[g]
      BY <3>1
    <3> QED BY <1>10, <2>0, <3>1, <3>2 DEF undo
  <2>2. CASE ~InUse
    <3>1. folder' = [install |-> 0, backup |-> folder.backup, staging |-> folder.staging,
                     failed |-> folder.install]
      BY <1>10, <2>0, <2>2, FoldersAfter
    <3>2. helper' = [helper EXCEPT ![h].at = "restore"]
      BY <1>10, <2>0, <2>2 DEF undo, goes
    <3>3. /\ helper'[h].at = "restore" /\ helper'[h].swapped = helper[h].swapped
          /\ \A g \in Helpers : g # h => helper'[g] = helper[g]
      BY <3>2
    <3> QED BY <1>10, <2>0, <2>2, <3>1, <3>3 DEF undo
  <2> QED BY <2>1, <2>2
<1>11. ASSUME NEW h \in Helpers, restore(h) PROVE Exchange'
  <2>0. /\ ~crossed /\ helper[h].at = "restore" /\ folder.install = 0 /\ Unreported
        /\ \/ folder.failed = Old /\ ~helper[h].swapped
           \/ folder.backup = Old /\ helper[h].swapped
        /\ \A g \in Helpers : g # h => helper[g].at \in {"none", "gone"}
    BY <1>11, <1>0a DEF restore
  <2>1. /\ helper'[h].at = "gone"
        /\ \A g \in Helpers : g # h => helper'[g] = helper[g]
    BY <1>11 DEF restore, goes
  <2>2. notes'.receipt = "rolled_back" /\ client' = client
    BY <1>11 DEF restore, Outcome
  <2>3. CASE helper[h].swapped
    <3>1. folder' = [install |-> Old, backup |-> 0, staging |-> folder.staging,
                     failed |-> folder.failed]
      BY <1>11, <2>0, <2>3, FoldersAfter
    <3>2. program'.version = Old /\ program'.status = "running"
      BY <1>11, <2>0, <2>3 DEF restore, Opened
    <3> QED BY <2>0, <2>1, <2>2, <3>1, <3>2
  <2>4. CASE ~helper[h].swapped
    <3>1. folder' = folder /\ program' = program
      BY <1>11, <2>4 DEF restore
    <3> QED BY <2>0, <2>1, <2>2, <2>4, <3>1
  <2> QED BY <2>3, <2>4
<1>12. CASE reconcile
  BY <1>12, SMTT(30) DEF reconcile
<1>13. CASE program_exits
  BY <1>13, SMTT(30) DEF program_exits, NoProgram
<1>14. CASE open_program
  BY <1>14, SMTT(30) DEF open_program, Opened, NoProgram
<1>15. CASE startup_probe
  BY <1>15, SMTT(30) DEF startup_probe
<1>16. CASE startup_fails
  BY <1>16, SMTT(30) DEF startup_fails, NoProgram
<1>17. CASE outage
  BY <1>17, SMTT(30) DEF outage, NoProgram
<1> QED BY <1>1, <1>2, <1>3, <1>4, <1>5, <1>6, <1>7, <1>8, <1>9, <1>10, <1>11, <1>12, <1>13, <1>14, <1>15, <1>16, <1>17 DEF HelperNext

(* The helper's inductive invariant holds in every reachable state.        *)
THEOREM ExchangeInvariant == HelperSpec => []HelperInv
<1>1. HelperInit => HelperInv
  <2> SUFFICES ASSUME HelperInit PROVE HelperInv
    OBVIOUS
  <2>1. HelperTypes
    <3>1. folder \in Folders
      BY DEF HelperInit, Folders, Old
    <3>2. /\ program \in [version : 0..2, status : {"none", "running", "starting", "dying"},
                          by : Helpers \cup {Nobody}]
          /\ notes \in [receipt : {"none", "healthy", "rolled_back"}, probe : Helpers \cup {Nobody}]
      BY DEF HelperInit, Opened, NoNotes, Old
    <3>3. [at |-> "none", swapped |-> FALSE] \in [at : HelperSteps, swapped : BOOLEAN]
      BY DEF HelperSteps
    <3>4. helper \in [Helpers -> [at : HelperSteps, swapped : BOOLEAN]]
      BY <3>3 DEF HelperInit
    <3> QED BY <3>1, <3>2, <3>4 DEF HelperInit, HelperTypes
  <2>2. \A h \in Helpers : helper[h].at = "none" /\ ~helper[h].swapped
    BY DEF HelperInit
  <2>3. /\ folder.install = Old /\ program.version = Old /\ InUse
        /\ notes.receipt = "none" /\ client = "staged"
    BY DEF HelperInit, Opened, InUse, NoNotes
  <2> QED BY <2>1, <2>2, <2>3
          DEF HelperInv, Exchange, RunsFromInstall, OneHelper, PreviousIsKept, HealthyIsTrue,
              StepMeans, Old, New
<1>2. HelperInv /\ [HelperNext]_helperVars => HelperInv'
  <2> SUFFICES ASSUME HelperInv, [HelperNext]_helperVars PROVE HelperInv'
    OBVIOUS
  <2>1. CASE HelperNext
    BY <2>1, HelperTypesStep, ExchangeStep DEF HelperInv
  <2>2. CASE UNCHANGED helperVars
    BY <2>2 DEF helperVars, HelperInv, HelperTypes, Exchange, RunsFromInstall, OneHelper,
                PreviousIsKept, HealthyIsTrue, StepMeans, Moved, Unreported, InUse
  <2> QED BY <2>1, <2>2
<1> QED BY <1>1, <1>2, PTL DEF HelperSpec

(* However often the power fails, and whatever the new version does, the   *)
(* version that worked is on the disk as long as the helpers work in turn.  *)
THEOREM OldVersionKept == HelperSpec => []PreviousIsKept
<1>1. HelperInv => PreviousIsKept
  BY DEF HelperInv, Exchange
<1> QED BY <1>1, ExchangeInvariant, PTL

(* A receipt or a client that reports success means that the new version   *)
(* is installed.                                                           *)
THEOREM SuccessIsTrue == HelperSpec => []HealthyIsTrue
<1>1. HelperInv => HealthyIsTrue
  BY DEF HelperInv, Exchange
<1> QED BY <1>1, ExchangeInvariant, PTL

----------------------------------------------------------------------------
(* Updates of the content.                                                 *)

Memory == [state : States, current : 1..Newest, selected : 0..Newest, path : 0..Newest]
Feed == [offer : 0..Newest, revision : Nat, minimum : 0..Newest]

\* The steps of a thread that holds update.lock, and those that carry a release.
InLock == {"policy", "check", "accept_policy", "accept_check", "select", "policy_done", "fetch",
           "stage", "activate", "health"}
WithRelease == {"to_fetch", "fetch", "to_apply", "stage", "activate", "health"}
HandSteps == {"idle"} \cup InLock \cup WithRelease

\* A check that has written the version it read, and one that has accepted its policy.
Accepting == {"accept_policy", "accept_check"}
Accepts == {"select", "policy_done"}
Reading == Accepting \cup Accepts

PlaySteps == {"none", "marked", "started", "noted", "ended", "orphan", "over"}
PlayRecord == [at : PlaySteps, player : Players \cup {NoHolder}, unheard : BOOLEAN]

FilesOK ==
    /\ trust \in [version : 0..MaxFeeds, revision : Nat, minimum : 0..Newest]
    /\ feeds \in Seq(Feed) /\ 1 <= Len(feeds) /\ Len(feeds) <= MaxFeeds
    /\ pointer \in [active : Slots, slots : [Slots -> [release : 0..Newest, content : 0..Newest]]]
    /\ downloads \subseteq 1..Newest

ClientsOK ==
    /\ stored \in Memory
    /\ memory \in [Players -> Memory]
    /\ lease \in [Players -> {"safe", "unsafe", "closed"}]
    /\ play \in [Plays -> PlayRecord]
    /\ stops \in Nat

HandsOK ==
    /\ holder \in Threads \cup {NoHolder}
    /\ hand \in [Threads -> [at : HandSteps, release : Nat, path : 0..Newest]]
    /\ \A t \in Threads : hand[t].at \in WithRelease => hand[t].release \in 1..Newest
    /\ \A t \in Threads : hand[t].at \in Reading => hand[t].release \in DOMAIN feeds

\* A later policy has a higher revision, and without one nothing is required.
Follows(feed, next) ==
    /\ feed.revision <= next.revision
    /\ feed.revision = next.revision => feed.minimum = next.minimum

FeedsInOrder ==
    /\ \A i, j \in DOMAIN feeds : i <= j => Follows(feeds[i], feeds[j])
    /\ \A i \in DOMAIN feeds : feeds[i].revision = 0 => feeds[i].minimum = 0

\* The policy in trust.json is one of a feed up to the trusted version.
PolicyFrom(i) ==
    i <= trust.version /\ trust.revision = feeds[i].revision /\ trust.minimum = feeds[i].minimum

PolicyIsPublished ==
    /\ trust.version = 0 \/ trust.version \in DOMAIN feeds
    /\ \/ trust.revision = 0 /\ trust.minimum = 0
       \/ \E i \in DOMAIN feeds : PolicyFrom(i)

\* What a check has read, and then accepted, is what trust.json says.
ChecksRead ==
    \A t \in Threads :
       /\ hand[t].at \in Reading => hand[t].release = trust.version
       /\ hand[t].at \in Accepts => PolicyFrom(trust.version)

\* The lock is held by exactly the thread that is at a step under it.
LockIsHeld == \A t \in Threads : hand[t].at \in InLock <=> holder = t

\* The slot that is active, or during the health check the one before it, is sound.
SoundSlot ==
    stops = 0 =>
       IF \E t \in Threads : hand[t].at = "health"
       THEN pointer.slots[Other(pointer.active)].content \notin Broken
       ELSE pointer.slots[pointer.active].content \notin Broken

ContentInv ==
    /\ FilesOK /\ ClientsOK /\ HandsOK
    /\ FeedsInOrder /\ PolicyIsPublished /\ LockIsHeld /\ ChecksRead /\ SoundSlot

\* A run from its start to its end keeps its process unsafe, until it is overruled.
LeasesAreHeld ==
    \A r \in Plays : play[r].at \in {"marked", "started", "noted", "ended"} =>
       play[r].player \in Players /\ (lease[play[r].player] = "unsafe" \/ play[r].unheard)

----------------------------------------------------------------------------
(* Facts about tuples and slots that the steps below use.                  *)
LEMMA ThreadsAndSlots ==
    /\ NoHolder \notin Threads
    /\ \A t \in Threads : t[1] \in Players
    /\ \A slot \in Slots : Other(slot) \in Slots /\ Other(slot) # slot /\ Other(Other(slot)) = slot
<1>1. NoHolder \notin Threads
  BY DEF NoHolder, Threads
<1>2. \A t \in Threads : t[1] \in Players
  BY DEF Threads
<1>3. \A slot \in Slots : Other(slot) \in Slots /\ Other(slot) # slot /\ Other(Other(slot)) = slot
  BY DEF Slots, Other
<1> QED BY <1>1, <1>2, <1>3

(* What _accept_required_policy writes.                                    *)
LEMMA AcceptedIs ==
    ASSUME NEW N, trust \in [version : N, revision : Nat, minimum : 0..Newest], NEW policy \in Feed
    PROVE  /\ Accepted(policy) \in [version : N, revision : Nat, minimum : 0..Newest]
           /\ Accepted(policy).version = trust.version
           /\ policy.revision = 0 => Accepted(policy) = trust
           /\ policy.revision # 0 => /\ Accepted(policy).revision = policy.revision
                                     /\ Accepted(policy).minimum = policy.minimum
<1>1. policy.revision \in Nat /\ policy.minimum \in 0..Newest
  BY DEF Feed
<1>2. CASE policy.revision = 0
  <2>1. Accepted(policy) = trust
    BY <1>2 DEF Accepted
  <2> QED BY <1>2, <2>1
<1>3. CASE policy.revision # 0
  <2> DEFINE half == [trust EXCEPT !.revision = policy.revision]
  <2>1. half \in [version : N, revision : Nat, minimum : 0..Newest]
        /\ half.version = trust.version /\ half.revision = policy.revision
    BY <1>1
  <2>2. Accepted(policy) = [half EXCEPT !.minimum = policy.minimum]
    BY <1>3 DEF Accepted
  <2> HIDE DEF half
  <2> QED BY <1>1, <1>3, <2>1, <2>2
<1> QED BY <1>2, <1>3

\* What the author may publish next.
AuthorFeed(feed) ==
    \/ \E offer \in {0} \cup 2..Newest : feed = [LastFeed EXCEPT !.offer = offer]
    \/ feed = NextPolicy(LastFeed.offer)
    \/ feed = NextPolicy(0)

(* The feed, trust.json, the slot pointer and the cache change in a few     *)
(* operations only.                                                        *)
LEMMA FilesChange ==
    ASSUME UpdateNext
    PROVE  \/ UNCHANGED <<feeds, trust, pointer, downloads>>
           \/ \E feed : AuthorFeed(feed) /\ publish(feed)
           \/ \E t \in Threads : \E v \in 1..Len(feeds) : trust_answer(t, v)
           \/ \E t \in Threads : accept_required_policy(t)
           \/ \E t \in Threads : download_done(t) \/ apply_stage(t) \/ switch_slot(t) \/ health_check(t)
           \/ clear_cache
<1> USE DEF check_feed, finish_check, operation_fails, download_call, download, apply_call,
            apply_look, apply_stage_fails, start_play, runtime_starts, note_play, play_ends,
            mark_end, mark_update_safe_point, process_stops, process_opens
<1> QED BY DEF UpdateNext, author_offers, author_requires, author_revokes, AuthorFeed

(* Each feed of the author follows the one before it.                      *)
LEMMA AuthorStep ==
    ASSUME FilesOK, FeedsInOrder, NEW feed, AuthorFeed(feed)
    PROVE  feed \in Feed /\ Follows(LastFeed, feed) /\ (feed.revision = 0 => feed.minimum = 0)
<1>0. /\ LastFeed \in Feed /\ (LastFeed.revision = 0 => LastFeed.minimum = 0)
      /\ Newest \in Nat /\ 0 \in 0..Newest
  <2>1. feeds \in Seq(Feed) /\ Len(feeds) \in DOMAIN feeds
    BY DEF FilesOK
  <2> QED BY <2>1, UpdateAssumption DEF LastFeed, FeedsInOrder
<1>1. ASSUME NEW offer \in {0} \cup 2..Newest, feed = [LastFeed EXCEPT !.offer = offer]
      PROVE  feed \in Feed /\ Follows(LastFeed, feed) /\ (feed.revision = 0 => feed.minimum = 0)
  <2>1. offer \in 0..Newest
    BY <1>0
  <2>2. feed \in Feed /\ feed.revision = LastFeed.revision /\ feed.minimum = LastFeed.minimum
    BY <1>0, <1>1, <2>1 DEF Feed
  <2>3. LastFeed.revision \in Nat
    BY <1>0 DEF Feed
  <2> QED BY <1>0, <2>2, <2>3 DEF Follows
<1>2. ASSUME NEW minimum \in 0..Newest, feed = NextPolicy(minimum)
      PROVE  feed \in Feed /\ Follows(LastFeed, feed) /\ (feed.revision = 0 => feed.minimum = 0)
  <2>1. LastFeed.revision \in Nat
    BY <1>0 DEF Feed
  <2> DEFINE half == [LastFeed EXCEPT !.revision = LastFeed.revision + 1]
  <2>2. half \in Feed /\ half.revision = LastFeed.revision + 1
    BY <1>0, <2>1 DEF Feed
  <2>3. feed = [half EXCEPT !.minimum = minimum]
    BY <1>2 DEF NextPolicy
  <2> HIDE DEF half
  <2>4. feed \in Feed /\ feed.revision = LastFeed.revision + 1
    BY <2>2, <2>3 DEF Feed
  <2>5. LastFeed.revision <= feed.revision /\ LastFeed.revision # feed.revision /\ feed.revision # 0
    BY <2>1, <2>4
  <2> QED BY <2>4, <2>5 DEF Follows
<1>3. LastFeed.offer \in 0..Newest
  BY <1>0 DEF Feed
<1> QED BY <1>0, <1>1, <1>2, <1>3 DEF AuthorFeed

(* What is on the disk keeps its type.                                     *)
LEMMA FilesStep ==
    ASSUME ContentInv, UpdateNext
    PROVE  FilesOK'
<1>0. FilesOK /\ HandsOK /\ FeedsInOrder
  BY DEF ContentInv
<1>1. CASE UNCHANGED <<feeds, trust, pointer, downloads>>
  BY <1>0, <1>1 DEF FilesOK
<1>2. ASSUME NEW feed, AuthorFeed(feed), publish(feed)
      PROVE  FilesOK'
  <2>1. feed \in Feed
    BY <1>0, <1>2, AuthorStep
  <2>2. feeds \in Seq(Feed) /\ Len(feeds) < MaxFeeds /\ feeds' = Append(feeds, feed)
    BY <1>0, <1>2 DEF publish, FilesOK
  <2>3. feeds' \in Seq(Feed) /\ Len(feeds') = Len(feeds) + 1 /\ Len(feeds) \in Nat
    BY <2>1, <2>2
  <2>4. 1 <= Len(feeds') /\ Len(feeds') <= MaxFeeds
    BY <2>2, <2>3, UpdateAssumption
  <2>5. UNCHANGED <<trust, pointer, downloads>>
    BY <1>2 DEF publish
  <2> QED BY <1>0, <2>3, <2>4, <2>5 DEF FilesOK
<1>3. ASSUME NEW t \in Threads, NEW v \in 1..Len(feeds), trust_answer(t, v)
      PROVE  FilesOK'
  <2>1. trust' = [trust EXCEPT !.version = v] /\ UNCHANGED <<feeds, pointer, downloads>>
    BY <1>3 DEF trust_answer
  <2>2. feeds \in Seq(Feed) /\ Len(feeds) <= MaxFeeds
    BY <1>0 DEF FilesOK
  <2>3. v \in 0..MaxFeeds
    BY <2>2, UpdateAssumption
  <2> QED BY <1>0, <2>1, <2>3 DEF FilesOK
<1>4. ASSUME NEW t \in Threads, accept_required_policy(t)
      PROVE  FilesOK'
  <2>1. hand[t].release \in DOMAIN feeds
    BY <1>0, <1>4 DEF accept_required_policy, HandsOK, Reading, Accepting
  <2> DEFINE policy == feeds[hand[t].release]
  <2>2. policy \in Feed
    BY <1>0, <2>1 DEF FilesOK
  <2>3. trust' = Accepted(policy) /\ UNCHANGED <<feeds, pointer, downloads>>
    BY <1>4 DEF accept_required_policy
  <2> HIDE DEF policy
  <2>4. Accepted(policy) \in [version : 0..MaxFeeds, revision : Nat, minimum : 0..Newest]
    BY <1>0, <2>2, AcceptedIs DEF FilesOK
  <2> QED BY <1>0, <2>3, <2>4 DEF FilesOK
<1>5. ASSUME NEW t \in Threads, download_done(t)
      PROVE  FilesOK'
  <2>1. hand[t].release \in 1..Newest
    BY <1>0, <1>5 DEF download_done, HandsOK, WithRelease
  <2> QED BY <1>0, <1>5, <2>1 DEF download_done, FilesOK
<1>6. ASSUME NEW t \in Threads, apply_stage(t)
      PROVE  FilesOK'
  <2> DEFINE bundle == [release |-> hand[t].release, content |-> hand[t].path]
  <2>1. hand[t].release \in 0..Newest /\ hand[t].path \in 0..Newest
    <3>1. hand[t].release \in 1..Newest
      BY <1>0, <1>6 DEF apply_stage, HandsOK, WithRelease
    <3> QED BY <1>0, <3>1, UpdateAssumption DEF HandsOK
  <2>2. bundle \in [release : 0..Newest, content : 0..Newest]
    BY <2>1
  <2>3. pointer' = [pointer EXCEPT !.slots = [@ EXCEPT ![Other(pointer.active)] = bundle]]
        /\ UNCHANGED <<feeds, trust, downloads>>
    BY <1>6 DEF apply_stage
  <2> HIDE DEF bundle
  <2>4. [pointer.slots EXCEPT ![Other(pointer.active)] = bundle]
           \in [Slots -> [release : 0..Newest, content : 0..Newest]]
    BY <1>0, <2>2 DEF FilesOK
  <2>5. pointer' \in [active : Slots, slots : [Slots -> [release : 0..Newest, content : 0..Newest]]]
    BY <1>0, <2>3, <2>4 DEF FilesOK
  <2> QED BY <1>0, <2>3, <2>5 DEF FilesOK
<1>7. ASSUME NEW t \in Threads, switch_slot(t) \/ health_check(t)
      PROVE  FilesOK'
  <2>1. UNCHANGED <<feeds, trust, downloads>> /\ (pointer' = pointer \/ pointer' = Switched)
    BY <1>7 DEF switch_slot, health_check, Restored
  <2>2. Switched \in [active : Slots, slots : [Slots -> [release : 0..Newest, content : 0..Newest]]]
    BY <1>0, ThreadsAndSlots DEF Switched, FilesOK
  <2> QED BY <1>0, <2>1, <2>2 DEF FilesOK
<1>8. CASE clear_cache
  BY <1>0, <1>8 DEF clear_cache, FilesOK
<1> QED BY <1>1, <1>2, <1>3, <1>4, <1>5, <1>6, <1>7, <1>8, FilesChange

(* _select_update picks no release beyond the newest.                      *)
LEMMA ChosenType ==
    ASSUME NEW current \in 1..Newest, NEW required \in 0..Newest, NEW offer \in 0..Newest
    PROVE  Chosen(current, required, offer) \in 0..Newest
<1>1. Newest \in Nat
  BY UpdateAssumption
<1> DEFINE candidates == {offer} \cup IF current < required THEN {required} ELSE {}
           C == {0} \cup {r \in candidates : r > current}
<1>2. C \subseteq 0..Newest /\ C \subseteq {0, required, offer} /\ 0 \in C
  BY <1>1
<1> HIDE DEF C
<1>3. \E x \in C : \A y \in C : x >= y
  <2>1. \A x, y \in {0, required, offer} : x \in Int /\ y \in Int
    BY <1>1
  <2> QED BY <1>2, <2>1
<1>4. Max(C) \in C
  BY <1>3 DEF Max
<1>5. Chosen(current, required, offer) = Max(C)
  BY DEF Chosen, C
<1> QED BY <1>2, <1>4, <1>5

(* The edits of state.json that an operation makes.                        *)
LEMMA MemoryEdits ==
    ASSUME NEW m, m \in Memory, NEW st \in States, NEW n \in 0..Newest
    PROVE  /\ [m EXCEPT !.state = st] \in Memory
           /\ [m EXCEPT !.state = st, !.selected = n] \in Memory
           /\ [m EXCEPT !.state = st, !.path = n] \in Memory
           /\ [m EXCEPT !.state = st, !.selected = 0, !.path = 0] \in Memory
<1> DEFINE half == [m EXCEPT !.state = st]
<1>1. half \in Memory
  BY DEF Memory
<1> HIDE DEF half
<1>2. 0 \in 0..Newest
  BY UpdateAssumption
<1>3. [half EXCEPT !.selected = n] \in Memory
  BY <1>1 DEF Memory
<1>4. [half EXCEPT !.path = n] \in Memory
  BY <1>1 DEF Memory
<1>5. [half EXCEPT !.selected = 0, !.path = 0] \in Memory
  <2> DEFINE most == [half EXCEPT !.selected = 0]
  <2>1. most \in Memory
    BY <1>1, <1>2 DEF Memory
  <2> HIDE DEF most
  <2>2. [most EXCEPT !.path = 0] \in Memory
    BY <1>2, <2>1 DEF Memory
  <2> QED BY <2>2 DEF most
<1> QED BY <1>1, <1>3, <1>4, <1>5 DEF half

(* Every process remembers, and state.json holds, a record of its type.    *)
LEMMA MemoryStep ==
    ASSUME ContentInv, UpdateNext
    PROVE  stored' \in Memory /\ memory' \in [Players -> Memory]
<1> DEFINE goal == stored' \in Memory /\ memory' \in [Players -> Memory]
<1>0. /\ stored \in Memory /\ memory \in [Players -> Memory]
      /\ HandsOK /\ FilesOK /\ 0 \in 0..Newest
  BY UpdateAssumption DEF ContentInv, ClientsOK
<1>1. ASSUME NEW t \in Threads
      PROVE  t[1] \in Players /\ memory[t[1]] \in Memory
  BY <1>0, ThreadsAndSlots
<1>2. ASSUME NEW p \in Players, NEW value \in Memory, transition(p, value)
      PROVE  goal
  BY <1>0, <1>2 DEF transition
<1>3. \A st \in States : \A t \in Threads : [memory[t[1]] EXCEPT !.state = st] \in Memory
  BY <1>0, <1>1, MemoryEdits
<1>4. CASE UNCHANGED <<stored, memory>>
  BY <1>0, <1>4
<1>5. ASSUME NEW t \in Threads, NEW st \in States,
             transition(t[1], [memory[t[1]] EXCEPT !.state = st])
      PROVE  goal
  BY <1>1, <1>2, <1>3, <1>5
<1>6. ASSUME NEW t \in Threads, finish_check(t)
      PROVE  goal
  <2> DEFINE m == memory[t[1]]
             chosen == Chosen(m.current, trust.minimum, feeds[hand[t].release].offer)
  <2>1. chosen \in 0..Newest
    <3>1. hand[t].release \in DOMAIN feeds /\ feeds \in Seq(Feed)
      BY <1>0, <1>6 DEF finish_check, HandsOK, FilesOK, Reading, Accepts
    <3>4. trust.minimum \in 0..Newest
      BY <1>0 DEF FilesOK
    <3>5. feeds[hand[t].release] \in Feed
      BY <3>1
    <3>2. feeds[hand[t].release].offer \in 0..Newest
      BY <3>5 DEF Feed
    <3>3. m.current \in 1..Newest
      BY <1>1 DEF Memory
    <3> QED BY <3>2, <3>3, <3>4, ChosenType
  <2>2. CASE hand[t].at = "policy_done"
    <3> DEFINE st == IF m.path # 0 THEN "staged" ELSE "idle"
    <3>1. transition(t[1], [m EXCEPT !.state = st])
      BY <1>6, <2>2 DEF finish_check
    <3>2. st \in States
      BY DEF States
    <3> HIDE DEF st
    <3> QED BY <1>5, <3>1, <3>2
  <2>3. CASE hand[t].at # "policy_done" /\ chosen = 0
    <3>1. transition(t[1], [m EXCEPT !.state = "idle", !.selected = 0, !.path = 0])
      BY <1>6, <2>3 DEF finish_check
    <3>2. [m EXCEPT !.state = "idle", !.selected = 0, !.path = 0] \in Memory
      BY <1>0, <1>1, MemoryEdits DEF States
    <3> QED BY <1>1, <1>2, <3>1, <3>2
  <2>4. CASE hand[t].at # "policy_done" /\ chosen # 0
    <3>1. transition(t[1], [m EXCEPT !.state = "available", !.selected = chosen])
      BY <1>6, <2>4 DEF finish_check
    <3> HIDE DEF chosen
    <3>2. "available" \in States /\ m \in Memory
      BY <1>1 DEF States
    <3>3. [m EXCEPT !.state = "available", !.selected = chosen] \in Memory
      BY <2>1, <3>2, MemoryEdits
    <3> QED BY <1>1, <1>2, <3>1, <3>3
  <2> QED BY <2>2, <2>3, <2>4
<1>7. ASSUME NEW t \in Threads, download_done(t)
      PROVE  goal
  <2> DEFINE n == hand[t].release
  <2>1. n \in 0..Newest
    <3>1. n \in 1..Newest
      BY <1>0, <1>7 DEF download_done, HandsOK, WithRelease
    <3> QED BY <3>1, UpdateAssumption
  <2>2. transition(t[1], [memory[t[1]] EXCEPT !.state = "staged", !.path = n])
    BY <1>7 DEF download_done
  <2> HIDE DEF n
  <2>3. "staged" \in States
    BY DEF States
  <2>4. [memory[t[1]] EXCEPT !.state = "staged", !.path = n] \in Memory
    BY <1>1, <2>1, <2>3, MemoryEdits
  <2> QED BY <1>1, <1>2, <2>2, <2>4
<1>8. ASSUME NEW t \in Threads, health_check(t)
      PROVE  goal
  <2>1. hand[t].release \in 1..Newest
    BY <1>0, <1>8 DEF health_check, HandsOK, WithRelease
  <2>2. [state |-> "complete", current |-> hand[t].release, selected |-> 0, path |-> 0] \in Memory
    BY <1>0, <2>1 DEF Memory, States
  <2>3. \/ transition(t[1], [state |-> "complete", current |-> hand[t].release, selected |-> 0, path |-> 0])
        \/ transition(t[1], [memory[t[1]] EXCEPT !.state = "rolled_back"])
    BY <1>8 DEF health_check
  <2>4. "rolled_back" \in States
    BY DEF States
  <2> QED BY <1>1, <1>2, <1>5, <2>2, <2>3, <2>4
<1>9. ASSUME NEW p \in Players, process_stops(p) \/ process_opens(p)
      PROVE  goal
  <2>1. Installed \in Memory
    BY <1>0, UpdateAssumption DEF Installed, Memory, States
  <2> QED BY <1>0, <1>9, <2>1 DEF process_stops, process_opens
<1>10. ASSUME NEW t \in Threads,
              \/ \E policyOnly \in BOOLEAN : check_feed(t, policyOnly)
              \/ operation_fails(t) \/ download(t) \/ apply_look(t) \/ apply_stage(t)
              \/ apply_stage_fails(t)
       PROVE  goal
  <2>1. \E st \in {"checking", "failed", "downloading", "applying", "waiting_safe_point", "verifying",
                   "rolled_back"} :
           transition(t[1], [memory[t[1]] EXCEPT !.state = st])
    BY <1>10 DEF check_feed, operation_fails, download, apply_look, apply_stage, apply_stage_fails
  <2>2. PICK st \in States : transition(t[1], [memory[t[1]] EXCEPT !.state = st])
    BY <2>1 DEF States
  <2> QED BY <1>5, <2>2
<1>11. \/ UNCHANGED <<stored, memory>>
       \/ \E t \in Threads :
             \/ \E policyOnly \in BOOLEAN : check_feed(t, policyOnly)
             \/ operation_fails(t) \/ download(t) \/ apply_look(t) \/ apply_stage(t)
             \/ apply_stage_fails(t)
       \/ \E t \in Threads : finish_check(t) \/ download_done(t) \/ health_check(t)
       \/ \E p \in Players : process_stops(p) \/ process_opens(p)
  BY DEF UpdateNext, publish, author_offers, author_requires, author_revokes, trust_answer,
         accept_required_policy, download_call, apply_call, switch_slot, clear_cache,
         start_play, runtime_starts, note_play, play_ends, mark_end, mark_update_safe_point
<1> QED BY <1>4, <1>6, <1>7, <1>8, <1>9, <1>10, <1>11

(* The leases, the runs and the count of ended processes keep their types. *)
LEMMA PlaysStep ==
    ASSUME ContentInv, UpdateNext
    PROVE  /\ lease' \in [Players -> {"safe", "unsafe", "closed"}]
           /\ play' \in [Plays -> PlayRecord]
           /\ stops' \in Nat
<1> DEFINE goal == /\ lease' \in [Players -> {"safe", "unsafe", "closed"}]
                   /\ play' \in [Plays -> PlayRecord]
                   /\ stops' \in Nat
<1>0. /\ lease \in [Players -> {"safe", "unsafe", "closed"}]
      /\ play \in [Plays -> PlayRecord]
      /\ stops \in Nat
  BY DEF ContentInv, ClientsOK
<1>1. CASE UNCHANGED <<lease, play, stops>>
  BY <1>0, <1>1
<1>2. ASSUME NEW p \in Players
      PROVE  heard(p) \in [Plays -> PlayRecord] /\ unheard(p) \in [Plays -> PlayRecord]
  BY <1>0 DEF heard, unheard, PlayRecord
<1>3. Idle("over") \in PlayRecord /\ Idle("orphan") \in PlayRecord
  BY DEF Idle, PlayRecord, PlaySteps
<1>4. ASSUME NEW r \in Plays, NEW p \in Players, start_play(r, p)
      PROVE  goal
  <2> DEFINE new == [at |-> "marked", player |-> p, unheard |-> FALSE]
  <2>1. new \in PlayRecord
    BY DEF PlayRecord, PlaySteps
  <2>2. /\ play' = [heard(p) EXCEPT ![r] = new] /\ lease' = [lease EXCEPT ![p] = "unsafe"]
        /\ stops' = stops
    BY <1>4 DEF start_play
  <2> HIDE DEF new
  <2> QED BY <1>0, <1>2, <2>1, <2>2
<1>5. ASSUME NEW r \in Plays, runtime_starts(r) \/ note_play(r)
      PROVE  goal
  BY <1>0, <1>5 DEF runtime_starts, note_play, PlaySteps, PlayRecord
<1>6. ASSUME NEW r \in Plays, play_ends(r)
      PROVE  goal
  <2> DEFINE after == IF play[r].at = "noted" THEN [play[r] EXCEPT !.at = "ended"] ELSE Idle("over")
  <2>1. play' = [play EXCEPT ![r] = after] /\ lease' = lease /\ stops' = stops
    BY <1>6 DEF play_ends
  <2>2. [play[r] EXCEPT !.at = "ended"] \in PlayRecord
    BY <1>0 DEF PlayRecord, PlaySteps
  <2>3. after \in PlayRecord
    BY <1>3, <2>2
  <2> HIDE DEF after
  <2> QED BY <1>0, <2>1, <2>3
<1>7. ASSUME NEW r \in Plays, mark_end(r)
      PROVE  goal
  <2> DEFINE p == play[r].player
             q == IF _runtime_busy(p) THEN heard(p) ELSE unheard(p)
  <2>1. /\ play' = [q EXCEPT ![r] = Idle("over")] /\ stops' = stops
        /\ lease' = [lease EXCEPT ![p] = IF _runtime_busy(p) THEN "unsafe" ELSE "safe"]
    BY <1>7 DEF mark_end
  <2>2. heard(p) \in [Plays -> PlayRecord] /\ unheard(p) \in [Plays -> PlayRecord]
    BY <1>0 DEF heard, unheard, PlayRecord
  <2>3. q \in [Plays -> PlayRecord]
    BY <2>2
  <2> HIDE DEF q
  <2>4. lease' \in [Players -> {"safe", "unsafe", "closed"}]
    BY <1>0, <2>1
  <2> QED BY <1>0, <1>3, <2>1, <2>3, <2>4
<1>8. ASSUME NEW p \in Players, NEW busy \in BOOLEAN, mark_update_safe_point(p, busy)
      PROVE  goal
  BY <1>0, <1>2, <1>8 DEF mark_update_safe_point
<1>9. ASSUME NEW p \in Players, process_stops(p)
      PROVE  goal
  <2>1. /\ stops' = stops + 1 /\ lease' = [lease EXCEPT ![p] = "closed"]
    BY <1>9 DEF process_stops
  <2>2. \A r \in Plays : play'[r] \in {play[r], Idle("orphan"), Idle("over")}
    BY <1>9, <1>0 DEF process_stops, PlayRecord, PlaySteps
  <2>3. \A r \in Plays : play'[r] \in PlayRecord
    BY <1>0, <1>3, <2>2
  <2>4. play' = [r \in Plays |-> play'[r]]
    BY <1>9 DEF process_stops
  <2> QED BY <1>0, <2>1, <2>3, <2>4
<1>10. ASSUME NEW p \in Players, process_opens(p)
      PROVE  goal
  BY <1>0, <1>10 DEF process_opens
<1>11. \/ UNCHANGED <<lease, play, stops>>
       \/ \E r \in Plays :
             \/ \E p \in Players : start_play(r, p)
             \/ runtime_starts(r) \/ note_play(r) \/ play_ends(r) \/ mark_end(r)
       \/ \E p \in Players :
             \/ \E busy \in BOOLEAN : mark_update_safe_point(p, busy)
             \/ process_stops(p) \/ process_opens(p)
  BY DEF UpdateNext, publish, author_offers, author_requires, author_revokes, check_feed,
         trust_answer, accept_required_policy, finish_check, operation_fails, download_call,
         download, download_done, apply_call, apply_look, apply_stage, apply_stage_fails,
         switch_slot, health_check, clear_cache
<1> QED BY <1>1, <1>4, <1>5, <1>6, <1>7, <1>8, <1>9, <1>10, <1>11

(* What a step does to the threads and the lock: nothing, one thread takes *)
(* the lock, moves on under it or leaves it, one thread looks up what it   *)
(* was called for, or a process ends with all of its threads.              *)
LEMMA HandsChange ==
    ASSUME ContentInv, UpdateNext
    PROVE  \/ UNCHANGED <<hand, holder>>
           \/ \E t \in Threads, at \in {"policy", "check"} : hand[t].at = "idle" /\ takes_lock(t, at)
           \/ \E t \in Threads : hand[t].at = "to_fetch" /\ takes_lock(t, "fetch")
           \/ \E t \in Threads :
                 hand[t].at = "to_apply" /\ all_safe(t[1]) /\ takes_lock(t, "stage")
           \/ \E t \in Threads : hand[t].at \in InLock /\ leaves(t)
           \/ \E t \in Threads, v \in 1..Len(feeds), at \in Accepting :
                 /\ trust_answer(t, v)
                 /\ hand' = [hand EXCEPT ![t].release = v, ![t].at = at]
           \/ \E t \in Threads, at \in Accepts :
                 accept_required_policy(t) /\ hand' = [hand EXCEPT ![t].at = at]
           \/ \E t \in Threads, at \in {"activate", "health"} :
                 /\ hand[t].at = IF at = "activate" THEN "stage" ELSE "activate"
                 /\ hand' = [hand EXCEPT ![t].at = at]
                 /\ UNCHANGED holder
           \/ \E t \in Threads, n \in 1..Newest :
                 /\ hand[t].at = "idle"
                 /\ hand' = [hand EXCEPT ![t].at = "to_fetch", ![t].release = n]
                 /\ UNCHANGED holder
           \/ \E t \in Threads, n \in 1..Newest, path \in 0..Newest :
                 /\ hand[t].at = "idle"
                 /\ hand' = [hand EXCEPT ![t] = [at |-> "to_apply", release |-> n, path |-> path]]
                 /\ UNCHANGED holder
           \/ \E t \in Threads :
                 hand[t].at = "to_apply" /\ hand' = [hand EXCEPT ![t] = AtRest] /\ UNCHANGED holder
           \/ \E p \in Players : process_stops(p)
<1>0. /\ memory \in [Players -> Memory]
      /\ hand \in [Threads -> [at : HandSteps, release : Nat, path : 0..Newest]]
      /\ \A t \in Threads : memory[t[1]].selected # 0 => memory[t[1]].selected \in 1..Newest
      /\ \A t \in Threads : memory[t[1]].path \in 0..Newest
  BY ThreadsAndSlots, UpdateAssumption DEF ContentInv, ClientsOK, HandsOK, Memory
<1>1. ASSUME NEW t \in Threads, NEW policyOnly \in BOOLEAN, check_feed(t, policyOnly)
      PROVE  \E at \in {"policy", "check"} : hand[t].at = "idle" /\ takes_lock(t, at)
  BY <1>1 DEF check_feed
<1>2. ASSUME NEW t \in Threads, NEW v \in 1..Len(feeds), trust_answer(t, v)
      PROVE  \E at \in Accepting : hand' = [hand EXCEPT ![t].release = v, ![t].at = at]
  <2> DEFINE at == Acceptance(hand[t].at, v)
  <2>1. hand' = [hand EXCEPT ![t].release = v, ![t].at = at]
    BY <1>2, <1>0 DEF trust_answer
  <2>2. at \in Accepting
    BY DEF Acceptance, Accepting
  <2> QED BY <2>1, <2>2
<1>9. ASSUME NEW t \in Threads, accept_required_policy(t)
      PROVE  \E at \in Accepts : hand' = [hand EXCEPT ![t].at = at]
  BY <1>9 DEF accept_required_policy, Accepts
<1>3. ASSUME NEW t \in Threads,
             \/ finish_check(t) \/ operation_fails(t) \/ download_done(t)
             \/ apply_stage_fails(t) \/ health_check(t)
      PROVE  hand[t].at \in InLock /\ leaves(t)
  BY <1>3 DEF finish_check, operation_fails, download_done, apply_stage_fails, health_check, InLock,
              InCheck
<1>4. ASSUME NEW t \in Threads, download_call(t)
      PROVE  \E n \in 1..Newest :
                 /\ hand[t].at = "idle"
                 /\ hand' = [hand EXCEPT ![t].at = "to_fetch", ![t].release = n]
                 /\ UNCHANGED holder
  BY <1>0, <1>4 DEF download_call
<1>5. ASSUME NEW t \in Threads, apply_call(t)
      PROVE  \E n \in 1..Newest, path \in 0..Newest :
                 /\ hand[t].at = "idle"
                 /\ hand' = [hand EXCEPT ![t] = [at |-> "to_apply", release |-> n, path |-> path]]
                 /\ UNCHANGED holder
  BY <1>0, <1>5 DEF apply_call
<1>6. ASSUME NEW t \in Threads, apply_look(t)
      PROVE  /\ hand[t].at = "to_apply"
             /\ \/ all_safe(t[1]) /\ takes_lock(t, "stage")
                \/ hand' = [hand EXCEPT ![t] = AtRest] /\ UNCHANGED holder
  BY <1>6 DEF apply_look
<1>7. ASSUME NEW t \in Threads, apply_stage(t) \/ switch_slot(t)
      PROVE  \E at \in {"activate", "health"} :
                 /\ hand[t].at = IF at = "activate" THEN "stage" ELSE "activate"
                 /\ hand' = [hand EXCEPT ![t].at = at]
                 /\ UNCHANGED holder
  BY <1>7 DEF apply_stage, switch_slot
<1>8. \/ UNCHANGED <<hand, holder>>
      \/ \E t \in Threads :
            \/ \E policyOnly \in BOOLEAN : check_feed(t, policyOnly)
            \/ \E v \in 1..Len(feeds) : trust_answer(t, v)
            \/ accept_required_policy(t)
            \/ finish_check(t) \/ operation_fails(t) \/ download_done(t)
            \/ apply_stage_fails(t) \/ health_check(t)
            \/ download_call(t) \/ apply_call(t) \/ apply_look(t)
            \/ apply_stage(t) \/ switch_slot(t)
      \/ \E t \in Threads : hand[t].at = "to_fetch" /\ takes_lock(t, "fetch")
      \/ \E p \in Players : process_stops(p)
  BY DEF UpdateNext, publish, author_offers, author_requires, author_revokes, download, clear_cache,
         start_play, runtime_starts, note_play, play_ends, mark_end, mark_update_safe_point,
         process_opens
<1> QED BY <1>1, <1>2, <1>3, <1>4, <1>5, <1>6, <1>7, <1>8, <1>9

(* What was published stays published.                                     *)
LEMMA FeedsGrow ==
    ASSUME ContentInv, UpdateNext
    PROVE  DOMAIN feeds \subseteq DOMAIN feeds' /\ \A v \in DOMAIN feeds : feeds'[v] = feeds[v]
<1>0. feeds \in Seq(Feed) /\ FilesOK /\ FeedsInOrder
  BY DEF ContentInv, FilesOK
<1>1. CASE feeds' = feeds
  BY <1>1
<1>2. ASSUME NEW feed, AuthorFeed(feed), publish(feed)
      PROVE  DOMAIN feeds \subseteq DOMAIN feeds' /\ \A v \in DOMAIN feeds : feeds'[v] = feeds[v]
  <2>1. feeds' = Append(feeds, feed) /\ feed \in Feed
    BY <1>0, <1>2, AuthorStep DEF publish
  <2> QED BY <1>0, <2>1
<1>3. feeds' = feeds \/ \E feed : AuthorFeed(feed) /\ publish(feed)
  BY FilesChange DEF trust_answer, accept_required_policy, download_done, apply_stage, switch_slot,
                     health_check, clear_cache
<1> QED BY <1>1, <1>2, <1>3

(* The threads keep their types, and the lock its one holder.              *)
LEMMA HandsStep ==
    ASSUME ContentInv, UpdateNext
    PROVE  HandsOK' /\ LockIsHeld'
<1> DEFINE Hand == [at : HandSteps, release : Nat, path : 0..Newest]
           \* What holds of a thread, given the feeds and the holder.
           Fine(h) == /\ h \in Hand
                      /\ h.at \in WithRelease => h.release \in 1..Newest
                      /\ h.at \in Reading => h.release \in DOMAIN feeds
           goal == HandsOK' /\ LockIsHeld'
<1>0. /\ holder \in Threads \cup {NoHolder}
      /\ hand \in [Threads -> Hand]
      /\ \A t \in Threads : Fine(hand[t])
      /\ \A t \in Threads : hand[t].at \in InLock <=> holder = t
      /\ NoHolder \notin Threads
      /\ Newest \in Nat /\ 0 \in 0..Newest
  BY ThreadsAndSlots, UpdateAssumption DEF ContentInv, HandsOK, LockIsHeld
<1>1. DOMAIN feeds \subseteq DOMAIN feeds'
  BY FeedsGrow
<1>2. ASSUME NEW t \in Threads, NEW h, Fine(h), hand' = [hand EXCEPT ![t] = h],
             holder' \in Threads \cup {NoHolder},
             \A u \in Threads : u # t => (holder' = u <=> holder = u),
             h.at \in InLock <=> holder' = t
      PROVE  goal
  <2>1. hand' \in [Threads -> Hand] /\ hand'[t] = h /\ \A u \in Threads : u # t => hand'[u] = hand[u]
    BY <1>0, <1>2
  <2>2. \A u \in Threads : Fine(hand'[u])
    BY <1>0, <1>2, <2>1
  <2>3. \A u \in Threads : hand'[u].at \in InLock <=> holder' = u
    BY <1>0, <1>2, <2>1
  <2> QED BY <1>1, <1>2, <2>1, <2>2, <2>3 DEF HandsOK, LockIsHeld
<1>3. CASE UNCHANGED <<hand, holder>>
  BY <1>0, <1>1, <1>3 DEF HandsOK, LockIsHeld
<1>4. ASSUME NEW t \in Threads, NEW at \in {"policy", "check", "fetch", "stage"}, takes_lock(t, at),
             at \in WithRelease => hand[t].at \in WithRelease
      PROVE  goal
  <2> DEFINE h == [hand[t] EXCEPT !.at = at]
  <2>1. /\ holder = NoHolder /\ holder' = t
        /\ hand' = [hand EXCEPT ![t] = h]
    BY <1>4 DEF takes_lock
  <2>2. /\ h \in Hand /\ h.at = at /\ h.release = hand[t].release
    BY <1>0, <1>4 DEF HandSteps, InLock, WithRelease
  <2>3. Fine(h)
    BY <1>0, <1>4, <2>2 DEF Reading, Accepting, Accepts
  <2>4. h.at \in InLock
    BY <2>2 DEF InLock
  <2> HIDE DEF h, Fine
  <2> QED BY <1>0, <1>2, <2>1, <2>3, <2>4
<1>5. ASSUME NEW t \in Threads, hand[t].at \in InLock, leaves(t)
      PROVE  goal
  <2>1. Fine(AtRest) /\ AtRest.at \notin InLock
    BY <1>0 DEF AtRest, HandSteps, InLock, WithRelease, Reading, Accepting, Accepts
  <2>2. holder = t /\ holder' = NoHolder /\ hand' = [hand EXCEPT ![t] = AtRest]
    BY <1>0, <1>5 DEF leaves
  <2> HIDE DEF Fine
  <2> QED BY <1>0, <1>2, <2>1, <2>2
<1>6. ASSUME NEW t \in Threads, NEW v \in 1..Len(feeds), NEW at \in Accepting,
             hand[t].at \in {"policy", "check"},
             hand' = [hand EXCEPT ![t].release = v, ![t].at = at], UNCHANGED holder
      PROVE  goal
  <2> DEFINE half == [hand[t] EXCEPT !.release = v]
             h == [half EXCEPT !.at = at]
  <2>1. hand' = [hand EXCEPT ![t] = h]
    BY <1>0, <1>6
  <2>2. v \in Nat /\ v \in DOMAIN feeds
    BY DEF ContentInv, FilesOK
  <2>3. half \in Hand /\ half.release = v
    BY <1>0, <2>2
  <2> HIDE DEF half
  <2>4. h \in Hand /\ h.at = at /\ h.release = v
    BY <2>3 DEF HandSteps, InLock, Accepting
  <2>5. Fine(h) /\ h.at \in InLock /\ holder = t
    BY <1>0, <1>6, <2>2, <2>4 DEF InLock, WithRelease, Accepting
  <2> HIDE DEF h, Fine
  <2> QED BY <1>0, <1>2, <1>6, <2>1, <2>5
<1>7. ASSUME NEW t \in Threads, NEW at \in {"activate", "health"},
             hand[t].at = IF at = "activate" THEN "stage" ELSE "activate",
             hand' = [hand EXCEPT ![t].at = at], UNCHANGED holder
      PROVE  goal
  <2> DEFINE h == [hand[t] EXCEPT !.at = at]
  <2>1. h \in Hand /\ h.at = at /\ h.release = hand[t].release
    BY <1>0, <1>7 DEF HandSteps, InLock
  <2>2. Fine(h) /\ h.at \in InLock /\ holder = t
    BY <1>0, <1>7, <2>1 DEF InLock, WithRelease, Reading, Accepting, Accepts
  <2>3. hand' = [hand EXCEPT ![t] = h]
    BY <1>7
  <2> HIDE DEF h, Fine
  <2> QED BY <1>0, <1>2, <1>7, <2>2, <2>3
<1>8. ASSUME NEW t \in Threads, NEW n \in 1..Newest, hand[t].at = "idle",
             hand' = [hand EXCEPT ![t].at = "to_fetch", ![t].release = n], UNCHANGED holder
      PROVE  goal
  <2> DEFINE half == [hand[t] EXCEPT !.at = "to_fetch"]
             h == [half EXCEPT !.release = n]
  <2>1. hand' = [hand EXCEPT ![t] = h]
    BY <1>0, <1>8
  <2>2. n \in Nat
    BY <1>0
  <2>3. half \in Hand /\ half.at = "to_fetch"
    BY <1>0 DEF HandSteps, WithRelease
  <2> HIDE DEF half
  <2>4. h \in Hand /\ h.at = "to_fetch" /\ h.release = n
    BY <2>2, <2>3
  <2>5. Fine(h) /\ h.at \notin InLock /\ holder # t
    BY <1>0, <1>8, <2>4 DEF InLock, WithRelease, Reading, Accepting, Accepts
  <2> HIDE DEF h, Fine
  <2> QED BY <1>0, <1>2, <1>8, <2>1, <2>5
<1>9. ASSUME NEW t \in Threads, NEW n \in 1..Newest, NEW path \in 0..Newest, hand[t].at = "idle",
             hand' = [hand EXCEPT ![t] = [at |-> "to_apply", release |-> n, path |-> path]],
             UNCHANGED holder
      PROVE  goal
  <2> DEFINE h == [at |-> "to_apply", release |-> n, path |-> path]
  <2>1. Fine(h) /\ h.at \notin InLock /\ holder # t
    BY <1>0, <1>9 DEF HandSteps, InLock, WithRelease, Reading, Accepting, Accepts
  <2>2. hand' = [hand EXCEPT ![t] = h]
    BY <1>9
  <2> HIDE DEF h, Fine
  <2> QED BY <1>0, <1>2, <1>9, <2>1, <2>2
<1>10. ASSUME NEW t \in Threads, hand[t].at = "to_apply", hand' = [hand EXCEPT ![t] = AtRest],
              UNCHANGED holder
       PROVE  goal
  <2>1. Fine(AtRest) /\ AtRest.at \notin InLock /\ holder # t
    BY <1>0, <1>10 DEF AtRest, HandSteps, InLock, WithRelease, Reading, Accepting, Accepts
  <2> HIDE DEF Fine
  <2> QED BY <1>0, <1>2, <1>10, <2>1
<1>11. ASSUME NEW p \in Players, process_stops(p)
       PROVE  goal
  <2>1. /\ hand' = [t \in Threads |-> IF t[1] = p THEN AtRest ELSE hand[t]]
        /\ holder' = IF holder # NoHolder /\ holder[1] = p THEN NoHolder ELSE holder
    BY <1>11 DEF process_stops
  <2>2. Fine(AtRest) /\ AtRest.at \notin InLock
    BY <1>0 DEF AtRest, HandSteps, InLock, WithRelease, Reading, Accepting, Accepts
  <2>3. \A t \in Threads : Fine(hand'[t])
    BY <1>0, <2>1, <2>2
  <2>4. hand' \in [Threads -> Hand]
    BY <1>0, <2>1, <2>2
  <2>5. holder' \in Threads \cup {NoHolder}
    BY <1>0, <2>1
  <2>6. \A t \in Threads : hand'[t].at \in InLock <=> holder' = t
    BY <1>0, <2>1, <2>2
  <2> QED BY <1>1, <2>3, <2>4, <2>5, <2>6 DEF HandsOK, LockIsHeld
<1> HIDE DEF goal
<1>12. ASSUME NEW t \in Threads, hand[t].at = "idle" \/ hand[t].at = "to_fetch" \/ hand[t].at = "to_apply",
              \/ \E at \in {"policy", "check"} : takes_lock(t, at)
              \/ hand[t].at = "to_fetch" /\ takes_lock(t, "fetch")
              \/ hand[t].at = "to_apply" /\ takes_lock(t, "stage")
       PROVE  goal
  BY <1>4, <1>12 DEF WithRelease
<1>13. ASSUME NEW t \in Threads, NEW at \in Accepts, accept_required_policy(t),
              hand' = [hand EXCEPT ![t].at = at]
       PROVE  goal
  <2> DEFINE h == [hand[t] EXCEPT !.at = at]
  <2>1. h \in Hand /\ h.at = at /\ h.release = hand[t].release
    BY <1>0 DEF HandSteps, InLock, Accepts
  <2>2. hand[t].at \in Accepting /\ holder' = holder
    BY <1>13 DEF accept_required_policy, Accepting
  <2>3. Fine(h) /\ h.at \in InLock /\ holder = t
    BY <1>0, <2>1, <2>2 DEF InLock, WithRelease, Reading, Accepting, Accepts
  <2>4. hand' = [hand EXCEPT ![t] = h]
    BY <1>13
  <2> HIDE DEF h, Fine
  <2> QED BY <1>0, <1>2, <2>2, <2>3, <2>4 DEF goal
<1>14. ASSUME NEW t \in Threads, NEW v \in 1..Len(feeds), NEW at \in Accepting, trust_answer(t, v),
              hand' = [hand EXCEPT ![t].release = v, ![t].at = at]
       PROVE  goal
  BY <1>6, <1>14 DEF trust_answer
<1> QED BY <1>3, <1>5, <1>7, <1>8, <1>9, <1>10, <1>11, <1>12, <1>13, <1>14, HandsChange DEF goal

(* Only the switch of the slot and the health check after it change which  *)
(* threads are between the two.                                            *)
LEMMA CheckingChange ==
    ASSUME ContentInv, UpdateNext
    PROVE  \/ \A t \in Threads : hand'[t].at = "health" <=> hand[t].at = "health"
           \/ \E t \in Threads : switch_slot(t) \/ health_check(t)
           \/ \E p \in Players : process_stops(p)
<1> DEFINE same == \A t \in Threads : hand'[t].at = "health" <=> hand[t].at = "health"
<1>0. hand \in [Threads -> [at : HandSteps, release : Nat, path : 0..Newest]]
  BY DEF ContentInv, HandsOK
<1>1. CASE UNCHANGED hand
  BY <1>1
<1>2. ASSUME NEW t \in Threads, hand[t].at # "health", NEW at, at # "health",
             hand' = [hand EXCEPT ![t].at = at]
      PROVE  same
  BY <1>0, <1>2
<1>3. ASSUME NEW t \in Threads, hand[t].at # "health", leaves(t)
      PROVE  same
  BY <1>0, <1>3 DEF leaves, AtRest
<1>4. ASSUME NEW t \in Threads, \E policyOnly \in BOOLEAN : check_feed(t, policyOnly)
      PROVE  same
  <2>1. PICK at \in {"policy", "check"} : hand[t].at = "idle" /\ hand' = [hand EXCEPT ![t].at = at]
    BY <1>4 DEF check_feed, takes_lock
  <2> QED BY <1>2, <2>1
<1>5. ASSUME NEW t \in Threads, NEW v \in 1..Len(feeds), trust_answer(t, v)
      PROVE  same
  <2> DEFINE at == Acceptance(hand[t].at, v)
             half == [hand[t] EXCEPT !.release = v]
             h == [half EXCEPT !.at = at]
  <2>0. at # "health"
    BY DEF Acceptance
  <2> HIDE DEF at
  <2>1. hand' = [hand EXCEPT ![t] = h] /\ hand[t].at # "health"
    BY <1>0, <1>5 DEF trust_answer, at
  <2>2. half \in [at : HandSteps, release : Nat, path : 0..Newest]
    BY <1>0
  <2> HIDE DEF half
  <2>3. h.at = at
    BY <2>2
  <2> HIDE DEF h
  <2> QED BY <1>0, <2>0, <2>1, <2>3
<1>6. ASSUME NEW t \in Threads,
             finish_check(t) \/ operation_fails(t) \/ download_done(t) \/ apply_stage_fails(t)
      PROVE  same
  BY <1>3, <1>6 DEF finish_check, operation_fails, download_done, apply_stage_fails, InCheck
<1>7. ASSUME NEW t \in Threads, download_call(t)
      PROVE  same
  <2> DEFINE half == [hand[t] EXCEPT !.at = "to_fetch"]
             h == [half EXCEPT !.release = memory[t[1]].selected]
  <2>1. hand' = [hand EXCEPT ![t] = h] /\ hand[t].at # "health"
    BY <1>0, <1>7 DEF download_call
  <2>2. half \in [at : HandSteps, release : Nat, path : 0..Newest] /\ half.at = "to_fetch"
    BY <1>0 DEF HandSteps, WithRelease
  <2> HIDE DEF half
  <2>3. h.at = "to_fetch"
    BY <2>2
  <2> HIDE DEF h
  <2> QED BY <1>0, <2>1, <2>3
<1>8. ASSUME NEW t \in Threads, download(t) \/ apply_stage(t) \/ accept_required_policy(t)
      PROVE  same
  <2>1. PICK at \in {"fetch", "activate", "select", "policy_done"} :
             hand[t].at # "health" /\ hand' = [hand EXCEPT ![t].at = at]
    BY <1>8 DEF download, apply_stage, takes_lock, accept_required_policy
  <2> QED BY <1>2, <2>1
<1>9. ASSUME NEW t \in Threads, apply_call(t)
      PROVE  same
  BY <1>0, <1>9 DEF apply_call
<1>10. ASSUME NEW t \in Threads, apply_look(t)
       PROVE  same
  <2>1. CASE all_safe(t[1])
    <3>1. hand[t].at # "health" /\ hand' = [hand EXCEPT ![t].at = "stage"]
      BY <1>10, <2>1 DEF apply_look, takes_lock
    <3> QED BY <1>2, <3>1
  <2>2. CASE ~all_safe(t[1])
    BY <1>0, <1>10, <2>2 DEF apply_look, AtRest
  <2> QED BY <2>1, <2>2
<1>11. \/ UNCHANGED hand
       \/ \E t \in Threads :
            \/ \E policyOnly \in BOOLEAN : check_feed(t, policyOnly)
            \/ \E v \in 1..Len(feeds) : trust_answer(t, v)
            \/ accept_required_policy(t)
            \/ finish_check(t) \/ operation_fails(t) \/ download_done(t) \/ apply_stage_fails(t)
            \/ download_call(t) \/ download(t) \/ apply_stage(t) \/ apply_call(t) \/ apply_look(t)
            \/ switch_slot(t) \/ health_check(t)
       \/ \E p \in Players : process_stops(p)
  BY DEF UpdateNext, publish, author_offers, author_requires, author_revokes, clear_cache, start_play,
         runtime_starts, note_play, play_ends, mark_end, mark_update_safe_point, process_opens
<1> HIDE DEF same
<1>12. \/ same
       \/ \E t \in Threads : switch_slot(t) \/ health_check(t)
       \/ \E p \in Players : process_stops(p)
  BY <1>1, <1>4, <1>5, <1>6, <1>7, <1>8, <1>9, <1>10, <1>11 DEF same
<1> QED BY <1>12 DEF same

(* The slot that counts is sound after every step before the first process *)
(* ends: a bundle goes into the slot that is not active, and a switch that *)
(* fails its health check is undone.                                       *)
LEMMA SlotStep ==
    ASSUME ContentInv, UpdateNext
    PROVE  SoundSlot'
<1> DEFINE Checking == \E t \in Threads : hand[t].at = "health"
<1>0. /\ pointer \in [active : Slots, slots : [Slots -> [release : 0..Newest, content : 0..Newest]]]
      /\ pointer.active \in Slots
      /\ hand \in [Threads -> [at : HandSteps, release : Nat, path : 0..Newest]]
      /\ \A t, u \in Threads : hand[t].at \in InLock /\ hand[u].at \in InLock => t = u
      /\ stops \in Nat
      /\ SoundSlot
  BY DEF ContentInv, FilesOK, ClientsOK, HandsOK, LockIsHeld
<1>1. ASSUME NEW p \in Players, process_stops(p)
      PROVE  SoundSlot'
  BY <1>0, <1>1 DEF process_stops, SoundSlot
<1>2. ASSUME NEW t \in Threads, switch_slot(t)
      PROVE  SoundSlot'
  <2>1. ~Checking
    BY <1>0, <1>2 DEF switch_slot, InLock
  <2>2. hand'[t].at = "health"
    BY <1>0, <1>2 DEF switch_slot
  <2>3. /\ pointer'.slots = pointer.slots /\ pointer'.active = Other(pointer.active)
        /\ stops' = stops
    BY <1>0, <1>2 DEF switch_slot, Switched
  <2>4. Other(pointer'.active) = pointer.active
    BY <1>0, <2>3, ThreadsAndSlots
  <2> QED BY <1>0, <2>1, <2>2, <2>3, <2>4 DEF SoundSlot
<1>3. ASSUME NEW t \in Threads, health_check(t)
      PROVE  SoundSlot'
  <2>1. hand[t].at = "health" /\ stops' = stops /\ hand' = [hand EXCEPT ![t] = AtRest]
    BY <1>3 DEF health_check, leaves
  <2>2. \A u \in Threads : hand'[u].at # "health"
    BY <1>0, <2>1 DEF AtRest, InLock
  <2>3. CASE pointer.slots[pointer.active].content \notin Broken
    <3>1. pointer' = pointer
      BY <1>3, <2>3 DEF health_check
    <3> QED BY <2>2, <2>3, <3>1 DEF SoundSlot
  <2>4. CASE pointer.slots[pointer.active].content \in Broken
    <3>1. pointer' = [pointer EXCEPT !.active = Other(pointer.active)]
      BY <1>3, <2>4 DEF health_check, Restored, Switched
    <3>2. pointer'.slots = pointer.slots /\ pointer'.active = Other(pointer.active)
      BY <1>0, <3>1
    <3> QED BY <1>0, <2>1, <2>2, <3>2 DEF SoundSlot
  <2> QED BY <2>3, <2>4
<1>4. ASSUME NEW t \in Threads, apply_stage(t),
             \A u \in Threads : hand'[u].at = "health" <=> hand[u].at = "health"
      PROVE  SoundSlot'
  <2> DEFINE bundle == [release |-> hand[t].release, content |-> hand[t].path]
             changed == [pointer.slots EXCEPT ![Other(pointer.active)] = bundle]
  <2>1. ~Checking
    BY <1>0, <1>4 DEF apply_stage, InLock
  <2>2. pointer' = [pointer EXCEPT !.slots = changed] /\ stops' = stops
    BY <1>4 DEF apply_stage
  <2>3. changed[pointer.active] = pointer.slots[pointer.active]
    BY <1>0, ThreadsAndSlots
  <2> HIDE DEF changed
  <2>4. pointer'.slots = changed /\ pointer'.active = pointer.active
    BY <1>0, <2>2
  <2> QED BY <1>0, <1>4, <2>1, <2>2, <2>3, <2>4 DEF SoundSlot
<1>5. CASE /\ pointer' = pointer /\ stops' = stops
           /\ \A u \in Threads : hand'[u].at = "health" <=> hand[u].at = "health"
  BY <1>0, <1>5 DEF SoundSlot
<1>6. \/ \E t \in Threads : switch_slot(t) \/ health_check(t) \/ apply_stage(t)
      \/ \E p \in Players : process_stops(p)
      \/ pointer' = pointer /\ stops' = stops
  BY DEF UpdateNext, publish, author_offers, author_requires, author_revokes, check_feed,
         trust_answer, accept_required_policy, finish_check, operation_fails, download_call,
         download, download_done, apply_call, apply_look, apply_stage_fails, clear_cache,
         start_play, runtime_starts, note_play, play_ends, mark_end, mark_update_safe_point,
         process_opens
<1> QED BY <1>1, <1>2, <1>3, <1>4, <1>5, <1>6, CheckingChange

(* Only an answer that is read, or accepted, puts a thread at such a step. *)
LEMMA ReadersStay ==
    ASSUME ContentInv, UpdateNext,
           \A t \in Threads : ~accept_required_policy(t) /\ \A v \in 1..Len(feeds) : ~trust_answer(t, v)
    PROVE  trust' = trust /\ \A u \in Threads : hand'[u].at \in Reading => hand'[u] = hand[u]
<1> DEFINE stay == \A u \in Threads : hand'[u].at \in Reading => hand'[u] = hand[u]
<1>0. hand \in [Threads -> [at : HandSteps, release : Nat, path : 0..Newest]]
  BY DEF ContentInv, HandsOK
<1>1. ASSUME NEW u \in Threads, NEW h, hand' = [hand EXCEPT ![u] = h], h.at \notin Reading
      PROVE  stay
  BY <1>0, <1>1
<1>2. ASSUME NEW u \in Threads, NEW at, hand' = [hand EXCEPT ![u].at = at], at \notin Reading
      PROVE  stay
  BY <1>0, <1>2
<1>3. ASSUME NEW u \in Threads, NEW n \in 1..Newest,
             hand' = [hand EXCEPT ![u].at = "to_fetch", ![u].release = n]
      PROVE  stay
  <2> DEFINE half == [hand[u] EXCEPT !.at = "to_fetch"]
  <2>1. hand' = [hand EXCEPT ![u] = [half EXCEPT !.release = n]]
    BY <1>0, <1>3
  <2>2. half \in [at : HandSteps, release : Nat, path : 0..Newest] /\ half.at = "to_fetch"
    BY <1>0 DEF HandSteps, WithRelease
  <2> HIDE DEF half
  <2>3. [half EXCEPT !.release = n].at \notin Reading
    BY <2>2 DEF Reading, Accepting, Accepts
  <2> QED BY <1>1, <2>1, <2>3
<1>4. ASSUME NEW u \in Threads, leaves(u) \/ hand' = [hand EXCEPT ![u] = AtRest]
      PROVE  stay
  BY <1>0, <1>4 DEF leaves, AtRest, Reading, Accepting, Accepts
<1>5. ASSUME NEW p \in Players, process_stops(p)
      PROVE  stay
  BY <1>0, <1>5 DEF process_stops, AtRest, Reading, Accepting, Accepts
<1>6. ASSUME NEW u \in Threads, NEW at \in {"policy", "check", "fetch", "stage"}, takes_lock(u, at)
      PROVE  stay
  BY <1>2, <1>6 DEF takes_lock, Reading, Accepting, Accepts
<1>7. ASSUME NEW u \in Threads, NEW n \in 1..Newest, NEW path \in 0..Newest,
             hand' = [hand EXCEPT ![u] = [at |-> "to_apply", release |-> n, path |-> path]]
      PROVE  stay
  <2>1. [at |-> "to_apply", release |-> n, path |-> path].at \notin Reading
    BY DEF Reading, Accepting, Accepts
  <2> QED BY <1>1, <1>7, <2>1
<1>8. ASSUME NEW u \in Threads, NEW at \in {"activate", "health"}, hand' = [hand EXCEPT ![u].at = at]
      PROVE  stay
  BY <1>2, <1>8 DEF Reading, Accepting, Accepts
<1>9. ASSUME UNCHANGED hand
      PROVE  stay
  BY <1>9
<1> HIDE DEF stay
<1>10. stay
  BY <1>3, <1>4, <1>5, <1>6, <1>7, <1>8, <1>9, HandsChange
<1>11. trust' = trust
  BY FilesChange DEF publish, download_done, apply_stage, switch_slot, health_check, clear_cache
<1> QED BY <1>10, <1>11 DEF stay

\* What the step from one trust.json to the next keeps.
TrustForward ==
    /\ trust'.version >= trust.version
    /\ trust'.revision >= trust.revision
    /\ trust'.minimum # trust.minimum => trust'.revision > trust.revision

(* The versions of the roles are written first: the policy stays, and the  *)
(* thread has read the version that is trusted now.                        *)
LEMMA AnswerStep ==
    ASSUME ContentInv, NEW t \in Threads, NEW v \in 1..Len(feeds), trust_answer(t, v), HandsOK'
    PROVE  PolicyIsPublished' /\ ChecksRead' /\ TrustForward
<1>0. /\ trust \in [version : 0..MaxFeeds, revision : Nat, minimum : 0..Newest]
      /\ feeds \in Seq(Feed) /\ MaxFeeds \in Nat
      /\ hand \in [Threads -> [at : HandSteps, release : Nat, path : 0..Newest]]
      /\ PolicyIsPublished /\ LockIsHeld
  BY UpdateAssumption DEF ContentInv, FilesOK, HandsOK
<1>1. /\ v >= trust.version /\ trust' = [trust EXCEPT !.version = v] /\ feeds' = feeds
      /\ hand[t].at \in InLock
  BY DEF trust_answer, FreshEnough, InLock
<1>2. /\ trust'.version = v /\ trust'.revision = trust.revision /\ trust'.minimum = trust.minimum
      /\ v \in Nat /\ trust.version \in Nat /\ trust.revision \in Nat /\ v \in DOMAIN feeds
  BY <1>0, <1>1
<1>3. TrustForward
  BY <1>1, <1>2 DEF TrustForward
<1>4. ASSUME NEW i \in DOMAIN feeds, PolicyFrom(i)
      PROVE  PolicyFrom(i)'
  <2>1. i \in Nat /\ i <= trust'.version
    BY <1>0, <1>1, <1>2, <1>4 DEF PolicyFrom
  <2> QED BY <1>1, <1>2, <1>4, <2>1 DEF PolicyFrom
<1>5. PolicyIsPublished'
  <2>1. trust'.version \in DOMAIN feeds'
    BY <1>1, <1>2
  <2>2. (trust.revision = 0 /\ trust.minimum = 0) \/ \E i \in DOMAIN feeds : PolicyFrom(i)
    BY <1>0 DEF PolicyIsPublished
  <2>3. (trust'.revision = 0 /\ trust'.minimum = 0) \/ \E i \in DOMAIN feeds' : PolicyFrom(i)'
    BY <1>1, <1>2, <1>4, <2>2
  <2> QED BY <2>1, <2>3 DEF PolicyIsPublished
<1>6. hand'[t].release = v /\ hand'[t].at \in Accepting
  <2> DEFINE half == [hand[t] EXCEPT !.release = v]
             at == Acceptance(hand[t].at, v)
  <2>1. hand' = [hand EXCEPT ![t] = [half EXCEPT !.at = at]] /\ at \in Accepting
    BY <1>0 DEF trust_answer, Acceptance, Accepting
  <2>2. half \in [at : HandSteps, release : Nat, path : 0..Newest] /\ half.release = v
    BY <1>0, <1>2
  <2> HIDE DEF half, at
  <2> QED BY <1>0, <2>1, <2>2
<1>7. ASSUME NEW u \in Threads, u # t
      PROVE  hand'[u] = hand[u] /\ hand[u].at \notin Reading
  <2>1. hand'[u] = hand[u]
    BY <1>0, <1>7 DEF trust_answer
  <2>2. hand[u].at \notin InLock
    BY <1>0, <1>1, <1>7 DEF LockIsHeld
  <2> QED BY <2>1, <2>2 DEF Reading, Accepting, Accepts, InLock
<1>8. ASSUME NEW u \in Threads
      PROVE  /\ hand'[u].at \in Reading => hand'[u].release = trust'.version
             /\ hand'[u].at \notin Accepts
  <2>1. CASE u = t
    BY <1>2, <1>6, <2>1 DEF Accepting, Accepts
  <2>2. CASE u # t
    BY <1>7, <2>2 DEF Reading
  <2> QED BY <2>1, <2>2
<1>9. ChecksRead'
  BY <1>8 DEF ChecksRead, Accepts, Reading, Accepting
<1> QED BY <1>3, <1>5, <1>9

(* Then the policy: it is that of the version read, and no step back.      *)
LEMMA AcceptStep ==
    ASSUME ContentInv, NEW t \in Threads, accept_required_policy(t)
    PROVE  PolicyIsPublished' /\ ChecksRead' /\ TrustForward
<1> PICK v : v = hand[t].release
  OBVIOUS
<1> DEFINE policy == feeds[v]
<1>0. /\ trust \in [version : 0..MaxFeeds, revision : Nat, minimum : 0..Newest]
      /\ feeds \in Seq(Feed) /\ MaxFeeds \in Nat
      /\ hand \in [Threads -> [at : HandSteps, release : Nat, path : 0..Newest]]
      /\ PolicyIsPublished /\ LockIsHeld /\ FeedsInOrder
  BY UpdateAssumption DEF ContentInv, FilesOK, HandsOK
<1>1. /\ hand[t].at \in Accepting /\ hand[t].at \in InLock /\ hand[t].at \in Reading
      /\ policy.revision = 0 \/ policy.revision >= trust.revision
      /\ trust' = Accepted(policy) /\ feeds' = feeds
  BY DEF accept_required_policy, Accepting, InLock, Reading
<1>2. v \in DOMAIN feeds /\ v = trust.version
  BY <1>1 DEF ContentInv, HandsOK, ChecksRead
<1>3. policy \in Feed /\ policy.revision \in Nat /\ v \in Nat
  <2>1. policy \in Feed /\ v \in Nat
    BY <1>0, <1>2
  <2> QED BY <2>1 DEF Feed
<1>4. /\ trust'.version = trust.version
      /\ policy.revision = 0 => trust' = trust
      /\ policy.revision # 0 => trust'.revision = policy.revision /\ trust'.minimum = policy.minimum
  BY <1>0, <1>1, <1>3, AcceptedIs
<1>5. ASSUME NEW i \in DOMAIN feeds, PolicyFrom(i)
      PROVE  /\ trust.revision <= policy.revision
             /\ trust.revision = policy.revision => trust.minimum = policy.minimum
  <2>1. i <= v
    BY <1>2, <1>5 DEF PolicyFrom
  <2>2. Follows(feeds[i], feeds[v])
    BY <1>0, <1>2, <2>1 DEF FeedsInOrder
  <2> QED BY <1>5, <2>2 DEF Follows, PolicyFrom
<1>6. policy.revision = 0 => policy.minimum = 0
  BY <1>0, <1>2 DEF FeedsInOrder
<1>7. trust.revision \in Nat
  BY <1>0
<1> HIDE DEF policy
<1>8. /\ trust.revision <= policy.revision
      /\ trust.revision = policy.revision => trust.minimum = policy.minimum
  <2>1. CASE trust.revision = 0 /\ trust.minimum = 0
    BY <1>3, <1>6, <2>1
  <2>2. CASE \E i \in DOMAIN feeds : PolicyFrom(i)
    BY <1>5, <2>2
  <2> QED BY <1>0, <2>1, <2>2 DEF PolicyIsPublished
<1>9. trust'.revision = policy.revision /\ trust'.minimum = policy.minimum
  <2>1. CASE policy.revision = 0
    <3>1. trust.revision = 0
      BY <1>3, <1>7, <1>8, <2>1
    <3> QED BY <1>4, <1>8, <2>1, <3>1
  <2>2. CASE policy.revision # 0
    BY <1>4, <2>2
  <2> QED BY <2>1, <2>2
<1>10. TrustForward
  <2>1. trust'.version >= trust.version
    BY <1>0, <1>4
  <2>2. trust'.revision >= trust.revision
    BY <1>3, <1>7, <1>8, <1>9
  <2>3. trust'.minimum # trust.minimum => trust'.revision > trust.revision
    BY <1>3, <1>7, <1>8, <1>9
  <2> QED BY <2>1, <2>2, <2>3 DEF TrustForward
<1>11. v \in DOMAIN feeds' /\ trust'.version = v /\ PolicyFrom(v)'
  BY <1>1, <1>2, <1>3, <1>4, <1>9 DEF PolicyFrom, policy
<1>12. PolicyIsPublished'
  BY <1>11 DEF PolicyIsPublished
<1>13. hand'[t].release = v /\ \A u \in Threads : u # t => hand'[u] = hand[u]
  BY <1>0 DEF accept_required_policy
<1>14. ASSUME NEW u \in Threads, u # t
       PROVE  hand[u].at \notin Reading
  <2>1. hand[u].at \notin InLock
    BY <1>0, <1>1, <1>14 DEF LockIsHeld
  <2> QED BY <2>1 DEF Reading, Accepting, Accepts, InLock
<1>15. PolicyFrom(trust.version)'
  BY <1>11
<1>16. ChecksRead'
  BY <1>11, <1>13, <1>14, <1>15 DEF ChecksRead, Reading
<1> QED BY <1>10, <1>12, <1>16

(* Whatever else happens leaves trust.json alone.                          *)
LEMMA TrustStep ==
    ASSUME ContentInv, UpdateNext
    PROVE  FeedsInOrder' /\ PolicyIsPublished' /\ ChecksRead' /\ TrustForward
<1>0. /\ feeds \in Seq(Feed) /\ Len(feeds) \in Nat /\ 1 <= Len(feeds) /\ FilesOK /\ FeedsInOrder
      /\ PolicyIsPublished /\ ChecksRead
      /\ trust \in [version : 0..MaxFeeds, revision : Nat, minimum : 0..Newest]
      /\ \A t \in Threads : hand[t].at \in Reading => hand[t].release \in DOMAIN feeds
  BY DEF ContentInv, FilesOK, HandsOK
<1>1. FeedsInOrder'
  <2>1. CASE feeds' = feeds
    BY <1>0, <2>1 DEF FeedsInOrder
  <2>2. ASSUME NEW feed, AuthorFeed(feed), publish(feed)
        PROVE  FeedsInOrder'
    <3>1. feed \in Feed /\ Follows(LastFeed, feed) /\ (feed.revision = 0 => feed.minimum = 0)
      BY <1>0, <2>2, AuthorStep
    <3> DEFINE n == Len(feeds)
    <3>2. /\ feeds' = Append(feeds, feed) /\ DOMAIN feeds' = 1..(n + 1) /\ DOMAIN feeds = 1..n
          /\ feeds'[n + 1] = feed /\ \A i \in 1..n : feeds'[i] = feeds[i]
      BY <1>0, <2>2, <3>1 DEF publish
    <3>3. ASSUME NEW i \in 1..n
          PROVE  Follows(feeds[i], feed) /\ Follows(feeds[i], LastFeed)
      <4>1. Follows(feeds[i], LastFeed)
        BY <1>0, <3>2 DEF FeedsInOrder, LastFeed
      <4>2. feeds[i] \in Feed /\ LastFeed \in Feed
        BY <1>0 DEF LastFeed
      <4>3. feeds[i].revision \in Nat /\ LastFeed.revision \in Nat /\ feed.revision \in Nat
        BY <3>1, <4>2 DEF Feed
      <4>4. /\ feeds[i].revision <= LastFeed.revision /\ LastFeed.revision <= feed.revision
            /\ feeds[i].revision = LastFeed.revision => feeds[i].minimum = LastFeed.minimum
            /\ LastFeed.revision = feed.revision => LastFeed.minimum = feed.minimum
        BY <3>1, <4>1 DEF Follows
      <4>5. feeds[i].revision <= feed.revision
        BY <4>3, <4>4
      <4>6. feeds[i].revision = feed.revision => feeds[i].minimum = feed.minimum
        BY <4>3, <4>4
      <4> QED BY <4>1, <4>5, <4>6 DEF Follows
    <3>4. Follows(feed, feed)
      BY <3>1 DEF Follows, Feed
    <3>5. ASSUME NEW i \in 1..(n + 1), NEW j \in 1..(n + 1), i <= j
          PROVE  Follows(feeds'[i], feeds'[j])
      <4>1. CASE j = n + 1 /\ i = n + 1
        BY <3>2, <3>4, <4>1
      <4>2. CASE j = n + 1 /\ i # n + 1
        <5>1. i \in 1..n
          BY <1>0, <4>2
        <5> QED BY <3>2, <3>3, <4>2, <5>1
      <4>3. CASE j # n + 1
        <5>1. i \in 1..n /\ j \in 1..n
          BY <1>0, <3>5, <4>3
        <5> QED BY <1>0, <3>2, <3>5, <5>1 DEF FeedsInOrder
      <4> QED BY <4>1, <4>2, <4>3
    <3>6. ASSUME NEW i \in 1..(n + 1), feeds'[i].revision = 0
          PROVE  feeds'[i].minimum = 0
      <4>1. CASE i = n + 1
        BY <3>1, <3>2, <3>6, <4>1
      <4>2. CASE i # n + 1
        <5>1. i \in 1..n
          BY <1>0, <4>2
        <5> QED BY <1>0, <3>2, <3>6, <5>1 DEF FeedsInOrder
      <4> QED BY <4>1, <4>2
    <3> HIDE DEF n
    <3> QED BY <3>2, <3>5, <3>6 DEF FeedsInOrder
  <2>3. feeds' = feeds \/ \E feed : AuthorFeed(feed) /\ publish(feed)
    BY FilesChange DEF trust_answer, accept_required_policy, download_done, apply_stage, switch_slot,
                       health_check, clear_cache
  <2> QED BY <2>1, <2>2, <2>3
<1>2. DOMAIN feeds \subseteq DOMAIN feeds' /\ \A v \in DOMAIN feeds : feeds'[v] = feeds[v]
  BY FeedsGrow
<1>3. CASE trust' = trust /\ \A u \in Threads : hand'[u].at \in Reading => hand'[u] = hand[u]
  <2>1. TrustForward
    BY <1>0, <1>3 DEF TrustForward
  <2>2. ASSUME NEW i \in DOMAIN feeds, PolicyFrom(i)
        PROVE  PolicyFrom(i)' /\ i \in DOMAIN feeds'
    BY <1>2, <1>3, <2>2 DEF PolicyFrom
  <2>3. PolicyIsPublished'
    <3>1. trust'.version = 0 \/ trust'.version \in DOMAIN feeds'
      BY <1>0, <1>2, <1>3 DEF PolicyIsPublished
    <3>2. (trust.revision = 0 /\ trust.minimum = 0) \/ \E i \in DOMAIN feeds : PolicyFrom(i)
      BY <1>0 DEF PolicyIsPublished
    <3>3. (trust'.revision = 0 /\ trust'.minimum = 0) \/ \E i \in DOMAIN feeds' : PolicyFrom(i)'
      BY <1>3, <2>2, <3>2
    <3> QED BY <3>1, <3>3 DEF PolicyIsPublished
  <2>4. ASSUME NEW u \in Threads, hand'[u].at \in Reading
        PROVE  /\ hand'[u].release = trust'.version
               /\ hand'[u].at \in Accepts => PolicyFrom(trust.version)'
    <3>1. hand'[u] = hand[u] /\ hand[u].release = trust.version /\ trust.version \in DOMAIN feeds
      BY <1>0, <1>3, <2>4 DEF ChecksRead
    <3>2. hand[u].at \in Accepts => PolicyFrom(trust.version)
      BY <1>0 DEF ChecksRead
    <3>3. hand[u].at \in Accepts => PolicyFrom(trust.version)'
      BY <1>2, <1>3, <3>1, <3>2 DEF PolicyFrom
    <3> QED BY <1>3, <3>1, <3>3
  <2>5. ChecksRead'
    BY <2>4 DEF ChecksRead, Reading
  <2> QED BY <1>1, <2>1, <2>3, <2>5
<1>4. CASE \E t \in Threads : accept_required_policy(t)
  BY <1>1, <1>4, AcceptStep
<1>5. CASE \E t \in Threads : \E v \in 1..Len(feeds) : trust_answer(t, v)
  BY <1>1, <1>5, AnswerStep, HandsStep
<1> QED BY <1>3, <1>4, <1>5, ReadersStay

(* The invariant of the content update holds in every reachable state.     *)
THEOREM ContentInvariant == UpdateSpec => []ContentInv
<1>1. UpdateInit => ContentInv
  <2> SUFFICES ASSUME UpdateInit PROVE ContentInv
    OBVIOUS
  <2>0. Newest \in Nat \ {0} /\ MaxFeeds \in Nat \ {0} /\ Broken \subseteq 2..Newest
    BY UpdateAssumption
  <2>1. FilesOK
    <3>1. \A offer \in {0} \cup 2..Newest : [offer |-> offer, revision |-> 0, minimum |-> 0] \in Feed
      BY <2>0 DEF Feed
    <3>2. feeds \in Seq(Feed) /\ Len(feeds) = 1
      BY <3>1 DEF UpdateInit
    <3>3. pointer \in [active : Slots, slots : [Slots -> [release : 0..Newest, content : 0..Newest]]]
      BY <2>0 DEF UpdateInit, Slots, NoBundle
    <3> QED BY <2>0, <3>2, <3>3 DEF UpdateInit, FilesOK
  <2>2. ClientsOK
    BY <2>0 DEF UpdateInit, ClientsOK, Memory, States, Installed, Idle, PlaySteps, PlayRecord
  <2>3. \A t \in Threads : hand[t] = AtRest
    BY DEF UpdateInit
  <2>4. AtRest \in [at : HandSteps, release : Nat, path : 0..Newest] /\ AtRest.at = "idle"
    BY <2>0 DEF AtRest, HandSteps
  <2>5. HandsOK
    BY <2>3, <2>4 DEF UpdateInit, HandsOK, WithRelease, Reading, Accepting, Accepts
  <2>8. ChecksRead
    BY <2>3, <2>4 DEF ChecksRead, Reading, Accepting, Accepts
  <2>9. FeedsInOrder
    <3>1. PICK offer : feeds = <<[offer |-> offer, revision |-> 0, minimum |-> 0]>>
      BY DEF UpdateInit
    <3>2. DOMAIN feeds = {1} /\ feeds[1].revision = 0 /\ feeds[1].minimum = 0
      BY <3>1
    <3> QED BY <3>2 DEF FeedsInOrder, Follows
  <2>6. LockIsHeld
    BY <2>3, <2>4, ThreadsAndSlots DEF UpdateInit, LockIsHeld, InLock
  <2>7. SoundSlot
    <3>1. pointer.slots[pointer.active].content = 0
      BY DEF UpdateInit, NoBundle, Slots
    <3> QED BY <2>0, <2>3, <2>4, <3>1 DEF SoundSlot
  <2> QED BY <2>1, <2>2, <2>5, <2>6, <2>7, <2>8, <2>9 DEF UpdateInit, ContentInv, PolicyIsPublished
<1>2. ContentInv /\ [UpdateNext]_updateVars => ContentInv'
  <2> SUFFICES ASSUME ContentInv, [UpdateNext]_updateVars PROVE ContentInv'
    OBVIOUS
  <2>1. CASE UpdateNext
    <3>1. ClientsOK'
      BY <2>1, MemoryStep, PlaysStep DEF ClientsOK
    <3> QED BY <2>1, <3>1, FilesStep, HandsStep, TrustStep, SlotStep DEF ContentInv
  <2>2. CASE UNCHANGED updateVars
    BY <2>2 DEF updateVars, ContentInv, FilesOK, ClientsOK, HandsOK, FeedsInOrder, PolicyIsPublished,
                PolicyFrom, LockIsHeld, ChecksRead, SoundSlot
  <2> QED BY <2>1, <2>2
<1> QED BY <1>1, <1>2, PTL DEF UpdateSpec

(* Between operations the active slot passes the health check, whatever    *)
(* was downloaded for whichever release and however many processes check,  *)
(* download and apply, until the first of them ends without warning.       *)
THEOREM ActiveSlotIsSound == UpdateSpec => []ActiveIsHealthy
<1>1. ContentInv => ActiveIsHealthy
  <2> SUFFICES ASSUME ContentInv, stops = 0, holder = NoHolder
               PROVE  pointer.slots[pointer.active].content \notin Broken
    BY DEF ActiveIsHealthy
  <2>1. \A t \in Threads : hand[t].at # "health"
    BY ThreadsAndSlots DEF ContentInv, LockIsHeld, InLock
  <2> QED BY <2>1 DEF ContentInv, SoundSlot
<1> QED BY <1>1, ContentInvariant, PTL

(* Neither the feed nor its policy goes back, the required release changes *)
(* with a newer policy only, and a check that ends well leaves the policy  *)
(* of the trusted feed, wherever earlier checks have stopped or failed.    *)
THEOREM PolicyOnlyForward == UpdateSpec => PolicyMovesForward
<1> DEFINE forward ==
              /\ trust'.version >= trust.version
              /\ trust'.revision >= trust.revision
              /\ trust'.minimum # trust.minimum => trust'.revision > trust.revision
              /\ \A t \in Threads : Checked(t) => /\ trust.revision = feeds[trust.version].revision
                                                  /\ trust.minimum = feeds[trust.version].minimum
<1>1. ContentInv /\ [UpdateNext]_updateVars => [forward]_updateVars
  <2> SUFFICES ASSUME ContentInv, UpdateNext PROVE forward
    OBVIOUS
  <2>1. ASSUME NEW t \in Threads, Checked(t)
        PROVE  trust.revision = feeds[trust.version].revision /\ trust.minimum = feeds[trust.version].minimum
    BY <2>1 DEF ContentInv, ChecksRead, PolicyFrom, Checked, Accepts
  <2> QED BY <2>1, TrustStep DEF TrustForward
<1> QED BY <1>1, ContentInvariant, PTL DEF UpdateSpec, PolicyMovesForward

(* From before it starts until its monitor has seen it end a run keeps its *)
(* process unsafe, or somebody has marked the lease safe over its head.    *)
LEMMA LeaseStep ==
    ASSUME ContentInv, LeasesAreHeld, UpdateNext
    PROVE  LeasesAreHeld'
<1>0. /\ lease \in [Players -> {"safe", "unsafe", "closed"}]
      /\ play \in [Plays -> PlayRecord]
  BY DEF ContentInv, ClientsOK
<1> DEFINE Held(x, l) == x.at \in {"marked", "started", "noted", "ended"} =>
                            x.player \in Players /\ (l[x.player] = "unsafe" \/ x.unheard)
<1>1. CASE UNCHANGED <<lease, play>>
  BY <1>1 DEF LeasesAreHeld
<1>2. ASSUME NEW p \in Players
      PROVE  /\ \A r \in Plays : Held(heard(p)[r], [lease EXCEPT ![p] = "unsafe"])
             /\ \A r \in Plays : Held(unheard(p)[r], [lease EXCEPT ![p] = "safe"])
             /\ heard(p) \in [Plays -> PlayRecord] /\ unheard(p) \in [Plays -> PlayRecord]
  <2>1. heard(p) \in [Plays -> PlayRecord] /\ unheard(p) \in [Plays -> PlayRecord]
    BY <1>0 DEF heard, unheard, PlayRecord
  <2>2. ASSUME NEW r \in Plays
        PROVE  /\ Held(heard(p)[r], [lease EXCEPT ![p] = "unsafe"])
               /\ Held(unheard(p)[r], [lease EXCEPT ![p] = "safe"])
    <3>1. play[r] \in PlayRecord
      BY <1>0
    <3>2. CASE play[r].player = p
      <4>1. /\ heard(p)[r].at = play[r].at /\ heard(p)[r].player = p
            /\ unheard(p)[r].at = play[r].at /\ unheard(p)[r].player = p /\ unheard(p)[r].unheard
        BY <3>1, <3>2 DEF heard, unheard, PlayRecord
      <4> QED BY <1>0, <4>1
    <3>3. CASE play[r].player # p
      <4>1. heard(p)[r] = play[r] /\ unheard(p)[r] = play[r]
        BY <3>3 DEF heard, unheard
      <4> QED BY <1>0, <3>3, <4>1 DEF LeasesAreHeld
    <3> QED BY <3>2, <3>3
  <2> HIDE DEF Held
  <2> QED BY <2>1, <2>2
<1>3. ASSUME NEW r \in Plays, NEW p \in Players, start_play(r, p)
      PROVE  LeasesAreHeld'
  <2> DEFINE new == [at |-> "marked", player |-> p, unheard |-> FALSE]
  <2>1. play' = [heard(p) EXCEPT ![r] = new] /\ lease' = [lease EXCEPT ![p] = "unsafe"]
    BY <1>3 DEF start_play
  <2>2. play'[r] = new /\ \A q \in Plays : q # r => play'[q] = heard(p)[q]
    BY <1>2, <2>1
  <2>3. Held(new, lease')
    BY <1>0, <2>1
  <2>4. \A q \in Plays : Held(play'[q], lease')
    BY <1>2, <2>1, <2>2, <2>3
  <2> QED BY <2>4 DEF LeasesAreHeld
<1>4. ASSUME NEW r \in Plays, runtime_starts(r) \/ note_play(r)
      PROVE  LeasesAreHeld'
  <2>1. /\ play[r].at \in {"marked", "started"} /\ lease' = lease
        /\ play'[r].player = play[r].player /\ play'[r].unheard = play[r].unheard
        /\ \A q \in Plays : q # r => play'[q] = play[q]
    BY <1>0, <1>4 DEF runtime_starts, note_play, PlayRecord
  <2> QED BY <2>1 DEF LeasesAreHeld
<1>5. ASSUME NEW r \in Plays, play_ends(r)
      PROVE  LeasesAreHeld'
  <2>1. /\ lease' = lease /\ \A q \in Plays : q # r => play'[q] = play[q]
        /\ \/ play[r].at = "noted" /\ play'[r] = [play[r] EXCEPT !.at = "ended"]
           \/ play'[r] = Idle("over")
    BY <1>0, <1>5 DEF play_ends
  <2>2. CASE play[r].at = "noted" /\ play'[r] = [play[r] EXCEPT !.at = "ended"]
    <3>1. play'[r].player = play[r].player /\ play'[r].unheard = play[r].unheard
      BY <1>0, <2>2 DEF PlayRecord
    <3> QED BY <2>1, <2>2, <3>1 DEF LeasesAreHeld
  <2>3. CASE play'[r] = Idle("over")
    BY <2>1, <2>3 DEF LeasesAreHeld, Idle
  <2> QED BY <2>1, <2>2, <2>3
<1>6. ASSUME NEW r \in Plays, mark_end(r)
      PROVE  LeasesAreHeld'
  <2>1. PICK p : p = play[r].player
    OBVIOUS
  <2>2. p \in Players
    BY <1>6, <2>1 DEF mark_end, LeasesAreHeld
  <2>3. \/ /\ play' = [heard(p) EXCEPT ![r] = Idle("over")]
           /\ lease' = [lease EXCEPT ![p] = "unsafe"]
        \/ /\ play' = [unheard(p) EXCEPT ![r] = Idle("over")]
           /\ lease' = [lease EXCEPT ![p] = "safe"]
    BY <1>6, <2>1 DEF mark_end
  <2>4. Held(Idle("over"), lease')
    BY DEF Idle
  <2>5. ASSUME NEW q \in Plays
        PROVE  Held(play'[q], lease')
    BY <1>2, <2>2, <2>3, <2>4
  <2> QED BY <2>5 DEF LeasesAreHeld
<1>7. ASSUME NEW p \in Players, NEW busy \in BOOLEAN, mark_update_safe_point(p, busy)
      PROVE  LeasesAreHeld'
  <2>1. \/ play' = heard(p) /\ lease' = [lease EXCEPT ![p] = "unsafe"]
        \/ play' = unheard(p) /\ lease' = [lease EXCEPT ![p] = "safe"]
    BY <1>7 DEF mark_update_safe_point
  <2>2. \A q \in Plays : Held(play'[q], lease')
    BY <1>2, <2>1
  <2> QED BY <2>2 DEF LeasesAreHeld
<1>8. ASSUME NEW p \in Players, process_stops(p)
      PROVE  LeasesAreHeld'
  <2>1. ASSUME NEW r \in Plays, play'[r].at \in {"marked", "started", "noted", "ended"}
        PROVE  play'[r].player \in Players /\ (lease'[play'[r].player] = "unsafe" \/ play'[r].unheard)
    <3>1. play'[r] = play[r] /\ play[r].player # p
      <4>1. CASE play[r].player = p
        <5>1. play'[r] = Idle("orphan") \/ play'[r] = Idle("over")
          BY <1>8, <4>1 DEF process_stops
        <5> QED BY <2>1, <5>1 DEF Idle
      <4> QED BY <1>8, <4>1 DEF process_stops
    <3> QED BY <1>0, <1>8, <2>1, <3>1 DEF process_stops, LeasesAreHeld
  <2> QED BY <2>1 DEF LeasesAreHeld
<1>9. ASSUME NEW p \in Players, process_opens(p)
      PROVE  LeasesAreHeld'
  BY <1>0, <1>9 DEF process_opens, LeasesAreHeld
<1>10. \/ UNCHANGED <<lease, play>>
       \/ \E r \in Plays :
             \/ \E p \in Players : start_play(r, p)
             \/ runtime_starts(r) \/ note_play(r) \/ play_ends(r) \/ mark_end(r)
       \/ \E p \in Players :
             \/ \E busy \in BOOLEAN : mark_update_safe_point(p, busy)
             \/ process_stops(p) \/ process_opens(p)
  BY DEF UpdateNext, publish, author_offers, author_requires, author_revokes, check_feed,
         trust_answer, accept_required_policy, finish_check, operation_fails, download_call,
         download, download_done, apply_call, apply_look, apply_stage, apply_stage_fails,
         switch_slot, health_check, clear_cache
<1> QED BY <1>1, <1>3, <1>4, <1>5, <1>6, <1>7, <1>8, <1>9, <1>10

(* However many runs there are, apply goes past the leases while one is    *)
(* under way only if its lease was marked safe over its head.              *)
THEOREM ARunIsSpared == UpdateSpec => RunsAreSpared
<1> DEFINE spared == \A t \in Threads : hand[t].at = "to_apply" /\ hand'[t].at = "stage"
                        => \A r \in Plays : Underway(r) => play[r].unheard
<1>1. UpdateInit => LeasesAreHeld
  BY DEF UpdateInit, LeasesAreHeld, Idle
<1>2. ContentInv /\ LeasesAreHeld /\ [UpdateNext]_updateVars => LeasesAreHeld'
  <2> SUFFICES ASSUME ContentInv, LeasesAreHeld, [UpdateNext]_updateVars PROVE LeasesAreHeld'
    OBVIOUS
  <2>1. CASE UNCHANGED updateVars
    BY <2>1 DEF updateVars, LeasesAreHeld
  <2> QED BY <2>1, LeaseStep
<1>3. UpdateSpec => []LeasesAreHeld
  BY <1>1, <1>2, ContentInvariant, PTL DEF UpdateSpec
<1>4. ContentInv /\ LeasesAreHeld /\ [UpdateNext]_updateVars => [spared]_updateVars
  <2> SUFFICES ASSUME ContentInv, LeasesAreHeld, UpdateNext,
                      NEW t \in Threads, hand[t].at = "to_apply", hand'[t].at = "stage",
                      NEW r \in Plays, Underway(r)
               PROVE  play[r].unheard
    OBVIOUS
  <2>0. hand \in [Threads -> [at : HandSteps, release : Nat, path : 0..Newest]]
    BY DEF ContentInv, HandsOK
  <2>1. ASSUME NEW u \in Threads, NEW h, hand' = [hand EXCEPT ![u] = h], h.at # "stage"
        PROVE  FALSE
    BY <2>0, <2>1
  <2>2. ASSUME NEW u \in Threads, NEW at, hand' = [hand EXCEPT ![u].at = at], at # "stage"
        PROVE  FALSE
    BY <2>0, <2>2
  <2>3. ASSUME NEW u \in Threads, NEW v \in 1..Len(feeds), NEW at \in Accepting,
               hand' = [hand EXCEPT ![u].release = v, ![u].at = at]
        PROVE  FALSE
    <3> DEFINE half == [hand[u] EXCEPT !.release = v]
    <3>1. hand' = [hand EXCEPT ![u] = [half EXCEPT !.at = at]] /\ v \in Nat
      BY <2>0, <2>3
    <3>2. half \in [at : HandSteps, release : Nat, path : 0..Newest]
      BY <2>0, <3>1
    <3> HIDE DEF half
    <3>3. [half EXCEPT !.at = at].at # "stage"
      BY <3>2 DEF Accepting
    <3> QED BY <2>1, <3>1, <3>3
  <2>4. ASSUME NEW u \in Threads, NEW n \in 1..Newest,
               hand' = [hand EXCEPT ![u].at = "to_fetch", ![u].release = n]
        PROVE  FALSE
    <3> DEFINE half == [hand[u] EXCEPT !.at = "to_fetch"]
    <3>1. hand' = [hand EXCEPT ![u] = [half EXCEPT !.release = n]]
      BY <2>0, <2>4
    <3>2. half \in [at : HandSteps, release : Nat, path : 0..Newest] /\ half.at = "to_fetch"
      BY <2>0 DEF HandSteps, WithRelease
    <3> HIDE DEF half
    <3>3. [half EXCEPT !.release = n].at # "stage"
      BY <3>2
    <3> QED BY <2>1, <3>1, <3>3
  <2>5. ASSUME NEW u \in Threads, leaves(u) \/ hand' = [hand EXCEPT ![u] = AtRest]
        PROVE  FALSE
    BY <2>0, <2>5 DEF leaves, AtRest
  <2>6. ASSUME NEW p \in Players, process_stops(p)
        PROVE  FALSE
    BY <2>0, <2>6 DEF process_stops, AtRest
  <2>7. ASSUME NEW u \in Threads, NEW at \in {"policy", "check", "fetch"}, takes_lock(u, at)
        PROVE  FALSE
    BY <2>2, <2>7 DEF takes_lock
  <2>8. ASSUME NEW u \in Threads, NEW n \in 1..Newest, NEW path \in 0..Newest,
               hand' = [hand EXCEPT ![u] = [at |-> "to_apply", release |-> n, path |-> path]]
        PROVE  FALSE
    BY <2>0, <2>8
  <2>9. ASSUME NEW u \in Threads, NEW at \in Accepts \cup {"activate", "health"},
               hand' = [hand EXCEPT ![u].at = at]
        PROVE  FALSE
    BY <2>2, <2>9 DEF Accepts
  <2>10. CASE UNCHANGED hand
    BY <2>10
  <2>11. \E u \in Threads : all_safe(u[1])
    BY <2>3, <2>4, <2>5, <2>6, <2>7, <2>8, <2>9, <2>10, HandsChange
  <2> QED BY <2>11 DEF all_safe, LeasesAreHeld, Underway
<1> QED BY <1>3, <1>4, ContentInvariant, PTL DEF UpdateSpec, RunsAreSpared

----------------------------------------------------------------------------
(* The feed of one publisher.                                              *)

OnePublisher == \A p, q \in Publishers : p = q

PayloadNames == {"targets", "rollout", "policy"}

\* The releases the pointer of the targets lists.
Listed == IF pointers["targets"] = NoFile THEN {} ELSE pointers["targets"].data

\* The generations of the keys that the roots after the first one name.
KeysUpTo(n) == \A v \in 2..MaxKeys : roots[v] = IF v <= n THEN v ELSE 0

InPlace(r, f, k) == f.version \in 1..MaxCommits /\ files[r][f.version] = f /\ f.keys = k

\* A payload names releases of its own, and drops none.
Closed(x) ==
    /\ DOMAIN x = PayloadNames
    /\ {x.rollout.release, x.policy} \ {0} \subseteq x.targets
    /\ Listed \subseteq x.targets

RepositoryShape ==
    /\ DOMAIN publisher = Publishers
    /\ DOMAIN files = Roles
    /\ \A r \in Roles : DOMAIN files[r] = 1..MaxCommits
    /\ DOMAIN pointers = Roles
    /\ DOMAIN roots = 1..MaxKeys
    /\ commits \in 0..MaxCommits
    /\ online \in 1..MaxKeys

\* What the pointers of the payloads say, whatever commit was broken off.
PointersAgree ==
    /\ \A r \in Roles : pointers[r].version \in 0..commits
    /\ pointers["rollout"] # NoFile => pointers["rollout"].data.release \in Listed \cup {0}
    /\ pointers["policy"] # NoFile => pointers["policy"].data \in Listed \cup {0}
    /\ Listed \subseteq artifacts
    /\ announced \subseteq Listed

Steps == {"idle", "first_root", "first_version", "artifact", "rotate", "root_pointer",
          "commit", "version", "pointer"}

\* Keys and roots while a publisher is at each of its steps.
KeysStand(x) ==
    /\ x.at # "idle" => x.keys = online
    /\ x.at = "idle" => x.op = "none"
    /\ x.op = "rotate" => x.at \in {"rotate", "root_pointer", "commit", "version", "pointer"}
    /\ x.at \in {"rotate", "root_pointer"} =>
          x.op = "rotate" /\ pointers["targets"] # NoFile /\ rootPointer = online - 1 /\ rootPointer # 0
    /\ x.at \notin {"rotate", "root_pointer"} =>
          \/ rootPointer = online /\ x.at # "first_root"
          \/ /\ rootPointer = 0 /\ online = 1 /\ pointers["targets"] = NoFile
             /\ x.at \in {"idle", "first_root"}
    /\ KeysUpTo(IF x.at = "rotate" THEN online - 1 ELSE online)

PayloadStands(x) ==
    /\ x.at \notin {"idle", "rotate", "root_pointer"} => Closed(x.payload)
    /\ x.at \notin {"idle", "rotate", "root_pointer", "artifact"} => x.payload.targets \subseteq artifacts

\* Roles of which the commit has written the file.
Wrote(x, i) == i < x.turn \/ (i = x.turn /\ x.at = "pointer")

Hashes(x) == [targets |-> x.made["targets"], rollout |-> x.made["rollout"], policy |-> x.made["policy"]]

CommitStands(x) ==
    x.at \in {"version", "pointer"} =>
        /\ x.turn \in 1..5
        /\ \A r \in PayloadNames :
              /\ x.made[r].version \in 1..commits
              /\ x.made[r].keys = x.keys
              /\ x.made[r].data = x.payload[r]
        /\ \A i \in 1..5 : Wrote(x, i) => /\ InPlace(RoleOrder[i], x.made[RoleOrder[i]], x.keys)
                                         /\ x.made[RoleOrder[i]].version <= commits
        /\ Wrote(x, 4) => x.made["snapshot"].data = Hashes(x)
        /\ Wrote(x, 5) => x.made["timestamp"].data = x.made["snapshot"]
        /\ \A i \in 1..5 : i >= x.turn => pointers[RoleOrder[i]].version < commits
        /\ x.turn > 1 => Listed = x.payload.targets

IsOperation(x) ==
    /\ DOMAIN x = {"at", "op", "payload", "turn", "keys", "made"}
    /\ x.at \in Steps
    /\ DOMAIN x.made = Roles

\* What a client is led to from a file timestamp.json.
Leads(t) ==
    LET named == t.data.data IN
    /\ t.keys = online
    /\ InPlace("snapshot", t.data, online)
    /\ DOMAIN named = PayloadNames
    /\ \A r \in PayloadNames : InPlace(r, named[r], online)
    /\ {named["rollout"].data.release, named["policy"].data} \ {0} \subseteq named["targets"].data
    /\ named["targets"].data \subseteq artifacts
    /\ announced \subseteq named["targets"].data

FeedStands == pointers["timestamp"] # NoFile /\ ~Rotating => Leads(pointers["timestamp"])

RepositoryBase ==
    ~broken =>
        /\ RepositoryShape
        /\ PointersAgree
        /\ \A p \in Publishers :
              /\ IsOperation(publisher[p])
              /\ KeysStand(publisher[p])
              /\ PayloadStands(publisher[p])
              /\ CommitStands(publisher[p])
        /\ FeedStands
        /\ pointers["timestamp"] # NoFile => Publishers # {}

(* The five roles in the order of a commit.                                *)
LEMMA RolesInOrder ==
    /\ Roles = {"targets", "rollout", "policy", "snapshot", "timestamp"}
    /\ RoleOrder[1] = "targets" /\ RoleOrder[2] = "rollout" /\ RoleOrder[3] = "policy"
    /\ RoleOrder[4] = "snapshot" /\ RoleOrder[5] = "timestamp"
<1> DEFINE a == <<"targets", "rollout", "policy">>
           b == <<"snapshot", "timestamp">>
           S == {"targets", "rollout", "policy", "snapshot", "timestamp"}
<1>1. a \in Seq(S) /\ b \in Seq(S) /\ Len(a) = 3 /\ Len(b) = 2
  <2>1. a \in Seq(S)
    OBVIOUS
  <2>2. b \in Seq(S)
    OBVIOUS
  <2>3. Len(a) = 3
    OBVIOUS
  <2>4. Len(b) = 2
    OBVIOUS
  <2> QED
    BY <2>1, <2>2, <2>3, <2>4
<1>2. RoleOrder = a \o b
  BY DEF RoleOrder, PayloadRoles
<1>3. /\ a[1] = "targets" /\ a[2] = "rollout" /\ a[3] = "policy"
      /\ b[1] = "snapshot" /\ b[2] = "timestamp"
  OBVIOUS
<1>4. /\ a \o b \in Seq(S) /\ Len(a \o b) = Len(a) + Len(b)
      /\ \A i \in 1..Len(a) + Len(b) : (a \o b)[i] = IF i <= Len(a) THEN a[i] ELSE b[i - Len(a)]
  BY <1>1, ConcatProperties
<1> HIDE DEF a, b, S
<1>5. /\ RoleOrder \in Seq(S) /\ Len(RoleOrder) = 5
      /\ \A i \in 1..5 : RoleOrder[i] = IF i <= 3 THEN a[i] ELSE b[i - 3]
  BY <1>1, <1>2, <1>4
<1>6. /\ RoleOrder[1] = "targets" /\ RoleOrder[2] = "rollout" /\ RoleOrder[3] = "policy"
      /\ RoleOrder[4] = "snapshot" /\ RoleOrder[5] = "timestamp"
  BY <1>3, <1>5
<1>7. DOMAIN RoleOrder = {1, 2, 3, 4, 5}
  BY <1>5
<1> QED
  BY <1>6, <1>7 DEF Roles

FilesGrow ==
    \A r \in Roles : \A v \in 1..MaxCommits : files[r][v] # NoFile => files'[r][v] = files[r][v]

(* A file that is in place stays: no write replaces one.                   *)
LEMMA InPlaceStays ==
    ASSUME FilesGrow, NEW r \in Roles, NEW f, NEW k, InPlace(r, f, k)
    PROVE  InPlace(r, f, k)'
<1>1. f.version \in 1..MaxCommits /\ files[r][f.version] = f /\ f.keys = k
  BY DEF InPlace
<1>2. f # NoFile
  BY <1>1 DEF NoFile
<1>3. files'[r][f.version] = f
  BY <1>1, <1>2 DEF FilesGrow
<1> QED
  BY <1>1, <1>3 DEF InPlace

(* What a client is led to is what it was, unless timestamp.json moves.     *)
LEMMA FeedStays ==
    ASSUME FilesGrow, FeedStands, pointers'["timestamp"] = pointers["timestamp"],
           artifacts \subseteq artifacts', announced' = announced,
           ~Rotating' => ~Rotating /\ online' = online
    PROVE  FeedStands'
<1> SUFFICES ASSUME pointers'["timestamp"] # NoFile, ~Rotating' PROVE Leads(pointers["timestamp"])'
  BY DEF FeedStands
<1> DEFINE t == pointers["timestamp"]
<1>1. Leads(t) /\ t' = t /\ online' = online
  BY DEF FeedStands
<1> HIDE DEF t
<1>2. PICK u : u = t
  OBVIOUS
<1>3. Leads(u)
  BY <1>1, <1>2
<1>4. InPlace("snapshot", u.data, online)'
  BY <1>1, <1>3, InPlaceStays, RolesInOrder DEF Leads, InPlace
<1>5. \A r \in PayloadNames : InPlace(r, u.data.data[r], online)'
  <2> SUFFICES ASSUME NEW r \in PayloadNames PROVE InPlace(r, u.data.data[r], u.keys)'
    BY <1>1, <1>3 DEF Leads, InPlace
  <2>1. r \in Roles /\ InPlace(r, u.data.data[r], u.keys)
    BY <1>3, RolesInOrder DEF Leads, PayloadNames
  <2> QED
    BY <2>1, InPlaceStays
<1>6. Leads(u)'
  BY <1>1, <1>3, <1>4, <1>5 DEF Leads
<1>7. t' = u
  BY <1>1, <1>2
<1> QED
  BY <1>6, <1>7 DEF t, Leads, InPlace

(* With one publisher, the keys change hands when it is the one.           *)
LEMMA RotatingIs ==
    ASSUME OnePublisher, NEW p \in Publishers
    PROVE  /\ Rotating <=> broken \/ publisher[p].op = "rotate"
           /\ (Rotating <=> broken \/ publisher[p].op = "rotate")'
BY DEF Rotating, OnePublisher

Stands(p) ==
    /\ RepositoryShape /\ PointersAgree /\ FeedStands
    /\ IsOperation(publisher[p]) /\ KeysStand(publisher[p])
    /\ PayloadStands(publisher[p]) /\ CommitStands(publisher[p])

(* The invariant, for the one publisher.                                   *)
LEMMA BaseOfOne ==
    ASSUME OnePublisher, NEW p \in Publishers
    PROVE  /\ RepositoryBase <=> (~broken => Stands(p))
           /\ (RepositoryBase <=> (~broken => Stands(p)))'
<1>1. \A q \in Publishers : q = p
  BY DEF OnePublisher
<1>2. RepositoryBase <=> (~broken => Stands(p))
  BY <1>1 DEF RepositoryBase, Stands
<1>3. (RepositoryBase <=> (~broken => Stands(p)))'
  BY <1>1 DEF RepositoryBase, Stands
<1> QED
  BY <1>2, <1>3

(* What the pointers say stays what they say, and artifacts are added.      *)
LEMMA PointersQuiet ==
    ASSUME PointersAgree, UNCHANGED <<pointers, announced, commits>>, artifacts \subseteq artifacts'
    PROVE  PointersAgree' /\ Listed' = Listed
<1>1. Listed' = Listed
  BY DEF Listed
<1> QED
  BY <1>1 DEF PointersAgree

(* An operation that begins: it has read the pointers.                     *)
LEMMA BeginStep ==
    ASSUME OnePublisher, NEW p \in Publishers, Stands(p), publisher[p].at = "idle",
           NEW op, NEW at \in {"first_root", "artifact", "commit"}, NEW payload,
           Begin(p, op, at, payload), op # "rotate",
           Closed(payload), at # "artifact" => payload.targets \subseteq artifacts,
           rootPointer = IF at = "first_root" THEN 0 ELSE online,
           UNCHANGED <<files, pointers, roots, rootPointer, online, artifacts, commits, breaks,
                       announced, broken>>
    PROVE  Stands(p)'
<1>0. PointersAgree' /\ Listed' = Listed
  BY PointersQuiet DEF Stands
<1>1. PICK y : y = [NoOperation EXCEPT !.at = at, !.op = op, !.payload = payload, !.keys = online]
  OBVIOUS
<1>2. publisher' = [publisher EXCEPT ![p] = y]
  BY <1>1 DEF Begin
<1>3. publisher'[p] = y /\ DOMAIN publisher' = Publishers
  BY <1>2 DEF Stands, RepositoryShape
<1>4. /\ y.at = at /\ y.op = op /\ y.payload = payload /\ y.keys = online
      /\ DOMAIN y = {"at", "op", "payload", "turn", "keys", "made"} /\ DOMAIN y.made = Roles
  BY <1>1 DEF NoOperation
<1>5. RepositoryShape'
  BY <1>3 DEF Stands, RepositoryShape
<1>6. IsOperation(publisher[p])'
  BY <1>3, <1>4 DEF IsOperation, Steps
<1>7. KeysStand(publisher[p])'
  BY <1>3, <1>4 DEF Stands, KeysStand, KeysUpTo, RepositoryShape
<1>8. PayloadStands(publisher[p])'
  <2>1. Closed(payload)'
    BY <1>0 DEF Closed
  <2>2. Closed(publisher[p].payload)'
    BY <1>3, <1>4, <2>1 DEF Closed
  <2> QED
    BY <1>3, <1>4, <2>2 DEF PayloadStands
<1>9. CommitStands(publisher[p])'
  BY <1>3, <1>4 DEF CommitStands
<1>10. ~Rotating' => ~Rotating
  BY <1>3, <1>4, RotatingIs DEF Stands, KeysStand
<1>11. FeedStands'
  BY <1>10, FeedStays DEF FilesGrow, Stands
<1> QED
  BY <1>0, <1>5, <1>6, <1>7, <1>8, <1>9, <1>11 DEF Stands

(* What an operation reads: a payload that is closed and is all in place.   *)
LEMMA CurrentIsClosed ==
    ASSUME PointersAgree, pointers["targets"] # NoFile
    PROVE  /\ Closed(Current) /\ Current.targets = Listed /\ Current.targets \subseteq artifacts
           /\ Current = [targets |-> Current.targets, rollout |-> Current.rollout,
                         policy |-> Current.policy]
<1>1. Current.targets = Listed
  BY DEF Current, Listed
<1>2. Current.rollout.release \in Listed \cup {0}
  BY DEF Current, PointersAgree, NoRollout
<1>3. Current.policy \in Listed \cup {0}
  BY DEF Current, PointersAgree
<1>4. DOMAIN Current = PayloadNames
  BY DEF Current, PayloadNames
<1>5. Current = [targets |-> Current.targets, rollout |-> Current.rollout, policy |-> Current.policy]
  BY DEF Current
<1>6. Listed \subseteq artifacts
  BY DEF PointersAgree
<1> QED
  BY <1>1, <1>2, <1>3, <1>4, <1>5, <1>6 DEF Closed

(* Every operation begins with such a payload.                             *)
LEMMA InitializeStep ==
    ASSUME OnePublisher, NEW p \in Publishers, Stands(p), initialize(p)
    PROVE  Stands(p)'
<1>1. Listed = {}
  BY DEF Listed, initialize
<1>2. Closed(NoPayload) /\ NoPayload.targets = {}
  BY <1>1 DEF Closed, NoPayload, PayloadNames, NoRollout
<1>3. publisher[p].at = "idle"
  BY DEF initialize
<1>4. rootPointer = IF rootPointer = 0 THEN 0 ELSE online
  BY <1>3 DEF Stands, KeysStand
<1> DEFINE at == IF rootPointer = 0 THEN "first_root" ELSE "commit"
<1>5. /\ at \in {"first_root", "artifact", "commit"} /\ at # "artifact"
      /\ rootPointer = IF at = "first_root" THEN 0 ELSE online
  BY <1>4
<1>6. Begin(p, "initialize", at, NoPayload)
  BY DEF initialize
<1> HIDE DEF at
<1>7. UNCHANGED <<files, pointers, roots, rootPointer, online, artifacts, commits, breaks,
                  announced, broken>>
  BY DEF initialize
<1>8. PICK a \in {"first_root", "artifact", "commit"} : a = at
  BY <1>5
<1> QED
  BY <1>2, <1>3, <1>5, <1>6, <1>7, <1>8, BeginStep

(* An operation of a feed that is there begins with what it has read.       *)
LEMMA ReadyStep ==
    ASSUME OnePublisher, NEW p \in Publishers, Stands(p), Ready(p),
           NEW op, op # "rotate", NEW at \in {"artifact", "commit"}, NEW payload,
           Begin(p, op, at, payload), Closed(payload),
           at # "artifact" => payload.targets \subseteq artifacts,
           UNCHANGED <<files, pointers, roots, rootPointer, online, artifacts, commits, breaks,
                       announced, broken>>
    PROVE  Stands(p)'
<1>1. publisher[p].at = "idle" /\ pointers["targets"] # NoFile
  BY DEF Ready
<1>2. rootPointer = online
  BY <1>1 DEF Stands, KeysStand
<1>3. at \in {"first_root", "artifact", "commit"} /\ at # "first_root"
  OBVIOUS
<1> QED
  BY <1>1, <1>2, <1>3, BeginStep

(* A release that is new, and its artifacts to be copied.                  *)
LEMMA PublishStep ==
    ASSUME OnePublisher, NEW p \in Publishers, Stands(p), NEW n \in 1..MaxReleases,
           publish_release(p, n)
    PROVE  Stands(p)'
<1>1. Ready(p) /\ PointersAgree
  BY DEF publish_release, Stands
<1>2. Closed(Current) /\ Current = [targets |-> Current.targets, rollout |-> Current.rollout, policy |-> Current.policy]
  BY <1>1, CurrentIsClosed DEF Ready
<1>3. PICK c : c = Current
  OBVIOUS
<1>4. PICK payload : payload = [c EXCEPT !.targets = @ \cup {n}]
  OBVIOUS
<1>5. /\ payload.targets = c.targets \cup {n} /\ payload.rollout = c.rollout
      /\ payload.policy = c.policy /\ DOMAIN payload = PayloadNames
  BY <1>2, <1>3, <1>4 DEF PayloadNames
<1>6. Closed(payload)
  BY <1>2, <1>3, <1>5 DEF Closed
<1>7. Begin(p, "publish", "artifact", payload)
  BY <1>3, <1>4 DEF publish_release
<1>8. UNCHANGED <<files, pointers, roots, rootPointer, online, artifacts, commits, breaks,
                  announced, broken>>
  BY DEF publish_release
<1> QED
  BY <1>1, <1>6, <1>7, <1>8, ReadyStep

(* A share of a release of the feed.                                       *)
LEMMA RolloutStep ==
    ASSUME OnePublisher, NEW p \in Publishers, Stands(p),
           NEW rollout \in [release : 1..MaxReleases, full : BOOLEAN, paused : BOOLEAN],
           set_rollout(p, rollout)
    PROVE  Stands(p)'
<1>1. Ready(p) /\ PointersAgree
  BY DEF set_rollout, Stands
<1>2. /\ Closed(Current) /\ Current.targets \subseteq artifacts
      /\ Current = [targets |-> Current.targets, rollout |-> Current.rollout, policy |-> Current.policy]
  BY <1>1, CurrentIsClosed DEF Ready
<1>3. PICK c : c = Current
  OBVIOUS
<1>4. PICK payload : payload = [c EXCEPT !.rollout = rollout]
  OBVIOUS
<1>5. /\ payload.targets = c.targets /\ payload.rollout = rollout
      /\ payload.policy = c.policy /\ DOMAIN payload = PayloadNames
  BY <1>2, <1>3, <1>4 DEF PayloadNames
<1>6. Closed(payload) /\ payload.targets \subseteq artifacts
  BY <1>2, <1>3, <1>5 DEF Closed, set_rollout
<1>7. Begin(p, "rollout", "commit", payload)
  BY <1>3, <1>4 DEF set_rollout
<1>8. UNCHANGED <<files, pointers, roots, rootPointer, online, artifacts, commits, breaks,
                  announced, broken>>
  BY DEF set_rollout
<1> QED
  BY <1>1, <1>6, <1>7, <1>8, ReadyStep

(* A required policy, or none.                                             *)
LEMMA PolicyStep ==
    ASSUME OnePublisher, NEW p \in Publishers, Stands(p), Ready(p),
           NEW n, n = 0 \/ n \in Current.targets,
           Begin(p, "policy", "commit", [Current EXCEPT !.policy = n]),
           UNCHANGED <<files, pointers, roots, rootPointer, online, artifacts, commits, breaks,
                       announced, broken>>
    PROVE  Stands(p)'
<1>1. Ready(p) /\ PointersAgree
  BY DEF Stands
<1>2. /\ Closed(Current) /\ Current.targets \subseteq artifacts
      /\ Current = [targets |-> Current.targets, rollout |-> Current.rollout, policy |-> Current.policy]
  BY <1>1, CurrentIsClosed DEF Ready
<1>3. PICK c : c = Current
  OBVIOUS
<1>4. PICK payload : payload = [c EXCEPT !.policy = n]
  OBVIOUS
<1>5. /\ payload.targets = c.targets /\ payload.rollout = c.rollout
      /\ payload.policy = n /\ DOMAIN payload = PayloadNames
  BY <1>2, <1>3, <1>4 DEF PayloadNames
<1>6. Closed(payload) /\ payload.targets \subseteq artifacts
  BY <1>2, <1>3, <1>5 DEF Closed
<1>7. Begin(p, "policy", "commit", payload)
  BY <1>3, <1>4
<1> QED
  BY <1>1, <1>6, <1>7, ReadyStep

(* A step that writes no role.                                             *)
LEMMA StepApart ==
    ASSUME OnePublisher, NEW p \in Publishers, Stands(p), ~broken,
           NEW y, publisher' = [publisher EXCEPT ![p] = y],
           UNCHANGED <<files, pointers, announced>>, artifacts \subseteq artifacts',
           DOMAIN roots' = DOMAIN roots, online' \in 1..MaxKeys, commits' \in 0..MaxCommits,
           PointersAgree',
           IsOperation(y), KeysStand(y)', PayloadStands(y)', CommitStands(y)',
           y.op = "rotate" \/ (publisher[p].op # "rotate" /\ online' = online)
    PROVE  Stands(p)'
<1>1. publisher'[p] = y /\ DOMAIN publisher' = Publishers
  BY DEF Stands, RepositoryShape
<1>2. RepositoryShape'
  BY <1>1 DEF Stands, RepositoryShape
<1>3. IsOperation(publisher[p])'
  BY <1>1 DEF IsOperation
<1>4. KeysStand(publisher[p])'
  BY <1>1 DEF KeysStand
<1>5. PayloadStands(publisher[p])'
  BY <1>1 DEF PayloadStands, Closed
<1>6. CommitStands(publisher[p])'
  BY <1>1 DEF CommitStands, Wrote, Hashes, InPlace
<1>7. ~Rotating' => ~Rotating /\ online' = online
  BY <1>1, RotatingIs
<1>8. FeedStands'
  BY <1>7, FeedStays DEF FilesGrow, Stands
<1> QED
  BY <1>2, <1>3, <1>4, <1>5, <1>6, <1>8 DEF Stands

\* publisher[p] with another at is y.
ComesTo(p, a, y) ==
    /\ [publisher EXCEPT ![p].at = a] = [publisher EXCEPT ![p] = y]
    /\ IsOperation(y) /\ y.at = a /\ y.op = publisher[p].op
    /\ y.payload = publisher[p].payload /\ y.turn = publisher[p].turn
    /\ y.keys = publisher[p].keys /\ y.made = publisher[p].made

(* A step to another place of an operation, which changes nothing else.     *)
LEMMA MovesTo ==
    ASSUME NEW p \in Publishers, RepositoryShape, IsOperation(publisher[p]), NEW a \in Steps
    PROVE  \E y : ComesTo(p, a, y)
<1>1. PICK x : x = publisher[p]
  OBVIOUS
<1>2. PICK y : y = [x EXCEPT !.at = a]
  OBVIOUS
<1>3. /\ IsOperation(y) /\ y.at = a /\ y.op = x.op /\ y.payload = x.payload
      /\ y.turn = x.turn /\ y.keys = x.keys /\ y.made = x.made
  BY <1>1, <1>2 DEF IsOperation
<1>4. [publisher EXCEPT ![p].at = a] = [publisher EXCEPT ![p] = y]
  BY <1>1, <1>2 DEF RepositoryShape
<1> QED
  BY <1>1, <1>3, <1>4 DEF ComesTo

(* root.json, and then 1.root.json.                                        *)
LEMMA FirstRootStep ==
    ASSUME OnePublisher, NEW p \in Publishers, Stands(p), ~broken, first_root(p) \/ first_version(p)
    PROVE  Stands(p)'
<1> DEFINE x == publisher[p]
           a == IF x.at = "first_root" THEN "first_version" ELSE "commit"
<1>1. /\ publisher' = [publisher EXCEPT ![p].at = a] /\ a \in Steps
      /\ x.at \in {"first_root", "first_version"}
      /\ rootPointer' = IF x.at = "first_root" THEN 1 ELSE rootPointer
      /\ DOMAIN roots' = DOMAIN roots
      /\ \A v \in 2..MaxKeys : roots'[v] = roots[v]
      /\ UNCHANGED <<files, pointers, online, artifacts, commits, announced>>
  <2>1. CASE first_root(p)
    BY <2>1 DEF first_root, Steps
  <2>2. CASE first_version(p)
    BY <2>2 DEF first_version, Steps, Stands, RepositoryShape
  <2> QED
    BY <2>1, <2>2
<1>2. PICK b : b = a
  OBVIOUS
<1> HIDE DEF a
<1>3. RepositoryShape /\ IsOperation(x)
  BY DEF Stands
<1>3a. PICK y : ComesTo(p, b, y)
  BY <1>1, <1>2, <1>3, MovesTo
<1>4. /\ [publisher EXCEPT ![p].at = b] = [publisher EXCEPT ![p] = y]
      /\ IsOperation(y) /\ y.at = b /\ y.op = x.op /\ y.payload = x.payload /\ y.turn = x.turn
      /\ y.keys = x.keys /\ y.made = x.made
  BY <1>3a DEF ComesTo
<1>5. publisher' = [publisher EXCEPT ![p] = y]
  BY <1>1, <1>2, <1>4
<1>6. b \in {"first_version", "commit"} /\ (x.at = "first_root" => b = "first_version")
  BY <1>1, <1>2 DEF a
<1>7. PointersAgree' /\ Listed' = Listed
  BY <1>1, PointersQuiet DEF Stands
<1>8. KeysStand(y)'
  BY <1>1, <1>4, <1>6 DEF Stands, KeysStand, KeysUpTo
<1>9. PayloadStands(y)'
  BY <1>1, <1>4, <1>6, <1>7 DEF Stands, PayloadStands, Closed
<1>10. CommitStands(y)'
  BY <1>4, <1>6 DEF CommitStands
<1>11. x.op # "rotate"
  BY <1>1 DEF Stands, KeysStand
<1>12. online' \in 1..MaxKeys /\ commits' \in 0..MaxCommits
  BY <1>1, <1>3 DEF RepositoryShape
<1> QED
  BY <1>1, <1>4, <1>5, <1>7, <1>8, <1>9, <1>10, <1>11, <1>12, StepApart

(* The artifacts are there before the commit.                              *)
LEMMA CopyStep ==
    ASSUME OnePublisher, NEW p \in Publishers, Stands(p), ~broken, copy_artifacts(p)
    PROVE  Stands(p)'
<1> DEFINE x == publisher[p]
<1>1. /\ publisher' = [publisher EXCEPT ![p].at = "commit"] /\ x.at = "artifact"
      /\ artifacts' = artifacts \cup x.payload.targets
      /\ UNCHANGED <<files, pointers, roots, rootPointer, online, commits, announced>>
  BY DEF copy_artifacts
<1>3. RepositoryShape /\ IsOperation(x) /\ "commit" \in Steps
  BY DEF Stands, Steps
<1>3a. PICK y : ComesTo(p, "commit", y)
  BY <1>3, MovesTo
<1>4. /\ [publisher EXCEPT ![p].at = "commit"] = [publisher EXCEPT ![p] = y]
      /\ IsOperation(y) /\ y.at = "commit" /\ y.op = x.op /\ y.payload = x.payload
      /\ y.turn = x.turn /\ y.keys = x.keys /\ y.made = x.made
  BY <1>3a DEF ComesTo
<1>5. publisher' = [publisher EXCEPT ![p] = y]
  BY <1>1, <1>4
<1>7. PointersAgree' /\ Listed' = Listed
  BY <1>1, PointersQuiet DEF Stands
<1>8. KeysStand(y)'
  BY <1>1, <1>4 DEF Stands, KeysStand, KeysUpTo
<1>9. PayloadStands(y)'
  <2>1. Closed(x.payload) /\ x.payload.targets \subseteq artifacts'
    BY <1>1 DEF Stands, PayloadStands
  <2>2. Closed(y.payload)'
    BY <2>1, <1>4, <1>7 DEF Closed
  <2> QED
    BY <1>4, <2>1, <2>2 DEF PayloadStands
<1>10. CommitStands(y)'
  BY <1>4 DEF CommitStands
<1>11. x.op # "rotate"
  BY <1>1 DEF Stands, KeysStand
<1>12. online' \in 1..MaxKeys /\ commits' \in 0..MaxCommits /\ artifacts \subseteq artifacts'
  BY <1>1, <1>3 DEF RepositoryShape
<1> QED
  BY <1>1, <1>4, <1>5, <1>7, <1>8, <1>9, <1>10, <1>11, <1>12, StepApart

(* The keys are replaced first: until the last role is signed with them.    *)
LEMMA RotateStep ==
    ASSUME OnePublisher, NEW p \in Publishers, Stands(p), ~broken, rotate_online_roles(p)
    PROVE  Stands(p)'
<1> DEFINE x == publisher[p]
<1>1. PICK y : y = [NoOperation EXCEPT !.at = "rotate", !.op = "rotate", !.keys = online + 1]
  OBVIOUS
<1>2. /\ publisher' = [publisher EXCEPT ![p] = y] /\ x.at = "idle" /\ pointers["targets"] # NoFile
      /\ online < MaxKeys /\ online' = online + 1
      /\ UNCHANGED <<files, pointers, roots, rootPointer, artifacts, commits, announced>>
  BY <1>1 DEF rotate_online_roles, Ready
<1>3. /\ IsOperation(y) /\ y.at = "rotate" /\ y.op = "rotate" /\ y.keys = online + 1
  BY <1>1 DEF NoOperation, IsOperation, Steps
<1>4. online \in 1..MaxKeys /\ commits \in 0..MaxCommits /\ MaxKeys \in Nat
  BY RepositoryAssumption DEF Stands, RepositoryShape
<1>5. online' \in 1..MaxKeys /\ commits' \in 0..MaxCommits /\ online' - 1 = online /\ online # 0
  BY <1>2, <1>4
<1>6. rootPointer = online /\ KeysUpTo(online)
  BY <1>2 DEF Stands, KeysStand
<1>7. PointersAgree'
  BY <1>2, PointersQuiet DEF Stands
<1>8. \A v \in 2..MaxKeys : roots'[v] = IF v <= online' - 1 THEN v ELSE 0
  BY <1>2, <1>5, <1>6 DEF KeysUpTo
<1>9. KeysStand(y)'
  BY <1>2, <1>3, <1>5, <1>6, <1>8 DEF KeysStand, KeysUpTo
<1>10. PayloadStands(y)'
  BY <1>3 DEF PayloadStands
<1>11. CommitStands(y)'
  BY <1>3 DEF CommitStands
<1> QED
  BY <1>2, <1>3, <1>5, <1>7, <1>9, <1>10, <1>11, StepApart

(* The root that names the new keys, under its own version.                *)
LEMMA RootStep ==
    ASSUME OnePublisher, NEW p \in Publishers, Stands(p), ~broken, rotate_root(p)
    PROVE  Stands(p)'
<1> DEFINE x == publisher[p]
<1>1. /\ publisher' = [publisher EXCEPT ![p].at = "root_pointer"] /\ x.at = "rotate"
      /\ roots' = [roots EXCEPT ![rootPointer + 1] = x.keys]
      /\ UNCHANGED <<files, pointers, rootPointer, online, artifacts, commits, announced>>
  BY DEF rotate_root
<1>2. RepositoryShape /\ IsOperation(x) /\ "root_pointer" \in Steps
  BY DEF Stands, Steps
<1>3. PICK y : ComesTo(p, "root_pointer", y)
  BY <1>2, MovesTo
<1>4. /\ publisher' = [publisher EXCEPT ![p] = y]
      /\ IsOperation(y) /\ y.at = "root_pointer" /\ y.op = x.op /\ y.keys = x.keys
  BY <1>1, <1>3 DEF ComesTo
<1>5. /\ x.op = "rotate" /\ x.keys = online /\ rootPointer = online - 1 /\ rootPointer # 0
      /\ pointers["targets"] # NoFile /\ KeysUpTo(online - 1)
  BY <1>1 DEF Stands, KeysStand
<1>6. online \in 1..MaxKeys /\ commits \in 0..MaxCommits /\ DOMAIN roots = 1..MaxKeys /\ MaxKeys \in Nat
  BY <1>2, RepositoryAssumption DEF RepositoryShape
<1>7. roots' = [roots EXCEPT ![online] = online] /\ DOMAIN roots' = DOMAIN roots
  <2>1. rootPointer + 1 = online
    BY <1>5, <1>6
  <2> QED
    BY <1>1, <1>5, <2>1
<1>8. \A v \in 2..MaxKeys : roots'[v] = IF v <= online THEN v ELSE 0
  BY <1>5, <1>6, <1>7 DEF KeysUpTo
<1>9. PointersAgree'
  BY <1>1, PointersQuiet DEF Stands
<1>10. KeysStand(y)'
  BY <1>1, <1>4, <1>5, <1>8 DEF KeysStand, KeysUpTo
<1>11. PayloadStands(y)'
  BY <1>4 DEF PayloadStands
<1>12. CommitStands(y)'
  BY <1>4 DEF CommitStands
<1>13. online' \in 1..MaxKeys /\ commits' \in 0..MaxCommits
  BY <1>1, <1>6
<1> QED
  BY <1>1, <1>4, <1>5, <1>7, <1>9, <1>10, <1>11, <1>12, <1>13, StepApart

(* root.json: what is there is signed again.                               *)
LEMMA RootPointerStep ==
    ASSUME OnePublisher, NEW p \in Publishers, Stands(p), ~broken, move_root_pointer(p)
    PROVE  Stands(p)'
<1>0. PICK x : x = publisher[p]
  OBVIOUS
<1>1. /\ publisher' = [publisher EXCEPT ![p] = [[x EXCEPT !.at = "commit"] EXCEPT !.payload = Current]]
      /\ x.at = "root_pointer" /\ rootPointer' = rootPointer + 1
      /\ UNCHANGED <<files, pointers, roots, online, artifacts, commits, announced>>
  BY <1>0 DEF move_root_pointer, Stands, RepositoryShape
<1>2. RepositoryShape /\ IsOperation(x) /\ PointersAgree /\ "commit" \in Steps
  BY <1>0 DEF Stands, Steps
<1>3. PICK c : c = Current
  OBVIOUS
<1>4. PICK z : z = [x EXCEPT !.at = "commit"]
  OBVIOUS
<1>5. z.at = "commit" /\ z.op = x.op /\ z.keys = x.keys /\ z.made = x.made /\ DOMAIN z = DOMAIN x
  BY <1>2, <1>4 DEF IsOperation
<1>6. PICK y : y = [z EXCEPT !.payload = c]
  OBVIOUS
<1>7. /\ publisher' = [publisher EXCEPT ![p] = y]
      /\ IsOperation(y) /\ y.at = "commit" /\ y.op = x.op /\ y.keys = x.keys /\ y.payload = c
  BY <1>1, <1>2, <1>3, <1>4, <1>5, <1>6 DEF IsOperation
<1>8. /\ x.op = "rotate" /\ x.keys = online /\ rootPointer = online - 1
      /\ pointers["targets"] # NoFile /\ KeysUpTo(online)
  BY <1>0, <1>1 DEF Stands, KeysStand
<1>9. online \in 1..MaxKeys /\ commits \in 0..MaxCommits
  BY <1>2 DEF RepositoryShape
<1>10. PointersAgree' /\ Listed' = Listed
  BY <1>1, PointersQuiet DEF Stands
<1>11. Closed(c) /\ c.targets \subseteq artifacts
  BY <1>2, <1>3, <1>8, CurrentIsClosed
<1>12. rootPointer' = online'
  BY <1>1, <1>8, <1>9
<1>13. KeysStand(y)'
  BY <1>1, <1>7, <1>8, <1>12 DEF KeysStand, KeysUpTo
<1>14. PayloadStands(y)'
  BY <1>1, <1>7, <1>10, <1>11 DEF PayloadStands, Closed
<1>15. CommitStands(y)'
  BY <1>7 DEF CommitStands
<1>16. online' \in 1..MaxKeys /\ commits' \in 0..MaxCommits /\ DOMAIN roots' = DOMAIN roots
  BY <1>1, <1>9
<1> QED
  BY <1>1, <1>7, <1>8, <1>10, <1>13, <1>14, <1>15, <1>16, StepApart

(* The three payloads, under the next version of each pointer.             *)
LEMMA PayloadsStep ==
    ASSUME OnePublisher, NEW p \in Publishers, Stands(p), ~broken, commit_payloads(p)
    PROVE  Stands(p)'
<1>0. PICK x : x = publisher[p]
  OBVIOUS
<1> DEFINE File(r) == [version |-> pointers[r].version + 1, issued |-> commits + 1,
                       keys |-> x.keys, data |-> x.payload[r]]
<1>1. PICK made : made = [r \in Roles |-> IF r \in {"snapshot", "timestamp"} THEN NoFile ELSE File(r)]
  OBVIOUS
<1>2. /\ publisher' = [publisher EXCEPT ![p] =
                          [[[x EXCEPT !.at = "version"] EXCEPT !.turn = 1] EXCEPT !.made = made]]
      /\ x.at = "commit" /\ commits < MaxCommits /\ commits' = commits + 1
      /\ UNCHANGED <<files, pointers, roots, rootPointer, online, artifacts, announced>>
  BY <1>0, <1>1 DEF commit_payloads, Stands, RepositoryShape
<1>3. RepositoryShape /\ IsOperation(x) /\ PointersAgree /\ "version" \in Steps
  BY <1>0 DEF Stands, Steps
<1>4. PICK z : z = [x EXCEPT !.at = "version"]
  OBVIOUS
<1>5. /\ z.at = "version" /\ z.op = x.op /\ z.keys = x.keys /\ z.payload = x.payload
      /\ DOMAIN z = DOMAIN x
  BY <1>3, <1>4 DEF IsOperation
<1>6. PICK w : w = [z EXCEPT !.turn = 1]
  OBVIOUS
<1>7. /\ w.at = "version" /\ w.op = x.op /\ w.keys = x.keys /\ w.payload = x.payload
      /\ w.turn = 1 /\ DOMAIN w = DOMAIN x
  BY <1>3, <1>5, <1>6 DEF IsOperation
<1>8. PICK y : y = [w EXCEPT !.made = made]
  OBVIOUS
<1>9. /\ publisher' = [publisher EXCEPT ![p] = y] /\ y.made = made /\ y.turn = 1
      /\ IsOperation(y) /\ y.at = "version" /\ y.op = x.op /\ y.keys = x.keys /\ y.payload = x.payload
  BY <1>1, <1>2, <1>3, <1>4, <1>6, <1>7, <1>8 DEF IsOperation
<1>10. /\ online \in 1..MaxKeys /\ commits \in 0..MaxCommits /\ MaxCommits \in Nat
       /\ \A r \in Roles : pointers[r].version \in 0..commits
  BY <1>3, RepositoryAssumption DEF RepositoryShape, PointersAgree
<1>11. commits' \in 0..MaxCommits /\ \A r \in Roles : pointers[r].version \in 0..commits' /\ pointers[r].version < commits'
  BY <1>2, <1>10
<1>12. Listed' = Listed
  BY <1>2 DEF Listed
<1>13. PointersAgree'
  BY <1>2, <1>3, <1>11, <1>12 DEF PointersAgree
<1>14. KeysStand(y)'
  BY <1>0, <1>2, <1>9 DEF Stands, KeysStand, KeysUpTo
<1>15. PayloadStands(y)'
  <2>1. Closed(x.payload) /\ x.payload.targets \subseteq artifacts
    BY <1>0, <1>2 DEF Stands, PayloadStands
  <2>2. Closed(y.payload)'
    BY <1>9, <1>12, <2>1 DEF Closed
  <2> QED
    BY <1>2, <1>9, <2>1, <2>2 DEF PayloadStands
<1>16. \A r \in PayloadNames :
          made[r].version \in 1..commits' /\ made[r].keys = x.keys /\ made[r].data = x.payload[r]
  <2> SUFFICES ASSUME NEW r \in PayloadNames
               PROVE  made[r].version \in 1..commits' /\ made[r].keys = x.keys /\ made[r].data = x.payload[r]
    OBVIOUS
  <2>1. r \in Roles /\ r \notin {"snapshot", "timestamp"}
    BY RolesInOrder DEF PayloadNames
  <2>2. made[r] = File(r)
    BY <1>1, <2>1
  <2>3. pointers[r].version + 1 \in 1..commits'
    BY <1>2, <1>10, <2>1
  <2> QED
    BY <2>2, <2>3
<1>17. CommitStands(y)'
  <2>1. \A i \in 1..5 : ~Wrote(y, i)
    BY <1>9 DEF Wrote
  <2>2. \A i \in 1..5 : pointers[RoleOrder[i]].version < commits'
    <3>1. \A i \in 1..5 : RoleOrder[i] \in Roles
      BY RolesInOrder
    <3> QED
      BY <1>11, <3>1
  <2>3. Wrote(y, 4) = FALSE /\ Wrote(y, 5) = FALSE
    BY <2>1 DEF Wrote
  <2> QED
    BY <1>2, <1>9, <1>16, <2>1, <2>2, <2>3 DEF CommitStands, Wrote
<1>18. online' \in 1..MaxKeys /\ DOMAIN roots' = DOMAIN roots /\ artifacts \subseteq artifacts'
  BY <1>2, <1>10
<1>19. y.op = "rotate" \/ (publisher[p].op # "rotate" /\ online' = online)
  BY <1>0, <1>2, <1>9
<1> QED
  BY <1>2, <1>9, <1>11, <1>13, <1>14, <1>15, <1>17, <1>18, <1>19, StepApart

(* The places of the roles in the order.                                   *)
LEMMA OrderIsOne ==
    /\ \A i \in 1..5 : RoleOrder[i] \in Roles
    /\ \A i, j \in 1..5 : RoleOrder[i] = RoleOrder[j] => i = j
    /\ \A i \in 1..5 : RoleOrder[i] \in PayloadNames <=> i <= 3
    /\ PayloadNames \subseteq Roles
<1>1. 1..5 = {1, 2, 3, 4, 5}
  OBVIOUS
<1>2. \A i \in {1, 2, 3, 4, 5} : RoleOrder[i] \in Roles
  BY RolesInOrder
<1>3. \A i, j \in {1, 2, 3, 4, 5} : RoleOrder[i] = RoleOrder[j] => i = j
  BY RolesInOrder
<1>4. \A i \in {1, 2, 3, 4, 5} : RoleOrder[i] \in PayloadNames <=> i <= 3
  BY RolesInOrder DEF PayloadNames
<1>5. PayloadNames \subseteq Roles
  BY RolesInOrder DEF PayloadNames
<1> QED
  BY <1>1, <1>2, <1>3, <1>4, <1>5

(* What is to be written next, in terms of what was made.                  *)
LEMMA ContentIs ==
    ASSUME NEW p \in Publishers, Stands(p), publisher[p].at = "version"
    PROVE  /\ publisher[p].turn \in 1..5
           /\ Content(p).version \in 1..commits /\ Content(p).keys = publisher[p].keys
           /\ publisher[p].turn <= 3 => Content(p) = publisher[p].made[Role(p)]
           /\ publisher[p].turn = 4 => Content(p).data = Hashes(publisher[p])
           /\ publisher[p].turn = 5 => Content(p).data = publisher[p].made["snapshot"]
<1>0. PICK x : x = publisher[p]
  OBVIOUS
<1>1. /\ x.turn \in 1..5
      /\ \A r \in PayloadNames : x.made[r].version \in 1..commits /\ x.made[r].keys = x.keys
      /\ \A i \in 1..5 : i >= x.turn => pointers[RoleOrder[i]].version < commits
  BY <1>0 DEF Stands, CommitStands
<1>2. /\ \A r \in Roles : pointers[r].version \in 0..commits
      /\ commits \in Nat
  BY RepositoryAssumption DEF Stands, PointersAgree, RepositoryShape
<1>3. Role(p) = RoleOrder[x.turn]
  BY <1>0 DEF Role
<1>4. CASE x.turn \in {1, 2, 3}
  <2>1. Role(p) \in {"targets", "rollout", "policy"} /\ Role(p) \in PayloadNames
    BY <1>3, <1>4, RolesInOrder DEF PayloadNames
  <2>2. Content(p) = x.made[Role(p)]
    BY <1>0, <2>1 DEF Content
  <2> QED
    BY <1>0, <1>1, <1>4, <2>1, <2>2
<1>5. CASE x.turn = 4
  <2>1. Role(p) = "snapshot" /\ Role(p) \in Roles
    BY <1>3, <1>5, RolesInOrder
  <2>2. pointers["snapshot"].version + 1 \in 1..commits
    BY <1>1, <1>2, <1>3, <1>5, <2>1
  <2>3. Content(p) = [version |-> pointers["snapshot"].version + 1, issued |-> x.made["targets"].issued,
                      keys |-> x.keys, data |-> Hashes(x)]
    BY <1>0, <2>1 DEF Content, Hashes
  <2> QED
    BY <1>0, <1>1, <1>5, <2>2, <2>3
<1>6. CASE x.turn = 5
  <2>1. Role(p) = "timestamp" /\ Role(p) \in Roles
    BY <1>3, <1>6, RolesInOrder
  <2>2. pointers["timestamp"].version + 1 \in 1..commits
    BY <1>1, <1>2, <1>3, <1>6, <2>1
  <2>3. Content(p) = [version |-> pointers["timestamp"].version + 1, issued |-> x.made["targets"].issued,
                      keys |-> x.keys, data |-> x.made["snapshot"]]
    BY <1>0, <2>1 DEF Content
  <2> QED
    BY <1>0, <1>1, <1>6, <2>2, <2>3
<1>7. x.turn \in {1, 2, 3} \/ x.turn = 4 \/ x.turn = 5
  BY <1>1
<1> QED
  BY <1>4, <1>5, <1>6, <1>7

(* The immutable file of a role, which replaces none.                      *)
LEMMA VersionStep ==
    ASSUME OnePublisher, NEW p \in Publishers, Stands(p), ~broken, write_version(p)
    PROVE  Stands(p)'
<1>0. PICK x : x = publisher[p]
  OBVIOUS
<1>1. PICK c : c = Content(p)
  OBVIOUS
<1>2. PICK R : R = Role(p)
  OBVIOUS
<1> DEFINE t == x.turn
<1>3. /\ publisher' = [publisher EXCEPT ![p] =
                          [[x EXCEPT !.at = "pointer"] EXCEPT !.made[R] = c]]
      /\ files' = [files EXCEPT ![R][c.version] = IF @ = NoFile THEN c ELSE @]
      /\ files[R][c.version] \in {NoFile, c}
      /\ x.at = "version"
      /\ UNCHANGED <<pointers, roots, rootPointer, online, artifacts, commits, announced>>
  BY <1>0, <1>1, <1>2 DEF write_version, MayWrite, Existing, Stands, RepositoryShape
<1>4. RepositoryShape /\ IsOperation(x) /\ "pointer" \in Steps /\ KeysStand(x) /\ CommitStands(x)
  BY <1>0 DEF Stands, Steps
<1>5. /\ t \in 1..5 /\ c.version \in 1..commits /\ c.keys = x.keys
      /\ t <= 3 => c = x.made[R]
      /\ t = 4 => c.data = Hashes(x)
      /\ t = 5 => c.data = x.made["snapshot"]
  BY <1>0, <1>1, <1>2, <1>3, ContentIs
<1>6. R = RoleOrder[t] /\ R \in Roles
  BY <1>0, <1>2, <1>5, OrderIsOne DEF Role
<1>7. /\ commits \in 0..MaxCommits /\ MaxCommits \in Nat /\ c.version \in 1..MaxCommits
      /\ c.version <= commits
  BY <1>4, <1>5, RepositoryAssumption DEF RepositoryShape
<1>8. PICK z : z = [x EXCEPT !.at = "pointer"]
  OBVIOUS
<1>9. /\ z.at = "pointer" /\ z.op = x.op /\ z.keys = x.keys /\ z.payload = x.payload
      /\ z.turn = x.turn /\ z.made = x.made /\ DOMAIN z = DOMAIN x
  BY <1>4, <1>8 DEF IsOperation
<1>10. PICK made : made = [x.made EXCEPT ![R] = c]
  OBVIOUS
<1>11. /\ made[R] = c /\ DOMAIN made = Roles
       /\ \A s \in Roles : s # R => made[s] = x.made[s]
  BY <1>4, <1>6, <1>10 DEF IsOperation
<1>12. PICK y : y = [z EXCEPT !.made = made]
  OBVIOUS
<1>13. [z EXCEPT !.made[R] = c] = y
  BY <1>9, <1>10, <1>12
<1>14. /\ publisher' = [publisher EXCEPT ![p] = y]
       /\ y.at = "pointer" /\ y.op = x.op /\ y.keys = x.keys /\ y.payload = x.payload
       /\ y.turn = t /\ y.made = made /\ IsOperation(y)
  BY <1>3, <1>4, <1>8, <1>9, <1>11, <1>12, <1>13 DEF IsOperation
<1>15. publisher'[p] = y /\ DOMAIN publisher' = Publishers
  BY <1>14, <1>4 DEF RepositoryShape
<1>16. /\ FilesGrow /\ files'[R][c.version] = c
       /\ DOMAIN files' = Roles /\ \A r \in Roles : DOMAIN files'[r] = 1..MaxCommits
  <2>1. DOMAIN files = Roles /\ \A r \in Roles : DOMAIN files[r] = 1..MaxCommits
    BY <1>4 DEF RepositoryShape
  <2>2. DOMAIN files' = Roles /\ \A r \in Roles : r # R => files'[r] = files[r]
    BY <1>3, <1>6, <2>1
  <2>3. files'[R] = [files[R] EXCEPT ![c.version] = IF @ = NoFile THEN c ELSE @]
    BY <1>3, <1>6, <2>1
  <2>4. /\ DOMAIN files'[R] = 1..MaxCommits /\ files'[R][c.version] = c
        /\ \A v \in 1..MaxCommits : v # c.version => files'[R][v] = files[R][v]
    BY <1>3, <1>6, <1>7, <2>1, <2>3
  <2>5. FilesGrow
    BY <1>3, <2>2, <2>4 DEF FilesGrow
  <2> QED
    BY <2>1, <2>2, <2>4, <2>5
<1>17. RepositoryShape'
  BY <1>3, <1>4, <1>15, <1>16 DEF RepositoryShape
<1>18. PointersAgree' /\ Listed' = Listed
  BY <1>3, PointersQuiet DEF Stands
<1>19. KeysStand(publisher[p])'
  BY <1>3, <1>4, <1>14, <1>15 DEF KeysStand, KeysUpTo
<1>20. PayloadStands(publisher[p])'
  <2>1. Closed(x.payload) /\ x.payload.targets \subseteq artifacts
    BY <1>0, <1>3 DEF Stands, PayloadStands
  <2>2. Closed(publisher[p].payload)'
    BY <1>14, <1>15, <1>18, <2>1 DEF Closed
  <2> QED
    BY <1>3, <1>14, <1>15, <2>1, <2>2 DEF PayloadStands
<1>21. \A r \in PayloadNames :
          made[r].version \in 1..commits /\ made[r].keys = x.keys /\ made[r].data = x.payload[r]
  <2> SUFFICES ASSUME NEW r \in PayloadNames
               PROVE  made[r] = x.made[r]
    BY <1>3, <1>4 DEF CommitStands
  <2>1. CASE r = R
    BY <1>5, <1>6, <1>11, <2>1, OrderIsOne
  <2>2. CASE r # R
    BY <1>11, <2>2, OrderIsOne
  <2> QED
    BY <2>1, <2>2
<1>22. \A i \in 1..5 : i <= t =>
          InPlace(RoleOrder[i], made[RoleOrder[i]], x.keys)' /\ made[RoleOrder[i]].version <= commits
  <2> SUFFICES ASSUME NEW i \in 1..5, i <= t
               PROVE  InPlace(RoleOrder[i], made[RoleOrder[i]], x.keys)' /\ made[RoleOrder[i]].version <= commits
    OBVIOUS
  <2>1. CASE i = t
    <3>1. RoleOrder[i] = R /\ made[R] = c
      BY <1>6, <1>11, <2>1
    <3>2. InPlace(R, c, x.keys)'
      BY <1>5, <1>7, <1>16 DEF InPlace
    <3> QED
      BY <1>7, <3>1, <3>2
  <2>2. CASE i # t
    <3>1. i < t /\ Wrote(x, i)
      BY <1>5, <2>2 DEF Wrote
    <3>2. InPlace(RoleOrder[i], x.made[RoleOrder[i]], x.keys) /\ x.made[RoleOrder[i]].version <= commits
      BY <1>3, <1>4, <3>1 DEF CommitStands
    <3>3. RoleOrder[i] \in Roles /\ RoleOrder[i] # R
      BY <1>5, <1>6, <2>2, OrderIsOne
    <3>4. made[RoleOrder[i]] = x.made[RoleOrder[i]]
      BY <1>11, <3>3
    <3>5. InPlace(RoleOrder[i], x.made[RoleOrder[i]], x.keys)'
      BY <1>16, <3>2, <3>3, InPlaceStays
    <3> QED
      BY <3>2, <3>4, <3>5
  <2> QED
    BY <2>1, <2>2
<1>23. t >= 4 => made["snapshot"].data = Hashes(y)
  <2> SUFFICES ASSUME t >= 4 PROVE made["snapshot"].data = Hashes(y)
    OBVIOUS
  <2>1. \A r \in {"targets", "rollout", "policy"} : r # R /\ r \in Roles
    <3>1. t = 4 \/ t = 5
      BY <1>5
    <3> QED
      BY <1>6, <3>1, RolesInOrder
  <2>2. Hashes(y) = Hashes(x)
    BY <1>11, <1>14, <2>1 DEF Hashes
  <2>3. CASE t = 4
    BY <1>5, <1>6, <1>11, <2>2, <2>3, RolesInOrder
  <2>4. CASE t # 4
    <3>1. t = 5 /\ R = "timestamp" /\ Wrote(x, 4)
      BY <1>5, <1>6, <2>4, RolesInOrder DEF Wrote
    <3>2. x.made["snapshot"].data = Hashes(x)
      BY <1>3, <1>4, <3>1 DEF CommitStands
    <3> QED
      BY <1>11, <2>2, <3>1, <3>2, RolesInOrder
  <2> QED
    BY <2>3, <2>4
<1>24. t >= 5 => made["timestamp"].data = made["snapshot"]
  <2> SUFFICES ASSUME t = 5 PROVE made["timestamp"].data = made["snapshot"]
    BY <1>5
  <2>1. R = "timestamp" /\ "snapshot" \in Roles
    BY <1>6, RolesInOrder
  <2> QED
    BY <1>5, <1>11, <2>1
<1>25. CommitStands(publisher[p])'
  <2>1. \A i \in 1..5 : Wrote(y, i) => i <= t
    BY <1>5, <1>14 DEF Wrote
  <2>2. /\ \A i \in 1..5 : i >= t => pointers[RoleOrder[i]].version < commits
        /\ t > 1 => Listed = x.payload.targets
    BY <1>3, <1>4 DEF CommitStands
  <2>3. CommitStands(y)'
    <3>1. \A i \in 1..5 : Wrote(y, i) => /\ InPlace(RoleOrder[i], y.made[RoleOrder[i]], y.keys)'
                                          /\ y.made[RoleOrder[i]].version <= commits'
      BY <1>3, <1>14, <1>22, <2>1
    <3>2. Wrote(y, 4) => y.made["snapshot"].data = Hashes(y)
      BY <1>14, <1>23, <2>1
    <3>3. Wrote(y, 5) => y.made["timestamp"].data = y.made["snapshot"]
      BY <1>14, <1>24, <2>1
    <3> QED
      BY <1>3, <1>5, <1>14, <1>18, <1>21, <2>2, <3>1, <3>2, <3>3 DEF CommitStands, Wrote, Hashes, InPlace
  <2> QED
    BY <1>15, <2>3 DEF CommitStands, Wrote, Hashes, InPlace
<1>26. ~Rotating' => ~Rotating /\ online' = online
  BY <1>0, <1>3, <1>14, <1>15, RotatingIs
<1>27. FeedStands'
  BY <1>3, <1>16, <1>26, FeedStays DEF Stands
<1>28. IsOperation(publisher[p])'
  BY <1>14, <1>15 DEF IsOperation
<1> QED
  BY <1>17, <1>18, <1>19, <1>20, <1>25, <1>27, <1>28 DEF Stands

(* What a pointer leads to when the last one of a commit moves.             *)
LEMMA CommitLeads ==
    ASSUME NEW p \in Publishers, Stands(p), publisher[p].at = "pointer", publisher[p].turn = 5,
           UNCHANGED <<files, online, artifacts>>,
           announced' = announced \cup publisher[p].payload.targets,
           NEW f, f = publisher[p].made["timestamp"]
    PROVE  Leads(f)'
<1>0. PICK x : x = publisher[p]
  OBVIOUS
<1>1. /\ x.keys = online
      /\ Closed(x.payload) /\ x.payload.targets \subseteq artifacts
      /\ announced \subseteq Listed
  BY <1>0 DEF Stands, KeysStand, PayloadStands, PointersAgree
<1>2. /\ \A r \in PayloadNames : x.made[r].data = x.payload[r]
      /\ \A i \in 1..5 : InPlace(RoleOrder[i], x.made[RoleOrder[i]], x.keys)
      /\ x.made["snapshot"].data = Hashes(x)
      /\ x.made["timestamp"].data = x.made["snapshot"]
  <2>1. CommitStands(x)
    BY <1>0 DEF Stands
  <2>2. \A i \in 1..5 : Wrote(x, i)
    BY <1>0 DEF Wrote
  <2> QED
    BY <1>0, <2>1, <2>2 DEF CommitStands
<1> DEFINE t == x.made["timestamp"]
           named == Hashes(x)
<1>3. InPlace("timestamp", t, online) /\ InPlace("snapshot", x.made["snapshot"], online)
  BY <1>1, <1>2, RolesInOrder
<1>4. /\ InPlace("targets", x.made["targets"], online)
      /\ InPlace("rollout", x.made["rollout"], online)
      /\ InPlace("policy", x.made["policy"], online)
  BY <1>1, <1>2, RolesInOrder
<1>5. DOMAIN named = PayloadNames /\ \A r \in PayloadNames : named[r] = x.made[r]
  BY DEF Hashes, PayloadNames
<1>6. \A r \in PayloadNames : InPlace(r, named[r], online)
  BY <1>4, <1>5 DEF PayloadNames
<1>7. /\ named["targets"].data = x.payload.targets /\ named["rollout"].data = x.payload.rollout
      /\ named["policy"].data = x.payload.policy
  BY <1>2, <1>5 DEF PayloadNames
<1>8. /\ {named["rollout"].data.release, named["policy"].data} \ {0} \subseteq named["targets"].data
      /\ named["targets"].data \subseteq artifacts
      /\ announced' \subseteq named["targets"].data
  BY <1>0, <1>1, <1>7 DEF Closed
<1>9. t.data.data = named /\ t.data = x.made["snapshot"] /\ t.keys = online
  BY <1>2, <1>3 DEF InPlace
<1> HIDE DEF named, t
<1>10. PICK u, n : u = t /\ n = named
  OBVIOUS
<1>11. InPlace("snapshot", u.data, online)' /\ \A r \in PayloadNames : InPlace(r, n[r], online)'
  BY <1>3, <1>6, <1>9, <1>10 DEF InPlace
<1>12. Leads(u)'
  BY <1>5, <1>8, <1>9, <1>10, <1>11 DEF Leads
<1>13. f = u
  BY <1>0, <1>10 DEF t
<1> QED
  BY <1>12, <1>13

(* A pointer that moves to the file just written.                          *)
LEMMA PointersMove ==
    ASSUME NEW p \in Publishers, Stands(p), publisher[p].at = "pointer",
           pointers' = [pointers EXCEPT ![Role(p)] = publisher[p].made[Role(p)]],
           UNCHANGED <<artifacts, commits>>,
           announced' = IF Role(p) = "timestamp" THEN announced \cup publisher[p].payload.targets
                        ELSE announced
    PROVE  /\ PointersAgree' /\ Listed' = publisher[p].payload.targets
           /\ DOMAIN pointers' = Roles
           /\ \A i \in 1..5 : i > publisher[p].turn => pointers'[RoleOrder[i]] = pointers[RoleOrder[i]]
           /\ publisher[p].turn # 5 => pointers'["timestamp"] = pointers["timestamp"]
<1>0. PICK x : x = publisher[p]
  OBVIOUS
<1>1. PICK R : R = Role(p)
  OBVIOUS
<1> DEFINE t == x.turn
           f == x.made[R]
<1>2. /\ t \in 1..5 /\ Closed(x.payload) /\ x.payload.targets \subseteq artifacts
      /\ PointersAgree /\ RepositoryShape
      /\ CommitStands(x)
  BY <1>0 DEF Stands, PayloadStands, CommitStands
<1>3. /\ \A r \in PayloadNames : x.made[r].data = x.payload[r]
      /\ t > 1 => Listed = x.payload.targets
  BY <1>0, <1>2 DEF CommitStands
<1>4. R = RoleOrder[t] /\ R \in Roles
  BY <1>0, <1>1, <1>2, OrderIsOne DEF Role
<1>5. f.version \in 1..commits
  <2>1. Wrote(x, t)
    BY <1>0 DEF Wrote
  <2>2. InPlace(RoleOrder[t], x.made[RoleOrder[t]], x.keys) /\ x.made[RoleOrder[t]].version <= commits
    BY <1>0, <1>2, <2>1 DEF CommitStands
  <2>3. MaxCommits \in Nat /\ commits \in 0..MaxCommits
    BY <1>2, RepositoryAssumption DEF RepositoryShape
  <2> QED
    BY <1>4, <2>2, <2>3 DEF InPlace
<1>6. f # NoFile
  BY <1>5 DEF NoFile
<1>7. /\ DOMAIN pointers' = Roles /\ pointers'[R] = f
      /\ \A r \in Roles : r # R => pointers'[r] = pointers[r]
  BY <1>0, <1>1, <1>2, <1>4 DEF RepositoryShape
<1>8. \A r \in Roles : pointers'[r].version \in 0..commits'
  <2>1. f.version \in 0..commits
    BY <1>5
  <2> QED
    BY <1>2, <1>7, <2>1 DEF PointersAgree
<1>9. Listed' = x.payload.targets
  <2>1. CASE t = 1
    <3>1. R = "targets" /\ f.data = x.payload["targets"]
      BY <1>3, <1>4, <2>1, RolesInOrder DEF PayloadNames
    <3> QED
      BY <1>6, <1>7, <3>1 DEF Listed
  <2>2. CASE t # 1
    <3>1. R # "targets" /\ "targets" \in Roles /\ t > 1
      BY <1>2, <1>4, <2>2, OrderIsOne, RolesInOrder
    <3>2. Listed' = Listed
      BY <1>7, <3>1 DEF Listed
    <3> QED
      BY <1>3, <3>1, <3>2
  <2> QED
    BY <2>1, <2>2
<1>10. Listed \subseteq Listed'
  BY <1>2, <1>9 DEF Closed
<1>11. pointers'["rollout"] # NoFile => pointers'["rollout"].data.release \in Listed' \cup {0}
  <2>1. CASE R = "rollout"
    <3>1. f.data = x.payload.rollout
      BY <1>3, <2>1 DEF PayloadNames
    <3>2. x.payload.rollout.release \in Listed' \cup {0}
      BY <1>2, <1>9 DEF Closed
    <3> QED
      BY <1>7, <2>1, <3>1, <3>2
  <2>2. CASE R # "rollout"
    BY <1>2, <1>7, <1>10, <2>2, RolesInOrder DEF PointersAgree
  <2> QED
    BY <2>1, <2>2
<1>12. pointers'["policy"] # NoFile => pointers'["policy"].data \in Listed' \cup {0}
  <2>1. CASE R = "policy"
    <3>1. f.data = x.payload.policy
      BY <1>3, <2>1 DEF PayloadNames
    <3>2. x.payload.policy \in Listed' \cup {0}
      BY <1>2, <1>9 DEF Closed
    <3> QED
      BY <1>7, <2>1, <3>1, <3>2
  <2>2. CASE R # "policy"
    BY <1>2, <1>7, <1>10, <2>2, RolesInOrder DEF PointersAgree
  <2> QED
    BY <2>1, <2>2
<1>13. Listed' \subseteq artifacts' /\ announced' \subseteq Listed'
  BY <1>0, <1>2, <1>9, <1>10 DEF PointersAgree
<1>14. PointersAgree'
  BY <1>8, <1>11, <1>12, <1>13 DEF PointersAgree
<1>15. \A i \in 1..5 : i > t => pointers'[RoleOrder[i]] = pointers[RoleOrder[i]]
  <2> SUFFICES ASSUME NEW i \in 1..5, i > t PROVE pointers'[RoleOrder[i]] = pointers[RoleOrder[i]]
    OBVIOUS
  <2>1. i # t
    BY <1>2
  <2>2. RoleOrder[i] \in Roles /\ RoleOrder[i] # R
    BY <1>2, <1>4, <2>1, OrderIsOne
  <2> QED
    BY <1>7, <2>2
<1>16. t # 5 => pointers'["timestamp"] = pointers["timestamp"]
  <2> SUFFICES ASSUME t # 5 PROVE pointers'["timestamp"] = pointers["timestamp"]
    OBVIOUS
  <2>1. 5 \in 1..5 /\ 5 > t
    BY <1>2
  <2>2. pointers'[RoleOrder[5]] = pointers[RoleOrder[5]]
    BY <1>15, <2>1
  <2> QED
    BY <2>2, RolesInOrder
<1> QED
  BY <1>0, <1>7, <1>9, <1>14, <1>15, <1>16

(* A pointer in the middle of a commit.                                    *)
LEMMA PointerStep ==
    ASSUME OnePublisher, NEW p \in Publishers, Stands(p), ~broken, move_pointer(p)
    PROVE  Stands(p)'
<1>0. PICK x : x = publisher[p]
  OBVIOUS
<1> DEFINE t == x.turn
<1>1. /\ x.at = "pointer"
      /\ pointers' = [pointers EXCEPT ![Role(p)] = publisher[p].made[Role(p)]]
      /\ UNCHANGED <<files, roots, rootPointer, online, artifacts, commits, broken>>
  BY <1>0 DEF move_pointer
<1>2. /\ t \in 1..5 /\ Closed(x.payload) /\ x.payload.targets \subseteq artifacts
      /\ PointersAgree /\ RepositoryShape /\ KeysStand(x) /\ CommitStands(x) /\ IsOperation(x)
      /\ FeedStands
  BY <1>0, <1>1 DEF Stands, PayloadStands, CommitStands
<1>3. Role(p) = "timestamp" <=> t = 5
  <2>1. Role(p) = RoleOrder[t] /\ RoleOrder[5] = "timestamp" /\ 5 \in 1..5
    BY <1>0, RolesInOrder DEF Role
  <2> QED
    BY <1>2, <2>1, OrderIsOne
<1>4. announced' = IF Role(p) = "timestamp" THEN announced \cup publisher[p].payload.targets
                   ELSE announced
  BY DEF move_pointer
<1>5. /\ PointersAgree' /\ Listed' = x.payload.targets /\ DOMAIN pointers' = Roles
      /\ \A i \in 1..5 : i > t => pointers'[RoleOrder[i]] = pointers[RoleOrder[i]]
      /\ t # 5 => pointers'["timestamp"] = pointers["timestamp"]
  BY <1>0, <1>1, <1>4, PointersMove
<1>6. rootPointer = online /\ KeysUpTo(online) /\ x.keys = online
  BY <1>1, <1>2 DEF KeysStand
<1>7. CASE t = 5
  <2>1. PICK y : y = NoOperation
    OBVIOUS
  <2>2. publisher' = [publisher EXCEPT ![p] = y]
    BY <1>3, <1>7, <2>1 DEF move_pointer
  <2>3. publisher'[p] = y /\ DOMAIN publisher' = Publishers
    BY <1>2, <2>2 DEF RepositoryShape
  <2>4. IsOperation(y) /\ y.at = "idle" /\ y.op = "none"
    BY <2>1 DEF NoOperation, IsOperation, Steps
  <2>5. RepositoryShape'
    BY <1>1, <1>2, <1>5, <2>3 DEF RepositoryShape
  <2>6. KeysStand(publisher[p])'
    BY <1>1, <1>6, <2>3, <2>4 DEF KeysStand, KeysUpTo
  <2>7. PayloadStands(publisher[p])' /\ CommitStands(publisher[p])' /\ IsOperation(publisher[p])'
    BY <2>3, <2>4 DEF PayloadStands, CommitStands, IsOperation
  <2>8. PICK f : f = publisher[p].made["timestamp"]
    OBVIOUS
  <2>9. Leads(f)'
    <3>1. announced' = announced \cup publisher[p].payload.targets
      BY <1>3, <1>4, <1>7
    <3>2. publisher[p].at = "pointer" /\ publisher[p].turn = 5
      BY <1>0, <1>1, <1>7
    <3> QED
      BY <1>1, <2>8, <3>1, <3>2, CommitLeads
  <2>10. pointers'["timestamp"] = f
    <3>1. "timestamp" \in Roles /\ DOMAIN pointers = Roles
      BY <1>2, RolesInOrder DEF RepositoryShape
    <3> QED
      BY <1>1, <1>3, <1>7, <2>8, <3>1
  <2>11. FeedStands'
    BY <2>9, <2>10 DEF FeedStands, Leads, InPlace
  <2> QED
    BY <1>5, <2>5, <2>6, <2>7, <2>11 DEF Stands
<1>8. CASE t # 5
  <2>1. PICK z : z = [x EXCEPT !.at = "version"]
    OBVIOUS
  <2>2. /\ z.at = "version" /\ z.op = x.op /\ z.keys = x.keys /\ z.payload = x.payload
        /\ z.turn = x.turn /\ z.made = x.made /\ DOMAIN z = DOMAIN x
    BY <1>2, <2>1 DEF IsOperation
  <2>3. PICK y : y = [z EXCEPT !.turn = t + 1]
    OBVIOUS
  <2>4. publisher' = [publisher EXCEPT ![p] = y]
    <3>1. PICK q : q = [publisher EXCEPT ![p].at = "version"]
      OBVIOUS
    <3>2. publisher' = [q EXCEPT ![p].turn = @ + 1]
      BY <1>3, <1>8, <3>1 DEF move_pointer
    <3>3. q = [publisher EXCEPT ![p] = z] /\ q[p] = z /\ DOMAIN q = Publishers
      BY <1>0, <1>2, <2>1, <3>1 DEF RepositoryShape
    <3>4. publisher' = [q EXCEPT ![p] = y]
      BY <2>2, <2>3, <3>2, <3>3
    <3> QED
      BY <1>2, <3>3, <3>4 DEF RepositoryShape
  <2>5. /\ publisher' = [publisher EXCEPT ![p] = y]
        /\ y.at = "version" /\ y.op = x.op /\ y.keys = x.keys /\ y.payload = x.payload
        /\ y.turn = t + 1 /\ y.made = x.made /\ IsOperation(y)
    BY <1>2, <2>2, <2>3, <2>4 DEF IsOperation, Steps
  <2>6. publisher'[p] = y /\ DOMAIN publisher' = Publishers
    BY <1>2, <2>5 DEF RepositoryShape
  <2>7. RepositoryShape'
    BY <1>1, <1>2, <1>5, <2>6 DEF RepositoryShape
  <2>8. KeysStand(publisher[p])'
    BY <1>1, <1>2, <1>6, <2>5, <2>6 DEF KeysStand, KeysUpTo
  <2>9. PayloadStands(publisher[p])'
    BY <1>1, <1>2, <1>5, <2>5, <2>6 DEF PayloadStands, Closed
  <2>10. y.turn \in 1..5 /\ \A i \in 1..5 : (i >= y.turn <=> i > t) /\ (Wrote(y, i) <=> Wrote(x, i))
    BY <1>1, <1>2, <1>8, <2>5 DEF Wrote
  <2>11. \A i \in 1..5 : i >= y.turn => pointers'[RoleOrder[i]].version < commits'
    BY <1>1, <1>2, <1>5, <2>10 DEF CommitStands
  <2>12. \A i \in 1..5 : Wrote(y, i) => /\ InPlace(RoleOrder[i], y.made[RoleOrder[i]], y.keys)'
                                          /\ y.made[RoleOrder[i]].version <= commits'
    BY <1>1, <1>2, <2>5, <2>10 DEF CommitStands, InPlace
  <2>13. /\ Wrote(y, 4) => y.made["snapshot"].data = Hashes(y)
         /\ Wrote(y, 5) => y.made["timestamp"].data = y.made["snapshot"]
    BY <1>1, <1>2, <2>5, <2>10 DEF CommitStands, Hashes
  <2>14. \A r \in PayloadNames :
            y.made[r].version \in 1..commits' /\ y.made[r].keys = y.keys /\ y.made[r].data = y.payload[r]
    BY <1>1, <1>2, <2>5 DEF CommitStands
  <2>15. CommitStands(y)'
    BY <1>5, <2>5, <2>10, <2>11, <2>12, <2>13, <2>14 DEF CommitStands, Wrote, Hashes, InPlace
  <2>16. CommitStands(publisher[p])' /\ IsOperation(publisher[p])'
    BY <2>5, <2>6, <2>15 DEF CommitStands, Wrote, Hashes, InPlace, IsOperation
  <2>17. ~Rotating' => ~Rotating /\ online' = online
    BY <1>0, <1>1, <2>5, <2>6, RotatingIs
  <2>18. FeedStands'
    <3>1. FilesGrow /\ announced' = announced
      BY <1>1, <1>3, <1>4, <1>8 DEF FilesGrow
    <3> QED
      BY <1>1, <1>2, <1>5, <1>8, <2>17, <3>1, FeedStays
  <2> QED
    BY <1>5, <2>7, <2>8, <2>9, <2>16, <2>18 DEF Stands
<1> QED
  BY <1>7, <1>8

(* An operation that is broken off, unless it was changing the keys.        *)
LEMMA BreakStep ==
    ASSUME OnePublisher, NEW p \in Publishers, Stands(p), ~broken, broken_off(p), ~broken'
    PROVE  Stands(p)'
<1> DEFINE x == publisher[p]
<1>1. PICK y : y = NoOperation
  OBVIOUS
<1>2. /\ publisher' = [publisher EXCEPT ![p] = y] /\ x.op # "rotate" /\ x.at # "idle"
      /\ UNCHANGED <<files, pointers, roots, rootPointer, online, artifacts, commits, announced>>
  BY <1>1 DEF broken_off
<1>3. IsOperation(y) /\ y.at = "idle" /\ y.op = "none"
  BY <1>1 DEF NoOperation, IsOperation, Steps
<1>4. PointersAgree'
  BY <1>2, PointersQuiet DEF Stands
<1>5. KeysStand(y)'
  BY <1>2, <1>3 DEF Stands, KeysStand, KeysUpTo
<1>6. PayloadStands(y)' /\ CommitStands(y)'
  BY <1>3 DEF PayloadStands, CommitStands
<1>7. /\ online' \in 1..MaxKeys /\ commits' \in 0..MaxCommits /\ DOMAIN roots' = DOMAIN roots
      /\ artifacts \subseteq artifacts'
  BY <1>2 DEF Stands, RepositoryShape
<1> QED
  BY <1>2, <1>3, <1>4, <1>5, <1>6, <1>7, StepApart

(* Before anything is published.                                           *)
LEMMA FeedBegins ==
    ASSUME RepositoryInit
    PROVE  RepositoryBase
<1>1. Roles = {"targets", "rollout", "policy", "snapshot", "timestamp"}
  BY RolesInOrder
<1>2. RepositoryShape
  BY RepositoryAssumption DEF RepositoryInit, RepositoryShape
<1>3. Listed = {}
  BY <1>1 DEF RepositoryInit, Listed
<1>4. PointersAgree
  BY <1>1, <1>3 DEF RepositoryInit, PointersAgree, NoFile
<1>5. pointers["timestamp"] = NoFile
  BY <1>1 DEF RepositoryInit
<1>6. ASSUME NEW p \in Publishers
      PROVE  /\ IsOperation(publisher[p]) /\ KeysStand(publisher[p])
             /\ PayloadStands(publisher[p]) /\ CommitStands(publisher[p])
  <2>1. publisher[p] = NoOperation
    BY DEF RepositoryInit
  <2>2. publisher[p].at = "idle" /\ publisher[p].op = "none" /\ IsOperation(publisher[p])
    BY <2>1 DEF NoOperation, IsOperation, Steps
  <2>3. KeysUpTo(1) /\ rootPointer = 0 /\ online = 1 /\ pointers["targets"] = NoFile
    BY <1>1, RepositoryAssumption DEF RepositoryInit, KeysUpTo
  <2>4. KeysStand(publisher[p])
    BY <2>2, <2>3 DEF KeysStand
  <2> QED
    BY <2>2, <2>4 DEF PayloadStands, CommitStands
<1> QED
  BY <1>2, <1>4, <1>5, <1>6 DEF RepositoryBase, FeedStands

(* Every step of the publisher, and of nobody.                             *)
LEMMA FeedStep ==
    ASSUME OnePublisher, RepositoryBase, [RepositoryNext]_repositoryVars
    PROVE  RepositoryBase'
<1>1. CASE UNCHANGED repositoryVars
  <2> SUFFICES ASSUME ~broken PROVE RepositoryBase'
    BY <1>1 DEF repositoryVars, RepositoryBase
  <2> USE <1>1 DEF repositoryVars
  <2>1. RepositoryShape' /\ PointersAgree'
    BY DEF RepositoryBase, RepositoryShape, PointersAgree, Listed
  <2>2. ASSUME NEW p \in Publishers
        PROVE  IsOperation(publisher[p])' /\ KeysStand(publisher[p])'
    BY DEF RepositoryBase, IsOperation, KeysStand, KeysUpTo
  <2>3. ASSUME NEW p \in Publishers
        PROVE  PayloadStands(publisher[p])'
    BY DEF RepositoryBase, PayloadStands, Closed, Listed
  <2>4. ASSUME NEW p \in Publishers
        PROVE  CommitStands(publisher[p])'
    BY DEF RepositoryBase, CommitStands, Wrote, Hashes, InPlace, Listed
  <2>5. FeedStands'
    <3>1. FilesGrow /\ (~Rotating' => ~Rotating /\ online' = online)
      BY DEF FilesGrow, Rotating
    <3> QED
      BY <3>1, FeedStays DEF RepositoryBase
  <2>6. (pointers["timestamp"] # NoFile => Publishers # {})'
    BY DEF RepositoryBase
  <2> QED
    BY <2>1, <2>2, <2>3, <2>4, <2>5, <2>6 DEF RepositoryBase
<1>2. ASSUME NEW p \in Publishers, Publish(p)
      PROVE  RepositoryBase'
  <2> SUFFICES ASSUME ~broken' PROVE Stands(p)'
    BY BaseOfOne
  <2>1. ~broken
    BY <1>2 DEF Publish, initialize, first_root, first_version, publish_release,
                publish_required_policy, set_rollout, revoke_required_policy, rotate_online_roles,
                rotate_root, move_root_pointer, copy_artifacts, commit_payloads, write_version,
                move_pointer, broken_off
  <2>2. Stands(p)
    BY <2>1, BaseOfOne
  <2>3. CASE initialize(p)
    BY <2>2, <2>3, InitializeStep
  <2>4. CASE first_root(p) \/ first_version(p)
    BY <2>1, <2>2, <2>4, FirstRootStep
  <2>5. ASSUME NEW n \in 1..MaxReleases, publish_release(p, n) PROVE Stands(p)'
    BY <2>2, <2>5, PublishStep
  <2>6. ASSUME NEW n \in 1..MaxReleases, publish_required_policy(p, n) PROVE Stands(p)'
    <3>1. /\ Ready(p) /\ n \in Current.targets
          /\ Begin(p, "policy", "commit", [Current EXCEPT !.policy = n])
          /\ UNCHANGED <<files, pointers, roots, rootPointer, online, artifacts, commits, breaks,
                         announced, broken>>
      BY <2>6 DEF publish_required_policy
    <3> QED
      BY <2>2, <3>1, PolicyStep
  <2>7. ASSUME NEW rollout \in [release : 1..MaxReleases, full : BOOLEAN, paused : BOOLEAN],
               set_rollout(p, rollout)
        PROVE  Stands(p)'
    BY <2>2, <2>7, RolloutStep
  <2>8. CASE revoke_required_policy(p)
    <3>1. /\ Ready(p)
          /\ Begin(p, "policy", "commit", [Current EXCEPT !.policy = 0])
          /\ UNCHANGED <<files, pointers, roots, rootPointer, online, artifacts, commits, breaks,
                         announced, broken>>
      BY <2>8 DEF revoke_required_policy
    <3> QED
      BY <2>2, <3>1, PolicyStep
  <2>9. CASE rotate_online_roles(p)
    BY <2>1, <2>2, <2>9, RotateStep
  <2>10. CASE rotate_root(p)
    BY <2>1, <2>2, <2>10, RootStep
  <2>11. CASE move_root_pointer(p)
    BY <2>1, <2>2, <2>11, RootPointerStep
  <2>12. CASE copy_artifacts(p)
    BY <2>1, <2>2, <2>12, CopyStep
  <2>13. CASE commit_payloads(p)
    BY <2>1, <2>2, <2>13, PayloadsStep
  <2>14. CASE write_version(p)
    BY <2>1, <2>2, <2>14, VersionStep
  <2>15. CASE move_pointer(p)
    BY <2>1, <2>2, <2>15, PointerStep
  <2>16. CASE broken_off(p)
    BY <2>1, <2>2, <2>16, BreakStep
  <2> QED
    BY <1>2, <2>3, <2>4, <2>5, <2>6, <2>7, <2>8, <2>9, <2>10, <2>11, <2>12, <2>13, <2>14, <2>15,
       <2>16 DEF Publish
<1> QED
  BY <1>1, <1>2 DEF RepositoryNext

(* The invariant, whatever the publisher does and wherever it is broken off. *)
THEOREM FeedInvariant == OnePublisher => (RepositorySpec => []RepositoryBase)
<1> SUFFICES ASSUME OnePublisher PROVE RepositorySpec => []RepositoryBase
  OBVIOUS
<1>1. RepositoryInit => RepositoryBase
  BY FeedBegins
<1>2. RepositoryBase /\ [RepositoryNext]_repositoryVars => RepositoryBase'
  BY FeedStep
<1> QED
  BY <1>1, <1>2, PTL DEF RepositorySpec

(* The keys a client is led to are those of the last rotation.              *)
LEMMA KeysOfClients ==
    ASSUME online \in 1..MaxKeys, KeysUpTo(online)
    PROVE  ClientKeys = online
<1>0. MaxKeys \in Nat /\ online \in Nat
  BY RepositoryAssumption
<1> DEFINE newer == {v \in 2..MaxKeys : roots[v] # 0}
<1>1. newer = 2..online
  BY <1>0 DEF KeysUpTo
<1>2. CASE online = 1
  <2>1. newer = {}
    BY <1>1, <1>2
  <2> QED
    BY <1>2, <2>1 DEF ClientKeys
<1>3. CASE online # 1
  <2>1. online \in newer /\ \A w \in newer : w <= online
    BY <1>0, <1>1, <1>3
  <2>2. \A v \in newer : (\A w \in newer : w <= v) => v = online
    BY <1>0, <1>1, <2>1
  <2>3. (CHOOSE v \in newer : \A w \in newer : w <= v) = online
    BY <2>1, <2>2
  <2>4. roots[online] = online /\ newer # {}
    BY <1>0, <1>1, <2>1 DEF KeysUpTo
  <2> HIDE DEF newer
  <2>5. ClientKeys = IF newer = {} THEN 1 ELSE roots[CHOOSE v \in newer : \A w \in newer : w <= v]
    BY DEF ClientKeys, newer
  <2> QED
    BY <2>3, <2>4, <2>5
<1> QED
  BY <1>2, <1>3

(* FeedIsWhole: whenever a client asks, also in the middle of a commit or    *)
(* after one that was broken off, it is led to files that are there, fit     *)
(* each other and name what can be fetched (_commit, _write_role).          *)
THEOREM ClientsFindAWholeFeed == OnePublisher => (RepositorySpec => []FeedIsWhole)
<1> SUFFICES ASSUME OnePublisher PROVE RepositorySpec => []FeedIsWhole
  OBVIOUS
<1>1. RepositorySpec => []RepositoryBase
  BY FeedInvariant
<1>2. RepositoryBase => FeedIsWhole
  <2> SUFFICES ASSUME RepositoryBase, pointers["timestamp"] # NoFile, ~Rotating PROVE FeedIsWhole
    BY DEF FeedIsWhole
  <2>1. ~broken /\ \A p \in Publishers : publisher[p].op # "rotate"
    BY DEF Rotating
  <2>2. Leads(pointers["timestamp"])
    BY <2>1 DEF RepositoryBase, FeedStands
  <2>3. PICK t : t = pointers["timestamp"]
    OBVIOUS
  <2>4. PICK n : n = t.data.data
    OBVIOUS
  <2>5. /\ t.keys = online /\ InPlace("snapshot", t.data, online)
        /\ DOMAIN n = PayloadNames /\ \A r \in PayloadNames : InPlace(r, n[r], online)
        /\ {n["rollout"].data.release, n["policy"].data} \ {0} \subseteq n["targets"].data
        /\ n["targets"].data \subseteq artifacts /\ announced \subseteq n["targets"].data
    BY <2>2, <2>3, <2>4 DEF Leads
  <2>6. ClientKeys = online
    <3>1. PICK p \in Publishers : KeysStand(publisher[p])
      BY <2>1 DEF RepositoryBase
    <3>2. publisher[p].at # "rotate"
      BY <2>1, <3>1 DEF KeysStand
    <3>3. KeysUpTo(online)
      BY <3>1, <3>2 DEF KeysStand
    <3>4. online \in 1..MaxKeys
      BY <2>1 DEF RepositoryBase, RepositoryShape
    <3> QED
      BY <3>3, <3>4, KeysOfClients
  <2> QED
    BY <2>3, <2>4, <2>5, <2>6 DEF FeedIsWhole, InPlace
<1> QED
  BY <1>1, <1>2, PTL
=============================================================================
