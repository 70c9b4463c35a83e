---------------------------- MODULE UpdateHelper ----------------------------
(***************************************************************************)
(* The exchange of an installed application on Windows                      *)
(* (core/vnext/windows_update_helper_v6.py, and the application branch of   *)
(* UpdateClient.apply in core/vnext/update_client_v6.py).  The client       *)
(* stages the new version and spawns a detached helper; the helper waits    *)
(* for the application to exit, renames directories, starts the new         *)
(* version and waits for its probe, and undoes the exchange if none comes.  *)
(* A directory whose program is running cannot be renamed.                  *)
(*                                                                         *)
(* Left out: the contents of packages and handoffs, the second client       *)
(* domain, and the release number an installed host may report.             *)
(***************************************************************************)
EXTENDS Naturals, FiniteSets

CONSTANTS
    Helpers,        \* detached helpers, one per call of apply
    Starts,         \* whether the new version comes up
    MaxOutages      \* bound: times the machine loses power

ASSUME HelperAssumption == Starts \in BOOLEAN /\ MaxOutages \in Nat

VARIABLES
    folder,     \* version in each directory, 0 if it is absent
    program,    \* the running application: [version, status]
    helper,     \* step of each helper, and whether it moved the old version
    notes,      \* [receipt, probe]: the files that report
    client,     \* state of the update client
    outages,
    crossed     \* history: a helper was spawned while another was at work

helperVars == <<folder, program, helper, notes, client, outages, crossed>>

Old == 1
New == 2
Nobody == "nobody"
NoProgram == [version |-> 0, status |-> "none", by |-> Nobody]
Opened(version) == [version |-> version, status |-> "running", by |-> Nobody]
NoNotes == [receipt |-> "none", probe |-> Nobody]
InUse == program.status \in {"running", "starting", "dying"}

HelperInit ==
    /\ folder = [install |-> Old, backup |-> 0, staging |-> 0, failed |-> 0]
    /\ program = Opened(Old)
    /\ helper = [h \in Helpers |-> [at |-> "none", swapped |-> FALSE]]
    /\ notes = NoNotes
    /\ client = "staged"
    /\ outages = 0
    /\ crossed = FALSE

\* UpdateClient.apply: stage removes the notes of an earlier attempt and fills
\* the staging directory, apply spawns a helper; the state waits for both.
apply(h) ==
    /\ program.status = "running"
    /\ client \in {"staged", "awaiting", "rolled_back"}
    /\ program.version = Old
    /\ helper[h].at = "none"
    /\ helper' = [helper EXCEPT ![h].at = "waiting"]
    /\ folder' = [folder EXCEPT !.staging = New]
    /\ notes' = NoNotes
    /\ client' = "awaiting"
    /\ crossed' = (crossed \/ \E g \in Helpers : helper[g].at \notin {"none", "gone"})
    /\ UNCHANGED <<program, outages>>

\* status of a client: _reconcile_platform_install takes the receipt over.
reconcile ==
    /\ program.status = "running"
    /\ client = "awaiting"
    /\ notes.receipt # "none"
    /\ client' = IF notes.receipt = "healthy" THEN "complete" ELSE "rolled_back"
    /\ UNCHANGED <<folder, program, helper, notes, outages, crossed>>

\* The helpers that wait for the process to exit go on, even if the program is
\* opened again at once.
program_exits ==
    /\ program.status \in {"running", "dying"}
    /\ program' = NoProgram
    /\ helper' = [h \in Helpers |-> [helper[h] EXCEPT !.at = IF @ = "waiting" THEN "verify" ELSE @]]
    /\ UNCHANGED <<folder, notes, client, outages, crossed>>

\* A user opens what is installed.
open_program ==
    /\ program = NoProgram
    /\ folder.install # 0
    /\ program' = Opened(folder.install)
    /\ UNCHANGED <<folder, helper, notes, client, outages, crossed>>

\* write_startup_health_receipt of a program that a helper started.
startup_probe ==
    /\ program.status = "starting"
    /\ Starts
    /\ program' = [program EXCEPT !.status = "running"]
    /\ notes' = [notes EXCEPT !.probe = program.by]
    /\ UNCHANGED <<folder, helper, client, outages, crossed>>

startup_fails ==
    /\ program.status = "starting"
    /\ program' = NoProgram
    /\ UNCHANGED <<folder, helper, notes, client, outages, crossed>>

(* The helper.                                                             *)

goes(h, at) == helper' = [helper EXCEPT ![h].at = at]

\* The wait is over and the process still runs.
parent_stays(h) ==
    /\ helper[h].at = "waiting"
    /\ goes(h, "gone")
    /\ notes' = [notes EXCEPT !.receipt = "rolled_back"]
    /\ UNCHANGED <<folder, program, client, outages, crossed>>

\* The marker of the staged version; without it the helper ends in an error.
verify(h) ==
    /\ helper[h].at = "verify"
    /\ goes(h, IF folder.staging = New THEN "prepare" ELSE "gone")
    /\ UNCHANGED <<folder, program, notes, client, outages, crossed>>

\* The backup of an earlier exchange goes before this one begins.
clear_old(h) ==
    /\ helper[h].at = "prepare"
    /\ notes' = NoNotes
    /\ folder' = [folder EXCEPT !.failed = 0, !.backup = 0]
    /\ goes(h, "swap_out")
    /\ UNCHANGED <<program, client, outages, crossed>>

swap_out(h) ==
    /\ helper[h].at = "swap_out"
    /\ IF folder.install # 0 /\ InUse
       THEN goes(h, "undo") /\ UNCHANGED folder
       ELSE /\ helper' = [helper EXCEPT ![h] = [at |-> "swap_in", swapped |-> folder.install # 0]]
            /\ folder' = [folder EXCEPT !.backup = IF folder.install # 0 THEN folder.install ELSE @,
                                        !.install = 0]
    /\ UNCHANGED <<program, notes, client, outages, crossed>>

swap_in(h) ==
    /\ helper[h].at = "swap_in"
    /\ IF folder.staging = 0 \/ folder.install # 0
       THEN goes(h, "undo") /\ UNCHANGED folder
       ELSE /\ goes(h, "launch")
            /\ folder' = [folder EXCEPT !.install = folder.staging, !.staging = 0]
    /\ UNCHANGED <<program, notes, client, outages, crossed>>

\* Popen, or its OSError.
launch(h) ==
    /\ helper[h].at = "launch"
    /\ \/ folder.install # 0
          /\ program' = [version |-> folder.install, status |-> "starting", by |-> h]
          /\ goes(h, "health")
       \/ goes(h, "undo") /\ UNCHANGED program
    /\ UNCHANGED <<folder, notes, client, outages, crossed>>

healthy(h) ==
    /\ helper[h].at = "health"
    /\ notes.probe = h
    /\ notes' = [notes EXCEPT !.receipt = "healthy"]
    /\ goes(h, "gone")
    /\ UNCHANGED <<folder, program, client, outages, crossed>>

\* The process has ended, or the time is up and it is told to end.
unhealthy(h) ==
    /\ helper[h].at = "health"
    /\ notes.probe # h
    /\ program' = IF program = NoProgram THEN program ELSE [program EXCEPT !.status = "dying"]
    /\ goes(h, "undo")
    /\ UNCHANGED <<folder, notes, client, outages, crossed>>

\* Mutant: what is installed is removed.
Removed == [folder EXCEPT !.install = 0]

PutAside == [folder EXCEPT !.failed = folder.install, !.install = 0]

\* The handler's first rename; if it is refused there is no receipt.
undo(h) ==
    /\ helper[h].at = "undo"
    /\ IF folder.install # 0 /\ InUse
       THEN goes(h, "gone") /\ UNCHANGED folder
       ELSE /\ folder' = IF folder.install # 0 THEN PutAside ELSE folder
            /\ goes(h, "restore")
    /\ UNCHANGED <<program, notes, client, outages, crossed>>

\* Mutant: the receipt says healthy as long as something is installed.
HealthyIfInstalled(h) == "healthy"

Outcome(h) == "rolled_back"

restore(h) ==
    /\ helper[h].at = "restore"
    /\ IF helper[h].swapped /\ folder.backup # 0
       THEN /\ folder' = [folder EXCEPT !.install = folder.backup, !.backup = 0]
            /\ program' = Opened(folder.backup)
       ELSE UNCHANGED <<folder, program>>
    /\ notes' = [notes EXCEPT !.receipt = Outcome(h)]
    /\ goes(h, "gone")
    /\ UNCHANGED <<client, outages, crossed>>

outage ==
    /\ outages < MaxOutages
    /\ outages' = outages + 1
    /\ program' = NoProgram
    /\ helper' = [h \in Helpers |-> [helper[h] EXCEPT !.at = IF @ = "none" THEN @ ELSE "gone"]]
    /\ UNCHANGED <<folder, notes, client, crossed>>

HelperNext ==
    \/ \E h \in Helpers :
        \/ apply(h) \/ parent_stays(h) \/ verify(h) \/ clear_old(h)
        \/ swap_out(h) \/ swap_in(h) \/ launch(h) \/ healthy(h) \/ unhealthy(h)
        \/ undo(h) \/ restore(h)
    \/ reconcile \/ program_exits \/ open_program \/ startup_probe \/ startup_fails
    \/ outage

HelperSpec == HelperInit /\ [][HelperNext]_helperVars

----------------------------------------------------------------------------
(* Properties.                                                             *)

\* Wherever a helper or the machine stops, the version that worked is still
\* on the disk: installed, as the backup, or put aside.
PreviousIsKept == ~crossed => Old \in {folder.install, folder.backup, folder.failed}

\* A client that calls the update complete, and a receipt that calls it healthy,
\* mean that the new version is the installed one.
HealthyIsTrue ==
    ~crossed /\ (client = "complete" \/ notes.receipt = "healthy") => folder.install = New

\* A receipt that says "rolled_back" means that the old version is installed.
RolledBackIsTrue ==
    notes.receipt = "rolled_back" => folder.install = Old
=============================================================================
