------------------------------- MODULE MCHost -------------------------------
(* Services inside one host for TLC, one at a time: they share no state, so *)
(* each is explored on its own from the same initial state.                 *)
EXTENDS ProjectMutation, IdempotencyLedger, FrameRecorder, UpdateClient,
        UpdateHelper, PlayerConsole, TLC

VARIABLE topic   \* the service this behaviour is about

others(mine) ==
    /\ mine # "mutation" => UNCHANGED vars
    /\ mine # "ledger" => UNCHANGED ledgerVars
    /\ mine # "recorder" => UNCHANGED recorderVars
    /\ mine \notin {"content", "leases"} => UNCHANGED updateVars
    /\ mine # "application" => UNCHANGED helperVars
    /\ mine # "console" => UNCHANGED consoleVars

HostInit ==
    /\ topic \in {"mutation", "ledger", "recorder", "content", "leases", "application",
                 "console"}
    /\ IF topic = "mutation" THEN Init ELSE Init /\ disk = [f \in Files |-> Absent]
    /\ LedgerInit
    /\ UpdateInit
    /\ LastFeed.offer = IF topic = "content" THEN 2 ELSE Newest
    /\ HelperInit
    /\ IF topic = "recorder" THEN RecorderInit ELSE RecorderInit /\ strategy = "all_frames"
    /\ ConsoleInit

\* The client is explored in two halves: the feed, which first offers the broken
\* release, and the slots while no lease is unsafe; the runs and leases while one release is offered, one operation at a
\* time is under way, whose check does not fail, and who has ended stays away.
\* Runs start in the order of their names.
nobodyRuns == \A p \in Players : lease'[p] # "unsafe"
oneRelease ==
    /\ UNCHANGED feeds
    /\ downloads \subseteq downloads'
    /\ \A p \in Players : lease[p] = "closed" => lease'[p] = "closed"
    /\ stored'.state # "failed"
    /\ \A t \in Threads : hand'[t].at # "policy"
    /\ \A r, q \in Plays : q < r /\ play'[q].at = "none" => play'[r].at = "none"
    /\ Cardinality({t \in Threads : hand'[t] # AtRest}) <= 1

HostNext ==
    /\ UNCHANGED topic
    /\ \/ topic = "mutation" /\ Next /\ others("mutation")
       \/ topic = "ledger" /\ LedgerNext /\ others("ledger")
       \/ topic = "recorder" /\ RecorderNext /\ others("recorder")
       \/ topic = "content" /\ UpdateNext /\ nobodyRuns /\ others("content")
       \/ topic = "leases" /\ UpdateNext /\ oneRelease /\ others("leases")
       \/ topic = "application" /\ HelperNext /\ others("application")
       \/ topic = "console" /\ ConsoleNext /\ others("console")

HostVars ==
    <<topic, vars, ledgerVars, recorderVars, updateVars, helperVars, consoleVars>>

HostSpec == HostInit /\ [][HostNext]_HostVars

\* Nothing tells one process of a product from another.
Alike == Permutations(Players)
=============================================================================
