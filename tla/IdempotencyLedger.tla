-------------------------- MODULE IdempotencyLedger --------------------------
(***************************************************************************)
(* The ledger that runs a changing API operation once for an                *)
(* Idempotency-Key (core/services/idempotency_service.py) and the adapter   *)
(* that uses it (api/idempotency.py).  The first request with a key is the  *)
(* leader and runs the operation; the others with this key wait for it, get *)
(* its stored result, or are refused if they ask for something else.        *)
(*                                                                         *)
(* Entries are numbered as they are made; keys stand for the pair of         *)
(* operation and key; waiting ends at any time (the timeout of 600 s).       *)
(***************************************************************************)
EXTENDS Naturals, FiniteSets, Sequences

CONSTANTS
    Callers,         \* requests, each made once
    Keys,            \* operation and Idempotency-Key
    Payloads,        \* what is asked for
    KeepFor,         \* ttl_seconds
    LedgerSize,      \* max_entries
    LedgerHorizon    \* bound: the last instant of the clock

ASSUME LedgerAssumption ==
    /\ KeepFor \in Nat /\ LedgerHorizon \in Nat
    /\ LedgerSize \in Nat \ {0}

VARIABLES
    monotonic,  \* time.monotonic()
    entries,    \* every entry ever made, with the state "forgotten" once removed
    active,     \* key -> its entry, 0 if there is none
    caller      \* request -> what it is doing or was answered

ledgerVars == <<monotonic, entries, active, caller>>

NewCaller == [at |-> "new"]
Asking(r) == caller[r].at \in {"leader", "wait"}
EntryOf(r) == entries[caller[r].entry]

Present(table) == {e \in DOMAIN table : table[e].state # "forgotten"}
Terminal(table) == {e \in Present(table) : table[e].state # "pending"}

LedgerInit ==
    /\ monotonic = 0
    /\ entries = <<>>
    /\ active = [k \in Keys |-> 0]
    /\ caller = [r \in Callers |-> NewCaller]

time_passes ==
    /\ monotonic < LedgerHorizon
    /\ monotonic' = monotonic + 1
    /\ UNCHANGED <<entries, active, caller>>

----------------------------------------------------------------------------
\* Mutant: pending entries grow old too.
TooOldAtAll == {e \in Present(entries) : monotonic - entries[e].time > KeepFor}

\* What _cleanup_locked removes: finished entries that are too old, and of the
\* others the oldest until no more than max_entries are left.
TooOld == {e \in Terminal(entries) : monotonic - entries[e].time > KeepFor}

Excess == Cardinality(Present(entries)) - Cardinality(TooOld) - LedgerSize

OldestOf(candidates, n) ==
    IF n >= Cardinality(candidates) THEN {candidates}
    ELSE {kept \in SUBSET candidates :
             /\ Cardinality(kept) = n
             /\ \A e \in kept, f \in candidates \ kept : entries[e].time <= entries[f].time}

Removals ==
    LET rest == Terminal(entries) \ TooOld IN
    IF Excess <= 0 THEN {TooOld}
    ELSE {TooOld \cup overflow : overflow \in OldestOf(rest, Excess)}

Without(removed) ==
    [e \in DOMAIN entries |-> IF e \in removed THEN [entries[e] EXCEPT !.state = "forgotten"] ELSE entries[e]]

ActiveWithout(removed) == [k \in Keys |-> IF active[k] \in removed THEN 0 ELSE active[k]]

\* Mutant: the key alone decides.
AnyPayload(entry, payload) == FALSE

Conflicts(entry, payload) == entry.payload # payload

\* claim, after its cleanup: the first request leads, a repeated one waits or is
\* answered, and the same key for something else is refused.
claim_key(r, key, payload) ==
    /\ caller[r] = NewCaller
    /\ \E removed \in Removals :
       LET table == Without(removed)
           current == ActiveWithout(removed)
           e == current[key]
           leads == IF e = 0 THEN TRUE ELSE table[e].state = "failed" IN
       \/ /\ leads
          /\ entries' = Append(table, [key |-> key, payload |-> payload, state |-> "pending", time |-> monotonic])
          /\ active' = [current EXCEPT ![key] = Len(entries')]
          /\ caller' = [caller EXCEPT ![r] = [at |-> "leader", entry |-> Len(entries'), payload |-> payload]]
       \/ /\ ~leads
          /\ entries' = table
          /\ active' = current
          /\ caller' = [caller EXCEPT ![r] =
                IF Conflicts(table[e], payload) THEN [at |-> "conflict"]
                ELSE IF table[e].state = "completed" THEN [at |-> "answered", entry |-> e, payload |-> payload]
                ELSE [at |-> "wait", entry |-> e, payload |-> payload]]
    /\ UNCHANGED monotonic

\* The producer has returned: complete.
complete(r) ==
    /\ caller[r].at = "leader"
    /\ entries' = [entries EXCEPT ![caller[r].entry] =
                      IF @.state = "pending" THEN [@ EXCEPT !.state = "completed", !.time = monotonic] ELSE @]
    /\ caller' = [caller EXCEPT ![r].at = "answered"]
    /\ UNCHANGED <<monotonic, active>>

ReleasedKey(e) == [k \in Keys |-> IF active[k] = e THEN 0 ELSE active[k]]

\* The producer has raised: fail, which gives the key to the next request.
fail(r) ==
    /\ caller[r].at = "leader"
    /\ entries' = [entries EXCEPT ![caller[r].entry] =
                      IF @.state = "pending" THEN [@ EXCEPT !.state = "failed", !.time = monotonic] ELSE @]
    /\ active' = IF EntryOf(r).state = "pending" THEN ReleasedKey(caller[r].entry) ELSE active
    /\ caller' = [caller EXCEPT ![r] = [at |-> "failed"]]
    /\ UNCHANGED monotonic

\* A waiting request looks at its entry, which may be gone by now.
wait(r) ==
    /\ caller[r].at = "wait"
    /\ EntryOf(r).state # "pending"
    /\ caller' = [caller EXCEPT ![r] =
                     CASE EntryOf(r).state = "completed" -> [@ EXCEPT !.at = "answered"]
                       [] EntryOf(r).state = "failed" -> [at |-> "failed"]
                       [] EntryOf(r).state = "forgotten" -> [at |-> "timeout"]]
    /\ UNCHANGED <<monotonic, entries, active>>

wait_times_out(r) ==
    /\ caller[r].at = "wait"
    /\ EntryOf(r).state = "pending"
    /\ caller' = [caller EXCEPT ![r] = [at |-> "timeout"]]
    /\ UNCHANGED <<monotonic, entries, active>>

----------------------------------------------------------------------------
LedgerNext ==
    \/ time_passes
    \/ \E r \in Callers :
          \/ \E key \in Keys : \E payload \in Payloads : claim_key(r, key, payload)
          \/ complete(r)
          \/ fail(r)
          \/ wait(r)
          \/ wait_times_out(r)

----------------------------------------------------------------------------
(* Properties.                                                             *)

Leaders(key) == {r \in Callers : caller[r].at = "leader" /\ EntryOf(r).key = key}

(* The operation of one key never runs twice at the same time, whatever was  *)
(* forgotten, failed or given up meanwhile.                                  *)
OneLeader == \A key \in Keys : Cardinality(Leaders(key)) <= 1

(* An answer is the result of an operation that has run to its end for the   *)
(* very payload of the request; and as long as that result is kept, no       *)
(* request with its key runs the operation again.                            *)
AnswersAreEarned ==
    /\ \A r \in Callers : caller[r].at = "answered" =>
          EntryOf(r).payload = caller[r].payload /\ EntryOf(r).state \in {"completed", "forgotten"}
    /\ \A e, f \in Present(entries) :
          entries[e].key = entries[f].key /\ entries[e].state = "completed" /\ e < f => FALSE

=============================================================================
