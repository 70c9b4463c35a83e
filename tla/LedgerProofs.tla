---------------------------- MODULE LedgerProofs ----------------------------
(***************************************************************************)
(* Theorems about IdempotencyLedger for every set of requests, keys and    *)
(* payloads, every time to live and every size of the ledger.              *)
(***************************************************************************)
EXTENDS IdempotencyLedger, FiniteSetTheorems, SequenceTheorems, TLAPS

LedgerSpec == LedgerInit /\ [][LedgerNext]_ledgerVars

Entry ==
    [key : Keys, payload : Payloads, state : {"pending", "completed", "failed", "forgotten"},
     time : Nat]

\* A request that knows an entry, and one that has none.
Bound == [at : {"leader", "wait", "answered"}, entry : Nat, payload : Payloads]
Free == [at : {"new", "conflict", "failed", "timeout"}]

TypesOf(table, current, calls) ==
    /\ table \in Seq(Entry)
    /\ current \in [Keys -> Nat]
    /\ calls \in [Callers -> Bound \cup Free]

LedgerTypes == monotonic \in Nat /\ TypesOf(entries, active, caller)

\* An entry that is pending or completed is the one its key points to, and a
\* key points to no other entry.
Live == {"pending", "completed"}

KeysPointToLive(table, current) ==
    /\ \A k \in Keys : current[k] # 0 =>
          /\ current[k] \in DOMAIN table
          /\ table[current[k]].key = k
          /\ table[current[k]].state \in Live
    /\ \A e \in DOMAIN table : table[e].state \in Live => current[table[e].key] = e

\* What a request knows about its entry.
BoundToEntries(table, calls) ==
    \A r \in Callers : calls[r].at \in {"leader", "wait", "answered"} =>
       /\ calls[r].entry \in DOMAIN table
       /\ table[calls[r].entry].payload = calls[r].payload
       /\ calls[r].at = "leader" => table[calls[r].entry].state = "pending"
       /\ calls[r].at = "answered" => table[calls[r].entry].state \in {"completed", "forgotten"}

\* Only the last entry of a key can be pending or completed.
OnlyTheLastIsLive(table) ==
    \A e, f \in DOMAIN table : table[e].key = table[f].key /\ e < f => table[e].state \notin Live

OwnEntry(calls) ==
    \A r, q \in Callers :
       calls[r].at = "leader" /\ calls[q].at = "leader" /\ calls[r].entry = calls[q].entry => r = q

Consistent(table, current, calls) ==
    /\ TypesOf(table, current, calls)
    /\ KeysPointToLive(table, current)
    /\ OnlyTheLastIsLive(table)
    /\ BoundToEntries(table, calls)
    /\ OwnEntry(calls)

LedgerInv == monotonic \in Nat /\ Consistent(entries, active, caller)

----------------------------------------------------------------------------
(* The rows of a table are entries.                                        *)
LEMMA RowsAreEntries ==
    ASSUME NEW table \in Seq(Entry), NEW e \in DOMAIN table
    PROVE  /\ table[e] \in Entry
           /\ table[e].key \in Keys
           /\ table[e].payload \in Payloads
           /\ table[e].state \in {"pending", "completed", "failed", "forgotten"}
           /\ e \in Nat \ {0}
<1>1. table[e] \in Entry
  OBVIOUS
<1>2. e \in Nat \ {0}
  OBVIOUS
<1> QED BY <1>1, <1>2 DEF Entry

(* _cleanup_locked removes finished entries only: a pending one stays,     *)
(* however old it is and however full the ledger is.                       *)
LEMMA RemovalsAreTerminal ==
    ASSUME NEW removed \in Removals
    PROVE  removed \subseteq Terminal(entries)
<1> DEFINE rest == Terminal(entries) \ TooOld
<1>1. TooOld \subseteq Terminal(entries)
  BY DEF TooOld
<1>2. ASSUME NEW overflow \in OldestOf(rest, Excess)
      PROVE  overflow \subseteq rest
  BY <1>2 DEF OldestOf
<1>3. \/ removed = TooOld
      \/ \E overflow \in OldestOf(rest, Excess) : removed = TooOld \cup overflow
  BY DEF Removals
<1> QED BY <1>1, <1>2, <1>3

(* Forgetting entries changes nothing but their state.                     *)
LEMMA WithoutIsATable ==
    ASSUME LedgerTypes, NEW removed \in Removals
    PROVE  /\ Without(removed) \in Seq(Entry)
           /\ Len(Without(removed)) = Len(entries)
           /\ DOMAIN Without(removed) = DOMAIN entries
           /\ \A e \in DOMAIN entries :
                 /\ Without(removed)[e].key = entries[e].key
                 /\ Without(removed)[e].payload = entries[e].payload
                 /\ Without(removed)[e].time = entries[e].time
                 /\ Without(removed)[e].state =
                       IF e \in removed THEN "forgotten" ELSE entries[e].state
<1> DEFINE T == Without(removed)
           n == Len(entries)
<1>1. n \in Nat /\ DOMAIN entries = 1..n /\ \A e \in 1..n : entries[e] \in Entry
  BY DEF LedgerTypes, TypesOf
<1>2. T = [e \in 1..n |-> IF e \in removed THEN [entries[e] EXCEPT !.state = "forgotten"] ELSE entries[e]]
  BY <1>1 DEF Without
<1>3. \A e \in 1..n : T[e] \in Entry
  BY <1>1, <1>2 DEF Entry
<1>4. T \in [1..n -> Entry]
  BY <1>2, <1>3
<1>5. T \in Seq(Entry)
  BY <1>1, <1>4, SeqDef
<1>6. Len(T) = n
  BY <1>1, <1>2, <1>5
<1> HIDE DEF T
<1>7. \A e \in 1..n : /\ T[e].key = entries[e].key
                      /\ T[e].payload = entries[e].payload
                      /\ T[e].time = entries[e].time
                      /\ T[e].state = IF e \in removed THEN "forgotten" ELSE entries[e].state
  BY <1>1, <1>2 DEF Entry
<1> QED BY <1>1, <1>2, <1>5, <1>6, <1>7 DEF T

(* The ledger is as consistent after a cleanup as before it.               *)
LEMMA CleanupKeepsConsistency ==
    ASSUME LedgerInv, NEW removed \in Removals
    PROVE  Consistent(Without(removed), ActiveWithout(removed), caller)
<1> DEFINE T == Without(removed)
           A == ActiveWithout(removed)
<1>1. /\ T \in Seq(Entry)
      /\ DOMAIN T = DOMAIN entries
      /\ \A e \in DOMAIN entries :
            /\ T[e].key = entries[e].key
            /\ T[e].payload = entries[e].payload
            /\ T[e].state = IF e \in removed THEN "forgotten" ELSE entries[e].state
  BY WithoutIsATable DEF LedgerInv, LedgerTypes, Consistent
<1>2. \A e \in removed : e \in DOMAIN entries /\ entries[e].state # "pending"
  BY RemovalsAreTerminal DEF Terminal, Present
<1>3. /\ A \in [Keys -> Nat]
      /\ \A k \in Keys : A[k] = IF active[k] \in removed THEN 0 ELSE active[k]
  BY DEF ActiveWithout, LedgerInv, Consistent, TypesOf
<1>4. 0 \notin DOMAIN entries
  BY DEF LedgerInv, Consistent, TypesOf
<1> HIDE DEF T, A
<1>5. TypesOf(T, A, caller)
  BY <1>1, <1>3 DEF LedgerInv, Consistent, TypesOf
<1>6. \A e \in DOMAIN entries : entries[e].key \in Keys
  BY RowsAreEntries DEF LedgerInv, Consistent, TypesOf
<1>7. KeysPointToLive(T, A)
  <2> USE DEF LedgerInv, Consistent, KeysPointToLive, Live
  <2>1. ASSUME NEW k \in Keys, A[k] # 0
        PROVE  A[k] \in DOMAIN T /\ T[A[k]].key = k /\ T[A[k]].state \in Live
    BY <1>1, <1>3, <2>1
  <2>2. ASSUME NEW e \in DOMAIN T, T[e].state \in Live
        PROVE  A[T[e].key] = e
    BY <1>1, <1>3, <1>6, <2>2
  <2> QED BY <2>1, <2>2
<1>8. BoundToEntries(T, caller)
  BY <1>1, <1>2 DEF LedgerInv, Consistent, BoundToEntries
<1>9. OnlyTheLastIsLive(T)
  BY <1>1 DEF LedgerInv, Consistent, OnlyTheLastIsLive, Live
<1> QED BY <1>5, <1>7, <1>8, <1>9 DEF Consistent, LedgerInv, T, A

(* claim: the ledger is consistent after a request has led, waited, been   *)
(* answered or been refused.                                               *)
LEMMA ClaimStep ==
    ASSUME LedgerInv, NEW r \in Callers, NEW key \in Keys, NEW payload \in Payloads,
           claim_key(r, key, payload)
    PROVE  LedgerInv'
<1> PICK removed \in Removals :
       LET table == Without(removed)
           current == ActiveWithout(removed)
           e == current[key]
           leads == IF e = 0 THEN TRUE ELSE table[e].state = "failed" IN
       \/ /\ leads
          /\ entries' = Append(table, [key |-> key, payload |-> payload, state |-> "pending", time |-> monotonic])
          /\ active' = [current EXCEPT ![key] = Len(entries')]
          /\ caller' = [caller EXCEPT ![r] = [at |-> "leader", entry |-> Len(entries'), payload |-> payload]]
       \/ /\ ~leads
          /\ entries' = table
          /\ active' = current
          /\ caller' = [caller EXCEPT ![r] =
                IF Conflicts(table[e], payload) THEN [at |-> "conflict"]
                ELSE IF table[e].state = "completed" THEN [at |-> "answered", entry |-> e, payload |-> payload]
                ELSE [at |-> "wait", entry |-> e, payload |-> payload]]
  BY DEF claim_key
<1> DEFINE T == Without(removed)
           A == ActiveWithout(removed)
           e == A[key]
           leads == IF e = 0 THEN TRUE ELSE T[e].state = "failed"
           new == [key |-> key, payload |-> payload, state |-> "pending", time |-> monotonic]
<1>0. monotonic \in Nat /\ monotonic' = monotonic
  BY DEF LedgerInv, claim_key
<1>1. Consistent(T, A, caller)
  BY CleanupKeepsConsistency
<1>2. caller[r].at = "new"
  BY DEF claim_key, NewCaller
<1>3. new \in Entry
  BY <1>0 DEF Entry
<1>4. CASE /\ leads
           /\ entries' = Append(T, new)
           /\ active' = [A EXCEPT ![key] = Len(entries')]
           /\ caller' = [caller EXCEPT ![r] = [at |-> "leader", entry |-> Len(entries'), payload |-> payload]]
  <2> HIDE DEF T, A, new
  <2> DEFINE n == Len(T)
  <2>1. /\ T \in Seq(Entry) /\ n \in Nat /\ DOMAIN T = 1..n
        /\ A \in [Keys -> Nat]
        /\ caller \in [Callers -> Bound \cup Free]
    BY <1>1 DEF Consistent, TypesOf
  <2>2. /\ entries' \in Seq(Entry) /\ Len(entries') = n + 1 /\ DOMAIN entries' = 1..(n + 1)
        /\ entries'[n + 1] = new
        /\ \A i \in 1..n : entries'[i] = T[i]
    BY <1>3, <1>4, <2>1
  <2>3. /\ active' \in [Keys -> Nat]
        /\ active'[key] = n + 1
        /\ \A k \in Keys : k # key => active'[k] = A[k]
    BY <1>4, <2>1, <2>2
  <2>4. /\ caller' \in [Callers -> Bound \cup Free]
        /\ caller'[r] = [at |-> "leader", entry |-> n + 1, payload |-> payload]
        /\ \A q \in Callers : q # r => caller'[q] = caller[q]
    BY <1>4, <2>1, <2>2 DEF Bound
  <2>5. new.key = key /\ new.payload = payload /\ new.state = "pending"
    BY DEF new
  <2>6. \A i \in 1..n : T[i].key = key => T[i].state \notin Live
    BY <1>1, <1>4, <2>1 DEF Consistent, KeysPointToLive, Live
  <2> HIDE DEF n
  <2>7. TypesOf(entries', active', caller')
    BY <2>2, <2>3, <2>4 DEF TypesOf
  <2>8. KeysPointToLive(entries', active')
    <3>1. ASSUME NEW k \in Keys, active'[k] # 0
          PROVE  active'[k] \in DOMAIN entries' /\ entries'[active'[k]].key = k
                 /\ entries'[active'[k]].state \in Live
      <4>1. CASE k = key
        BY <2>1, <2>2, <2>3, <2>5, <4>1 DEF Live
      <4>2. CASE k # key
        <5>1. A[k] # 0 /\ A[k] \in 1..n /\ T[A[k]].key = k /\ T[A[k]].state \in Live
          BY <1>1, <2>1, <2>3, <3>1, <4>2 DEF Consistent, KeysPointToLive
        <5> QED BY <2>1, <2>2, <2>3, <4>2, <5>1
      <4> QED BY <4>1, <4>2
    <3>2. ASSUME NEW i \in DOMAIN entries', entries'[i].state \in Live
          PROVE  active'[entries'[i].key] = i
      <4>1. CASE i = n + 1
        BY <2>2, <2>3, <2>5, <4>1
      <4>2. CASE i # n + 1
        <5>1. i \in 1..n /\ entries'[i] = T[i]
          BY <2>1, <2>2, <4>2
        <5>2. T[i].key # key /\ T[i].key \in Keys
          BY <2>1, <2>6, <3>2, <5>1, RowsAreEntries
        <5> QED BY <1>1, <2>1, <2>3, <3>2, <5>1, <5>2 DEF Consistent, KeysPointToLive
      <4> QED BY <4>1, <4>2
    <3> QED BY <3>1, <3>2 DEF KeysPointToLive
  <2>9. BoundToEntries(entries', caller')
    <3>1. ASSUME NEW q \in Callers, caller'[q].at \in {"leader", "wait", "answered"}, q # r
          PROVE  caller[q].entry \in 1..n
      BY <1>1, <2>1, <2>4, <3>1 DEF Consistent, BoundToEntries
    <3> QED BY <1>1, <2>1, <2>2, <2>4, <2>5, <3>1 DEF Consistent, BoundToEntries
  <2>10. OwnEntry(caller')
    <3>1. \A q \in Callers : q # r /\ caller'[q].at = "leader" =>
             caller'[q].entry = caller[q].entry /\ caller[q].entry \in 1..n
      BY <1>1, <2>1, <2>4 DEF Consistent, BoundToEntries
    <3>2. \A q \in Callers : q # r /\ caller'[q].at = "leader" => caller'[q].entry # caller'[r].entry
      BY <2>1, <2>4, <3>1
    <3> QED BY <1>1, <2>4, <3>2 DEF Consistent, OwnEntry
  <2>11. OnlyTheLastIsLive(entries')
    <3> SUFFICES ASSUME NEW i \in DOMAIN entries', NEW j \in DOMAIN entries',
                        entries'[i].key = entries'[j].key, i < j
                 PROVE  entries'[i].state \notin Live
      BY DEF OnlyTheLastIsLive
    <3>1. i \in 1..n /\ entries'[i] = T[i]
      BY <2>1, <2>2
    <3>2. CASE j = n + 1
      BY <2>2, <2>5, <2>6, <3>1, <3>2
    <3>3. CASE j # n + 1
      <4>1. j \in 1..n /\ entries'[j] = T[j]
        BY <2>1, <2>2, <3>3
      <4> QED BY <1>1, <2>1, <3>1, <4>1 DEF Consistent, OnlyTheLastIsLive
    <3> QED BY <3>2, <3>3
  <2> QED BY <1>0, <2>7, <2>8, <2>9, <2>10, <2>11 DEF LedgerInv, Consistent
<1>5. CASE /\ ~leads
           /\ entries' = T
           /\ active' = A
           /\ caller' = [caller EXCEPT ![r] =
                IF Conflicts(T[e], payload) THEN [at |-> "conflict"]
                ELSE IF T[e].state = "completed" THEN [at |-> "answered", entry |-> e, payload |-> payload]
                ELSE [at |-> "wait", entry |-> e, payload |-> payload]]
  <2> HIDE DEF T, A
  <2>1. /\ T \in Seq(Entry) /\ A \in [Keys -> Nat] /\ caller \in [Callers -> Bound \cup Free]
        /\ e \in DOMAIN T /\ e \in Nat
    BY <1>1, <1>5 DEF Consistent, TypesOf, KeysPointToLive
  <2>2. /\ caller'[r] \in Bound \cup Free
        /\ caller'[r].at \in {"conflict", "answered", "wait"}
        /\ caller'[r].at # "conflict" => /\ caller'[r].entry = e
                                         /\ caller'[r].payload = payload
                                         /\ T[e].payload = payload
        /\ caller'[r].at = "answered" => T[e].state = "completed"
    BY <1>5, <2>1 DEF Conflicts, Bound, Free
  <2>3. \A q \in Callers : q # r => caller'[q] = caller[q]
    BY <1>5, <2>1
  <2>4. caller' \in [Callers -> Bound \cup Free]
    BY <1>5, <2>1, <2>2, <2>3
  <2>5. TypesOf(entries', active', caller')
    BY <1>5, <2>1, <2>4 DEF TypesOf
  <2>6. BoundToEntries(entries', caller')
    BY <1>1, <1>5, <2>1, <2>2, <2>3 DEF Consistent, BoundToEntries
  <2>7. OwnEntry(caller')
    BY <1>1, <2>2, <2>3 DEF Consistent, OwnEntry
  <2> QED BY <1>0, <1>1, <1>5, <2>5, <2>6, <2>7 DEF LedgerInv, Consistent
<1> QED BY <1>4, <1>5

(* The leader of an entry is the only one that may finish it: complete     *)
(* and fail keep the ledger consistent.                                    *)
LEMMA FinishStep ==
    ASSUME LedgerInv, NEW r \in Callers, complete(r) \/ fail(r)
    PROVE  LedgerInv'
<1> DEFINE e == caller[r].entry
<1>0. monotonic \in Nat /\ monotonic' = monotonic /\ Consistent(entries, active, caller)
  BY DEF LedgerInv, complete, fail
<1>1. /\ entries \in Seq(Entry) /\ active \in [Keys -> Nat] /\ caller \in [Callers -> Bound \cup Free]
      /\ caller[r].at = "leader"
  BY <1>0 DEF Consistent, TypesOf, complete, fail
<1>2. e \in DOMAIN entries /\ entries[e].state = "pending" /\ entries[e] \in Entry
      /\ entries[e].key \in Keys /\ active[entries[e].key] = e /\ e # 0
      /\ entries[e].payload = caller[r].payload
  BY <1>0, <1>1, RowsAreEntries DEF Consistent, BoundToEntries, KeysPointToLive, Live
<1>3. \A k \in Keys : active[k] = e => k = entries[e].key
  BY <1>0, <1>1, <1>2 DEF Consistent, KeysPointToLive
<1>4. \A q \in Callers : q # r /\ caller[q].at = "leader" => caller[q].entry # e
  BY <1>0, <1>1 DEF Consistent, OwnEntry
<1>5. \A q \in Callers : caller[q].at = "answered" => caller[q].entry # e
  BY <1>0, <1>2 DEF Consistent, BoundToEntries
<1>6. ASSUME NEW outcome \in {"completed", "failed"},
             entries' = [entries EXCEPT ![e] = [@ EXCEPT !.state = outcome, !.time = monotonic]]
      PROVE  /\ entries' \in Seq(Entry)
             /\ DOMAIN entries' = DOMAIN entries
             /\ entries'[e].key = entries[e].key
             /\ entries'[e].payload = entries[e].payload
             /\ entries'[e].state = outcome
             /\ \A i \in DOMAIN entries : i # e => entries'[i] = entries[i]
  <2> DEFINE row == [entries[e] EXCEPT !.state = outcome, !.time = monotonic]
  <2>1. /\ row \in Entry /\ row.key = entries[e].key /\ row.payload = entries[e].payload
        /\ row.state = outcome
    BY <1>0, <1>2 DEF Entry
  <2>2. entries' = [entries EXCEPT ![e] = row]
    BY <1>6
  <2> HIDE DEF row
  <2> QED BY <1>1, <1>2, <2>1, <2>2
<1>7. CASE complete(r)
  <2>1. /\ entries' = [entries EXCEPT ![e] = [@ EXCEPT !.state = "completed", !.time = monotonic]]
        /\ active' = active
        /\ caller' = [caller EXCEPT ![r].at = "answered"]
    BY <1>2, <1>7 DEF complete
  <2>2. /\ entries' \in Seq(Entry)
        /\ DOMAIN entries' = DOMAIN entries
        /\ entries'[e].key = entries[e].key
        /\ entries'[e].payload = entries[e].payload
        /\ entries'[e].state = "completed"
        /\ \A i \in DOMAIN entries : i # e => entries'[i] = entries[i]
    BY <1>6, <2>1
  <2>3. caller[r] \in Bound
    BY <1>1 DEF Bound, Free
  <2>4. /\ caller' \in [Callers -> Bound \cup Free]
        /\ caller'[r].at = "answered" /\ caller'[r].entry = e /\ caller'[r].payload = caller[r].payload
        /\ \A q \in Callers : q # r => caller'[q] = caller[q]
    BY <1>1, <2>1, <2>3 DEF Bound
  <2>5. TypesOf(entries', active', caller')
    BY <1>1, <2>1, <2>2, <2>4 DEF TypesOf
  <2>6. KeysPointToLive(entries', active')
    BY <1>0, <1>2, <1>3, <2>1, <2>2 DEF Consistent, KeysPointToLive, Live
  <2>7. BoundToEntries(entries', caller')
    <3> SUFFICES ASSUME NEW q \in Callers, caller'[q].at \in {"leader", "wait", "answered"}
                 PROVE  /\ caller'[q].entry \in DOMAIN entries'
                        /\ entries'[caller'[q].entry].payload = caller'[q].payload
                        /\ caller'[q].at = "leader" => entries'[caller'[q].entry].state = "pending"
                        /\ caller'[q].at = "answered" =>
                              entries'[caller'[q].entry].state \in {"completed", "forgotten"}
      BY DEF BoundToEntries
    <3>1. CASE q = r
      BY <1>2, <2>2, <2>4, <3>1
    <3>2. CASE q # r
      BY <1>0, <1>4, <1>5, <2>2, <2>4, <3>2 DEF Consistent, BoundToEntries
    <3> QED BY <3>1, <3>2
  <2>8. OwnEntry(caller')
    BY <1>0, <2>4 DEF Consistent, OwnEntry
  <2>9. OnlyTheLastIsLive(entries')
    BY <1>0, <1>2, <2>2 DEF Consistent, OnlyTheLastIsLive, Live
  <2> QED BY <1>0, <2>5, <2>6, <2>7, <2>8, <2>9 DEF LedgerInv, Consistent
<1>8. CASE fail(r)
  <2>1. /\ entries' = [entries EXCEPT ![e] = [@ EXCEPT !.state = "failed", !.time = monotonic]]
        /\ active' = [k \in Keys |-> IF active[k] = e THEN 0 ELSE active[k]]
        /\ caller' = [caller EXCEPT ![r] = [at |-> "failed"]]
    BY <1>2, <1>8 DEF fail, EntryOf, ReleasedKey
  <2>2. /\ entries' \in Seq(Entry)
        /\ DOMAIN entries' = DOMAIN entries
        /\ entries'[e].key = entries[e].key
        /\ entries'[e].payload = entries[e].payload
        /\ entries'[e].state = "failed"
        /\ \A i \in DOMAIN entries : i # e => entries'[i] = entries[i]
    BY <1>6, <2>1
  <2>3. active' \in [Keys -> Nat] /\ \A k \in Keys : active'[k] = IF active[k] = e THEN 0 ELSE active[k]
    BY <1>1, <2>1
  <2>4. /\ caller' \in [Callers -> Bound \cup Free]
        /\ caller'[r].at = "failed"
        /\ \A q \in Callers : q # r => caller'[q] = caller[q]
    BY <1>1, <2>1 DEF Free
  <2>5. TypesOf(entries', active', caller')
    BY <2>2, <2>3, <2>4 DEF TypesOf
  <2>6. KeysPointToLive(entries', active')
    <3>1. \A i \in DOMAIN entries : entries[i].key \in Keys
      BY <1>1, RowsAreEntries
    <3> QED BY <1>0, <1>2, <1>3, <2>2, <2>3, <3>1 DEF Consistent, KeysPointToLive, Live
  <2>7. BoundToEntries(entries', caller')
    <3> SUFFICES ASSUME NEW q \in Callers, caller'[q].at \in {"leader", "wait", "answered"}
                 PROVE  /\ caller'[q].entry \in DOMAIN entries'
                        /\ entries'[caller'[q].entry].payload = caller'[q].payload
                        /\ caller'[q].at = "leader" => entries'[caller'[q].entry].state = "pending"
                        /\ caller'[q].at = "answered" =>
                              entries'[caller'[q].entry].state \in {"completed", "forgotten"}
      BY DEF BoundToEntries
    <3> QED BY <1>0, <1>4, <1>5, <2>2, <2>4 DEF Consistent, BoundToEntries
  <2>8. OwnEntry(caller')
    BY <1>0, <2>4 DEF Consistent, OwnEntry
  <2>9. OnlyTheLastIsLive(entries')
    BY <1>0, <1>2, <2>2 DEF Consistent, OnlyTheLastIsLive, Live
  <2> QED BY <1>0, <2>5, <2>6, <2>7, <2>8, <2>9 DEF LedgerInv, Consistent
<1> QED BY <1>7, <1>8

(* A request that waits changes only itself, and is answered only by a     *)
(* completed entry.                                                        *)
LEMMA WaitStep ==
    ASSUME LedgerInv, NEW r \in Callers, wait(r) \/ wait_times_out(r)
    PROVE  LedgerInv'
<1>0. /\ monotonic \in Nat /\ monotonic' = monotonic /\ entries' = entries /\ active' = active
      /\ Consistent(entries, active, caller)
  BY DEF LedgerInv, wait, wait_times_out
<1>1. /\ entries \in Seq(Entry) /\ active \in [Keys -> Nat] /\ caller \in [Callers -> Bound \cup Free]
      /\ caller[r].at = "wait"
  BY <1>0 DEF Consistent, TypesOf, wait, wait_times_out
<1>2. caller[r] \in Bound
  BY <1>1 DEF Bound, Free
<1>3. \/ /\ EntryOf(r).state = "completed"
         /\ caller' = [caller EXCEPT ![r] = [@ EXCEPT !.at = "answered"]]
      \/ \E at \in {"failed", "timeout"} : caller' = [caller EXCEPT ![r] = [at |-> at]]
  <2>1. EntryOf(r).state \in {"pending", "completed", "failed", "forgotten"}
    BY <1>0, <1>1, RowsAreEntries DEF Consistent, BoundToEntries, EntryOf
  <2>2. CASE wait_times_out(r)
    BY <2>2 DEF wait_times_out
  <2>3. CASE wait(r)
    BY <2>1, <2>3 DEF wait
  <2> QED BY <2>2, <2>3
<1>4. /\ caller' \in [Callers -> Bound \cup Free]
      /\ caller'[r].at \in {"answered", "failed", "timeout"}
      /\ caller'[r].at = "answered" => /\ caller'[r].entry = caller[r].entry
                                       /\ caller'[r].payload = caller[r].payload
                                       /\ entries[caller[r].entry].state = "completed"
      /\ \A q \in Callers : q # r => caller'[q] = caller[q]
  BY <1>1, <1>2, <1>3 DEF Bound, Free, EntryOf
<1>5. TypesOf(entries', active', caller')
  BY <1>0, <1>1, <1>4 DEF TypesOf
<1>6. BoundToEntries(entries', caller')
  BY <1>0, <1>1, <1>4 DEF Consistent, BoundToEntries
<1>7. OwnEntry(caller')
  BY <1>0, <1>4 DEF Consistent, OwnEntry
<1> QED BY <1>0, <1>5, <1>6, <1>7 DEF LedgerInv, Consistent

----------------------------------------------------------------------------
(* The ledger is consistent in every reachable state: an entry that is     *)
(* pending or completed is the one its key leads to, and its leader is the *)
(* one request that runs the operation.                                    *)
THEOREM LedgerIsConsistent == LedgerSpec => []LedgerInv
<1>1. LedgerInit => LedgerInv
  <2> SUFFICES ASSUME LedgerInit PROVE LedgerInv
    OBVIOUS
  <2>1. monotonic \in Nat /\ entries \in Seq(Entry) /\ DOMAIN entries = {}
    BY DEF LedgerInit
  <2>2. active \in [Keys -> Nat] /\ caller \in [Callers -> Bound \cup Free]
    BY DEF LedgerInit, NewCaller, Free
  <2>3. \A r \in Callers : caller[r].at = "new"
    BY DEF LedgerInit, NewCaller
  <2>4. \A k \in Keys : active[k] = 0
    BY DEF LedgerInit
  <2> QED BY <2>1, <2>2, <2>3, <2>4
          DEF LedgerInv, Consistent, TypesOf, KeysPointToLive, OnlyTheLastIsLive, BoundToEntries,
              OwnEntry
<1>2. LedgerInv /\ [LedgerNext]_ledgerVars => LedgerInv'
  <2> SUFFICES ASSUME LedgerInv, [LedgerNext]_ledgerVars PROVE LedgerInv'
    OBVIOUS
  <2>1. CASE time_passes
    BY <2>1 DEF time_passes, LedgerInv
  <2>2. ASSUME NEW r \in Callers, NEW key \in Keys, NEW payload \in Payloads, claim_key(r, key, payload)
        PROVE  LedgerInv'
    BY <2>2, ClaimStep
  <2>3. ASSUME NEW r \in Callers, complete(r) \/ fail(r)
        PROVE  LedgerInv'
    BY <2>3, FinishStep
  <2>4. ASSUME NEW r \in Callers, wait(r) \/ wait_times_out(r)
        PROVE  LedgerInv'
    BY <2>4, WaitStep
  <2>5. CASE UNCHANGED ledgerVars
    BY <2>5 DEF ledgerVars, LedgerInv
  <2> QED BY <2>1, <2>2, <2>3, <2>4, <2>5 DEF LedgerNext
<1> QED BY <1>1, <1>2, PTL DEF LedgerSpec

(* Two requests never run the operation of one key at the same time,       *)
(* whatever the cleanup has forgotten and however many waiters gave up.     *)
THEOREM LeadersAreAlone == LedgerSpec => []OneLeader
<1>1. LedgerInv => OneLeader
  <2> SUFFICES ASSUME LedgerInv, NEW key \in Keys
               PROVE  Cardinality(Leaders(key)) <= 1
    BY DEF OneLeader
  <2>1. \A r, q \in Leaders(key) : r = q
    <3> SUFFICES ASSUME NEW r \in Leaders(key), NEW q \in Leaders(key) PROVE r = q
      OBVIOUS
    <3>1. /\ r \in Callers /\ caller[r].at = "leader" /\ entries[caller[r].entry].key = key
          /\ q \in Callers /\ caller[q].at = "leader" /\ entries[caller[q].entry].key = key
      BY DEF Leaders, EntryOf
    <3>2. active[key] = caller[r].entry /\ active[key] = caller[q].entry
      BY <3>1 DEF LedgerInv, Consistent, BoundToEntries, KeysPointToLive, Live
    <3> QED BY <3>1, <3>2 DEF LedgerInv, Consistent, OwnEntry
  <2>2. CASE Leaders(key) = {}
    BY <2>2, FS_EmptySet
  <2>3. CASE Leaders(key) # {}
    <3>1. PICK r \in Leaders(key) : TRUE
      BY <2>3
    <3>2. Leaders(key) = {r}
      BY <2>1, <3>1
    <3>3. Cardinality({r}) = 1
      BY FS_Singleton
    <3> QED BY <3>2, <3>3
  <2> QED BY <2>2, <2>3
<1> QED BY <1>1, LedgerIsConsistent, PTL

(* Every answer is the result of an operation that ended for the payload   *)
(* of the request, and a kept result is the last word on its key.          *)
THEOREM AnswersEarned == LedgerSpec => []AnswersAreEarned
<1>1. LedgerInv => AnswersAreEarned
  <2> SUFFICES ASSUME LedgerInv PROVE AnswersAreEarned
    OBVIOUS
  <2>1. \A r \in Callers : caller[r].at = "answered" =>
           EntryOf(r).payload = caller[r].payload /\ EntryOf(r).state \in {"completed", "forgotten"}
    BY DEF LedgerInv, Consistent, BoundToEntries, EntryOf
  <2>2. ASSUME NEW e \in Present(entries), NEW f \in Present(entries),
               entries[e].key = entries[f].key, entries[e].state = "completed", e < f
        PROVE  FALSE
    BY <2>2 DEF LedgerInv, Consistent, OnlyTheLastIsLive, Live, Present
  <2> QED BY <2>1, <2>2 DEF AnswersAreEarned
<1> QED BY <1>1, LedgerIsConsistent, PTL

=============================================================================
