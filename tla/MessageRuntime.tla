--------------------------- MODULE MessageRuntime ---------------------------
(***************************************************************************)
(* Reliable messages (core/vnext/message_runtime_v6.py): one batch with one *)
(* copy for each recipient.  A copy for this host is read from the sender's *)
(* own database.  A copy for another host stays in the sender's outbox and  *)
(* is offered, polled and cancelled over the LAN by flush_outbox, which the *)
(* maintenance tick, send, wait_read and cancel all run, on several threads *)
(* at a time; the receiving host keeps a copy of its own.  Receivers look   *)
(* for a message first and claim it in a second transaction.                *)
(*                                                                         *)
(* Left out: the validation of names and contents, identities that          *)
(* contradict each other (a batch or message identity used twice for        *)
(* different contents), and the throttle of 100 ms between two attempts.    *)
(***************************************************************************)
EXTENDS LanControl, Sequences

CONSTANTS
    Copies,     \* message_id of the copies
    Batches,    \* the sets of copies that may be sent together
    Remote,     \* the copies whose recipient is on the other host
    Ttl,        \* the message's time to live
    Flushers,   \* threads that run flush_outbox
    Readers,    \* threads that receive messages
    Abroad,     \* the readers on the receiving host; the others are the sender's
    LateHosts   \* whether the recipient may register after the message was sent

ASSUME MessageAssumption ==
    /\ Remote \subseteq Copies
    /\ Batches \subseteq SUBSET Copies
    /\ Abroad \subseteq Readers
    /\ Ttl \in Nat \ {0}
    /\ LateHosts \in BOOLEAN
    /\ "refresh" \notin Flushers  \* the caller that reads permissions
    /\ NoAnswer \notin Copies

VARIABLES
    outbox,      \* the sender's message_copies
    arrived,     \* the receiving host's message_copies, in order of arrival
    registered,  \* whether the recipient is in message_instances
    flush,       \* each flusher's rows still to do
    candidate,   \* each reader's candidate, between looking and claiming
    taken        \* which reader has been given which message

messageVars == <<outbox, arrived, registered, flush, candidate, taken>>

Open == {"waiting_send", "waiting_read"}
Closed == {"read", "expired", "cancelled", "failed"}

\* accepted: remote_accepted_at is set; cancel: cancel_requested_at is set.
Copy == [status : Open \cup Closed, accepted : BOOLEAN, cancel : BOOLEAN]

Sent == DOMAIN outbox
Local == Copies \ Remote

\* The receiving host's row of a message.
ArrivalOf(m) == {i \in DOMAIN arrived : arrived[i].id = m}
HasArrived(m) == ArrivalOf(m) # {}
RemoteStatus(m) == arrived[CHOOSE i \in ArrivalOf(m) : TRUE].status

Expires == Ttl
Overdue == time >= Expires

\* Mutant: the sender's rows do not expire.
KeptOut == outbox

\* _expire on the sender's and on the receiver's database.
ExpiredOut ==
    [m \in Sent |-> IF Overdue /\ outbox[m].status \in Open
                    THEN [outbox[m] EXCEPT !.status = "expired"] ELSE outbox[m]]
ExpiredIn(rows) ==
    [i \in DOMAIN rows |-> IF Overdue /\ rows[i].status \in Open
                           THEN [rows[i] EXCEPT !.status = "expired"] ELSE rows[i]]

Idle == [at |-> "idle", rows |-> {}]

----------------------------------------------------------------------------
MessageInit ==
    /\ outbox = [m \in {} |-> NoAnswer]
    /\ arrived = <<>>
    /\ registered = ~LateHosts
    /\ flush = [f \in Flushers |-> Idle]
    /\ candidate = [r \in Readers |-> NoAnswer]
    /\ taken = {}

\* The rows a flush finds, each to be handled by what it says now.
RowsToFlush(box) ==
    {[id |-> m, cancel |-> box[m].cancel, accepted |-> box[m].accepted] :
        m \in {x \in Remote \cap DOMAIN box : box[x].status \in Open}}

\* send: one transaction for the whole batch, then a flush of it.  The peer
\* must be known and must grant messages, else nothing is stored.
send(f, batch) ==
    /\ Sent = {}
    /\ time = 0
    /\ flush[f] = Idle
    /\ batch \cap Remote # {} => "client" \in paired /\ "messages" \in believed
    /\ outbox' = [m \in batch |->
                     [status |-> IF m \in Local THEN "waiting_read" ELSE "waiting_send",
                      accepted |-> FALSE, cancel |-> FALSE]]
    /\ flush' = [flush EXCEPT ![f].rows = RowsToFlush(outbox')]
    /\ UNCHANGED <<lanVars, arrived, registered, candidate, taken>>

\* register_instance on the receiving host.
register_instance ==
    /\ ~registered
    /\ registered' = TRUE
    /\ UNCHANGED <<lanVars, outbox, arrived, flush, candidate, taken>>

----------------------------------------------------------------------------
(* flush_outbox                                                            *)

\* The maintenance tick, or wait_read.
select(f) ==
    /\ Sent # {}
    /\ flush[f] = Idle
    /\ outbox' = ExpiredOut
    /\ flush' = [flush EXCEPT ![f].rows = RowsToFlush(ExpiredOut)]
    /\ UNCHANGED <<lanVars, arrived, registered, candidate, taken>>

Request(row) ==
    [type |-> IF row.cancel THEN "message.cancel"
              ELSE IF ~row.accepted THEN "message.offer" ELSE "message.status",
     id |-> row.id]

\* A row that has expired meanwhile is passed over.
pass_over(f, row) ==
    /\ flush[f].at = "idle"
    /\ row \in flush[f].rows
    /\ Overdue
    /\ flush' = [flush EXCEPT ![f].rows = @ \ {row}]
    /\ UNCHANGED <<lanVars, outbox, arrived, registered, candidate, taken>>

call_peer(f, row) ==
    /\ flush[f].at = "idle"
    /\ row \in flush[f].rows
    /\ ~Overdue
    /\ secure_request(f, Request(row), Expires - time)
    /\ flush' = [flush EXCEPT ![f] = [at |-> "calling", rows |-> @.rows \ {row}]]
    /\ UNCHANGED <<outbox, arrived, registered, candidate, taken>>

\* _apply_remote_status: whatever the row says by now.
ApplyRemoteStatus(m, answer) ==
    [outbox EXCEPT ![m].status = answer, ![m].accepted = TRUE]

\* Mutant: the failure is stored in place of a status.
FailureAsStatus(m, failure) == [outbox EXCEPT ![m].status = failure]

\* _record_transport_failure
RecordFailure(m, failure) ==
    IF failure = "permanent" /\ outbox[m].status \in Open
    THEN [outbox EXCEPT ![m].status = "failed"] ELSE outbox

use_answer(f, c, outcome) ==
    /\ Return(c, outcome)
    /\ Owner(c) = f
    /\ outbox' = IF outcome \in Failures THEN RecordFailure(conn[c].req.id, outcome)
                 ELSE ApplyRemoteStatus(conn[c].req.id, outcome)
    /\ flush' = [flush EXCEPT ![f].at = "idle"]
    /\ UNCHANGED <<time, paired, granted, believed, changes, seen>>
    /\ UNCHANGED <<arrived, registered, candidate, taken>>

----------------------------------------------------------------------------
(* The handlers on the receiving host.                                     *)

StatusOf(m, rows) == rows[CHOOSE i \in DOMAIN rows : rows[i].id = m].status

\* _handle_lan_offer: an unregistered recipient is a transient failure; a
\* message that is there already is not stored again.
handle_offer(c) ==
    /\ ServerAt(c, "authorised")
    /\ conn[c].req.type = "message.offer"
    /\ LET m == conn[c].req.id
           new == [id |-> m, status |-> IF Overdue THEN "expired" ELSE "waiting_read"] IN
       \/ /\ ~registered
          /\ Handle(c, "transient")
          /\ UNCHANGED arrived
       \/ /\ registered
          /\ arrived' = ExpiredIn(IF HasArrived(m) THEN arrived ELSE Append(arrived, new))
          /\ Handle(c, StatusOf(m, arrived'))
    /\ UNCHANGED <<time, paired, granted, believed, changes, seen>>
    /\ UNCHANGED <<outbox, registered, flush, candidate, taken>>

\* Mutant: a message is cancelled whatever its status.
CancelAnyway(m, rows) ==
    [i \in DOMAIN rows |-> IF rows[i].id = m THEN [rows[i] EXCEPT !.status = "cancelled"] ELSE rows[i]]

\* Only a message that still waits can be cancelled.
CancelWaiting(m, rows) ==
    [i \in DOMAIN rows |-> IF rows[i].id = m /\ rows[i].status = "waiting_read"
                           THEN [rows[i] EXCEPT !.status = "cancelled"] ELSE rows[i]]

\* _handle_lan_status and _handle_lan_cancel: a message that never arrived is
\* unknown, which is a permanent failure.
handle_status_or_cancel(c) ==
    /\ ServerAt(c, "authorised")
    /\ conn[c].req.type \in {"message.status", "message.cancel"}
    /\ LET m == conn[c].req.id
           current == ExpiredIn(arrived) IN
       \/ /\ ~HasArrived(m)
          /\ Handle(c, "permanent")
          /\ UNCHANGED arrived
       \/ /\ HasArrived(m)
          /\ arrived' = IF conn[c].req.type = "message.cancel"
                        THEN CancelWaiting(m, current) ELSE current
          /\ Handle(c, StatusOf(m, arrived'))
    /\ UNCHANGED <<time, paired, granted, believed, changes, seen>>
    /\ UNCHANGED <<outbox, registered, flush, candidate, taken>>

----------------------------------------------------------------------------
(* Receiving, on either host, and cancelling.                              *)

FirstWaiting(rows) ==
    {rows[i].id : i \in {k \in DOMAIN rows :
        rows[k].status = "waiting_read" /\ \A j \in 1..(k - 1) : rows[j].status # "waiting_read"}}

\* wait_receive and the listeners look for a waiting message of their host: the
\* first that arrived, or one of the local copies.
peek(r) ==
    /\ candidate[r] = NoAnswer
    /\ \/ /\ r \in Abroad /\ registered
          /\ arrived' = ExpiredIn(arrived)
          /\ \E m \in FirstWaiting(arrived') : candidate' = [candidate EXCEPT ![r] = m]
          /\ UNCHANGED outbox
       \/ /\ r \notin Abroad
          /\ outbox' = ExpiredOut
          /\ \E m \in {x \in Local \cap Sent : outbox'[x].status = "waiting_read"} :
                candidate' = [candidate EXCEPT ![r] = m]
          /\ UNCHANGED arrived
    /\ UNCHANGED <<lanVars, registered, flush, taken>>

\* Looking finds nothing, but what is overdue has expired.
peek_nothing ==
    /\ arrived' = ExpiredIn(arrived)
    /\ outbox' = ExpiredOut
    /\ UNCHANGED <<lanVars, registered, flush, candidate, taken>>

\* Mutant: the claim does not look at the status again.
ClaimWithoutLook(status) == TRUE

Claimable(status) == status = "waiting_read"

\* _claim_receive_candidate_prevalidated: expire, look again, mark as read.
claim(r) ==
    /\ candidate[r] # NoAnswer
    /\ LET m == candidate[r]
           rows == ExpiredIn(arrived) IN
       \/ /\ m \in Remote
          /\ LET won == Claimable(StatusOf(m, rows)) IN
             /\ arrived' = [i \in DOMAIN rows |->
                               IF rows[i].id = m /\ won THEN [rows[i] EXCEPT !.status = "read"] ELSE rows[i]]
             /\ taken' = IF won THEN taken \cup {<<r, m>>} ELSE taken
          /\ UNCHANGED outbox
       \/ /\ m \in Local
          /\ LET won == Claimable(ExpiredOut[m].status) IN
             /\ outbox' = IF won THEN [ExpiredOut EXCEPT ![m].status = "read"] ELSE ExpiredOut
             /\ taken' = IF won THEN taken \cup {<<r, m>>} ELSE taken
          /\ UNCHANGED arrived
    /\ candidate' = [candidate EXCEPT ![r] = NoAnswer]
    /\ UNCHANGED <<lanVars, registered, flush>>

\* cancel, for some of the recipients: local copies at once, the others are
\* marked and flushed.
cancel(f, wanted) ==
    /\ Sent # {}
    /\ flush[f] = Idle
    /\ outbox' = [m \in Sent |->
                     LET row == ExpiredOut[m] IN
                     IF m \notin wanted \/ row.status \notin Open THEN row
                     ELSE IF m \in Remote THEN [row EXCEPT !.cancel = TRUE]
                     ELSE [row EXCEPT !.status = "cancelled"]]
    /\ outbox' # outbox
    /\ flush' = [flush EXCEPT ![f].rows = RowsToFlush(outbox')]
    /\ UNCHANGED <<lanVars, arrived, registered, candidate, taken>>

----------------------------------------------------------------------------
Receiving(r) == peek(r) \/ claim(r)

Flushing(f) ==
    \/ \E batch \in Batches : send(f, batch)
    \/ select(f)
    \/ \E row \in flush[f].rows : pass_over(f, row) \/ call_peer(f, row)
    \/ \E c \in Conns : \E outcome \in Closed \cup {"waiting_read"} \cup Failures :
          use_answer(f, c, outcome)
    \/ \E wanted \in SUBSET Sent : cancel(f, wanted)

\* Nothing happens after the messages have expired that has not before.
message_tick == time < Ttl /\ clock_ticks /\ UNCHANGED messageVars

MessageStep ==
    \/ message_tick
    \/ \E c \in Conns : Thread(c) /\ UNCHANGED messageVars
    \/ \E c \in Conns : handle_offer(c) \/ handle_status_or_cancel(c)
    \/ peek_nothing
    \/ \E f \in Flushers : Flushing(f)
    \/ \E r \in Readers : Receiving(r)

MessageNext == MessageStep \/ register_instance \/ (PeerDirectory /\ UNCHANGED messageVars)

----------------------------------------------------------------------------
(* Properties.                                                             *)

MessageTypeOK ==
    /\ Sent \in Batches \cup {{}}
    /\ \A m \in Sent : outbox[m] \in Copy
    /\ \A i \in DOMAIN arrived : arrived[i].id \in Remote
    /\ \A f \in Flushers : flush[f].at \in {"idle", "calling"}
    /\ taken \subseteq Readers \X Copies

(* One message is given to one reader, whatever offers are repeated and      *)
(* whoever else was looking at it.                                           *)
GivenOnce ==
    /\ \A m \in Remote : Cardinality(ArrivalOf(m)) <= 1
    /\ \A p, q \in taken : p[2] = q[2] => p = q

(* What the sender is told is true: "read" of a message somebody was given,  *)
(* "cancelled" of one that nobody ever will be given (REQ-MSG-007).          *)
ReportsAreTrue ==
    \A m \in Sent :
        /\ outbox[m].status = "read" => \E r \in Readers : <<r, m>> \in taken
        /\ outbox[m].status = "cancelled" =>
              /\ \A r \in Readers : <<r, m>> \notin taken
              /\ m \in Remote => HasArrived(m) /\ RemoteStatus(m) = "cancelled"

(* Every copy comes to rest: a status that an overtaken answer has put back  *)
(* to waiting expires again.                                                 *)
CopiesComeToRest == <>[](\A m \in Sent : outbox[m].status \in Closed)

=============================================================================
