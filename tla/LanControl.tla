----------------------------- MODULE LanControl -----------------------------
(***************************************************************************)
(* The secure request of the LAN control plane (core/vnext/                *)
(* lan_control_v6.py): one host, the client, sends requests to another, the *)
(* server.  Each request has its own connection: a client call that waits   *)
(* at most ten seconds on one side, a server thread on the other.  The      *)
(* thread goes on when the client has given up.                             *)
(*                                                                         *)
(* The server remembers its answers by request identity (seen), so that a   *)
(* retry after a lost answer is not executed again.  What a request does    *)
(* is the business of the modules that extend this one: they start a call   *)
(* (secure_request), execute it (Handle) and use its outcome (Return).      *)
(*                                                                         *)
(* Left out: the cryptography (a frame of an unknown key is a refused       *)
(* connection), diagnostics, and clocks that differ between the hosts.      *)
(***************************************************************************)
EXTENDS Naturals, FiniteSets

CONSTANTS
    Conns,       \* connections that can exist at one time
    Grantable,   \* the permissions this instance grants and takes back
    LanHorizon,  \* bound: the last instant of the clock
    MaxChanges   \* bound: how often permissions or trust change

ASSUME LanAssumption ==
    /\ Grantable \subseteq {"messages", "status", "remote_start"}
    /\ LanHorizon \in Nat
    /\ MaxChanges \in Nat

VARIABLES
    time,      \* one clock for both hosts
    paired,    \* the sides whose directory holds the other as not revoked
    granted,   \* permissions the server grants the client
    believed,  \* the grants as the client has cached them
    changes,   \* how often the three above have changed
    seen,      \* lan_seen_requests: request -> answer and expiry
    conn       \* connection -> its call and its thread

lanVars == <<time, paired, granted, believed, changes, seen, conn>>

Sides == {"client", "server"}

\* What a request needs of the server; "" for permissions.query.
PermissionFor(type) ==
    CASE type = "permissions.query" -> ""
      [] type \in {"message.offer", "message.cancel", "message.status"} -> "messages"
      [] type = "dispatch.start" -> "remote_start"

Allowed(req, grants) == PermissionFor(req.type) \in grants \cup {""}

\* Requests with an identity of their own at every attempt are never seen again.
FreshTypes == {"permissions.query", "message.status"}

\* How a request fails: no connection, or an answer that says whether the
\* request may be tried again.
Failures == {"unreachable", "transient", "permanent"}

Free == [server |-> "free"]
NoAnswer == "none"

\* The server thread: connected, authorised, handled, and finished with an
\* answer the client can read.
ServerStep == {"connected", "authorised", "handled", "finished"}

IsOpen(c) == conn[c].server # "free"
ServerAt(c, step) == IsOpen(c) /\ conn[c].server = step
Waiting(c) == IsOpen(c) /\ ~conn[c].abandoned
Owner(c) == conn[c].caller

----------------------------------------------------------------------------
\* "made": the changes of permissions or trust that are used up already.
LanInit(made) ==
    /\ time = 0
    /\ paired = Sides
    /\ granted = Grantable
    /\ believed = Grantable
    /\ changes = made
    /\ seen = [r \in {} |-> NoAnswer]
    /\ conn = [c \in Conns |-> Free]

clock_ticks ==
    /\ time < LanHorizon
    /\ time' = time + 1
    /\ UNCHANGED <<paired, granted, believed, changes, seen, conn>>

----------------------------------------------------------------------------
(* The client.                                                             *)

NewCall(caller, req, ttl) ==
    [caller |-> caller, req |-> req, expires |-> time + ttl, server |-> "connected",
     grants |-> {}, answer |-> NoAnswer, abandoned |-> FALSE]

\* secure_request up to the connection: a peer that is not known, or that is
\* not believed to grant the permission, is not even asked.
Asked(caller, req, ttl) ==
    LET call == NewCall(caller, req, ttl) IN
    IF "client" \in paired /\ Allowed(req, believed) THEN call
    ELSE [call EXCEPT !.server = "finished", !.answer = "permanent"]

\* Connections differ in nothing but their names.
FreeConns == {c \in Conns : ~IsOpen(c)}
NextConn == CHOOSE c \in FreeConns : TRUE

secure_request(caller, req, ttl) ==
    /\ FreeConns # {}
    /\ conn' = [conn EXCEPT ![NextConn] = Asked(caller, req, ttl)]
    /\ UNCHANGED <<time, paired, granted, believed, changes, seen>>

\* The end of the thread: nobody reads its answer if the call has ended.
EndServe(c, answer) ==
    IF conn[c].abandoned THEN Free
    ELSE [conn[c] EXCEPT !.server = "finished", !.answer = answer]

\* No connection, one that breaks before the request has been read, or a
\* handler whose database fails: nothing has been done, nothing is answered.
connection_fails(c) ==
    /\ IsOpen(c) /\ conn[c].server \in {"connected", "authorised"}
    /\ conn' = [conn EXCEPT ![c] = EndServe(c, "unreachable")]
    /\ UNCHANGED <<time, paired, granted, believed, changes, seen>>

\* What the call may end with: the answer, or at any time the ten seconds.
Outcomes(c) ==
    {"unreachable"} \cup IF conn[c].server = "finished" THEN {conn[c].answer} ELSE {}

Return(c, outcome) ==
    /\ Waiting(c)
    /\ outcome \in Outcomes(c)
    /\ conn' = [conn EXCEPT ![c] =
                   IF @.server = "finished" THEN Free ELSE [@ EXCEPT !.abandoned = TRUE]]

----------------------------------------------------------------------------
(* The server thread (_serve_client).                                      *)

Remembered(req) == req \in DOMAIN seen /\ seen[req].expires > time

\* _server_handshake, then _handle_secure_request up to the handler: expiry,
\* authorize, and seen_response, which removes the rows that have expired.  A
\* refusal is a plain frame, which the client does not take for transient.
\* What the handshake read of the peer is used later for permissions.query only.
check(c) ==
    /\ ServerAt(c, "connected")
    /\ LET req == conn[c].req
           refused == "server" \notin paired \/ conn[c].expires <= time \/ ~Allowed(req, granted) IN
       /\ conn' = [conn EXCEPT ![c] =
                      IF refused THEN EndServe(c, "permanent")
                      ELSE IF Remembered(req) THEN EndServe(c, seen[req].answer)
                      ELSE [@ EXCEPT !.server = "authorised",
                                     !.grants = IF PermissionFor(req.type) = "" THEN granted ELSE {}]]
       /\ seen' = IF refused THEN seen ELSE [r \in {x \in DOMAIN seen : Remembered(x)} |-> seen[r]]
    /\ UNCHANGED <<time, paired, granted, believed, changes>>

\* The handler of an extending module has run.  The answer to a request with a
\* fresh identity is remembered too, but nobody will ask for it.
Handle(c, answer) ==
    /\ ServerAt(c, "authorised")
    /\ conn' = [conn EXCEPT ![c] =
                   IF @.req.type \in FreshTypes THEN EndServe(c, answer)
                   ELSE [@ EXCEPT !.server = "handled", !.answer = answer]]

\* remember_response.  Another thread may have been first: its row stays, and
\* this thread gives its own answer.  If that row has expired meanwhile it is
\* removed and the thread ends with an error.
remember(c) ==
    /\ ServerAt(c, "handled")
    /\ LET call == conn[c]
           row == [answer |-> call.answer, expires |-> call.expires] IN
       \/ /\ call.req \notin DOMAIN seen
          /\ seen' = [r \in DOMAIN seen \cup {call.req} |->
                         IF r = call.req THEN row ELSE seen[r]]
          /\ conn' = [conn EXCEPT ![c] = EndServe(c, call.answer)]
       \/ /\ Remembered(call.req)
          /\ conn' = [conn EXCEPT ![c] = EndServe(c, call.answer)]
          /\ UNCHANGED seen
       \/ /\ call.req \in DOMAIN seen /\ ~Remembered(call.req)
          /\ conn' = [conn EXCEPT ![c] = EndServe(c, "unreachable")]
          /\ seen' = [r \in DOMAIN seen \ {call.req} |-> seen[r]]
    /\ UNCHANGED <<time, paired, granted, believed, changes>>

----------------------------------------------------------------------------
(* Directories.                                                            *)

set_permissions(grants) ==
    /\ changes < MaxChanges
    /\ "server" \in paired
    /\ grants # granted
    /\ granted' = grants
    /\ changes' = changes + 1
    /\ UNCHANGED <<time, paired, believed, seen, conn>>

\* revoke on the server: the row, its grants and the remembered answers.
revoke_client ==
    /\ changes < MaxChanges
    /\ paired' = paired \ {"server"}
    /\ granted' = {}
    /\ seen' = [r \in {} |-> NoAnswer]
    /\ changes' = changes + 1
    /\ UNCHANGED <<time, believed, conn>>

\* revoke on the client.
revoke_server ==
    /\ changes < MaxChanges
    /\ paired' = paired \ {"client"}
    /\ believed' = {}
    /\ changes' = changes + 1
    /\ UNCHANGED <<time, granted, seen, conn>>

\* refresh_peer_status: the grants are those the handshake has read.
query_permissions ==
    /\ changes < MaxChanges
    /\ FreeConns # {}
    /\ conn' = [conn EXCEPT ![NextConn] = Asked("refresh", [type |-> "permissions.query", id |-> ""], 1)]
    /\ changes' = changes + 1
    /\ UNCHANGED <<time, paired, granted, believed, seen>>

handle_permissions_query(c) ==
    /\ Handle(c, "ok")
    /\ conn[c].req.type = "permissions.query"
    /\ UNCHANGED <<time, paired, granted, believed, changes, seen>>

update_remote_permissions(c, outcome) ==
    /\ Return(c, outcome)
    /\ Owner(c) = "refresh"
    /\ believed' = IF outcome = "ok" /\ "client" \in paired THEN conn[c].grants ELSE believed
    /\ UNCHANGED <<time, paired, granted, changes, seen>>

Thread(c) ==
    \/ connection_fails(c)
    \/ check(c)
    \/ remember(c)
    \/ handle_permissions_query(c)

PeerDirectory ==
    \/ \E grants \in SUBSET Grantable : set_permissions(grants)
    \/ revoke_client
    \/ revoke_server
    \/ query_permissions
    \/ \E c \in Conns : \E outcome \in {"ok"} \cup Failures :
          update_remote_permissions(c, outcome)

=============================================================================
