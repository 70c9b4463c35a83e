----------------------------- MODULE LanPairing -----------------------------
(***************************************************************************)
(* Pairing of devices (core/vnext/lan_control_v6.py).  The receiving host   *)
(* shows a code; an initiating device sends pair.request with it and polls  *)
(* pair.status; the receiver's user confirms with a choice of permissions.  *)
(* Each side then has the other in its own directory.                       *)
(*                                                                         *)
(* Confirmation is three transactions and a request two, so that cancelling, *)
(* revoking, a second confirmation and a second request come between them.   *)
(*                                                                         *)
(* Left out: the cryptography (a request made with another code than the     *)
(* session's is a wrong code), addresses and names.                          *)
(***************************************************************************)
EXTENDS Naturals

CONSTANTS
    Sessions,      \* pairing sessions the receiver's user creates
    Devices,       \* devices that initiate
    Permissions,   \* what the receiver's user may grant
    Confirmers,    \* threads of the receiver that confirm
    CodeAttempts,  \* 12 in the code
    MaxRevokes     \* bound: revocations, on either side

ASSUME PairingAssumption ==
    /\ CodeAttempts \in Nat \ {0}
    /\ MaxRevokes \in Nat

VARIABLES
    sessions,    \* lan_pairing_sessions, without the codes
    pending,     \* lan_pairing_pending: the row of a session and a device
    trusted,     \* the receiver's lan_peers
    confirming,  \* each confirmer between its transactions
    initiator,   \* each device: what it has in hand, and its lan_peers row
    chosen,      \* what the user has chosen to grant each device
    revokes      \* number of revocations

pairingVars == <<sessions, pending, trusted, confirming, initiator, chosen, revokes>>

NoRow == [status |-> "none"]
Unknown == [known |-> FALSE, grants |-> {}]
Resting == [at |-> "rest"]

SessionState == {"none", "open", "cancelled", "expired"}

Known(grants) == [known |-> TRUE, grants |-> grants]

----------------------------------------------------------------------------
PairingInit ==
    /\ sessions = [s \in Sessions |-> [state |-> "none", used |-> FALSE, attempts |-> 0]]
    /\ pending = [p \in Sessions \X Devices |-> NoRow]
    /\ trusted = [d \in Devices |-> Unknown]
    /\ confirming = [k \in Confirmers |-> Resting]
    /\ initiator = [d \in Devices |-> [hand |-> Resting, peer |-> Unknown]]
    /\ chosen = [d \in Devices |-> {}]
    /\ revokes = 0

create_pairing_session(s) ==
    /\ sessions[s].state = "none"
    /\ sessions' = [sessions EXCEPT ![s].state = "open"]
    /\ UNCHANGED <<pending, trusted, confirming, initiator, chosen, revokes>>

cancel_pairing_session(s) ==
    /\ sessions[s].state \in {"open", "expired"}
    /\ ~sessions[s].used
    /\ sessions' = [sessions EXCEPT ![s].state = "cancelled"]
    /\ UNCHANGED <<pending, trusted, confirming, initiator, chosen, revokes>>

session_expires(s) ==
    /\ sessions[s].state = "open"
    /\ sessions' = [sessions EXCEPT ![s].state = "expired"]
    /\ UNCHANGED <<pending, trusted, confirming, initiator, chosen, revokes>>

----------------------------------------------------------------------------
(* Requests: _pairing_session_for_request counts, and tests what it read    *)
(* before it counted; accept_pairing_request compares the code and stores   *)
(* the row in a second transaction.                                         *)

Usable(s) == sessions[s].state = "open" /\ sessions[s].attempts < CodeAttempts

Counted(s) ==
    [sessions EXCEPT ![s].attempts = IF @ > CodeAttempts THEN @ ELSE @ + 1]

\* A request with the wrong code.
wrong_code(s) ==
    /\ sessions[s].state # "none"
    /\ sessions' = Counted(s)
    /\ UNCHANGED <<pending, trusted, confirming, initiator, chosen, revokes>>

\* A request with the right code, from the device that has nothing in hand.
begin_pairing(d, s) ==
    /\ sessions[s].state # "none"
    /\ initiator[d].hand = Resting
    /\ sessions' = Counted(s)
    /\ initiator' = [initiator EXCEPT ![d].hand =
                        IF Usable(s) THEN [at |-> "requested", session |-> s] ELSE Resting]
    /\ UNCHANGED <<pending, trusted, confirming, chosen, revokes>>

\* An earlier row of this session and device is used again.  The answer may be
\* lost; the row is there all the same.
request_stored(d, answered) ==
    /\ initiator[d].hand.at = "requested"
    /\ LET s == initiator[d].hand.session IN
       /\ pending' = [pending EXCEPT ![<<s, d>>] =
                         IF @ = NoRow THEN [status |-> "pending", grants |-> {}] ELSE @]
       /\ initiator' = [initiator EXCEPT ![d].hand =
                           IF answered THEN [at |-> "waiting", session |-> s] ELSE Resting]
    /\ UNCHANGED <<sessions, trusted, confirming, chosen, revokes>>

----------------------------------------------------------------------------
(* confirm_pairing                                                         *)

confirm_pairing(k, s, d, grants) ==
    /\ confirming[k] = Resting
    /\ pending[<<s, d>>].status = "pending"
    /\ sessions[s].state = "open"
    /\ confirming' = [confirming EXCEPT ![k] = [at |-> "read", session |-> s, device |-> d, grants |-> grants]]
    /\ chosen' = [chosen EXCEPT ![d] = @ \cup {grants}]
    /\ UNCHANGED <<sessions, pending, trusted, initiator, revokes>>

\* _save_peer
confirm_saves(k) ==
    /\ confirming[k].at = "read"
    /\ trusted' = [trusted EXCEPT ![confirming[k].device] = Known(confirming[k].grants)]
    /\ confirming' = [confirming EXCEPT ![k].at = "saved"]
    /\ UNCHANGED <<sessions, pending, initiator, chosen, revokes>>

confirm_marks(k) ==
    /\ confirming[k].at = "saved"
    /\ pending' = [pending EXCEPT ![<<confirming[k].session, confirming[k].device>>] =
                      [status |-> "confirmed", grants |-> confirming[k].grants]]
    /\ sessions' = [sessions EXCEPT ![confirming[k].session].used = TRUE]
    /\ confirming' = [confirming EXCEPT ![k] = Resting]
    /\ UNCHANGED <<trusted, initiator, chosen, revokes>>

----------------------------------------------------------------------------
(* complete_pairing: pair.status, which is not counted, and then the        *)
(* initiator's own row.                                                     *)

\* Mutant: the status is that of the receiver's directory.
ToldOfDirectory(s, d) ==
    IF trusted[d].known THEN [status |-> "confirmed", grants |-> Permissions] ELSE pending[<<s, d>>]

\* pairing_status
Told(s, d) == pending[<<s, d>>]

pair_status(d) ==
    /\ initiator[d].hand.at = "waiting"
    /\ LET s == initiator[d].hand.session IN
       /\ Usable(s)
       /\ Told(s, d).status = "confirmed"
       /\ initiator' = [initiator EXCEPT ![d].hand = [at |-> "told", grants |-> Told(s, d).grants]]
    /\ UNCHANGED <<sessions, pending, trusted, confirming, chosen, revokes>>

complete_pairing(d) ==
    /\ initiator[d].hand.at = "told"
    /\ initiator' = [initiator EXCEPT ![d] = [hand |-> Resting, peer |-> Known(initiator[d].hand.grants)]]
    /\ UNCHANGED <<sessions, pending, trusted, confirming, chosen, revokes>>

\* The device's user gives the attempt up.
give_up(d) ==
    /\ initiator[d].hand.at \in {"waiting", "told"}
    /\ initiator' = [initiator EXCEPT ![d].hand = Resting]
    /\ UNCHANGED <<sessions, pending, trusted, confirming, chosen, revokes>>

revoke_device(d) ==
    /\ revokes < MaxRevokes
    /\ trusted[d].known
    /\ trusted' = [trusted EXCEPT ![d] = Unknown]
    /\ revokes' = revokes + 1
    /\ UNCHANGED <<sessions, pending, confirming, initiator, chosen>>

revoke_receiver(d) ==
    /\ revokes < MaxRevokes
    /\ initiator[d].peer.known
    /\ initiator' = [initiator EXCEPT ![d].peer = Unknown]
    /\ revokes' = revokes + 1
    /\ UNCHANGED <<sessions, pending, trusted, confirming, chosen>>

----------------------------------------------------------------------------
PairingNext ==
    \/ \E s \in Sessions :
          \/ create_pairing_session(s)
          \/ cancel_pairing_session(s)
          \/ session_expires(s)
          \/ wrong_code(s)
          \/ \E d \in Devices : begin_pairing(d, s)
          \/ \E d \in Devices, k \in Confirmers : \E grants \in SUBSET Permissions :
                confirm_pairing(k, s, d, grants)
    \/ \E k \in Confirmers : confirm_saves(k) \/ confirm_marks(k)
    \/ \E d \in Devices :
          \/ \E answered \in BOOLEAN : request_stored(d, answered)
          \/ pair_status(d)
          \/ complete_pairing(d)
          \/ give_up(d)
          \/ revoke_device(d)
          \/ revoke_receiver(d)

----------------------------------------------------------------------------
(* Properties.                                                             *)

(* Trust and permissions have been chosen by the receiver's user: a device   *)
(* that has the receiver in its directory was confirmed by it, believes in   *)
(* permissions the user chose for this very device, and the receiver has     *)
(* stored nothing else, whatever confirmations, repeated requests,           *)
(* cancellations and revocations overlap.                                    *)
TrustIsChosen ==
    \A d \in Devices :
        /\ trusted[d].known => trusted[d].grants \in chosen[d]
        /\ initiator[d].peer.known =>
              /\ initiator[d].peer.grants \in chosen[d]
              /\ \E s \in Sessions : pending[<<s, d>>].status = "confirmed"
=============================================================================
