------------------------------ MODULE LanProofs ------------------------------
(***************************************************************************)
(* Theorems about what hosts do for one another over the LAN: LanPairing,  *)
(* LanDispatch and MessageRuntime, for every set of devices, connections,  *)
(* jobs, messages and threads, every time to live and every lease.         *)
(***************************************************************************)
EXTENDS LanDispatch, LanPairing, MessageRuntime, FiniteSetTheorems, SequenceTheorems, TLAPS

PairingSpec == PairingInit /\ [][PairingNext]_pairingVars
DispatchSpec == LanInit(0) /\ DispatchInit /\ [][DispatchNext]_<<lanVars, dispatchVars>>
MessageSpec == LanInit(0) /\ MessageInit /\ [][MessageNext]_<<lanVars, messageVars>>

(***************************************************************************)
(* Pairing.                                                                *)
(***************************************************************************)
Rows == {NoRow} \cup [status : {"pending", "confirmed"}, grants : SUBSET Permissions]
Peers == [known : BOOLEAN, grants : SUBSET Permissions]
Hands ==
    {Resting} \cup [at : {"requested", "waiting"}, session : Sessions]
              \cup [at : {"told"}, grants : SUBSET Permissions]
Confirmations ==
    {Resting} \cup
    [at : {"read", "saved"}, session : Sessions, device : Devices, grants : SUBSET Permissions]

PairingTypes ==
    /\ pending \in [Sessions \X Devices -> Rows]
    /\ trusted \in [Devices -> Peers]
    /\ confirming \in [Confirmers -> Confirmations]
    /\ initiator \in [Devices -> [hand : Hands, peer : Peers]]
    /\ chosen \in [Devices -> SUBSET SUBSET Permissions]

WasConfirmed(d) == \E s \in Sessions : pending[<<s, d>>].status = "confirmed"

\* Wherever permissions are on their way, the user has chosen them.
PairingInv ==
    /\ PairingTypes
    /\ \A k \in Confirmers :
          confirming[k].at # "rest" => confirming[k].grants \in chosen[confirming[k].device]
    /\ \A d \in Devices :
          /\ trusted[d].known => trusted[d].grants \in chosen[d]
          /\ \A s \in Sessions :
                pending[<<s, d>>].status = "confirmed" => pending[<<s, d>>].grants \in chosen[d]
          /\ initiator[d].hand.at = "told" => initiator[d].hand.grants \in chosen[d] /\ WasConfirmed(d)
          /\ initiator[d].peer.known => initiator[d].peer.grants \in chosen[d] /\ WasConfirmed(d)

----------------------------------------------------------------------------
(* What is known of rows, hands and confirmations by their type.           *)
LEMMA PairingRecords ==
    /\ NoRow.status = "none" /\ Resting.at = "rest"
    /\ Unknown \in Peers /\ ~Unknown.known
    /\ \A g \in SUBSET Permissions :
          /\ Known(g) \in Peers /\ Known(g).grants = g
          /\ [status |-> "pending", grants |-> g] \in Rows
          /\ [status |-> "confirmed", grants |-> g] \in Rows
          /\ [at |-> "told", grants |-> g] \in Hands
    /\ \A s \in Sessions :
          [at |-> "requested", session |-> s] \in Hands /\ [at |-> "waiting", session |-> s] \in Hands
<1>1. NoRow.status = "none" /\ Resting.at = "rest"
  BY DEF NoRow, Resting
<1>2. Unknown \in Peers /\ ~Unknown.known
  BY DEF Unknown, Peers
<1>3. ASSUME NEW g \in SUBSET Permissions PROVE Known(g) \in Peers /\ Known(g).grants = g
  BY DEF Known, Peers
<1> QED BY <1>1, <1>2, <1>3 DEF Rows, Hands

(* What is in hand, by its step.                                           *)
LEMMA HandsAreTyped ==
    ASSUME PairingTypes
    PROVE  /\ \A k \in Confirmers : confirming[k].at # "rest" =>
                 /\ confirming[k].at \in {"read", "saved"}
                 /\ confirming[k].session \in Sessions /\ confirming[k].device \in Devices
                 /\ confirming[k].grants \in SUBSET Permissions
           /\ \A d \in Devices :
                 /\ initiator[d].hand \in Hands /\ initiator[d].peer \in Peers
                 /\ initiator[d].hand.at \in {"requested", "waiting"} => initiator[d].hand.session \in Sessions
                 /\ initiator[d].hand.at = "told" => initiator[d].hand.grants \in SUBSET Permissions
           /\ \A d \in Devices, s \in Sessions : pending[<<s, d>>].status = "confirmed" =>
                 pending[<<s, d>>].grants \in SUBSET Permissions
<1>1. ASSUME NEW k \in Confirmers, confirming[k].at # "rest"
      PROVE  /\ confirming[k].at \in {"read", "saved"}
             /\ confirming[k].session \in Sessions /\ confirming[k].device \in Devices
             /\ confirming[k].grants \in SUBSET Permissions
  <2>1. confirming[k] \in Confirmations /\ confirming[k] # Resting
    BY <1>1, PairingRecords DEF PairingTypes
  <2> QED BY <2>1 DEF Confirmations
<1>2. ASSUME NEW d \in Devices
      PROVE  /\ initiator[d].hand \in Hands /\ initiator[d].peer \in Peers
             /\ initiator[d].hand.at \in {"requested", "waiting"} => initiator[d].hand.session \in Sessions
             /\ initiator[d].hand.at = "told" => initiator[d].hand.grants \in SUBSET Permissions
  <2>1. initiator[d].hand \in Hands /\ initiator[d].peer \in Peers
    BY DEF PairingTypes
  <2> DEFINE h == initiator[d].hand
  <2>2. h \in Hands
    BY <2>1
  <2> HIDE DEF h
  <2>3. /\ h.at \in {"requested", "waiting"} => h.session \in Sessions
        /\ h.at = "told" => h.grants \in SUBSET Permissions
    BY <2>2, PairingRecords DEF Hands
  <2> QED BY <2>1, <2>3 DEF h
<1>3. ASSUME NEW d \in Devices, NEW s \in Sessions, pending[<<s, d>>].status = "confirmed"
      PROVE  pending[<<s, d>>].grants \in SUBSET Permissions
  <2>1. pending[<<s, d>>] \in Rows
    BY DEF PairingTypes
  <2> QED BY <1>3, <2>1, PairingRecords DEF Rows
<1> QED BY <1>1, <1>2, <1>3

(* A step on one device's hand.                                            *)
LEMMA HandMoves ==
    ASSUME PairingInv, NEW d \in Devices, NEW h \in Hands,
           initiator' = [initiator EXCEPT ![d].hand = h],
           pending' \in [Sessions \X Devices -> Rows],
           \A e \in Devices, s \in Sessions :
              \/ pending'[<<s, e>>] = pending[<<s, e>>]
              \/ pending[<<s, e>>] = NoRow /\ pending'[<<s, e>>].status # "confirmed",
           UNCHANGED <<trusted, confirming, chosen>>,
           h.at = "told" => h.grants \in chosen[d] /\ WasConfirmed(d)
    PROVE  PairingInv'
<1>1. \A e \in Devices : WasConfirmed(e) => WasConfirmed(e)'
  BY PairingRecords DEF WasConfirmed
<1>2. \A e \in Devices : initiator[e].hand \in Hands /\ initiator[e].peer \in Peers
  BY HandsAreTyped DEF PairingInv
<1>3. /\ initiator' \in [Devices -> [hand : Hands, peer : Peers]]
      /\ initiator'[d].hand = h /\ initiator'[d].peer = initiator[d].peer
      /\ \A e \in Devices \ {d} : initiator'[e] = initiator[e]
  BY <1>2 DEF PairingInv, PairingTypes
<1>4. PairingTypes'
  BY <1>3 DEF PairingInv, PairingTypes
<1>5. \A k \in Confirmers :
         confirming'[k].at # "rest" => confirming'[k].grants \in chosen'[confirming'[k].device]
  BY DEF PairingInv
<1>6. ASSUME NEW e \in Devices
      PROVE  /\ trusted'[e].known => trusted'[e].grants \in chosen'[e]
             /\ \A s \in Sessions : pending'[<<s, e>>].status = "confirmed" =>
                   pending'[<<s, e>>].grants \in chosen'[e]
             /\ initiator'[e].hand.at = "told" =>
                   initiator'[e].hand.grants \in chosen'[e] /\ WasConfirmed(e)'
             /\ initiator'[e].peer.known =>
                   initiator'[e].peer.grants \in chosen'[e] /\ WasConfirmed(e)'
  BY <1>1, <1>3 DEF PairingInv
<1> QED BY <1>4, <1>5, <1>6 DEF PairingInv

(* The initiating device: request, poll, give up.                          *)
LEMMA DeviceKeeps ==
    ASSUME PairingInv, NEW d \in Devices,
           \/ \E s \in Sessions : begin_pairing(d, s)
           \/ \E answered \in BOOLEAN : request_stored(d, answered)
           \/ pair_status(d) \/ give_up(d)
    PROVE  PairingInv'
<1>0. /\ Resting \in Hands /\ Resting.at = "rest" /\ PairingTypes
      /\ pending \in [Sessions \X Devices -> Rows]
  BY PairingRecords DEF Hands, PairingInv, PairingTypes
<1>1. CASE \E s \in Sessions : begin_pairing(d, s)
  <2>1. PICK s \in Sessions : begin_pairing(d, s)
    BY <1>1
  <2> DEFINE h == IF Usable(s) THEN [at |-> "requested", session |-> s] ELSE Resting
  <2>2. h \in Hands /\ h.at # "told"
    BY <1>0, PairingRecords
  <2>3. initiator' = [initiator EXCEPT ![d].hand = h] /\ UNCHANGED <<pending, trusted, confirming, chosen>>
    BY <2>1 DEF begin_pairing
  <2> HIDE DEF h
  <2> QED BY <1>0, <2>2, <2>3, HandMoves
<1>2. CASE \E answered \in BOOLEAN : request_stored(d, answered)
  <2>1. PICK answered \in BOOLEAN : request_stored(d, answered)
    BY <1>2
  <2> DEFINE s == initiator[d].hand.session
             h == IF answered THEN [at |-> "waiting", session |-> s] ELSE Resting
             new == [status |-> "pending", grants |-> {}]
             row == IF pending[<<s, d>>] = NoRow THEN new ELSE pending[<<s, d>>]
  <2>2. s \in Sessions
    BY <1>0, <2>1, HandsAreTyped DEF request_stored
  <2>3. h \in Hands /\ h.at # "told"
    BY <1>0, <2>2, PairingRecords
  <2>4. /\ initiator' = [initiator EXCEPT ![d].hand = h] /\ UNCHANGED <<trusted, confirming, chosen>>
        /\ pending' = [pending EXCEPT ![<<s, d>>] = row]
    BY <2>1 DEF request_stored
  <2>5. new \in Rows /\ new.status = "pending"
    BY PairingRecords
  <2>6. /\ row \in Rows
        /\ row = pending[<<s, d>>] \/ (pending[<<s, d>>] = NoRow /\ row.status # "confirmed")
    <3>1. pending[<<s, d>>] \in Rows
      BY <1>0, <2>2
    <3> HIDE DEF new
    <3>2. CASE pending[<<s, d>>] = NoRow
      BY <2>5, <3>2
    <3>3. CASE pending[<<s, d>>] # NoRow
      BY <3>1, <3>3
    <3> QED BY <3>2, <3>3
  <2> HIDE DEF h, row, s
  <2>7. pending' \in [Sessions \X Devices -> Rows]
    BY <1>0, <2>2, <2>4, <2>6
  <2>8. \A e \in Devices, t \in Sessions :
              \/ pending'[<<t, e>>] = pending[<<t, e>>]
              \/ pending[<<t, e>>] = NoRow /\ pending'[<<t, e>>].status # "confirmed"
    BY <1>0, <2>2, <2>4, <2>6
  <2> QED BY <2>3, <2>4, <2>7, <2>8, HandMoves
<1>3. CASE pair_status(d)
  <2> DEFINE s == initiator[d].hand.session
             h == [at |-> "told", grants |-> pending[<<s, d>>].grants]
  <2>1. /\ initiator[d].hand.at = "waiting" /\ pending[<<s, d>>].status = "confirmed"
        /\ initiator' = [initiator EXCEPT ![d].hand = h]
        /\ UNCHANGED <<pending, trusted, confirming, chosen>>
    BY <1>3 DEF pair_status, Told
  <2>2. s \in Sessions
    BY <1>0, <2>1, HandsAreTyped
  <2>3. pending[<<s, d>>].grants \in SUBSET Permissions /\ pending[<<s, d>>].grants \in chosen[d]
    BY <1>0, <2>1, <2>2, HandsAreTyped DEF PairingInv
  <2>4. h \in Hands /\ h.grants \in chosen[d] /\ WasConfirmed(d)
    BY <2>1, <2>2, <2>3, PairingRecords DEF WasConfirmed
  <2> HIDE DEF h
  <2> QED BY <1>0, <2>1, <2>4, HandMoves
<1>4. CASE give_up(d)
  <2>1. initiator' = [initiator EXCEPT ![d].hand = Resting] /\ UNCHANGED <<pending, trusted, confirming, chosen>>
    BY <1>4 DEF give_up
  <2> QED BY <1>0, <2>1, HandMoves
<1> QED BY <1>1, <1>2, <1>3, <1>4

(* A device's own directory: completed with what it was told, or revoked.  *)
LEMMA DirectoryKeeps ==
    ASSUME PairingInv, NEW d \in Devices, complete_pairing(d) \/ revoke_receiver(d)
    PROVE  PairingInv'
<1> DEFINE told == initiator[d].hand.at = "told"
<1>0. /\ Resting \in Hands /\ Resting.at = "rest" /\ PairingTypes
      /\ \A e \in Devices : initiator[e].hand \in Hands /\ initiator[e].peer \in Peers
  BY PairingRecords, HandsAreTyped DEF Hands, PairingInv
<1>1. UNCHANGED <<pending, trusted, confirming, chosen>>
  BY DEF complete_pairing, revoke_receiver
<1>2. PICK h \in Hands, p \in Peers :
         /\ initiator' = [initiator EXCEPT ![d] = [hand |-> h, peer |-> p]]
         /\ h = Resting \/ h = initiator[d].hand
         /\ p.known => told /\ p.grants = initiator[d].hand.grants
  <2>1. CASE complete_pairing(d)
    <3>1. told /\ initiator' = [initiator EXCEPT ![d] = [hand |-> Resting, peer |-> Known(initiator[d].hand.grants)]]
      BY <2>1 DEF complete_pairing
    <3>2. Known(initiator[d].hand.grants) \in Peers
          /\ Known(initiator[d].hand.grants).grants = initiator[d].hand.grants
      BY <1>0, <3>1, HandsAreTyped, PairingRecords
    <3> QED BY <1>0, <3>1, <3>2
  <2>2. CASE revoke_receiver(d)
    <3>1. initiator' = [initiator EXCEPT ![d].peer = Unknown]
      BY <2>2 DEF revoke_receiver
    <3>2. [initiator[d] EXCEPT !.peer = Unknown] = [hand |-> initiator[d].hand, peer |-> Unknown]
      BY DEF PairingInv, PairingTypes
    <3>3. initiator' = [initiator EXCEPT ![d] = [hand |-> initiator[d].hand, peer |-> Unknown]]
      BY <3>1, <3>2
    <3> QED BY <1>0, <3>3, PairingRecords
  <2> QED BY <2>1, <2>2
<1> DEFINE r == [hand |-> h, peer |-> p]
<1>3. r \in [hand : Hands, peer : Peers] /\ r.hand = h /\ r.peer = p
  OBVIOUS
<1> HIDE DEF r
<1>4. /\ initiator' \in [Devices -> [hand : Hands, peer : Peers]]
      /\ initiator'[d] = r /\ \A e \in Devices \ {d} : initiator'[e] = initiator[e]
  BY <1>2, <1>3 DEF PairingInv, PairingTypes, r
<1>5. PairingTypes'
  BY <1>1, <1>4 DEF PairingInv, PairingTypes
<1>6. \A e \in Devices : WasConfirmed(e)' = WasConfirmed(e)
  BY <1>1 DEF WasConfirmed
<1>7. ASSUME NEW e \in Devices
      PROVE  /\ initiator'[e].hand.at = "told" =>
                   initiator'[e].hand.grants \in chosen[e] /\ WasConfirmed(e)
             /\ initiator'[e].peer.known =>
                   initiator'[e].peer.grants \in chosen[e] /\ WasConfirmed(e)
  <2>1. CASE e = d
    BY <1>0, <1>2, <1>3, <1>4, <2>1 DEF PairingInv
  <2>2. CASE e # d
    BY <1>4, <2>2 DEF PairingInv
  <2> QED BY <2>1, <2>2
<1> QED BY <1>1, <1>5, <1>6, <1>7 DEF PairingInv

(* A confirmation that has read the row, and the end of one.               *)
LEMMA ConfirmKeeps ==
    ASSUME PairingInv, NEW k \in Confirmers,
           \/ \E s \in Sessions, d \in Devices : \E g \in SUBSET Permissions : confirm_pairing(k, s, d, g)
           \/ confirm_saves(k) \/ confirm_marks(k)
    PROVE  PairingInv'
<1>0. PairingTypes
  BY DEF PairingInv
<1>1. CASE \E s \in Sessions, d \in Devices : \E g \in SUBSET Permissions : confirm_pairing(k, s, d, g)
  <2>1. PICK s \in Sessions, d \in Devices : \E g \in SUBSET Permissions : confirm_pairing(k, s, d, g)
    BY <1>1
  <2>2. PICK g \in SUBSET Permissions : confirm_pairing(k, s, d, g)
    BY <2>1
  <2> DEFINE c == [at |-> "read", session |-> s, device |-> d, grants |-> g]
  <2>3. c \in Confirmations /\ c.grants = g /\ c.device = d
    BY DEF Confirmations
  <2>4. /\ confirming' = [confirming EXCEPT ![k] = c]
        /\ chosen' = [chosen EXCEPT ![d] = chosen[d] \cup {g}]
        /\ UNCHANGED <<pending, trusted, initiator>>
    BY <2>2 DEF confirm_pairing
  <2> HIDE DEF c
  <2>5. /\ chosen' \in [Devices -> SUBSET SUBSET Permissions] /\ g \in chosen'[d]
        /\ \A e \in Devices : chosen[e] \subseteq chosen'[e]
    BY <1>0, <2>4 DEF PairingTypes
  <2>6. /\ confirming' \in [Confirmers -> Confirmations] /\ confirming'[k] = c
        /\ \A j \in Confirmers \ {k} : confirming'[j] = confirming[j]
    BY <1>0, <2>3, <2>4 DEF PairingTypes
  <2>7. PairingTypes'
    BY <1>0, <2>4, <2>5, <2>6 DEF PairingTypes
  <2>8. ASSUME NEW j \in Confirmers, confirming'[j].at # "rest"
        PROVE  confirming'[j].grants \in chosen'[confirming'[j].device]
    <3>1. CASE j = k
      BY <2>3, <2>5, <2>6, <3>1
    <3>2. CASE j # k
      BY <1>0, <2>5, <2>6, <2>8, <3>2, HandsAreTyped DEF PairingInv
    <3> QED BY <3>1, <3>2
  <2>9. \A e \in Devices : WasConfirmed(e)' = WasConfirmed(e)
    BY <2>4 DEF WasConfirmed
  <2> QED BY <2>4, <2>5, <2>7, <2>8, <2>9 DEF PairingInv
<1>2. CASE confirm_saves(k)
  <2> DEFINE d == confirming[k].device
             g == confirming[k].grants
             c == [confirming[k] EXCEPT !.at = "saved"]
  <2>1. /\ confirming[k].at = "read" /\ trusted' = [trusted EXCEPT ![d] = Known(g)]
        /\ confirming' = [confirming EXCEPT ![k] = c] /\ UNCHANGED <<pending, initiator, chosen>>
    BY <1>2 DEF confirm_saves
  <2>2. d \in Devices /\ g \in SUBSET Permissions /\ g \in chosen[d]
    BY <1>0, <2>1, HandsAreTyped DEF PairingInv
  <2>3. c \in Confirmations /\ c.device = d /\ c.grants = g /\ c.at = "saved"
    <3>1. confirming[k] \in Confirmations /\ confirming[k] # Resting
      BY <1>0, <2>1, PairingRecords DEF PairingTypes
    <3> QED BY <3>1 DEF Confirmations
  <2>4. Known(g) \in Peers /\ Known(g).grants = g
    BY <2>2, PairingRecords
  <2> HIDE DEF c, d, g
  <2>5. /\ trusted' \in [Devices -> Peers] /\ trusted'[d] = Known(g)
        /\ \A e \in Devices \ {d} : trusted'[e] = trusted[e]
    BY <1>0, <2>1, <2>2, <2>4 DEF PairingTypes
  <2>6. /\ confirming' \in [Confirmers -> Confirmations] /\ confirming'[k] = c
        /\ \A j \in Confirmers \ {k} : confirming'[j] = confirming[j]
    BY <1>0, <2>1, <2>3 DEF PairingTypes
  <2>7. PairingTypes'
    BY <1>0, <2>1, <2>5, <2>6 DEF PairingTypes
  <2>8. \A j \in Confirmers :
           confirming'[j].at # "rest" => confirming'[j].grants \in chosen[confirming'[j].device]
    BY <2>2, <2>3, <2>6 DEF PairingInv
  <2>9. \A e \in Devices : WasConfirmed(e)' = WasConfirmed(e)
    BY <2>1 DEF WasConfirmed
  <2>10. \A e \in Devices : trusted'[e].known => trusted'[e].grants \in chosen[e]
    BY <2>2, <2>4, <2>5 DEF PairingInv
  <2> QED BY <2>1, <2>7, <2>8, <2>9, <2>10 DEF PairingInv
<1>3. CASE confirm_marks(k)
  <2> DEFINE d == confirming[k].device
             g == confirming[k].grants
             s == confirming[k].session
             row == [status |-> "confirmed", grants |-> g]
  <2>1. /\ confirming[k].at = "saved" /\ pending' = [pending EXCEPT ![<<s, d>>] = row]
        /\ confirming' = [confirming EXCEPT ![k] = Resting] /\ UNCHANGED <<trusted, initiator, chosen>>
    BY <1>3 DEF confirm_marks
  <2>2. d \in Devices /\ s \in Sessions /\ g \in SUBSET Permissions /\ g \in chosen[d]
    BY <1>0, <2>1, HandsAreTyped DEF PairingInv
  <2>3. row \in Rows /\ row.grants = g /\ row.status = "confirmed"
    BY <2>2, PairingRecords
  <2> HIDE DEF row, d, g, s
  <2>4. /\ pending' \in [Sessions \X Devices -> Rows] /\ pending'[<<s, d>>] = row
        /\ \A e \in Devices, t \in Sessions : <<t, e>> # <<s, d>> => pending'[<<t, e>>] = pending[<<t, e>>]
    BY <1>0, <2>1, <2>2, <2>3 DEF PairingTypes
  <2>5. /\ confirming' \in [Confirmers -> Confirmations] /\ confirming'[k] = Resting
        /\ \A j \in Confirmers \ {k} : confirming'[j] = confirming[j]
    BY <1>0, <2>1 DEF PairingTypes, Confirmations
  <2>6. PairingTypes'
    BY <1>0, <2>1, <2>4, <2>5 DEF PairingTypes
  <2>7. \A e \in Devices : WasConfirmed(e) => WasConfirmed(e)'
    BY <2>3, <2>4 DEF WasConfirmed
  <2>8. \A e \in Devices, t \in Sessions :
           pending'[<<t, e>>].status = "confirmed" => pending'[<<t, e>>].grants \in chosen[e]
    <3> SUFFICES ASSUME NEW e \in Devices, NEW t \in Sessions, pending'[<<t, e>>].status = "confirmed"
                 PROVE  pending'[<<t, e>>].grants \in chosen[e]
      OBVIOUS
    <3>1. CASE t = s /\ e = d
      BY <2>2, <2>3, <2>4, <3>1
    <3>2. CASE ~(t = s /\ e = d)
      BY <2>4, <3>2 DEF PairingInv
    <3> QED BY <3>1, <3>2
  <2>9. \A j \in Confirmers :
           confirming'[j].at # "rest" => confirming'[j].grants \in chosen[confirming'[j].device]
    BY <2>5, PairingRecords DEF PairingInv
  <2> QED BY <2>1, <2>6, <2>7, <2>8, <2>9 DEF PairingInv
<1> QED BY <1>1, <1>2, <1>3

(* The receiver revokes a device, or something happens to a session.        *)
LEMMA ReceiverKeeps ==
    ASSUME PairingInv,
           \/ \E d \in Devices : revoke_device(d)
           \/ \E s \in Sessions : \/ create_pairing_session(s) \/ cancel_pairing_session(s)
                                  \/ session_expires(s) \/ wrong_code(s)
    PROVE  PairingInv'
<1>1. UNCHANGED <<pending, confirming, initiator, chosen>>
  BY DEF revoke_device, create_pairing_session, cancel_pairing_session, session_expires, wrong_code
<1>2. trusted' = trusted \/ \E d \in Devices : trusted' = [trusted EXCEPT ![d] = Unknown]
  BY DEF revoke_device, create_pairing_session, cancel_pairing_session, session_expires, wrong_code
<1>3. /\ trusted' \in [Devices -> Peers]
      /\ \A d \in Devices : trusted'[d].known => trusted'[d] = trusted[d]
  BY <1>2, PairingRecords DEF PairingInv, PairingTypes
<1>4. PairingTypes'
  BY <1>1, <1>3 DEF PairingInv, PairingTypes
<1>5. \A e \in Devices : WasConfirmed(e)' = WasConfirmed(e)
  BY <1>1 DEF WasConfirmed
<1> QED BY <1>1, <1>3, <1>4, <1>5 DEF PairingInv

(* Nobody is trusted, and nothing has been asked.                          *)
LEMMA PairingStarts == PairingInit => PairingInv
<1> SUFFICES ASSUME PairingInit PROVE PairingInv
  OBVIOUS
<1> DEFINE fresh == [hand |-> Resting, peer |-> Unknown]
<1>1. fresh \in [hand : Hands, peer : Peers] /\ fresh.hand = Resting /\ fresh.peer = Unknown
  BY PairingRecords DEF Hands
<1>2. initiator = [d \in Devices |-> fresh]
  BY DEF PairingInit
<1> HIDE DEF fresh
<1>3. PairingTypes
  BY <1>1, <1>2, PairingRecords DEF PairingInit, PairingTypes, Rows, Confirmations
<1> QED BY <1>1, <1>2, <1>3, PairingRecords DEF PairingInit, PairingInv

(* Every transaction and every message of a pairing keeps it.              *)
LEMMA PairingKeeps == PairingInv /\ [PairingNext]_pairingVars => PairingInv'
<1> SUFFICES ASSUME PairingInv, [PairingNext]_pairingVars PROVE PairingInv'
  OBVIOUS
<1>1. CASE UNCHANGED pairingVars
  BY <1>1 DEF pairingVars, PairingInv, PairingTypes, WasConfirmed
<1>2. CASE PairingNext
  <2>1. CASE \E s \in Sessions, d \in Devices : begin_pairing(d, s)
    BY <2>1, DeviceKeeps
  <2>2. CASE \E s \in Sessions, d \in Devices, k \in Confirmers : \E g \in SUBSET Permissions :
                confirm_pairing(k, s, d, g)
    BY <2>2, ConfirmKeeps
  <2>3. CASE \E k \in Confirmers : confirm_saves(k) \/ confirm_marks(k)
    BY <2>3, ConfirmKeeps
  <2>4. CASE \E d \in Devices : (\E answered \in BOOLEAN : request_stored(d, answered))
                                \/ pair_status(d) \/ give_up(d)
    BY <2>4, DeviceKeeps
  <2>5. CASE \E d \in Devices : complete_pairing(d) \/ revoke_receiver(d)
    BY <2>5, DirectoryKeeps
  <2> QED BY <1>2, <2>1, <2>2, <2>3, <2>4, <2>5, ReceiverKeeps DEF PairingNext
<1> QED BY <1>1, <1>2

(* Trust and permissions are those the receiver's user has chosen for this *)
(* very device, whatever confirmations, requests, cancellations and        *)
(* revocations overlap.                                                    *)
THEOREM PermissionsAreChosen == PairingSpec => []TrustIsChosen
<1>1. PairingInv => TrustIsChosen
  BY DEF PairingInv, TrustIsChosen, WasConfirmed
<1> QED BY <1>1, PairingStarts, PairingKeeps, PTL DEF PairingSpec

(***************************************************************************)
(* The LAN.                                                                *)
(***************************************************************************)
\* What a call may end with that says nothing of the receiving host's state.
Plain == Failures \cup {"ok"}
Replies == Plain \cup {NoAnswer, "accepted"} \cup Open \cup Closed

CallsOf(callers, requests) ==
    [caller : callers, req : requests, expires : Nat, server : ServerStep, grants : SUBSET Grantable,
     answer : Replies, abandoned : BOOLEAN]
Answered == [answer : Replies, expires : Nat]

LanTypes(callers, requests) ==
    /\ time \in Nat
    /\ granted \in SUBSET Grantable
    /\ conn \in [Conns -> {Free} \cup CallsOf(callers, requests)]
    /\ DOMAIN seen \subseteq requests
    /\ seen \in [DOMAIN seen -> Answered]

\* A request and an answer to it that a connection carries, or that is remembered.
Said(req, answer) ==
    \/ \E c \in Conns : /\ conn[c].server \in {"handled", "finished"}
                        /\ conn[c].req = req /\ conn[c].answer = answer
    \/ req \in DOMAIN seen /\ seen[req].answer = answer

Query == [type |-> "permissions.query", id |-> ""]
\* A step that opens no call.
CallsKept ==
    \A c \in Conns : conn'[c] # Free =>
       conn[c] # Free /\ conn'[c].caller = conn[c].caller /\ conn'[c].req = conn[c].req

\* Nobody says anything but what was said before, and that a call has failed
\* or that permissions were read.
NothingNewSaid == \A req, answer : Said(req, answer)' => Said(req, answer) \/ answer \in Plain

----------------------------------------------------------------------------
(* What is known of a connection by its type.                              *)
LEMMA ConnFields ==
    ASSUME NEW callers, NEW requests, LanTypes(callers, requests), NEW c \in Conns
    PROVE  /\ conn[c] = Free \/ conn[c] \in CallsOf(callers, requests)
           /\ IsOpen(c) <=> conn[c] # Free
           /\ IsOpen(c) =>
                 /\ conn[c] \in CallsOf(callers, requests)
                 /\ conn[c].caller \in callers /\ conn[c].req \in requests
                 /\ conn[c].expires \in Nat /\ conn[c].server \in ServerStep
                 /\ conn[c].answer \in Replies /\ conn[c].abandoned \in BOOLEAN
<1>1. conn[c] = Free \/ conn[c] \in CallsOf(callers, requests)
  BY DEF LanTypes
<1>2. Free.server = "free"
  BY DEF Free
<1>3. conn[c] \in CallsOf(callers, requests) =>
                 /\ conn[c].server # "free"
                 /\ conn[c].caller \in callers /\ conn[c].req \in requests
                 /\ conn[c].expires \in Nat /\ conn[c].server \in ServerStep
                 /\ conn[c].answer \in Replies /\ conn[c].abandoned \in BOOLEAN
  BY DEF CallsOf, ServerStep
<1> QED BY <1>1, <1>2, <1>3 DEF IsOpen

(* A thread that ends its connection, or hands an answer on.               *)
LEMMA CallMoves ==
    ASSUME NEW callers, NEW requests, LanTypes(callers, requests), NEW c \in Conns, IsOpen(c),
           NEW step \in ServerStep, NEW answer \in Replies
    PROVE  LET k == [conn[c] EXCEPT !.server = step, !.answer = answer] IN
           /\ k \in CallsOf(callers, requests)
           /\ k.caller = conn[c].caller /\ k.req = conn[c].req
           /\ k.server = step /\ k.answer = answer /\ k.abandoned = conn[c].abandoned
<1>1. conn[c] \in CallsOf(callers, requests)
  BY ConnFields
<1> QED BY <1>1 DEF CallsOf

(* The end of a thread, with or without a caller who still listens.        *)
LEMMA ServeEnds ==
    ASSUME NEW callers, NEW requests, LanTypes(callers, requests), NEW c \in Conns, IsOpen(c),
           NEW answer \in Replies
    PROVE  /\ EndServe(c, answer) \in {Free} \cup CallsOf(callers, requests)
           /\ EndServe(c, answer) # Free =>
                 /\ EndServe(c, answer).caller = conn[c].caller
                 /\ EndServe(c, answer).req = conn[c].req
                 /\ EndServe(c, answer).server = "finished"
                 /\ EndServe(c, answer).answer = answer
<1>1. "finished" \in ServerStep
  BY DEF ServerStep
<1>2. CASE conn[c].abandoned
  BY <1>2 DEF EndServe
<1>3. CASE ~conn[c].abandoned
  <2> DEFINE k == [conn[c] EXCEPT !.server = "finished", !.answer = answer]
  <2>1. /\ k \in CallsOf(callers, requests)
        /\ k.caller = conn[c].caller /\ k.req = conn[c].req /\ k.server = "finished" /\ k.answer = answer
    BY <1>1, ConnFields DEF CallsOf
  <2>2. EndServe(c, answer) = k
    BY <1>3 DEF EndServe
  <2> HIDE DEF k
  <2> QED BY <2>1, <2>2
<1> QED BY <1>2, <1>3

(* One connection changes, by a step that knows no new answer.             *)
LEMMA OneCallChanges ==
    ASSUME NEW callers, NEW requests, LanTypes(callers, requests), NEW c \in Conns,
           NEW k \in {Free} \cup CallsOf(callers, requests),
           conn' = [conn EXCEPT ![c] = k], time' \in Nat, granted' \in SUBSET Grantable,
           DOMAIN seen' \subseteq requests, seen' \in [DOMAIN seen' -> Answered]
    PROVE  /\ LanTypes(callers, requests)'
           /\ conn'[c] = k /\ \A b \in Conns \ {c} : conn'[b] = conn[b]
BY DEF LanTypes

(* The same, for a connection that carries an answer known before.         *)
LEMMA OneCallCarries ==
    ASSUME NEW callers, NEW requests, LanTypes(callers, requests), NEW c \in Conns,
           NEW k \in {Free} \cup CallsOf(callers, requests),
           conn'[c] = k, \A b \in Conns \ {c} : conn'[b] = conn[b],
           k # Free => IsOpen(c) /\ k.caller = conn[c].caller /\ k.req = conn[c].req,
           k # Free /\ k.server \in {"handled", "finished"} =>
              Said(k.req, k.answer) \/ k.answer \in Plain,
           \A r \in DOMAIN seen' : Said(r, seen'[r].answer)
    PROVE  CallsKept /\ NothingNewSaid
<1>1. Free.server = "free"
  BY DEF Free
<1>2. CallsKept
  BY ConnFields DEF CallsKept
<1>3. ASSUME NEW req, NEW answer, Said(req, answer)' PROVE Said(req, answer) \/ answer \in Plain
  <2>1. CASE req \in DOMAIN seen' /\ seen'[req].answer = answer
    BY <2>1
  <2>2. CASE \E b \in Conns : /\ conn'[b].server \in {"handled", "finished"}
                              /\ conn'[b].req = req /\ conn'[b].answer = answer
    <3>1. PICK b \in Conns : /\ conn'[b].server \in {"handled", "finished"}
                             /\ conn'[b].req = req /\ conn'[b].answer = answer
      BY <2>2
    <3>2. CASE b = c
      BY <1>1, <3>1, <3>2
    <3>3. CASE b # c
      BY <3>1, <3>3 DEF Said
    <3> QED BY <3>2, <3>3
  <2> QED BY <1>3, <2>1, <2>2 DEF Said
<1> QED BY <1>2, <1>3 DEF NothingNewSaid

\* What every step of the LAN by itself leaves true.
Carried(callers, requests) == LanTypes(callers, requests)' /\ CallsKept /\ NothingNewSaid

(* A thread that ends without having said anything.                        *)
LEMMA ThreadEnds ==
    ASSUME NEW callers, NEW requests, LanTypes(callers, requests), NEW c \in Conns, IsOpen(c),
           NEW answer \in Replies, Said(conn[c].req, answer) \/ answer \in Plain,
           conn' = [conn EXCEPT ![c] = EndServe(c, answer)],
           UNCHANGED <<time, granted>>,
           DOMAIN seen' \subseteq requests, seen' \in [DOMAIN seen' -> Answered],
           \A r \in DOMAIN seen' : Said(r, seen'[r].answer)
    PROVE  Carried(callers, requests) /\ \A b \in Conns \ {c} : conn'[b] = conn[b]
<1> DEFINE k == EndServe(c, answer)
<1>1. /\ k \in {Free} \cup CallsOf(callers, requests)
      /\ k # Free => /\ k.caller = conn[c].caller /\ k.req = conn[c].req
                     /\ k.server = "finished" /\ k.answer = answer
  BY ServeEnds
<1> HIDE DEF k
<1>2. conn' = [conn EXCEPT ![c] = k] /\ time' \in Nat /\ granted' \in SUBSET Grantable
  BY DEF LanTypes, k
<1>3. LanTypes(callers, requests)' /\ conn'[c] = k /\ \A b \in Conns \ {c} : conn'[b] = conn[b]
  BY <1>1, <1>2 DEF LanTypes
<1>4. CallsKept /\ NothingNewSaid
  BY <1>1, <1>3, OneCallCarries
<1> QED BY <1>3, <1>4 DEF Carried

(* The rows of the server's memory are answers that were said.             *)
LEMMA MemoryIsSaid ==
    ASSUME NEW callers, NEW requests, LanTypes(callers, requests), NEW r \in DOMAIN seen
    PROVE  /\ Said(r, seen[r].answer) /\ seen[r] \in Answered
           /\ seen[r].answer \in Replies /\ seen[r].expires \in Nat
<1>1. seen[r] \in Answered
  BY DEF LanTypes
<1> QED BY <1>1 DEF Said, Answered

(* The server thread: failing, checking, remembering, reading permissions. *)
LEMMA CheckCarries ==
    ASSUME NEW callers, NEW requests, LanTypes(callers, requests), NEW c \in Conns, check(c)
    PROVE  Carried(callers, requests) /\ \A b \in Conns \ {c} : conn'[b] = conn[b]
<1> DEFINE req == conn[c].req
           refused == "server" \notin paired \/ conn[c].expires <= time \/ ~Allowed(req, granted)
           left == [r \in {x \in DOMAIN seen : Remembered(x)} |-> seen[r]]
<1>1. IsOpen(c) /\ UNCHANGED <<time, granted>> /\ seen' = (IF refused THEN seen ELSE left)
  BY DEF check, ServerAt
<1>2. /\ DOMAIN left \subseteq DOMAIN seen
      /\ \A r \in DOMAIN left : left[r] = seen[r]
  OBVIOUS
<1>3. left \in [DOMAIN left -> Answered] /\ DOMAIN left \subseteq requests
  BY <1>2, MemoryIsSaid DEF LanTypes
<1>4. DOMAIN seen' \subseteq requests /\ seen' \in [DOMAIN seen' -> Answered]
  BY <1>1, <1>3 DEF LanTypes
<1>5. \A r \in DOMAIN seen' : Said(r, seen'[r].answer)
  BY <1>1, <1>2, MemoryIsSaid
<1>6. CASE refused
  <2>1. conn' = [conn EXCEPT ![c] = EndServe(c, "permanent")]
    BY <1>6 DEF check
  <2>2. "permanent" \in Plain /\ "permanent" \in Replies
    BY DEF Plain, Failures, Replies
  <2> QED BY <1>1, <1>4, <1>5, <2>1, <2>2, ThreadEnds
<1>7. CASE ~refused /\ Remembered(req)
  <2>1. conn' = [conn EXCEPT ![c] = EndServe(c, seen[req].answer)] /\ req \in DOMAIN seen
    BY <1>7 DEF check, Remembered
  <2>2. seen[req].answer \in Replies /\ Said(req, seen[req].answer)
    BY <2>1, MemoryIsSaid
  <2> QED BY <1>1, <1>4, <1>5, <2>1, <2>2, ThreadEnds
<1>8. CASE ~refused /\ ~Remembered(req)
  <2> DEFINE g == IF PermissionFor(req.type) = "" THEN granted ELSE {}
             k == [conn[c] EXCEPT !.server = "authorised", !.grants = g]
  <2>1. conn' = [conn EXCEPT ![c] = k]
    BY <1>8 DEF check
  <2>2. g \in SUBSET Grantable /\ conn[c] \in CallsOf(callers, requests)
    BY <1>1, ConnFields DEF LanTypes
  <2>3. /\ k \in CallsOf(callers, requests) /\ k.caller = conn[c].caller /\ k.req = conn[c].req
        /\ k.server = "authorised"
    <3> HIDE DEF g
    <3> QED BY <2>2 DEF CallsOf, ServerStep
  <2> HIDE DEF k
  <2>4. LanTypes(callers, requests)' /\ conn'[c] = k /\ \A b \in Conns \ {c} : conn'[b] = conn[b]
    BY <1>1, <1>4, <2>1, <2>3, OneCallChanges DEF LanTypes
  <2>5. CallsKept /\ NothingNewSaid
    BY <1>1, <1>5, <2>3, <2>4, OneCallCarries
  <2> QED BY <2>4, <2>5 DEF Carried
<1> QED BY <1>6, <1>7, <1>8

(* remember_response keeps what the thread says, or what another one said. *)
LEMMA RememberCarries ==
    ASSUME NEW callers, NEW requests, LanTypes(callers, requests), NEW c \in Conns, remember(c)
    PROVE  Carried(callers, requests) /\ \A b \in Conns \ {c} : conn'[b] = conn[b]
<1> DEFINE req == conn[c].req
           answer == conn[c].answer
           row == [answer |-> answer, expires |-> conn[c].expires]
           more == [r \in DOMAIN seen \cup {req} |-> IF r = req THEN row ELSE seen[r]]
           less == [r \in DOMAIN seen \ {req} |-> seen[r]]
<1>1. IsOpen(c) /\ conn[c].server = "handled" /\ UNCHANGED <<time, granted>>
  BY DEF remember, ServerAt
<1>2. req \in requests /\ answer \in Replies /\ conn[c].expires \in Nat /\ Said(req, answer)
  BY <1>1, ConnFields DEF Said
<1>3. row \in Answered /\ row.answer = answer
  BY <1>2 DEF Answered
<1> HIDE DEF row
<1>4. CASE seen' = more /\ conn' = [conn EXCEPT ![c] = EndServe(c, answer)]
  <2>1. DOMAIN more = DOMAIN seen \cup {req} /\ \A r \in DOMAIN more : more[r] = IF r = req THEN row ELSE seen[r]
    OBVIOUS
  <2>2. DOMAIN more \subseteq requests /\ more \in [DOMAIN more -> Answered]
    BY <1>2, <1>3, MemoryIsSaid DEF LanTypes
  <2>3. \A r \in DOMAIN more : Said(r, more[r].answer)
    BY <1>2, <1>3, <2>1, MemoryIsSaid
  <2> HIDE DEF more
  <2> QED BY <1>1, <1>2, <1>4, <2>2, <2>3, ThreadEnds
<1>5. CASE seen' = seen /\ conn' = [conn EXCEPT ![c] = EndServe(c, answer)]
  <2>1. \A r \in DOMAIN seen : Said(r, seen[r].answer)
    BY MemoryIsSaid
  <2> QED BY <1>1, <1>2, <1>5, <2>1, ThreadEnds DEF LanTypes
<1>6. CASE seen' = less /\ conn' = [conn EXCEPT ![c] = EndServe(c, "unreachable")]
  <2>1. DOMAIN less \subseteq DOMAIN seen /\ \A r \in DOMAIN less : less[r] = seen[r]
    OBVIOUS
  <2>2. DOMAIN less \subseteq requests /\ less \in [DOMAIN less -> Answered]
    BY MemoryIsSaid DEF LanTypes
  <2>3. \A r \in DOMAIN less : Said(r, less[r].answer)
    BY <2>1, MemoryIsSaid
  <2> HIDE DEF less
  <2>4. "unreachable" \in Plain /\ "unreachable" \in Replies
    BY DEF Plain, Failures, Replies
  <2> QED BY <1>1, <1>6, <2>2, <2>3, <2>4, ThreadEnds
<1>7. \/ seen' = more /\ conn' = [conn EXCEPT ![c] = EndServe(c, answer)]
      \/ seen' = seen /\ conn' = [conn EXCEPT ![c] = EndServe(c, answer)]
      \/ seen' = less /\ conn' = [conn EXCEPT ![c] = EndServe(c, "unreachable")]
  BY DEF remember, row
<1> QED BY <1>4, <1>5, <1>6, <1>7

(* No connection, or one that breaks, and the permissions that are read.   *)
LEMMA FailureCarries ==
    ASSUME NEW callers, NEW requests, LanTypes(callers, requests), NEW c \in Conns,
           connection_fails(c) \/ handle_permissions_query(c)
    PROVE  Carried(callers, requests) /\ \A b \in Conns \ {c} : conn'[b] = conn[b]
<1> DEFINE answer == IF connection_fails(c) THEN "unreachable" ELSE "ok"
<1>1. answer \in Plain /\ answer \in Replies
  BY DEF Plain, Failures, Replies
<1>2. IsOpen(c) /\ UNCHANGED <<time, granted, seen>>
  BY DEF connection_fails, handle_permissions_query, Handle, ServerAt
<1>3. conn' = [conn EXCEPT ![c] = EndServe(c, answer)]
  BY DEF connection_fails, handle_permissions_query, Handle, FreshTypes
<1>4. /\ DOMAIN seen' \subseteq requests /\ seen' \in [DOMAIN seen' -> Answered]
      /\ \A r \in DOMAIN seen' : Said(r, seen'[r].answer)
  BY <1>2, MemoryIsSaid DEF LanTypes
<1> HIDE DEF answer
<1> QED BY <1>1, <1>2, <1>3, <1>4, ThreadEnds

(* Whatever a server thread does by itself says nothing new.               *)
LEMMA ThreadCarries ==
    ASSUME NEW callers, NEW requests, LanTypes(callers, requests), NEW c \in Conns, Thread(c)
    PROVE  Carried(callers, requests) /\ \A b \in Conns \ {c} : conn'[b] = conn[b]
BY FailureCarries, CheckCarries, RememberCarries DEF Thread

\* What may become of a connection while its thread does nothing.
Opened(c, who, req) == conn[c] = Free /\ conn'[c] # Free /\ conn'[c].caller = who /\ conn'[c].req = req
Left(c) == \/ conn[c].server = "finished" /\ conn'[c] = Free
           \/ conn[c].server # "finished" /\ conn'[c] = [conn[c] EXCEPT !.abandoned = TRUE]

Dials(who, req, ttl) ==
    /\ FreeConns # {}
    /\ conn' = [conn EXCEPT ![NextConn] = Asked(who, req, ttl)]
    /\ UNCHANGED <<time, granted, seen>>

(* A client opens a connection, or refuses the request itself.             *)
LEMMA CallOpens ==
    ASSUME NEW callers, NEW requests, LanTypes(callers, requests),
           NEW who \in callers, NEW req \in requests, NEW ttl \in Nat, Dials(who, req, ttl)
    PROVE  /\ LanTypes(callers, requests)' /\ NothingNewSaid
           /\ \E n \in Conns : Opened(n, who, req) /\ \A b \in Conns \ {n} : conn'[b] = conn[b]
<1>0. /\ FreeConns # {} /\ conn' = [conn EXCEPT ![NextConn] = Asked(who, req, ttl)]
      /\ time' = time /\ granted' = granted /\ seen' = seen
  BY DEF Dials
<1> DEFINE n == NextConn
           k == Asked(who, req, ttl)
<1>1. n \in Conns /\ conn[n] = Free
  <2>1. n \in FreeConns
    BY <1>0 DEF NextConn
  <2> QED BY <2>1, ConnFields DEF FreeConns
<1>2. /\ k \in CallsOf(callers, requests) /\ k.caller = who /\ k.req = req
      /\ k.server = "connected" \/ (k.server = "finished" /\ k.answer = "permanent")
  <2>1. time + ttl \in Nat
    BY DEF LanTypes
  <2>2. NoAnswer \in Replies /\ "permanent" \in Replies
    BY DEF Replies, Plain, Failures
  <2>3. /\ NewCall(who, req, ttl) \in CallsOf(callers, requests)
        /\ NewCall(who, req, ttl).caller = who /\ NewCall(who, req, ttl).req = req
        /\ NewCall(who, req, ttl).server = "connected"
    BY <2>1, <2>2 DEF NewCall, CallsOf, ServerStep
  <2> DEFINE call == NewCall(who, req, ttl)
  <2>4. k = call \/ k = [call EXCEPT !.server = "finished", !.answer = "permanent"]
    BY DEF Asked
  <2> HIDE DEF call, k
  <2>5. /\ call \in CallsOf(callers, requests) /\ call.caller = who /\ call.req = req
        /\ call.server = "connected"
    BY <2>3 DEF call
  <2>6. CASE k = call
    BY <2>5, <2>6
  <2>7. CASE k = [call EXCEPT !.server = "finished", !.answer = "permanent"]
    BY <2>2, <2>5, <2>7 DEF CallsOf, ServerStep
  <2> QED BY <2>4, <2>6, <2>7
<1>3. k # Free
  BY <1>2 DEF Free
<1>4. "permanent" \in Plain
  BY DEF Plain, Failures
<1> HIDE DEF n, k
<1>5. conn' = [conn EXCEPT ![n] = k]
  BY <1>0 DEF n, k
<1>6. LanTypes(callers, requests)' /\ conn'[n] = k /\ \A b \in Conns \ {n} : conn'[b] = conn[b]
  BY <1>0, <1>1, <1>2, <1>5 DEF LanTypes
<1>7. Opened(n, who, req)
  BY <1>1, <1>2, <1>3, <1>6 DEF Opened
<1>8. NothingNewSaid
  <2> SUFFICES ASSUME NEW r, NEW answer, Said(r, answer)' PROVE Said(r, answer) \/ answer \in Plain
    BY DEF NothingNewSaid
  <2>1. CASE r \in DOMAIN seen' /\ seen'[r].answer = answer
    BY <1>0, <2>1 DEF Said
  <2>2. CASE \E b \in Conns : /\ conn'[b].server \in {"handled", "finished"}
                              /\ conn'[b].req = r /\ conn'[b].answer = answer
    <3>1. PICK b \in Conns : /\ conn'[b].server \in {"handled", "finished"}
                             /\ conn'[b].req = r /\ conn'[b].answer = answer
      BY <2>2
    <3>2. CASE b = n
      BY <1>2, <1>4, <1>6, <3>1, <3>2
    <3>3. CASE b # n
      BY <1>6, <3>1, <3>3 DEF Said
    <3> QED BY <3>2, <3>3
  <2> QED BY <2>1, <2>2 DEF Said
<1> QED BY <1>1, <1>6, <1>7, <1>8

(* A call ends: with what its connection says, or because nobody waits.    *)
LEMMA CallReturns ==
    ASSUME NEW callers, NEW requests, LanTypes(callers, requests), NEW c \in Conns, NEW outcome,
           Return(c, outcome), UNCHANGED <<time, granted, seen>>
    PROVE  /\ Carried(callers, requests) /\ Left(c) /\ \A b \in Conns \ {c} : conn'[b] = conn[b]
           /\ conn[c] \in CallsOf(callers, requests)
           /\ outcome = "unreachable" \/ Said(conn[c].req, outcome)
<1>1. IsOpen(c) /\ conn[c] \in CallsOf(callers, requests)
  BY ConnFields DEF Return, Waiting
<1>2. outcome = "unreachable" \/ Said(conn[c].req, outcome)
  BY DEF Return, Outcomes, Said
<1> DEFINE k == IF conn[c].server = "finished" THEN Free ELSE [conn[c] EXCEPT !.abandoned = TRUE]
<1>3. conn' = [conn EXCEPT ![c] = k]
  BY DEF Return
<1>4. /\ k \in {Free} \cup CallsOf(callers, requests)
      /\ k # Free => /\ k.caller = conn[c].caller /\ k.req = conn[c].req
                     /\ k.server = conn[c].server /\ k.answer = conn[c].answer
  BY <1>1 DEF CallsOf
<1>5. /\ DOMAIN seen' \subseteq requests /\ seen' \in [DOMAIN seen' -> Answered]
      /\ \A r \in DOMAIN seen' : Said(r, seen'[r].answer)
  BY MemoryIsSaid DEF LanTypes
<1>6. k = Free \/ k.server = conn[c].server
  BY <1>4
<1>7. \/ conn[c].server = "finished" /\ k = Free
      \/ conn[c].server # "finished" /\ k = [conn[c] EXCEPT !.abandoned = TRUE]
  OBVIOUS
<1> HIDE DEF k
<1>8. LanTypes(callers, requests)' /\ conn'[c] = k /\ \A b \in Conns \ {c} : conn'[b] = conn[b]
  BY <1>3, <1>4 DEF LanTypes
<1>9. k # Free /\ k.server \in {"handled", "finished"} => Said(k.req, k.answer)
  BY <1>4 DEF Said
<1>10. CallsKept /\ NothingNewSaid
  BY <1>1, <1>4, <1>5, <1>8, <1>9, OneCallCarries
<1> QED BY <1>1, <1>2, <1>7, <1>8, <1>10 DEF Carried, Left

(* A handler answers, and its thread ends or has the answer remembered.    *)
LEMMA CallHandled ==
    ASSUME NEW callers, NEW requests, LanTypes(callers, requests), NEW c \in Conns,
           NEW answer \in Replies, Handle(c, answer), UNCHANGED <<time, granted, seen>>
    PROVE  /\ LanTypes(callers, requests)' /\ CallsKept /\ \A b \in Conns \ {c} : conn'[b] = conn[b]
           /\ \A r, a : Said(r, a)' => Said(r, a) \/ (r = conn[c].req /\ a = answer)
<1>1. IsOpen(c) /\ conn[c] \in CallsOf(callers, requests)
  BY ConnFields DEF Handle, ServerAt
<1> DEFINE k == IF conn[c].req.type \in FreshTypes THEN EndServe(c, answer)
                ELSE [conn[c] EXCEPT !.server = "handled", !.answer = answer]
<1>2. conn' = [conn EXCEPT ![c] = k]
  BY DEF Handle
<1>3. /\ k \in {Free} \cup CallsOf(callers, requests)
      /\ k # Free => /\ k.caller = conn[c].caller /\ k.req = conn[c].req /\ k.answer = answer
  <2>1. CASE conn[c].req.type \in FreshTypes
    BY <1>1, <2>1, ServeEnds
  <2>2. CASE conn[c].req.type \notin FreshTypes
    BY <1>1, <2>2 DEF CallsOf, ServerStep
  <2> QED BY <2>1, <2>2
<1> HIDE DEF k
<1>4. LanTypes(callers, requests)' /\ conn'[c] = k /\ \A b \in Conns \ {c} : conn'[b] = conn[b]
  BY <1>2, <1>3 DEF LanTypes
<1>5. CallsKept
  BY <1>1, <1>3, <1>4, ConnFields DEF CallsKept
<1>6. ASSUME NEW r, NEW a, Said(r, a)' PROVE Said(r, a) \/ (r = conn[c].req /\ a = answer)
  <2>1. CASE r \in DOMAIN seen' /\ seen'[r].answer = a
    BY <2>1 DEF Said
  <2>2. CASE \E b \in Conns : /\ conn'[b].server \in {"handled", "finished"}
                              /\ conn'[b].req = r /\ conn'[b].answer = a
    <3>1. PICK b \in Conns : /\ conn'[b].server \in {"handled", "finished"}
                             /\ conn'[b].req = r /\ conn'[b].answer = a
      BY <2>2
    <3>2. CASE b = c
      BY <1>3, <1>4, <3>1, <3>2 DEF Free
    <3>3. CASE b # c
      BY <1>4, <3>1, <3>3 DEF Said
    <3> QED BY <3>2, <3>3
  <2> QED BY <1>6, <2>1, <2>2 DEF Said
<1> QED BY <1>4, <1>5, <1>6

(* Permissions and trust change, and are asked for: no thread is disturbed. *)
LEMMA DirectoryCarries ==
    ASSUME NEW callers, NEW requests, LanTypes(callers, requests), "refresh" \in callers,
           Query \in requests, PeerDirectory
    PROVE  /\ LanTypes(callers, requests)' /\ NothingNewSaid
           /\ \A c \in Conns : \/ conn'[c] = conn[c] \/ Opened(c, "refresh", Query)
                               \/ conn[c] # Free /\ Owner(c) = "refresh" /\ Left(c)
<1>1. CASE query_permissions
  <2>1. /\ FreeConns # {} /\ conn' = [conn EXCEPT ![NextConn] = Asked("refresh", Query, 1)]
        /\ UNCHANGED <<time, granted, seen>>
    BY <1>1 DEF query_permissions, Query
  <2>2. /\ LanTypes(callers, requests)' /\ NothingNewSaid
        /\ \E n \in Conns : Opened(n, "refresh", Query) /\ \A b \in Conns \ {n} : conn'[b] = conn[b]
    <3>1. Dials("refresh", Query, 1)
      BY <2>1 DEF Dials
    <3>2. 1 \in Nat
      OBVIOUS
    <3> QED BY <3>1, <3>2, CallOpens
  <2> QED BY <2>2
<1>2. CASE \E c \in Conns : \E outcome \in {"ok"} \cup Failures : update_remote_permissions(c, outcome)
  <2>1. PICK c \in Conns : \E outcome \in {"ok"} \cup Failures : update_remote_permissions(c, outcome)
    BY <1>2
  <2>2. PICK outcome : update_remote_permissions(c, outcome)
    BY <2>1
  <2>3. Return(c, outcome) /\ Owner(c) = "refresh" /\ UNCHANGED <<time, granted, seen>>
    BY <2>2 DEF update_remote_permissions
  <2>4. conn[c] # Free
    BY <2>3, ConnFields DEF Return, Waiting
  <2> QED BY <2>3, <2>4, CallReturns DEF Carried
<1>3. CASE revoke_server \/ revoke_client \/ \E grants \in SUBSET Grantable : set_permissions(grants)
  <2>1. /\ conn' = conn /\ time' = time /\ granted' \in SUBSET Grantable
        /\ seen' = seen \/ seen' = [r \in {} |-> NoAnswer]
    BY <1>3 DEF revoke_server, revoke_client, set_permissions, LanTypes
  <2>2. DOMAIN seen' \subseteq requests /\ seen' \in [DOMAIN seen' -> Answered]
    BY <2>1 DEF LanTypes
  <2>3. LanTypes(callers, requests)'
    BY <2>1, <2>2 DEF LanTypes
  <2>4. NothingNewSaid
    BY <2>1 DEF NothingNewSaid, Said
  <2> QED BY <2>1, <2>3, <2>4
<1> QED BY <1>1, <1>2, <1>3 DEF PeerDirectory

(***************************************************************************)
(* Dispatches.                                                             *)
(***************************************************************************)
Start(d) == [type |-> "dispatch.start", id |-> d]
Starts == [type : {"dispatch.start"}, id : Jobs]
Askers == {"pump", "refresh"}
Asks == Starts \cup {Query}

DispatchTypes ==
    /\ LanTypes(Askers, Asks)
    /\ rows \in [Jobs -> [status : RowStatus, lease : Nat]]
    /\ DOMAIN admissions \subseteq Jobs
    /\ admissions \in [DOMAIN admissions ->
                          [status : {"launching", "started", "launch_failed"}, lease : Nat]]
    /\ gate \in {NoGate} \cup [step : {"launching", "launched"}, by : Conns]
    /\ started \in [Jobs -> Nat] /\ unwritten \in [Jobs -> Nat]
    /\ faults \in [lost : Nat, restarts : Nat, recoveries : Nat]

\* The connection that holds the gateway's lock waits for its handler, and the
\* dispatch it admits has a row.
GateIsServed ==
    gate # NoGate =>
       /\ conn[gate.by].server = "authorised" /\ conn[gate.by].req \in Starts
       /\ conn[gate.by].req.id \in DOMAIN admissions

PumpAsks == \A c \in Conns : IsOpen(c) /\ Owner(c) = "pump" => conn[c].req \in Starts

Launched(d) == gate # NoGate /\ gate.step = "launched" /\ conn[gate.by].req.id = d
Launching(d) == gate # NoGate /\ gate.step = "launching" /\ conn[gate.by].req.id = d

\* The further runs of a dispatch that have a cause.
Excused(d) == unwritten[d] + faults.recoveries

\* A run that was started and not excused has a row that says so, or is about
\* to get it.
RunsAreAdmitted ==
    \A d \in Jobs :
       /\ started[d] <= 1 + Excused(d)
       /\ HasStarted(d) \/ Launched(d) \/ started[d] <= Excused(d)
       /\ Launching(d) => started[d] <= Excused(d)

\* Whoever says that a dispatch was accepted is right.
AcceptedIsStarted ==
    \A d \in Jobs :
       /\ HasStarted(d) \/ Launched(d) => started[d] > 0
       /\ Said(Start(d), "accepted") => started[d] > 0
       /\ rows[d].status = "accepted" => started[d] > 0

DispatchInv == DispatchTypes /\ GateIsServed /\ PumpAsks /\ RunsAreAdmitted /\ AcceptedIsStarted

----------------------------------------------------------------------------
(* A request to start says which dispatch, and is no question.             *)
LEMMA StartNames ==
    /\ \A r \in Starts : r.id \in Jobs /\ r = Start(r.id) /\ r.type = "dispatch.start"
    /\ \A d \in Jobs : Start(d) \in Starts /\ Start(d).id = d
    /\ Query \notin Starts /\ Query.type = "permissions.query"
    /\ "accepted" \notin Plain /\ "accepted" \in Replies /\ Failures \subseteq Plain
    /\ Failures \subseteq Replies
BY DEF Starts, Start, Query, Plain, Failures, Replies

(* The gate's holder is a connection that waits for its handler.           *)
LEMMA GateHolder ==
    ASSUME DispatchInv, gate # NoGate
    PROVE  /\ gate.by \in Conns /\ gate.step \in {"launching", "launched"}
           /\ conn[gate.by] \in CallsOf(Askers, Asks) /\ conn[gate.by].server = "authorised"
           /\ conn[gate.by].req \in Starts /\ conn[gate.by].req.id \in Jobs
           /\ conn[gate.by].req.id \in DOMAIN admissions
           /\ conn[gate.by] # Free
<1>1. gate.by \in Conns /\ gate.step \in {"launching", "launched"}
  BY DEF DispatchInv, DispatchTypes
<1>2. /\ conn[gate.by].server = "authorised" /\ conn[gate.by].req \in Starts
      /\ conn[gate.by].req.id \in DOMAIN admissions
  BY DEF DispatchInv, GateIsServed
<1>3. conn[gate.by] # Free
  BY <1>2 DEF Free
<1>4. conn[gate.by] \in CallsOf(Askers, Asks)
  BY <1>1, <1>3 DEF DispatchInv, DispatchTypes, LanTypes
<1> QED BY <1>1, <1>2, <1>3, <1>4, StartNames

GateHeld ==
    gate # NoGate => conn'[gate.by].server = "authorised" /\ conn'[gate.by].req = conn[gate.by].req

(* What the gateway has not touched, and the pump only with what was said. *)
LEMMA GatewayRests ==
    ASSUME DispatchInv, UNCHANGED <<admissions, gate, started, unwritten>>,
           faults' \in [lost : Nat, restarts : Nat, recoveries : Nat],
           faults'.recoveries = faults.recoveries,
           rows' \in [Jobs -> [status : RowStatus, lease : Nat]],
           \A d \in Jobs : rows'[d].status = "accepted" =>
              rows[d].status = "accepted" \/ Said(Start(d), "accepted"),
           LanTypes(Askers, Asks)', NothingNewSaid, GateHeld, PumpAsks'
    PROVE  DispatchInv'
<1>1. DispatchTypes'
  BY DEF DispatchInv, DispatchTypes
<1>2. GateIsServed'
  BY DEF DispatchInv, GateIsServed, GateHeld
<1>3. \A d \in Jobs : /\ HasStarted(d)' = HasStarted(d) /\ Launched(d)' = Launched(d)
                      /\ Launching(d)' = Launching(d)
  BY DEF HasStarted, Launched, Launching, GateHeld
<1>4. \A d \in Jobs : Said(Start(d), "accepted")' => Said(Start(d), "accepted")
  BY StartNames DEF NothingNewSaid
<1>5. RunsAreAdmitted'
  BY <1>3 DEF DispatchInv, RunsAreAdmitted, Excused
<1>6. AcceptedIsStarted'
  <2> SUFFICES ASSUME NEW d \in Jobs
               PROVE  /\ HasStarted(d)' \/ Launched(d)' => started[d] > 0
                      /\ Said(Start(d), "accepted")' => started[d] > 0
                      /\ rows'[d].status = "accepted" => started[d] > 0
    BY DEF AcceptedIsStarted
  <2>1. /\ HasStarted(d) \/ Launched(d) => started[d] > 0
        /\ Said(Start(d), "accepted") => started[d] > 0
        /\ rows[d].status = "accepted" => started[d] > 0
    BY DEF DispatchInv, AcceptedIsStarted
  <2> QED BY <1>3, <1>4, <2>1
<1> QED BY <1>1, <1>2, <1>5, <1>6, DispatchInv DEF DispatchInv

(* A step of the LAN alone, and the clock.                                 *)
LEMMA LanRests ==
    ASSUME DispatchInv, UNCHANGED dispatchVars,
           \/ tick \/ UNCHANGED lanVars \/ PeerDirectory \/ \E c \in Conns : DispatchThread(c)
    PROVE  DispatchInv'
<1>0. UNCHANGED <<admissions, gate, started, unwritten>> /\ rows' = rows /\ faults' = faults
  BY DEF dispatchVars
<1>1. LanTypes(Askers, Asks)
  BY DEF DispatchInv, DispatchTypes
<1>2. \A c \in Conns : IsOpen(c) <=> conn[c] # Free
  BY <1>1, ConnFields
<1>3. CASE tick \/ UNCHANGED lanVars
  <2>1. conn' = conn /\ granted' = granted /\ seen' = seen /\ (time' = time \/ time' = time + 1)
    BY <1>3 DEF tick, clock_ticks, lanVars
  <2>2. LanTypes(Askers, Asks)'
    BY <1>1, <2>1 DEF LanTypes
  <2>3. NothingNewSaid
    BY <2>1 DEF NothingNewSaid, Said
  <2>4. GateHeld
    BY <2>1, GateHolder DEF GateHeld
  <2>5. PumpAsks'
    BY <2>1 DEF PumpAsks, IsOpen, Owner, DispatchInv
  <2> QED BY <1>0, <2>2, <2>3, <2>4, <2>5, GatewayRests DEF DispatchInv, DispatchTypes
<1>4. CASE \E c \in Conns : DispatchThread(c)
  <2>1. PICK c \in Conns : DispatchThread(c)
    BY <1>4
  <2>2. Carried(Askers, Asks) /\ \A b \in Conns \ {c} : conn'[b] = conn[b]
    BY <1>1, <2>1, ThreadCarries DEF DispatchThread
  <2>3. GateHeld
    BY <2>1, <2>2, GateHolder DEF GateHeld, DispatchThread
  <2>4. LanTypes(Askers, Asks)' /\ NothingNewSaid /\ CallsKept
    BY <2>2 DEF Carried
  <2>5. \A b \in Conns : IsOpen(b)' <=> conn'[b] # Free
    <3>1. Free.server = "free" /\ \A k \in CallsOf(Askers, Asks) : k.server # "free"
      BY DEF Free, CallsOf, ServerStep
    <3> QED BY <2>4, <3>1 DEF LanTypes, IsOpen
  <2>6. PumpAsks'
    BY <1>2, <2>4, <2>5 DEF PumpAsks, Owner, CallsKept, DispatchInv
  <2> QED BY <1>0, <2>3, <2>4, <2>6, GatewayRests DEF DispatchInv, DispatchTypes
<1>5. CASE PeerDirectory
  <2>1. "refresh" \in Askers /\ Query \in Asks
    BY DEF Askers, Asks
  <2>2. /\ LanTypes(Askers, Asks)' /\ NothingNewSaid
        /\ \A c \in Conns : \/ conn'[c] = conn[c] \/ Opened(c, "refresh", Query)
                            \/ conn[c] # Free /\ Owner(c) = "refresh" /\ Left(c)
    BY <1>1, <1>5, <2>1, DirectoryCarries
  <2>3. \A c \in Conns : conn[c] # Free /\ Left(c) =>
           /\ conn'[c] # Free => conn'[c].caller = conn[c].caller /\ conn'[c].req = conn[c].req
           /\ conn[c].server = "authorised" => /\ conn'[c].server = "authorised"
                                               /\ conn'[c].req = conn[c].req
    BY <1>1 DEF Left, LanTypes, CallsOf
  <2>4. GateHeld
    BY <2>2, <2>3, GateHolder DEF GateHeld, Opened
  <2>5. PumpAsks'
    <3> SUFFICES ASSUME NEW c \in Conns, IsOpen(c)', conn'[c].caller = "pump"
                 PROVE  conn'[c].req \in Starts
      BY DEF PumpAsks, Owner
    <3>1. CASE conn'[c] = conn[c]
      BY <3>1 DEF PumpAsks, Owner, IsOpen, DispatchInv
    <3>2. CASE Opened(c, "refresh", Query)
      BY <3>2 DEF Opened
    <3>3. CASE conn[c] # Free /\ Owner(c) = "refresh" /\ Left(c)
      <4>1. conn'[c] # Free
        BY DEF IsOpen, Free
      <4> QED BY <2>3, <3>3, <4>1 DEF Owner
    <3> QED BY <2>2, <3>1, <3>2, <3>3
  <2> QED BY <1>0, <2>2, <2>4, <2>5, GatewayRests DEF DispatchInv, DispatchTypes
<1> QED BY <1>3, <1>4, <1>5

(* The pump asks, and uses the answer or loses it.                         *)
LEMMA PumpKeeps ==
    ASSUME DispatchInv,
           \/ \E d \in Jobs : ask(d)
           \/ \E c \in Conns : pump_lost(c)
           \/ \E c \in Conns : \E outcome \in {"accepted"} \cup Failures : store_answer(c, outcome)
    PROVE  DispatchInv'
<1>1. LanTypes(Askers, Asks)
  BY DEF DispatchInv, DispatchTypes
<1>2. \A k \in CallsOf(Askers, Asks) : k # Free /\ k.server # "free"
  BY DEF CallsOf, ServerStep, Free
<1>3. Free.server = "free"
  BY DEF Free
<1>4. CASE \E d \in Jobs : ask(d)
  <2>1. PICK d \in Jobs : ask(d)
    BY <1>4
  <2> DEFINE row == [status |-> "dispatching", lease |-> time + LeaseTicks]
  <2>2. /\ rows' = [rows EXCEPT ![d] = row] /\ UNCHANGED <<admissions, gate, started, unwritten, faults>>
        /\ secure_request("pump", Start(d), CommandTtl)
    BY <2>1 DEF ask, Start
  <2>3. row \in [status : RowStatus, lease : Nat] /\ row.status = "dispatching"
    BY <1>1, DispatchAssumption DEF RowStatus, LanTypes
  <2> HIDE DEF row
  <2>4. Dials("pump", Start(d), CommandTtl)
    BY <2>2 DEF secure_request, Dials
  <2>5. "pump" \in Askers /\ Start(d) \in Asks /\ CommandTtl \in Nat
    BY StartNames, DispatchAssumption DEF Askers, Asks
  <2>6. /\ LanTypes(Askers, Asks)' /\ NothingNewSaid
        /\ \E n \in Conns : Opened(n, "pump", Start(d)) /\ \A b \in Conns \ {n} : conn'[b] = conn[b]
    BY <1>1, <2>4, <2>5, CallOpens
  <2>7. PICK n \in Conns : Opened(n, "pump", Start(d)) /\ \A b \in Conns \ {n} : conn'[b] = conn[b]
    BY <2>6
  <2>8. GateHeld
    BY <2>7, GateHolder DEF GateHeld, Opened
  <2>9. PumpAsks'
    BY <2>7, StartNames DEF PumpAsks, Opened, IsOpen, Owner, DispatchInv
  <2>10. /\ rows' \in [Jobs -> [status : RowStatus, lease : Nat]]
         /\ \A e \in Jobs : rows'[e].status = "accepted" => rows[e].status = "accepted"
    BY <2>2, <2>3 DEF DispatchInv, DispatchTypes
  <2> QED BY <2>2, <2>6, <2>8, <2>9, <2>10, GatewayRests DEF DispatchInv, DispatchTypes
<1>5. ASSUME NEW c \in Conns, NEW outcome, Return(c, outcome), Owner(c) = "pump",
             UNCHANGED <<time, granted, seen, admissions, gate, started, unwritten>>,
             faults' \in [lost : Nat, restarts : Nat, recoveries : Nat],
             faults'.recoveries = faults.recoveries,
             \/ rows' = rows
             \/ rows' = [rows EXCEPT ![conn[c].req.id] = [status |-> RowOnAnswer(outcome), lease |-> 0]]
                /\ outcome \in {"accepted"} \cup Failures
      PROVE  DispatchInv'
  <2>1. /\ Carried(Askers, Asks) /\ Left(c) /\ \A b \in Conns \ {c} : conn'[b] = conn[b]
        /\ conn[c] \in CallsOf(Askers, Asks)
        /\ outcome = "unreachable" \/ Said(conn[c].req, outcome)
    BY <1>1, <1>5, CallReturns
  <2>2. conn[c].req \in Starts /\ conn[c].req.id \in Jobs /\ conn[c].req = Start(conn[c].req.id)
    <3>1. conn[c].req \in Starts
      BY <1>2, <1>5, <2>1 DEF DispatchInv, PumpAsks, IsOpen
    <3> QED BY <3>1, StartNames
  <2>3. LanTypes(Askers, Asks)' /\ NothingNewSaid /\ CallsKept
    BY <2>1 DEF Carried
  <2>4. GateHeld
    BY <2>1, GateHolder DEF GateHeld, Left, CallsOf
  <2>5. PumpAsks'
    <3> SUFFICES ASSUME NEW b \in Conns, IsOpen(b)', conn'[b].caller = "pump"
                 PROVE  conn'[b].req \in Starts
      BY DEF PumpAsks, Owner
    <3>1. conn'[b] # Free
      BY <1>3 DEF IsOpen
    <3>2. conn[b] # Free /\ conn[b].caller = "pump" /\ conn'[b].req = conn[b].req
      BY <2>3, <3>1 DEF CallsKept
    <3> QED BY <1>1, <3>2, ConnFields DEF DispatchInv, PumpAsks, Owner
  <2>6. /\ rows' \in [Jobs -> [status : RowStatus, lease : Nat]]
        /\ \A d \in Jobs : rows'[d].status = "accepted" =>
              rows[d].status = "accepted" \/ Said(Start(d), "accepted")
    <3>1. CASE rows' = rows
      BY <3>1 DEF DispatchInv, DispatchTypes
    <3>2. CASE /\ rows' = [rows EXCEPT ![conn[c].req.id] =
                              [status |-> RowOnAnswer(outcome), lease |-> 0]]
               /\ outcome \in {"accepted"} \cup Failures
      <4> DEFINE id == conn[c].req.id
                 status == RowOnAnswer(outcome)
                 row == [status |-> status, lease |-> 0]
      <4>1. status \in RowStatus /\ (status = "accepted" => outcome = "accepted")
        BY <3>2 DEF RowOnAnswer, RowStatus, Failures
      <4>2. status = "accepted" => Said(Start(id), "accepted")
        BY <2>1, <2>2, <4>1
      <4> HIDE DEF status
      <4>3. row \in [status : RowStatus, lease : Nat] /\ row.status = status
        BY <4>1
      <4>4. rows' = [rows EXCEPT ![id] = row] /\ id \in Jobs
        BY <2>2, <3>2 DEF status
      <4> HIDE DEF row, id
      <4> QED BY <4>2, <4>3, <4>4 DEF DispatchInv, DispatchTypes
    <3> QED BY <1>5, <3>1, <3>2
  <2> QED BY <1>5, <2>3, <2>4, <2>5, <2>6, GatewayRests
<1>6. CASE \E c \in Conns : pump_lost(c)
  <2>1. PICK c \in Conns : pump_lost(c)
    BY <1>6
  <2>2. /\ Return(c, "unreachable") /\ Owner(c) = "pump" /\ rows' = rows
        /\ UNCHANGED <<time, granted, seen, admissions, gate, started, unwritten>>
        /\ faults' = [faults EXCEPT !.lost = @ + 1]
    BY <2>1 DEF pump_lost
  <2>3. /\ faults' \in [lost : Nat, restarts : Nat, recoveries : Nat]
        /\ faults'.recoveries = faults.recoveries
    BY <2>2 DEF DispatchInv, DispatchTypes
  <2> QED BY <1>5, <2>2, <2>3
<1>7. CASE \E c \in Conns : \E outcome \in {"accepted"} \cup Failures : store_answer(c, outcome)
  <2>1. PICK c \in Conns : \E outcome \in {"accepted"} \cup Failures : store_answer(c, outcome)
    BY <1>7
  <2>2. PICK outcome \in {"accepted"} \cup Failures : store_answer(c, outcome)
    BY <2>1
  <2>3. /\ faults' = faults /\ faults \in [lost : Nat, restarts : Nat, recoveries : Nat]
        /\ UNCHANGED <<time, granted, seen, admissions, gate, started, unwritten>>
    BY <2>2 DEF store_answer, DispatchInv, DispatchTypes
  <2> QED BY <1>5, <2>2, <2>3 DEF store_answer, DispatchInv, DispatchTypes
<1> QED BY <1>4, <1>6, <1>7

(* Who asked for what does not change.                                     *)
LEMMA AskersStay ==
    ASSUME DispatchInv, CallsKept
    PROVE  PumpAsks'
<1> SUFFICES ASSUME NEW b \in Conns, IsOpen(b)', conn'[b].caller = "pump"
             PROVE  conn'[b].req \in Starts
  BY DEF PumpAsks, Owner
<1>1. conn'[b] # Free
  BY DEF IsOpen, Free
<1>2. conn[b] # Free /\ conn[b].caller = "pump" /\ conn'[b].req = conn[b].req
  BY <1>1 DEF CallsKept
<1>3. LanTypes(Askers, Asks)
  BY DEF DispatchInv, DispatchTypes
<1> QED BY <1>2, <1>3, ConnFields DEF DispatchInv, PumpAsks, Owner

(* What the invariant says of one dispatch.                                *)
LEMMA OneDispatch ==
    ASSUME DispatchInv, NEW d \in Jobs
    PROVE  /\ started[d] \in Nat /\ Excused(d) \in Nat
           /\ started[d] <= 1 + Excused(d)
           /\ HasStarted(d) \/ Launched(d) \/ started[d] <= Excused(d)
           /\ Launching(d) => started[d] <= Excused(d)
           /\ HasStarted(d) \/ Launched(d) => started[d] > 0
           /\ Said(Start(d), "accepted") => started[d] > 0
           /\ rows[d].status = "accepted" => started[d] > 0
BY DEF DispatchInv, DispatchTypes, RunsAreAdmitted, AcceptedIsStarted, Excused

(* The gateway answers at once, or admits the dispatch and keeps its lock. *)
LEMMA AdmitKeeps ==
    ASSUME DispatchInv, NEW c \in Conns,
           admit_command(c) \/ \E answer \in {"transient", "permanent"} : admit_fails(c, answer)
    PROVE  DispatchInv'
<1>1. LanTypes(Askers, Asks)
  BY DEF DispatchInv, DispatchTypes
<1>2. /\ gate = NoGate /\ IsOpen(c) /\ conn[c].server = "authorised" /\ conn[c].req.type = "dispatch.start"
      /\ UNCHANGED <<time, granted, seen, rows, started, unwritten, faults>>
  BY DEF admit_command, admit_fails, dispatchVars, ServerAt
<1>3. conn[c].req \in Starts /\ conn[c].req.id \in Jobs /\ conn[c].req = Start(conn[c].req.id)
  <2>1. conn[c].req \in Asks
    BY <1>1, <1>2, ConnFields
  <2> QED BY <1>2, <2>1, StartNames DEF Asks
<1> DEFINE d == conn[c].req.id
<1>4. ASSUME NEW answer \in Replies, Handle(c, answer), UNCHANGED <<admissions, gate>>,
             answer = "accepted" => HasStarted(d)
      PROVE  DispatchInv'
  <2>1. /\ LanTypes(Askers, Asks)' /\ CallsKept
        /\ \A r, a : Said(r, a)' => Said(r, a) \/ (r = conn[c].req /\ a = answer)
    BY <1>1, <1>2, <1>4, CallHandled
  <2>2. PumpAsks'
    BY <2>1, AskersStay
  <2>3. DispatchTypes' /\ GateIsServed'
    BY <1>2, <1>4, <2>1 DEF DispatchInv, DispatchTypes, GateIsServed
  <2>4. \A e \in Jobs : /\ HasStarted(e)' = HasStarted(e) /\ ~Launched(e)' /\ ~Launching(e)'
                        /\ ~Launched(e) /\ ~Launching(e)
    BY <1>2, <1>4 DEF HasStarted, Launched, Launching
  <2>5. RunsAreAdmitted'
    BY <1>2, <2>4, OneDispatch DEF RunsAreAdmitted, Excused
  <2>6. AcceptedIsStarted'
    <3> SUFFICES ASSUME NEW e \in Jobs
                 PROVE  /\ HasStarted(e) => started[e] > 0
                        /\ Said(Start(e), "accepted")' => started[e] > 0
                        /\ rows[e].status = "accepted" => started[e] > 0
      BY <1>2, <2>4 DEF AcceptedIsStarted
    <3>1. CASE Said(Start(e), "accepted")
      BY <3>1, OneDispatch
    <3>2. CASE Start(e) = conn[c].req /\ "accepted" = answer
      <4>1. e = d
        BY <3>2, StartNames
      <4> QED BY <1>4, <3>2, <4>1, OneDispatch
    <3> QED BY <2>1, <3>1, <3>2, OneDispatch
  <2> QED BY <2>2, <2>3, <2>5, <2>6 DEF DispatchInv
<1>5. CASE /\ ~HasStarted(d) /\ admissions' = Admit(d) /\ gate' = [step |-> "launching", by |-> c]
           /\ UNCHANGED conn
  <2> DEFINE row == [status |-> "launching", lease |-> time + LeaseTicks]
  <2>1. /\ row \in [status : {"launching", "started", "launch_failed"}, lease : Nat]
        /\ row.status = "launching"
    BY <1>1, DispatchAssumption DEF LanTypes
  <2> HIDE DEF row
  <2>2. admissions' = [x \in DOMAIN admissions \cup {d} |-> IF x = d THEN row ELSE admissions[x]]
    BY <1>5 DEF Admit, row
  <2>3. gate' # NoGate /\ gate'.step = "launching" /\ gate'.by = c
    BY <1>5 DEF NoGate
  <2>4. LanTypes(Askers, Asks)' /\ CallsKept
    BY <1>1, <1>2, <1>5 DEF LanTypes, CallsKept
  <2>5. PumpAsks'
    BY <2>4, AskersStay
  <2>6. /\ DOMAIN admissions' \subseteq Jobs
        /\ admissions' \in [DOMAIN admissions' ->
                               [status : {"launching", "started", "launch_failed"}, lease : Nat]]
    BY <1>3, <2>1, <2>2 DEF DispatchInv, DispatchTypes
  <2>7. gate' \in [step : {"launching", "launched"}, by : Conns]
    BY <1>5
  <2>8. DispatchTypes'
    BY <1>2, <2>4, <2>6, <2>7 DEF DispatchInv, DispatchTypes
  <2>9. GateIsServed'
    BY <1>2, <1>3, <1>5, <2>2, <2>3 DEF GateIsServed
  <2>10. \A e \in Jobs : /\ HasStarted(e)' = HasStarted(e) /\ ~Launched(e)' /\ (Launching(e)' <=> e = d)
                         /\ ~Launched(e) /\ ~Launching(e) /\ Said(Start(e), "accepted")' = Said(Start(e), "accepted")
    <3> SUFFICES ASSUME NEW e \in Jobs
                 PROVE  /\ HasStarted(e)' = HasStarted(e) /\ ~Launched(e)' /\ (Launching(e)' <=> e = d)
                        /\ ~Launched(e) /\ ~Launching(e)
                        /\ Said(Start(e), "accepted")' = Said(Start(e), "accepted")
      OBVIOUS
    <3>1. HasStarted(e)' <=> HasStarted(e)
      BY <1>5, <2>1, <2>2 DEF HasStarted
    <3>2. ~Launched(e)' /\ (Launching(e)' <=> e = d) /\ ~Launched(e) /\ ~Launching(e)
      BY <1>2, <1>5, <2>3 DEF Launched, Launching
    <3>3. Said(Start(e), "accepted")' <=> Said(Start(e), "accepted")
      BY <1>2, <1>5 DEF Said
    <3> QED BY <3>1, <3>2, <3>3 DEF HasStarted, Said
  <2>11. RunsAreAdmitted'
    <3> SUFFICES ASSUME NEW e \in Jobs
                 PROVE  /\ started[e] <= 1 + Excused(e)
                        /\ HasStarted(e) \/ started[e] <= Excused(e)
                        /\ e = d => started[e] <= Excused(e)
      BY <1>2, <2>10 DEF RunsAreAdmitted, Excused
    <3> QED BY <1>5, <2>10, OneDispatch
  <2>12. AcceptedIsStarted'
    BY <1>2, <2>10, OneDispatch DEF AcceptedIsStarted
  <2> QED BY <2>5, <2>8, <2>9, <2>11, <2>12 DEF DispatchInv
<1>6. \/ HasStarted(d) /\ Handle(c, "accepted") /\ UNCHANGED <<admissions, gate>>
      \/ \E answer \in {"transient", "permanent"} :
            Handle(c, answer) /\ UNCHANGED <<admissions, gate>>
      \/ /\ ~HasStarted(d) /\ admissions' = Admit(d) /\ gate' = [step |-> "launching", by |-> c]
         /\ UNCHANGED conn
  BY DEF admit_command, admit_fails, dispatchVars
<1>7. "accepted" \in Replies /\ {"transient", "permanent"} \subseteq Replies
  BY DEF Replies, Plain, Failures
<1> HIDE DEF d
<1> QED BY <1>4, <1>5, <1>6, <1>7

(* The API process starts the run of the dispatch it has admitted.         *)
LEMMA LaunchKeeps ==
    ASSUME DispatchInv, NEW c \in Conns, launch_command(c)
    PROVE  DispatchInv'
<1> DEFINE d == conn[c].req.id
<1>1. /\ gate # NoGate /\ gate.step = "launching" /\ gate.by = c
      /\ started' = [started EXCEPT ![d] = @ + 1] /\ gate' = [gate EXCEPT !.step = "launched"]
      /\ conn' = conn /\ time' = time /\ granted' = granted /\ seen' = seen
      /\ rows' = rows /\ admissions' = admissions /\ unwritten' = unwritten /\ faults' = faults
  BY DEF launch_command, At, NoGate, lanVars
<1>2. d \in Jobs /\ gate \in [step : {"launching", "launched"}, by : Conns]
  BY <1>1, GateHolder DEF DispatchInv, DispatchTypes
<1>3. gate' # NoGate /\ gate'.step = "launched" /\ gate'.by = c
      /\ gate' \in [step : {"launching", "launched"}, by : Conns]
  BY <1>1, <1>2 DEF NoGate
<1>4. started' \in [Jobs -> Nat] /\ started'[d] = started[d] + 1
      /\ \A e \in Jobs : e # d => started'[e] = started[e]
  BY <1>1, <1>2 DEF DispatchInv, DispatchTypes
<1>5. DispatchTypes'
  BY <1>1, <1>3, <1>4 DEF DispatchInv, DispatchTypes, LanTypes
<1>6. GateIsServed' /\ PumpAsks'
  BY <1>1, <1>3 DEF DispatchInv, GateIsServed, PumpAsks, IsOpen, Owner
<1>7. \A e \in Jobs : /\ HasStarted(e)' <=> HasStarted(e)
                      /\ Said(Start(e), "accepted")' <=> Said(Start(e), "accepted")
  BY <1>1 DEF HasStarted, Said
<1>8. \A e \in Jobs : /\ Launched(e)' <=> e = d
                      /\ ~Launching(e)' /\ ~Launched(e)
                      /\ Launching(e) <=> e = d
  BY <1>1, <1>3 DEF Launched, Launching
<1> HIDE DEF d
<1>9. RunsAreAdmitted'
  <2> SUFFICES ASSUME NEW e \in Jobs
               PROVE  /\ started'[e] <= 1 + Excused(e)
                      /\ HasStarted(e) \/ e = d \/ started'[e] <= Excused(e)
    BY <1>1, <1>7, <1>8 DEF RunsAreAdmitted, Excused
  <2> QED BY <1>2, <1>4, <1>8, OneDispatch
<1>10. AcceptedIsStarted'
  <2> SUFFICES ASSUME NEW e \in Jobs
               PROVE  /\ HasStarted(e) \/ e = d => started'[e] > 0
                      /\ Said(Start(e), "accepted") => started'[e] > 0
                      /\ rows[e].status = "accepted" => started'[e] > 0
    BY <1>1, <1>7, <1>8 DEF AcceptedIsStarted
  <2> QED BY <1>2, <1>4, OneDispatch
<1> QED BY <1>5, <1>6, <1>9, <1>10 DEF DispatchInv

(* The gateway writes down what became of the run, or cannot, and answers. *)
LEMMA LaunchEnds ==
    ASSUME DispatchInv, NEW c \in Conns,
           \/ command_started(c)
           \/ \E answer \in {"transient", "permanent"} :
                 launch_refused(c, answer) \/ command_not_noted(c, answer)
    PROVE  DispatchInv'
<1>0. PICK d \in {conn[c].req.id} : TRUE
  OBVIOUS
<1>1. PICK answer \in {"accepted", "transient", "permanent"} :
         /\ Handle(c, answer)
         /\ At(c, "launching") \/ At(c, "launched")
         /\ \/ /\ answer = "accepted" /\ At(c, "launched") /\ UNCHANGED unwritten
               /\ admissions' = [admissions EXCEPT ![d] = [status |-> "started", lease |-> 0]]
            \/ /\ answer # "accepted" /\ At(c, "launching") /\ UNCHANGED unwritten
               /\ \/ admissions' = [admissions EXCEPT ![d] = [status |-> "launch_failed", lease |-> 0]]
                  \/ UNCHANGED admissions
            \/ /\ answer # "accepted" /\ At(c, "launched") /\ UNCHANGED admissions
               /\ unwritten' = [unwritten EXCEPT ![d] = @ + 1]
         /\ gate' = NoGate /\ UNCHANGED <<time, granted, seen, rows, started, faults>>
  BY <1>0 DEF command_started, launch_refused, command_not_noted
<1>2. /\ gate # NoGate /\ gate.by = c
      /\ At(c, "launched") <=> gate.step = "launched"
      /\ At(c, "launching") <=> gate.step = "launching"
  BY <1>1 DEF At, NoGate
<1>3. d \in Jobs /\ conn[c].req \in Starts /\ conn[c].req = Start(d) /\ d \in DOMAIN admissions
  BY <1>0, <1>2, GateHolder, StartNames
<1>4. LanTypes(Askers, Asks) /\ answer \in Replies
  BY DEF DispatchInv, DispatchTypes, Replies, Plain, Failures
<1>5. /\ LanTypes(Askers, Asks)' /\ CallsKept
      /\ \A r, a : Said(r, a)' => Said(r, a) \/ (r = conn[c].req /\ a = answer)
  BY <1>1, <1>4, CallHandled
<1>6. PumpAsks'
  BY <1>5, AskersStay
<1>7. GateIsServed'
  BY <1>1 DEF GateIsServed
<1>8. ~Launched(d)' /\ ~Launching(d)' /\ (Launched(d) <=> At(c, "launched")) /\ (Launching(d) <=> At(c, "launching"))
  BY <1>0, <1>1, <1>2 DEF Launched, Launching
<1>9. \A e \in Jobs \ {d} : ~Launched(e)' /\ ~Launching(e)' /\ ~Launched(e) /\ ~Launching(e)
  BY <1>0, <1>1, <1>2 DEF Launched, Launching
<1>10. \A e \in Jobs : Said(Start(e), "accepted")' =>
          Said(Start(e), "accepted") \/ (e = d /\ answer = "accepted")
  BY <1>3, <1>5, StartNames
<1>11. ASSUME NEW status \in {"started", "launch_failed"},
              admissions' = [admissions EXCEPT ![d] = [status |-> status, lease |-> 0]]
       PROVE  /\ DOMAIN admissions' \subseteq Jobs
              /\ admissions' \in [DOMAIN admissions' ->
                                   [status : {"launching", "started", "launch_failed"}, lease : Nat]]
              /\ HasStarted(d)' <=> status = "started"
              /\ \A e \in Jobs \ {d} : HasStarted(e)' <=> HasStarted(e)
  <2> DEFINE row == [status |-> status, lease |-> 0]
  <2>1. /\ row \in [status : {"launching", "started", "launch_failed"}, lease : Nat]
        /\ row.status = status /\ admissions' = [admissions EXCEPT ![d] = row]
    BY <1>11
  <2> HIDE DEF row
  <2>2. /\ DOMAIN admissions' = DOMAIN admissions
        /\ admissions' \in [DOMAIN admissions' ->
                                 [status : {"launching", "started", "launch_failed"}, lease : Nat]]
        /\ admissions'[d] = row /\ \A e \in DOMAIN admissions : e # d => admissions'[e] = admissions[e]
    BY <1>3, <2>1 DEF DispatchInv, DispatchTypes
  <2>3. DOMAIN admissions \subseteq Jobs
    BY DEF DispatchInv, DispatchTypes
  <2> QED BY <1>3, <2>1, <2>2, <2>3 DEF HasStarted
<1>12. ASSUME UNCHANGED admissions
       PROVE  \A e \in Jobs : HasStarted(e)' <=> HasStarted(e)
  BY <1>12 DEF HasStarted
<1>13. /\ DOMAIN admissions' \subseteq Jobs
       /\ admissions' \in [DOMAIN admissions' ->
                            [status : {"launching", "started", "launch_failed"}, lease : Nat]]
       /\ \A e \in Jobs \ {d} : HasStarted(e)' <=> HasStarted(e)
       /\ answer = "accepted" => HasStarted(d)' /\ Launched(d)
       /\ HasStarted(d)' => HasStarted(d) \/ Launched(d)
  <2>1. CASE UNCHANGED admissions
    <3>1. answer # "accepted" \/ admissions' = [admissions EXCEPT ![d] = [status |-> "started", lease |-> 0]]
      BY <1>1
    <3>2. answer = "accepted" => Launched(d)
      BY <1>1, <1>8
    <3> QED BY <1>11, <1>12, <2>1, <3>1, <3>2 DEF DispatchInv, DispatchTypes
  <2>2. CASE admissions' = [admissions EXCEPT ![d] = [status |-> "started", lease |-> 0]] /\ At(c, "launched")
    BY <1>8, <1>11, <2>2
  <2>3. CASE admissions' = [admissions EXCEPT ![d] = [status |-> "launch_failed", lease |-> 0]]
             /\ answer # "accepted"
    BY <1>11, <2>3
  <2> QED BY <1>1, <2>1, <2>2, <2>3
<1>14. /\ unwritten' \in [Jobs -> Nat]
       /\ \A e \in Jobs \ {d} : Excused(e)' = Excused(e)
       /\ \/ UNCHANGED unwritten /\ Excused(d)' = Excused(d)
          \/ Launched(d) /\ Excused(d)' = Excused(d) + 1
  <2>1. faults' = faults /\ unwritten \in [Jobs -> Nat] /\ faults.recoveries \in Nat
    BY <1>1 DEF DispatchInv, DispatchTypes
  <2>2. CASE UNCHANGED unwritten
    BY <2>1, <2>2 DEF Excused
  <2>3. CASE unwritten' = [unwritten EXCEPT ![d] = @ + 1] /\ At(c, "launched")
    BY <1>3, <1>8, <2>1, <2>3 DEF Excused
  <2> QED BY <1>1, <2>2, <2>3
<1>15. DispatchTypes'
  BY <1>1, <1>5, <1>13, <1>14 DEF DispatchInv, DispatchTypes
<1>16. started' = started /\ rows' = rows
  BY <1>1
<1>17. RunsAreAdmitted'
  <2> SUFFICES ASSUME NEW e \in Jobs
               PROVE  /\ started[e] <= 1 + Excused(e)'
                      /\ HasStarted(e)' \/ started[e] <= Excused(e)'
    BY <1>8, <1>9, <1>16 DEF RunsAreAdmitted
  <2>1. CASE e # d
    BY <1>9, <1>13, <1>14, <2>1, OneDispatch
  <2>2. CASE e = d
    <3>1. CASE Launched(d) /\ Excused(d)' = Excused(d) + 1
      BY <1>3, <2>2, <3>1, OneDispatch
    <3>2. CASE answer = "accepted" /\ Excused(d)' = Excused(d)
      BY <1>3, <1>13, <2>2, <3>2, OneDispatch
    <3>3. CASE Launching(d) /\ Excused(d)' = Excused(d)
      BY <1>3, <2>2, <3>3, OneDispatch
    <3>4. \/ Launched(d) /\ Excused(d)' = Excused(d) + 1
          \/ answer = "accepted" /\ Excused(d)' = Excused(d)
          \/ Launching(d) /\ Excused(d)' = Excused(d)
      <4>1. CASE answer = "accepted" /\ UNCHANGED unwritten
        BY <1>1, <4>1 DEF Excused
      <4>2. CASE At(c, "launching") /\ UNCHANGED unwritten
        BY <1>1, <1>8, <4>2 DEF Excused
      <4>3. CASE At(c, "launched") /\ unwritten' = [unwritten EXCEPT ![d] = @ + 1]
        BY <1>1, <1>3, <1>8, <4>3 DEF Excused, DispatchInv, DispatchTypes
      <4> QED BY <1>1, <4>1, <4>2, <4>3
    <3> QED BY <3>1, <3>2, <3>3, <3>4
  <2> QED BY <2>1, <2>2
<1>18. AcceptedIsStarted'
  <2> SUFFICES ASSUME NEW e \in Jobs
               PROVE  /\ HasStarted(e)' => started[e] > 0
                      /\ Said(Start(e), "accepted")' => started[e] > 0
                      /\ rows[e].status = "accepted" => started[e] > 0
    BY <1>8, <1>9, <1>16 DEF AcceptedIsStarted
  <2> QED BY <1>3, <1>10, <1>13, OneDispatch
<1> QED BY <1>6, <1>7, <1>15, <1>17, <1>18 DEF DispatchInv

(* The API process restarts, or an agent starts: what was known of the     *)
(* runs is lost.                                                           *)
LEMMA HostFails ==
    ASSUME DispatchInv, api_restarts \/ agent_recovers
    PROVE  DispatchInv'
<1>1. CASE api_restarts
  <2>1. /\ faults' = [faults EXCEPT !.restarts = @ + 1] /\ gate' = NoGate
        /\ UNCHANGED <<time, granted, seen, rows, admissions, started>>
        /\ conn' = [c \in Conns |->
              IF ~IsOpen(c) \/ conn[c].server = "finished" THEN conn[c] ELSE EndServe(c, "unreachable")]
        /\ unwritten' = [d \in Jobs |->
              IF \E c \in Conns : At(c, "launched") /\ conn[c].req.id = d
              THEN unwritten[d] + 1 ELSE unwritten[d]]
    BY <1>1 DEF api_restarts
  <2>2. LanTypes(Askers, Asks) /\ "unreachable" \in Replies /\ "unreachable" # "accepted"
    BY DEF DispatchInv, DispatchTypes, Replies, Plain, Failures
  <2>3. \A c \in Conns : /\ conn'[c] \in {Free} \cup CallsOf(Askers, Asks)
                         /\ conn'[c] # Free => conn[c] # Free /\ conn'[c].caller = conn[c].caller
                                                              /\ conn'[c].req = conn[c].req
                         /\ \/ conn'[c] = conn[c] \/ conn'[c] = Free
                            \/ conn'[c].answer = "unreachable"
    <3> SUFFICES ASSUME NEW c \in Conns
                 PROVE  /\ conn'[c] \in {Free} \cup CallsOf(Askers, Asks)
                        /\ conn'[c] # Free => conn[c] # Free /\ conn'[c].caller = conn[c].caller
                                                             /\ conn'[c].req = conn[c].req
                        /\ \/ conn'[c] = conn[c] \/ conn'[c] = Free
                           \/ conn'[c].answer = "unreachable"
      OBVIOUS
    <3>1. CASE ~IsOpen(c) \/ conn[c].server = "finished"
      BY <2>1, <2>2, <3>1 DEF LanTypes
    <3>2. CASE IsOpen(c) /\ conn[c].server # "finished"
      <4>1. conn'[c] = EndServe(c, "unreachable")
        BY <2>1, <3>2
      <4> QED BY <2>2, <3>2, <4>1, ServeEnds, ConnFields
    <3> QED BY <3>1, <3>2
  <2>4. LanTypes(Askers, Asks)'
    BY <2>1, <2>2, <2>3 DEF LanTypes
  <2>5. PumpAsks'
    BY <2>3, AskersStay DEF CallsKept
  <2>6. \A d \in Jobs : Said(Start(d), "accepted")' => Said(Start(d), "accepted")
    <3> SUFFICES ASSUME NEW d \in Jobs, NEW c \in Conns, conn'[c].server \in {"handled", "finished"},
                        conn'[c].req = Start(d), conn'[c].answer = "accepted"
                 PROVE  Said(Start(d), "accepted")
      BY <2>1 DEF Said
    <3>1. conn'[c] # Free
      BY DEF Free
    <3>2. conn'[c] = conn[c]
      BY <2>2, <2>3, <3>1
    <3> QED BY <3>2 DEF Said
  <2>7. \A d \in Jobs : HasStarted(d)' = HasStarted(d) /\ ~Launched(d)' /\ ~Launching(d)'
    BY <2>1 DEF HasStarted, Launched, Launching
  <2>8. /\ faults' \in [lost : Nat, restarts : Nat, recoveries : Nat]
        /\ faults'.recoveries = faults.recoveries
        /\ faults.recoveries \in Nat /\ unwritten \in [Jobs -> Nat]
    BY <2>1 DEF DispatchInv, DispatchTypes
  <2>9. unwritten' \in [Jobs -> Nat]
    BY <2>1, <2>8
  <2>10. DispatchTypes'
    BY <2>1, <2>4, <2>8, <2>9 DEF DispatchInv, DispatchTypes
  <2>11. RunsAreAdmitted'
    <3> SUFFICES ASSUME NEW d \in Jobs
                 PROVE  /\ started[d] <= 1 + Excused(d)'
                        /\ HasStarted(d) \/ started[d] <= Excused(d)'
      BY <2>1, <2>7 DEF RunsAreAdmitted
    <3>1. CASE Launched(d)
      <4>1. gate # NoGate /\ gate.step = "launched" /\ gate.by \in Conns /\ conn[gate.by].req.id = d
        BY <3>1, GateHolder DEF Launched
      <4>2. gate \in [step : {"launching", "launched"}, by : Conns]
        BY <4>1 DEF DispatchInv, DispatchTypes
      <4>3. At(gate.by, "launched")
        BY <4>1, <4>2 DEF At
      <4>4. unwritten'[d] = unwritten[d] + 1
        BY <2>1, <4>1, <4>3
      <4>5. Excused(d)' = Excused(d) + 1
        BY <2>8, <4>4 DEF Excused
      <4> QED BY <4>5, OneDispatch
    <3>2. CASE ~Launched(d)
      <4>1. unwritten'[d] = unwritten[d] \/ unwritten'[d] = unwritten[d] + 1
        BY <2>1
      <4>2. Excused(d)' >= Excused(d) /\ Excused(d)' \in Nat
        BY <2>8, <4>1 DEF Excused
      <4> QED BY <3>2, <4>2, OneDispatch
    <3> QED BY <3>1, <3>2
  <2>12. AcceptedIsStarted' /\ GateIsServed'
    BY <2>1, <2>6, <2>7, OneDispatch DEF AcceptedIsStarted, GateIsServed
  <2> QED BY <2>5, <2>10, <2>11, <2>12 DEF DispatchInv
<1>2. CASE agent_recovers
  <2>1. /\ faults' = [faults EXCEPT !.recoveries = @ + 1]
        /\ admissions' = [d \in DOMAIN admissions |-> [status |-> "launch_failed", lease |-> 0]]
        /\ conn' = conn /\ time' = time /\ granted' = granted /\ seen' = seen
        /\ rows' = rows /\ gate' = gate /\ started' = started /\ unwritten' = unwritten
    BY <1>2 DEF agent_recovers, lanVars
  <2>2. /\ faults' \in [lost : Nat, restarts : Nat, recoveries : Nat]
        /\ faults'.recoveries = faults.recoveries + 1
    BY <2>1 DEF DispatchInv, DispatchTypes
  <2>3. DispatchTypes' /\ GateIsServed' /\ PumpAsks'
    BY <2>1, <2>2 DEF DispatchInv, DispatchTypes, LanTypes, GateIsServed, PumpAsks, IsOpen, Owner
  <2>4. \A d \in Jobs : /\ ~HasStarted(d)' /\ (Launched(d)' <=> Launched(d))
                        /\ Said(Start(d), "accepted")' <=> Said(Start(d), "accepted")
    BY <2>1 DEF HasStarted, Launched, Said
  <2>5. \A d \in Jobs : Excused(d)' = Excused(d) + 1 /\ Excused(d) \in Nat
    <3>1. unwritten \in [Jobs -> Nat] /\ faults.recoveries \in Nat
      BY DEF DispatchInv, DispatchTypes
    <3> QED BY <2>1, <2>2, <3>1 DEF Excused
  <2>6. RunsAreAdmitted'
    <3> SUFFICES ASSUME NEW d \in Jobs
                 PROVE  started[d] <= 1 + Excused(d)' /\ started[d] <= Excused(d)'
      BY <2>1 DEF RunsAreAdmitted
    <3> QED BY <2>5, OneDispatch
  <2>7. AcceptedIsStarted'
    BY <2>1, <2>4, OneDispatch DEF AcceptedIsStarted
  <2> QED BY <2>3, <2>6, <2>7 DEF DispatchInv
<1> QED BY <1>1, <1>2

(* Nothing is connected, asked for, admitted or started.                   *)
LEMMA DispatchStarts == LanInit(0) /\ DispatchInit => DispatchInv
<1> SUFFICES ASSUME LanInit(0), DispatchInit PROVE DispatchInv
  OBVIOUS
<1>1. LanTypes(Askers, Asks)
  BY DEF LanInit, LanTypes
<1>2. DispatchTypes
  BY <1>1 DEF DispatchInit, DispatchTypes, RowStatus
<1>3. GateIsServed /\ PumpAsks
  BY DEF DispatchInit, LanInit, GateIsServed, PumpAsks, IsOpen, Free
<1>4. \A d \in Jobs : /\ started[d] = 0 /\ Excused(d) = 0 /\ ~HasStarted(d) /\ ~Launched(d) /\ ~Launching(d)
                      /\ rows[d].status # "accepted" /\ ~Said(Start(d), "accepted")
  BY DEF DispatchInit, LanInit, Excused, HasStarted, Launched, Launching, Said, Free
<1>5. RunsAreAdmitted /\ AcceptedIsStarted
  BY <1>4 DEF RunsAreAdmitted, AcceptedIsStarted
<1> QED BY <1>2, <1>3, <1>5 DEF DispatchInv

(* Every step of the two hosts keeps the invariant of dispatches.          *)
LEMMA DispatchKeeps == DispatchInv /\ [DispatchNext]_<<lanVars, dispatchVars>> => DispatchInv'
<1> SUFFICES ASSUME DispatchInv, [DispatchNext]_<<lanVars, dispatchVars>> PROVE DispatchInv'
  OBVIOUS
<1>1. CASE UNCHANGED <<lanVars, dispatchVars>>
  BY <1>1, LanRests
<1>2. CASE tick
  BY <1>2, LanRests DEF tick
<1>3. CASE PeerDirectory /\ UNCHANGED dispatchVars
  BY <1>3, LanRests
<1>4. CASE \E c \in Conns : DispatchThread(c) /\ UNCHANGED dispatchVars
  BY <1>4, LanRests
<1>5. CASE \E c \in Conns : Commanding(c)
  BY <1>5, PumpKeeps, AdmitKeeps, LaunchKeeps, LaunchEnds DEF Commanding
<1>6. CASE \E d \in Jobs : ask(d)
  BY <1>6, PumpKeeps
<1>7. CASE api_restarts \/ agent_recovers
  BY <1>7, HostFails
<1> QED BY <1>1, <1>2, <1>3, <1>4, <1>5, <1>6, <1>7 DEF DispatchNext

(* What the gateway, the connections and the coordinator say of a dispatch *)
(* agrees with the runs that were started, through lost answers, leases    *)
(* that run out, restarts and recoveries.                                  *)
THEOREM DispatchesAgree == DispatchSpec => []DispatchInv
BY DispatchStarts, DispatchKeeps, PTL DEF DispatchSpec

(* However often a dispatch is asked for, over however many connections    *)
(* and after whatever failures, it has one run, and one more for each start *)
(* whose row was not written and for each agent that started.              *)
THEOREM DispatchedOnce == DispatchSpec => []OneRemoteRun
<1>1. DispatchInv => OneRemoteRun
  BY DEF DispatchInv, DispatchTypes, RunsAreAdmitted, Excused, OneRemoteRun
<1> QED BY <1>1, DispatchesAgree, PTL

(* What the coordinator shows as accepted was started on the other host.   *)
THEOREM AcceptedWasStarted == DispatchSpec => []CoordinatorIsRight
<1>1. DispatchInv => CoordinatorIsRight
  BY DEF DispatchInv, AcceptedIsStarted, CoordinatorIsRight
<1> QED BY <1>1, DispatchesAgree, PTL

(***************************************************************************)
(* Messages.                                                               *)
(***************************************************************************)
Offers == [type : {"message.offer", "message.cancel", "message.status"}, id : Remote]
Callers == Flushers \cup {"refresh"}
Calls == Offers \cup {Query}
Arrival == [id : Remote, status : Open \cup Closed]
FlushRow == [id : Remote, cancel : BOOLEAN, accepted : BOOLEAN]
Final == {"read", "cancelled"}

\* A receiving host's table: one row for each message it has.
Listed(table) ==
    /\ table \in Seq(Arrival)
    /\ \A i, j \in DOMAIN table : table[i].id = table[j].id => i = j
Holds(table, m) == \E i \in DOMAIN table : table[i].id = m
Has(table, m, status) == \E i \in DOMAIN table : table[i].id = m /\ table[i].status = status

MessageTypes ==
    /\ LanTypes(Callers, Calls)
    /\ Sent \subseteq Copies /\ outbox \in [Sent -> Copy]
    /\ Listed(arrived)
    /\ flush \in [Flushers -> [at : {"idle", "calling"}, rows : SUBSET FlushRow]]
    /\ candidate \in [Readers -> {NoAnswer} \cup Copies]
    /\ taken \subseteq Readers \X Copies

\* Only the flushers ask about messages.
FlushersAsk == \A c \in Conns : IsOpen(c) /\ Owner(c) # "refresh" => conn[c].req \in Offers

\* What a reader has seen waiting is there to be claimed.
CandidatesAreThere ==
    \A r \in Readers : candidate[r] # NoAnswer =>
       IF candidate[r] \in Remote THEN Holds(arrived, candidate[r]) ELSE candidate[r] \in Sent

\* Exactly the messages somebody was given are read, each by one reader.
IsRead(m) == IF m \in Remote THEN Has(arrived, m, "read")
             ELSE m \in Sent /\ outbox[m].status = "read"
Given(m) == \E r \in Readers : <<r, m>> \in taken
ReadersAreRight ==
    /\ \A m \in Copies : IsRead(m) <=> Given(m)
    /\ \A p, q \in taken : p[2] = q[2] => p = q

\* What is said, remembered and stored of a message's end is what the
\* receiving host's row says.
SaidIsTrue == \A req \in Offers : \A s \in Final : Said(req, s) => Has(arrived, req.id, s)
StoredIsTrue ==
    \A m \in Remote \cap Sent : outbox[m].status \in Final => Has(arrived, m, outbox[m].status)

MessageInv ==
    /\ MessageTypes /\ FlushersAsk /\ CandidatesAreThere
    /\ ReadersAreRight /\ SaidIsTrue /\ StoredIsTrue

----------------------------------------------------------------------------
\* No row is lost, what is read or cancelled stays so, and nobody has read more.
Later(old, new) ==
    \A m \in Remote : /\ Holds(old, m) => Holds(new, m)
                      /\ Has(old, m, "read") <=> Has(new, m, "read")
                      /\ Has(old, m, "cancelled") => Has(new, m, "cancelled")

(* A table whose rows are rewritten is still a table.                      *)
LEMMA TableRewritten ==
    ASSUME NEW t, Listed(t), NEW u, DOMAIN u = DOMAIN t, u = [i \in DOMAIN t |-> u[i]],
           \A i \in DOMAIN t : u[i] \in Arrival /\ u[i].id = t[i].id
    PROVE  Listed(u) /\ \A m : Holds(u, m) <=> Holds(t, m)
<1>1. DOMAIN t = 1..Len(t) /\ Len(t) \in Nat
  BY LenProperties DEF Listed
<1>2. u \in [1..Len(t) -> Arrival]
  BY <1>1
<1>3. u \in Seq(Arrival)
  BY <1>1, <1>2, SeqDef
<1> QED BY <1>3 DEF Listed, Holds

(* A row of a table.                                                       *)
LEMMA TableRow ==
    ASSUME NEW t, Listed(t), NEW i \in DOMAIN t
    PROVE  t[i] \in Arrival /\ t[i].id \in Remote /\ t[i].status \in Open \cup Closed
<1>1. t[i] \in Arrival
  BY LenProperties, ElementOfSeq DEF Listed
<1> QED BY <1>1 DEF Arrival

(* A message has one row, which has one status.                            *)
LEMMA OneStatus ==
    ASSUME NEW t, Listed(t), NEW m, NEW s, NEW z, Has(t, m, s), Has(t, m, z)
    PROVE  s = z
BY DEF Listed, Has

(* What StatusOf finds is what the message's row says.                     *)
LEMMA StatusFound ==
    ASSUME NEW t, Listed(t), NEW m, Holds(t, m)
    PROVE  Has(t, m, StatusOf(m, t)) /\ StatusOf(m, t) \in Open \cup Closed
<1> DEFINE i == CHOOSE x \in DOMAIN t : t[x].id = m
<1>1. i \in DOMAIN t /\ t[i].id = m
  BY DEF Holds
<1>2. StatusOf(m, t) = t[i].status
  BY DEF StatusOf
<1> HIDE DEF i
<1> QED BY <1>1, <1>2, TableRow DEF Has

(* Expiry touches waiting rows only.                                       *)
LEMMA ExpiryKeeps ==
    ASSUME NEW t, Listed(t)
    PROVE  Listed(ExpiredIn(t)) /\ Later(t, ExpiredIn(t))
<1> DEFINE u == ExpiredIn(t)
<1>1. DOMAIN u = DOMAIN t /\ u = [i \in DOMAIN t |-> u[i]]
  BY DEF ExpiredIn
<1>2. \A i \in DOMAIN t : u[i] = t[i] \/ (t[i].status \in Open /\ u[i] = [t[i] EXCEPT !.status = "expired"])
  BY DEF ExpiredIn
<1> HIDE DEF u
<1>3. \A i \in DOMAIN t : /\ u[i] \in Arrival /\ u[i].id = t[i].id
                          /\ u[i].status \in Final \/ t[i].status \in Final => u[i].status = t[i].status
  <2> SUFFICES ASSUME NEW i \in DOMAIN t
               PROVE  /\ u[i] \in Arrival /\ u[i].id = t[i].id
                      /\ u[i].status \in Final \/ t[i].status \in Final => u[i].status = t[i].status
    OBVIOUS
  <2>1. t[i] \in Arrival
    BY TableRow
  <2> QED BY <1>2, <2>1 DEF Arrival, Final, Open, Closed
<1>4. Listed(u) /\ \A m : Holds(u, m) <=> Holds(t, m)
  BY <1>1, <1>3, TableRewritten
<1>5. \A m, s : s \in Final => (Has(t, m, s) <=> Has(u, m, s))
  BY <1>1, <1>3 DEF Has
<1>6. "read" \in Final /\ "cancelled" \in Final
  BY DEF Final
<1>7. Later(t, u)
  BY <1>4, <1>5, <1>6 DEF Later
<1> QED BY <1>4, <1>7 DEF u

(* A cancellation touches one waiting row.                                 *)
LEMMA CancellationKeeps ==
    ASSUME NEW t, Listed(t), NEW m
    PROVE  /\ Listed(CancelWaiting(m, t)) /\ Later(t, CancelWaiting(m, t))
           /\ Holds(t, m) => Holds(CancelWaiting(m, t), m)
<1> DEFINE u == CancelWaiting(m, t)
<1>1. DOMAIN u = DOMAIN t /\ u = [i \in DOMAIN t |-> u[i]]
  BY DEF CancelWaiting
<1>2. \A i \in DOMAIN t : u[i] = t[i] \/ (t[i].status = "waiting_read" /\ u[i] = [t[i] EXCEPT !.status = "cancelled"])
  BY DEF CancelWaiting
<1> HIDE DEF u
<1>3. \A i \in DOMAIN t : /\ u[i] \in Arrival /\ u[i].id = t[i].id
                          /\ t[i].status \in Final => u[i].status = t[i].status
                          /\ u[i].status = "read" => t[i].status = "read"
  <2> SUFFICES ASSUME NEW i \in DOMAIN t
               PROVE  /\ u[i] \in Arrival /\ u[i].id = t[i].id
                      /\ t[i].status \in Final => u[i].status = t[i].status
                      /\ u[i].status = "read" => t[i].status = "read"
    OBVIOUS
  <2>1. t[i] \in Arrival
    BY TableRow
  <2> QED BY <1>2, <2>1 DEF Arrival, Final, Open, Closed
<1>4. Listed(u) /\ \A x : Holds(u, x) <=> Holds(t, x)
  BY <1>1, <1>3, TableRewritten
<1>5. \A x : (Has(t, x, "read") <=> Has(u, x, "read")) /\ (Has(t, x, "cancelled") => Has(u, x, "cancelled"))
  <2>1. \A i \in DOMAIN t : /\ t[i].status = "read" <=> u[i].status = "read"
                            /\ t[i].status = "cancelled" => u[i].status = "cancelled"
    BY <1>3 DEF Final
  <2> QED BY <1>1, <1>3, <2>1 DEF Has
<1>6. Later(t, u)
  BY <1>4, <1>5 DEF Later
<1> QED BY <1>4, <1>6 DEF u

(* A message that arrives gets a row of its own.                           *)
LEMMA ArrivalKeeps ==
    ASSUME NEW t, Listed(t), NEW m \in Remote, ~Holds(t, m), NEW s \in Open \cup {"expired"}
    PROVE  LET u == Append(t, [id |-> m, status |-> s]) IN Listed(u) /\ Later(t, u) /\ Holds(u, m)
<1> DEFINE row == [id |-> m, status |-> s]
           u == Append(t, row)
<1>1. row \in Arrival /\ row.id = m /\ row.status = s /\ s \notin Final
  BY DEF Arrival, Open, Closed, Final
<1> HIDE DEF row
<1>2. /\ DOMAIN t = 1..Len(t) /\ Len(t) \in Nat
      /\ u \in Seq(Arrival) /\ DOMAIN u = 1..(Len(t) + 1)
      /\ u[Len(t) + 1] = row /\ \A i \in 1..Len(t) : u[i] = t[i]
  BY <1>1, LenProperties, AppendProperties DEF Listed
<1> HIDE DEF u
<1>3. \A i \in DOMAIN u : i \in DOMAIN t \/ i = Len(t) + 1
  BY <1>2
<1>4. \A i \in DOMAIN t : i \in DOMAIN u /\ i # Len(t) + 1 /\ t[i].id # m
  BY <1>2 DEF Holds
<1>5. Len(t) + 1 \in DOMAIN u
  BY <1>2
<1>6. Listed(u)
  BY <1>1, <1>2, <1>3, <1>4 DEF Listed
<1>7. Later(t, u) /\ Holds(u, m)
  BY <1>1, <1>2, <1>3, <1>4, <1>5 DEF Later, Holds, Has, Final
<1> QED BY <1>6, <1>7 DEF u, row

----------------------------------------------------------------------------
(* Requests about messages differ from the question about permissions.     *)
LEMMA OfferNames ==
    /\ \A r \in Offers : r.id \in Remote /\ r.type \in {"message.offer", "message.cancel", "message.status"}
    /\ Query \notin Offers /\ Query.type = "permissions.query" /\ "permissions.query" \notin
          {"message.offer", "message.cancel", "message.status"}
    /\ Final \cap Plain = {} /\ Open \cup Closed \subseteq Replies /\ Failures \subseteq Plain
    /\ Remote \subseteq Copies /\ Final \subseteq Closed /\ Final \cap Open = {}
    /\ Failures \subseteq Replies /\ "expired" \notin Final /\ "failed" \notin Final
BY MessageAssumption
   DEF Offers, Query, Final, Plain, Failures, Open, Closed, Replies

\* How a step may treat the sender's rows while the receiver's move on.
OutboxMoves ==
    /\ Sent \subseteq Sent'
    /\ \A m \in Copies \ Remote : (m \in Sent' /\ outbox'[m].status = "read") <=>
                                  (m \in Sent /\ outbox[m].status = "read")
    /\ \A m \in Remote \cap Sent' :
          outbox'[m].status \in Final => Has(arrived', m, outbox'[m].status)

(* Nobody is given a message, and nothing untrue is said or stored.        *)
LEMMA NobodyIsGiven ==
    ASSUME MessageInv, MessageTypes', FlushersAsk', taken' = taken, OutboxMoves,
           Later(arrived, arrived'),
           \A r \in Readers : \/ candidate'[r] = candidate[r] \/ candidate'[r] = NoAnswer
                              \/ IF candidate'[r] \in Remote THEN Holds(arrived', candidate'[r])
                                 ELSE candidate'[r] \in Sent',
           \A req \in Offers : \A s \in Final :
              Said(req, s)' => Said(req, s) \/ Has(arrived', req.id, s)
    PROVE  MessageInv'
<1>1. CandidatesAreThere'
  <2> SUFFICES ASSUME NEW r \in Readers, candidate'[r] # NoAnswer
               PROVE  IF candidate'[r] \in Remote THEN Holds(arrived', candidate'[r])
                      ELSE candidate'[r] \in Sent'
    BY DEF CandidatesAreThere
  <2>1. CASE candidate'[r] = candidate[r]
    BY <2>1 DEF MessageInv, CandidatesAreThere, Later, OutboxMoves
  <2> QED BY <2>1
<1>2. ReadersAreRight'
  <2>1. \A m \in Copies : (IsRead(m)' <=> IsRead(m)) /\ (Given(m)' <=> Given(m))
    BY DEF IsRead, Given, Later, OutboxMoves
  <2> QED BY <2>1 DEF MessageInv, ReadersAreRight
<1>3. SaidIsTrue'
  <2> SUFFICES ASSUME NEW req \in Offers, NEW s \in Final, Said(req, s)'
               PROVE  Has(arrived', req.id, s)
    BY DEF SaidIsTrue
  <2>1. CASE Said(req, s)
    <3>1. Has(arrived, req.id, s) /\ req.id \in Remote
      BY <2>1, OfferNames DEF MessageInv, SaidIsTrue
    <3> QED BY <3>1 DEF Later, Final
  <2> QED BY <2>1
<1>4. StoredIsTrue'
  BY DEF StoredIsTrue, OutboxMoves
<1> QED BY <1>1, <1>2, <1>3, <1>4 DEF MessageInv

(* The types the steps start from.                                         *)
LEMMA MessageFields ==
    ASSUME MessageInv
    PROVE  /\ LanTypes(Callers, Calls) /\ Listed(arrived)
           /\ \A m \in Sent : /\ outbox[m] \in Copy /\ m \in Copies
                              /\ outbox[m].status \in Open \cup Closed
                              /\ outbox[m].accepted \in BOOLEAN /\ outbox[m].cancel \in BOOLEAN
           /\ \A f \in Flushers : /\ flush[f] \in [at : {"idle", "calling"}, rows : SUBSET FlushRow]
                                  /\ flush[f].at \in {"idle", "calling"} /\ flush[f].rows \subseteq FlushRow
           /\ \A c \in Conns : IsOpen(c) <=> conn[c] # Free
<1>1. LanTypes(Callers, Calls) /\ Listed(arrived) /\ outbox \in [Sent -> Copy] /\ Sent \subseteq Copies
      /\ flush \in [Flushers -> [at : {"idle", "calling"}, rows : SUBSET FlushRow]]
  BY DEF MessageInv, MessageTypes
<1>2. \A c \in Conns : IsOpen(c) <=> conn[c] # Free
  BY <1>1, ConnFields
<1>3. \A m \in Sent : outbox[m] \in Copy
  BY <1>1
<1> QED BY <1>1, <1>2, <1>3 DEF Copy

(* The sender's and the receiver's rows stay as they are.                  *)
LEMMA RowsRest ==
    ASSUME MessageInv, outbox' = outbox, arrived' = arrived
    PROVE  OutboxMoves /\ Later(arrived, arrived')
<1>1. Sent' = Sent
  BY DEF Sent
<1> QED BY <1>1 DEF OutboxMoves, Later, MessageInv, StoredIsTrue

(* Who asked for what does not change when no call is opened.              *)
LEMMA FlushersStay ==
    ASSUME MessageInv, CallsKept
    PROVE  FlushersAsk'
<1> SUFFICES ASSUME NEW b \in Conns, IsOpen(b)', conn'[b].caller # "refresh"
             PROVE  conn'[b].req \in Offers
  BY DEF FlushersAsk, Owner
<1>1. conn'[b] # Free
  BY DEF IsOpen, Free
<1>2. conn[b] # Free /\ conn[b].caller # "refresh" /\ conn'[b].req = conn[b].req
  BY <1>1 DEF CallsKept
<1> QED BY <1>2, MessageFields DEF MessageInv, FlushersAsk, Owner

(* A step of the LAN alone, the clock, and a recipient that registers.     *)
LEMMA MessagesRest ==
    ASSUME MessageInv, UNCHANGED <<outbox, arrived, flush, candidate, taken>>,
           \/ clock_ticks \/ UNCHANGED lanVars \/ PeerDirectory \/ \E c \in Conns : Thread(c)
    PROVE  MessageInv'
<1>1. LanTypes(Callers, Calls)
  BY MessageFields
<1>2. ASSUME LanTypes(Callers, Calls)', NothingNewSaid, FlushersAsk' PROVE MessageInv'
  <2>1. MessageTypes'
    BY <1>2 DEF MessageInv, MessageTypes, Sent
  <2>2. OutboxMoves /\ Later(arrived, arrived')
    BY RowsRest
  <2>3. \A req \in Offers : \A s \in Final : Said(req, s)' => Said(req, s)
    BY <1>2, OfferNames DEF NothingNewSaid
  <2> QED BY <1>2, <2>1, <2>2, <2>3, NobodyIsGiven
<1>3. CASE clock_ticks \/ UNCHANGED lanVars
  <2>1. conn' = conn /\ granted' = granted /\ seen' = seen /\ (time' = time \/ time' = time + 1)
    BY <1>3 DEF clock_ticks, lanVars
  <2>2. LanTypes(Callers, Calls)'
    BY <1>1, <2>1 DEF LanTypes
  <2>3. NothingNewSaid /\ CallsKept
    BY <2>1 DEF NothingNewSaid, Said, CallsKept
  <2> QED BY <1>2, <2>2, <2>3, FlushersStay
<1>4. CASE \E c \in Conns : Thread(c)
  <2>1. Carried(Callers, Calls)
    BY <1>1, <1>4, ThreadCarries
  <2> QED BY <1>2, <2>1, FlushersStay DEF Carried
<1>5. CASE PeerDirectory
  <2>1. "refresh" \in Callers /\ Query \in Calls
    BY DEF Callers, Calls
  <2>2. /\ LanTypes(Callers, Calls)' /\ NothingNewSaid
        /\ \A c \in Conns : \/ conn'[c] = conn[c] \/ Opened(c, "refresh", Query)
                            \/ conn[c] # Free /\ Owner(c) = "refresh" /\ Left(c)
    BY <1>1, <1>5, <2>1, DirectoryCarries
  <2>3. FlushersAsk'
    <3> SUFFICES ASSUME NEW c \in Conns, IsOpen(c)', conn'[c].caller # "refresh"
                 PROVE  conn'[c].req \in Offers
      BY DEF FlushersAsk, Owner
    <3>1. CASE conn'[c] = conn[c]
      BY <3>1 DEF FlushersAsk, Owner, IsOpen, MessageInv
    <3>2. CASE Opened(c, "refresh", Query)
      BY <3>2 DEF Opened
    <3>3. CASE conn[c] # Free /\ Owner(c) = "refresh" /\ Left(c)
      <4>1. conn'[c] # Free
        BY DEF IsOpen, Free
      <4>2. conn[c] \in CallsOf(Callers, Calls)
        BY <1>1, <3>3 DEF LanTypes
      <4>3. conn'[c].caller = conn[c].caller
        BY <3>3, <4>1, <4>2 DEF Left, CallsOf
      <4> QED BY <3>3, <4>3 DEF Owner
    <3> QED BY <2>2, <3>1, <3>2, <3>3
  <2> QED BY <1>2, <2>2, <2>3
<1> QED BY <1>3, <1>4, <1>5

(* The LAN does nothing.                                                   *)
LEMMA LanSilent ==
    ASSUME MessageInv, UNCHANGED lanVars
    PROVE  /\ LanTypes(Callers, Calls)' /\ FlushersAsk'
           /\ \A req \in Offers : \A s \in Final : Said(req, s)' => Said(req, s)
<1>1. conn' = conn /\ granted' = granted /\ seen' = seen /\ time' = time
  BY DEF lanVars
<1> QED BY <1>1, MessageFields DEF LanTypes, CallsKept, Said, MessageInv, FlushersAsk, IsOpen, Owner

(* The rows a flush finds.                                                 *)
LEMMA FoundRows ==
    ASSUME NEW box, \A m \in DOMAIN box : box[m] \in Copy
    PROVE  RowsToFlush(box) \subseteq FlushRow
<1> SUFFICES ASSUME NEW m \in Remote \cap DOMAIN box
             PROVE  [id |-> m, cancel |-> box[m].cancel, accepted |-> box[m].accepted] \in FlushRow
  BY DEF RowsToFlush
<1>1. box[m].cancel \in BOOLEAN /\ box[m].accepted \in BOOLEAN
  BY DEF Copy
<1> QED BY <1>1 DEF FlushRow

(* The sender's rows: those that wait may expire, local ones be cancelled. *)
LEMMA OutboxStep ==
    ASSUME MessageInv, NEW box, DOMAIN box = Sent, box = [m \in Sent |-> box[m]],
           \A m \in Sent : /\ box[m] \in Copy
                           /\ \/ box[m].status = outbox[m].status
                              \/ outbox[m].status \in Open /\ box[m].status = "expired"
                              \/ outbox[m].status \in Open /\ box[m].status = "cancelled" /\ m \notin Remote,
           outbox' = box, Later(arrived, arrived')
    PROVE  OutboxMoves /\ Sent' = Sent /\ outbox' \in [Sent' -> Copy] /\ Sent' \subseteq Copies
<1>1. Sent' = Sent
  BY DEF Sent
<1>2. \A m \in Sent : outbox[m].status \in Open => outbox[m].status # "read"
  BY DEF Open
<1>3. ASSUME NEW m \in Remote \cap Sent', outbox'[m].status \in Final
      PROVE  Has(arrived', m, outbox'[m].status)
  <2>1. outbox'[m].status = outbox[m].status
    BY <1>1, <1>3, OfferNames
  <2>2. Has(arrived, m, outbox[m].status)
    BY <1>1, <1>3, <2>1 DEF MessageInv, StoredIsTrue
  <2> QED BY <1>3, <2>1, <2>2 DEF Later, Final
<1>4. \A m \in Copies \ Remote : (m \in Sent' /\ outbox'[m].status = "read") <=>
                                  (m \in Sent /\ outbox[m].status = "read")
  BY <1>1, <1>2
<1>5. outbox' \in [Sent' -> Copy] /\ Sent' \subseteq Copies
  BY <1>1 DEF MessageInv, MessageTypes
<1> QED BY <1>1, <1>3, <1>4, <1>5 DEF OutboxMoves

(* Expiry of the sender's rows is such a step.                             *)
LEMMA ExpiredRows ==
    ASSUME MessageInv
    PROVE  /\ DOMAIN ExpiredOut = Sent /\ ExpiredOut = [m \in Sent |-> ExpiredOut[m]]
           /\ \A m \in Sent : /\ ExpiredOut[m] \in Copy
                              /\ \/ ExpiredOut[m].status = outbox[m].status
                                 \/ outbox[m].status \in Open /\ ExpiredOut[m].status = "expired"
<1>1. DOMAIN ExpiredOut = Sent /\ ExpiredOut = [m \in Sent |-> ExpiredOut[m]]
  BY DEF ExpiredOut
<1>2. ASSUME NEW m \in Sent
      PROVE  /\ ExpiredOut[m] \in Copy
             /\ \/ ExpiredOut[m].status = outbox[m].status
                \/ outbox[m].status \in Open /\ ExpiredOut[m].status = "expired"
  <2>1. outbox[m] \in Copy
    BY MessageFields
  <2>2. \/ ExpiredOut[m] = outbox[m]
        \/ outbox[m].status \in Open /\ ExpiredOut[m] = [outbox[m] EXCEPT !.status = "expired"]
    BY DEF ExpiredOut
  <2> QED BY <2>1, <2>2 DEF Copy, Closed
<1> QED BY <1>1, <1>2

(* A flush gets its rows.                                                  *)
LEMMA FlushGets ==
    ASSUME MessageInv, NEW f \in Flushers, NEW some \in SUBSET FlushRow,
           flush' = [flush EXCEPT ![f].rows = some]
    PROVE  flush' \in [Flushers -> [at : {"idle", "calling"}, rows : SUBSET FlushRow]]
BY DEF MessageInv, MessageTypes

(* A batch is stored, rows are selected to be flushed, or cancelled.       *)
LEMMA SenderKeeps ==
    ASSUME MessageInv, NEW f \in Flushers,
           \/ \E batch \in Batches : send(f, batch)
           \/ select(f) \/ \E wanted \in SUBSET Sent : cancel(f, wanted)
    PROVE  MessageInv'
<1>1. /\ UNCHANGED lanVars /\ arrived' = arrived /\ candidate' = candidate /\ taken' = taken
      /\ flush' = [flush EXCEPT ![f].rows = RowsToFlush(outbox')]
  BY DEF send, select, cancel
<1>2. LanTypes(Callers, Calls)' /\ FlushersAsk' /\ \A req \in Offers : \A s \in Final : Said(req, s)' => Said(req, s)
  BY <1>1, LanSilent
<1>3. Later(arrived, arrived')
  BY <1>1 DEF Later
<1>4. ASSUME OutboxMoves, outbox' \in [Sent' -> Copy], Sent' \subseteq Copies PROVE MessageInv'
  <2>1. RowsToFlush(outbox') \subseteq FlushRow
    <3> DEFINE box == outbox'
    <3>1. \A m \in DOMAIN box : box[m] \in Copy
      BY <1>4
    <3> HIDE DEF box
    <3>2. RowsToFlush(box) \subseteq FlushRow
      BY <3>1, FoundRows
    <3> QED BY <3>2 DEF box
  <2> DEFINE some == RowsToFlush(outbox')
  <2>2. some \in SUBSET FlushRow /\ flush' = [flush EXCEPT ![f].rows = some]
    BY <1>1, <2>1
  <2> HIDE DEF some
  <2>3. flush' \in [Flushers -> [at : {"idle", "calling"}, rows : SUBSET FlushRow]]
    BY <2>2, FlushGets
  <2>4. MessageTypes'
    BY <1>1, <1>2, <1>4, <2>3 DEF MessageInv, MessageTypes
  <2> QED BY <1>1, <1>2, <1>3, <1>4, <2>4, NobodyIsGiven
<1>5. CASE \E batch \in Batches : send(f, batch)
  <2>1. PICK batch \in Batches : send(f, batch)
    BY <1>5
  <2>2. /\ Sent = {} /\ DOMAIN outbox' = batch /\ outbox' = [m \in batch |-> outbox'[m]]
        /\ \A m \in batch : outbox'[m] = [status |-> IF m \in Local THEN "waiting_read" ELSE "waiting_send",
                                          accepted |-> FALSE, cancel |-> FALSE]
    BY <2>1 DEF send
  <2>3. Sent' = batch /\ batch \subseteq Copies
    BY <2>2, MessageAssumption DEF Sent
  <2>4. \A m \in batch : outbox'[m] \in Copy /\ outbox'[m].status \in Open
    <3> SUFFICES ASSUME NEW m \in batch PROVE outbox'[m] \in Copy /\ outbox'[m].status \in Open
      OBVIOUS
    <3>1. PICK status \in Open : outbox'[m] = [status |-> status, accepted |-> FALSE, cancel |-> FALSE]
      BY <2>2 DEF Open
    <3> QED BY <3>1 DEF Copy
  <2>5. outbox' \in [Sent' -> Copy]
    BY <2>2, <2>3, <2>4
  <2>6. OutboxMoves
    BY <2>2, <2>3, <2>4, OfferNames DEF OutboxMoves, Final
  <2> QED BY <1>4, <2>3, <2>5, <2>6
<1>6. CASE select(f) \/ \E wanted \in SUBSET Sent : cancel(f, wanted)
  <2>1. /\ DOMAIN outbox' = Sent /\ outbox' = [m \in Sent |-> outbox'[m]]
        /\ \A m \in Sent : \/ outbox'[m] = ExpiredOut[m]
                           \/ /\ ExpiredOut[m].status \in Open
                              /\ \/ outbox'[m] = [ExpiredOut[m] EXCEPT !.cancel = TRUE]
                                 \/ m \notin Remote /\ outbox'[m] = [ExpiredOut[m] EXCEPT !.status = "cancelled"]
    <3>1. CASE select(f)
      BY <3>1, ExpiredRows DEF select
    <3>2. CASE \E wanted \in SUBSET Sent : cancel(f, wanted)
      BY <3>2 DEF cancel
    <3> QED BY <1>6, <3>1, <3>2
  <2>2. \A m \in Sent : /\ outbox'[m] \in Copy
                        /\ \/ outbox'[m].status = outbox[m].status
                           \/ outbox[m].status \in Open /\ outbox'[m].status = "expired"
                           \/ outbox[m].status \in Open /\ outbox'[m].status = "cancelled" /\ m \notin Remote
    <3> SUFFICES ASSUME NEW m \in Sent
                 PROVE  /\ outbox'[m] \in Copy
                        /\ \/ outbox'[m].status = outbox[m].status
                           \/ outbox[m].status \in Open /\ outbox'[m].status = "expired"
                           \/ outbox[m].status \in Open /\ outbox'[m].status = "cancelled" /\ m \notin Remote
      OBVIOUS
    <3> DEFINE row == ExpiredOut[m]
    <3>1. /\ row \in Copy
          /\ row.status = outbox[m].status \/ (outbox[m].status \in Open /\ row.status = "expired")
          /\ \/ outbox'[m] = row
             \/ /\ row.status \in Open
                /\ \/ outbox'[m] = [row EXCEPT !.cancel = TRUE]
                   \/ m \notin Remote /\ outbox'[m] = [row EXCEPT !.status = "cancelled"]
      BY <2>1, ExpiredRows
    <3> HIDE DEF row
    <3> QED BY <3>1 DEF Copy, Open, Closed
  <2> DEFINE box == outbox'
  <2>3. /\ outbox' = box /\ DOMAIN box = Sent /\ box = [m \in Sent |-> box[m]]
        /\ \A m \in Sent : /\ box[m] \in Copy
                           /\ \/ box[m].status = outbox[m].status
                              \/ outbox[m].status \in Open /\ box[m].status = "expired"
                              \/ outbox[m].status \in Open /\ box[m].status = "cancelled" /\ m \notin Remote
    BY <2>1, <2>2
  <2> HIDE DEF box
  <2>4. OutboxMoves /\ outbox' \in [Sent' -> Copy] /\ Sent' \subseteq Copies
    BY <1>3, <2>3, OutboxStep
  <2> QED BY <1>4, <2>4
<1> QED BY <1>5, <1>6

(* A flush passes over a row, or calls the peer about it.                  *)
LEMMA FlushKeeps ==
    ASSUME MessageInv, NEW f \in Flushers, NEW row \in flush[f].rows,
           pass_over(f, row) \/ call_peer(f, row)
    PROVE  MessageInv'
<1>1. /\ outbox' = outbox /\ arrived' = arrived /\ candidate' = candidate /\ taken' = taken
      /\ row \in FlushRow
  BY MessageFields DEF pass_over, call_peer
<1>2. OutboxMoves /\ Later(arrived, arrived')
  BY <1>1, RowsRest
<1>3. flush' \in [Flushers -> [at : {"idle", "calling"}, rows : SUBSET FlushRow]]
  <2>1. CASE pass_over(f, row)
    BY <2>1, MessageFields DEF pass_over, MessageInv, MessageTypes
  <2>2. CASE call_peer(f, row)
    <3> DEFINE now == [at |-> "calling", rows |-> flush[f].rows \ {row}]
    <3>1. flush' = [flush EXCEPT ![f] = now] /\ now \in [at : {"idle", "calling"}, rows : SUBSET FlushRow]
      BY <2>2, MessageFields DEF call_peer
    <3> HIDE DEF now
    <3> QED BY <3>1 DEF MessageInv, MessageTypes
  <2> QED BY <2>1, <2>2
<1>4. CASE pass_over(f, row)
  <2>1. UNCHANGED lanVars
    BY <1>4 DEF pass_over
  <2>2. LanTypes(Callers, Calls)' /\ FlushersAsk' /\ \A req \in Offers : \A s \in Final : Said(req, s)' => Said(req, s)
    BY <2>1, LanSilent
  <2>3. MessageTypes'
    BY <1>1, <1>3, <2>2 DEF MessageInv, MessageTypes, Sent
  <2> QED BY <1>1, <1>2, <2>2, <2>3, NobodyIsGiven
<1>5. CASE call_peer(f, row)
  <2> DEFINE req == Request(row)
             ttl == Expires - time
  <2>1. req \in Offers
    BY <1>1 DEF Request, Offers, FlushRow
  <2>2. ttl \in Nat
    <3>1. time < Ttl /\ time \in Nat /\ Ttl \in Nat
      BY <1>5, MessageFields, MessageAssumption DEF call_peer, Overdue, Expires, LanTypes
    <3> QED BY <3>1 DEF Expires
  <2>3. Dials(f, req, ttl)
    BY <1>5 DEF call_peer, secure_request, Dials
  <2>4. f \in Callers /\ req \in Calls
    BY <2>1 DEF Callers, Calls
  <2> HIDE DEF req, ttl
  <2>5. /\ LanTypes(Callers, Calls)' /\ NothingNewSaid
        /\ \E n \in Conns : Opened(n, f, req) /\ \A b \in Conns \ {n} : conn'[b] = conn[b]
    BY <2>2, <2>3, <2>4, MessageFields, CallOpens
  <2>6. PICK n \in Conns : Opened(n, f, req) /\ \A b \in Conns \ {n} : conn'[b] = conn[b]
    BY <2>5
  <2>7. FlushersAsk'
    BY <2>1, <2>6 DEF FlushersAsk, Opened, IsOpen, Owner, MessageInv
  <2>8. \A r \in Offers : \A s \in Final : Said(r, s)' => Said(r, s)
    BY <2>5, OfferNames DEF NothingNewSaid
  <2>9. MessageTypes'
    BY <1>1, <1>3, <2>5 DEF MessageInv, MessageTypes, Sent
  <2> QED BY <1>1, <1>2, <2>7, <2>8, <2>9, NobodyIsGiven
<1> QED BY <1>4, <1>5

(* The sender stores what it was told, or that the call has failed.        *)
LEMMA AnswerKeeps ==
    ASSUME MessageInv, NEW f \in Flushers, NEW c \in Conns,
           NEW outcome \in Closed \cup {"waiting_read"} \cup Failures, use_answer(f, c, outcome)
    PROVE  MessageInv'
<1> DEFINE m == conn[c].req.id
<1>1. /\ Return(c, outcome) /\ Owner(c) = f /\ f # "refresh"
      /\ outbox' = (IF outcome \in Failures THEN RecordFailure(m, outcome) ELSE ApplyRemoteStatus(m, outcome))
      /\ flush' = [flush EXCEPT ![f].at = "idle"]
      /\ time' = time /\ granted' = granted /\ seen' = seen
      /\ arrived' = arrived /\ candidate' = candidate /\ taken' = taken
  BY MessageAssumption DEF use_answer
<1>2. /\ Carried(Callers, Calls) /\ conn[c] \in CallsOf(Callers, Calls)
      /\ outcome = "unreachable" \/ Said(conn[c].req, outcome)
  BY <1>1, MessageFields, CallReturns
<1>3. conn[c].req \in Offers /\ m \in Remote
  <2>1. IsOpen(c)
    BY <1>1 DEF Return, Waiting
  <2> QED BY <1>1, <2>1, OfferNames DEF MessageInv, FlushersAsk
<1>4. LanTypes(Callers, Calls)' /\ NothingNewSaid /\ CallsKept
  BY <1>2 DEF Carried
<1>5. FlushersAsk' /\ \A r \in Offers : \A s \in Final : Said(r, s)' => Said(r, s)
  BY <1>4, FlushersStay, OfferNames DEF NothingNewSaid
<1>6. outcome \in Final => Has(arrived, m, outcome)
  <2>1. "unreachable" \notin Final
    BY DEF Final
  <2> QED BY <1>2, <1>3, <2>1 DEF MessageInv, SaidIsTrue
<1> HIDE DEF m
<1>7. ASSUME NEW status \in Open \cup Closed, NEW accepted \in BOOLEAN,
             outbox' = [outbox EXCEPT ![m].status = status, ![m].accepted = accepted],
             status \in Final => Has(arrived, m, status)
      PROVE  OutboxMoves /\ outbox' \in [Sent' -> Copy] /\ Sent' = Sent
  <2>1. Sent' = Sent
    BY <1>7 DEF Sent
  <2>2. \A x \in Sent : x # m => outbox'[x] = outbox[x]
    BY <1>7, MessageFields DEF MessageInv, MessageTypes
  <2>3. m \in Sent => outbox'[m] \in Copy /\ outbox'[m].status = status
    <3> SUFFICES ASSUME m \in Sent PROVE outbox'[m] \in Copy /\ outbox'[m].status = status
      OBVIOUS
    <3> DEFINE row == outbox[m]
    <3>1. row \in Copy
      BY MessageFields
    <3>2. outbox'[m] = [row EXCEPT !.status = status, !.accepted = accepted]
      BY <1>7 DEF MessageInv, MessageTypes
    <3> HIDE DEF row
    <3> QED BY <3>1, <3>2 DEF Copy
  <2>4. outbox' \in [Sent' -> Copy]
    BY <1>7, <2>1, <2>2, <2>3 DEF MessageInv, MessageTypes
  <2>5. ASSUME NEW x \in Remote \cap Sent', outbox'[x].status \in Final
        PROVE  Has(arrived', x, outbox'[x].status)
    <3>1. CASE x = m
      BY <1>1, <1>7, <2>1, <2>3, <2>5, <3>1
    <3>2. CASE x # m
      BY <1>1, <2>1, <2>2, <2>5, <3>2 DEF MessageInv, StoredIsTrue
    <3> QED BY <3>1, <3>2
  <2>6. \A x \in Copies \ Remote : (x \in Sent' /\ outbox'[x].status = "read") <=>
                                  (x \in Sent /\ outbox[x].status = "read")
    BY <1>3, <2>1, <2>2
  <2> QED BY <2>1, <2>4, <2>5, <2>6 DEF OutboxMoves
<1>8. OutboxMoves /\ outbox' \in [Sent' -> Copy] /\ Sent' = Sent
  <2>1. CASE outbox' = outbox
    BY <1>1, <2>1, RowsRest DEF MessageInv, MessageTypes, Sent
  <2>2. CASE outcome \in Failures /\ outbox' = [outbox EXCEPT ![m].status = "failed"]
    <3>1. CASE m \in Sent
      <4> DEFINE old == outbox[m].accepted
      <4>1. outbox' = [outbox EXCEPT ![m].status = "failed", ![m].accepted = old] /\ old \in BOOLEAN
        <5> DEFINE row == outbox[m]
        <5>1. row \in Copy
          BY <3>1, MessageFields
        <5>2. old \in BOOLEAN
          BY <5>1 DEF Copy
        <5>3. [row EXCEPT !.status = "failed"] = [row EXCEPT !.status = "failed", !.accepted = row.accepted]
          <6> HIDE DEF row
          <6> QED BY <5>1 DEF Copy
        <5> QED BY <2>2, <3>1, <5>2, <5>3
      <4>2. "failed" \in Open \cup Closed /\ "failed" \notin Final
        BY DEF Closed, Final
      <4> HIDE DEF old
      <4> QED BY <1>7, <4>1, <4>2
    <3>2. CASE m \notin Sent
      <4>1. outbox' = outbox
        BY <2>2, <3>2 DEF MessageInv, MessageTypes
      <4> QED BY <2>1, <4>1
    <3> QED BY <3>1, <3>2
  <2>3. CASE outcome \notin Failures
    <3>1. outbox' = [outbox EXCEPT ![m].status = outcome, ![m].accepted = TRUE]
      BY <1>1, <2>3 DEF ApplyRemoteStatus
    <3>2. outcome \in Open \cup Closed /\ TRUE \in BOOLEAN
      BY <2>3 DEF Open
    <3> QED BY <1>6, <1>7, <3>1, <3>2
  <2> QED BY <1>1, <2>1, <2>2, <2>3 DEF RecordFailure
<1>9. MessageTypes'
  BY <1>1, <1>4, <1>8 DEF MessageInv, MessageTypes
<1>10. Later(arrived, arrived')
  BY <1>1 DEF Later
<1> QED BY <1>1, <1>5, <1>8, <1>9, <1>10, NobodyIsGiven

(* A reader looks for a message, or finds none.                            *)
LEMMA PeekKeeps ==
    ASSUME MessageInv, peek_nothing \/ \E r \in Readers : peek(r)
    PROVE  MessageInv'
<1>1. UNCHANGED lanVars /\ flush' = flush /\ taken' = taken
  BY DEF peek_nothing, peek
<1>2. LanTypes(Callers, Calls)' /\ FlushersAsk' /\ \A req \in Offers : \A s \in Final : Said(req, s)' => Said(req, s)
  BY <1>1, LanSilent
<1>3. Listed(arrived') /\ Later(arrived, arrived')
  <2>1. arrived' = arrived \/ arrived' = ExpiredIn(arrived)
    BY DEF peek_nothing, peek
  <2>2. Later(arrived, arrived)
    BY DEF Later
  <2> QED BY <2>1, <2>2, MessageFields, ExpiryKeeps
<1>4. OutboxMoves /\ Sent' = Sent /\ outbox' \in [Sent' -> Copy]
  <2>1. outbox' = outbox \/ outbox' = ExpiredOut
    BY DEF peek_nothing, peek
  <2> DEFINE box == outbox'
  <2>2. /\ outbox' = box /\ DOMAIN box = Sent /\ box = [m \in Sent |-> box[m]]
        /\ \A m \in Sent : /\ box[m] \in Copy
                           /\ \/ box[m].status = outbox[m].status
                              \/ outbox[m].status \in Open /\ box[m].status = "expired"
    BY <2>1, ExpiredRows DEF MessageInv, MessageTypes
  <2> HIDE DEF box
  <2> QED BY <1>3, <2>2, OutboxStep
<1>5. \A r \in Readers : \/ candidate'[r] = candidate[r] \/ candidate'[r] = NoAnswer
                         \/ /\ candidate'[r] \in Copies
                            /\ IF candidate'[r] \in Remote THEN Holds(arrived', candidate'[r])
                               ELSE candidate'[r] \in Sent'
  <2>1. CASE peek_nothing
    BY <2>1 DEF peek_nothing
  <2>2. CASE \E r \in Readers : peek(r)
    <3>1. PICK r \in Readers : peek(r)
      BY <2>2
    <3>2. \A x \in Readers : x # r => candidate'[x] = candidate[x]
      BY <3>1 DEF peek, MessageInv, MessageTypes
    <3>3. CASE \E m \in FirstWaiting(arrived') : candidate' = [candidate EXCEPT ![r] = m]
      <4>1. PICK m \in FirstWaiting(arrived') : candidate' = [candidate EXCEPT ![r] = m]
        BY <3>3
      <4>2. PICK i \in DOMAIN arrived' : arrived'[i].id = m
        BY DEF FirstWaiting
      <4>3. m \in Remote
        <5> DEFINE table == arrived'
        <5>1. Listed(table) /\ i \in DOMAIN table
          BY <1>3, <4>2
        <5> HIDE DEF table
        <5>2. table[i].id \in Remote
          BY <5>1, TableRow
        <5> QED BY <4>2, <5>2 DEF table
      <4>4. Holds(arrived', m) /\ m \in Copies
        BY <4>2, <4>3, OfferNames DEF Holds
      <4>5. candidate'[r] = m
        BY <4>1 DEF MessageInv, MessageTypes
      <4> QED BY <3>2, <4>3, <4>4, <4>5
    <3>4. CASE \E m \in {x \in Local \cap Sent : outbox'[x].status = "waiting_read"} :
                  candidate' = [candidate EXCEPT ![r] = m]
      <4>1. PICK m \in Local \cap Sent : candidate' = [candidate EXCEPT ![r] = m]
        BY <3>4
      <4>2. candidate'[r] = m /\ m \in Copies /\ m \notin Remote /\ m \in Sent'
        BY <1>4, <4>1 DEF MessageInv, MessageTypes, Local
      <4> QED BY <3>2, <4>2
    <3> QED BY <3>1, <3>3, <3>4 DEF peek
  <2> QED BY <2>1, <2>2
<1>6. candidate' \in [Readers -> {NoAnswer} \cup Copies]
  <2>1. candidate' = candidate \/ \E r \in Readers : \E m : candidate' = [candidate EXCEPT ![r] = m]
    BY DEF peek_nothing, peek
  <2>2. DOMAIN candidate' = Readers /\ candidate' = [r \in Readers |-> candidate'[r]]
    BY <2>1 DEF MessageInv, MessageTypes
  <2> QED BY <1>5, <2>2 DEF MessageInv, MessageTypes
<1>7. MessageTypes'
  BY <1>1, <1>2, <1>3, <1>4, <1>6 DEF MessageInv, MessageTypes
<1> QED BY <1>1, <1>2, <1>3, <1>4, <1>5, <1>7, NobodyIsGiven

(* The receiving host answers an offer, a question or a cancellation.      *)
LEMMA HandlersKeep ==
    ASSUME MessageInv, NEW c \in Conns, handle_offer(c) \/ handle_status_or_cancel(c)
    PROVE  MessageInv'
<1> DEFINE m == conn[c].req.id
<1>1. /\ IsOpen(c) /\ conn[c].req.type \in {"message.offer", "message.status", "message.cancel"}
      /\ time' = time /\ granted' = granted /\ seen' = seen
      /\ outbox' = outbox /\ flush' = flush /\ candidate' = candidate /\ taken' = taken
  BY DEF handle_offer, handle_status_or_cancel, ServerAt
<1>2. conn[c].req \in Offers /\ m \in Remote
  <2>1. conn[c].req \in Calls
    BY <1>1, MessageFields, ConnFields
  <2> QED BY <1>1, <2>1, OfferNames DEF Calls
<1>3. PICK i \in {m} : TRUE
  OBVIOUS
<1>4. Listed(arrived)
  BY MessageFields
<1>5. ASSUME NEW answer \in Replies, Handle(c, answer), Listed(arrived'), Later(arrived, arrived'),
             answer \in Final => Has(arrived', i, answer)
      PROVE  MessageInv'
  <2>1. /\ LanTypes(Callers, Calls)' /\ CallsKept
        /\ \A r, a : Said(r, a)' => Said(r, a) \/ (r = conn[c].req /\ a = answer)
    BY <1>1, <1>5, MessageFields, CallHandled
  <2>2. FlushersAsk'
    BY <2>1, FlushersStay
  <2>3. \A r \in Offers : \A s \in Final : Said(r, s)' => Said(r, s) \/ Has(arrived', r.id, s)
    BY <1>3, <1>5, <2>1
  <2>4. MessageTypes'
    BY <1>1, <1>5, <2>1 DEF MessageInv, MessageTypes, Sent
  <2>5. OutboxMoves
    <3>1. Sent' = Sent
      BY <1>1 DEF Sent
    <3>2. \A x \in Remote \cap Sent : outbox[x].status \in Final => Has(arrived', x, outbox[x].status)
      BY <1>5 DEF MessageInv, StoredIsTrue, Later, Final
    <3> QED BY <1>1, <3>1, <3>2 DEF OutboxMoves
  <2> QED BY <1>1, <1>5, <2>2, <2>3, <2>4, <2>5, NobodyIsGiven
<1>6. ASSUME NEW table, Listed(table), Later(arrived, table), Holds(table, i),
             arrived' = table, Handle(c, StatusOf(i, table))
      PROVE  MessageInv'
  <2> DEFINE answer == StatusOf(i, table)
  <2>1. Has(table, i, answer) /\ answer \in Replies
    BY <1>6, StatusFound, OfferNames
  <2> HIDE DEF answer
  <2>2. Handle(c, answer)
    BY <1>6 DEF answer
  <2> QED BY <1>5, <1>6, <2>1, <2>2
<1>7. ASSUME NEW answer \in {"transient", "permanent"}, Handle(c, answer), arrived' = arrived
      PROVE  MessageInv'
  <2>1. answer \in Replies /\ answer \notin Final
    BY OfferNames DEF Failures, Final
  <2>2. Later(arrived, arrived)
    BY DEF Later
  <2> QED BY <1>4, <1>5, <1>7, <2>1, <2>2
<1>8. \A t, u, v : Later(t, u) /\ Later(u, v) => Later(t, v)
  BY DEF Later
<1>9. HasArrived(i) <=> Holds(arrived, i)
  BY DEF HasArrived, ArrivalOf, Holds
<1>10. CASE handle_offer(c)
  <2> DEFINE status == IF Overdue THEN "expired" ELSE "waiting_read"
             grown == Append(arrived, [id |-> i, status |-> status])
             base == IF HasArrived(i) THEN arrived ELSE grown
  <2>1. \/ Handle(c, "transient") /\ arrived' = arrived
        \/ arrived' = ExpiredIn(base) /\ Handle(c, StatusOf(i, arrived'))
    BY <1>3, <1>10 DEF handle_offer
  <2>2. Listed(base) /\ Later(arrived, base) /\ Holds(base, i)
    <3>1. CASE HasArrived(i)
      BY <1>4, <1>9, <3>1 DEF Later
    <3>2. CASE ~HasArrived(i)
      <4>1. status \in Open \cup {"expired"} /\ i \in Remote
        BY <1>2, <1>3 DEF Open
      <4> HIDE DEF status
      <4>2. Listed(grown) /\ Later(arrived, grown) /\ Holds(grown, i)
        BY <1>4, <1>9, <3>2, <4>1, ArrivalKeeps
      <4> QED BY <3>2, <4>2
    <3> QED BY <3>1, <3>2
  <2> HIDE DEF base
  <2>3. Listed(ExpiredIn(base)) /\ Later(base, ExpiredIn(base))
    BY <2>2, ExpiryKeeps
  <2> DEFINE table == ExpiredIn(base)
  <2>4. Listed(table) /\ Later(arrived, table) /\ Holds(table, i)
    <3>1. i \in Remote
      BY <1>2, <1>3
    <3> QED BY <1>8, <2>2, <2>3, <3>1 DEF Later
  <2>5. arrived' = table => (Handle(c, StatusOf(i, arrived')) => Handle(c, StatusOf(i, table)))
    OBVIOUS
  <2> HIDE DEF table
  <2> QED BY <1>6, <1>7, <2>1, <2>4, <2>5 DEF table
<1>11. CASE handle_status_or_cancel(c)
  <2> DEFINE current == ExpiredIn(arrived)
             table == IF conn[c].req.type = "message.cancel" THEN CancelWaiting(i, current) ELSE current
  <2>1. \/ Handle(c, "permanent") /\ arrived' = arrived
        \/ HasArrived(i) /\ arrived' = table /\ Handle(c, StatusOf(i, arrived'))
    BY <1>3, <1>11 DEF handle_status_or_cancel
  <2>2. Listed(current) /\ Later(arrived, current)
    BY <1>4, ExpiryKeeps
  <2> HIDE DEF current
  <2>3. Listed(CancelWaiting(i, current)) /\ Later(current, CancelWaiting(i, current))
    BY <2>2, CancellationKeeps
  <2>4. Listed(table) /\ Later(arrived, table)
    BY <1>8, <2>2, <2>3
  <2>5. HasArrived(i) => Holds(table, i)
    <3>1. i \in Remote
      BY <1>2, <1>3
    <3> QED BY <1>9, <2>4, <3>1 DEF Later
  <2>6. arrived' = table => (Handle(c, StatusOf(i, arrived')) => Handle(c, StatusOf(i, table)))
    OBVIOUS
  <2> HIDE DEF table
  <2> QED BY <1>6, <1>7, <2>1, <2>4, <2>5, <2>6
<1> QED BY <1>10, <1>11

(* A reader claims what it has seen: somebody is given the message if it   *)
(* still waits.                                                            *)
LEMMA ClaimKeeps ==
    ASSUME MessageInv, NEW r \in Readers, claim(r)
    PROVE  MessageInv'
<1> DEFINE m == candidate[r]
           current == ExpiredIn(arrived)
<1>1. /\ UNCHANGED lanVars /\ flush' = flush /\ m # NoAnswer
      /\ candidate' = [candidate EXCEPT ![r] = NoAnswer]
  BY DEF claim
<1>2. LanTypes(Callers, Calls)' /\ FlushersAsk' /\ \A req \in Offers : \A s \in Final : Said(req, s)' => Said(req, s)
  BY <1>1, LanSilent
<1>3. m \in Copies /\ (IF m \in Remote THEN Holds(arrived, m) ELSE m \in Sent)
  BY <1>1 DEF MessageInv, MessageTypes, CandidatesAreThere
<1>4. /\ candidate' \in [Readers -> {NoAnswer} \cup Copies]
      /\ \A x \in Readers : candidate'[x] = candidate[x] \/ candidate'[x] = NoAnswer
  BY <1>1 DEF MessageInv, MessageTypes
<1>5. Listed(current) /\ Later(arrived, current)
  BY MessageFields, ExpiryKeeps
<1>6. Later(arrived, arrived)
  BY DEF Later
<1>7. PICK x \in {m} : TRUE
  OBVIOUS
\* Nobody is given anything.
<1>8. ASSUME taken' = taken, Listed(arrived'), Later(arrived, arrived'), OutboxMoves,
             outbox' \in [Sent' -> Copy], Sent' \subseteq Copies
      PROVE  MessageInv'
  <2>1. MessageTypes'
    BY <1>1, <1>2, <1>4, <1>8 DEF MessageInv, MessageTypes
  <2> QED BY <1>2, <1>4, <1>8, <2>1, NobodyIsGiven
\* The reader is given the message.
<1>9. ASSUME taken' = taken \cup {<<r, x>>}, ~IsRead(x), Listed(arrived'),
             \A y \in Remote : Holds(arrived, y) => Holds(arrived', y),
             \A y \in Remote : \A s \in Final : Has(arrived, y, s) => Has(arrived', y, s),
             \A y \in Copies : IsRead(y)' <=> IsRead(y) \/ y = x,
             Sent' = Sent, outbox' \in [Sent' -> Copy],
             \A y \in Remote \cap Sent : outbox'[y].status \in Final => outbox'[y].status = outbox[y].status
      PROVE  MessageInv'
  <2>1. x \in Copies /\ ~Given(x)
    BY <1>3, <1>7, <1>9 DEF MessageInv, ReadersAreRight
  <2>2. taken' \subseteq Readers \X Copies
    BY <1>9, <2>1 DEF MessageInv, MessageTypes
  <2>3. MessageTypes'
    BY <1>1, <1>2, <1>4, <1>9, <2>2 DEF MessageInv, MessageTypes
  <2>4. CandidatesAreThere'
    <3> SUFFICES ASSUME NEW y \in Readers, candidate'[y] # NoAnswer
                 PROVE  IF candidate'[y] \in Remote THEN Holds(arrived', candidate'[y])
                        ELSE candidate'[y] \in Sent'
      BY DEF CandidatesAreThere
    <3>1. candidate'[y] = candidate[y]
      BY <1>4
    <3> QED BY <1>9, <3>1 DEF MessageInv, CandidatesAreThere
  <2>5. ReadersAreRight'
    <3>1. \A y \in Copies : Given(y)' <=> Given(y) \/ y = x
      BY <1>9 DEF Given
    <3>2. ASSUME NEW p \in taken', NEW q \in taken', p[2] = q[2] PROVE p = q
      <4>1. \A z \in taken : z[2] # x
        <5> SUFFICES ASSUME NEW z \in taken, z[2] = x PROVE FALSE
          OBVIOUS
        <5>1. z = <<z[1], z[2]>> /\ z[1] \in Readers
          BY DEF MessageInv, MessageTypes
        <5> QED BY <2>1, <5>1 DEF Given
      <4>2. <<r, x>>[2] = x
        OBVIOUS
      <4> QED BY <1>9, <3>2, <4>1, <4>2 DEF MessageInv, ReadersAreRight
    <3> QED BY <1>9, <3>1, <3>2 DEF MessageInv, ReadersAreRight
  <2>6. SaidIsTrue'
    <3> SUFFICES ASSUME NEW req \in Offers, NEW s \in Final, Said(req, s)'
                 PROVE  Has(arrived', req.id, s)
      BY DEF SaidIsTrue
    <3>1. Has(arrived, req.id, s) /\ req.id \in Remote
      BY <1>2, OfferNames DEF MessageInv, SaidIsTrue
    <3> QED BY <1>9, <3>1
  <2>7. StoredIsTrue'
    BY <1>9 DEF MessageInv, StoredIsTrue
  <2> QED BY <1>2, <2>3, <2>4, <2>5, <2>6, <2>7 DEF MessageInv
<1>10. CASE m \in Remote
  <2> DEFINE won == Claimable(StatusOf(m, current))
  <2>1. /\ arrived' = [i \in DOMAIN current |->
                          IF current[i].id = m /\ won THEN [current[i] EXCEPT !.status = "read"] ELSE current[i]]
        /\ taken' = IF won THEN taken \cup {<<r, m>>} ELSE taken
        /\ outbox' = outbox
    BY <1>10 DEF claim, Local
  <2>2. Sent' = Sent /\ outbox' \in [Sent' -> Copy] /\ Sent' \subseteq Copies
    BY <2>1 DEF Sent, MessageInv, MessageTypes
  <2>3. CASE ~won
    <3>1. current = [i \in DOMAIN current |-> current[i]]
      BY DEF ExpiredIn
    <3>2. arrived' = current
      BY <2>1, <2>3, <3>1
    <3>3. OutboxMoves
      <4>1. \A y \in Remote \cap Sent : outbox[y].status \in Final => Has(current, y, outbox[y].status)
        BY <1>5 DEF MessageInv, StoredIsTrue, Later, Final
      <4> QED BY <2>1, <2>2, <3>2, <4>1 DEF OutboxMoves
    <3> QED BY <1>5, <1>8, <2>1, <2>2, <2>3, <3>2, <3>3
  <2>4. CASE won
    <3>1. Holds(current, m)
      BY <1>3, <1>5, <1>10 DEF Later
    <3>2. Has(current, m, "waiting_read")
      BY <1>5, <2>4, <3>1, StatusFound DEF Claimable
    <3> HIDE DEF current
    <3>3. \A s \in Final : ~Has(current, m, s)
      BY <1>5, <3>2, OneStatus DEF Final
    <3>4. \A i \in DOMAIN current :
             arrived'[i] = IF current[i].id = m THEN [current[i] EXCEPT !.status = "read"] ELSE current[i]
      BY <2>1, <2>4
    <3>5. DOMAIN arrived' = DOMAIN current /\ arrived' = [i \in DOMAIN current |-> arrived'[i]]
      BY <2>1
    <3>6. \A i \in DOMAIN current : /\ arrived'[i] \in Arrival /\ arrived'[i].id = current[i].id
                                 /\ arrived'[i].status = IF current[i].id = m THEN "read" ELSE current[i].status
      <4> SUFFICES ASSUME NEW i \in DOMAIN current
                   PROVE  /\ arrived'[i] \in Arrival /\ arrived'[i].id = current[i].id
                          /\ arrived'[i].status = IF current[i].id = m THEN "read" ELSE current[i].status
        OBVIOUS
      <4>1. current[i] \in Arrival
        BY <1>5, TableRow
      <4> QED BY <3>4, <4>1 DEF Arrival, Closed
    <3> DEFINE table == arrived'
    <3>7. /\ DOMAIN table = DOMAIN current /\ table = [i \in DOMAIN current |-> table[i]]
          /\ \A i \in DOMAIN current : /\ table[i] \in Arrival /\ table[i].id = current[i].id
                                    /\ table[i].status = IF current[i].id = x THEN "read" ELSE current[i].status
      BY <1>7, <3>5, <3>6
    <3> HIDE DEF table
    <3>8. Listed(table) /\ \A y : Holds(table, y) <=> Holds(current, y)
      BY <1>5, <3>7, TableRewritten
    <3>9. \A y, s : y # x => (Has(table, y, s) <=> Has(current, y, s))
      BY <3>7 DEF Has
    <3>10. Has(table, x, "read")
      BY <1>7, <3>2, <3>7 DEF Has
    <3>11. Listed(arrived') /\ \A y \in Remote : Holds(arrived, y) => Holds(arrived', y)
      BY <1>5, <3>8 DEF Later, table
    <3>12. x \in Remote /\ ~IsRead(x)
      BY <1>5, <1>7, <1>10, <3>3 DEF IsRead, Later, Final
    <3>13. \A y \in Remote : \A s \in Final : Has(arrived, y, s) => Has(arrived', y, s)
      <4> SUFFICES ASSUME NEW y \in Remote, NEW s \in Final, Has(arrived, y, s)
                   PROVE  Has(table, y, s)
        BY DEF table
      <4>1. Has(current, y, s)
        BY <1>5 DEF Later, Final
      <4> QED BY <1>7, <3>3, <3>9, <4>1
    <3>14. \A y \in Copies : IsRead(y)' <=> IsRead(y) \/ y = x
      <4> SUFFICES ASSUME NEW y \in Copies PROVE IsRead(y)' <=> IsRead(y) \/ y = x
        OBVIOUS
      <4>1. CASE y \notin Remote
        BY <2>1, <2>2, <3>12, <4>1 DEF IsRead
      <4>2. CASE y \in Remote
        <5>1. IsRead(y)' <=> Has(table, y, "read")
          BY <4>2 DEF IsRead, table
        <5>2. IsRead(y) <=> Has(current, y, "read")
          BY <1>5, <4>2 DEF IsRead, Later
        <5> QED BY <3>9, <3>10, <5>1, <5>2
      <4> QED BY <4>1, <4>2
    <3>15. taken' = taken \cup {<<r, x>>}
      BY <1>7, <2>1, <2>4
    <3> QED BY <1>9, <2>1, <2>2, <3>11, <3>12, <3>13, <3>14, <3>15
  <2> QED BY <2>3, <2>4
<1>11. CASE m \notin Remote
  <2> DEFINE won == Claimable(ExpiredOut[m].status)
  <2>1. /\ outbox' = IF won THEN [ExpiredOut EXCEPT ![m].status = "read"] ELSE ExpiredOut
        /\ taken' = IF won THEN taken \cup {<<r, m>>} ELSE taken
        /\ arrived' = arrived
    BY <1>11 DEF claim
  <2>2. CASE ~won
    <3> DEFINE box == ExpiredOut
    <3>1. /\ outbox' = box /\ DOMAIN box = Sent /\ box = [y \in Sent |-> box[y]]
          /\ \A y \in Sent : /\ box[y] \in Copy
                             /\ \/ box[y].status = outbox[y].status
                                \/ outbox[y].status \in Open /\ box[y].status = "expired"
      BY <2>1, <2>2, ExpiredRows
    <3> HIDE DEF box
    <3>2. OutboxMoves /\ outbox' \in [Sent' -> Copy] /\ Sent' \subseteq Copies
      BY <1>6, <2>1, <3>1, OutboxStep
    <3> QED BY <1>6, <1>8, <2>1, <2>2, <3>2, MessageFields
  <2>3. CASE won
    <3> DEFINE box == ExpiredOut
    <3>1. /\ outbox' = [box EXCEPT ![x].status = "read"] /\ DOMAIN box = Sent /\ box = [y \in Sent |-> box[y]]
          /\ \A y \in Sent : /\ box[y] \in Copy
                             /\ \/ box[y].status = outbox[y].status
                                \/ outbox[y].status \in Open /\ box[y].status = "expired"
          /\ box[x].status = "waiting_read" /\ x \in Sent /\ x \notin Remote /\ x \in Copies
      BY <1>3, <1>7, <1>11, <2>1, <2>3, ExpiredRows DEF Claimable
    <3> HIDE DEF box
    <3>2. Sent' = Sent /\ \A y \in Sent : y # x => outbox'[y] = box[y]
      BY <3>1 DEF Sent
    <3>3. outbox'[x] \in Copy /\ outbox'[x].status = "read"
      <4> DEFINE row == box[x]
      <4>1. row \in Copy /\ outbox'[x] = [row EXCEPT !.status = "read"]
        BY <3>1
      <4> HIDE DEF row
      <4> QED BY <4>1 DEF Copy, Closed
    <3>4. outbox' = [y \in Sent |-> outbox'[y]]
      BY <3>1
    <3>5. outbox' \in [Sent' -> Copy]
      BY <3>1, <3>2, <3>3, <3>4
    <3>6. ~IsRead(x)
      BY <3>1 DEF IsRead
    <3>7. \A y \in Copies : IsRead(y)' <=> IsRead(y) \/ y = x
      <4> SUFFICES ASSUME NEW y \in Copies PROVE IsRead(y)' <=> IsRead(y) \/ y = x
        OBVIOUS
      <4>1. CASE y \in Remote
        BY <2>1, <3>1, <4>1 DEF IsRead
      <4>2. CASE y \notin Remote /\ y # x
        <5>1. y \in Sent => (outbox'[y].status = "read" <=> outbox[y].status = "read")
          BY <3>1, <3>2, <4>2 DEF Open
        <5> QED BY <3>2, <4>2, <5>1 DEF IsRead
      <4>3. CASE y = x
        BY <3>1, <3>2, <3>3, <4>3 DEF IsRead
      <4> QED BY <4>1, <4>2, <4>3
    <3>8. \A y \in Remote \cap Sent : outbox'[y].status \in Final => outbox'[y].status = outbox[y].status
      BY <3>1, <3>2, OfferNames
    <3>9. taken' = taken \cup {<<r, x>>}
      BY <1>7, <2>1, <2>3
    <3> QED BY <1>9, <2>1, <3>2, <3>5, <3>6, <3>7, <3>8, <3>9, MessageFields
  <2> QED BY <2>2, <2>3
<1> QED BY <1>10, <1>11

(* Nothing is sent, asked for, received or given.                          *)
LEMMA MessagesStart == LanInit(0) /\ MessageInit => MessageInv
<1> SUFFICES ASSUME LanInit(0), MessageInit PROVE MessageInv
  OBVIOUS
<1>1. LanTypes(Callers, Calls)
  BY DEF LanInit, LanTypes
<1>2. Sent = {} /\ outbox \in [Sent -> Copy]
  BY DEF MessageInit, Sent
<1>3. Listed(arrived) /\ \A m, s : ~Has(arrived, m, s)
  BY EmptySeq DEF MessageInit, Listed, Has
<1>4. Idle \in [at : {"idle", "calling"}, rows : SUBSET FlushRow]
  BY DEF Idle
<1>5. MessageTypes
  BY <1>1, <1>2, <1>3, <1>4 DEF MessageInit, MessageTypes
<1>6. FlushersAsk /\ \A req, s : ~Said(req, s)
  BY DEF LanInit, FlushersAsk, IsOpen, Free, Said
<1>7. CandidatesAreThere
  BY DEF MessageInit, CandidatesAreThere
<1>8. ReadersAreRight
  BY <1>2, <1>3 DEF MessageInit, ReadersAreRight, IsRead, Given
<1> QED BY <1>2, <1>5, <1>6, <1>7, <1>8 DEF MessageInv, SaidIsTrue, StoredIsTrue

(* Every step of senders, receivers, readers and the LAN keeps it.         *)
LEMMA MessageKeeps == MessageInv /\ [MessageNext]_<<lanVars, messageVars>> => MessageInv'
<1> SUFFICES ASSUME MessageInv, [MessageNext]_<<lanVars, messageVars>> PROVE MessageInv'
  OBVIOUS
<1>1. CASE UNCHANGED <<lanVars, messageVars>>
  BY <1>1, MessagesRest DEF messageVars
<1>2. CASE message_tick
  BY <1>2, MessagesRest DEF message_tick, messageVars
<1>3. CASE \E c \in Conns : Thread(c) /\ UNCHANGED messageVars
  BY <1>3, MessagesRest DEF messageVars
<1>4. CASE \E c \in Conns : handle_offer(c) \/ handle_status_or_cancel(c)
  BY <1>4, HandlersKeep
<1>5. CASE peek_nothing \/ \E r \in Readers : Receiving(r)
  BY <1>5, PeekKeeps, ClaimKeeps DEF Receiving
<1>6. CASE \E f \in Flushers : Flushing(f)
  BY <1>6, SenderKeeps, FlushKeeps, AnswerKeeps DEF Flushing
<1>7. CASE register_instance
  BY <1>7, MessagesRest DEF register_instance
<1>8. CASE PeerDirectory /\ UNCHANGED messageVars
  BY <1>8, MessagesRest DEF messageVars
<1> QED BY <1>1, <1>2, <1>3, <1>4, <1>5, <1>6, <1>7, <1>8 DEF MessageNext, MessageStep

(* The hosts' tables, what is said between them and what readers were      *)
(* given agree, whatever is offered again, lost, overtaken or cancelled.   *)
THEOREM MessagesAgree == MessageSpec => []MessageInv
BY MessagesStart, MessageKeeps, PTL DEF MessageSpec

(* A message arrives once and is given to one reader.                      *)
THEOREM MessagesGivenOnce == MessageSpec => []GivenOnce
<1>1. MessageInv => GivenOnce
  <2> SUFFICES ASSUME MessageInv PROVE GivenOnce
    OBVIOUS
  <2>1. ASSUME NEW m \in Remote PROVE Cardinality(ArrivalOf(m)) <= 1
    <3>1. \A i, j \in ArrivalOf(m) : i = j
      BY MessageFields DEF Listed, ArrivalOf
    <3>2. CASE ArrivalOf(m) = {}
      BY <3>2, FS_EmptySet
    <3>3. CASE ArrivalOf(m) # {}
      <4>1. PICK i : ArrivalOf(m) = {i}
        BY <3>1, <3>3
      <4> QED BY <4>1, FS_Singleton
    <3> QED BY <3>2, <3>3
  <2> QED BY <2>1 DEF GivenOnce, MessageInv, ReadersAreRight
<1> QED BY <1>1, MessagesAgree, PTL

(* What the sender is told of a message's end is true, and stays true.     *)
THEOREM SenderIsToldTheTruth == MessageSpec => []ReportsAreTrue
<1>1. MessageInv => ReportsAreTrue
  <2> SUFFICES ASSUME MessageInv, NEW m \in Sent
               PROVE  /\ outbox[m].status = "read" => \E r \in Readers : <<r, m>> \in taken
                      /\ outbox[m].status = "cancelled" =>
                            /\ \A r \in Readers : <<r, m>> \notin taken
                            /\ m \in Remote => HasArrived(m) /\ RemoteStatus(m) = "cancelled"
    BY DEF ReportsAreTrue
  <2>1. m \in Copies /\ (IsRead(m) <=> Given(m))
    BY MessageFields DEF MessageInv, ReadersAreRight
  <2>2. m \in Remote /\ outbox[m].status \in Final => Has(arrived, m, outbox[m].status)
    BY DEF MessageInv, StoredIsTrue
  <2>3. CASE outbox[m].status = "read"
    BY <2>1, <2>2, <2>3 DEF IsRead, Given, Final
  <2>4. CASE outbox[m].status = "cancelled"
    <3>1. ~IsRead(m)
      <4>1. CASE m \in Remote
        BY <2>2, <2>4, <4>1, MessageFields, OneStatus DEF IsRead, Final
      <4>2. CASE m \notin Remote
        BY <2>4, <4>2 DEF IsRead
      <4> QED BY <4>1, <4>2
    <3>2. m \in Remote => HasArrived(m) /\ RemoteStatus(m) = "cancelled"
      <4> SUFFICES ASSUME m \in Remote PROVE HasArrived(m) /\ RemoteStatus(m) = "cancelled"
        OBVIOUS
      <4>1. Has(arrived, m, "cancelled")
        BY <2>2, <2>4 DEF Final
      <4>2. PICK i \in ArrivalOf(m) : arrived[i].status = "cancelled"
        BY <4>1 DEF Has, ArrivalOf
      <4>3. \A k \in ArrivalOf(m) : k = i
        BY MessageFields DEF Listed, ArrivalOf
      <4> QED BY <4>2, <4>3 DEF HasArrived, RemoteStatus
    <3> QED BY <2>1, <2>4, <3>1, <3>2 DEF Given
  <2> QED BY <2>3, <2>4
<1> QED BY <1>1, MessagesAgree, PTL
=============================================================================
